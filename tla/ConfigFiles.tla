------------------------------- MODULE ConfigFiles -------------------------------
(***************************************************************************)
(* A game's own configuration file, which the customer edits, the game reads when it  *)
(* boots and writes when it goes down, and the agent rewrites on the way up so that  *)
(* it says what the panel gave the server.                                       *)
(*                                                                         *)
(* An .ini or .properties file is a sequence of lines: entries, headers of sections   *)
(* and whatever else is in it. A .json or .yml one is its leaves, by their paths.   *)
(***************************************************************************)
EXTENDS Naturals, Sequences, FiniteSets, SequencesExt

CONSTANTS
  Section, Field, Worth, \* names of sections, of keys in them, and what a key may say
  Sectionless,                  \* the section of a key that has none
  MaxLines, MaxEdits     \* what a file may grow to, and edits made: bounds

ConfigFilesAssumption == Sectionless \notin Section /\ MaxLines \in Nat /\ MaxEdits \in Nat

VARIABLES
  parser, \* what the template says of the file
  wanted, \* what the panel wants it to say
  file,   \* its lines,
  tree,   \* or its leaves
  boot,   \* the game: down, up, on its way down for a restart
  holds,  \* what it read when it booted
  edits

vars == <<parser, wanted, file, tree, boot, holds, edits>>

-----------------------------------------------------------------------------
Keys  == (Section \cup {Sectionless}) \X Field
Entry == [kind : {"entry"}, name : Field, worth : Worth]
Title == [kind : {"section"}, name : Section, worth : Worth]
Other == [kind |-> "other", name |-> Sectionless, worth |-> CHOOSE w \in Worth : TRUE]
Line  == Entry \cup Title \cup {Other}
Parsers == {"properties", "ini", "json"}

Says(k, w) == [kind |-> "entry", name |-> k[2], worth |-> w]
Header(s)  == [kind |-> "section", name |-> s, worth |-> Other.worth]

\* applyIni: an entry is known by the section it stands in; applyProperties has none.
IsHeader(lines, i) == lines[i].kind = "section"
InSection(lines, i, s) ==
  \/ s = Sectionless /\ \A j \in 1 .. i : ~IsHeader(lines, j)
  \/ \E h \in 1 .. i : IsHeader(lines, h) /\ lines[h].name = s /\ \A j \in h + 1 .. i : ~IsHeader(lines, j)

Qualified(lines, i, k) == lines[i].kind = "entry" /\ lines[i].name = k[2] /\ InSection(lines, i, k[1])

\* The first line of a key is rewritten, ...
IsFirst(lines, i, k) == Qualified(lines, i, k) /\ \A j \in 1 .. i - 1 : ~Qualified(lines, j, k)
Rewritten(lines, want) ==
  [i \in DOMAIN lines |->
     IF \E k \in DOMAIN want : IsFirst(lines, i, k)
     THEN [lines[i] EXCEPT !.worth = want[CHOOSE k \in DOMAIN want : IsFirst(lines, i, k)]] ELSE lines[i]]

\* ... and the keys without a line get one at the end, grouped by their sections, each under
\* its section's name again. In which order is the template's.
Missing(lines, want) == {k \in DOMAIN want : \A i \in DOMAIN lines : ~Qualified(lines, i, k)}
Additions(lines, want) ==
  {[of |-> k[1], line |-> Says(k, want[k])] : k \in Missing(lines, want)}
    \cup {[of |-> s, line |-> Header(s)] : s \in {k[1] : k \in Missing(lines, want)} \ {Sectionless}}

Grouped(t) ==
  \A a, c \in DOMAIN t : a < c /\ t[a].of = t[c].of =>
    t[c].line.kind # "section" /\ \A b \in a .. c : t[b].of = t[a].of

Endings(lines, want) ==
  LET these == Additions(lines, want) IN
  {t \in [1 .. Cardinality(these) -> these] : (\A x \in these : \E i \in DOMAIN t : t[i] = x) /\ Grouped(t)}

Applied(lines, want) ==
  {Rewritten(lines, want) \o [i \in DOMAIN t |-> t[i].line] : t \in Endings(lines, want)}

\* applyJson and applyYaml, setDeep: a leaf where a path goes through becomes an object,
\* an object where one ends becomes a leaf.
Crosses(p, q) == (p[1] = Sectionless /\ p[2] = q[1]) \/ (q[1] = Sectionless /\ q[2] = p[1])
SetDeep(leaves, want) ==
  [p \in {q \in DOMAIN leaves : \A k \in DOMAIN want : ~Crosses(q, k)} \cup DOMAIN want |->
     IF p \in DOMAIN want THEN want[p] ELSE leaves[p]]

-----------------------------------------------------------------------------
\* What the game makes of it: the last word on a key counts.
IsLast(lines, i, k) == Qualified(lines, i, k) /\ \A j \in DOMAIN lines : Qualified(lines, j, k) => j <= i
Read(lines) ==
  [k \in {q \in Keys : \E i \in DOMAIN lines : Qualified(lines, i, q)} |->
     lines[CHOOSE i \in DOMAIN lines : IsLast(lines, i, k)].worth]

What(lines, leaves) == IF parser = "json" THEN leaves ELSE Read(lines)

Wants == UNION {[{pair[1], pair[2]} -> Worth] : pair \in Keys \X Keys}
Unsectioned == {w \in Wants : \A k \in DOMAIN w : k[1] = Sectionless}
Trees == {w \in Wants : \A p, q \in DOMAIN w : ~Crosses(p, q)}
Nothing == [k \in {} |-> Other.worth]

TypeOK ==
  /\ parser \in Parsers /\ wanted \in Wants
  /\ file \in Seq(Line) /\ Len(file) <= MaxLines + 4
  /\ DOMAIN tree \subseteq Keys /\ \A p, q \in DOMAIN tree : ~Crosses(p, q)
  /\ boot \in {"down", "up", "ending"}
  /\ DOMAIN holds \subseteq Keys /\ edits \in 0 .. MaxEdits

\* A file that is not there reads like one that is empty.
Init ==
  /\ parser \in Parsers /\ wanted \in CASE parser = "ini" -> Wants [] parser = "json" -> Trees [] OTHER -> Unsectioned
  /\ file \in UNION {[1 .. n -> Line] : n \in 0 .. 1}
  /\ parser = "properties" => \A i \in DOMAIN file : file[i].kind # "section"
  /\ parser = "json" => file = <<>>
  /\ tree \in IF parser = "json" THEN Trees \cup {Nothing} ELSE {Nothing}
  /\ boot = "down" /\ holds = What(file, tree) /\ edits = 0

-----------------------------------------------------------------------------
(***************************************************************************)
(* The customer, who has the file, and the panel, which sends the agent what the file  *)
(* is to say when a port or a limit changes.                                   *)
(***************************************************************************)
Edits == edits < MaxEdits /\ edits' = edits + 1

EditLine ==
  /\ Edits /\ parser # "json"
  /\ \E line \in Line :
       /\ parser = "properties" => line.kind # "section"
       /\ \/ Len(file) < MaxLines /\ \E i \in 1 .. Len(file) + 1 : file' = InsertAt(file, i, line)
          \/ \E i \in DOMAIN file : file' \in {[file EXCEPT ![i] = line], RemoveAt(file, i)}
  /\ UNCHANGED <<parser, wanted, tree, boot, holds>>

EditDocument ==
  /\ Edits /\ parser = "json" /\ tree' \in Trees
  /\ UNCHANGED <<parser, wanted, file, boot, holds>>

PushSpec ==
  /\ Edits /\ \E w \in [DOMAIN wanted -> Worth] : wanted' = w
  /\ UNCHANGED <<parser, file, tree, boot, holds>>

-----------------------------------------------------------------------------
(***************************************************************************)
(* Power. The file is rewritten before the container is told to start, and before it   *)
(* is told to restart, when the game is still up. One that cannot be rewritten is left  *)
(* as it is.                                                               *)
(***************************************************************************)
\* A key without a section is written once more each time, to the end: the bound on
\* what a file grows to is here.
ApplyConfigFiles ==
  /\ Len(file) <= MaxLines
  /\ \/ UNCHANGED <<file, tree>>
     \/ IF parser = "json" THEN tree' = SetDeep(tree, wanted) /\ UNCHANGED file
        ELSE file' \in Applied(file, wanted) /\ UNCHANGED tree

Start ==
  /\ boot = "down" /\ boot' = "up"
  /\ ApplyConfigFiles /\ holds' = What(file', tree')
  /\ UNCHANGED <<parser, wanted, edits>>

Restart ==
  /\ boot = "up" /\ boot' = "ending"
  /\ ApplyConfigFiles
  /\ UNCHANGED <<parser, wanted, holds, edits>>

\* On its way down the game may write what it holds, into the lines it has read.
Save ==
  /\ tree' \in IF parser = "json" THEN {tree, holds} ELSE {tree}
  /\ file' \in {file, [i \in DOMAIN file |->
    IF \E k \in DOMAIN holds : Qualified(file, i, k)
    THEN [file[i] EXCEPT !.worth = holds[CHOOSE k \in DOMAIN holds : Qualified(file, i, k)]] ELSE file[i]]}

Stop ==
  /\ boot = "up" /\ boot' = "down" /\ Save
  /\ UNCHANGED <<parser, wanted, holds, edits>>

ComesBack ==
  /\ boot = "ending" /\ boot' = "up" /\ Save /\ holds' = What(file', tree')
  /\ UNCHANGED <<parser, wanted, edits>>

Next == EditLine \/ EditDocument \/ PushSpec \/ Start \/ Restart \/ Stop \/ ComesBack

Spec == Init /\ [][Next]_vars

-----------------------------------------------------------------------------
\* What is in the file that the panel did not ask for stays where it is; and of what it
\* asked for every key is there afterwards.
Others(lines, want) == {i \in DOMAIN lines : \A k \in DOMAIN want : ~Qualified(lines, i, k)}

Visits(lines, want) ==
  \A done \in Applied(lines, want) :
    /\ \A i \in Others(lines, want) : i \in DOMAIN done /\ done[i] = lines[i]
    /\ \A i \in DOMAIN done \ DOMAIN lines : IsHeader(done, i) \/ \E k \in DOMAIN want : done[i] = Says(k, want[k])
    /\ \A k \in DOMAIN want :
         \/ \E i \in DOMAIN done : Qualified(done, i, k)
         \/ k[1] = Sectionless /\ \E i \in DOMAIN done : IsHeader(done, i)

\* "Comments, blank lines and ordering are preserved - this file usually belongs to the
\* customer, and we are only visiting" (config-files.service.ts): whatever the customer
\* and the game have made of the file, and whatever the panel wants of it, the lines that
\* are not of its keys stay as they are and where they are, nothing but its keys and
\* headers over them is added, and each of its keys is there afterwards, in its own
\* section - a key without one only if no section is.
OnlyVisiting ==
  IF parser # "json" THEN Visits(file, wanted)
  ELSE LET done == SetDeep(tree, wanted) IN
       \A k \in DOMAIN tree \ DOMAIN wanted : (\A q \in DOMAIN wanted : ~Crosses(k, q)) => k \in DOMAIN done /\ done[k] = tree[k]

===============================================================================
