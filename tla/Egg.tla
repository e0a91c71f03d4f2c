----------------------------------- MODULE Egg -----------------------------------
(***************************************************************************)
(* Importing a Pterodactyl egg as a template, and the rules of its variable once  *)
(* a server is built on it. A rule string is a sequence of tokens: the names of   *)
(* rules, the bar that ends one, and the characters of a pattern, which are      *)
(* letters, a bar, a colon, brackets, and the delimiter PHP writes around it.     *)
(***************************************************************************)
EXTENDS Naturals, Sequences, SequencesExt, FiniteSets

CONSTANTS
  MaxPattern, \* characters of a pattern: a bound
  Longest,    \* the argument of "max"
  Unset       \* no template, no value

EggAssumption == MaxPattern \in Nat /\ Longest \in Nat

VARIABLES
  egg,      \* the egg that was imported last
  template, \* the template it became
  warnings, \* what the import said it could not carry
  stored    \* the value of the variable on the server built on the template

vars == <<egg, template, warnings, stored>>

Letter  == {"a", "b"}
Texts   == UNION {[1 .. n -> Letter \cup {":"}] : n \in 0 .. 2}
Pattern == {p \in UNION {[1 .. n -> Letter \cup {":", "|", "(", ")"}] : n \in 1 .. MaxPattern} :
              /\ \A i \in 1 .. Len(p) : p[i] = "(" => i + 2 \in 1 .. Len(p) /\ p[i + 2] = ")"
              /\ \A i \in 1 .. Len(p) : p[i] = ")" => i - 2 \in 1 .. Len(p) /\ p[i - 2] = "("}

\* An egg wraps a pattern, may close it badly, and may write flags behind it.
Quoted(p)  == {<<"regex:", "/">> \o p \o <<"/">>, <<"regex:", "/">> \o p, <<"regex:", "/">> \o p \o <<"/", "i">>}
Rules      == {<<r>> : r \in UNION {Quoted(p) : p \in Pattern}}
                \cup {<<<<"required">>, r, <<"max">>>> : r \in UNION {Quoted(p) : p \in Pattern}}
Settings   == {"text", "nested", "flag"}   \* a string, an object of strings, true or a number
Place      == {"port", "node"}             \* placeholders with a counterpart here, and without
Parser     == {"ini", "xml"}
Plain == <<<<"required">>>>
Eggs  == [runs : {TRUE}, rules : Rules, parser : {"ini"}, file : {{}}, startup : {{}}, editable : BOOLEAN, names : {<<"good">>}]
           \cup [runs : BOOLEAN, rules : {Plain}, parser : Parser, file : SUBSET Settings, startup : SUBSET Place,
                 editable : {TRUE}, names : {<<"good">>}]
           \cup [runs : {TRUE}, rules : {Plain}, parser : {"ini"}, file : {{}}, startup : {{}},
                 editable : {TRUE}, names : {<<"good", "good">>, <<"bad">>}]

TypeOK ==
  /\ stored \in Texts \cup {Unset}
  /\ template # Unset => template.file \in SUBSET Settings /\ template.variables \in 0 .. 1
  /\ warnings \subseteq {"parser", "variable", "pattern", "placeholder"}

Init == egg = Unset /\ template = Unset /\ warnings = {} /\ stored = Unset

-----------------------------------------------------------------------------
(***************************************************************************)
(* Rule strings. The import knows a pattern when it sees one; the panel's own     *)
(* validator splits at every bar.                                             *)
(***************************************************************************)
Joined(rules) ==
  LET text[n \in 0 .. Len(rules)] ==
        IF n = 0 THEN <<>> ELSE IF n = 1 THEN rules[1] ELSE text[n - 1] \o <<"|">> \o rules[n]
  IN  text[Len(rules)]

Start == [parts |-> <<>>, buffer |-> <<>>, inside |-> FALSE]

Closed(s) == IF s.buffer = <<>> THEN s.parts ELSE Append(s.parts, s.buffer)

\* Inside the delimiters a bar is part of the pattern, to whoever knows of patterns.
Reads(s, c, knows) ==
  IF c = "|" /\ ~s.inside THEN [parts |-> Closed(s), buffer |-> <<>>, inside |-> FALSE]
  ELSE [parts |-> s.parts, buffer |-> Append(s.buffer, c),
        inside |-> IF s.inside THEN c # "/" ELSE knows /\ s.buffer = <<"regex:">> /\ c = "/"]

Parts(text, knows) ==
  LET read[n \in 0 .. Len(text)] == IF n = 0 THEN Start ELSE Reads(read[n - 1], text[n], knows)
  IN  Closed(read[Len(text)])

Split(text)      == Parts(text, FALSE)
SplitRules(text) == Parts(text, TRUE)

UnwrapPhpRegex(raw) ==
  LET ends == {i \in 2 .. Len(raw) : raw[i] = "/"}
  IN  IF raw[1] # "/" THEN raw
      ELSE IF ends = {} THEN Unset ELSE SubSeq(raw, 2, (CHOOSE i \in ends : \A j \in ends : j <= i) - 1)

IsPattern(rule) == rule[1] = "regex:"
Argument(rule)  == UnwrapPhpRegex(Tail(rule))
\* Mutant: a pattern with a bar in it is kept.
Dropped_Unclosed(rule) == IsPattern(rule) /\ Argument(rule) = Unset
Dropped(rule)   == IsPattern(rule) /\ (Argument(rule) = Unset \/ "|" \in ToSet(Argument(rule)))
Bare(rule)      == IF IsPattern(rule) THEN <<"regex:">> \o Argument(rule) ELSE rule

Kept(rules) ==
  LET kept[n \in 0 .. Len(rules)] ==
        IF n = 0 THEN <<>> ELSE IF Dropped(rules[n]) THEN kept[n - 1] ELSE Append(kept[n - 1], Bare(rules[n]))
  IN  kept[Len(rules)]

TranslateRules(text) ==
  LET kept == Kept(SplitRules(text)) IN IF kept = <<>> THEN <<"string">> ELSE Joined(kept)

-----------------------------------------------------------------------------
(***************************************************************************)
(* What a value has to satisfy. Brackets group; the pattern is anchored at both  *)
(* ends. In the panel a rule and its argument are what stands around the first     *)
(* colon, and what stands behind a second one is cut off.                        *)
(***************************************************************************)
Ungrouped(p)  == SelectSeq(p, LAMBDA c : c \notin {"(", ")"})
Matches(p, v) == v \in ToSet(Split(Ungrouped(p)))

EggRefuses(rule, v) ==
  \/ rule[1] = "required" /\ v = <<>>
  \/ rule[1] = "max" /\ Len(v) > Longest
  \/ IsPattern(rule) /\ Argument(rule) # Unset /\ v # <<>> /\ ~Matches(Argument(rule), v)

CutAt(p)  == LET colons == {i \in DOMAIN p : p[i] = ":"} IN IF colons = {} THEN Len(p) ELSE (CHOOSE i \in colons : \A j \in colons : i <= j) - 1
Cut(p)    == SubSeq(p, 1, CutAt(p))
Broken(p) == ("(" \in ToSet(p)) # (")" \in ToSet(p))

Test(p, v) == IF Cut(p) = p THEN Matches(p, v) ELSE IsPrefix(Ungrouped(Cut(p)), v)

\* A broken pattern ends the checks: it "must not block the customer".
Verdict(rule, v) ==
  CASE rule[1] = "max" /\ Len(v) > Longest                                    -> "refused"
    [] IsPattern(rule) /\ Broken(Cut(Tail(rule)))                             -> "accepted"
    [] IsPattern(rule) /\ ~Broken(Cut(Tail(rule))) /\ ~Test(Tail(rule), v)    -> "refused"
    [] OTHER                                                                  -> "next"

ValidateAgainstRules(text, v) ==
  LET rules   == Split(text)
      decides == {i \in DOMAIN rules : Verdict(rules[i], v) # "next"}
  IN  IF v = <<>> THEN <<"required">> \notin ToSet(rules)
      ELSE \A i \in decides : (\A j \in decides : i <= j) => Verdict(rules[i], v) = "accepted"

-----------------------------------------------------------------------------
(***************************************************************************)
(* The import.                                                             *)
(***************************************************************************)
\* A nested object becomes dotted keys; what is neither text nor an object is no entry.
Entries(e)     == e.file \cap {"text", "nested"}
Supported(e)   == e.parser = "ini"
Unresolved(e)  == "node" \in e.startup
Usable(e)      == {i \in DOMAIN e.names : e.names[i] = "good" /\ \A j \in 1 .. i - 1 : e.names[j] # e.names[i]}

Says(e) ==
  {w \in {"parser", "variable", "pattern", "placeholder"} :
     \/ w = "parser" /\ Entries(e) # {} /\ ~Supported(e)
     \/ w = "variable" /\ Cardinality(Usable(e)) < Len(e.names)
     \/ w = "pattern" /\ \E r \in ToSet(SplitRules(Joined(e.rules))) : Dropped(r)
     \/ w = "placeholder" /\ Unresolved(e)}

ConvertEgg(e) ==
  [file |-> IF Supported(e) THEN Entries(e) ELSE {}, rules |-> TranslateRules(Joined(e.rules)),
   editable |-> e.editable, variables |-> Cardinality(Usable(e))]

\* An egg without a name, a startup line or an image is refused, and nothing is kept.
ImportTemplate(e) ==
  /\ e.runs
  /\ egg' = e /\ template' = ConvertEgg(e) /\ warnings' = Says(e) /\ UNCHANGED stored

\* The defaults of the eggs are empty; at the creation every value can be given.
BuildEnvironment(v) ==
  /\ template # Unset /\ template.variables > 0 /\ ValidateAgainstRules(template.rules, v)
  /\ stored' = v /\ UNCHANGED <<egg, template, warnings>>

CreateServer(v) == stored = Unset /\ BuildEnvironment(v)
PutVariables(v) == stored # Unset /\ BuildEnvironment(IF template.editable THEN v ELSE <<>>)

DeleteTemplate ==
  /\ template # Unset /\ stored = Unset
  /\ egg' = Unset /\ template' = Unset /\ warnings' = {} /\ UNCHANGED stored

\* One template is looked at at a time.
Next ==
  \/ template = Unset /\ \E e \in Eggs : ImportTemplate(e)
  \/ \E v \in Texts : CreateServer(v) \/ PutVariables(v)
  \/ DeleteTemplate

Spec == Init /\ [][Next]_vars

-----------------------------------------------------------------------------
\* The validator tears at every bar, and what an import hands it is never torn:
\* each rule it reads is a rule of the egg, with its delimiters taken off.
NoTornRule ==
  template # Unset =>
    ToSet(Split(template.rules)) \subseteq {Bare(r) : r \in {q \in ToSet(egg.rules) : ~Dropped(q)}} \cup {<<"string">>}

\* A value the egg's own rules refuse is refused here too, on every server built on the
\* template, where the import kept all patterns - unless a colon stands in one, behind
\* which the validator reads no further and may end its checks.
StillRefused ==
  template # Unset /\ stored # Unset /\ "pattern" \notin warnings =>
    \/ \E r \in ToSet(egg.rules) : IsPattern(r) /\ ":" \in ToSet(Argument(r))
    \/ \A r \in ToSet(egg.rules) : ~EggRefuses(r, stored)
===============================================================================
