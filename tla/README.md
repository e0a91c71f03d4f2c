# Storm Panel: a formal model

TLA+ specifications of the parts of Storm Panel in which several actors touch
the same row, file, container or page, the TLC configurations that check them
on small instances, and TLAPS proofs of what matters most for instances of any
size. Paths below are relative to `src/`.

| Module | What it models | Checked by | Proved in |
|---|---|---|---|
| `ServerLifecycle` | power, installs, reports, housekeeping | itself | `ServerLifecycleProofs` |
| `Transfer` | moving a server between nodes | itself | `TransferProofs` |
| `Schedules` | cron schedules, their claim and runs | itself | `SchedulesProofs` |
| `PortOwnership` | what the panel promises about ports | | |
| `Allocations` | how it does it | `MCPanel` | `PanelProofs` |
| `Backups`, `Databases`, `ServerDeletion` | a server's backups and databases, and its deletion beside both | `MCServerDeletion` | `DeletionProofs` |
| `SessionLife` | what becomes of a session, abstractly | | |
| `Sessions`, `Account`, `Members` | browsers and rotation; password and second factor; ways to become a user | `MCIdentity` | `IdentityProofs` |
| `NodeHealth`, `AutoRestart`, `Console`, `ServerSpec`, `Webhooks` | what the panel looks after unasked | `MCFleet` | `FleetProofs` |
| `Access`, `Settings`, `LivePage`, `NewServer`, `FilesPage`, `SecurityPage`, `NodesPage` | sockets and pages that stay open | `MCBrowser` | `BrowserProofs` |
| `NodeCredentials`, `Catalogue`, `Files`, `DiskBudget`, `Players`, `ConfigFiles`, `Egg`, `Ceilings`, `Updates` | requests that read first and write later, one kind each | `MCPanel` | `PanelProofs` |

To check one: `tlc -config Transfer.cfg Transfer`; to prove one:
`tlapm TransferProofs.tla`. `PROJECT.json` lists the runs, the lines each
definition models (but for sets of values and groupings of actions, which model none), the
hazards and the mutants. A mutant is a plausible bug for
one property, an operator defined before the one it would replace, with a
comment saying so (`Shared_Unshared`, `Repairs_Never`, `AtEnd_EmptyBatch`, ...);
nothing else uses it, and with it TLC finds the property violated.

## 1. The system

Storm Panel is a web panel for game servers. `apps/api` (Fastify, Prisma on
PostgreSQL, BullMQ on Redis) holds every decision and every row;
`apps/node-agent` runs on each machine, drives Docker and the disk there, and
reports back; `apps/web` (Next.js) shows it all. The API is also the worker:
`workers/index.ts` starts the queues' consumers in its own process, and there may
be several replicas of it.

How the parts interact:

- *API to node*: signed HTTP (`services/agent-client.ts`). A call takes
  seconds to hours and its answer can be lost after the node did the work.
- *Node to API*: fire-and-forget POSTs, a heartbeat every interval and a status
  report on changes (`routes/internal.routes.ts`). They may be lost or overtaken.
- *API to worker*: BullMQ jobs (`plugins/queues.ts`) with a number of attempts,
  and one redelivery, not counted as an attempt, if the worker's process died.
- *Worker to worker*: only through rows. There is no lock; exclusion is by
  compare-and-swap (`updateMany` with the expected value in `where`, then a look
  at the count) where the authors thought of it, and by check-then-act elsewhere.
- *API to browser*: answers, and two sockets: one per server for its console,
  one per account for events. A page keeps copies of both and acts on them.

Hence the recurring difficulty: somebody reads a row, awaits a node, the
database or a person, and writes; whatever happened meanwhile is not seen.

### Components

| Component | State | Operations | What is hard | What makes it correct |
|---|---|---|---|---|
| Server lifecycle and install jobs: `services/server.service.ts`, `workers/install.worker.ts`, `routes/internal.routes.ts`, the node's `docker.service.ts` | `server.status`, `suspendedAt`, `installedAt`, `installStartedAt`; the game container, the install container | power, reinstall, suspend, unsuspend, spec push, install attempt, status report, heartbeat, stalled-install sweep | four kinds of writers of one status, none with a lock; retries and redeliveries; lost answers; late reports | never run what was never installed; nobody stays INSTALLING, STARTING or STOPPING for good; the sweep spares live installs |
| Moving a server: `workers/transfer.worker.ts`, `routes/admin/servers.routes.ts` | `server.nodeId`, both nodes' container and files, archive and its row, ports | ask, twelve steps, unwinding | any step fails, also after having done its work; a dead worker; a start in between | the node named by the row always has the whole world; a failed move leaves nothing behind |
| Schedules: `workers/maintenance.worker.ts`, `workers/schedule.worker.ts`, `routes/schedules.routes.ts` | `isProcessing`, `claimedAt`, `nextRunAt`, task rows | tick, run now, run, release of lost claims, edit, delete | replicas tick at once; a claim has no owner; jobs lost, late or redelivered | one run at a time; no claim stuck for ever; what is due is run |
| Ports and creation: `services/server.service.ts`, `routes/servers.routes.ts`, `routes/admin/nodes.routes.ts` | `serverAllocation.serverId`, `isPrimary` | create, add, remove, make primary, delete, provide, prune | everybody reads first | a port given is a port nobody had; a creation gets all or nothing |
| Backups and restores: `workers/backup.worker.ts`, `routes/backups.routes.ts`, the node's `backup.service.ts` | backup row, archive and checksum, the server's files | make, restore, lock, delete, retention | retention against restore, dead workers, retries, an archive that rots | a COMPLETED row has its archive; a refused restore touches nothing; nothing stays RUNNING or RESTORING |
| Databases: `services/database-provisioner.ts` | row, database and account on the host | create, rotate, drop | one of two systems fails | no row without a database |
| Server deletion: `routes/servers.routes.ts` | all of the above | drop on node, databases, archives, row | fails in the middle; things made meanwhile | nothing reachable is left without an owner |
| Restarts and node health: `routes/internal.routes.ts`, `workers/maintenance.worker.ts` | `restartAttempts`, `node.status`, `lastHeartbeatAt` | crash report, boot, silence sweep, heartbeat | read-then-write counters, timeout against heartbeat | no restart loop; a live node comes back |
| Specs: `services/server.service.ts`, the node's `docker.service.ts` | the row, the agent's memory, the container, the game's files | edit, push, power, repair | a lost push, an agent that restarts, overlapping edits | whoever presses start gets a running game |
| Console: the node's `console.service.ts`, `ws/server-socket.ts` | attachment, stream, poller; upstream; the tab's socket | attach, detach, stream end, reconnect | the stream is awaited; three links each break alone | one stream per container; an open page comes back |
| Webhooks: `workers/webhook.worker.ts` | `failureCount`, `isActive` | deliver, count, disable | eight deliveries at once, dying workers | switched off once, and in the end |
| Sessions: `services/auth.service.ts` | session row: hash, previous hash; cookies | login, rotate, revoke | two tabs, two browsers, a thief | one valid token per session; a browser alone is never disturbed |
| Accounts: `services/auth.service.ts`, `routes/auth.routes.ts`, `routes/account.routes.ts` | password, second factor, codes, throttle, reset links | sign in, change, reset, enrol, disable, renew | each reads, hashes for long, and writes | an old password is out; a code counts once |
| Users, roles, settings: `routes/auth.routes.ts`, `routes/admin/users.routes.ts`, `plugins/settings.ts`, the seed | account, limits, roles; cached settings | register, create, suspend, delete, seed | the cache is older than the row | limits as promised |
| Access: `plugins/auth.ts`, `ws/*` | session, key, row, share | each request, each command, each event | a connection outlives what opened it | no command without the right to it; a withdrawn console closes |
| Node credentials: `services/node-bootstrap.service.ts`, `services/agent-client.ts` | tokens, claims; the agent's file | mint, show, redeem, rotate, revoke | looking makes a token; two installers | nobody takes a node out of service unasked |
| Catalogue: `routes/admin/system.routes.ts`, `routes/admin/templates.routes.ts` | storages, hosts, templates, nodes | make, edit, delete, refer | deleted while somebody refers to it | what is referred to is there |
| Files and disk: the node's `files.service.ts`, `sftp.service.ts`; `routes/files.routes.ts`, `routes/modpacks.routes.ts` | a directory; samples of its size | write, upload, download, archive, list | half-written files; budgets on old samples | a listing is whole; a budget holds |
| Configuration files and players: the node's `config-files.service.ts`, `routes/players.routes.ts` | the game's own files | rewrite before a start; commands to a running game | the game writes them too | each leaves the other's alone |
| Eggs: `services/egg.ts`, `services/server.service.ts` | rules of a variable | import, validate | a pattern contains the separator | no rule is torn; what was refused stays refused |
| Warnings, updates, pages | see section 3 | | | |

The rest is plumbing, views, one-row edits and formatting; it is listed in
`PROJECT.json` with the reason why each part has no module, and in section 6.

## 2. The plan

In order of how much a wrong interleaving costs the customer; all of it is done:

1. `ServerLifecycle`, `Transfer`, `Schedules`, and `PortOwnership` with `Allocations`,
   each with its proofs.
2. `Backups`, `Databases`, and `ServerDeletion`, which composes both.
3. `Sessions` with its abstract `SessionLife`; `Account`; `Members`; `Access`.
4. `NodeHealth`, `AutoRestart`, `Console`, `ServerSpec`, `Webhooks`, `NodeCredentials`.
5. `Catalogue`, `Files`, `DiskBudget`, `Players`, `ConfigFiles`, `Egg`, `Settings`,
   `Ceilings`, `Updates`.
6. The pages that act on what they were told: `LivePage`, `NewServer`, `FilesPage`,
   `SecurityPage`, `NodesPage`.
7. The proofs: after those of point 1 the inductive invariants of `MCFleet`, `MCIdentity`,
   `MCPanel`, `MCServerDeletion` and `MCBrowser`, part by part, and the refinement of
   `SessionLife`.

What is left to model-checking, and why, is at the end of section 5.

## 3. The modules and the code

### ServerLifecycle

One server. `status`, `suspended`, `installed`, `stamp` are the row's columns;
`container` and `script` are the two containers on the node; `jobAt`, `made`,
`stalls` are what BullMQ knows of each install job; `req` is a request handler
between two awaits; `mail` are reports on their way; `hk` is the sweep between its
read and its write.

| Action | Code |
|---|---|
| `PowerCheck`, `PowerSend`, `PowerMissing`, `StatusWrite` | `ServerService.sendPower`: the checks, the node call, the repair of a missing container and one more call, the status write |
| `ReinstallCheck`, `ReinstallEnqueue` | `POST /servers/:id/reinstall` |
| `SuspendCheck`, `SuspendStop`, `SuspendWrite`, `Unsuspend` | `POST /servers/:id/suspend`, `/unsuspend` |
| `SyncToNode` | `syncToNode`, from any route that edits the server |
| `TakeJob` ... `CompleteJob` | `runInstall`, one action per await |
| `FailAttempt`, `WorkerDies` | its catch block; BullMQ's attempts and its stalled-job check |
| `EmitState`, `EmitBeat`, `LoseReport`, `ReadReport`, `ApplyReport` | the node's reports; `POST /servers/:uuid/state` and `reconcileServerStates`, each a read and a later unconditional write |
| `StampAges`, `ReadStalled`, `FailStalled` | four hours; `failStalledInstalls` |

INSTALLING stands for REINSTALLING too, OFFLINE for CRASHED, a restart is a
start: no guard modelled here tells them apart. `StampAges` needs every attempt
to be over, because the timeouts of an attempt's calls add up to less than
`STALLED_INSTALL_MS`. One handler's node call is one step whose answer may be
lost (`PowerSend`, `NodeAfterFailure`).

### Transfer

`node`, `status`, `suspended`, `port` are rows; `container`, `copy`, `archive` are what is
on the disks; `move` is the worker of each move: its step and what it read (`src`, `prev`,
`held`, `claimed`); `landed` remembers a committed flip; `starter` is a customer's start;
`mail` are reports. Files are compared, not listed: a copy is current, behind, partial or
none, and a running game makes every other copy stale (`GameWrite`). `astray`, `given` and
`lapses` remember what the properties except (below).

`ReadServer` to `Notify` are the awaits of `runTransfer` in their order. `FailMove` is any of
those in `Throws` failing before the flip, its work done, half done or not (`LostWork`);
`FailLate` the flip whose answer is lost, and the notification that throws;
`ReleaseClaim`, whose own failure is swallowed, `DeleteDestination` and `RestoreStatus` are the
catch block. `WorkerDies` drops the job or hands it out once more, from the top.
`AskMove` is the route; `Suspend` and `Unsuspend` the administrator's, and both handlers of
reports leave a suspended server alone (`Heeds`). `EditPorts` are the routes of the
customer's ports, which ask nothing of the status, `OtherTakes` everybody else's servers.

### Schedules

`exists`, `active`, `processing`, `age`, `due` are the row (`age` is `claimedAt` against
its deadline, `due` is `nextRunAt` against now); `caller` is a tick or a "run now"
handler, `seen` what a tick read of a claim; `run` is a job and its worker; `orphans`
are runs whose task rows are gone.

`BeginTick`, `ReleaseLost` are `releaseLostClaims`; `LookForDue`, `Claim`, `Enqueue` the
rest of `dispatchDueSchedules`, and `RunNow` with the last two the manual run. `TakeRun` to
`Acknowledge` are `runSchedule`: paused or gone, skipped because it is only for
an online server, its tasks one after the other, the row's next run, the finally
block. What a task does (power, backup, command) belongs to another component.
`late` remembers who is still on his way (`OnTheirWay`) with no right to the claim any
more: his deadline passed (`ClaimAges`), his job was begun again after it gave the claim
back (`WorkerDies`), or such a run gave back his (`ReleaseClaim`).

### PortOwnership and Allocations

`PortOwnership` has one variable, who holds which port, and four steps: grant
what is nobody's, return, provide, withdraw. `Allocations` has the requests with
their stale reads (`req`), the primary mark and the servers' lives; `holder` is
`serverId` of the same row, so the refinement mapping is the identity on it.

`AskCreate`/`Create` are the reads and the transaction of `ServerService.create`
(`claimAllocations`); `AskClaim`/`Claim`, `AskRemove`/`Remove`, `AskChoose`/`Choose` the three
routes on `/servers/:id/allocations`; `DeleteServer` the transaction that ends
`DELETE /servers/:id`; `AskWithdraw`/`Withdraw`, `Prune`, `Provide` the operator's routes in
`admin/nodes.routes.ts`. A transaction is one step: PostgreSQL's row locks make the
claim's `where` see the latest committed row.

### Backups, Databases, ServerDeletion

`row` and `store` are, per backup, the row and the archive it names; an archive is
the number of the attempt that wrote it, so that two never have one checksum.
`files` is the server's directory, `job` a slot of the queue with the step of its
worker and of its node (`ghost`: the node goes on after the worker died),
`deletion` a request, `prune` the hourly pass. `TakeBackup` to `Fail` are the awaits of
`backup.worker.ts` and the node's archive; `TakeRestore`, `Fetch`, `Prove`, `Wipe`, `Extract`,
`PutBack` those of a restore (`mishaps` remembers what the properties except, each by its own name); `MarkDeleting`, `RemoveArchive`, `DropRow` and `PruneList`,
`PruneArchive`, `PruneRow` the two ways a backup goes.

`record`, `database` and `account` are the panel's row and what stands on the host;
a password is the number of the request that set it. `CreateAccount`, `CreateDatabase`,
`Provision`, `Record`, `Undo` are the creation with its clean-up, `Reset` and `Save` the rotation,
`Destroy` and `Erase` the deletion; account names are cut shorter than database
names (`Cut`), so two databases may share one.

`ServerDeletion` INSTANCEs both and adds the request (`removal`): `DropListed`,
`DatabasesDone`, `TakeDown`, `ListArchives`, `RemoveListed`, `Cascade` are the steps of
`DELETE /servers/:id` in their order; `overtaken` remembers that something was
made for the server meanwhile.

### SessionLife and Sessions, Account, Members, Access

`SessionLife` is what a session promises: opened once, ended, forgotten, never
alive again. `Sessions` has the rows, the cookies of each browser (`jar`), the tabs
that already refresh (`inFlight`) and the refreshes on their way. `RefreshSession` is the
web client, `Find`, `HandleTokenReuse`, `Rotate`, `Settle` `AuthService.rotateSession` with the read and
the write apart, `Answer`, `Lose`, `Refuse` what the browser gets. `CopyJar` is a stolen
cookie. `Life` is the refinement mapping: a row is live until `revokedAt` is set.

`Account` numbers passwords and secrets as they are set. A request reads (`Verify`,
`ReadFactor`), claims its code in Redis (`ClaimTotp`) or strikes a printed one
(`SpendPrinted`), counts a failure (`CountFailure`, `ExpireCount`), makes the hash again
(`Rehash`), opens its session; `AskChange` to `Reset` are the password, `AskSetup` to
`Disable` the second factor, `AdminPassword` and `AdminDisable` the command line.
`crossings` remembers which known race happened, for the properties that except it.

`Members` has the settings and the copy of them the API goes by, the accounts, the
roles that have a row: `Register`, `CreateUser`, `CliCreate`, `SeedAdmin` are the four ways to
become a user, `LimitOf` what each gives as limits, `SendLetter` to `Follow` the
verification of an address.

`Access` derives what an account may do as the code does on every request (`Resolve`,
`NarrowToKey`, `Refused`), beside administrators whose reads and writes are apart
(`AskEdit`, `CountOwners`, `WriteEdit`). `Type`, `Heartbeat`, `RefreshUser`, `Require` are the console
socket, which asks again for every command and on a timer; `Hear`, `ReadServers`,
`Know`, `Passes` the account's feed, which keeps an answer for a while.

### NodeHealth, AutoRestart, Console, ServerSpec, Webhooks

`NodeHealth`: `AuthenticateNode` and `WriteHeartbeat`, `PressHealth` and `AskAgent`, `FindSilent`
and `MarkOffline` are three readers and writers of one `status`; the announcements
come after the write, from what was read before it.

`AutoRestart`: `ReadServer`, `WriteStatus`, `ConsiderRestart`, `AutoStart`, `WriteStarting`,
`ClearAttempts` are the handler of `POST /servers/:uuid/state`; `End`, `MatchLine`,
`EmitCurrentStatus`, `Heartbeat` what makes the node report; time is the age of
`lastStartAt` against the minute after which the budget is given back.

`Console`: `attachment`, `attaching`, `stream` are the node's maps, `opening` one `attach`
between its awaits (`Inspect`, `OpenStream`, `OpenStats`, `ReadLogs`), `socket` the panel's
upstream with its attempts, `tab` the browser's hook and its timer.

`ServerSpec` numbers specs by the edits they contain: in the `row`, in the agent's
`memory`, in the `container`, in the game's `files`. `UpdateServer`, `UpdateVariables` and
`PushStep` are an edit and its way to the node; `SendPower` to `StartContainer` a power
request with the repair of a missing container; `AgentRestarts` forgets the memory.

`Webhooks`: `Dispatch`, `ReadHook`, `Post`, `Record`, `Disable` are `webhook.worker.ts`;
`Claimed` is the compare-and-swap that switches a hook off.

### NodeCredentials, Catalogue, Files, DiskBudget, Players, ConfigFiles, Egg, Ceilings, Updates

`NodeCredentials` numbers tokens as they are made. `MintToken`, `IssueNodeConfiguration`
(the page), `RedeemBootstrapClaim` and `IssueToInstaller`, `RotateToken`, `RevokeToken` make and
end them; `WriteConfiguration` and `StartAgent` are `install-node.sh`; `AuthenticateNode` is
the node presenting its own, `Credentials` and `VerifyPanel` the panel's choice of one.

`Catalogue` has storages, hosts, templates and nodes, what refers to them, and
requests with stale reads (`AskMake`, `AskEdit`, `AskDelete`, `AskUse` and their writes);
`Restricts` is the foreign keys of `schema.prisma`.

`Files` is a directory in which a name is absent, half a file or a whole one:
`WriteStream`, `Upload`, `CopyFile`, `Compress`, `Decompress`, `Rename`; `FetchOpens` to `FetchFails`
are downloads through a `.part` name; `Opendir`, `Readdir`, `CloseHandle` an SFTP listing in batches.
`DiskBudget` has blocks instead of names: requests that only ask whether a server is
over its limit, requests that carry a budget, the samples both go by.

`Players`: `memory` and `disk` are a game's lists, `call` a change through the console,
`ReadJson` the page. `ConfigFiles`: `Applied` is what the agent may make of an .ini or
.properties file, line by line: one text for each order in which missing keys are added
(`Endings`). `SetDeep` is what it makes of a .json or .yml one; `EditLine`, `Save`, `Start`, `Stop`
are the customer and the game. `Egg`: `TranslateRules`, `SplitRules`, `UnwrapPhpRegex` are the
import, token by token, `Split` and `ValidateAgainstRules` the panel's validator, `EggRefuses`
the egg's own reading. Both ways of splitting are one reader, `Parts`, which keeps its
place in the text in `Reads` and is told whether it `knows` of patterns.

`Ceilings`: `RecordStats`, `Minute`, `FindServers`, `Judge`, `WarnOnce`, `Push`, `Dispatch` are the
tick that warns of a limit. `Updates`: `AskStatus` and `RequestUpdate` are the panel,
`ProcessRequest`, `WriteHeartbeat` the service `storm-updater.sh`, `Look` to `Prove` the steps of
`update.sh`, by the service or by hand.

### Settings, LivePage, NewServer, FilesPage, SecurityPage, NodesPage

What a page keeps and later acts on. `Settings`: rows, the copy of each replica
(`cached`) with its shared query, the copy of each browser, a form that is saved whole.
`LivePage`: events on the `wire`, the row as `fetched`, the `guess` after a press of a
power button, notifications with their `query`. `NewServer`: the four steps, the form
filled by an effect (`Effect`), the request. `FilesPage`: what is ticked, the dialogs, a
batch of uploads (`UploadOne`), the editor and the contents it waits for.
`SecurityPage`: the dialog that makes a key (`FillIn`, what `PermissionsArrive` offered), those of
the second factor with the secret they show, the list of devices. `NodesPage`: the list, the
registration (`Create`, `PostNodes`), the configuration that is open and mints a token each time
it is asked for, and the ports, each line with a form that keeps what it began with.

## 4. What is checked

| Run | Instance | Properties |
|---|---|---|
| `server_lifecycle` | one handler, one job, two attempts, one redelivery, one report in flight | `TypeOK`, `NeverRunsUninstalled`, `HousekeepingSparesLive`, `InstallsSettle`, `GuessesResolve` |
| `transfer` | two nodes of one port, one move without redelivery, one report, starts, suspensions | `TypeOK`, `TransferringEnds` |
| `transfer_kept` | two moves, one redelivery or one port given up, ports changing hands, no reports | `SourceKept`, `HomeComplete`, `NothingStranded`, `OthersKeepPorts` |
| `schedules` | one tick, one manual request, two jobs, one task, one abort, one redelivery, one edit, one who falls behind | `TypeOK`, `OneRun`, `LostSparesLive`, `ClaimsComeBack`, `DueGetsRun` |
| `server_deletion` | up to two backups, one of them in a bucket, two jobs, four database requests (three if one fails), one or two deletions | `RowsSound`, `GoneMeansGone`, `RefusalSpares`, `BackupSettles` |
| `identity` | two sessions, two browsers, three tabs, two refreshes; two account requests, three in all; two makers of two accounts | `AccountsSound`, `OneBrowserUndisturbed`, `OldPasswordOut`, `FactorSound`, `SessionsEnd` |
| `fleet` | two heartbeats and two sweeps; two crash reports; three sockets, two openings; one edit and two presses; two deliveries | `OneOfEach`, `GivesUp`, `ComesBack`, `ComesUp` |
| `browser` | three users, two commands; two replicas; one notification; two templates; two folders of two names; one key, two secrets; two ports of a node | `PagesSendWhatTheyShow`, `ConsoleObeys`, `BrowsersFollow` |
| `panel` | two ports, servers and requests; two installers; two clerks; two downloads and a listing; two ticks; two update runs; ... | `Exclusive`, `BornWhole`, `ReadWhole`, `InServiceStays`, `Findable`, `TextsKept`, `NothingLost`, `NoMoreThanGranted` |

In the last five runs the state begins in one of several *scenes* and stays there:
parts that share no state stand side by side, one moves and the others do not.
So a run asks one question of many parts ("does what was lost come back?") and
its states are the sum of theirs, not the product. Where parts do share state,
`ServerDeletion` composes them for real, and its scenes say only which requests and
faults may come. Some names in the table gather the properties of several
modules, which the MC module lists and each module states:

- `RowsSound`: a backup that says COMPLETED has a whole archive with its own sum
  (`CompletedIsWhole`); a row of a database has the database made for it
  (`RowHasDatabase`).
- `AccountsSound`: limits as the settings promised (`LimitsPromised`), a lockout that ends
  (`LockoutEnds`). `SessionsEnd`: the refinement of `SessionLife` (`EndedForGood`), and a token
  used again ends all sessions (`ReplayEndsAll`).
- `OneOfEach`: one stream per container (`OneStream`), one announcement per switch-off
  (`OncePerSpell`). `GivesUp`: no endless restarts (`AutoRestart`), no endless deliveries
  (`GivenUp`). `ComesBack`: a node's status follows the node (`StatusFollows`), an open
  console shows its server (`ConsoleReturns`).
- `PagesSendWhatTheyShow`: `OwnVariables` (`NewServer`), `BatchTogether` (`FilesPage`), `KeyAsPicked`
  (`SecurityPage`), `BoundByAddress` (`NodesPage`).
  `BrowsersFollow`: `WithdrawnIsClosed` and `FeedEnds` (`Access`), `Noticed` (`Settings`), `InboxFollows`
  (`LivePage`).
- `ReadWhole`: the types of all parts of `MCPanel`; a listing has every file that stayed
  (`ListedWhole`). `NoMoreThanGranted`: `WithinBudget`, `ClaimOnce`, `OncePerCooldown`. `NothingLost`: the
  host's work outlives an update (`NothingLost` of `Updates`), a change of a list the game's
  end (`Outlives` of `Players`), the lines of a game's configuration the panel's rewriting
  (`OnlyVisiting` of `ConfigFiles`). `TextsKept`: no rule of an egg is torn (`NoTornRule`), what it
  refused is refused (`StillRefused`).

The first conjunct of the first property of each of them is the type invariant of
its parts.

What they show:

- **The game never runs before a first install has ended**, though reports,
  unsuspend and the sweep all overwrite the status meanwhile: it is
  `installedAt`, not the status, that holds.
- **The sweep fails only dead installs**, though it reads before it writes; an
  install that was ever stamped does not stay INSTALLING; a STARTING or STOPPING
  written after the report that should have settled it is corrected by a
  heartbeat while there is a container.
- **A move keeps the server whole**: the node its row names has a whole copy, the container
  and a port, across the flip, the tidying, each unwinding, dead workers and a redelivery;
  until a flip, the newest copy. What breaks it is named and is all that does: a move begun
  beside another or where it leads, a failure after the flip (`lapses`), and a port the
  customer gives up meanwhile (`given`). A port that stays elsewhere is a claim whose release
  failed, whose answer was lost or whose worker died, or one gained during the move
  (`astray`). Another server loses a port only if the customer gave up that very one during the
  move, or two moves overlapped. TRANSFERRING ends even if the worker died, by reports
  alone, and so not for a suspended server, whose reports nobody heeds.
- **A schedule has one run at a time** among those in time. A run that is late is taken for
  dead, and may have another beside it, whose claim it then gives back; every run beside
  the one is late or was robbed so. The sweep takes no claim from one in time, lost claims
  come back, and a due schedule is run.
- **Ports**: nobody is ever granted what another has, for every stale read; a
  creation gets all its ports with the primary one marked, or nothing.
- **Backups**: files are emptied only for an archive that was found whole; a backup that
  says it is complete is, with exceptions named in the property. None is under way for
  ever, but for two cases: its job is in no queue any more (`unqueued`), or a restore read
  a status that was passing and puts it back (`reread`), which is what a restore does whose
  worker died and which was redelivered.
- **Deletion**: unless it was forced or something was made meanwhile, a deleted
  server has nothing left on a host, a node or, unnamed, in a bucket.
- **Sessions**: a revoked session never works again; a browser is not logged out by
  its own tabs; a stolen token ends everything when it is used. A changed password
  ends what the old one opened, a code counts once, a lockout ends; the
  exceptions are the races below.
- **What the panel looks after** converges: nodes, consoles, servers that start,
  hooks and crash loops that are given up.
- **What is open in a browser** obeys what was withdrawn and catches up with what
  changed, and what it sends belongs to what it shows.
- **The rest**: credentials in use are ended only on purpose, references do not
  dangle, listings are whole, budgets and cooldowns hold, files of the game and work
  of the host survive.

### Bounds

*ServerLifecycle*: a second handler of the same kind adds nothing that the free
order of one handler, the worker, reports and the sweep does not already do to the
row, since every handler's write is unconditional; a handler can be taken up any
number of times. One redelivery and two attempts are the code's own numbers. One
report in flight suffices for "read, overtaken, written"; the theorems have no bound.

*Transfer*: two nodes, since a move knows two; one port each, so that a claim can
find none; `OtherTakes` is every other server. `transfer` has one move: what it asks, whether
TRANSFERRING ends, is one worker's matter, with reports and suspensions beside it. The
properties of `transfer_kept` need no reports, and its `Seen` cuts what two moves may do:
they come one after the other to their ends, or overlap until one has landed or a port goes
another way; among them there is one redelivery or one port given up. The theorems have none of these bounds. It
is reduced by symmetry of the moves; no deadlock is checked there because all moves may be over.

*Schedules*: one tick and one request, since every caller's claim is the same step and a
handler can be taken up again and again; two jobs suffice for an overlap; one abort and
one edit are each a state that comes back; with one who falls behind, a late run meets one
in time. The safety properties were looked at with two ticks as well, and are proved for
any number. `MaxAborts`, `MaxEdits` and `MaxLates` bound what a person, a crash or a full queue
may do, not the code.

*ServerDeletion*: `Making`, `Keeping` and `Pruning` are the ways a backup can go, two jobs
so that two restores meet or a job meets a redelivered one; `Hosting` is four
requests, or three and a failure, for two names that share an account; `Removals` a deletion
beside one of each; `Repeated` one that stopped half way and is asked for again.

*Identity*: a race of rotations needs two requests and three tokens; a browser
alone needs two tabs and another browser needs one. Two account requests at once are every
race of two; three in all let one come after both. `MaxAttempts` is one because only
whether the count has reached it matters.

*Fleet, Browser, Panel*: two of whatever can race, one of what is raced about,
and as many faults and edits as the worst case in the module's comments needs;
a bound on people or faults is a constant whose name begins with `Max`. Ports
are two in `panel`; the theorems about them have no bound, nor have those about lines and patterns. In `Ceilings` the window is three
minutes and two samples judge, instead of five and three. In `ConfigFiles` a file
has up to two lines and two edits, one section beside the part without one: the
interesting cases are a key that is missing and one that stands in the wrong section.
`Egg` has patterns of up to three characters, enough for a bar between two letters
and for a delimiter on each side.

No deadlock is checked in runs whose parts may come to rest: once their bounded
requests are spent there may be nothing left to do.

### Fairness

Weak fairness of what a process that is up does next: the handlers' continuations,
the workers (`Work`, with failure as one of the ways a call ends), the ticks,
which a BullMQ repeatable job brings every minute, and the passing of time. Strong
fairness of a heartbeat that is sent and read: the agent's timer sends one
every interval, any one may be lost, and infinitely many are not all lost. For
the same reason `ReadStalled` is strongly fair, and so is `MarkOffline`: the job comes round
again even if what it looks for wavers between. A cached answer that expires and a
browser that asks again on its timer are weakly fair (`Settings`, `LivePage`, `Access`);
so is a tab's reconnection (`Console`). In `ServerSpec` one person keeps pressing start,
since nothing starts a server otherwise. No fairness is given to other customers, to
operators, to dying workers, to games that exit, to lost links, or to install scripts
that nobody waits for. The parts of `panel` and `identity` need none.

In a scene the fairness of parts that stand still must not be violated by their
standing still. For most, nothing fair is enabled in their initial state; for `Settings`
and `ServerSpec` it is, and `MCBrowser` and `MCFleet` state their fairness for their own
scene.

### Refinement

`Exclusive` is `PortOwnership`'s `Spec` under `INSTANCE PortOwnership WITH owner <- holder`:
a claim maps to a grant because its predicate is evaluated in the write, every other
step to a return, a change of what is offered, or a stutter. `EndedForGood` is `SessionLife`'s `Spec`
with `life` read off a session's row. What is worth showing there is that a rotation
that read a live session and writes after its revocation does not bring it back,
which holds because it leaves `revokedAt` alone.

### Where code and documents disagree

Three runs each find one counterexample. The quotations are under `findings` in
`PROJECT.json`.

| Run | What happens |
|---|---|
| `transfer_notify` | the notification of success throws after the source was deleted; the catch block deletes the destination, the only copy |
| `sign_out_elsewhere` | after "sign out everywhere else", one of the other browsers refreshes by itself, and its revoked token ends the session that asked as well |
| `looking_at_configuration` | opening a node's configuration makes a newer token, and the panel signs with that one before the agent knows it |

Others are visible in the models and have no run of their own. Each was met
while translating the lines it names.

*Status and moves.*

- Unsuspend, or a late report, takes a server out of INSTALLING or TRANSFERRING; a
  start passes, and the game runs beside its install script or in the middle of a
  move (`Unsuspend`, `ApplyReport`, and `starter` in `Transfer`). Unsuspend writes OFFLINE whatever goes on.
- A suspended server may be moved (`admin/servers.routes.ts:161-166`), and no report of it is
  heeded (`internal.routes.ts:244`, `462`): when its worker dies it stays TRANSFERRING until it is
  unsuspended (`Heeds`; `TransferringEnds` excepts it).
- A suspension does not always stick: a report read before it and written after
  it sets ONLINE or OFFLINE (`internal.routes.ts:243-247`, `ApplyReport`);
  `suspendedAt` stays, so a start is still refused.
- `sendPower` may write STOPPING after the agent's stop has completed and been
  reported (`server.service.ts:605-612`); heartbeats settle it.
- A first install whose worker dies before its first stamp stays INSTALLING, for the
  sweep asks for a stamp; a reinstall that waits beside an old stamp is failed before
  it began; when the process ends between the transaction of a creation and its
  enqueuing, or the read between them fails (`server.service.ts:118-183`), the install is never enqueued.
- A move *is* redelivered once by BullMQ's stalled-job check although
  `plugins/queues.ts:127-130` says never; after the flip it runs with source and
  destination the same. The administrator's "retry" of a failed job does the same.
- Two moves can pass the route's check (`admin/servers.routes.ts:158-169`), which is
  there to exclude them: the status changes only in the worker.
- `docs/API.md:744-746` says the archive is taken when the container is down;
  `waitUntilStopped` swallows failures and the archive may be of a running game.
- With LOCAL storage, deleting the server on the source deletes the archive that was
  to be kept. A failed move leaves its row RUNNING.
- `docs/API.md:757-758`: the port is handed back by a move that fails, but not by one
  whose worker died, whose claim was committed with its answer lost, or whose release failed,
  which is swallowed (`transfer.worker.ts:229-234`; `LostWork`, `ReleaseClaim`).
- A flip that is committed with its answer lost is unwound like a move that did not happen:
  the destination, where the server now lives, is deleted (`FailLate`).
- The flip, or the unwinding, frees a port that the customer gave up during the move
  and another server has been given since; a port claimed during a move stays with
  the server on the node it left (`EditPorts`, `Flip`).

*Schedules and ports.*

- A job that waits behind five sleeping runs loses its claim to `releaseLostClaims`,
  and a second run starts, whose claim the first gives back (`late`).
- `docs/SECURITY.md:384`, "A primary allocation cannot be removed while the server
  exists": one removed while it is made primary can, and leaves its server with
  none (`AskRemove`, `Choose`, `Remove`).
- A removal sent twice may free the port of its next holder; an operator may
  delete a port just claimed; the owner's limit can be passed by two claims.

*Backups, databases, deletion.*

- `docs/BACKUPS.md:167-175` says a restore stops the server and starts it again; the
  panel refuses unless it is OFFLINE or CRASHED, and does not start it.
- A restore that is redelivered, or begun beside another, reads RESTORING as the status to
  put back and does so (`backup.worker.ts:124`, `157`, `178-181`); the row stays RESTORING, and can then
  be deleted but not restored (`TakeRestore`, `reread`).
- A dead worker's archive goes on at the node and may end after its row was given to
  somebody else (`ghost`); a local spill after a failed upload stays until the server is
  deleted; a backup that runs while its server is deleted leaves an archive in the bucket.
- Two rotations at once can leave row and host with different passwords. A creation
  that loses the race for its name takes back what it made by name, contrary to
  "Never leave an orphaned database behind" (`Undo`).

*People.*

- Struck backup codes are written back as read: two at once revive one. Set-up,
  confirmation and renewal at once can enable a secret nobody confirmed.
- Making a hash again may overwrite a password changed meanwhile
  (`auth.service.ts:149-155`); a login in flight across a reset opens a session
  with the old password; a reset link read by two requests is used twice.
- `INCR` and `EXPIRE` of the throttle are two commands: a crash between them leaves a
  lockout with no end. Two overlapping rotations leave a token nobody remembers.
- A verification link sent to an earlier address verifies the new one.
- The last owner can demote himself, and two owners who delete each other at once
  leave none (`admin/users.routes.ts:348-351`).
- Changing somebody's role keeps his limits.

*What the panel looks after.*

- A heartbeat that writes CRASHED first makes the agent's report of the crash
  "unchanged" (`internal.routes.ts:243`): neither notification nor restart, contrary to
  `docs/API.md:802`. Overlapping reports lose a count.
- The sweep marks OFFLINE without asking again; announcements can contradict the
  status; a silent node in MAINTENANCE stays there.
- A `detach` during the awaited statistics leaks their poller; `attachment.buffer =
  history` drops lines pushed meanwhile; the browser's close listener is registered
  after awaits, and a socket closed before leaves its upstream open.
- Specs are only in the agent's memory (`console.service.ts:33`), and nothing registers
  them when it starts, contrary to `docs/GAME-TEMPLATES.md:247` and
  `config-files.service.ts:12-13`; overlapping edits can leave the older one; a push that
  failed never lands at the next start; an edit's push makes the container of a
  running game anew, contrary to `docs/API.md:296-297`.
- A stop sent while a restart waits is followed by the start.
- A delivery that succeeds after the switch-off clears `disabledAt` and leaves the hook
  off; one that fails late switches off a hook just switched on; a worker that dies
  between the switch-off and the notices leaves nobody told.
- A token that an installer just wrote is revoked by opening the page before the agent
  has used it.

*Files and what the game owns.*

- `plugins.routes.ts:119` and `modpacks.routes.ts:199` read `.entries` of what the agent
  answers as an array, as the tests' mocks do not (`modpacks.test.ts:166`); likewise the
  agent answers a file as text, which `AgentClient` parses as JSON, so that the lists of
  players are always empty (`players.routes.ts:65-82`).
- A pack may add about twice what was left: download and overrides carry the same
  budget (`modpacks.routes.ts:154` says otherwise). An SFTP session stays usable after a
  suspension and past the limit. The first statistics after an agent restarts say 0.
- A failed upload over a file deletes the file; a rename checks and then overwrites; an
  SFTP handle whose open completes after its close is never closed.
- A key without a section that is missing is added at the end of the file, inside its
  last section, at every start, contrary to `config-files.service.ts:141-142`; of a key that
  stands twice the later line wins; a push rewrites underneath a running game.
- Eggs: entries that are not text are dropped without the warning promised
  (`egg.ts:13-16`, `262-271`); a colon cuts a pattern off, and a broken one ends the remaining
  checks; flags of a pattern are dropped; min and max of an integer become lengths.

*Administrators.*

- Two creations can leave two default storages, two edits a template whose default
  image is not one of its images; importing an export never checks that, and an export
  omits `features`. A template deleted while a server is made leaves it without one.
- A form is saved whole and overwrites another administrator's change; `invalidate()`
  during a query stores the older copy, until it expires.
- `status.json` of an earlier run hides a request that still waits; an updater killed in
  the middle leaves "running", and the button refuses; success names the commit asked for
  though `update.sh` goes to the branch's head (`docs/DEPLOYMENT.md:498`); nothing keeps two
  runs apart, and edits made during one are lost to `reset --hard`.
- Warnings look at 500 servers in no order; the key is set before the message, so one
  that fails keeps quiet for six hours and ends the tick for all others.

*Pages.*

- The answer to a power request comes after its events, so that the guess STOPPING is
  pinned over OFFLINE, contrary to `server-context.tsx:51-53`; what the socket last said
  is never asked again after a gap; the badge can stay wrong.
- Typing the name of a new server resets the variables typed before
  (`servers/new/page.tsx:85-94`), though the effect is for "the first time it loads"; while a
  newly picked template is on its way, the earlier one's variables are sent; a lost
  answer and a second press make two servers.
- A breadcrumb or a search keeps what was ticked, and archiving acts on those names
  in the folder shown; the editor keeps a first file's text under a second one's
  title; what is typed while a save is under way is lost.
- Any registration or removal of a node asks for the configuration that is open once
  more, and so mints another token (`Invalidates`); the install command made for one node
  stays when the dialog turns to another; the form of a port keeps the address and alias it
  began with, and saving it undoes a correction made meanwhile (`NodesPage`).

## 5. What is proved

For any number of handlers, jobs, nodes, ports, moves, ticks, servers, requests,
sessions, backups, files and pages' data, lines of a file and characters of a pattern, and any bound on redeliveries, reports, faults and turns:

| Theorem | States | From |
|---|---|---|
| `TypeCorrect` (`ServerLifecycle`, `Transfer`, `Schedules`) | the type invariant of each | the named assumptions on constants |
| `NeverRunsUninstalledHolds` | `ServerLifecycle`: `[]NeverRunsUninstalled` | `LifecycleInv` |
| `HousekeepingSparesLiveHolds` | `ServerLifecycle`: the action property | `LifecycleInv` |
| `SourceKeptHolds` | `Transfer`: `[]SourceKept` | `SourceInv` |
| `HomeCompleteHolds` | `Transfer`: `[]HomeComplete` | `MovedInv` |
| `OthersKeepPortsHolds` | `Transfer`: the action property | `Alone` |
| `NothingStrandedHolds` | `Transfer`: `[]NothingStranded` | itself, with `Claims` |
| `OneRunHolds`, `LostSparesLiveHolds` | `Schedules`: the invariant and the action property | `ScheduleInv` |
| `ExclusiveHolds` | `Allocations` implements `PortOwnership` | `PanelInv` |
| `BornWholeHolds`, `InServiceStaysHolds`, `FindableHolds` | action properties of `Allocations`, `NodeCredentials`, `Catalogue` | `PanelInv` |
| `ReadWholeHolds`, `NoMoreThanGrantedHolds`, `NothingLostHolds`, `TextsKeptHolds` | the invariants of `MCPanel` | `PanelInv` |
| `OneOfEachHolds` | the invariant of `MCFleet` | `FleetInv` |
| `AccountsSoundHolds`, `OneBrowserUndisturbedHolds`, `OldPasswordOutHolds`, `FactorSoundHolds` | the invariants of `MCIdentity` | `IdentityInv` |
| `SessionsEndHolds` | `Sessions` implements `SessionLife`; a token used again ends all | `IdentityInv` |
| `RowsSoundHolds`, `GoneMeansGoneHolds` | the invariants of `MCServerDeletion`, if `Bounds` | `DeletionInv` |
| `RefusalSparesHolds` | the action property of `Backups`, if `Bounds` | `DeletionInv` |
| `ConsoleObeysHolds`, `PagesSendWhatTheyShowHolds` | the invariants of `MCBrowser` | `BrowserInv` |
| `ScenesCovered` | `RowsSound`, `GoneMeansGone` and `RefusalSpares` in every scene that is run | the theorems of the three |

*LifecycleInv.* `NeverRunsUninstalled` speaks of the container, but a handler that
passed the check starts it a node call later; so the invariant says that every
handler past the check saw `installedAt` (`Powering`), which nothing unsets. For
the sweep: an old stamp has no live attempt (`AgedIsDead`), and what the sweep read
and still finds is an old stamp (`ReadIsAged`); the compare-and-swap does the rest.

*SourceInv, MovedInv.* What a move has claimed is a port of its destination (`Claims`). `SourceKept`
is about states in which no move has landed (`Home`). There, every move leads away from the
server's node, so that what a failing move deletes (`dst`) and releases (`claimed`) is
elsewhere; none is past its flip, so none deletes a source; and the game runs at home
only, so nothing makes the world there stale. Each conjunct has its lemma, under the
hypothesis `StillAway` that the step is not a flip. `HomeComplete` also speaks of what
follows a flip. Unless two moves overlapped, one works at a time, and the ports
it read and claimed are still the server's, but for those given up since (`Alone`, from
which `OthersKeepPorts` follows). Unless anything in `lapses` happened (`Complete`), what the flip
relies on is built up before it (`Ready`: a port at the destination, the container
there from `put` on and the world from `restore` on), and after it the tidying only touches
the source (`Leads`). None of these theorems has a hypothesis: what the properties except
is history the model keeps (`lapses`, `given`, `astray`), with no bound on moves, redeliveries,
edits or failures.

*ScheduleInv.* `OneRun` rests on the claim: while the row exists, whoever is on his way in
time (`InTime`) has the claim standing and young (`HeldIsClaimed`), an old one has nobody
in time behind it (`OldIsLost`), and a tick that read a lost claim and still finds it finds
a lost one (`SeenIsLost`). A late run's release takes the claim from whoever has it, and
makes him late (`NobodyInTime`); every other step leaves the claim alone and puts nobody on his
way in time (`LeavesClaim`), but for a caller who found it free. There is no hypothesis.

*PanelInv* has a conjunct for each part, inductive by itself, since in a scene one part
moves and the rest stand still.
- Ports need only their type. Each action of `Allocations` maps to one step of
  `PortOwnership` or to a stutter (`StepMaps`): a claim to a grant because its predicate
  is evaluated in the write, the transactions to grants of all or of nothing.
- `ClaimOnce` needs that nothing is issued for a link until it is taken, and that the
  installer which took it is alone with it (`TakenOnce`); `Findable` that whatever is referred to
  is there (`Referred`), which the foreign keys keep because they are evaluated with the deletion.
- `ListedWhole` needs that a listing under way has answered, or still has left, every name
  that was there from the start (`NothingSkipped`); `WithinBudget` that what a request has added
  and may still add is within a multiple of what was left when it began (`Allowed`).
- `Outlives` needs that a line on its way to the console is what somebody was told, and
  without one the game's memory is (`GameKnows`); `OncePerCooldown` that whoever was told was told
  under a key that stands, by the one tick that set it (`ToldUnderKey`); `NothingLost` that nothing
  of the host's is in the way of a run at its merge (`SetAside`).
- `OnlyVisiting` is about what a rewriting makes of the file at hand, so most of it is lemmas
  about `Applied`: rewriting keeps the number of lines and what is a header
  (`Rewritten`), every ending adds only missing keys, each under its own header. `ConfigInv`
  adds what these need of the state: the file is a text, and what is wanted, what the
  document says and what the game holds are documents, in which no key goes through
  another's leaf (`Document`).
- `NoTornRule` and `StillRefused` need that a template is what the import made of its egg and
  that the stored value passed the rules of the template (`EggInv`). The rest is about
  texts: rules without a bar that are joined are split into themselves (`SplitWhole`), the
  import finds an egg's rules in its text, or else an unclosed pattern, which it drops
  (`Pieces`), so that the validator splits what was kept into what was kept (`TranslateParts`). A
  value the egg refuses is refused because the verdict on a kept rule is the egg's own
  (`VerdictOfPattern`, `VerdictOfName`) and, without a colon, none ends the checks by accepting
  (`NoneDecides`).

What goes along a text is defined with recursive functions (`Joined`, `Parts`, `Kept`) and
proved without a theorem of induction: a function that takes the step from every
position to the next is built (`Recursion`), so the one that is chosen takes it too, and what
is so at the beginning and one further wherever it is so has no least position at
which it fails (`UpTo`, from the well-foundedness of the order on the numbers).

*FleetInv.* `OneStream` needs two conjuncts of the console: an `attach` between its awaits is
the one `attaching` names, and finds no attachment until it makes its own (`OneOpening`); a stream
publishes only for the attachment (`StreamIsAttached`). `OncePerSpell` needs that nobody was told while the hook is
active. A push carries a spec that exists (`Carries`), which `TypeOK` of `ServerSpec` rests on.

*IdentityInv.* Of sessions: one request per tab, no token ahead of the count, and the
token before is remembered (`RotationsRemembered`). While nobody has done what a browser is
disturbed by (`Undisturbed`), a browser has one request at a time, no token is two
browsers', a spent one is held only by the browser whose answer is on its way
(`SpentTokensAreGone`), and each holds the newest of its session or is about to
(`NewestTokenHeld`): that is why it never presents a token that was rotated away. Of the
account: but for the crossings, whoever is signed in with a password of before is about to
be signed out by the request that changed it (`OldPasswordLeaving`); a code that was used is
spent, or off the list for good (`UsedCodesSpent`); enrolments that do not run into each other
read the secret there is (`EnrolmentsApart`). The refinement
maps each step to an opening, an end, a forgetting or a stutter: a rotation that read a live
row and writes after its revocation leaves `revokedAt` alone.

*DeletionInv* spans `Backups`, `Databases` and the removal, because they share the rows, the
directory and the hosts.
- A backup that says COMPLETED is right because one job at a time makes its archive
  (`OneMaker`), while it is made the row does not claim it (`UnclaimedMeanwhile`), what is about to be
  recorded is what stands in the store (`MadeThis`), and a row that claims it, also one in the
  middle of a restore, is right (`ClaimedIsWhole`). Each has the crossings of `CompletedIsWhole` as
  exceptions (`Marked`). A restore that writes has in hand a copy it proved (`JobSound`).
- A row has its database because a request's own number is nobody else's until it is
  recorded (`Fresh`), a request that made its database still has it, or its loss is noted
  (`MadeStands`), and a database whose row stands was dropped by one that read *that* row
  (`DroppedKnowingly`). The last is stronger than `RowHasDatabase`, which excuses any drop of the
  name; as it stands that is not inductive, since the request that dropped it may be of an
  earlier row and end.
- `GoneMeansGone` says what holds at the end of four steps; `Progress` says what holds after each.

*BrowserInv* has a conjunct for each socket and page.
- `ConsoleObeys` is about what was sent, so the invariant says the same of what still waits:
  commands stand in the queue in the order they were typed and behind all that were sent
  (`InOrder`), and whatever the sender holds now is on record for each of his commands, as
  is what his account held when one was first looked at (`Recorded`): each step adds what he
  then holds to the record of what waits, and a command passes only by what is on it.
- `OwnVariables` stands by itself once it is known that behind a step of the form its choice
  was made (`PickedSofar`).
- `BatchTogether` needs that a batch goes by the folder it was chosen in until it has ended
  (`BatchGoes`), whatever folder is shown.
- `KeyAsPicked` holds of each key by itself: what the form sends is fixed at the click, and the row
  is written with what the account still has of it, never with an empty list, which would
  mean everything.
- `BoundByAddress` needs that a row which is registered or corrected is compared with all others in
  the write (`NoTwins`); each line of the form that is saved carries an address.
The other conjuncts are the types, which for records inside records have lemmas of their own.

`Bounds` says that `calls` and `faults`, which the scenes choose, are numbers. Every other
hypothesis on constants is a named assumption of the module that declares them; TLC
evaluates each in the run of the module that composes it.

Two updates of one record are written one inside the other (`[f EXCEPT ![x] = [@ EXCEPT
!.a = ..., !.b = ...]]`), with no `@` in the inner one: of `![x].a` beside `![x].b`, and of a `@`
two levels down, the prover does not see what TLC does.

Where a proof did not go through, the model was wrong or said too little, and was put
right: the attempts of a delivery were written with a nested `@` that means the inner
field (`Webhooks`), the branches of a limit overlapped in a CASE (`Members`), which leaves the
choice open; a bound was not said to be a number, or a set not to be inhabited (`Players`,
`Sessions`, `Account`, `Members`, `NodeCredentials`, `Ceilings`, `NodesPage`); a type said less of an upload and an open file
than the page keeps (`FilesPage`); the jobs of `Backups` are numbers, since an attempt
writes an archive with its own. `ConfigFiles` and `Egg` once folded over sequences and sets,
of which nothing can be proved here; they now say the same with a choice of the order
and with recursive functions.

Only model-checked:

- Everything that is a leads-to or says what holds in the end, since liveness under
  fairness and ENABLED are beyond the prover: `InstallsSettle`, `GuessesResolve`, `TransferringEnds`,
  `ClaimsComeBack`, `DueGetsRun`, `BackupSettles`, `GivesUp`, `ComesBack`, `ComesUp`, `BrowsersFollow`.

Every invariant and every action property of a passing run is stated by a theorem. No
module has a recursive operator.

## 6. What is assumed, and what is left out

Assumed in every module:

- A statement or a transaction on the database is atomic, and sees what was
  committed before it. That one fails is modelled in general as the failure of the
  step it belongs to.
- A node executes one call as one step, except where a module says otherwise
  (`RemoveFrom` and the partial restore in `Transfer`, `PowerMissing`, the archive and the
  restore in `Backups`, `Files`, `ConfigFiles`).
- BullMQ hands a job to one worker at a time, and takes one back only from a dead
  one. A worker that is alive but whose lock expired is not modelled.
- Timeouts: an attempt of an install ends within its calls' timeouts, which is
  less than `STALLED_INSTALL_MS`.
- Marked external in `PROJECT.json`: people, games, Docker, BullMQ, Redis, browsers'
  cookies, the database hosts, git and the host's service manager.

Left out of the modelled components: the ticket by which an archive is fetched,
which permission each route asks for, starvation among more than 200 due
schedules, an edit that lengthens the offsets and so makes a claim young again, the row
of the backup a move makes, a suspension that stops the game and then fails to write, a
server deleted during a move or an install, the console's history, the
names and sizes of things where no property tells them apart. Two leads-to that
suggest themselves are not stated, because the code does not have them: that an
offered update is applied in the end (a killed updater bars the button) and that
an owner at a limit is told in the end (a message that fails is not sent again).

### Not modelled

- *Admin views, dashboard, jobs page, health*: queries over what other modules
  keep; retrying and discarding a job are BullMQ's own operations.
- *Mail, audit*: sinks, whose failures are swallowed. That a notification may fail its
  caller is in `Transfer`, `Backups` and `Webhooks`.
- *Validation, security headers, error handler*: functions of one request, without state.
- *Path checks on the node* (`lib/paths.ts`): a pure guard; `Files` and `DiskBudget` begin
  behind it.
- *Plugin and modpack registries*: other people's services. What downloads write is in
  `Files`, what they add in `DiskBudget`.
- *Shared packages and seed texts*: types, environment, cryptography, data. The
  schema's foreign keys and statuses are mapped where a module needs them; the seed's
  order of writes is in `Members`.
- *Installers' preparation of a host*: packages, certificates, compose files, once and in
  sequence. What an installer redeems and writes is in `NodeCredentials`.
- *Pages that show one query, layout, wording*: no state of their own against the server's.
