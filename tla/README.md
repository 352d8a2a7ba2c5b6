# govner, specified

govner is three Go programs in one repository:

* **pgflock** (`src/pgflock`): a pool of PostgreSQL test databases behind an
  HTTP server, with a TUI and a client library;
* **gowt** (`src/gowt`): a TUI that runs `go test -json` and shows packages,
  tests and subtests as a tree;
* **cooper** (`src/cooper`): runs AI tools in containers whose traffic passes
  a Squid proxy; a TUI approves requests, bridges run scripts and relay ports.

This directory holds TLA+ modules translated from their source, the TLC
configurations that check them on small instances, and TLAPS proofs for every
size. `PROJECT.json` maps each definition to its lines of Go, lists the parts
of the system, the runs, what in this code is hard to test, and the theorems.

## Inventory

| Component | State | Operations | Talks to | What is hard | What makes it correct |
|---|---|---|---|---|---|
| pgflock locker (`locker/handler.go`) | channel of free databases, map of locks, waiting counter, a goroutine per `/lock` | lock, unlock, force-unlock, unlock-by-marker, unlock-all, auto-unlock, disconnect | client library, TUI, psql | the map is unlocked between delete, send and cancel; three ways to end a lock race | databases conserved; one holder each; sends never block; every waiter is served or leaves |
| pgflock reset (`reset.go`), containers (`docker.go`) | the database itself; a container per instance | terminate, drop, create; stop, run, wait | locker, psql, docker | one of five commands fails; a former holder connects again; quit during the start-up | what is handed out is fresh and empty; no container is left behind |
| pgflock client (`client.go`) | open lock streams by database | Lock, Unlock, CloseAll | locker | auto-unlocked databases come back to the same process | a call hurts another lock only where the server took a database back |
| pgflock restart and TUI (`tui/app.go`, `main.go`) | restart request and its caller, progress channels, screens, snapshots | keys, HTTP restart, timers, clicks | locker, docker | requests while a restart runs; snapshots out of order | each caller is answered once; the view comes to show the locks |
| gowt tree (`model/model.go`) | nodes, statuses, counters per level | one event at a time | run control | order of parallel events, cached replays | counters and statuses are those of the tests |
| gowt log buffer (`model/logbuffer.go`) | bytes, lines, references per node | append, render | tree, log view | partial lines of several writers | a node's log is its lines and those below it |
| gowt run control (`app.go`, `runner.go`) | process, generation, flags | start, read, stop, rerun, quit | go test | stale messages of an earlier run; a start that a rerun overtakes | what a rerun finds attached is dropped; one reader of each stream |
| gowt views (`view/`) | rows, cursor, window, search | keys, window size, new data | run control | lists that change under the cursor | what is shown is what there is |
| cooper ACL listener (`proxy/acl.go`, `helper.go`) | pending map, two queues, an unbounded buffer, history | connect, poll, approve, deny, time out, stop | Squid helper, TUI | decision against deadline, stop against send, full queues | fail closed; nothing dropped; Stop returns |
| cooper broker (`pubsub/broker.go`) | subscriptions, a bridge goroutine each | subscribe, unsubscribe, publish, close | none yet (a library) | full buffers, close against send | exactly once; no leaks |
| cooper execution bridge (`bridge/`) | routes, listeners, log channel | request, Stop | containers, TUI | Stop with handlers running | nobody is cut off in time; each run is reported once |
| cooper host relay (`docker/hostrelay.go`) | listeners by port and gateway | scan, update, accept, Stop | docker, rules | a scan acts on old rules | open listeners are those of the map |
| cooper clipboard (`clipboard/`), X11 bridge (`cmd/cooper-x11-bridge`) | staged image, tokens, transfers | stage, clear, expire, request, notify | X server, barrels | expiry and deletion under a request; order of the X protocol | a deleted image stays deleted; chunks in order; old tokens refused |
| cooper runtime (`runtime_lock.go`, `main.go`, `down.go`) | lock file, PID, containers, token | up, down, cli, crash | operating system, docker | crash, PID of another process, docker that fails to stop | one owner; what down and up leave behind, docker refused to stop |
| cooper log files, alert (`logging/`, `squidlog/`, `alertsound/`) | files, offset, players | write, rotate, follow, play, switch | files, audio | rotation and truncation between two reads, lines of any length, torn lines; switching during a sound | no text twice or skipped; files bounded; one sound at a time |
| cooper control panel (`tui/`) | tabs, modal, rows, header, progress, lists | keys, messages, ticks | app core, docker | messages of goroutines between question and answer | it does what it asked; it shows what is |
| cooper changes (`portfwd`, `settings`, `bridgeui/routes.go`, `app/cooper.go`) | rules, settings and routes in the tab, configuration, file, services | edit, save, reload, fail | docker, bridge, relay | two changes overlap or overtake each other, saves fail | tab, file and services agree after changes that met no other |
| cooper configuration (`configure/`, `config/`) | screens, config.json | edit, save, run again | files | rules across screens; a file edited by hand | what is shown is saved, and comes back |
| cooper images (`main.go`, `docker/build.go`, `config/`) | wanted, built and published versions | build, update, warn | registries, docker | half a build fails, or the save behind it | config.json tells what the images hold, but of one built since the last save |
| cooper proof, test runtime (`proof/`, `testdocker/`, `testdriver/`) | containers, networks, rule; flock, stamp, images | phases, teardown, cleanup; bootstrap | docker, the user's own session | failure in any phase, Ctrl-C | nothing is left behind; one tester at a time |
| configuration of pgflock, rendering, fonts, names, auth | - | - | - | - | not modelled |

## Modules

| Module | Models |
|---|---|
| `PGPool` | abstract: what pgflock promises a client, free of channels and maps |
| `PGLocker` | the locker with its clients, deadlines and forced releases; it implements `PGPool` |
| `PGClient` | the client library against a server that may take a database back |
| `PGReset`, `PGDocker` | a reset and its psql commands; the containers, and both promises together (`DatabasesSound`) |
| `PGControl`, `PGPanel` | start-up, restart and shutdown behind the loading screen; the main view and the feed of snapshots (`PanelSound`) |
| `GowtTree`, `GowtLog`, `GowtRun` | the tree, the logs, the runs with their streams |
| `GowtTreeView`, `GowtLogView`, `GowtScreens` | what is listed, followed, asked |
| `ACLListener` | Squid helper, listener, queues, proxy monitor tab, shutdown, crash |
| `Broker`, `BridgeServer`, `HostRelay` | the broker, the execution bridge with its log pipeline, the relays |
| `Clipboard`, `X11Bridge` | staged image and tokens; selection transfers to the programs of a barrel (`ClipboardSound`) |
| `CooperRuntime` | processes of up, down and cli that may die at any step |
| `LogFiles`, `AlertSound` | rotating logger and tailer; controller and players |
| `TuiShell`, `ClipboardHeader`, `LoadingScreen` | root, Containers tab and modal; the header's clipboard; start and shutdown screens (`PanelTells`) |
| `ListTabs` | tables, scroll bar and viewports |
| `PortForwardTab`, `RuntimeTabs` | port forwards from the key to the socat; settings and routes (`ChangesSound`) |
| `ToolVersions`, `ImageBuild` | modes, ranges and implied tools; build and update |
| `ConfigWizard` | the screens of `cooper configure` and what they save |
| `ProofRun`, `TestRuntime` | cooper proof and cleanup; what the Docker tests share |
| `MC*` | parts side by side: a behaviour is one of the part that `which` names |
| `SeqFacts` | lemmas: channels as sequences, counting, least elements, induction as sets |
| `*Proofs` | theorems, below |

Conventions. A goroutine is a program counter in a function or a record; one
action is one stretch of code without a blocking call or a lock operation that
another goroutine could see. A channel is a sequence with its capacity in the
guard of the send; a receive takes the head. A command of Bubble Tea is a
record that goes from its goroutine to `Update` in any order. A mutex held over
a single action does not appear; one held over several is a condition. Bounds
on things that only grow (`MaxJobs`, `MaxEntries`, ...) are guards and are
named as bounds where they are declared. Definitions marked *Mutant* are
variations a mistake in the code would make; each property has one that breaks
it, which shows that the property looks at the code. They take no part in any
specification.

How state and actions correspond to the code, where that is not plain:

* **PGLocker.** `cLockedDbConn`, `locks`, `waitingCount` are the fields of
  `Handler`; `pc` and `db` say where each `/lock` handler is; `waitq` is the
  runtime's queue of receivers. `Arrive` to `ReturnToPool` are the parts of
  `handleLock` between its blocking points. A release deletes entries under the
  mutex, then sends each database and cancels its handler: `SendReleased` and
  `CancelHandler` are the steps outside the mutex. In `PGPool` a pair is in
  force from the receive on the channel to the return of the database.
* **PGControl.** A `job` is a goroutine with a progress channel; `waits` and
  `progressMsgs` are the commands that read one. `mixed` (history) says that a
  job began behind the loading screen of another.
* **ACLListener.** The poll of the decision and the look at the clock are
  separate steps, as in `waitForDecision`. The forwarders of `wireChannels` hold
  one element while they wait, so a forwarded queue has one place more than its
  buffer. `ProcessEnds` is the end of the process at any point.
* **Broker.** `in`, `overflow`, `buf`, `got` are the four places of an event.
  Nothing in cooper uses the broker at this commit; it is checked against its
  comments.
* **BridgeServer.** `draining` is the server whose `Shutdown` runs while `Stop`
  holds `mu`; `timedOut` is the end of its five seconds. A send on the closed
  log channel panics, and net/http drops the connection (`aborted`).
* **GowtTree.** Four variables are `go test`: they make the order of events one
  that the testing package produces. `Above` is the chain of parents, given as
  a constant with its assumption. Examples, benchmarks and fuzz targets, whose
  names the tree ignores, are left out.
* **GowtLog.** A byte is its writer and its place in what that writer printed,
  so that a lost, doubled or misplaced one shows. `Split` is the cutting of an
  output at its newlines, with what is kept for the next event; `Stored` is the
  loop of `appendOutput` over the lines; `Fresh` the loop of `AppendNew`.
* **GowtRun.** `flight` is the bag of commands and messages under way; `from`
  (history) is what each goes back to.
* **CooperRuntime, TestRuntime, ProofRun.** A process is a program counter that
  a crash ends at any step; flocks go with their process, files and containers
  do not.
* **PortForwardTab.** Each of `applies` is a change on its way: the step it is
  at, the rules it brings, the copy of the configuration it took. `setting` is a
  change of the settings: it copies the configuration, writes config.json and
  stores the copy in three steps (`BeginSetting`, `SaveSetting`,
  `StoreSetting`), beside those of the rules. The history `pfDisturbed` says
  that one met another; what runs need not agree then.
* **ImageBuild.** docker build and the save of config.json are two steps; the
  second may fail, or never come. The history `untold` holds the images built
  since config.json last told of them.
* **LogFiles.** A log entry is one to `Longest` units, and a file is rotated by
  the entry that finds `Capacity` of them. access.log is a sequence of texts and
  line ends; the reader takes what is there, a torn line's first half too, and
  `torn` (history) holds the places where it met the end inside a line.
* **CooperRuntime.** docker refuses to stop a container at most `MaxFaults`
  times; `refused` (history) holds whose stops were refused and of what, `late`
  the ups that docker started a proxy for after they were told to end.

## Runs

| Run | Shows | Bounds |
|---|---|---|
| `locker` | conservation, exact waiting counter, sends never block, every entry has its handler; waits end, databases come back, abandoned locks end | 2 databases, 3 requests, 1 releaser by force |
| `locker_exclusive` | **violation**: a forced release overlapping the end of its stream gives one database to two requests | 1 database, 3 requests, 1 releaser |
| `pgflock_control` | loading screens, restarts and callers, selection on screen, dialogs as asked (`PanelSound`); the client's map and its locks (`ClientSound`); fresh and empty databases, no orphaned containers (`DatabasesSound`); `Exclusive`, `HoldersKeepTheirLock` and the refinement of `PGPool` with its liveness; start-ups, resets and the display come to an end (`ControlProgress`) | 3 jobs, 1 caller; 2 tests on 2 databases and 4 streams; 2 psql failures, returns and restarts; 2 instances, 2 docker failures; 3 rows, 2 changes, 2 readers |
| `restart_callers` | **violation**: a caller of `/restart` is forgotten | 4 jobs, 2 callers |
| `acl` | fail closed, no send on a closed channel, no request denied unseen and no outcome lost, history agrees, verdicts final; helpers are answered, Stop returns, queue goroutines end | 2 requests, queues of one place, forwarded ones of 2, all keys |
| `acl_timeout` | **violation**: the timeout overwrites an approval | as `acl`, nothing forwarded |
| `gowt` | counters and statuses are those of the tests (`TreeSound`); one reader, what a rerun finds attached is dropped, drained at the end (`RunSound`); log, lists, marks and screens: whose text is shown, in what size (`ViewsSound`); runs end, reading is not moved (`GowtProgress`) | 2 packages, a test, 2 subtests, 1 prefix; 1 rerun; 3 bytes of 3 writers; windows of 1 and 2 rows |
| `gowt_drains` | **violation**: a failed subtest leaves a running count behind | as `gowt` |
| `cooper_services` | one runtime, tokens of barrels, nothing left by down and up (`RuntimeSound`); clipboard and chunks (`ClipboardSound`); `RelaySound`, `LogFilesSound`, `AlertKept`, `BrokerSound`, `BridgeSound`; what waits is served (`ServicesProgress`) | 2 ups, a down, a cli, a crash, a container that docker does not stop; 2 ports and gateways; 2 windows, 3 chunks; 2 snapshots and tokens; 7 log units in entries of 1 or 2, 2 files; 2 players; 2 publishers, events, subscriptions; 2 requests on 2 listeners |
| `cooper_session` | `PanelTells`, `ListsSound`, `ChangesSound`; only what was confirmed is done, feedback, pictures and screens of the past go (`SessionProgress`) | 2 tabs, a barrel and the proxy, 2 orders; 3 captures; the steps of the code; 7 entries; 2 rules, changes and routes, a setting beside them, saves that fail |
| `cooper_config` | builds, updates and their saves that fail half-way (`ImagesSound`), `ProofSound`, the wizard (`WizardSound`), `TestersApart` | 2 saves and jobs; 2 edits, 2 runs of the wizard; 2 proofs, a failing docker command or write, a kill; 3 processes of tests, 2 images |
| `proof_beside` | **violation**: the teardown of a proof that refused to run stops the user's proxy | 1 proof |

A compound such as `PanelSound` is the conjunction of the properties of the
parts its run holds, each stated and commented in the part's module.

Why the bounds are enough. The interesting steps need a queue to be full while
someone wants to send (capacity one and two senders), a lock to be released by
two parties while a third waits, two handlers on either side of a stop, two
changes that overtake each other, a process that dies while another waits for
its lock, a failure in each step with one more run behind it, and a list longer
than its window by a scroll step. Larger numbers only delay the same states.
What is proved does not depend on them.

Parts side by side. An `MC` module holds parts that share no state; a behaviour
belongs to one of them. That keeps their number of states a sum and not a
product; what they would do to each other, they do through their environment
actions (docker that fails, a user that clicks, a process beside).

`CHECK_DEADLOCK FALSE` is set where the modelled session really ends: all
requests of a stopped listener or bridge are answered, all events published,
all runs of a bounded number are over. The locker alone never stops, and its
run checks deadlock.

Fairness. Goroutines that can run do: Go's scheduler is preemptive, and Bubble
Tea runs every command and delivers every message. Timers fire; psql, docker
and scripts end, the last at their own timeout. Users never have to click or
quit, clients never have to unlock, subscribers never have to read.

* `locker`: weak fairness of every handler and of every releaser; the timer of
  the lock is a premise of the two properties that need it (`Deadlines => ...`).
  `AbandonedLockEnds` holds without it, by the end of the stream alone.
* `pgflock_control`: one weak fairness for the steps of each part that go on by
  themselves, since a part takes only finitely many of them; the pool has one
  for each request, of its handler or its timer; PostgreSQL comes back after a
  restart.
* `acl`: each handler, deadline and helper, Stop, the queues and the screen.
* `gowt`: Update takes messages; commands and the process go on.
* `cooper_services`, `cooper_session`: what goes on by itself (`Proceeds`), and,
  where two do not depend on each other (a down beside an up, the relay's loop
  beside its connections, a poll of docker), the other (`OthersProceed`).
* `cooper_config` needs none: it states safety and action properties only.

## Proofs

Every theorem holds for all values of the constants that meet the named ASSUMEs
of the modules, which TLC evaluates in every run: sets of goroutines that must
be finite are finite, bounds are natural numbers, capacities are positive
where the code makes a buffered channel, "no database" is not a database and "no
node" no node, a parent is above its children, the last step of a loading screen
fills its bar, one rule can be typed. For single parts: the names of siblings
differ, and packages are taken to have different names too (`TreeViewAssumption`;
otherwise `sort.Slice` may list two in either order); what can be typed in the
wizard, and the files it finds, have the fields their forms have
(`WizardAssumption`); a registry has a release of every tool, and no part of
a version exceeds 998 (`ToolsAssumption`), since the reference that
`RangesAreIntervals` compares with writes a version as one number of three digits
a part. Nothing else is assumed, and the finite instances meet them; no listed
theorem has a hypothesis of its own, but for the `Admins = {}` of those about
`Exclusive`, `HoldersKeepTheirLock` and the refinement.

The theorems about a part speak of its own specification (`RelaySpec =>
[]RelaySound`), so they hold wherever the part does nothing but its own steps.
Each module of proofs ends with what this gives for the composition that the
run checks (`SessionIsSound`, `ServicesAreSound`, `PgflockIsSound`,
`GowtIsSound`, `AroundSessionsIsSound`): a step of the composition is a step of
one part and a stutter of the others.

No invariant below is inductive as it stands. In each case the strengthening
says what leads to the state the invariant speaks of.

* **`PGLockerProofs`**: `TypeOK`, `OnePlaceEach`, `ReleaseNeverBlocks`,
  `WaitingCounted`, `LockHasHandler`; from `Admins = {}` also `Exclusive`,
  `HoldersKeepTheirLock` and that every step is a step of `PGPool` or a stutter.
  A database can be in the channel, in the map, with a handler or a releaser;
  the invariant ties each place to the control state of its owner and the
  channel's entries to be distinct, so that cardinality bounds its length.
* **`PGControlProofs`**: `ClientSound`, `DatabasesSound`, `PanelSound`.
  *Client*: a body that is open is held or was taken back and a database has one
  holder (`OneHolder`), no two tests have the same body (`OwnStreams`), an open
  body is in the map or still being read, unless a late call pushed it out
  (`Remembered`). *Resets*: what a reset
  has done so far, at every step (`SoFar`). *Containers*: how far the start-up
  and the stop have come. *Callers*: the channel of a job ends with what became
  of the job (`JobsTell`), only the last job can still be heard, once
  (`EarlierDone`, `ScreenTells`), and the pending caller is that job's
  (`CallersKnown`) - all as long as no job begins behind another's screen, which
  is what `restart_callers` shows to happen. *View*: an open dialog whose list
  has not changed asks about the selected row.
* **`ACLListenerProofs`**: `TypeOK`, `FailClosed`, `NoSendOnClosed`,
  `HistoryAgrees`, `VerdictIsFinal`, `OutcomesArrive`. A request is offered to
  the user in one place at a time and never after a click (`OfferedOnce`);
  while the handler polls, the atomic holds what that click stored
  (`VerdictFollows`); the history is written once (`RecordedOnce`); an outcome is
  counted over the queues it goes through.
* **`ServicesProofs`**: `BrokerSound`, `BridgeSound`, `RelaySound`, `AlertKept`,
  `RuntimeSound`, `ClipboardSound` (these two with action properties), `LogFilesSound`.
  *Broker*: an event nobody has published is owed to nobody, a registered
  subscription is open unless the writer waits for its end, and there is one
  writer; each place of an event is counted. *Bridge*: within the five seconds
  no handler runs on a server whose Shutdown returned (`Swept`). *Relay*: a
  connection is dialled by one accept loop. *Alert*: one player is not closed,
  who plays found the cooldown over, and what was heard of earlier players lies
  before it. *Runtime*: who is past the lock holds the flock, also after a death
  (`LockHeld`); the file has the holder's PID but between its flock and its write
  (`PidOwner`); what a clean-up removed stays away, unless docker refused
  (`CleanSoFar`). *Clipboard*: tokens that come are new (`RequestsKnown`), nothing
  of a snapshot to come is delivered. *X11*: what a program has read and what
  is in its property tell how far its transfer is (`Place`), since there is
  never a second delete on its way (`OneEach`). *Log files*: the remembered size is
  that of the open file (`LoggerInv`); the reader stands at the begin of a line
  or where it met the end of the file (`AtBreak`), and the pieces that were sent
  follow each other and cover what was read (`Laid`, in `TailerInv`).
* **`GowtProofs`**: `RunSound`, `TreeSound` and `ViewsSound`, with `ScrollHeld`,
  `TailFollowed`, `CursorOnScreen` and `NeverLeftRunning`, the action properties
  of `GowtProgress`. *Run*: every command or message goes back to a start, a
  process or a confirmed rerun, one chain each, numbered in order
  (`RunInv`), and what is attached began in its generation or was overtaken; a
  bag of messages is handled by lemmas about exchange. *Tree*: the
  order in which go test reports (`GoOrder`: a test runs within running ones, a
  package is replayed when its tests are over) makes statuses (`StatusInv`: who
  shows a failure has one below) and counters (`CountInv`, of nodes not made yet
  too) inductive. `Propagated` recurs over the tree: `Spread` builds its value
  from the changed node upwards, where the line of parents gives the least
  counterexample that stands in for an induction. *Screens* (`ScreensInv`): an
  open question is one of a kind, and a view learns its size when it is shown.
  *Log on screen* (`LogViewInv`): the viewport was given what the renderers held
  at the last event, or what a kept search marked.
  *Rows* (`TreeViewInv`): the list is a tree read from the top
  (`TreeShape`) also while it is out of date, for keys read it as it was; that
  `Flatten` makes one is shown from the lowest level up (`RowTree` of a node,
  `ForestOK` of siblings), that sorting leaves every sibling in one place by
  counting who comes before it. *Log buffer* (`LogInv`): what a writer printed is
  its finished lines, wherever the events cut it, and a rest (`SplitConcat`); the
  references of a node read these lines for each writer (`LogsWhole`), in lines
  that are not torn (`LogsShaped`); the renderer's references are a first part
  that ends before its last position and a second part that begins behind it
  (`RendParted`), so that `Fresh` is the text of the second (`FreshFacts`).
* **`CooperProofs`**: `ProofSound`, `TestersApart`, `WizardSound`, `ImagesSound`.
  *Proof*: a container of the
  run that is up is in the records its teardown goes by (`Recorded`), the
  loopback rule is in force between check and restore alone, or a warning was
  given, or the restore passed a proxy over (`RuleRestored`, by what a reload
  leaves: `Reloaded`), a run that has not failed has seen what "ok" promises
  (`Seen`), cleanup has behind it what earlier steps removed (`Cleared`). *Tests*:
  the count of every process is what its place says, the flock is with the one
  that counts, a stamp is gone while images are built (`Builds`), and who moves
  containers in the user's namespace is a prefixed driver with the flock
  (`PrefixedInTheWay`). *Wizard* (`WizardInv`): the
  configuration is shaped as its screens show it (`ListsShaped`, `DetailsShaped`),
  the save screen shows what all hold (`Shown`) and a save wrote that
  (`Written`), rows that came valid stay so (`RowsStaySound`). *Images*
  (`ImageInv`): what config.json tells is that of the images, of those it was
  told of (`Told`: a container version is that of an image, a tool whose mode is
  off has none, language servers fit the Node of the base); a build or update
  works on the configuration it loaded, refreshed, so what it has built of the
  base and of a tool is what that wants, also between build and save
  (`JobOnCourse`, `SavedOnCourse`), and what an update said last is still true
  (`SaidIsTrue`). The theorem is about every setting the wizard and the
  configuration permit, a language that is on in mode "off" among them. The
  ranges of versions are intervals for every version within the bound, not only
  for the registry of the run.
* **`SessionProofs`**: `PanelTells`, `ListsSound`, `ChangesSound` and the action
  property `OnlyConfirmed` (`NothingUnasked`). *Root*: an open dialog is about
  the order that was shown last, and no result touches an order that is shown.
  *Header*: as long as nothing met anything else, one capture or deletion is on
  its way and what it will show is what is served (`Alone`, `Awaited`).
  *Loading*: what is on its way are the outcomes of the steps that follow what
  is shown, in order, a failure last (`Stands`). *Lists*: types suffice, since
  every change puts the window round the selection again; where that leaves
  it is arithmetic (`WindowShows`, `ThumbStays`). *Port forwards*: no list of
  rules anywhere has a port twice (`RuleLists`), those past the reload were
  accepted (`Goods`), and a change that is alone has brought its rules as far
  as its stage says (`Stage`), and a setting that is alone holds the rules of the
  configuration it will replace. *Settings, routes*: what runs has taken the
  change that arrived last (`Latest`), and the one sent last holds what is shown.
* **`SeqFacts`**: lemmas all of these use: what sends, receives, removals and
  replacements do to the elements of a sequence, how often an element occurs,
  that a non-empty set of naturals has a least element, and induction in the form
  of sets: a set with 0 and all successors has every natural
  (`NatInductionSet`), one with the empty sequence and all extensions every
  sequence (`SeqInductionSet`). This form needs no operator as a parameter, and
  with it recursive functions and `FlattenSeq` are computed step by step.

Only model-checked, and why:

* every property about what must happen in the end (`LocksEnd`,
  `ControlProgress`, `ListenerProgress`, `RunEnds` in `GowtProgress`,
  `ServicesProgress`, `SessionProgress`, `PoolLiveSpec`): fairness and ENABLED are
  out of the prover's reach. The action properties in them (`OnlyConfirmed`, and
  in `GowtProgress` all but `RunEnds`) are proved.

Every invariant that a passing run checks is stated by a theorem.

## Disagreements between code and comments

1. `locker_exclusive`: `handleLock` deletes `locks[connStr]` without looking
   whether the entry is its own (`handler.go:211-228`).
2. `acl_timeout`: `waitForDecision` stores Timeout without looking at the
   decision again (`acl.go:401-406`).
3. `gowt_drains`: `propagateStatus` takes the status running from a test that
   is still counted as running (`model.go:667`).
4. `proof_beside`: the deferred teardown of `cooper proof` runs also when the
   preflight refused because a session is up (`proof.go:106, 193, 1015`).
5. `restart_callers`: a second restart request overwrites the caller of the
   first (`tui/app.go:465, 530`), who stays blocked.

Seen on the way, without a run:

* `Stop` of the execution bridge holds `mu` while `Shutdown` waits for handlers
  that want it (`server.go:101-112`), so a request in flight is cut off after
  the five seconds;
* closing the broker discards what the bridge goroutine has buffered, against
  the comment at `broker.go:153`;
* a test skipped in a cached package is shown as passed (`model.go:289`), and a
  prefix node may show running for ever; `StatusFollowsTest` states the first
  as it is;
* two crossing `cooper cli` for one barrel may leave it without a token
  (`main.go:871-882`);
* a language whose host version was unknown when the wizard ran has mode "off"; the
  space key switches it on all the same. When its host version is known later,
  the base image is built with it and its language servers
  (`lsp.go:187-205`), but `RefreshContainerVersion` records nothing for mode "off":
  `cooper up` warns at every start of servers that are "built but no longer
  expected" (`toolwarnings.go:24-28, 100-106`) while `cooper update` says that
  all match. The run has such a setting, and `WarningsAgree` names the case;
* `cooper update` saves the versions of a rebuilt base image before it rebuilds
  the images on top of it (`main.go:1205-1226`); when one of these fails, the next
  update sees no change of the base;
* an image is built and the save of config.json behind it fails, or the process
  dies between the two (`main.go:1201-1211, 1226-1234`, `build.go:158-189`):
  config.json tells of the older image, and a later update may say that all match.
  `ConfigTellsBuilt` and `UpdateDelivers` hold for every other image (`untold`);
* Python in the base image is the distribution's, whatever version was wanted and
  is recorded; `UpdateDelivers` says nothing of it;
* a save that fails may leave config.json cut (`config.go:95` writes the file in
  place), and the wizard then begins afresh;
* `UpdateSettings` (`cooper.go:635-653`) and `UpdatePortForwards`
  (`cooper.go:597-606`) copy the configuration, save it and store it at
  different moments: where they overlap one of the two changes is lost in memory
  or in the file. `ChangesAgree` excludes overlaps (`pfDisturbed`). Both also read
  and write `*a.cfg` without a common lock; a copy torn by that race is not
  modelled;
* the client is documented as "safe for concurrent use" (`client.go:68`), but the
  map goes by database: after an auto-unlock the late `Unlock` of the first test
  closes the stream of the next one of the same process (`client.go:169`).
  `OnlyLateCallsHit` bounds it;
* a rerun while a start is under way: `TestStartedMsg` carries no generation, so
  the overtaken process is attached to the rerun and its events mix with the new
  ones, which the increment of the generation is there to rule out (`app.go:435,
  545`). `OneReader` and `StaleDropped` allow this case alone;
* a confirmed search is kept when another node or mode is opened: the lines of
  the old one stay on screen (`logview.go:157-186, 243`). `TextIsNodes` says when;
* the tree is not told the size of the window when one comes back to it from the
  log (`app.go:635`): it is drawn in the old size until the next resize;
* when `docker stop` fails, the rest of the shutdown goes on and the container stays
  up: `cooper down` says so, the end of `cooper up` drops the error
  (`cooper.go:327-340`, `main.go:674-679, 749`). A start of `cooper up` that is cancelled while docker works
  on it may leave the proxy behind (`main.go:453, 592`). `UpLeavesNothing` and
  `DownLeavesNothing` hold but for these (`refused`, `late`);
* a down that reads the lock file between the flock of a new up and its
  `writePID` finds the PID a crash left there, and signals it
  (`runtime_lock.go:68`); `OnlyOwnerSignalled` leaves no other moment;
* a log file may outgrow its 10MB by less than one entry, since the size is
  looked at before the write (`logger.go:48-58`, against `REQUIREMENTS.md:323`);
* a line that Squid has written half of is shown as two lines (`tailer.go:72-91`),
  and when logrotate renames access.log (`proxy.Dockerfile.tmpl:103-114`) the
  tailer stays with the old file;
* the alert's progression and cooldown begin anew when it is switched off and on
  (`controller.go`), where `REQUIREMENTS.md:269` speaks of the session;
  `PhrasesAlternate` is stated for each stretch between two switches;
* `ReloadSocat` passes the proxy over in silence when docker does not say whether it
  runs (`portforward.go:91-92`), and stops at a rules file it cannot write (`:84`), so a
  probe of `cooper proof` may leave its port forwarded by the running proxy;
  `ProbeRuleRemoved` names the first case, the second gives a warning;
* a test driver with a prefix of its own runs in the namespace "cooper"
  (`driver.go:62-68` sets no namespace), so it replaces and tears down the
  user's session, where `TEST_DRIVER.md:69` promises isolation. `UserSpared`
  allows this to nobody else.

## Not modelled, and why

Log lines, colours, widths and sorting are formatting. The ACL timeout setting
is constant while a request is open. `cleanupExpiredLocks` touches only locks
that no code path creates. Configuration and templates of pgflock, the
rendering of its view, formatting and command line of gowt, and cooper's auth,
fonts, names and shell scripts are sequential I/O or functions from text to
text that a model would only restate. What a *partly* modelled component leaves
out stands in its note in `PROJECT.json`.

## Plan

1. What the parts would do to each other when they run together: today they share
   no state in the runs, and what one does to another is an environment action.
2. More of what *partly* modelled components leave out, as their notes say.
