# A verification development of steamclienttermux

TLA+ modules that model the parts of this repository in which the order of
steps matters, the TLC configurations that check them on small instances, and
TLAPS proofs of safety properties for every instance. Everything is translated
from the code; `PROJECT.json` says which lines each definition stands for.

1. [The system](#1-the-system)
2. [What is modelled, module by module](#2-what-is-modelled-module-by-module)
3. [Runs](#3-runs)
4. [Fairness](#4-fairness)
5. [Proofs](#5-proofs)
6. [What the models show of the code's limits](#6-what-the-models-show-of-the-codes-limits)
7. [What is not modelled](#7-what-is-not-modelled)
8. [Running it](#8-running-it)

## 1. The system

The repository runs Valve's ARM64 Steam client inside Termux on Android. It is
not one server but some seventy short programs in Python and bash, with a few
that stay: a dispatch server, a probe, guards, a bounded log. They share
`/proc`, files that are replaced by rename, directories moved by rename, a few
lock files, FIFOs and Unix sockets. So its concurrency is that of Unix
processes, and its hard behaviour is (a) being killed between two file-system
calls and run again, (b) two runs at once, (c) a signal in the middle of a
shell script, (d) processes that come and go while another looks at `/proc`,
and (e) a second owner (Valve's client, Wine, Android) of the files it edits.

| component (sources under `src/scripts` unless said) | state it keeps | operations | hard part | what makes it correct | module |
|---|---|---|---|---|---|
| Seed setup (`setup-steam-stack.py`) | `client-seed`, `client`, staging, two receipts, two transactions, `rollback/*` | prepare, activate, rollback, status | kill between any two calls; two commands at once; Valve updates `client` | no seed or client is lost or replaced; a receipt describes what is there; an interrupted command can be resumed | `SeedSetup` |
| Client download (`bootstrap-steam-arm64-client.py`) | cache, partial file, destination | install | two runs on one partial file | the seed is whole, only a kill leaves a partial file | `SeedDownload` |
| Dependency installer (`setup-steam-stack.py dependencies`) | packages, transaction, receipt | install | killed after a part was installed | the receipt tells what the setup added | `DependencySetup` |
| Runtime installers (`install-{proot,glibc,turnip,tgcompat,debian}-runtime.py`) | cache, staging, installations, `current`, flock | one run each | concurrent runs, kills, changed inputs | an installation appears whole and is never replaced | `RuntimeInstall` |
| Runtime direct root (`prepare-runtime-direct-root.py`) | roots by version, link, mount anchors | prepare, refresh | two runs; Steam updates and installs meanwhile | the linked root is whole and anchored | `DirectRoot` |
| Steam session (`start-steam.sh`, `stop-steam.sh`, `bin/steam-arm*`, forwarding, acknowledgement) | Steam, X server, sockets, FIFO, log offsets | start, forward, acknowledge, stop | warm and cold start, stale sockets, a log read from an offset | one request one game; a stop leaves no launcher and no Steam that it could see | `SteamSession` |
| Session guard (`bin/steam-arm64-session-guard.py`) | two capped sinks, the web helper's logs | stream, preflight | a sink that fails; launchers that overlap | what a sink holds has no gap; no log that Steam has open is replaced unseen | `SessionLog`, `NoisyLogs` |
| Removable library (`bin/steam-arm64-removable-library.py`) | links, configuration, staged game | prepare, set payload, enable, disable, commit, finalise | links and configuration change in separate steps | Steam runs on the configured view; no file of a game is lost | `RemovableLibrary` |
| Direct dispatch (`pressure-vessel-direct-dispatch.py`) | socket file, one client, one child held at a pipe, descriptor tables, environments | serve, client, loader child, plan | death of any of three processes, overlapping servers, a full table, settings that undo each other | a reported pass is the client's own, on its descriptors and with the operator's settings; nobody waits for ever | `DirectDispatch`, `RemapDescriptors`, `DispatchPlan` |
| Direct launch (`start-tombraider-direct-dispatch.sh`, `start-tombraider-bvb-probe.sh`) | helpers, server, overlay, three marker files | launch, probe, cleanup | a signal or failure between any two commands of two scripts | nothing stays behind; no game without its renderer | `DirectLaunch` |
| Foreground launcher (`run-tombraider-bvb-foreground.py`) | a Termux property, the X11 window, a child | controller, child | two controllers on one property; a late child | the property comes back; a probe starts only in its place | `ForegroundLaunch` |
| Benchmark runner (`run-tombraider-native-benchmark.py`) | `series.json`, results | a series of passes | games that outlive their launcher, strangers, failing writes | each pass counts its own result, cool and alone | `BenchmarkSeries` |
| Helpers of a measured pass (`hold-*.py`, `isolate-*.py`) | stopped processes, CPU masks | find, hold, watch, undo | targets die, are born, change number; second signal | what was held is given back, or the pass is rejected | `GameHold` |
| DXVK overlay (`manage-tombraider-dxvk-overlay.py`) | DLLs, `active.json`, evidence, flock | activate, restore | kill or error half way; files of others | every DLL of ours on record, nothing overwritten or lost | `DxvkOverlay` |
| FEX offline cache (`prepare-tombraider-fex-offline-cache.py`, its gate) | candidate, maps, history | prepare, refresh, compile, verify | games record in between; a cut compilation | a verified cache covers its maps | `FexCache` |
| Affinity guards and tools (`set-*-affinity.py`) | CPU masks of others | watch, set, check | games and threads come and go between two readings | reports tell the truth; the probe is undisturbed | `AffinityGuard`, `TreeGuard`, `MaskTool` |
| Launch timer (`time-steam-game-launch.py`) | attempts | poll | Steam retries a session | stages belong to their attempt | `LaunchTimer` |
| Settings configurers (`configure-*.py`) | eight files, backups, records | apply, restore | the owner of the file writes it back | an edit stands; what is replaced can be had again | `SettingsEdit` |
| Proton and game files (`prepare-proton-direct-wine.py`, `prepare-no-mans-sky-proton.py`) | executables, backups, records, DLLs | prepare, check, restore | kills; Steam updates both | originals are kept; success means done | `ProtonFiles` |
| DXVK state cache, temporary files (`prepare-dxvk-state-cache.py`, `cleanup-steam-temp.py`) | cache, manifest; shared memory | prepare; remove | kills; descriptors that move during a scan | a manifest means whole; what one descriptor names all the time stays | `DxvkSeed`, `TempCleaner` |
| Others | see [section 7](#7-what-is-not-modelled) | | | | |

How they interact: `start-steam.sh` starts or finds Steam through its launcher
and forwards requests; the direct launch starts the dispatch server, activates
the overlay and asks Steam for the game; Steam's bwrap child is the client of
the dispatch server, which starts the game; the probe and the foreground
launcher run the direct launch; the benchmark runner runs one of them per pass
beside the helpers and a guard; the preparation tools run before any of it.
They meet in files, signals and `/proc` only, which is why each module has the
others as an environment: `DirectLaunch` has of the server its start, gate and
status, `BenchmarkSeries` of a launch its status and late results, `SteamSession`
of Steam what its log and processes show.

The hazards this code is exposed to are listed with their lines in
`PROJECT.json`, each with the properties that would catch it.

## 2. What is modelled, module by module

A component has a module with its constants, variables, actions and properties.
`MC...` modules give TLC what a `.cfg` cannot, and without such a need a run
checks the module itself. Most of them compose parts that share no state, so
that a behaviour is one of one part while the others stay as they began:
`MCPreparationAndLibrary` (the settings, files and packages of
`MCGamePreparation`, and `RemovableLibrary`), `MCGameStart` (`DirectDispatch`
and `DirectLaunch`), `MCBesideTheGame` (the guards, gate, timer and logs of
`MCGameHelpers`, and `GameHold`) and `MCOperatorCommands` (`DxvkOverlay`,
`RuntimeInstall`, `BenchmarkSeries`). Where parts conjoin properties, they state
each under the part's name. `SeedLifecycle` and `RuntimeStore` are abstract
specifications. An operator called `XBug` is the
operator `X` that follows it with one plausible mistake; it is not part of the
specification and shows that a property, or one conjunct of one, can fail.

### SeedSetup, with SeedLifecycle

One action per file-system call of `prepare`, `activate` and `rollback`: the
paths (`seed`, `seedReceipt`, `seedTxn`, `quarantine`, `client`, `staging`,
`clientReceipt`, `clientTxn`) are variables, a command is a record in `run`
with a program point, the lock file it was given and what it has read. Trees
are abstracted to the lock file (archive version) they come from and whether
they are still exact, partial, edited or updated by Valve; validating a tree
against a receipt is then equality. `Crash` ends a command anywhere, its
files staying as they are. Nothing in the script serialises commands, so
several slots of `Procs` may be at work.

* `SeedSafe`: `SeedReceiptSound` and `ClientReceiptSound` (a receipt on the disk
  describes the tree beside it, or, for the seed, one on its way to a recorded
  quarantine), `RollbackResumable` and `QuarantineExact` (a recorded rollback
  has its archived receipt and its tree in exactly one place; a finished one
  holds what its receipt says).
* `NothingDestroyed`: no client is overwritten, and a seed leaves only by
  becoming a payload nobody replaces.
* `StatusTells`: `status`, under any `--lock` of its own command line, says
  "invalid" only of a seed that somebody has edited or that was prepared with
  another lock, and "not-prepared" only where there is none.
* `ImplementsLifecycle`: the code refines `SeedLifecycle`, in which a seed
  appears whole and leaves by becoming, in the same step, the content of an
  empty archive. The mapping reads `installed` and `archive` off the paths.
* `Resumes`: running the same command again ends an interrupted rollback
  (`RollbackResumes`) and takes an interrupted prepare as far as its receipt
  (`PrepareArrives`). That a prepare is resumed to its end (`PrepareResumes`, the
  sentence of `docs/PACKAGING.md:47-48`) does not hold: run
  `seed_prepare_resumes`.

### DxvkOverlay

`activate` and `restore` file by file. `op` is the command that holds the flock
(the kernel drops it with its holder; who does not get it changes nothing).
`KillOp`, an error in any call (`RaiseOp`, with the handler that takes back what
was placed) and a file that appears or changes by another's hand at any moment
(`OtherDll`, `DllRemoved`) share the bound `MaxOverlayFaults`. `OnRecord` (every
DLL of ours in the game directory is named by `active.json`),
`NothingOverwritten`: a DLL that is whole or not ours leaves the game directory
only for a free place of the evidence directory and stays there
(`NothingLost`), and one that is not ours is moved only if it took the place of
one of ours after `restore` had verified that (`ForeignKept`; between `regular()`
and `os.replace` nothing is looked at again). `IntactRestored`: an overlay whose
files are whole is restored once restore is run and nothing goes wrong any
more.

### DirectDispatch, RemapDescriptors, DispatchPlan

`serve`, the client and the loader child as three processes per request, with
the socket file, the listen queue and the pipe that holds the child.
`srv[s].pc` follows `serve` from the look at the socket path to its `finally`;
`Kill` ends a server without it, as SIGTERM's default action does; the child
inherits both ends of the pipe until it closes its copy. Two servers may
overlap and two clients may connect.

What the child does with the descriptors and the plan are functions, evaluated
for every input of the bounds when a behaviour begins: `RemapDescriptors` is
`remap_descriptors` on tables (receive, duplicate above the floor, put each in
its place, or fail when the table is full), and `DispatchPlan` is what each
mode of the server makes of the command line and the environment - the scrub of
Steam's variables, the order in which the operator's settings are applied, the
validations each mode makes of files, and which program is executed. A value of
a variable is abstracted to who it comes from and what it switches on. What a
setting owes is stated apart from the code (`Owed`: for a FEX profile its name
and, for `smc-full` and `strict-locks`, the switch that makes it). In the Tomb
Raider modes the switch of `smc-full` is replaced by another setting's default;
the reference has this one exception by name (`Overruled`), and the run
`dispatch_profile` shows it against the test that states it (`ProfileReaches`).

`ServedRight` conjoins the types, `PassIsReal` (a reported pass has been the
client's own valid request, untraced, on the descriptors it named and with the
settings selected) and `RunsForItsClient`. `NobodyWaits` conjoins
`HeldChildEnds`, `ClientEnds` and `GetsToListen`, whose guard is deliberate:
two servers at once can remove each other's socket file.

### RuntimeInstall, with RuntimeStore

The five installers have one control structure and differ in four respects
(`Locked`, `Selected`, `Cached`, `Copies`), which are functions of `kind`,
chosen once in `InitialInstall`. An installation is the version it was built from and
whether it is whole or edited; staging, cache and destination are variables;
`KillInstaller`, `Break` (an error with its handler), `Edit` and `Remove` are
bounded by `MaxInstallFaults`. All runs use one `--base`. `ReadyIsInstalled`; `ImplementsStore`
(an installation appears whole where nothing was, and the selector moves only to
one that exists); `Installs` (no kill or failure keeps later runs from
installing). `BuiltOnce` and `StagingRemoved` are proved.

### DirectLaunch

Two shell scripts, the server and the game. `start-tombraider-direct-dispatch.sh`
is `launch`, with a program point for every group of commands that cannot be
told apart by a property, its EXIT trap (`CleanHelpers`, `CleanServer`,
`CleanOverlay`) and its TERM trap, which runs the cleanup and does *not* leave
the script; `start-tombraider-bvb-probe.sh` is `probe`, with its monitor loop,
its stops of children in order, five seconds each before KILL, and its marker
files `gate`, `waiting` and `ready`. `EndsWell` conjoins `SuccessIsPlayed`,
`NothingLeft` and `MarkersGone`; `PlaysInFrame` conjoins `FramesFirst` and
`NoGameAfterProbe`; `HandoffEnds` says that a refused launch ends. They exclude
a launch that the probe killed, since no trap of it runs.

### ForegroundLaunch

The controllers share `termux.properties`, what Termux has cached of it and the
Termux:X11 window; each has its child, which may come late, and a request
directory. Every step may fail or time out; a controller may be interrupted
(its `finally` runs) or killed. The cgroup is not a variable: Android changes it
at any moment, so that a check of it may come out either way. `cut` are the
controllers that could not undo what they did (killed, or interrupted between
`os.replace` and `changed = True`). `PropertyRestored`, `ProbeIsOwn`
(`StartsInPlace`, `ZeroIsPlayed`), `RunEnds`.

### BenchmarkSeries and GameHold

`BenchmarkSeries` is the series: cooldown samples, the launch, the search for
exactly one new result and one ready log, acceptance, `series.json` and its
prints, with games that outlive their launcher and write late, others that play
meanwhile, and writes that fail. `PassesCount` conjoins `AcceptedIsOwn`,
`LaunchedCool` and `AloneAfterAbort`; `FileTells` is about `series.json` and the
exit status. `SeriesEnds` (`SeriesComesToEnd` in the run): the series ends or
waits for ever for a launch that does not; a launch has no deadline, since a
request that Steam never makes keeps its server in `accept`.

`GameHold` has the three helpers that hold something outside the game for as
long as it runs, chosen by `mode`, and the controller that owns one. A target
is a number of `/proc` with the start ticks (`born`) that tell one use of it
from the next. The helper's `try` is `find, await, take, act, mark, verify,
hold`; its `finally` is `undo`. A signal in the first raises `StopRequested`
and leads to the second; one in the second is caught by the handler inside it
and ends the undoing (`Break`). `HoldTells` conjoins `OkLeavesNothingHeld` (the
exit status tells the truth) and `AcceptedPassWasHeld`; `HolderEnds`
(`HoldEnds` in the run) says that the helper ends by its own deadlines. Numbers are given again only while the
helper sleeps: reuse within the microseconds between a check and the call after
it is left out.

### SteamSession

Starts and a stop, with Steam and the X servers as an environment that acts by
itself: a launch is the launcher's shell and the pipeline behind it, which is
`boot` until it is Steam; a second Steam hands its request to the first one.
`AcceptedIsOwn`: an acknowledgement is about a game started behind the look at
the log and by the Steam that is reported, unless the one that started it has
ended, or the reported process was one that had still to hand over to it. The
last exception takes three launches (a start finds only the process that would
hand over, since the session's has just crashed, and a third one becomes the
session's first); the run's two do not reach it, the proof covers any number.
`AskedOnce`: a request reaches a
game once, by the pipe or by the launcher. `StopStops`: unless a start has
crossed it, a stop leaves no launcher, no X server and no socket, and of Steam
only what comes of a pipeline that was not Steam yet when its launcher was
ended. The script's own message says more, without a condition
(`EverythingStopped`), and the run `session_stop` shows that it is not so.

### RemovableLibrary

The file-system calls of every command, the configuration last; a launcher
that reads the mounts and starts Steam; Steam staging, copying and updating
files; cards pulled and put back. `half` chooses between the layout commands
and those of the game, which do not read each other's state. `OneView`,
`NothingHalfDone` conjoins `InstalledIsWhole` and `PrepareResumable`: after a
kill or failure of `prepare` or `set-payload-common` the prepare of that card
accepts the links it finds, with one exception that it names (`Ahead`: the
payload link made, the configuration not written). `GameKept`: no step takes
away the last good copy of a file. It says nothing of taking a cut commit up
again, which the code refuses (section 6). `raced` marks launches and commands
that overlapped when neither could see the other; `OneView` excepts them.

### Beside a game: FexCache, AffinityGuard, TreeGuard, MaskTool, LaunchTimer, SessionLog, NoisyLogs

* `FexCache`: the gate's steps, the tool's verbs within it, the dispatcher's
  checks, a game that records and the compiler (external). `CachesTell`:
  generations come one by one and each learns; what is verified was compiled
  from every map of its history; the compiler finds no map the manifest does
  not name. The gate, its launcher and the launcher's server are apart: `Launch`
  begins it, `Serve` is the request that comes, `Decline` a launcher that fails
  first. `GateEnds`: the gate ends, or comes to wait for a request that Steam
  never makes or for a compiler that does not end (`Waits`), the two waits
  without a deadline.
* `AffinityGuard`: the watcher of Tomb Raider over games that follow each
  other: the first probe is undisturbed, and `ready` says that the game there
  was in place in as many polls as the interval has. `TreeGuard`: the watcher
  of GTA IV's process tree, with process numbers used again; what it reports was
  whole in every poll, and it leaves only a tree that is gone. Both report.
* `MaskTool`: the tools that set or check masks once, against threads that start
  threads; `ToolTells`.
* `LaunchTimer`: polls over two logs, `/proc`, DXVK logs and the window, with
  sessions that Steam starts anew, lines read in two parts and logs that are
  cut; `TimerTells`.
* `SessionLog`: bytes from the pipe to two capped sinks that may fail in any
  write; `OutputKept` (a prefix without a gap, within the cap, then one marker)
  and `Emptied`. `NoisyLogs`: preflight of overlapping launchers on two paths,
  whose last loop tests every path again whatever the inspection found;
  `LogsSilent`: the logs go to `/dev/null` as long as Steam leaves the links
  alone, and a log that Steam has open loses its name only to a launcher that
  took Steam for not running, or was past its inspection when Steam made the log
  (`misled`).

### Before a game: SettingsEdit, ProtonFiles, DependencySetup, SeedDownload, DirectRoot, DxvkSeed, TempCleaner

* `SettingsEdit`: eleven tools on eight files. A tool is a sequence of steps
  (look for processes, read, copy, compare, replace, confirm, write its record),
  in its own order, which the actions carry out; the file's owner (Wine, the
  game, Steam) reads it when it starts and writes it back when it ends.
  The look for a record (`Exists`) and its writing (`Record`) are steps apart.
  `EditStands`; `EditsAreKept`, within the run's `EndIsWhole`.
* `ProtonFiles`: prepare, check and restore of patched executables with
  `state.json`, and the second Proton with its three game libraries, by rename.
  Every reading of a target is a step of its own: its interpreter, the digest
  that names its backup, the copy that is patched, the digest of what was
  installed, and last the identities that later runs believe (`Identified`).
  `OriginalsKept`; `WholeIfEnds`, within `EndIsWhole`, of the records whose
  identities are those of the file that was compared; the others are what
  `EndsPrepared` and the run `proton_stale` are about.
* `DependencySetup` (`DependenciesTold`), `SeedDownload` (`DownloadTells`),
  `DirectRoot` (`RootServes`), `DxvkSeed` (`CacheSeeded`), `TempCleaner`
  (`RemovesUnused`), together `PreparedWell`. A download that is not killed leaves
  no partial file (`NothingPartial`). The cleaner lists a process's descriptors
  and asks each later; `RemovesUnused` is of a descriptor that named a file,
  readable, from the list on, and `RemovesClosed`, what the tool says of itself,
  is shown to fail by the run `temp_closed`.

## 3. Runs

All bounds are constants of the modules; deadlock is checked except where the
system really stops (every configuration with `CHECK_DEADLOCK FALSE`: a launch,
a request, a pass, a command comes to its end; the liveness properties say
whether it is the right one).

| run | configuration | bounds | distinct states | shows |
|---|---|---|---|---|
| `seed_crash` | `SeedSetup.cfg` | 1 command at a time, 2 lock files, 2 labels, 2 kills | 393 524 | status, receipts, nothing destroyed, refinement of `SeedLifecycle`, what re-running finishes |
| `game_start` | `MCGameStart.cfg` | dispatch: 2 servers, 2 clients; 9 descriptors, 3 in a request; 3 settings at once in each mode. Launch: with and without probe, 2 signals | 392 176 | a pass is real, everybody ends; nothing left, order of start, honest success, a refused launch ends |
| `foreground` | `ForegroundLaunch.cfg` | 2 controllers (in one mode both, in three modes one with 2 faults) | 396 527 | property restored, probe in its place, it ends |
| `commands` | `MCOperatorCommands.cfg` | overlay: 2 files, 2 variants, 3 activations, 3 faults. Installers: 5 kinds, 2 runs at once, 2 lock files, 2 faults. Series: 2 passes, 2 ready samples, 4 polls, 1 stranger, 2 failing writes | 1 249 868 | record, nothing overwritten, restored; installed whole, refinement of `RuntimeStore`, installs; passes count their own, file tells, the series ends or waits for its launch |
| `helpers` | `MCBesideTheGame.cfg` | 4 maps, 2 refreshes, 2 faults; 2 games, 2 changes; 3 processes or threads; 2 sessions; 6 bytes, cap 4; 2 launchers. Pass: 3 helpers, 3 targets, 2 signals + the controller's, 2 changes | 1 319 337 | caches, guards, tools, timer and logs; honest exit status, accepted pass, the helper ends |
| `session` | `SteamSession.cfg` | 2 starts and a stop, 2 launches, 1 Steam or X server that ends | 7 702 481 | acknowledgement, requests once, stop |
| `preparation` | `MCPreparationAndLibrary.cfg` | 2 commands, 2 values, 1 session of the owner; 2 executables, 2 runs, 1 update; 2 packages; 4 partial files; 2 versions; 2 cache files, 2 faults; 1 shared-memory file, 2 processes of 2 descriptors. Library: 2 cards, 2 payload roots, 2 files, 2 faults, 1 write of Steam per file | 5 136 528 | settings, originals, receipts, roots; one view, installed means whole, no file lost |

Five runs end in a violation, each of a sentence the repository states of its
program:

| run | configuration | the sentence | what happens |
|---|---|---|---|
| `seed_prepare_resumes` | `SeedPrepareResumes.cfg` | `docs/PACKAGING.md:47-48`: an interrupted prepare is resumed by the same command | killed between receipt and transaction, prepare says `already-ready` and the transaction stays |
| `dispatch_profile` | `MCDispatchPlan.cfg` | `scripts/test-pressure-vessel-direct-dispatch.py:1304-1313`: the profile `smc-full` sets `FEX_SMCCHECKS=full` | in the Tomb Raider modes `apply_fex_smc_checks` replaces it |
| `session_stop` | `SessionStop.cfg` | `stop-steam.sh:233`: Steam, session helpers, and X display are stopped | a pipeline whose launcher was ended becomes Steam after the last look |
| `proton_stale` | `ProtonStale.cfg` | `docs/PRODUCTIZATION_RESEARCH.md:111-114`, `docs/STEAM_TIMINGS.md:157-160`: a stale stamp is not trusted | what Steam writes between digest and identities is stamped as compared, and never patched |
| `temp_closed` | `TempCleanerClosed.cfg` | `cleanup-steam-temp.py:133-134`: only closed files are removed | a file stays open by a descriptor that moved, came late or cannot be read |

Why the bounds are enough. The code's loops over files, threads and
descriptors treat each element alike, so what matters is that one element has
been dealt with, one is being dealt with and one has not: two or three. Two
versions tell "mine" from "another's"; two commands give every interleaving of
a pair, and no step waits for two others. A second kill strikes the recovery
from the first one, which starts again from the files alone; a third finds no
state that the second did not. In the overlay of `commands`, three faults allow an
error, a kill in its handler and a file changed by another; in its series, two
passes
are one that leaves something and one that may take it, and four polls allow two
ready samples to be interrupted by a bad one. In `session`, the third launch
would be a third Steam, which is a second one to each. In `helpers`, the limits
128 and 64 of the FEX cache are 2 and 2, so that both are reached. Where a
theorem exists the bounds do not matter for its property. `seed_crash` has one
command at a time; what holds of commands that cross one another
(`NothingDestroyed`, `ClientReceiptSound`) is proved for any number of them.

In a run of several parts the other parts stay in one of their initial states;
no property relates two parts, and the parts share no variable but the one that
says which of them moves (in `preparation`, the settings and the Proton files
use three variables in turn). Fairness is stated of each part's steps while it
is the part that moves, so that no part owes another anything.

Symmetry is used where no liveness is checked and the set's members are
interchangeable: starts in `session`, slots of commands and files of the game in
`preparation` (see the `MC` modules).

## 4. Fairness

* `SeedSetup!FairSpec`: a running command goes on (weak). Nothing restarts a
  killed command: the documented recovery is that the user types it again, so
  `Resume` (the command of the pending transaction) and a fetch that succeeds
  are strongly fair; without them nothing is claimed.
* `DxvkOverlay!OverlayFairSpec`: the command that holds the lock goes on, and restore
  is run again. Faults are bounded, so they end.
* `DirectDispatch!DispatchFairSpec`: servers, children and sending clients are
  scheduled, and a payload ends. No fairness for starts, connections or kills.
* `RuntimeInstall!InstallFairSpec`: running installers go on and are run again;
  `Installs` asks in its own antecedent that the runs be of one lock file.
* `DirectLaunch!FairSpec`: the two scripts, the server's waits (which have
  deadlines) and the end of a game. Not Steam's request: `accept` has no
  timeout, and a launch whose request never comes does wait for ever.
* `GameHold!FairSpec`: the helper's steps, among them its deadlines, each of
  which is in the code. Not the game, not the controller.
* `ForegroundLaunch!FairSpec`: controllers and children; each wait has a
  deadline, which is a disjunct of the step. The probe may run for ever.
* `BenchmarkSeries!SeriesFairSpec`: the controller, but not the end of a launch,
  which may wait without a deadline: `SeriesEnds` has that wait as its other
  case.
* `MCGameHelpers!HelpersSpec`: the gate of the FEX cache, but neither the request its server waits for
  nor the end of its compiler (`GateEnds` has the two waits as its other case);
  the two guards, and the reader of the
  session's pipe. The last one assumes that a write to a sink returns or fails:
  a stopped terminal that neither takes nor refuses bytes would block it. Not the
  games, nor the trees, sessions and threads.
* `SteamSession`, `RemovableLibrary` and `MCGamePreparation` state no liveness.
* `MCGameStart!StartSpec`, `MCBesideTheGame!BesideSpec` and
  `MCOperatorCommands!CommandsSpec` restate the above, part by part.

## 5. Proofs

All theorems are of the form `Spec => []P` or `Spec => [][A]_vars` and hold for
every value of the constants that meets the modules' `ASSUME`s (the special values
differ from all others; the bounds are natural numbers). None assumes fairness.

| module | theorems | argument |
|---|---|---|
| `SeedAndLibraryProofs` (seed) | `TypeCorrect`, `ClientKept`, `ClientReceiptHolds`, `SeedKept`, `NothingIsDestroyed` for any number of concurrent commands; `SeedReceiptHolds`, `RollbackIsResumable`, `QuarantineIsExact`, `SeedIsSafe`, `LifecycleIsImplemented`, `StatusTellsEdits` for one command at a time with any number of kills | First what holds under concurrency: typing with "a command that writes into its quarantine has found or made it"; a rename that requires an absent target cannot replace. Then, with one slot, an invariant that relates each program point to the files: which of seed, payload, receipt and transaction exist when the command is there, and hence what a kill there leaves. The properties alone are not inductive: after the tree has moved, only the recorded transaction explains the receipt that remains. The refinement of `SeedLifecycle` needs one fact more, `ReceiptStays`: until the tree has moved, a rollback on record finds the receipt in use, so that what the move retires was installed. `StatusTellsEdits` needs another, `AsReceipted`: a seed that nobody has edited is the one its receipt was written for. |
| `SeedAndLibraryProofs` (library) | `LibraryTypeCorrect`, `ViewIsOne`, `NothingIsHalfDone`, `GameIsKept`, for any number of kills, Steam updates and mount changes | `LibraryInv`: who can be at a step at all, since the lock is held (`Alone`, `ReadsAlone`); what a command that goes on has found mounted and whole (`Mounted`, `FoundWhole`); what there is of a view that is being made (`PreparingView`); and, while the view is half made, which command or which kill has left it so (`Broken`, `NoneBroken`, `Duplicates`). |
| `DxvkOverlayProofs` | `OverlayTypeCorrect`, `EveryDllOnRecord`, `ForeignDllKept`, `ActiveOnlyWhole`, `NoDllLost`, `NothingIsOverwritten` | `OverlayInv == TypeOK /\ OnRecord /\ StepInv`, where `StepInv` says what each step of a command may rely on, such as that the files still to move are whole and their evidence places free. |
| `RuntimeInstallProofs` | `InstallTypeCorrect`, `NeverBuiltTwice`, `SuccessMeansInstalled`, `StagingAlwaysRemoved`, `InstallersImplementStore` | `Ind`: who can be past the flock, what a staging directory holds at each step, what validation established; the refinement follows step by step, the rename mapping to `Install`. |
| `LaunchAndDispatchProofs` (launch) | `LaunchTypeCorrect`, `NothingLeftBehind`, `NoMarkerLeft`, `SuccessMeansPlayed`, `LaunchEndsWell`, `FramesBeforeGame`, `NoGameWithoutRenderer`, `PlayedInFrame`, for any number of signals | `LaunchInv`, thirteen named parts, each preserved by each action: what a cleanup that has reached a point has already undone, which processes can exist before which point, and who can still make a marker or open the gate. |
| `LaunchAndDispatchProofs` (dispatch) | `ClientIsServedRight`, for any number of dispatchers, clients and faults | `DispatchInv`: each child belongs to one dispatcher (`Owned`), a reported pass has been the whole chain (`PassIsReal`), and for each dispatcher what its step entitles it to have accepted, authenticated and started (`Entitled`), that client and dispatcher are at matching places of their exchange (`InStep`), and that an answer on its way is the one the child's end calls for (`Answer`, `ChildTells`). Its two hypotheses, `PlansRight` and `TablesRight`, are not about states: they say of the pure functions in `DispatchPlan` and `RemapDescriptors` that no request of the given finite sets has an outcome outside the reference. They are folds over sequences, so TLC evaluates them, in the run `game_start`; `PlansRight` has the exception `Overruled` of section 2; the theorem takes them from there and adds every interleaving. |
| `HoldAndHelpersProofs` (pass) | `HoldTypeCorrect`, `SuccessHoldsNothing`, `AcceptedWasHeld`, `HoldTellsTrue`, for any targets, signals and changes | `HoldInv`: whatever is held and was not born so is on record, under its present birth, with its own mask, and is either still to be undone or accounted for by a failing status; the isolation mask is on record as a target's own only for one that was born with it; what is called active was not. Steps are first sorted into kinds (`StepKinds`), so that an exception is treated once for every place it may come from. |
| `HoldAndHelpersProofs` (helpers) | `CachesAreTold`, `ToolIsRight`, `LogsAreRight`, `GuardsAreRight`, for any number of games, threads, sessions, lines, launchers and kills | `HelpersInv`: one invariant per module, since a behaviour is one of one part. `FexInv`: a map is aggregated once (`MapsAreOnce`), and what the gate is about to verify was compiled from all that is aggregated, which is more than any earlier generation had (`GateIsRight`, `CompilerLearns`, `ResultsStay`). `RaiderInv`: until the first game has counted its processors the guard has found nothing in the log that it could act on (`GuardWaits`), and an interval is no longer than the polls that found the game. `TreeInv`: the same of a tree's polls. `ToolInv`: while a tool reads, a thread out of place was read or still will be, or there is none. `TimerInv`: attempts that were closed are of sessions that rise, and the stages of the open one are its own (`AttemptsMade`, `AttemptGoesOn`). `LogInv`: which bytes are at hand, and that a sink that goes on holds exactly those it has been given (`AtHand`, `Keeps`, `Marked`). `NoisyInv`: what a launcher that was told Steam did not run may find behind it (`LinksStay`, `ToldFirst`, `OwnLogsTold`). |
| `BenchmarkSeriesProofs` | `SeriesTypeCorrect`, `PassesAreOwn`, `SeriesFileTells`, for any number of passes, strangers and failing writes | `SeriesInv`: how many passes are on the record at each step, what the samples of a cooldown that still counts have shown, which results and logs are old, and which games there can be. `PassesCount` alone is not inductive: that a result is new says whose it is only together with what the searches before have left out. |
| `PreparationAndLaunchProofs` (Proton) | `OriginalsAreKept`, and with the settings `EndsAreWhole`, for any number of commands, updates and executables | `ProtonInv`: an executable is Steam's or the installed version is among the backups, unless an update came while it was written (`ExesKept`, `OwnedKept`); records that were compared with the files still match them (`SeenMatch`, of those whose identities are of the file that was compared); what a command has established of the executable in hand by each step (`WineKnows`, `NmsKnows`); and, for a command beside which nobody wrote, that it has done all it has passed (`WineDone`, `NmsDone`). Steps are sorted by what they do to the other commands (`Private`, `Public`). |
| `PreparationAndLaunchProofs` (settings) | `EditsStand`, `EndsAreWhole`, for any number of commands, sessions of the owner and values | `EditInv`: what stands is in the file (`Stands`) and, but for what the owner changed itself, in what it will write back (`OwnerKeeps`); and `EditKnows`: a command that is not late has the file as it is, one whose owner runs unnoticed either will still look for it or has been raced, and what it needs for its replacement was rendered, recorded and backed up before. The steps of the eleven tools are tables, so that a few lemmas about those carry the rest. |
| `PreparationAndLaunchProofs` (preparation) | `IsPreparedWell`, for any number of runs, kills and acts of others | One invariant per component, since no run touches the files of another component. `DependencyInv`: a package that was not missing at first is there or was removed by the user. `DownloadInv`: a partial file has a run that will rename or remove it, though not always the one that made it; what a run has vetted of the lock; and, while runs do not overlap, that a run writes to a file without a final name. `RootInv`: what each run knows of its staging directory, or of the root it has found, and which of the directories that it still owes are made; it is inductive because a root, once there, only gains directories. `CacheInv`: what a run has copied is in place, and it is of two versions only if it changed under the copy; neither needs the lock. `CleanInv`: a descriptor that has named a file, readable, since the list was made is still to be asked while its process is at hand, or has been and has named it. |
| `PreparationAndLaunchProofs` (foreground) | `PropertyIsRestored`, `ZeroMeansPlayed`, `ProbeStartsInPlace`, `ProbesAreOwn`, for any number of controllers and faults | `LaunchInv`: what each controller knows at each step, what there is of its child, and `PropInv` for the file they share: while the property is enabled and was not found so, some controller that has written it still has to put it back, or was cut short. The steps are sorted into kinds (`StepKinds`), and a step of one controller leaves the parts of the others alone (`LocalStep`). |
| `SteamSessionProofs` | `AcknowledgedIsOwn`, `RequestsStartOnce`, `StopLeavesNothing`, for any finite set of starts, any number of launches and of processes that end | `SessionInv`: `LaunchInv` (nothing runs of a launch whose shell has not got there; one Steam is the session's), `LogInv` (what the log names has been the session's Steam, an acknowledged one has been Steam), `AskInv` (a request is unsent, in one pipe, or with one launch, and each game has used one up, by cardinality), `StopInv` (what a stop has ended by each of its steps). The steps are reduced to what they do to launches (`Ways`) and to requests (`Fades`, `Hands`, `Sends`). |

Two components share a proof module where their names are disjoint, so that one
module extends both; neither proof uses the other.

Only model-checked:

* Everything about liveness, which is outside the prover's reach, as is ENABLED:
  `Resumes`, `IntactRestored`, `NobodyWaits`, `Installs`, `HandoffEnds`,
  `HoldEnds`, `RunEnds`, `SeriesComesToEnd`, `HelpersGoOn`, `GuardsReport`.
* The five sentences that are violated.
* `DispatchPlan` and `RemapDescriptors` are functions over finite sequences whose
  results TLC computes for every input of the bounds; what a fold computes for
  every input would need induction over data, which the installed provers cannot
  instantiate.

## 6. What the models show of the code's limits

The properties are stated with the conditions under which they hold. Without
those conditions the models show behaviours that a reader of the code should
know of. Those that disagree with a line that promises otherwise are checked by
the runs of section 3 that end in a violation; the others are limits nobody has
promised to be free of.

Preparation

* Seed: `prepare` killed between writing the seed receipt and removing the
  transaction says `already-ready` and never looks at the transaction again,
  while `status` asks for recovery and `activate` and `rollback` refuse
  (`setup-steam-stack.py:712-715`, against `docs/PACKAGING.md:47-48`; run
  `seed_prepare_resumes`). After an upgrade of the lock file `status` calls an
  unedited seed invalid, since it validates it against the new one. A staging
  copy of `activate` that stopped half way is validated instead of rebuilt, so
  that it fails until it is removed by hand (line 682).
* Download: the partial file is removed by whoever fails
  (`bootstrap-steam-arm64-client.py:307`), so of two overlapping downloads one
  may install the other's unfinished file under the final name, which later runs
  refuse; a killed run leaves a partial file that stops all later ones.
* Dependencies: killed between the receipt and the removal of the transaction,
  the transaction stays; a changed profile wedges a pending transaction.
* Installers: a failed Turnip run leaves its staging directory; the glibc
  selector, once its target has been removed by hand, is refused by
  `update_selector` until it is removed too. glibc's root and Debian's
  containers are outside the base whose flock is taken, so two bases do not
  exclude each other.
* Direct root: Steam updating between the hash check and the copy gives a mixed
  root that is never detected (`bent`); of two preparers of one version the
  second fails though the root is fine; a slower run of an older version selects
  the old root again; leftovers of killed runs with the same pid are refused.
* Proton files: a kill between the rename of an executable and the write of its
  record (`prepare-proton-direct-wine.py:641`) leaves "no restore record" for
  ever; two prepares at once can lose a record; what Steam writes between the
  digest of an executable and its identities is passed over ever after (run
  `proton_stale`); a kill between the two renames
  of the game's OpenVR library (`prepare-no-mans-sky-proton.py:491`) makes the
  next runs refuse.
* Settings: the tools take no lock; those without a second comparison can lose
  each other's edit between comparison and rename (`late`); the record of
  an original is looked for before the copy and replaced without another look
  (`prepare-proton-direct-wine.py:265,290`); the topology tool looks only for the
  game, the No Man's Sky tool for no process at all.
* DXVK state cache: a killed run leaves files without a manifest, and every later
  run refuses "partially seeded"; a source that changes during the copy with the
  same size is seeded mixed (`mixed`). Cleaner: a file opened only after the
  list, or whose descriptor moved to another number or process or became
  unreadable while they were asked, is removed (run `temp_closed`); so may be a
  new file under a name (`swapped`).

Session and launch

* A stop that ends a launcher whose pipeline still boots reports "stopped", and
  the pipeline becomes Steam afterwards (`booting`; run `session_stop`; compare
  `docs/TECHNICAL_LOG.md:4526-4529`). A cold start that finds a launcher attaches
  to it and never sends its request. A second cold start can unlink the first
  one's live X socket. Forwarding to a Steam that has died runs the launcher and
  waits for the whole session. The acknowledgement refuses when the log does not
  exist yet.
* Session log: a sink that blocks for ever blocks Steam. Noisy logs: a launcher
  that asked before another one started Steam, or that is past its inspection,
  replaces a log which that Steam has made (`misled`): the last loop of
  `prepare_noisy_logs` (`steam-arm64-session-guard.py:118-120`) asks for nothing
  but whether the path is a link. The comment at lines 94-96 ("a forwarded
  steam:// invocation must not unlink a file held by live CEF") gives the reason
  for looking at the whole set first, and does not hold of what is made after
  that look.
* Dispatch: of two overlapping dispatchers the first to end removes the other's
  socket file, and the other waits in `accept` for ever. Plan: in the Tomb Raider
  modes the switch of the profile `smc-full` is overwritten by the default of the SMC
  setting (run `dispatch_profile`);
  Tomb Raider's selectors are ignored in `no-mans-sky`;
  `selected_no_mans_sky_proton` has no caller.
* Launch: killed by the probe five seconds after TERM, it leaves server, helpers
  and overlay. Foreground: a child that comes late in a windowed or plain mode
  runs its probe unattended; TERM between `Popen` and the handlers orphans the
  probe; an interrupt between `os.replace` and `changed = True` leaves the
  property enabled.
* Overlay: a kill in the middle of copying a DLL leaves a partial file that
  `restore` refuses, and `activate` calls `restore` first. A DLL that another
  program puts over one of ours between `regular()` (226) and `os.replace` (246)
  is moved into the evidence as if it were ours.
* Library: a kill of `set-payload-common` between link and configuration leaves
  a link that no command accepts, `prepare` of that card included, until it is
  removed by hand (`Ahead`). A commit that was cut short is refused when it is
  repeated, since the inventory is no longer the registered one
  (`steam-arm64-removable-library.py:949-958`), until `enable-staging-bind`
  registers the tree anew; nothing is lost meanwhile. A launch that has read the
  mounts and not started Steam is not seen by a command (`raced`), and may start
  Steam on a view that the command has changed.

Measuring

* Hold: a thread of Termux:X11 made during the isolation inherits the isolation
  mask, which is recorded as its own; it stays pinned after a pass reported as
  restored (`isolate-tombraider-x11.py:117`). A helper that reports *failure*
  need not have undone everything.
* Series: `--recorded-passes` that lists all passes is accepted and fails after
  the last; a print that fails after completion turns `complete` into `failed`;
  a kill leaves `running`; a launch whose request never comes leaves the series
  waiting.
* FEX cache: the launcher's server waits without a deadline for a request
  (`start-tombraider-direct-dispatch.sh:589`), and the gate for its compiler; more
  than 128 maps after the launch of a game that was allowed with
  127 wedge the cache; a gate killed in its first compilation leaves a candidate
  that is refused; a history of 64 is refused by the audit.
* Guards: `topology_ready` is set once per guard, so that the probe of a second
  game under it is disturbed (`set-tombraider-affinity.py:496`); in `TreeGuard`
  a process that ends or forks between the scan and the reading of its masks is
  not seen by that poll (`set-gtaiv-affinity.py:256`), the interval does not start again when the game's number changes, and the
  report re-reads threads so that a game just ended ends the guard. `MaskTool`: a
  thread that ends while masks are read may leave an unlisted child (`quiet`).
* Timer: the first log is read before the second, so that a retry's launch line
  may be counted for the attempt before; a line read in two parts is lost.

## 7. What is not modelled

`PROJECT.json` lists every part with its reason. In short: the stack's bootstrap
order, project file installer, doctor, profilers, prefetch, shims and the
release archive are single passes over data without a protocol; the window
guard and session monitor poll X windows; the gamepad bridge is C and Java;
sandbox entries rewrite arguments; patches of PRoot, FEX, DXVK and Proton
concern programs whose sources are not in the repository.

Within modelled components: a kill leaves files as the calls made so far left
them, and power loss is not modelled (receipts and states are synced before they
are renamed into place, trees are not in every installer). Contents of files are
versions; names, messages and formatting are left out; an environment that edits
files does so in the ways the module names. Of single components:

* Dispatch: translation of container paths, `verify_peer`, `delegate_probe`, and
  the BVB diagnostics, WSI and frame-profile options.
* Session: strict forwarding, top-app and affinity checks, PulseAudio, the dry
  run and the native scripts.
* FEX cache: commands run by hand outside the gate, two gates, the audit.
  Guards: the lock of a second guard. Settings: `--check` and `--dry-run`, the
  legacy Social Club section, temporary files of killed runs.
* Library and dependencies: two commands at once.
* A process number used again between a check and the very next call.

## 8. Running it

    tlc -workers 2 -config SeedSetup.cfg SeedSetup.tla
    tlapm SeedAndLibraryProofs.tla

`PROJECT.json` names the module of each configuration; one `X.cfg` belongs to
`MCX.tla` or `X.tla` where there is such a module. On two cores the longest runs
(`preparation`, `game_start`, `helpers`) take about four minutes each, the
longest proof module about ten.
