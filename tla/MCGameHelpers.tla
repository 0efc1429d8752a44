---------------------------- MODULE MCGameHelpers ----------------------------
(* What runs next to a game and to Steam: the gate of FEX code caches (FexCache), the       *)
(* guards of processors (AffinityGuard, TreeGuard), the affinity tools that look once       *)
(* (MaskTool), the timer of a launch (LaunchTimer), the bounded log of the session          *)
(* (SessionLog) and the logs of the web helper (NoisyLogs).  Tomb Raider's gate and guard   *)
(* do not meet (the gate's launches have no guard), TreeGuard and MaskTool belong to other  *)
(* games, the timer only looks, and the logs are files and pipes of their own, so that a    *)
(* behaviour is one of one of them.                                                         *)
EXTENDS Naturals

CONSTANTS Maps, MaxMaps, MaxHistory, MaxFaults,                 \* FexCache
          MaxGames, MaxMaskChanges, Stable,                     \* AffinityGuard
          Helpers, MaxPid, MaxStarts, MaxUpsets, StablePolls, IdlePolls,    \* TreeGuard
          MaxThread, MaxTurns,                                  \* MaskTool
          MaxSessions, MaxFlips,                                \* LaunchTimer
          Cap, MarkerSize, PipeSize, ReadSize, MaxPrinted,      \* SessionLog
          Launchers, MaxLaunches,                               \* NoisyLogs
          None

VARIABLES
    part,
    recorded, root, prepared, new, ready, caches, refresh, results, gate, app, faults,
    played, counts, others, window, guard, maskChanges,
    tree, shown, watch, starts, upsets,
    threads, tool, turns,
    compat, console, target, visible, dxvk, timer, flips,
    printed, closed, drained, sink, file, stream,
    path, opened, running, launcher, launches, boots, cleared, misled

Fex == INSTANCE FexCache
Raider == INSTANCE AffinityGuard
              WITH game <- played, log <- counts, changes <- maskChanges,
                   MaxChanges <- MaxMaskChanges
Tree == INSTANCE TreeGuard
Mask == INSTANCE MaskTool
Time == INSTANCE LaunchTimer
Log == INSTANCE SessionLog WITH taken <- drained
Noisy == INSTANCE NoisyLogs WITH held <- opened, starts <- boots

ASSUME HelpersAssumption ==
    /\ Fex!FexCacheAssumption /\ Raider!AffinityGuardAssumption
    /\ Tree!TreeGuardAssumption /\ Mask!MaskToolAssumption
    /\ Time!LaunchTimerAssumption /\ Log!SessionLogAssumption /\ Noisy!NoisyLogsAssumption

fexVars == <<recorded, root, prepared, new, ready, caches, refresh, results, gate, app, faults>>
raiderVars == <<played, counts, others, window, guard, maskChanges>>
treeVars == <<tree, shown, watch, starts, upsets>>
toolVars == <<threads, tool, turns>>
timerVars == <<compat, console, target, visible, dxvk, timer, flips>>
logVars == <<printed, closed, drained, sink, file, stream>>
noisyVars == <<path, opened, running, launcher, launches, boots, cleared, misled>>
helpersVars == <<part, fexVars, raiderVars, treeVars, toolVars, timerVars, logVars, noisyVars>>

NoFex ==
    /\ recorded = None /\ root = None /\ prepared = None /\ new = None /\ ready = None
    /\ caches = None /\ refresh = None /\ results = None /\ gate = None /\ app = None
    /\ faults = None
NoRaider ==
    /\ played = None /\ counts = None /\ others = None /\ window = None /\ guard = None
    /\ maskChanges = None
NoTree == tree = None /\ shown = None /\ watch = None /\ starts = None /\ upsets = None
NoTool == threads = None /\ tool = None /\ turns = None
NoTimer ==
    /\ compat = None /\ console = None /\ target = None /\ visible = None /\ dxvk = None
    /\ timer = None /\ flips = None
NoLog ==
    /\ printed = None /\ closed = None /\ drained = None /\ sink = None /\ file = None
    /\ stream = None
NoNoisy ==
    /\ path = None /\ opened = None /\ running = None /\ launcher = None /\ launches = None
    /\ boots = None /\ cleared = None /\ misled = None

HelpersInit ==
    /\ part \in {"fex", "raider", "tree", "tool", "timer", "log", "noisy"}
    /\ IF part = "fex" THEN Fex!Init ELSE NoFex
    /\ IF part = "raider" THEN Raider!Init ELSE NoRaider
    /\ IF part = "tree" THEN Tree!TreeInit ELSE NoTree
    /\ IF part = "tool" THEN Mask!ToolInit ELSE NoTool
    /\ IF part = "timer" THEN Time!TimerInit ELSE NoTimer
    /\ IF part = "log" THEN Log!LogInit ELSE NoLog
    /\ IF part = "noisy" THEN Noisy!NoisyInit ELSE NoNoisy

BesideFex ==
    /\ part = "fex"
    /\ UNCHANGED <<part, raiderVars, treeVars, toolVars, timerVars, logVars, noisyVars>>
BesideRaider ==
    /\ part = "raider"
    /\ UNCHANGED <<part, fexVars, treeVars, toolVars, timerVars, logVars, noisyVars>>
BesideTree ==
    /\ part = "tree"
    /\ UNCHANGED <<part, fexVars, raiderVars, toolVars, timerVars, logVars, noisyVars>>
BesideTool ==
    /\ part = "tool"
    /\ UNCHANGED <<part, fexVars, raiderVars, treeVars, timerVars, logVars, noisyVars>>
BesideTimer ==
    /\ part = "timer"
    /\ UNCHANGED <<part, fexVars, raiderVars, treeVars, toolVars, logVars, noisyVars>>
BesideLog ==
    /\ part = "log"
    /\ UNCHANGED <<part, fexVars, raiderVars, treeVars, toolVars, timerVars, noisyVars>>
BesideNoisy ==
    /\ part = "noisy"
    /\ UNCHANGED <<part, fexVars, raiderVars, treeVars, toolVars, timerVars, logVars>>

HelpersNext ==
    \/ BesideFex /\ Fex!Next
    \/ BesideRaider /\ Raider!Next
    \/ BesideTree /\ Tree!TreeNext
    \/ BesideTool /\ Mask!ToolNext
    \/ BesideTimer /\ Time!TimerNext
    \/ BesideLog /\ Log!LogNext
    \/ BesideNoisy /\ Noisy!NoisyNext

\* The fairness of each module: its process goes on.
Goes ==
    \/ BesideFex /\ Fex!GateSteps
    \/ BesideRaider /\ Raider!GuardSteps
    \/ BesideTree /\ Tree!WatchSteps
    \/ BesideLog /\ Log!StreamSteps

HelpersSpec ==
    /\ HelpersInit /\ [][HelpersNext]_helpersVars
    /\ WF_helpersVars(Goes)

\* FexCache!CachesTell: generations, histories and caches agree about the maps.
CachesTell == part = "fex" => Fex!CachesTell

\* FexCache!GateEnds: a gate that was started ends, unless it comes to wait for Steam's request or
\* for a compiler that runs, which have no deadline; and SessionLog!Emptied, time and again: the
\* pipe of the session is emptied, whatever sinks have failed.
HelpersGoOn ==
    /\ []<>(part = "fex" => gate.pc = "idle") \/ <>[](part = "fex" /\ Fex!Waits)
    /\ []<>(part = "log" => Log!Emptied)

\* AffinityGuard!GuardIsRight and TreeGuard!TreeTold: hands off a game that probes; a report of
\* a game that is set up, and was in every poll of the interval; no end before the tree is gone.
GuardsTell ==
    /\ [](part = "raider" => Raider!FirstProbeUndisturbed)
    /\ [][part = "raider" => Raider!ReadyStep]_helpersVars
    /\ [][part = "tree" => Tree!TellsRight]_helpersVars

\* AffinityGuard!GuardReports and TreeGuard!TreeWatched: a game that goes on is reported, or the
\* guard fails; a tree that is gone for good ends its guard.
GuardsReport ==
    /\ <>[](part = "raider" /\ Raider!GameStays) => <>(part = "raider" => guard.exit # "none")
    /\ <>[](part = "tree" /\ Tree!TreeStays)
          => <>(part = "tree" => watch.reported \/ watch.exit # "none")
    /\ <>[](part = "tree" /\ Tree!TreeGone) => <>(part = "tree" => watch.exit # "none")

\* MaskTool!ToolTells: threads that a tool says are in place are.
ToolTells == part = "tool" => Mask!ToolTells

\* LaunchTimer!TimerTells, SessionLog!OutputKept and NoisyLogs!LogsSilent: stages and window
\* belong to the attempt that they are reported for; a sink holds what was printed first, up to
\* its cap; Steam writes its own noisy logs to /dev/null, and none that it has open goes.
LogsTell ==
    /\ part = "timer" => Time!TimerTells
    /\ part = "log" => Log!OutputKept
    /\ part = "noisy" => Noisy!LogsSilent
==============================================================================
