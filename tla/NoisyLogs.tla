------------------------------- MODULE NoisyLogs -------------------------------
(***************************************************************************)
(* The logs of Steam's web helper (bin/steam-arm64-session-guard.py        *)
(* preflight, for bin/steam-arm): without a bound, they would fill the     *)
(* disk, so that links to /dev/null take their place before Steam is       *)
(* started, and never below a Steam that runs.                             *)
(*                                                                         *)
(* Launchers overlap; whether Steam runs is asked before the preflight;    *)
(* Steam may remove a link and write a file of its own.                    *)
(*                                                                         *)
(* The operators called ...Bug each hold the definition after them with    *)
(* one mistake, for mutation runs.                                         *)
(***************************************************************************)
EXTENDS Naturals

CONSTANTS
    Launchers,
    MaxLaunches,    \* bound: launches
    MaxStarts       \* bound: times that Steam starts

VARIABLES
    path,           \* what is at each of the two paths
    held,           \* what the running Steam has open for each of them; lost: a file without name
    running,        \* does Steam run?
    launcher,
    launches, starts,
    cleared,        \* has Steam removed a link in this session, or since its launcher asked?
    misled          \* ... while nothing kept a launcher from what Steam put in its place?

noisyVars == <<path, held, running, launcher, launches, starts, cleared, misled>>

------------------------------------------------------------------------------
(* Data *)

NoisyLogsAssumption == MaxLaunches \in Nat /\ MaxStarts \in Nat

\* NOISY_LOG_RELATIVE_PATHS
Paths == {"steamwebhelper.log", "chrome_debug.log"}

\* describe_path
States == {"null", "missing", "file", "unexpected"}

\* told: --steam-running; todo: the paths that the last loop has not looked at; stale: has Steam
\* removed a link since the launcher asked?
Launcher == [pc : {"idle", "space", "inspect", "install", "boot"}, told : BOOLEAN,
             todo : SUBSET Paths, stale : BOOLEAN, exit : {"none", "refused", "ready"}]

Rest == [pc |-> "idle", told |-> FALSE, todo |-> {}, stale |-> FALSE, exit |-> "none"]

Opened(state) == IF state \in {"null", "unexpected"} THEN state ELSE "file"

NoisyInit ==
    /\ path \in [Paths -> States]
    /\ running \in BOOLEAN
    /\ held = [log \in Paths |-> IF running THEN Opened(path[log]) ELSE "closed"]
    /\ running => \A log \in Paths : path[log] # "missing"
    /\ launcher = [p \in Launchers |-> Rest]
    /\ launches = 0 /\ starts = 0
    /\ cleared = running /\ misled = FALSE

Go(p, pc) == launcher' = [launcher EXCEPT ![p].pc = pc]

End(p, exit) == launcher' = [launcher EXCEPT ![p] = [Rest EXCEPT !.exit = exit]]

\* A launcher that nothing keeps from the log that Steam makes now: it takes Steam for not running,
\* or it has looked at the paths already and goes on to replace what is not a link.
Believes(p) ==
    launcher[p].pc = "install" \/ (launcher[p].pc \in {"space", "inspect"} /\ ~launcher[p].told)

steamVars == <<held, running, starts, cleared, misled>>

------------------------------------------------------------------------------
(* A launcher *)

\* pgrep, in the script that calls the preflight.
Ask(p) ==
    /\ launcher[p].pc = "idle" /\ launches < MaxLaunches
    /\ launches' = launches + 1
    /\ launcher' = [launcher EXCEPT ![p] = [Rest EXCEPT !.pc = "space", !.told = running]]
    /\ UNCHANGED <<path, steamVars>>

\* ensure_free_space
Space(p) ==
    /\ launcher[p].pc = "space"
    /\ Go(p, "inspect") \/ End(p, "refused")
    /\ UNCHANGED <<path, launches, steamVars>>

Incorrect == {log \in Paths : path[log] # "null"}

\* A running Steam does not keep the launcher from the paths.
InspectBug(p) ==
    /\ launcher[p].pc = "inspect"
    /\ IF \E log \in Incorrect : path[log] = "unexpected" THEN End(p, "refused")
       ELSE launcher' = [launcher EXCEPT ![p].pc = "install", ![p].todo = Paths]
    /\ UNCHANGED <<path, launches, steamVars>>

\* prepare_noisy_logs looks at both paths before it changes one of them.
Inspect(p) ==
    /\ launcher[p].pc = "inspect"
    /\ IF launcher[p].told /\ Incorrect # {} THEN End(p, "refused")
       ELSE IF \E log \in Incorrect : path[log] = "unexpected" THEN End(p, "refused")
       ELSE launcher' = [launcher EXCEPT ![p].pc = "install", ![p].todo = Paths]
    /\ UNCHANGED <<path, launches, steamVars>>

\* The last loop of prepare_noisy_logs: each of the paths is looked at again, whatever the
\* inspection has found and whatever the launcher was told, and what is not a link is replaced by
\* one; a directory is not.
Install(p) ==
    /\ launcher[p].pc = "install"
    /\ \E log \in launcher[p].todo :
          IF path[log] = "unexpected" THEN End(p, "refused") /\ UNCHANGED <<path, held>>
          ELSE /\ path' = [path EXCEPT ![log] = "null"]
               /\ held' = [held EXCEPT ![log] = IF @ = "file" /\ path[log] = "file" THEN "lost" ELSE @]
               /\ launcher' = [launcher EXCEPT ![p].todo = @ \ {log}]
    /\ UNCHANGED <<running, launches, starts, cleared, misled>>

Ready(p) ==
    /\ launcher[p].pc = "install" /\ launcher[p].todo = {}
    /\ Go(p, "boot")
    /\ UNCHANGED <<path, launches, steamVars>>

\* The rest of the launcher: Steam starts, unless it runs already.
Boot(p) ==
    /\ launcher[p].pc = "boot"
    /\ End(p, "ready")
    /\ IF running \/ starts = MaxStarts THEN UNCHANGED <<path, steamVars>>
       ELSE /\ running' = TRUE /\ starts' = starts + 1
            /\ path' = [log \in Paths |-> Opened(path[log])]
            /\ held' = [log \in Paths |-> Opened(path[log])]
            /\ cleared' = launcher[p].stale
            /\ misled' = (misled \/ (launcher[p].stale /\ \E q \in Launchers \ {p} : Believes(q)))
    /\ UNCHANGED launches

------------------------------------------------------------------------------
(* Steam *)

\* It may clear its cache of pages, with the log in it, and write the log anew.
ClearCache ==
    /\ running
    /\ path' = [path EXCEPT !["chrome_debug.log"] = "file"]
    /\ held' = [held EXCEPT !["chrome_debug.log"] = "file"]
    /\ cleared' = TRUE
    /\ misled' = (misled \/ \E p \in Launchers : Believes(p))
    /\ launcher' = [p \in Launchers |-> [launcher[p] EXCEPT !.stale = launcher[p].pc # "idle"]]
    /\ UNCHANGED <<running, launches, starts>>

EndSteam ==
    /\ running /\ running' = FALSE
    /\ held' = [log \in Paths |-> "closed"]
    /\ UNCHANGED <<path, launcher, launches, starts, cleared, misled>>

NoisyNext ==
    \/ \E p \in Launchers : Ask(p) \/ Space(p) \/ Inspect(p) \/ Install(p) \/ Ready(p) \/ Boot(p)
    \/ ClearCache \/ EndSteam

------------------------------------------------------------------------------
(* Properties *)

\* A Steam that was started by launchers, however these overlap, writes its logs to /dev/null
\* as long as it leaves the links alone; and no log that it has open loses its name, which would
\* fill the disk unseen, unless it had made that log while a launcher believed that no Steam ran,
\* or was past its inspection of the paths, which it replaces afterwards without asking again.
\* For those, "a forwarded steam:// invocation must not unlink a file held by live CEF" (the
\* comment in prepare_noisy_logs) is not what the code does.
LogsSilent ==
    /\ ~cleared /\ running => \A log \in Paths : held[log] = "null"
    /\ (\E log \in Paths : held[log] = "lost") => misled

===============================================================================
