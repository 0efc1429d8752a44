----------------------------- MODULE DirectLaunch -----------------------------
(***************************************************************************)
(* One direct launch of Tomb Raider: the probe that brings up the renderer *)
(* (scripts/start-tombraider-bvb-probe.sh), the launch script it starts    *)
(* (scripts/start-tombraider-direct-dispatch.sh), the dispatch server that *)
(* script starts, and the game Steam asks that server for.  They meet in   *)
(* three marker files: the server waits at the gate, the launch script has *)
(* Steam's acknowledgement, the probe opens the gate.                      *)
(*                                                                         *)
(* The launch script is also run without a probe; there is no gate then.   *)
(* DxvkOverlay and DirectDispatch model the overlay and the socket; here   *)
(* they are one step each.                                                 *)
(*                                                                         *)
(* The operators called ...Bug each hold the definition after them with    *)
(* one mistake, for mutation runs.                                         *)
(***************************************************************************)
EXTENDS Naturals

CONSTANTS
    MaxSignals      \* bound: TERM signals from the user

VARIABLES
    gated,          \* is there a probe?
    probe,          \* the probe
    service, frame, \* the renderer's service and its frame client
    launch,         \* the launch script
    helpers,        \* its background helpers
    requested,      \* has Steam been asked to start the game?
    server,         \* the dispatch server
    game,
    overlay,        \* of the game's DLLs
    gate, waiting, ready,   \* the marker files
    signals

rendering == <<service, frame>>
markers == <<gate, waiting, ready>>
vars == <<gated, probe, service, frame, launch, helpers, requested, server, game, overlay,
          gate, waiting, ready, signals>>

------------------------------------------------------------------------------
(* Data *)

ASSUME DirectLaunchAssumption == MaxSignals \in Nat

\* ok: 0; bad: every other; none: it has not ended.
Statuses == {"none", "ok", "bad"}

ProbeSteps == {"off", "service", "launch", "handoff", "activity", "frame", "release",
               "monitor", "finish", "stop", "stopping", "unlink", "done"}

\* cut: a second signal ended its cleanup.
Probe == [pc : ProbeSteps, status : Statuses, cut : BOOLEAN]

LaunchSteps == {"off", "prepare", "activate", "activated", "serve", "socket", "guards", "steam",
                "prefetch", "gate", "check", "wait", "clean", "clean_server", "clean_overlay",
                "done"}

\* back: where the trap's cleanup returns; active: dxvk_overlay_active; term: a signal is
\* pending; status: launcher_status; exit: that of the script.
Launch == [pc : LaunchSteps, back : LaunchSteps, active : BOOLEAN, term : BOOLEAN,
           status : Statuses, exit : Statuses, killed : BOOLEAN]

Helpers == {"affinity", "prefetch", "window"}

\* start: through the gate, its game not yet started.
Server == [pc : {"off", "listening", "gate", "start", "run", "ended"}, status : Statuses]

\* passed: the probe has seen that the client ended well.
Frames == {"off", "up", "ok", "bad", "passed"}

\* stuck: a step of the overlay tool failed and left what needs a hand.
Overlays == {"off", "on", "stuck"}

Init ==
    /\ gated \in BOOLEAN
    /\ probe = [pc |-> IF gated THEN "service" ELSE "off", status |-> "none", cut |-> FALSE]
    /\ service = "off" /\ frame = "off"
    /\ launch = [pc |-> IF gated THEN "off" ELSE "prepare", back |-> "done", active |-> FALSE,
                 term |-> FALSE, status |-> "none", exit |-> "none", killed |-> FALSE]
    /\ helpers = {}
    /\ requested = FALSE
    /\ server = [pc |-> "off", status |-> "none"]
    /\ game = "off"
    /\ overlay = "off"
    /\ gate = FALSE /\ waiting = FALSE /\ ready = FALSE
    /\ signals = 0

ServerUp == server.pc \in {"listening", "gate", "start", "run"}

\* A signal ends the server where it is, without its finally blocks.
StopServer ==
    server' = IF ServerUp THEN [pc |-> "ended", status |-> "bad"] ELSE server

LaunchEnded == launch.pc = "done"

------------------------------------------------------------------------------
(* The launch script *)

\* A command in the foreground: a trap waits until it ends.
InCommand == launch.pc \in {"activate", "steam"}

InCleanup == launch.pc \in {"clean", "clean_server", "clean_overlay"}

\* The script does its next command when no trap is to run first.
LaunchAt(step) == launch.pc = step /\ (InCommand \/ InCleanup \/ ~launch.term)

Exit(status) ==
    launch' = [launch EXCEPT !.pc = "clean", !.back = "done", !.exit = status]

\* The checks before the trap is set; prepare and the state cache.
LaunchPrepare ==
    /\ LaunchAt("prepare")
    /\ \/ launch' = [launch EXCEPT !.pc = "activate"]
       \/ launch' = [launch EXCEPT !.pc = "done", !.exit = "bad"]
    /\ UNCHANGED <<gated, probe, rendering, helpers, requested, server, game, overlay, markers,
                   signals>>

LaunchActivate ==
    /\ LaunchAt("activate")
    /\ \/ overlay' = "on" /\ launch' = [launch EXCEPT !.pc = "activated"]
       \/ overlay' \in {"off", "stuck"} /\ Exit("bad")
    /\ UNCHANGED <<gated, probe, rendering, helpers, requested, server, game, markers, signals>>

LaunchActivated ==
    /\ LaunchAt("activated")
    /\ launch' = [launch EXCEPT !.pc = "serve", !.active = TRUE]
    /\ UNCHANGED <<gated, probe, rendering, helpers, requested, server, game, overlay, markers,
                   signals>>

LaunchServe ==
    /\ LaunchAt("serve")
    /\ server' = [pc |-> "listening", status |-> "none"]
    /\ launch' = [launch EXCEPT !.pc = "socket"]
    /\ UNCHANGED <<gated, probe, rendering, helpers, requested, game, overlay, markers, signals>>

\* The socket file is there: of the server, or of one that a signal has ended.
LaunchSocket ==
    /\ LaunchAt("socket")
    /\ \/ launch' = [launch EXCEPT !.pc = "guards"]
       \/ ~ServerUp /\ Exit("bad")
    /\ UNCHANGED <<gated, probe, rendering, helpers, requested, server, game, overlay, markers,
                   signals>>

LaunchGuards ==
    /\ LaunchAt("guards")
    /\ \/ /\ helpers' = Helpers
          /\ requested' = TRUE
          /\ launch' = [launch EXCEPT !.pc = "steam"]
       \/ /\ helpers' \in {{"affinity"}, {"affinity", "prefetch"}}
          /\ Exit("bad") /\ UNCHANGED requested
    /\ UNCHANGED <<gated, probe, rendering, server, game, overlay, markers, signals>>

\* The Steam launcher returns: the game was seen to start, or not.
LaunchSteam ==
    /\ LaunchAt("steam")
    /\ \E status \in {"ok", "bad"} : launch' = [launch EXCEPT !.pc = "prefetch", !.status = status]
    /\ UNCHANGED <<gated, probe, rendering, helpers, requested, server, game, overlay, markers,
                   signals>>

\* A trap has taken the prefetch away.
LaunchPrefetch ==
    /\ LaunchAt("prefetch")
    /\ \E failed \in IF "prefetch" \in helpers THEN BOOLEAN ELSE {FALSE} :
          LET status == IF failed THEN "bad" ELSE launch.status IN
          launch' = [launch EXCEPT !.status = status,
                                   !.pc = IF status = "ok" /\ gated THEN "gate" ELSE "check"]
    /\ helpers' = helpers \ {"prefetch"}
    /\ UNCHANGED <<gated, probe, rendering, requested, server, game, overlay, markers, signals>>

\* The server is waiting, or has ended, or has not come within the timeout.
LaunchGate ==
    /\ LaunchAt("gate")
    /\ \/ /\ waiting
          /\ ready' = TRUE
          /\ launch' = [launch EXCEPT !.pc = "check"]
       \/ /\ ~waiting
          /\ launch' = [launch EXCEPT !.pc = "check", !.status = "bad"]
          /\ UNCHANGED ready
    /\ UNCHANGED <<gated, probe, rendering, helpers, requested, server, game, overlay, gate,
                   waiting, signals>>

\* The server is left to wait for a request that will not come.
LaunchCheckBug ==
    /\ LaunchAt("check")
    /\ launch' = [launch EXCEPT !.pc = "wait"]
    /\ UNCHANGED <<gated, probe, rendering, helpers, requested, server, game, overlay, markers,
                   signals>>

LaunchCheck ==
    /\ LaunchAt("check")
    /\ IF launch.status # "ok" THEN StopServer ELSE UNCHANGED server
    /\ launch' = [launch EXCEPT !.pc = "wait"]
    /\ UNCHANGED <<gated, probe, rendering, helpers, requested, game, overlay, markers, signals>>

LaunchWait ==
    /\ LaunchAt("wait")
    /\ ~ServerUp
    /\ helpers' = helpers \ {"affinity"}
    /\ Exit(IF launch.status # "ok" THEN launch.status ELSE server.status)
    /\ UNCHANGED <<gated, probe, rendering, requested, server, game, overlay, markers, signals>>

\* The handler does not end the script: it goes on where it was.
LaunchTrap ==
    /\ launch.term /\ ~InCommand /\ ~InCleanup
    /\ launch.pc \notin {"off", "prepare", "done"}
    /\ launch' = [launch EXCEPT !.pc = "clean", !.back = launch.pc, !.term = FALSE]
    /\ UNCHANGED <<gated, probe, rendering, helpers, requested, server, game, overlay, markers,
                   signals>>

CleanHelpers ==
    /\ LaunchAt("clean")
    /\ helpers' = {}
    /\ launch' = [launch EXCEPT !.pc = "clean_server"]
    /\ UNCHANGED <<gated, probe, rendering, requested, server, game, overlay, markers, signals>>

\* The server's number is forgotten before it is stopped.
CleanServerBug ==
    /\ LaunchAt("clean_server")
    /\ launch' = [launch EXCEPT !.pc = "clean_overlay"]
    /\ UNCHANGED <<gated, probe, rendering, helpers, requested, server, game, overlay, markers,
                   signals>>

CleanServer ==
    /\ LaunchAt("clean_server")
    /\ StopServer
    /\ launch' = [launch EXCEPT !.pc = "clean_overlay"]
    /\ UNCHANGED <<gated, probe, rendering, helpers, requested, game, overlay, markers, signals>>

\* A restore that fails is only reported.
CleanOverlay ==
    /\ LaunchAt("clean_overlay")
    /\ overlay' \in IF launch.active THEN {"off", "stuck"} ELSE {overlay}
    /\ launch' = [launch EXCEPT !.pc = launch.back, !.active = FALSE]
    /\ UNCHANGED <<gated, probe, rendering, helpers, requested, server, game, markers, signals>>

LaunchStep ==
    \/ LaunchPrepare \/ LaunchActivate \/ LaunchActivated \/ LaunchServe \/ LaunchSocket
    \/ LaunchGuards \/ LaunchSteam \/ LaunchPrefetch \/ LaunchGate \/ LaunchCheck
    \/ LaunchWait \/ LaunchTrap \/ CleanHelpers \/ CleanServer \/ CleanOverlay

------------------------------------------------------------------------------
(* The dispatch server and the game *)

ServerEnds(status) == server' = [pc |-> "ended", status |-> status]

ServerUnchanged == UNCHANGED <<gated, probe, rendering, launch, helpers, requested, overlay, ready,
                               signals>>

\* The checks before the socket.
ServerFails ==
    /\ server.pc = "listening" /\ ~requested
    /\ ServerEnds("bad")
    /\ ServerUnchanged /\ UNCHANGED <<game, gate, waiting>>

\* Steam's request: refused, or accepted, with a gate before the game if there is a probe.
ServerRequest ==
    /\ server.pc = "listening" /\ requested
    /\ \/ /\ ServerEnds("bad")
          /\ UNCHANGED waiting
       \/ /\ ~gated
          /\ server' = [server EXCEPT !.pc = "start"]
          /\ UNCHANGED waiting
       \/ /\ gated /\ ~gate /\ ~waiting
          /\ server' = [server EXCEPT !.pc = "gate"]
          /\ waiting' = TRUE
    /\ ServerUnchanged /\ UNCHANGED <<game, gate>>

\* The server does not wait for the probe.
ServerGateBug ==
    /\ server.pc = "gate"
    /\ waiting' = FALSE /\ gate' = FALSE
    /\ \/ server' = [server EXCEPT !.pc = "start"]
       \/ ~gate /\ ServerEnds("bad")
    /\ ServerUnchanged /\ UNCHANGED game

\* The gate opens, or the time is up.
ServerGate ==
    /\ server.pc = "gate"
    /\ waiting' = FALSE /\ gate' = FALSE
    /\ \/ gate /\ server' = [server EXCEPT !.pc = "start"]
       \/ ~gate /\ ServerEnds("bad")
    /\ ServerUnchanged /\ UNCHANGED game

\* The checks of the invocation come after the gate.
ServerStart ==
    /\ server.pc = "start"
    /\ \/ server' = [server EXCEPT !.pc = "run"] /\ game' = "run"
       \/ ServerEnds("bad") /\ UNCHANGED game
    /\ ServerUnchanged /\ UNCHANGED <<gate, waiting>>

\* A game whose server has ended has nobody to report to.
GameEnds ==
    /\ game = "run"
    /\ game' = "ended"
    /\ IF server.pc = "run" THEN \E status \in {"ok", "bad"} : ServerEnds(status)
                            ELSE UNCHANGED server
    /\ ServerUnchanged /\ UNCHANGED <<gate, waiting>>

ServerStep == ServerFails \/ ServerRequest \/ ServerGate \/ ServerStart

------------------------------------------------------------------------------
(* The renderer *)

ServiceDies ==
    /\ service = "up"
    /\ service' = "down"
    /\ UNCHANGED <<gated, probe, frame, launch, helpers, requested, server, game, overlay, markers,
                   signals>>

FrameEnds ==
    /\ frame = "up"
    /\ frame' \in {"ok", "bad"}
    /\ UNCHANGED <<gated, probe, service, launch, helpers, requested, server, game, overlay,
                   markers, signals>>

------------------------------------------------------------------------------
(* The probe *)

ProbeGoes(step) == probe' = [probe EXCEPT !.pc = step]

ProbeStops(status) == probe' = [probe EXCEPT !.pc = "stop", !.status = status]

ProbeUnchanged == UNCHANGED <<gated, helpers, requested, server, game, overlay, waiting, ready,
                              signals>>

ProbeService ==
    /\ probe.pc = "service"
    /\ \/ ProbeStops("bad") /\ service' \in {"off", "up", "down"}
       \/ ProbeGoes("launch") /\ service' = "up"
    /\ ProbeUnchanged /\ UNCHANGED <<frame, launch, gate>>

ProbeLaunch ==
    /\ probe.pc = "launch"
    /\ ProbeGoes("handoff")
    /\ launch' = [launch EXCEPT !.pc = "prepare"]
    /\ ProbeUnchanged /\ UNCHANGED <<rendering, gate>>

\* Both markers, or an end of the launch, or the timeout.
ProbeHandoff ==
    /\ probe.pc = "handoff"
    /\ IF waiting /\ ready THEN ProbeGoes("activity") ELSE ProbeStops("bad")
    /\ ProbeUnchanged /\ UNCHANGED <<rendering, launch, gate>>

ProbeActivity ==
    /\ probe.pc = "activity"
    /\ ProbeGoes("frame") \/ ProbeStops("bad")
    /\ ProbeUnchanged /\ UNCHANGED <<rendering, launch, gate>>

ProbeFrame ==
    /\ probe.pc = "frame"
    /\ \/ frame' = "up" /\ ProbeGoes("release")
       \/ frame' \in {"off", "up", "bad"} /\ ProbeStops("bad")
    /\ ProbeUnchanged /\ UNCHANGED <<service, launch, gate>>

ProbeRelease ==
    /\ probe.pc = "release"
    /\ IF gate THEN ProbeStops("bad") /\ UNCHANGED gate
               ELSE ProbeGoes("monitor") /\ gate' = TRUE
    /\ ProbeUnchanged /\ UNCHANGED <<rendering, launch>>

MonitorLaunch ==
    /\ probe.pc = "monitor" /\ LaunchEnded
    /\ IF launch.exit # "ok" THEN ProbeStops(launch.exit)
       ELSE IF service = "down" THEN ProbeStops("bad") ELSE ProbeGoes("finish")
    /\ ProbeUnchanged /\ UNCHANGED <<rendering, launch, gate>>

MonitorService ==
    /\ probe.pc = "monitor" /\ service = "down"
    /\ ProbeStops("bad")
    /\ ProbeUnchanged /\ UNCHANGED <<rendering, launch, gate>>

MonitorFrame ==
    /\ probe.pc = "monitor"
    /\ \/ frame = "ok" /\ frame' = "passed" /\ UNCHANGED probe
       \/ frame = "bad" /\ ProbeStops("bad") /\ UNCHANGED frame
    /\ ProbeUnchanged /\ UNCHANGED <<service, launch, gate>>

\* The status of the frame client is not looked at.
ProbeFinishBug ==
    /\ probe.pc = "finish"
    /\ \/ frame \in {"ok", "bad", "passed"} /\ ProbeStops(launch.exit)
       \/ frame = "up" /\ ProbeStops("bad")
    /\ ProbeUnchanged /\ UNCHANGED <<rendering, launch, gate>>

\* A frame client still up has a last chance to end.
ProbeFinish ==
    /\ probe.pc = "finish"
    /\ \/ frame = "passed" /\ ProbeStops(launch.exit)
       \/ frame = "ok" /\ ProbeStops(launch.exit)
       \/ frame # "passed" /\ service = "down" /\ ProbeStops("bad")
       \/ frame \in {"up", "bad"} /\ ProbeStops("bad")
    /\ ProbeUnchanged /\ UNCHANGED <<rendering, launch, gate>>

\* TERM for the launch.  Before its trap is set it dies of it.
ProbeStop ==
    /\ probe.pc = "stop"
    /\ ProbeGoes("stopping")
    /\ launch' = CASE launch.pc \in {"off", "done"} -> launch
                   [] launch.pc = "prepare" -> [launch EXCEPT !.pc = "done", !.exit = "bad"]
                   [] OTHER -> [launch EXCEPT !.term = TRUE]
    /\ ProbeUnchanged /\ UNCHANGED <<rendering, gate>>

\* The launch has ended, or does not within the time it is given and is killed.
ProbeStopping ==
    /\ probe.pc = "stopping"
    /\ launch' = IF launch.pc \in {"off", "done"} THEN launch
                 ELSE [launch EXCEPT !.pc = "done", !.exit = "bad", !.killed = TRUE]
    /\ frame' = IF frame = "up" THEN "bad" ELSE frame
    /\ service' = IF service = "up" THEN "down" ELSE service
    /\ ProbeGoes("unlink")
    /\ ProbeUnchanged /\ UNCHANGED gate

ProbeUnlink ==
    /\ probe.pc = "unlink"
    /\ ProbeGoes("done")
    /\ gate' = FALSE /\ waiting' = FALSE /\ ready' = FALSE
    /\ UNCHANGED <<gated, rendering, launch, helpers, requested, server, game, overlay, signals>>

ProbeStep ==
    \/ ProbeService \/ ProbeLaunch \/ ProbeHandoff \/ ProbeActivity \/ ProbeFrame
    \/ ProbeRelease \/ MonitorLaunch \/ MonitorService \/ MonitorFrame \/ ProbeFinish
    \/ ProbeStop \/ ProbeStopping \/ ProbeUnlink

------------------------------------------------------------------------------
(* The user *)

\* TERM.  During the cleanup a second one ends it: the handler is an exit.
SignalProbe ==
    /\ signals < MaxSignals
    /\ probe.pc \notin {"off", "done"}
    /\ probe' = IF probe.pc \in {"stop", "stopping", "unlink"}
                  THEN [probe EXCEPT !.pc = "done", !.status = "bad", !.cut = TRUE]
                  ELSE [probe EXCEPT !.pc = "stop", !.status = "bad"]
    /\ signals' = signals + 1
    /\ UNCHANGED <<gated, rendering, launch, helpers, requested, server, game, overlay, markers>>

SignalLaunch ==
    /\ signals < MaxSignals
    /\ launch.pc \notin {"off", "done"}
    /\ launch' = IF launch.pc = "prepare" THEN [launch EXCEPT !.pc = "done", !.exit = "bad"]
                 ELSE [launch EXCEPT !.term = TRUE]
    /\ signals' = signals + 1
    /\ UNCHANGED <<gated, probe, rendering, helpers, requested, server, game, overlay, markers>>

------------------------------------------------------------------------------
Next ==
    \/ ProbeStep \/ LaunchStep \/ ServerStep \/ GameEnds
    \/ ServiceDies \/ FrameEnds \/ SignalProbe \/ SignalLaunch

Spec == Init /\ [][Next]_vars

\* The scripts and the server run, and a player does not play for ever.  Steam's request may
\* never come: accept has no timeout.
FairSpec ==
    /\ Spec
    /\ WF_vars(ProbeStep) /\ WF_vars(LaunchStep)
    /\ WF_vars(ServerGate \/ ServerStart) /\ WF_vars(GameEnds)

------------------------------------------------------------------------------
(* Properties *)

\* The variables have their types.
TypeOK ==
    /\ gated \in BOOLEAN /\ requested \in BOOLEAN
    /\ probe \in Probe /\ launch \in Launch /\ server \in Server
    /\ service \in {"off", "up", "down"} /\ frame \in Frames
    /\ game \in {"off", "run", "ended"} /\ overlay \in Overlays
    /\ helpers \subseteq Helpers
    /\ gate \in BOOLEAN /\ waiting \in BOOLEAN /\ ready \in BOOLEAN
    /\ signals \in 0 .. MaxSignals

\* With a probe the game never starts before the frame client is there and Steam has
\* acknowledged: it would render into a window nobody has set up.  (The gate of
\* wait_for_direct_start_gate, the two markers of the handoff.)
FramesFirst ==
    [][gated /\ game = "off" /\ game' # "off"
          => frame # "off" /\ launch.status = "ok"]_vars

\* A probe that reports success has had it all: Steam's acknowledgement, a game that started
\* and ended well, a server that said so, a frame client that passed.
SuccessIsPlayed ==
    probe.pc = "done" /\ probe.status = "ok"
        => /\ launch.exit = "ok" /\ launch.status = "ok"
           /\ server.status = "ok" /\ game = "ended"
           /\ frame \in {"ok", "passed"}

\* A launch script that has ended, whatever ended it but a KILL, has left no helper, no server
\* and no overlay behind.  (The EXIT trap, and the trap of a signal between any two commands.)
NothingLeft ==
    LaunchEnded /\ ~launch.killed => helpers = {} /\ ~ServerUp /\ overlay # "on"

\* A probe whose cleanup was not cut short leaves no marker: a marker would be an error of the
\* launch, or a gate already open.
MarkersGone ==
    probe.pc = "done" /\ ~probe.cut /\ ~launch.killed => ~gate /\ ~waiting /\ ~ready

\* A probe that is over and says that it went well is right, and whatever ends it or its launch,
\* nothing they made is there when they are gone.
EndsWell == SuccessIsPlayed /\ NothingLeft /\ MarkersGone

\* Once the probe is done no game starts: there is no renderer any more.
NoGameAfterProbe ==
    [][probe.pc = "done" /\ ~probe.cut /\ ~launch.killed /\ game = "off" => game' = "off"]_vars

\* A game under a probe starts and plays with the probe's renderer only.
PlaysInFrame == FramesFirst /\ NoGameAfterProbe

\* A launch that Steam refused, or that never came to the gate, ends: it stops the server, which
\* else waits for a request for ever.
FailedLaunchEnds ==
    (launch.pc = "check" /\ launch.status = "bad") ~> LaunchEnded

\* A probe ends.
ProbeEnds == gated ~> probe.pc = "done"

\* Nobody waits for ever on the other side of the gate.
HandoffEnds == FailedLaunchEnds /\ ProbeEnds

==============================================================================
