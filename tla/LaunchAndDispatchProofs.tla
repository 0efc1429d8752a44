----------------------- MODULE LaunchAndDispatchProofs -----------------------
(***************************************************************************)
(* Proofs about a direct launch, for any number of signals, and about the  *)
(* dispatch that serves it, for any sets of servers and of clients.        *)
(*                                                                         *)
(* The launch: the inductive invariant LaunchInv has two halves.  The first *)
(* says, at each step of the launch script and of the cleanup a trap runs  *)
(* between two steps, which of the overlay, the server and the helpers may *)
(* exist.  The second follows Steam's acknowledgement through the marker   *)
(* files to the game, and the game's end back to the status of the probe.  *)
(*                                                                         *)
(* The dispatch: DispatchInv follows a request from the client that owns it *)
(* to its server, the child held at the pipe, and the answer.              *)
(***************************************************************************)
EXTENDS DirectLaunch, DirectDispatch, TLAPS

\* The types in parts: the two scripts apart, the Boolean variables, the others.
BoolOK ==
    /\ gated \in BOOLEAN /\ requested \in BOOLEAN
    /\ gate \in BOOLEAN /\ waiting \in BOOLEAN /\ ready \in BOOLEAN

RestOK ==
    /\ server \in Server
    /\ service \in {"off", "up", "down"} /\ frame \in Frames
    /\ game \in {"off", "run", "ended"} /\ overlay \in Overlays
    /\ helpers \subseteq Helpers
    /\ signals \in 0 .. MaxSignals

\* The cleanup returns to a step a trap can run after; a launch that is killed has ended.
CleanupInv ==
    /\ launch.back \notin {"off", "prepare", "activate", "clean", "clean_server", "clean_overlay"}
    /\ launch.killed => LaunchEnded
    /\ probe.pc \in {"service", "launch"} => launch.pc = "off"

\* Before its trap is set the script has made nothing.
NothingYet ==
    launch.pc \in {"off", "prepare"} =>
        helpers = {} /\ overlay = "off" /\ ~launch.active /\ server.pc = "off"

\* What the script has made it knows of, or the cleanup has not yet come to it, or the one
\* window is open in which it does not know of its overlay.
OverlayInv ==
    overlay = "on" /\ ~launch.killed =>
        /\ ~LaunchEnded
        /\ \/ launch.active
           \/ launch.pc = "activated"
           \/ InCleanup /\ launch.back = "activated"

ServerInv ==
    ServerUp /\ ~launch.killed =>
        launch.pc \in {"socket", "guards", "steam", "prefetch", "gate", "check", "wait",
                       "clean", "clean_server"}

HelpersInv ==
    helpers # {} /\ ~launch.killed =>
        launch.pc \in {"steam", "prefetch", "gate", "check", "wait", "clean"}

\* Before it starts the server there is neither server nor game.
NoServerYet ==
    \/ launch.pc \in {"off", "prepare", "activate", "activated", "serve"}
    \/ InCleanup /\ launch.back \in {"activated", "serve"}
  => server.pc = "off" /\ game = "off"

\* A probe that has cleaned up has seen the launch end and the markers gone.
ProbeInv ==
    /\ probe.pc \in {"unlink", "done"} /\ ~probe.cut => launch.pc \in {"off", "done"}
    /\ MarkersGone

\* The script is past the handoff, which it does once.
PastGate ==
    \/ launch.pc \in {"check", "wait", "done"}
    \/ InCleanup /\ launch.back \in {"check", "wait", "done"}

Acknowledged == launch.status = "ok" /\ PastGate

\* Steam's acknowledgement comes before the marker, the marker before the probe goes on.
MarkerInv ==
    /\ launch.pc = "gate" \/ (InCleanup /\ launch.back = "gate") => launch.status = "ok"
    /\ ready => Acknowledged
    /\ probe.pc \in {"activity", "frame", "release", "monitor", "finish"} => Acknowledged

\* The frame client comes before the gate, the gate before the game.
GateInv ==
    /\ probe.pc \in {"release", "monitor", "finish"} => frame # "off"
    /\ gate \/ (gated /\ server.pc \in {"start", "run"}) =>
          /\ Acknowledged
          /\ frame # "off"
          /\ probe.pc \notin {"off", "service", "launch", "handoff", "activity", "frame", "release"}
    /\ gated => probe.pc # "off"

\* The server's status is ok only after a game that ended well.
ServerStatusInv ==
    /\ server.status = "ok" => server.pc = "ended" /\ game = "ended"
    /\ server.pc = "run" => game = "run"
    /\ server.pc \in {"off", "listening", "gate", "start"} => game = "off"

\* The script's exit is ok only if Steam's answer and the server's status are.
ExitInv ==
    /\ launch.pc # "done" /\ (InCleanup => launch.back # "done") => launch.exit = "none"
    /\ launch.exit = "ok" => launch.status = "ok" /\ server.status = "ok"

\* The probe's status is ok only if the script's exit is.
ProbeStatusInv ==
    /\ probe.pc = "finish" => launch.exit = "ok" /\ LaunchEnded
    /\ probe.pc \notin {"stop", "stopping", "unlink", "done"} => probe.status = "none"
    /\ probe.status = "ok" =>
          launch.exit = "ok" /\ LaunchEnded /\ frame \in {"ok", "passed"}

LaunchInv ==
    /\ TypeOK /\ CleanupInv /\ NothingYet /\ OverlayInv /\ ServerInv /\ HelpersInv
    /\ NoServerYet /\ ProbeInv /\ MarkerInv /\ GateInv
    /\ ServerStatusInv /\ ExitInv /\ ProbeStatusInv

USE DirectLaunchAssumption
  DEF Probe, Launch, Server, Helpers, Frames, Overlays, rendering, markers, ServerUp,
      LaunchEnded, InCommand, InCleanup, LaunchAt, PastGate, Acknowledged, MarkersGone

-------------------------------------------------------------------------------

\* The steps and statuses, so that a proof need not list the whole set.
LEMMA Names ==
  /\ "ok" \in Statuses /\ "bad" \in Statuses /\ "none" \in Statuses
  /\ "off" \in ProbeSteps /\ "service" \in ProbeSteps /\ "launch" \in ProbeSteps
  /\ "handoff" \in ProbeSteps /\ "activity" \in ProbeSteps /\ "frame" \in ProbeSteps
  /\ "release" \in ProbeSteps /\ "monitor" \in ProbeSteps /\ "finish" \in ProbeSteps
  /\ "stop" \in ProbeSteps /\ "stopping" \in ProbeSteps /\ "unlink" \in ProbeSteps
  /\ "done" \in ProbeSteps
  /\ "off" \in LaunchSteps /\ "prepare" \in LaunchSteps /\ "activate" \in LaunchSteps
  /\ "activated" \in LaunchSteps /\ "serve" \in LaunchSteps /\ "socket" \in LaunchSteps
  /\ "guards" \in LaunchSteps /\ "steam" \in LaunchSteps /\ "prefetch" \in LaunchSteps
  /\ "gate" \in LaunchSteps /\ "check" \in LaunchSteps /\ "wait" \in LaunchSteps
  /\ "clean" \in LaunchSteps /\ "clean_server" \in LaunchSteps
  /\ "clean_overlay" \in LaunchSteps /\ "done" \in LaunchSteps
  BY DEF Statuses, ProbeSteps, LaunchSteps

LEMMA LaunchInit == Init => LaunchInv
<1> SUFFICES ASSUME Init PROVE LaunchInv
  OBVIOUS
<1>1. TypeOK
  <2>1. launch \in Launch
    BY Names DEF Init
  <2>2. probe \in Probe
    BY Names DEF Init
  <2>3. RestOK
    BY Names DEF Init, RestOK
  <2>4. BoolOK
    BY DEF Init, BoolOK
  <2> QED
    BY <2>1, <2>2, <2>3, <2>4 DEF RestOK, BoolOK, TypeOK
<1>2. /\ CleanupInv /\ NothingYet /\ OverlayInv /\ ServerInv /\ HelpersInv /\ NoServerYet
      /\ ProbeInv /\ MarkerInv /\ GateInv /\ ServerStatusInv /\ ExitInv /\ ProbeStatusInv
  BY DEF Init, CleanupInv, NothingYet, OverlayInv, ServerInv, HelpersInv, NoServerYet, ProbeInv,
         MarkerInv, GateInv, ServerStatusInv, ExitInv, ProbeStatusInv
<1> QED
  BY <1>1, <1>2 DEF LaunchInv

\* Every step keeps the type of the launch script.
LEMMA LaunchTypeStep == LaunchInv /\ Next => launch' \in Launch
<1> SUFFICES ASSUME launch \in Launch, probe \in Probe, server \in Server, Next
             PROVE  launch' \in Launch
  BY DEF LaunchInv, TypeOK
<1>1. CASE LaunchPrepare
  BY <1>1, Names DEF LaunchPrepare
<1>2. CASE LaunchActivate
  BY <1>2, Names DEF LaunchActivate, Exit
<1>3. CASE LaunchActivated
  BY <1>3, Names DEF LaunchActivated
<1>4. CASE LaunchServe
  BY <1>4, Names DEF LaunchServe
<1>5. CASE LaunchSocket
  BY <1>5, Names DEF LaunchSocket, Exit
<1>6. CASE LaunchGuards
  BY <1>6, Names DEF LaunchGuards, Exit
<1>7. CASE LaunchSteam
  <2>1. PICK status \in {"ok", "bad"} :
           launch' = [launch EXCEPT !.pc = "prefetch", !.status = status]
    BY <1>7 DEF LaunchSteam
  <2>2. status \in Statuses
    BY Names
  <2> QED
    BY <2>1, <2>2, Names
<1>8. CASE LaunchPrefetch
  BY <1>8, Names DEF LaunchPrefetch
<1>9. CASE LaunchGate
  BY <1>9, Names DEF LaunchGate
<1>10. CASE LaunchCheck
  BY <1>10, Names DEF LaunchCheck, StopServer
<1>11. CASE LaunchWait
  BY <1>11, Names DEF LaunchWait, Exit
<1>12. CASE LaunchTrap
  BY <1>12, Names DEF LaunchTrap
<1>13. CASE CleanHelpers
  BY <1>13, Names DEF CleanHelpers
<1>14. CASE CleanServer
  BY <1>14, Names DEF CleanServer, StopServer
<1>15. CASE CleanOverlay
  BY <1>15, Names DEF CleanOverlay
<1>16. CASE ServerFails
  BY <1>16, Names DEF ServerFails, ServerEnds, ServerUnchanged
<1>17. CASE ServerRequest
  BY <1>17, Names DEF ServerRequest, ServerEnds, ServerUnchanged
<1>18. CASE ServerGate
  BY <1>18, Names DEF ServerGate, ServerEnds, ServerUnchanged
<1>19. CASE ServerStart
  BY <1>19, Names DEF ServerStart, ServerEnds, ServerUnchanged
<1>20. CASE ProbeService
  BY <1>20, Names DEF ProbeService, ProbeGoes, ProbeStops, ProbeUnchanged
<1>21. CASE ProbeLaunch
  BY <1>21, Names DEF ProbeLaunch, ProbeGoes, ProbeUnchanged
<1>22. CASE ProbeHandoff
  BY <1>22, Names DEF ProbeHandoff, ProbeGoes, ProbeStops, ProbeUnchanged
<1>23. CASE ProbeActivity
  BY <1>23, Names DEF ProbeActivity, ProbeGoes, ProbeStops, ProbeUnchanged
<1>24. CASE ProbeFrame
  BY <1>24, Names DEF ProbeFrame, ProbeGoes, ProbeStops, ProbeUnchanged
<1>25. CASE ProbeRelease
  BY <1>25, Names DEF ProbeRelease, ProbeGoes, ProbeStops, ProbeUnchanged
<1>26. CASE MonitorLaunch
  BY <1>26, Names DEF MonitorLaunch, ProbeGoes, ProbeStops, ProbeUnchanged
<1>27. CASE MonitorService
  BY <1>27, Names DEF MonitorService, ProbeStops, ProbeUnchanged
<1>28. CASE MonitorFrame
  BY <1>28, Names DEF MonitorFrame, ProbeStops, ProbeUnchanged
<1>29. CASE ProbeFinish
  BY <1>29, Names DEF ProbeFinish, ProbeStops, ProbeUnchanged
<1>30. CASE ProbeStop
  BY <1>30, Names DEF ProbeStop, ProbeGoes, ProbeUnchanged
<1>31. CASE ProbeStopping
  BY <1>31, Names DEF ProbeStopping, ProbeGoes, ProbeUnchanged
<1>32. CASE ProbeUnlink
  BY <1>32, Names DEF ProbeUnlink, ProbeGoes
<1>33. CASE GameEnds
  BY <1>33, Names DEF GameEnds, ServerEnds, ServerUnchanged
<1>34. CASE ServiceDies
  BY <1>34, Names DEF ServiceDies
<1>35. CASE FrameEnds
  BY <1>35, Names DEF FrameEnds
<1>36. CASE SignalProbe
  BY <1>36, Names DEF SignalProbe
<1>37. CASE SignalLaunch
  BY <1>37, Names DEF SignalLaunch
<1> QED
  BY <1>1, <1>2, <1>3, <1>4, <1>5, <1>6, <1>7, <1>8, <1>9, <1>10, <1>11, <1>12, <1>13,
     <1>14, <1>15, <1>16, <1>17, <1>18, <1>19, <1>20, <1>21, <1>22, <1>23, <1>24, <1>25,
     <1>26, <1>27, <1>28, <1>29, <1>30, <1>31, <1>32, <1>33, <1>34, <1>35, <1>36, <1>37
  DEF Next, LaunchStep, ServerStep, ProbeStep

\* Every step keeps the type of the probe.
LEMMA ProbeTypeStep == LaunchInv /\ Next => probe' \in Probe
<1> SUFFICES ASSUME launch \in Launch, probe \in Probe, server \in Server, Next
             PROVE  probe' \in Probe
  BY DEF LaunchInv, TypeOK
<1>1. CASE LaunchPrepare
  BY <1>1, Names DEF LaunchPrepare
<1>2. CASE LaunchActivate
  BY <1>2, Names DEF LaunchActivate, Exit
<1>3. CASE LaunchActivated
  BY <1>3, Names DEF LaunchActivated
<1>4. CASE LaunchServe
  BY <1>4, Names DEF LaunchServe
<1>5. CASE LaunchSocket
  BY <1>5, Names DEF LaunchSocket, Exit
<1>6. CASE LaunchGuards
  BY <1>6, Names DEF LaunchGuards, Exit
<1>7. CASE LaunchSteam
  BY <1>7, Names DEF LaunchSteam
<1>8. CASE LaunchPrefetch
  BY <1>8, Names DEF LaunchPrefetch
<1>9. CASE LaunchGate
  BY <1>9, Names DEF LaunchGate
<1>10. CASE LaunchCheck
  BY <1>10, Names DEF LaunchCheck, StopServer
<1>11. CASE LaunchWait
  BY <1>11, Names DEF LaunchWait, Exit
<1>12. CASE LaunchTrap
  BY <1>12, Names DEF LaunchTrap
<1>13. CASE CleanHelpers
  BY <1>13, Names DEF CleanHelpers
<1>14. CASE CleanServer
  BY <1>14, Names DEF CleanServer, StopServer
<1>15. CASE CleanOverlay
  BY <1>15, Names DEF CleanOverlay
<1>16. CASE ServerFails
  BY <1>16, Names DEF ServerFails, ServerEnds, ServerUnchanged
<1>17. CASE ServerRequest
  BY <1>17, Names DEF ServerRequest, ServerEnds, ServerUnchanged
<1>18. CASE ServerGate
  BY <1>18, Names DEF ServerGate, ServerEnds, ServerUnchanged
<1>19. CASE ServerStart
  BY <1>19, Names DEF ServerStart, ServerEnds, ServerUnchanged
<1>20. CASE ProbeService
  BY <1>20, Names DEF ProbeService, ProbeGoes, ProbeStops, ProbeUnchanged
<1>21. CASE ProbeLaunch
  BY <1>21, Names DEF ProbeLaunch, ProbeGoes, ProbeUnchanged
<1>22. CASE ProbeHandoff
  BY <1>22, Names DEF ProbeHandoff, ProbeGoes, ProbeStops, ProbeUnchanged
<1>23. CASE ProbeActivity
  BY <1>23, Names DEF ProbeActivity, ProbeGoes, ProbeStops, ProbeUnchanged
<1>24. CASE ProbeFrame
  BY <1>24, Names DEF ProbeFrame, ProbeGoes, ProbeStops, ProbeUnchanged
<1>25. CASE ProbeRelease
  BY <1>25, Names DEF ProbeRelease, ProbeGoes, ProbeStops, ProbeUnchanged
<1>26. CASE MonitorLaunch
  BY <1>26, Names DEF MonitorLaunch, ProbeGoes, ProbeStops, ProbeUnchanged
<1>27. CASE MonitorService
  BY <1>27, Names DEF MonitorService, ProbeStops, ProbeUnchanged
<1>28. CASE MonitorFrame
  BY <1>28, Names DEF MonitorFrame, ProbeStops, ProbeUnchanged
<1>29. CASE ProbeFinish
  BY <1>29, Names DEF ProbeFinish, ProbeStops, ProbeUnchanged
<1>30. CASE ProbeStop
  BY <1>30, Names DEF ProbeStop, ProbeGoes, ProbeUnchanged
<1>31. CASE ProbeStopping
  BY <1>31, Names DEF ProbeStopping, ProbeGoes, ProbeUnchanged
<1>32. CASE ProbeUnlink
  BY <1>32, Names DEF ProbeUnlink, ProbeGoes
<1>33. CASE GameEnds
  BY <1>33, Names DEF GameEnds, ServerEnds, ServerUnchanged
<1>34. CASE ServiceDies
  BY <1>34, Names DEF ServiceDies
<1>35. CASE FrameEnds
  BY <1>35, Names DEF FrameEnds
<1>36. CASE SignalProbe
  BY <1>36, Names DEF SignalProbe
<1>37. CASE SignalLaunch
  BY <1>37, Names DEF SignalLaunch
<1> QED
  BY <1>1, <1>2, <1>3, <1>4, <1>5, <1>6, <1>7, <1>8, <1>9, <1>10, <1>11, <1>12, <1>13,
     <1>14, <1>15, <1>16, <1>17, <1>18, <1>19, <1>20, <1>21, <1>22, <1>23, <1>24, <1>25,
     <1>26, <1>27, <1>28, <1>29, <1>30, <1>31, <1>32, <1>33, <1>34, <1>35, <1>36, <1>37
  DEF Next, LaunchStep, ServerStep, ProbeStep

\* Every step keeps the other types.
LEMMA RestTypeStep == LaunchInv /\ Next => RestOK'
<1> SUFFICES ASSUME LaunchInv, Next PROVE RestOK'
  OBVIOUS
<1> USE DEF LaunchInv, TypeOK, RestOK
<1>1. CASE LaunchPrepare
  BY <1>1, Names DEF LaunchPrepare
<1>2. CASE LaunchActivate
  BY <1>2, Names DEF LaunchActivate, Exit
<1>3. CASE LaunchActivated
  BY <1>3, Names DEF LaunchActivated
<1>4. CASE LaunchServe
  BY <1>4, Names DEF LaunchServe
<1>5. CASE LaunchSocket
  BY <1>5, Names DEF LaunchSocket, Exit
<1>6. CASE LaunchGuards
  BY <1>6, Names DEF LaunchGuards, Exit
<1>7. CASE LaunchSteam
  BY <1>7, Names DEF LaunchSteam
<1>8. CASE LaunchPrefetch
  BY <1>8, Names DEF LaunchPrefetch
<1>9. CASE LaunchGate
  BY <1>9, Names DEF LaunchGate
<1>10. CASE LaunchCheck
  BY <1>10, Names DEF LaunchCheck, StopServer
<1>11. CASE LaunchWait
  BY <1>11, Names DEF LaunchWait, Exit
<1>12. CASE LaunchTrap
  BY <1>12, Names DEF LaunchTrap
<1>13. CASE CleanHelpers
  BY <1>13, Names DEF CleanHelpers
<1>14. CASE CleanServer
  BY <1>14, Names DEF CleanServer, StopServer
<1>15. CASE CleanOverlay
  BY <1>15, Names DEF CleanOverlay
<1>16. CASE ServerFails
  BY <1>16, Names DEF ServerFails, ServerEnds, ServerUnchanged
<1>17. CASE ServerRequest
  BY <1>17, Names DEF ServerRequest, ServerEnds, ServerUnchanged
<1>18. CASE ServerGate
  BY <1>18, Names DEF ServerGate, ServerEnds, ServerUnchanged
<1>19. CASE ServerStart
  BY <1>19, Names DEF ServerStart, ServerEnds, ServerUnchanged
<1>20. CASE ProbeService
  BY <1>20, Names DEF ProbeService, ProbeGoes, ProbeStops, ProbeUnchanged
<1>21. CASE ProbeLaunch
  BY <1>21, Names DEF ProbeLaunch, ProbeGoes, ProbeUnchanged
<1>22. CASE ProbeHandoff
  BY <1>22, Names DEF ProbeHandoff, ProbeGoes, ProbeStops, ProbeUnchanged
<1>23. CASE ProbeActivity
  BY <1>23, Names DEF ProbeActivity, ProbeGoes, ProbeStops, ProbeUnchanged
<1>24. CASE ProbeFrame
  BY <1>24, Names DEF ProbeFrame, ProbeGoes, ProbeStops, ProbeUnchanged
<1>25. CASE ProbeRelease
  BY <1>25, Names DEF ProbeRelease, ProbeGoes, ProbeStops, ProbeUnchanged
<1>26. CASE MonitorLaunch
  BY <1>26, Names DEF MonitorLaunch, ProbeGoes, ProbeStops, ProbeUnchanged
<1>27. CASE MonitorService
  BY <1>27, Names DEF MonitorService, ProbeStops, ProbeUnchanged
<1>28. CASE MonitorFrame
  BY <1>28, Names DEF MonitorFrame, ProbeStops, ProbeUnchanged
<1>29. CASE ProbeFinish
  BY <1>29, Names DEF ProbeFinish, ProbeStops, ProbeUnchanged
<1>30. CASE ProbeStop
  BY <1>30, Names DEF ProbeStop, ProbeGoes, ProbeUnchanged
<1>31. CASE ProbeStopping
  BY <1>31, Names DEF ProbeStopping, ProbeGoes, ProbeUnchanged
<1>32. CASE ProbeUnlink
  BY <1>32, Names DEF ProbeUnlink, ProbeGoes
<1>33. CASE GameEnds
  BY <1>33, Names DEF GameEnds, ServerEnds, ServerUnchanged
<1>34. CASE ServiceDies
  BY <1>34, Names DEF ServiceDies
<1>35. CASE FrameEnds
  BY <1>35, Names DEF FrameEnds
<1>36. CASE SignalProbe
  BY <1>36, Names DEF SignalProbe
<1>37. CASE SignalLaunch
  BY <1>37, Names DEF SignalLaunch
<1> QED
  BY <1>1, <1>2, <1>3, <1>4, <1>5, <1>6, <1>7, <1>8, <1>9, <1>10, <1>11, <1>12, <1>13,
     <1>14, <1>15, <1>16, <1>17, <1>18, <1>19, <1>20, <1>21, <1>22, <1>23, <1>24, <1>25,
     <1>26, <1>27, <1>28, <1>29, <1>30, <1>31, <1>32, <1>33, <1>34, <1>35, <1>36, <1>37
  DEF Next, LaunchStep, ServerStep, ProbeStep

\* Every step keeps the Boolean variables Boolean.
LEMMA BoolTypeStep == LaunchInv /\ Next => BoolOK'
<1> SUFFICES ASSUME LaunchInv, Next PROVE BoolOK'
  OBVIOUS
<1> USE DEF LaunchInv, TypeOK, BoolOK
<1>1. CASE LaunchPrepare
  BY <1>1, Names DEF LaunchPrepare
<1>2. CASE LaunchActivate
  BY <1>2, Names DEF LaunchActivate, Exit
<1>3. CASE LaunchActivated
  BY <1>3, Names DEF LaunchActivated
<1>4. CASE LaunchServe
  BY <1>4, Names DEF LaunchServe
<1>5. CASE LaunchSocket
  BY <1>5, Names DEF LaunchSocket, Exit
<1>6. CASE LaunchGuards
  BY <1>6, Zenon DEF LaunchGuards, Exit
<1>7. CASE LaunchSteam
  BY <1>7, Names DEF LaunchSteam
<1>8. CASE LaunchPrefetch
  BY <1>8, Names DEF LaunchPrefetch
<1>9. CASE LaunchGate
  BY <1>9, Zenon DEF LaunchGate
<1>10. CASE LaunchCheck
  BY <1>10, Names DEF LaunchCheck, StopServer
<1>11. CASE LaunchWait
  BY <1>11, Names DEF LaunchWait, Exit
<1>12. CASE LaunchTrap
  BY <1>12, Names DEF LaunchTrap
<1>13. CASE CleanHelpers
  BY <1>13, Names DEF CleanHelpers
<1>14. CASE CleanServer
  BY <1>14, Names DEF CleanServer, StopServer
<1>15. CASE CleanOverlay
  BY <1>15, Names DEF CleanOverlay
<1>16. CASE ServerFails
  BY <1>16, Names DEF ServerFails, ServerEnds, ServerUnchanged
<1>17. CASE ServerRequest
  BY <1>17, Zenon DEF ServerRequest, ServerEnds, ServerUnchanged
<1>18. CASE ServerGate
  BY <1>18, Zenon DEF ServerGate, ServerEnds, ServerUnchanged
<1>19. CASE ServerStart
  BY <1>19, Names DEF ServerStart, ServerEnds, ServerUnchanged
<1>20. CASE ProbeService
  BY <1>20, Names DEF ProbeService, ProbeGoes, ProbeStops, ProbeUnchanged
<1>21. CASE ProbeLaunch
  BY <1>21, Names DEF ProbeLaunch, ProbeGoes, ProbeUnchanged
<1>22. CASE ProbeHandoff
  BY <1>22, Names DEF ProbeHandoff, ProbeGoes, ProbeStops, ProbeUnchanged
<1>23. CASE ProbeActivity
  BY <1>23, Names DEF ProbeActivity, ProbeGoes, ProbeStops, ProbeUnchanged
<1>24. CASE ProbeFrame
  BY <1>24, Names DEF ProbeFrame, ProbeGoes, ProbeStops, ProbeUnchanged
<1>25. CASE ProbeRelease
  BY <1>25, Zenon DEF ProbeRelease, ProbeStops, ProbeGoes, ProbeUnchanged
<1>26. CASE MonitorLaunch
  BY <1>26, Names DEF MonitorLaunch, ProbeGoes, ProbeStops, ProbeUnchanged
<1>27. CASE MonitorService
  BY <1>27, Names DEF MonitorService, ProbeStops, ProbeUnchanged
<1>28. CASE MonitorFrame
  BY <1>28, Names DEF MonitorFrame, ProbeStops, ProbeUnchanged
<1>29. CASE ProbeFinish
  BY <1>29, Names DEF ProbeFinish, ProbeStops, ProbeUnchanged
<1>30. CASE ProbeStop
  BY <1>30, Names DEF ProbeStop, ProbeGoes, ProbeUnchanged
<1>31. CASE ProbeStopping
  BY <1>31, Names DEF ProbeStopping, ProbeGoes, ProbeUnchanged
<1>32. CASE ProbeUnlink
  BY <1>32, Names DEF ProbeUnlink, ProbeGoes
<1>33. CASE GameEnds
  BY <1>33, Names DEF GameEnds, ServerEnds, ServerUnchanged
<1>34. CASE ServiceDies
  BY <1>34, Names DEF ServiceDies
<1>35. CASE FrameEnds
  BY <1>35, Names DEF FrameEnds
<1>36. CASE SignalProbe
  BY <1>36, Names DEF SignalProbe
<1>37. CASE SignalLaunch
  BY <1>37, Names DEF SignalLaunch
<1> QED
  BY <1>1, <1>2, <1>3, <1>4, <1>5, <1>6, <1>7, <1>8, <1>9, <1>10, <1>11, <1>12, <1>13,
     <1>14, <1>15, <1>16, <1>17, <1>18, <1>19, <1>20, <1>21, <1>22, <1>23, <1>24, <1>25,
     <1>26, <1>27, <1>28, <1>29, <1>30, <1>31, <1>32, <1>33, <1>34, <1>35, <1>36, <1>37
  DEF Next, LaunchStep, ServerStep, ProbeStep

\* What the cleanup returns to, step by step.
LEMMA CleanupInvStep == LaunchInv /\ Next => CleanupInv'
<1> SUFFICES ASSUME LaunchInv, Next PROVE CleanupInv'
  OBVIOUS
<1> USE DEF LaunchInv, TypeOK, CleanupInv
<1>1. CASE LaunchPrepare
  BY <1>1 DEF LaunchPrepare
<1>2. CASE LaunchActivate
  BY <1>2 DEF LaunchActivate, Exit
<1>3. CASE LaunchActivated
  BY <1>3 DEF LaunchActivated
<1>4. CASE LaunchServe
  BY <1>4 DEF LaunchServe
<1>5. CASE LaunchSocket
  BY <1>5 DEF LaunchSocket, Exit
<1>6. CASE LaunchGuards
  BY <1>6 DEF LaunchGuards, Exit
<1>7. CASE LaunchSteam
  BY <1>7 DEF LaunchSteam
<1>8. CASE LaunchPrefetch
  BY <1>8 DEF LaunchPrefetch
<1>9. CASE LaunchGate
  BY <1>9 DEF LaunchGate
<1>10. CASE LaunchCheck
  BY <1>10 DEF LaunchCheck, StopServer
<1>11. CASE LaunchWait
  BY <1>11 DEF LaunchWait, Exit
<1>12. CASE LaunchTrap
  BY <1>12 DEF LaunchTrap
<1>13. CASE CleanHelpers
  BY <1>13 DEF CleanHelpers
<1>14. CASE CleanServer
  BY <1>14 DEF CleanServer, StopServer
<1>15. CASE CleanOverlay
  BY <1>15 DEF CleanOverlay
<1>16. CASE ServerFails
  BY <1>16 DEF ServerFails, ServerEnds, ServerUnchanged
<1>17. CASE ServerRequest
  BY <1>17 DEF ServerRequest, ServerEnds, ServerUnchanged
<1>18. CASE ServerGate
  BY <1>18 DEF ServerGate, ServerEnds, ServerUnchanged
<1>19. CASE ServerStart
  BY <1>19 DEF ServerStart, ServerEnds, ServerUnchanged
<1>20. CASE ProbeService
  BY <1>20 DEF ProbeService, ProbeGoes, ProbeStops, ProbeUnchanged
<1>21. CASE ProbeLaunch
  BY <1>21 DEF ProbeLaunch, ProbeGoes, ProbeUnchanged
<1>22. CASE ProbeHandoff
  BY <1>22 DEF ProbeHandoff, ProbeGoes, ProbeStops, ProbeUnchanged
<1>23. CASE ProbeActivity
  BY <1>23 DEF ProbeActivity, ProbeGoes, ProbeStops, ProbeUnchanged
<1>24. CASE ProbeFrame
  BY <1>24 DEF ProbeFrame, ProbeGoes, ProbeStops, ProbeUnchanged
<1>25. CASE ProbeRelease
  BY <1>25 DEF ProbeRelease, ProbeGoes, ProbeStops, ProbeUnchanged
<1>26. CASE MonitorLaunch
  BY <1>26 DEF MonitorLaunch, ProbeGoes, ProbeStops, ProbeUnchanged
<1>27. CASE MonitorService
  BY <1>27 DEF MonitorService, ProbeStops, ProbeUnchanged
<1>28. CASE MonitorFrame
  BY <1>28 DEF MonitorFrame, ProbeStops, ProbeUnchanged
<1>29. CASE ProbeFinish
  BY <1>29 DEF ProbeFinish, ProbeStops, ProbeUnchanged
<1>30. CASE ProbeStop
  BY <1>30 DEF ProbeStop, ProbeGoes, ProbeUnchanged
<1>31. CASE ProbeStopping
  BY <1>31 DEF ProbeStopping, ProbeGoes, ProbeUnchanged
<1>32. CASE ProbeUnlink
  BY <1>32 DEF ProbeUnlink, ProbeGoes
<1>33. CASE GameEnds
  BY <1>33 DEF GameEnds, ServerEnds, ServerUnchanged
<1>34. CASE ServiceDies
  BY <1>34 DEF ServiceDies
<1>35. CASE FrameEnds
  BY <1>35 DEF FrameEnds
<1>36. CASE SignalProbe
  BY <1>36 DEF SignalProbe
<1>37. CASE SignalLaunch
  BY <1>37 DEF SignalLaunch
<1> QED
  BY <1>1, <1>2, <1>3, <1>4, <1>5, <1>6, <1>7, <1>8, <1>9, <1>10, <1>11, <1>12, <1>13,
     <1>14, <1>15, <1>16, <1>17, <1>18, <1>19, <1>20, <1>21, <1>22, <1>23, <1>24, <1>25,
     <1>26, <1>27, <1>28, <1>29, <1>30, <1>31, <1>32, <1>33, <1>34, <1>35, <1>36, <1>37
  DEF Next, LaunchStep, ServerStep, ProbeStep

\* Nothing is made before the trap is set.
LEMMA NothingYetStep == LaunchInv /\ Next => NothingYet'
<1> SUFFICES ASSUME LaunchInv, Next PROVE NothingYet'
  OBVIOUS
<1> USE DEF LaunchInv, TypeOK, CleanupInv, NothingYet
<1>1. CASE LaunchPrepare
  BY <1>1 DEF LaunchPrepare
<1>2. CASE LaunchActivate
  BY <1>2 DEF LaunchActivate, Exit
<1>3. CASE LaunchActivated
  BY <1>3 DEF LaunchActivated
<1>4. CASE LaunchServe
  BY <1>4 DEF LaunchServe
<1>5. CASE LaunchSocket
  BY <1>5 DEF LaunchSocket, Exit
<1>6. CASE LaunchGuards
  BY <1>6 DEF LaunchGuards, Exit
<1>7. CASE LaunchSteam
  BY <1>7 DEF LaunchSteam
<1>8. CASE LaunchPrefetch
  BY <1>8 DEF LaunchPrefetch
<1>9. CASE LaunchGate
  BY <1>9 DEF LaunchGate
<1>10. CASE LaunchCheck
  BY <1>10 DEF LaunchCheck, StopServer
<1>11. CASE LaunchWait
  BY <1>11 DEF LaunchWait, Exit
<1>12. CASE LaunchTrap
  BY <1>12 DEF LaunchTrap
<1>13. CASE CleanHelpers
  BY <1>13 DEF CleanHelpers
<1>14. CASE CleanServer
  BY <1>14 DEF CleanServer, StopServer
<1>15. CASE CleanOverlay
  BY <1>15 DEF CleanOverlay
<1>16. CASE ServerFails
  BY <1>16 DEF ServerFails, ServerEnds, ServerUnchanged
<1>17. CASE ServerRequest
  BY <1>17 DEF ServerRequest, ServerEnds, ServerUnchanged
<1>18. CASE ServerGate
  BY <1>18 DEF ServerGate, ServerEnds, ServerUnchanged
<1>19. CASE ServerStart
  BY <1>19 DEF ServerStart, ServerEnds, ServerUnchanged
<1>20. CASE ProbeService
  BY <1>20 DEF ProbeService, ProbeGoes, ProbeStops, ProbeUnchanged
<1>21. CASE ProbeLaunch
  BY <1>21 DEF ProbeLaunch, ProbeGoes, ProbeUnchanged
<1>22. CASE ProbeHandoff
  BY <1>22 DEF ProbeHandoff, ProbeGoes, ProbeStops, ProbeUnchanged
<1>23. CASE ProbeActivity
  BY <1>23 DEF ProbeActivity, ProbeGoes, ProbeStops, ProbeUnchanged
<1>24. CASE ProbeFrame
  BY <1>24 DEF ProbeFrame, ProbeGoes, ProbeStops, ProbeUnchanged
<1>25. CASE ProbeRelease
  BY <1>25 DEF ProbeRelease, ProbeGoes, ProbeStops, ProbeUnchanged
<1>26. CASE MonitorLaunch
  BY <1>26 DEF MonitorLaunch, ProbeGoes, ProbeStops, ProbeUnchanged
<1>27. CASE MonitorService
  BY <1>27 DEF MonitorService, ProbeStops, ProbeUnchanged
<1>28. CASE MonitorFrame
  BY <1>28 DEF MonitorFrame, ProbeStops, ProbeUnchanged
<1>29. CASE ProbeFinish
  BY <1>29 DEF ProbeFinish, ProbeStops, ProbeUnchanged
<1>30. CASE ProbeStop
  BY <1>30 DEF ProbeStop, ProbeGoes, ProbeUnchanged
<1>31. CASE ProbeStopping
  BY <1>31 DEF ProbeStopping, ProbeGoes, ProbeUnchanged
<1>32. CASE ProbeUnlink
  BY <1>32 DEF ProbeUnlink, ProbeGoes
<1>33. CASE GameEnds
  BY <1>33 DEF GameEnds, ServerEnds, ServerUnchanged
<1>34. CASE ServiceDies
  BY <1>34 DEF ServiceDies
<1>35. CASE FrameEnds
  BY <1>35 DEF FrameEnds
<1>36. CASE SignalProbe
  BY <1>36 DEF SignalProbe
<1>37. CASE SignalLaunch
  BY <1>37 DEF SignalLaunch
<1> QED
  BY <1>1, <1>2, <1>3, <1>4, <1>5, <1>6, <1>7, <1>8, <1>9, <1>10, <1>11, <1>12, <1>13,
     <1>14, <1>15, <1>16, <1>17, <1>18, <1>19, <1>20, <1>21, <1>22, <1>23, <1>24, <1>25,
     <1>26, <1>27, <1>28, <1>29, <1>30, <1>31, <1>32, <1>33, <1>34, <1>35, <1>36, <1>37
  DEF Next, LaunchStep, ServerStep, ProbeStep

\* No step but a KILL leaves an overlay the script does not know of.
LEMMA OverlayInvStep == LaunchInv /\ Next => OverlayInv'
<1> SUFFICES ASSUME LaunchInv, Next PROVE OverlayInv'
  OBVIOUS
<1> USE DEF LaunchInv, TypeOK, CleanupInv, NothingYet, OverlayInv
<1>1. CASE LaunchPrepare
  BY <1>1 DEF LaunchPrepare
<1>2. CASE LaunchActivate
  BY <1>2 DEF LaunchActivate, Exit
<1>3. CASE LaunchActivated
  BY <1>3 DEF LaunchActivated
<1>4. CASE LaunchServe
  BY <1>4 DEF LaunchServe
<1>5. CASE LaunchSocket
  BY <1>5 DEF LaunchSocket, Exit
<1>6. CASE LaunchGuards
  BY <1>6 DEF LaunchGuards, Exit
<1>7. CASE LaunchSteam
  BY <1>7 DEF LaunchSteam
<1>8. CASE LaunchPrefetch
  BY <1>8 DEF LaunchPrefetch
<1>9. CASE LaunchGate
  BY <1>9 DEF LaunchGate
<1>10. CASE LaunchCheck
  BY <1>10 DEF LaunchCheck, StopServer
<1>11. CASE LaunchWait
  BY <1>11 DEF LaunchWait, Exit
<1>12. CASE LaunchTrap
  BY <1>12 DEF LaunchTrap
<1>13. CASE CleanHelpers
  BY <1>13 DEF CleanHelpers
<1>14. CASE CleanServer
  BY <1>14 DEF CleanServer, StopServer
<1>15. CASE CleanOverlay
  BY <1>15 DEF CleanOverlay
<1>16. CASE ServerFails
  BY <1>16 DEF ServerFails, ServerEnds, ServerUnchanged
<1>17. CASE ServerRequest
  BY <1>17 DEF ServerRequest, ServerEnds, ServerUnchanged
<1>18. CASE ServerGate
  BY <1>18 DEF ServerGate, ServerEnds, ServerUnchanged
<1>19. CASE ServerStart
  BY <1>19 DEF ServerStart, ServerEnds, ServerUnchanged
<1>20. CASE ProbeService
  BY <1>20 DEF ProbeService, ProbeGoes, ProbeStops, ProbeUnchanged
<1>21. CASE ProbeLaunch
  BY <1>21 DEF ProbeLaunch, ProbeGoes, ProbeUnchanged
<1>22. CASE ProbeHandoff
  BY <1>22 DEF ProbeHandoff, ProbeGoes, ProbeStops, ProbeUnchanged
<1>23. CASE ProbeActivity
  BY <1>23 DEF ProbeActivity, ProbeGoes, ProbeStops, ProbeUnchanged
<1>24. CASE ProbeFrame
  BY <1>24 DEF ProbeFrame, ProbeGoes, ProbeStops, ProbeUnchanged
<1>25. CASE ProbeRelease
  BY <1>25 DEF ProbeRelease, ProbeGoes, ProbeStops, ProbeUnchanged
<1>26. CASE MonitorLaunch
  BY <1>26 DEF MonitorLaunch, ProbeGoes, ProbeStops, ProbeUnchanged
<1>27. CASE MonitorService
  BY <1>27 DEF MonitorService, ProbeStops, ProbeUnchanged
<1>28. CASE MonitorFrame
  BY <1>28 DEF MonitorFrame, ProbeStops, ProbeUnchanged
<1>29. CASE ProbeFinish
  BY <1>29 DEF ProbeFinish, ProbeStops, ProbeUnchanged
<1>30. CASE ProbeStop
  BY <1>30 DEF ProbeStop, ProbeGoes, ProbeUnchanged
<1>31. CASE ProbeStopping
  BY <1>31 DEF ProbeStopping, ProbeGoes, ProbeUnchanged
<1>32. CASE ProbeUnlink
  BY <1>32 DEF ProbeUnlink, ProbeGoes
<1>33. CASE GameEnds
  BY <1>33 DEF GameEnds, ServerEnds, ServerUnchanged
<1>34. CASE ServiceDies
  BY <1>34 DEF ServiceDies
<1>35. CASE FrameEnds
  BY <1>35 DEF FrameEnds
<1>36. CASE SignalProbe
  BY <1>36 DEF SignalProbe
<1>37. CASE SignalLaunch
  BY <1>37 DEF SignalLaunch
<1> QED
  BY <1>1, <1>2, <1>3, <1>4, <1>5, <1>6, <1>7, <1>8, <1>9, <1>10, <1>11, <1>12, <1>13,
     <1>14, <1>15, <1>16, <1>17, <1>18, <1>19, <1>20, <1>21, <1>22, <1>23, <1>24, <1>25,
     <1>26, <1>27, <1>28, <1>29, <1>30, <1>31, <1>32, <1>33, <1>34, <1>35, <1>36, <1>37
  DEF Next, LaunchStep, ServerStep, ProbeStep

\* No step but a KILL ends the script with its server.
LEMMA ServerInvStep == LaunchInv /\ Next => ServerInv'
<1> SUFFICES ASSUME LaunchInv, Next PROVE ServerInv'
  OBVIOUS
<1> USE DEF LaunchInv, TypeOK, CleanupInv, NothingYet, ServerInv
<1>1. CASE LaunchPrepare
  BY <1>1 DEF LaunchPrepare
<1>2. CASE LaunchActivate
  BY <1>2 DEF LaunchActivate, Exit
<1>3. CASE LaunchActivated
  BY <1>3 DEF LaunchActivated
<1>4. CASE LaunchServe
  BY <1>4 DEF LaunchServe
<1>5. CASE LaunchSocket
  BY <1>5 DEF LaunchSocket, Exit
<1>6. CASE LaunchGuards
  BY <1>6 DEF LaunchGuards, Exit
<1>7. CASE LaunchSteam
  BY <1>7 DEF LaunchSteam
<1>8. CASE LaunchPrefetch
  BY <1>8 DEF LaunchPrefetch
<1>9. CASE LaunchGate
  BY <1>9 DEF LaunchGate
<1>10. CASE LaunchCheck
  BY <1>10 DEF LaunchCheck, StopServer
<1>11. CASE LaunchWait
  BY <1>11 DEF LaunchWait, Exit
<1>12. CASE LaunchTrap
  BY <1>12 DEF LaunchTrap
<1>13. CASE CleanHelpers
  BY <1>13 DEF CleanHelpers
<1>14. CASE CleanServer
  BY <1>14 DEF CleanServer, StopServer
<1>15. CASE CleanOverlay
  BY <1>15 DEF CleanOverlay
<1>16. CASE ServerFails
  BY <1>16 DEF ServerFails, ServerEnds, ServerUnchanged
<1>17. CASE ServerRequest
  BY <1>17 DEF ServerRequest, ServerEnds, ServerUnchanged
<1>18. CASE ServerGate
  BY <1>18 DEF ServerGate, ServerEnds, ServerUnchanged
<1>19. CASE ServerStart
  BY <1>19 DEF ServerStart, ServerEnds, ServerUnchanged
<1>20. CASE ProbeService
  BY <1>20 DEF ProbeService, ProbeGoes, ProbeStops, ProbeUnchanged
<1>21. CASE ProbeLaunch
  BY <1>21 DEF ProbeLaunch, ProbeGoes, ProbeUnchanged
<1>22. CASE ProbeHandoff
  BY <1>22 DEF ProbeHandoff, ProbeGoes, ProbeStops, ProbeUnchanged
<1>23. CASE ProbeActivity
  BY <1>23 DEF ProbeActivity, ProbeGoes, ProbeStops, ProbeUnchanged
<1>24. CASE ProbeFrame
  BY <1>24 DEF ProbeFrame, ProbeGoes, ProbeStops, ProbeUnchanged
<1>25. CASE ProbeRelease
  BY <1>25 DEF ProbeRelease, ProbeGoes, ProbeStops, ProbeUnchanged
<1>26. CASE MonitorLaunch
  BY <1>26 DEF MonitorLaunch, ProbeGoes, ProbeStops, ProbeUnchanged
<1>27. CASE MonitorService
  BY <1>27 DEF MonitorService, ProbeStops, ProbeUnchanged
<1>28. CASE MonitorFrame
  BY <1>28 DEF MonitorFrame, ProbeStops, ProbeUnchanged
<1>29. CASE ProbeFinish
  BY <1>29 DEF ProbeFinish, ProbeStops, ProbeUnchanged
<1>30. CASE ProbeStop
  BY <1>30 DEF ProbeStop, ProbeGoes, ProbeUnchanged
<1>31. CASE ProbeStopping
  BY <1>31 DEF ProbeStopping, ProbeGoes, ProbeUnchanged
<1>32. CASE ProbeUnlink
  BY <1>32 DEF ProbeUnlink, ProbeGoes
<1>33. CASE GameEnds
  BY <1>33 DEF GameEnds, ServerEnds, ServerUnchanged
<1>34. CASE ServiceDies
  BY <1>34 DEF ServiceDies
<1>35. CASE FrameEnds
  BY <1>35 DEF FrameEnds
<1>36. CASE SignalProbe
  BY <1>36 DEF SignalProbe
<1>37. CASE SignalLaunch
  BY <1>37 DEF SignalLaunch
<1> QED
  BY <1>1, <1>2, <1>3, <1>4, <1>5, <1>6, <1>7, <1>8, <1>9, <1>10, <1>11, <1>12, <1>13,
     <1>14, <1>15, <1>16, <1>17, <1>18, <1>19, <1>20, <1>21, <1>22, <1>23, <1>24, <1>25,
     <1>26, <1>27, <1>28, <1>29, <1>30, <1>31, <1>32, <1>33, <1>34, <1>35, <1>36, <1>37
  DEF Next, LaunchStep, ServerStep, ProbeStep

\* Nor with its helpers.
LEMMA HelpersInvStep == LaunchInv /\ Next => HelpersInv'
<1> SUFFICES ASSUME LaunchInv, Next PROVE HelpersInv'
  OBVIOUS
<1> USE DEF LaunchInv, TypeOK, CleanupInv, NothingYet, HelpersInv
<1>1. CASE LaunchPrepare
  BY <1>1 DEF LaunchPrepare
<1>2. CASE LaunchActivate
  BY <1>2 DEF LaunchActivate, Exit
<1>3. CASE LaunchActivated
  BY <1>3 DEF LaunchActivated
<1>4. CASE LaunchServe
  BY <1>4 DEF LaunchServe
<1>5. CASE LaunchSocket
  BY <1>5 DEF LaunchSocket, Exit
<1>6. CASE LaunchGuards
  BY <1>6 DEF LaunchGuards, Exit
<1>7. CASE LaunchSteam
  BY <1>7 DEF LaunchSteam
<1>8. CASE LaunchPrefetch
  BY <1>8 DEF LaunchPrefetch
<1>9. CASE LaunchGate
  BY <1>9 DEF LaunchGate
<1>10. CASE LaunchCheck
  BY <1>10 DEF LaunchCheck, StopServer
<1>11. CASE LaunchWait
  BY <1>11 DEF LaunchWait, Exit
<1>12. CASE LaunchTrap
  BY <1>12 DEF LaunchTrap
<1>13. CASE CleanHelpers
  BY <1>13 DEF CleanHelpers
<1>14. CASE CleanServer
  BY <1>14 DEF CleanServer, StopServer
<1>15. CASE CleanOverlay
  BY <1>15 DEF CleanOverlay
<1>16. CASE ServerFails
  BY <1>16 DEF ServerFails, ServerEnds, ServerUnchanged
<1>17. CASE ServerRequest
  BY <1>17 DEF ServerRequest, ServerEnds, ServerUnchanged
<1>18. CASE ServerGate
  BY <1>18 DEF ServerGate, ServerEnds, ServerUnchanged
<1>19. CASE ServerStart
  BY <1>19 DEF ServerStart, ServerEnds, ServerUnchanged
<1>20. CASE ProbeService
  BY <1>20 DEF ProbeService, ProbeGoes, ProbeStops, ProbeUnchanged
<1>21. CASE ProbeLaunch
  BY <1>21 DEF ProbeLaunch, ProbeGoes, ProbeUnchanged
<1>22. CASE ProbeHandoff
  BY <1>22 DEF ProbeHandoff, ProbeGoes, ProbeStops, ProbeUnchanged
<1>23. CASE ProbeActivity
  BY <1>23 DEF ProbeActivity, ProbeGoes, ProbeStops, ProbeUnchanged
<1>24. CASE ProbeFrame
  BY <1>24 DEF ProbeFrame, ProbeGoes, ProbeStops, ProbeUnchanged
<1>25. CASE ProbeRelease
  BY <1>25 DEF ProbeRelease, ProbeGoes, ProbeStops, ProbeUnchanged
<1>26. CASE MonitorLaunch
  BY <1>26 DEF MonitorLaunch, ProbeGoes, ProbeStops, ProbeUnchanged
<1>27. CASE MonitorService
  BY <1>27 DEF MonitorService, ProbeStops, ProbeUnchanged
<1>28. CASE MonitorFrame
  BY <1>28 DEF MonitorFrame, ProbeStops, ProbeUnchanged
<1>29. CASE ProbeFinish
  BY <1>29 DEF ProbeFinish, ProbeStops, ProbeUnchanged
<1>30. CASE ProbeStop
  BY <1>30 DEF ProbeStop, ProbeGoes, ProbeUnchanged
<1>31. CASE ProbeStopping
  BY <1>31 DEF ProbeStopping, ProbeGoes, ProbeUnchanged
<1>32. CASE ProbeUnlink
  BY <1>32 DEF ProbeUnlink, ProbeGoes
<1>33. CASE GameEnds
  BY <1>33 DEF GameEnds, ServerEnds, ServerUnchanged
<1>34. CASE ServiceDies
  BY <1>34 DEF ServiceDies
<1>35. CASE FrameEnds
  BY <1>35 DEF FrameEnds
<1>36. CASE SignalProbe
  BY <1>36 DEF SignalProbe
<1>37. CASE SignalLaunch
  BY <1>37 DEF SignalLaunch
<1> QED
  BY <1>1, <1>2, <1>3, <1>4, <1>5, <1>6, <1>7, <1>8, <1>9, <1>10, <1>11, <1>12, <1>13,
     <1>14, <1>15, <1>16, <1>17, <1>18, <1>19, <1>20, <1>21, <1>22, <1>23, <1>24, <1>25,
     <1>26, <1>27, <1>28, <1>29, <1>30, <1>31, <1>32, <1>33, <1>34, <1>35, <1>36, <1>37
  DEF Next, LaunchStep, ServerStep, ProbeStep

\* The server is started at one step.
LEMMA NoServerYetStep == LaunchInv /\ Next => NoServerYet'
<1> SUFFICES ASSUME LaunchInv, Next PROVE NoServerYet'
  OBVIOUS
<1> USE DEF LaunchInv, TypeOK, CleanupInv, NothingYet, NoServerYet
<1>1. CASE LaunchPrepare
  BY <1>1 DEF LaunchPrepare
<1>2. CASE LaunchActivate
  BY <1>2 DEF LaunchActivate, Exit
<1>3. CASE LaunchActivated
  BY <1>3 DEF LaunchActivated
<1>4. CASE LaunchServe
  BY <1>4 DEF LaunchServe
<1>5. CASE LaunchSocket
  BY <1>5 DEF LaunchSocket, Exit
<1>6. CASE LaunchGuards
  BY <1>6 DEF LaunchGuards, Exit
<1>7. CASE LaunchSteam
  BY <1>7 DEF LaunchSteam
<1>8. CASE LaunchPrefetch
  BY <1>8 DEF LaunchPrefetch
<1>9. CASE LaunchGate
  BY <1>9 DEF LaunchGate
<1>10. CASE LaunchCheck
  BY <1>10 DEF LaunchCheck, StopServer
<1>11. CASE LaunchWait
  BY <1>11 DEF LaunchWait, Exit
<1>12. CASE LaunchTrap
  BY <1>12 DEF LaunchTrap
<1>13. CASE CleanHelpers
  BY <1>13 DEF CleanHelpers
<1>14. CASE CleanServer
  BY <1>14 DEF CleanServer, StopServer
<1>15. CASE CleanOverlay
  BY <1>15 DEF CleanOverlay
<1>16. CASE ServerFails
  BY <1>16 DEF ServerFails, ServerEnds, ServerUnchanged
<1>17. CASE ServerRequest
  BY <1>17 DEF ServerRequest, ServerEnds, ServerUnchanged
<1>18. CASE ServerGate
  BY <1>18 DEF ServerGate, ServerEnds, ServerUnchanged
<1>19. CASE ServerStart
  BY <1>19 DEF ServerStart, ServerEnds, ServerUnchanged
<1>20. CASE ProbeService
  BY <1>20 DEF ProbeService, ProbeGoes, ProbeStops, ProbeUnchanged
<1>21. CASE ProbeLaunch
  BY <1>21 DEF ProbeLaunch, ProbeGoes, ProbeUnchanged
<1>22. CASE ProbeHandoff
  BY <1>22 DEF ProbeHandoff, ProbeGoes, ProbeStops, ProbeUnchanged
<1>23. CASE ProbeActivity
  BY <1>23 DEF ProbeActivity, ProbeGoes, ProbeStops, ProbeUnchanged
<1>24. CASE ProbeFrame
  BY <1>24 DEF ProbeFrame, ProbeGoes, ProbeStops, ProbeUnchanged
<1>25. CASE ProbeRelease
  BY <1>25 DEF ProbeRelease, ProbeGoes, ProbeStops, ProbeUnchanged
<1>26. CASE MonitorLaunch
  BY <1>26 DEF MonitorLaunch, ProbeGoes, ProbeStops, ProbeUnchanged
<1>27. CASE MonitorService
  BY <1>27 DEF MonitorService, ProbeStops, ProbeUnchanged
<1>28. CASE MonitorFrame
  BY <1>28 DEF MonitorFrame, ProbeStops, ProbeUnchanged
<1>29. CASE ProbeFinish
  BY <1>29 DEF ProbeFinish, ProbeStops, ProbeUnchanged
<1>30. CASE ProbeStop
  BY <1>30 DEF ProbeStop, ProbeGoes, ProbeUnchanged
<1>31. CASE ProbeStopping
  BY <1>31 DEF ProbeStopping, ProbeGoes, ProbeUnchanged
<1>32. CASE ProbeUnlink
  BY <1>32 DEF ProbeUnlink, ProbeGoes
<1>33. CASE GameEnds
  BY <1>33 DEF GameEnds, ServerEnds, ServerUnchanged
<1>34. CASE ServiceDies
  BY <1>34 DEF ServiceDies
<1>35. CASE FrameEnds
  BY <1>35 DEF FrameEnds
<1>36. CASE SignalProbe
  BY <1>36 DEF SignalProbe
<1>37. CASE SignalLaunch
  BY <1>37 DEF SignalLaunch
<1> QED
  BY <1>1, <1>2, <1>3, <1>4, <1>5, <1>6, <1>7, <1>8, <1>9, <1>10, <1>11, <1>12, <1>13,
     <1>14, <1>15, <1>16, <1>17, <1>18, <1>19, <1>20, <1>21, <1>22, <1>23, <1>24, <1>25,
     <1>26, <1>27, <1>28, <1>29, <1>30, <1>31, <1>32, <1>33, <1>34, <1>35, <1>36, <1>37
  DEF Next, LaunchStep, ServerStep, ProbeStep

\* Nothing makes a marker once the probe has unlinked them.
LEMMA ProbeInvStep == LaunchInv /\ Next => ProbeInv'
<1> SUFFICES ASSUME LaunchInv, Next PROVE ProbeInv'
  OBVIOUS
<1> USE DEF LaunchInv, TypeOK, CleanupInv, NothingYet, ServerInv, ProbeInv
<1>1. CASE LaunchPrepare
  BY <1>1 DEF LaunchPrepare
<1>2. CASE LaunchActivate
  BY <1>2 DEF LaunchActivate, Exit
<1>3. CASE LaunchActivated
  BY <1>3 DEF LaunchActivated
<1>4. CASE LaunchServe
  BY <1>4 DEF LaunchServe
<1>5. CASE LaunchSocket
  BY <1>5 DEF LaunchSocket, Exit
<1>6. CASE LaunchGuards
  BY <1>6 DEF LaunchGuards, Exit
<1>7. CASE LaunchSteam
  BY <1>7 DEF LaunchSteam
<1>8. CASE LaunchPrefetch
  BY <1>8 DEF LaunchPrefetch
<1>9. CASE LaunchGate
  BY <1>9 DEF LaunchGate
<1>10. CASE LaunchCheck
  BY <1>10 DEF LaunchCheck, StopServer
<1>11. CASE LaunchWait
  BY <1>11 DEF LaunchWait, Exit
<1>12. CASE LaunchTrap
  BY <1>12 DEF LaunchTrap
<1>13. CASE CleanHelpers
  BY <1>13 DEF CleanHelpers
<1>14. CASE CleanServer
  BY <1>14 DEF CleanServer, StopServer
<1>15. CASE CleanOverlay
  BY <1>15 DEF CleanOverlay
<1>16. CASE ServerFails
  BY <1>16 DEF ServerFails, ServerEnds, ServerUnchanged
<1>17. CASE ServerRequest
  BY <1>17 DEF ServerRequest, ServerEnds, ServerUnchanged
<1>18. CASE ServerGate
  BY <1>18 DEF ServerGate, ServerEnds, ServerUnchanged
<1>19. CASE ServerStart
  BY <1>19 DEF ServerStart, ServerEnds, ServerUnchanged
<1>20. CASE ProbeService
  BY <1>20 DEF ProbeService, ProbeGoes, ProbeStops, ProbeUnchanged
<1>21. CASE ProbeLaunch
  BY <1>21 DEF ProbeLaunch, ProbeGoes, ProbeUnchanged
<1>22. CASE ProbeHandoff
  BY <1>22 DEF ProbeHandoff, ProbeGoes, ProbeStops, ProbeUnchanged
<1>23. CASE ProbeActivity
  BY <1>23 DEF ProbeActivity, ProbeGoes, ProbeStops, ProbeUnchanged
<1>24. CASE ProbeFrame
  BY <1>24 DEF ProbeFrame, ProbeGoes, ProbeStops, ProbeUnchanged
<1>25. CASE ProbeRelease
  BY <1>25 DEF ProbeRelease, ProbeGoes, ProbeStops, ProbeUnchanged
<1>26. CASE MonitorLaunch
  BY <1>26 DEF MonitorLaunch, ProbeGoes, ProbeStops, ProbeUnchanged
<1>27. CASE MonitorService
  BY <1>27 DEF MonitorService, ProbeStops, ProbeUnchanged
<1>28. CASE MonitorFrame
  BY <1>28 DEF MonitorFrame, ProbeStops, ProbeUnchanged
<1>29. CASE ProbeFinish
  BY <1>29 DEF ProbeFinish, ProbeStops, ProbeUnchanged
<1>30. CASE ProbeStop
  BY <1>30 DEF ProbeStop, ProbeGoes, ProbeUnchanged
<1>31. CASE ProbeStopping
  BY <1>31 DEF ProbeStopping, ProbeGoes, ProbeUnchanged
<1>32. CASE ProbeUnlink
  BY <1>32 DEF ProbeUnlink, ProbeGoes
<1>33. CASE GameEnds
  BY <1>33 DEF GameEnds, ServerEnds, ServerUnchanged
<1>34. CASE ServiceDies
  BY <1>34 DEF ServiceDies
<1>35. CASE FrameEnds
  BY <1>35 DEF FrameEnds
<1>36. CASE SignalProbe
  BY <1>36 DEF SignalProbe
<1>37. CASE SignalLaunch
  BY <1>37 DEF SignalLaunch
<1> QED
  BY <1>1, <1>2, <1>3, <1>4, <1>5, <1>6, <1>7, <1>8, <1>9, <1>10, <1>11, <1>12, <1>13,
     <1>14, <1>15, <1>16, <1>17, <1>18, <1>19, <1>20, <1>21, <1>22, <1>23, <1>24, <1>25,
     <1>26, <1>27, <1>28, <1>29, <1>30, <1>31, <1>32, <1>33, <1>34, <1>35, <1>36, <1>37
  DEF Next, LaunchStep, ServerStep, ProbeStep

\* Steam's acknowledgement stays that of this launch.
LEMMA MarkerInvStep == LaunchInv /\ Next => MarkerInv'
<1> SUFFICES ASSUME LaunchInv, Next PROVE MarkerInv'
  OBVIOUS
<1> USE DEF LaunchInv, TypeOK, CleanupInv, MarkerInv, Statuses
<1>1. CASE LaunchPrepare
  BY <1>1 DEF LaunchPrepare
<1>2. CASE LaunchActivate
  BY <1>2 DEF LaunchActivate, Exit
<1>3. CASE LaunchActivated
  BY <1>3 DEF LaunchActivated
<1>4. CASE LaunchServe
  BY <1>4 DEF LaunchServe
<1>5. CASE LaunchSocket
  BY <1>5 DEF LaunchSocket, Exit
<1>6. CASE LaunchGuards
  BY <1>6 DEF LaunchGuards, Exit
<1>7. CASE LaunchSteam
  BY <1>7 DEF LaunchSteam
<1>8. CASE LaunchPrefetch
  BY <1>8 DEF LaunchPrefetch
<1>9. CASE LaunchGate
  <2>1. launch.pc = "gate" /\ probe' = probe
    BY <1>9 DEF LaunchGate
  <2>2. ~Acknowledged /\ launch.status = "ok"
    BY <2>1
  <2>3. launch'.pc = "check"
    BY <1>9 DEF LaunchGate
  <2>4. CASE waiting /\ ready' /\ launch' = [launch EXCEPT !.pc = "check"]
    BY <2>1, <2>2, <2>4
  <2>5. CASE UNCHANGED ready
    BY <2>1, <2>2, <2>3, <2>5
  <2> QED
    BY <1>9, <2>4, <2>5 DEF LaunchGate
<1>10. CASE LaunchCheck
  BY <1>10 DEF LaunchCheck, StopServer
<1>11. CASE LaunchWait
  BY <1>11 DEF LaunchWait, Exit
<1>12. CASE LaunchTrap
  BY <1>12 DEF LaunchTrap
<1>13. CASE CleanHelpers
  BY <1>13 DEF CleanHelpers
<1>14. CASE CleanServer
  BY <1>14 DEF CleanServer, StopServer
<1>15. CASE CleanOverlay
  BY <1>15 DEF CleanOverlay
<1>16. CASE ServerFails
  BY <1>16 DEF ServerFails, ServerEnds, ServerUnchanged
<1>17. CASE ServerRequest
  BY <1>17 DEF ServerRequest, ServerEnds, ServerUnchanged
<1>18. CASE ServerGate
  BY <1>18 DEF ServerGate, ServerEnds, ServerUnchanged
<1>19. CASE ServerStart
  BY <1>19 DEF ServerStart, ServerEnds, ServerUnchanged
<1>20. CASE ProbeService
  BY <1>20 DEF ProbeService, ProbeGoes, ProbeStops, ProbeUnchanged
<1>21. CASE ProbeLaunch
  BY <1>21 DEF ProbeLaunch, ProbeGoes, ProbeUnchanged
<1>22. CASE ProbeHandoff
  BY <1>22 DEF ProbeHandoff, ProbeGoes, ProbeStops, ProbeUnchanged
<1>23. CASE ProbeActivity
  BY <1>23 DEF ProbeActivity, ProbeGoes, ProbeStops, ProbeUnchanged
<1>24. CASE ProbeFrame
  BY <1>24 DEF ProbeFrame, ProbeGoes, ProbeStops, ProbeUnchanged
<1>25. CASE ProbeRelease
  BY <1>25 DEF ProbeRelease, ProbeGoes, ProbeStops, ProbeUnchanged
<1>26. CASE MonitorLaunch
  BY <1>26 DEF MonitorLaunch, ProbeGoes, ProbeStops, ProbeUnchanged
<1>27. CASE MonitorService
  BY <1>27 DEF MonitorService, ProbeStops, ProbeUnchanged
<1>28. CASE MonitorFrame
  BY <1>28 DEF MonitorFrame, ProbeStops, ProbeUnchanged
<1>29. CASE ProbeFinish
  BY <1>29 DEF ProbeFinish, ProbeStops, ProbeUnchanged
<1>30. CASE ProbeStop
  BY <1>30 DEF ProbeStop, ProbeGoes, ProbeUnchanged
<1>31. CASE ProbeStopping
  BY <1>31 DEF ProbeStopping, ProbeGoes, ProbeUnchanged
<1>32. CASE ProbeUnlink
  BY <1>32 DEF ProbeUnlink, ProbeGoes
<1>33. CASE GameEnds
  BY <1>33 DEF GameEnds, ServerEnds, ServerUnchanged
<1>34. CASE ServiceDies
  BY <1>34 DEF ServiceDies
<1>35. CASE FrameEnds
  BY <1>35 DEF FrameEnds
<1>36. CASE SignalProbe
  BY <1>36 DEF SignalProbe
<1>37. CASE SignalLaunch
  BY <1>37 DEF SignalLaunch
<1> QED
  BY <1>1, <1>2, <1>3, <1>4, <1>5, <1>6, <1>7, <1>8, <1>9, <1>10, <1>11, <1>12, <1>13,
     <1>14, <1>15, <1>16, <1>17, <1>18, <1>19, <1>20, <1>21, <1>22, <1>23, <1>24, <1>25,
     <1>26, <1>27, <1>28, <1>29, <1>30, <1>31, <1>32, <1>33, <1>34, <1>35, <1>36, <1>37
  DEF Next, LaunchStep, ServerStep, ProbeStep

\* No step opens the gate before the frame client is there.
LEMMA GateInvStep == LaunchInv /\ Next => GateInv'
<1> SUFFICES ASSUME LaunchInv, Next PROVE GateInv'
  OBVIOUS
<1> USE DEF LaunchInv, TypeOK, CleanupInv, MarkerInv, GateInv
<1>1. CASE LaunchPrepare
  BY <1>1 DEF LaunchPrepare
<1>2. CASE LaunchActivate
  BY <1>2 DEF LaunchActivate, Exit
<1>3. CASE LaunchActivated
  BY <1>3 DEF LaunchActivated
<1>4. CASE LaunchServe
  BY <1>4 DEF LaunchServe
<1>5. CASE LaunchSocket
  BY <1>5 DEF LaunchSocket, Exit
<1>6. CASE LaunchGuards
  BY <1>6 DEF LaunchGuards, Exit
<1>7. CASE LaunchSteam
  BY <1>7 DEF LaunchSteam
<1>8. CASE LaunchPrefetch
  BY <1>8 DEF LaunchPrefetch
<1>9. CASE LaunchGate
  BY <1>9 DEF LaunchGate
<1>10. CASE LaunchCheck
  BY <1>10 DEF LaunchCheck, StopServer
<1>11. CASE LaunchWait
  BY <1>11 DEF LaunchWait, Exit
<1>12. CASE LaunchTrap
  BY <1>12 DEF LaunchTrap
<1>13. CASE CleanHelpers
  BY <1>13 DEF CleanHelpers
<1>14. CASE CleanServer
  BY <1>14 DEF CleanServer, StopServer
<1>15. CASE CleanOverlay
  BY <1>15 DEF CleanOverlay
<1>16. CASE ServerFails
  BY <1>16 DEF ServerFails, ServerEnds, ServerUnchanged
<1>17. CASE ServerRequest
  BY <1>17 DEF ServerRequest, ServerEnds, ServerUnchanged
<1>18. CASE ServerGate
  BY <1>18 DEF ServerGate, ServerEnds, ServerUnchanged
<1>19. CASE ServerStart
  BY <1>19 DEF ServerStart, ServerEnds, ServerUnchanged
<1>20. CASE ProbeService
  BY <1>20 DEF ProbeService, ProbeGoes, ProbeStops, ProbeUnchanged
<1>21. CASE ProbeLaunch
  BY <1>21 DEF ProbeLaunch, ProbeGoes, ProbeUnchanged
<1>22. CASE ProbeHandoff
  BY <1>22 DEF ProbeHandoff, ProbeGoes, ProbeStops, ProbeUnchanged
<1>23. CASE ProbeActivity
  BY <1>23 DEF ProbeActivity, ProbeGoes, ProbeStops, ProbeUnchanged
<1>24. CASE ProbeFrame
  BY <1>24 DEF ProbeFrame, ProbeGoes, ProbeStops, ProbeUnchanged
<1>25. CASE ProbeRelease
  BY <1>25 DEF ProbeRelease, ProbeGoes, ProbeStops, ProbeUnchanged
<1>26. CASE MonitorLaunch
  BY <1>26, ZenonT(60) DEF MonitorLaunch, ProbeGoes, ProbeStops, ProbeUnchanged
<1>27. CASE MonitorService
  BY <1>27 DEF MonitorService, ProbeStops, ProbeUnchanged
<1>28. CASE MonitorFrame
  BY <1>28 DEF MonitorFrame, ProbeStops, ProbeUnchanged
<1>29. CASE ProbeFinish
  BY <1>29 DEF ProbeFinish, ProbeStops, ProbeUnchanged
<1>30. CASE ProbeStop
  BY <1>30 DEF ProbeStop, ProbeGoes, ProbeUnchanged
<1>31. CASE ProbeStopping
  BY <1>31 DEF ProbeStopping, ProbeGoes, ProbeUnchanged
<1>32. CASE ProbeUnlink
  BY <1>32 DEF ProbeUnlink, ProbeGoes
<1>33. CASE GameEnds
  BY <1>33 DEF GameEnds, ServerEnds, ServerUnchanged
<1>34. CASE ServiceDies
  BY <1>34 DEF ServiceDies
<1>35. CASE FrameEnds
  BY <1>35 DEF FrameEnds
<1>36. CASE SignalProbe
  BY <1>36 DEF SignalProbe
<1>37. CASE SignalLaunch
  BY <1>37 DEF SignalLaunch
<1> QED
  BY <1>1, <1>2, <1>3, <1>4, <1>5, <1>6, <1>7, <1>8, <1>9, <1>10, <1>11, <1>12, <1>13,
     <1>14, <1>15, <1>16, <1>17, <1>18, <1>19, <1>20, <1>21, <1>22, <1>23, <1>24, <1>25,
     <1>26, <1>27, <1>28, <1>29, <1>30, <1>31, <1>32, <1>33, <1>34, <1>35, <1>36, <1>37
  DEF Next, LaunchStep, ServerStep, ProbeStep

\* The server reports what the game did.
LEMMA ServerStatusInvStep == LaunchInv /\ Next => ServerStatusInv'
<1> SUFFICES ASSUME LaunchInv, Next PROVE ServerStatusInv'
  OBVIOUS
<1> USE DEF LaunchInv, TypeOK, NoServerYet, ServerStatusInv, Statuses
<1>1. CASE LaunchPrepare
  BY <1>1 DEF LaunchPrepare
<1>2. CASE LaunchActivate
  BY <1>2 DEF LaunchActivate, Exit
<1>3. CASE LaunchActivated
  BY <1>3 DEF LaunchActivated
<1>4. CASE LaunchServe
  BY <1>4 DEF LaunchServe
<1>5. CASE LaunchSocket
  BY <1>5 DEF LaunchSocket, Exit
<1>6. CASE LaunchGuards
  BY <1>6 DEF LaunchGuards, Exit
<1>7. CASE LaunchSteam
  BY <1>7 DEF LaunchSteam
<1>8. CASE LaunchPrefetch
  BY <1>8 DEF LaunchPrefetch
<1>9. CASE LaunchGate
  BY <1>9 DEF LaunchGate
<1>10. CASE LaunchCheck
  BY <1>10 DEF LaunchCheck, StopServer
<1>11. CASE LaunchWait
  BY <1>11 DEF LaunchWait, Exit
<1>12. CASE LaunchTrap
  BY <1>12 DEF LaunchTrap
<1>13. CASE CleanHelpers
  BY <1>13 DEF CleanHelpers
<1>14. CASE CleanServer
  BY <1>14 DEF CleanServer, StopServer
<1>15. CASE CleanOverlay
  BY <1>15 DEF CleanOverlay
<1>16. CASE ServerFails
  BY <1>16 DEF ServerFails, ServerEnds, ServerUnchanged
<1>17. CASE ServerRequest
  BY <1>17 DEF ServerRequest, ServerEnds, ServerUnchanged
<1>18. CASE ServerGate
  BY <1>18 DEF ServerGate, ServerEnds, ServerUnchanged
<1>19. CASE ServerStart
  BY <1>19 DEF ServerStart, ServerEnds, ServerUnchanged
<1>20. CASE ProbeService
  BY <1>20 DEF ProbeService, ProbeGoes, ProbeStops, ProbeUnchanged
<1>21. CASE ProbeLaunch
  BY <1>21 DEF ProbeLaunch, ProbeGoes, ProbeUnchanged
<1>22. CASE ProbeHandoff
  BY <1>22 DEF ProbeHandoff, ProbeGoes, ProbeStops, ProbeUnchanged
<1>23. CASE ProbeActivity
  BY <1>23 DEF ProbeActivity, ProbeGoes, ProbeStops, ProbeUnchanged
<1>24. CASE ProbeFrame
  BY <1>24 DEF ProbeFrame, ProbeGoes, ProbeStops, ProbeUnchanged
<1>25. CASE ProbeRelease
  BY <1>25 DEF ProbeRelease, ProbeGoes, ProbeStops, ProbeUnchanged
<1>26. CASE MonitorLaunch
  BY <1>26 DEF MonitorLaunch, ProbeGoes, ProbeStops, ProbeUnchanged
<1>27. CASE MonitorService
  BY <1>27 DEF MonitorService, ProbeStops, ProbeUnchanged
<1>28. CASE MonitorFrame
  BY <1>28 DEF MonitorFrame, ProbeStops, ProbeUnchanged
<1>29. CASE ProbeFinish
  BY <1>29 DEF ProbeFinish, ProbeStops, ProbeUnchanged
<1>30. CASE ProbeStop
  BY <1>30 DEF ProbeStop, ProbeGoes, ProbeUnchanged
<1>31. CASE ProbeStopping
  BY <1>31 DEF ProbeStopping, ProbeGoes, ProbeUnchanged
<1>32. CASE ProbeUnlink
  BY <1>32 DEF ProbeUnlink, ProbeGoes
<1>33. CASE GameEnds
  BY <1>33 DEF GameEnds, ServerEnds, ServerUnchanged
<1>34. CASE ServiceDies
  BY <1>34 DEF ServiceDies
<1>35. CASE FrameEnds
  BY <1>35 DEF FrameEnds
<1>36. CASE SignalProbe
  BY <1>36 DEF SignalProbe
<1>37. CASE SignalLaunch
  BY <1>37 DEF SignalLaunch
<1> QED
  BY <1>1, <1>2, <1>3, <1>4, <1>5, <1>6, <1>7, <1>8, <1>9, <1>10, <1>11, <1>12, <1>13,
     <1>14, <1>15, <1>16, <1>17, <1>18, <1>19, <1>20, <1>21, <1>22, <1>23, <1>24, <1>25,
     <1>26, <1>27, <1>28, <1>29, <1>30, <1>31, <1>32, <1>33, <1>34, <1>35, <1>36, <1>37
  DEF Next, LaunchStep, ServerStep, ProbeStep

\* The script reports what Steam and the server did.
LEMMA ExitInvStep == LaunchInv /\ Next => ExitInv'
<1> SUFFICES ASSUME LaunchInv, Next PROVE ExitInv'
  OBVIOUS
<1> USE DEF LaunchInv, TypeOK, CleanupInv, ServerStatusInv, ExitInv, Statuses
<1>1. CASE LaunchPrepare
  BY <1>1 DEF LaunchPrepare
<1>2. CASE LaunchActivate
  BY <1>2 DEF LaunchActivate, Exit
<1>3. CASE LaunchActivated
  BY <1>3 DEF LaunchActivated
<1>4. CASE LaunchServe
  BY <1>4 DEF LaunchServe
<1>5. CASE LaunchSocket
  BY <1>5 DEF LaunchSocket, Exit
<1>6. CASE LaunchGuards
  BY <1>6 DEF LaunchGuards, Exit
<1>7. CASE LaunchSteam
  BY <1>7 DEF LaunchSteam
<1>8. CASE LaunchPrefetch
  BY <1>8 DEF LaunchPrefetch
<1>9. CASE LaunchGate
  BY <1>9 DEF LaunchGate
<1>10. CASE LaunchCheck
  BY <1>10 DEF LaunchCheck, StopServer
<1>11. CASE LaunchWait
  BY <1>11 DEF LaunchWait, Exit
<1>12. CASE LaunchTrap
  BY <1>12 DEF LaunchTrap
<1>13. CASE CleanHelpers
  BY <1>13 DEF CleanHelpers
<1>14. CASE CleanServer
  BY <1>14 DEF CleanServer, StopServer
<1>15. CASE CleanOverlay
  BY <1>15 DEF CleanOverlay
<1>16. CASE ServerFails
  BY <1>16 DEF ServerFails, ServerEnds, ServerUnchanged
<1>17. CASE ServerRequest
  BY <1>17 DEF ServerRequest, ServerEnds, ServerUnchanged
<1>18. CASE ServerGate
  BY <1>18 DEF ServerGate, ServerEnds, ServerUnchanged
<1>19. CASE ServerStart
  BY <1>19 DEF ServerStart, ServerEnds, ServerUnchanged
<1>20. CASE ProbeService
  BY <1>20 DEF ProbeService, ProbeGoes, ProbeStops, ProbeUnchanged
<1>21. CASE ProbeLaunch
  BY <1>21 DEF ProbeLaunch, ProbeGoes, ProbeUnchanged
<1>22. CASE ProbeHandoff
  BY <1>22 DEF ProbeHandoff, ProbeGoes, ProbeStops, ProbeUnchanged
<1>23. CASE ProbeActivity
  BY <1>23 DEF ProbeActivity, ProbeGoes, ProbeStops, ProbeUnchanged
<1>24. CASE ProbeFrame
  BY <1>24 DEF ProbeFrame, ProbeGoes, ProbeStops, ProbeUnchanged
<1>25. CASE ProbeRelease
  BY <1>25 DEF ProbeRelease, ProbeGoes, ProbeStops, ProbeUnchanged
<1>26. CASE MonitorLaunch
  BY <1>26 DEF MonitorLaunch, ProbeGoes, ProbeStops, ProbeUnchanged
<1>27. CASE MonitorService
  BY <1>27 DEF MonitorService, ProbeStops, ProbeUnchanged
<1>28. CASE MonitorFrame
  BY <1>28 DEF MonitorFrame, ProbeStops, ProbeUnchanged
<1>29. CASE ProbeFinish
  BY <1>29 DEF ProbeFinish, ProbeStops, ProbeUnchanged
<1>30. CASE ProbeStop
  BY <1>30 DEF ProbeStop, ProbeGoes, ProbeUnchanged
<1>31. CASE ProbeStopping
  BY <1>31 DEF ProbeStopping, ProbeGoes, ProbeUnchanged
<1>32. CASE ProbeUnlink
  BY <1>32 DEF ProbeUnlink, ProbeGoes
<1>33. CASE GameEnds
  BY <1>33 DEF GameEnds, ServerEnds, ServerUnchanged
<1>34. CASE ServiceDies
  BY <1>34 DEF ServiceDies
<1>35. CASE FrameEnds
  BY <1>35 DEF FrameEnds
<1>36. CASE SignalProbe
  BY <1>36 DEF SignalProbe
<1>37. CASE SignalLaunch
  BY <1>37 DEF SignalLaunch
<1> QED
  BY <1>1, <1>2, <1>3, <1>4, <1>5, <1>6, <1>7, <1>8, <1>9, <1>10, <1>11, <1>12, <1>13,
     <1>14, <1>15, <1>16, <1>17, <1>18, <1>19, <1>20, <1>21, <1>22, <1>23, <1>24, <1>25,
     <1>26, <1>27, <1>28, <1>29, <1>30, <1>31, <1>32, <1>33, <1>34, <1>35, <1>36, <1>37
  DEF Next, LaunchStep, ServerStep, ProbeStep

\* The probe reports what the script and the frame client did.
LEMMA ProbeStatusInvStep == LaunchInv /\ Next => ProbeStatusInv'
<1> SUFFICES ASSUME LaunchInv, Next PROVE ProbeStatusInv'
  OBVIOUS
<1> USE DEF LaunchInv, TypeOK, CleanupInv, ProbeStatusInv, Statuses
<1>1. CASE LaunchPrepare
  BY <1>1 DEF LaunchPrepare
<1>2. CASE LaunchActivate
  BY <1>2 DEF LaunchActivate, Exit
<1>3. CASE LaunchActivated
  BY <1>3 DEF LaunchActivated
<1>4. CASE LaunchServe
  BY <1>4 DEF LaunchServe
<1>5. CASE LaunchSocket
  BY <1>5 DEF LaunchSocket, Exit
<1>6. CASE LaunchGuards
  BY <1>6 DEF LaunchGuards, Exit
<1>7. CASE LaunchSteam
  BY <1>7 DEF LaunchSteam
<1>8. CASE LaunchPrefetch
  BY <1>8 DEF LaunchPrefetch
<1>9. CASE LaunchGate
  BY <1>9 DEF LaunchGate
<1>10. CASE LaunchCheck
  BY <1>10 DEF LaunchCheck, StopServer
<1>11. CASE LaunchWait
  BY <1>11 DEF LaunchWait, Exit
<1>12. CASE LaunchTrap
  BY <1>12 DEF LaunchTrap
<1>13. CASE CleanHelpers
  BY <1>13 DEF CleanHelpers
<1>14. CASE CleanServer
  BY <1>14 DEF CleanServer, StopServer
<1>15. CASE CleanOverlay
  BY <1>15 DEF CleanOverlay
<1>16. CASE ServerFails
  BY <1>16 DEF ServerFails, ServerEnds, ServerUnchanged
<1>17. CASE ServerRequest
  BY <1>17 DEF ServerRequest, ServerEnds, ServerUnchanged
<1>18. CASE ServerGate
  BY <1>18 DEF ServerGate, ServerEnds, ServerUnchanged
<1>19. CASE ServerStart
  BY <1>19 DEF ServerStart, ServerEnds, ServerUnchanged
<1>20. CASE ProbeService
  BY <1>20 DEF ProbeService, ProbeGoes, ProbeStops, ProbeUnchanged
<1>21. CASE ProbeLaunch
  BY <1>21 DEF ProbeLaunch, ProbeGoes, ProbeUnchanged
<1>22. CASE ProbeHandoff
  BY <1>22 DEF ProbeHandoff, ProbeGoes, ProbeStops, ProbeUnchanged
<1>23. CASE ProbeActivity
  BY <1>23 DEF ProbeActivity, ProbeGoes, ProbeStops, ProbeUnchanged
<1>24. CASE ProbeFrame
  BY <1>24 DEF ProbeFrame, ProbeGoes, ProbeStops, ProbeUnchanged
<1>25. CASE ProbeRelease
  BY <1>25 DEF ProbeRelease, ProbeGoes, ProbeStops, ProbeUnchanged
<1>26. CASE MonitorLaunch
  BY <1>26 DEF MonitorLaunch, ProbeGoes, ProbeStops, ProbeUnchanged
<1>27. CASE MonitorService
  BY <1>27 DEF MonitorService, ProbeStops, ProbeUnchanged
<1>28. CASE MonitorFrame
  BY <1>28 DEF MonitorFrame, ProbeStops, ProbeUnchanged
<1>29. CASE ProbeFinish
  BY <1>29 DEF ProbeFinish, ProbeStops, ProbeUnchanged
<1>30. CASE ProbeStop
  BY <1>30 DEF ProbeStop, ProbeGoes, ProbeUnchanged
<1>31. CASE ProbeStopping
  BY <1>31 DEF ProbeStopping, ProbeGoes, ProbeUnchanged
<1>32. CASE ProbeUnlink
  BY <1>32 DEF ProbeUnlink, ProbeGoes
<1>33. CASE GameEnds
  BY <1>33 DEF GameEnds, ServerEnds, ServerUnchanged
<1>34. CASE ServiceDies
  BY <1>34 DEF ServiceDies
<1>35. CASE FrameEnds
  BY <1>35 DEF FrameEnds
<1>36. CASE SignalProbe
  BY <1>36 DEF SignalProbe
<1>37. CASE SignalLaunch
  BY <1>37 DEF SignalLaunch
<1> QED
  BY <1>1, <1>2, <1>3, <1>4, <1>5, <1>6, <1>7, <1>8, <1>9, <1>10, <1>11, <1>12, <1>13,
     <1>14, <1>15, <1>16, <1>17, <1>18, <1>19, <1>20, <1>21, <1>22, <1>23, <1>24, <1>25,
     <1>26, <1>27, <1>28, <1>29, <1>30, <1>31, <1>32, <1>33, <1>34, <1>35, <1>36, <1>37
  DEF Next, LaunchStep, ServerStep, ProbeStep

-------------------------------------------------------------------------------

LEMMA LaunchInvariant == Spec => []LaunchInv
<1>1. LaunchInv /\ [Next]_vars => LaunchInv'
  <2> SUFFICES ASSUME LaunchInv, [Next]_vars PROVE LaunchInv'
    OBVIOUS
  <2>1. CASE Next
    <3>1. TypeOK'
      BY <2>1, LaunchTypeStep, ProbeTypeStep, RestTypeStep, BoolTypeStep
      DEF TypeOK, RestOK, BoolOK
    <3> QED
      BY <2>1, <3>1, CleanupInvStep, NothingYetStep, OverlayInvStep, ServerInvStep, HelpersInvStep,
         NoServerYetStep, ProbeInvStep, MarkerInvStep, GateInvStep, ServerStatusInvStep,
         ExitInvStep, ProbeStatusInvStep
      DEF LaunchInv
  <2>2. CASE UNCHANGED vars
    BY <2>2 DEF vars, LaunchInv, TypeOK, CleanupInv, NothingYet, OverlayInv, ServerInv, HelpersInv, NoServerYet,
            ProbeInv, MarkerInv, GateInv, ServerStatusInv, ExitInv, ProbeStatusInv
  <2> QED
    BY <2>1, <2>2
<1> QED
  BY <1>1, LaunchInit, PTL DEF Spec

\* The variables of a direct launch keep their types.
THEOREM LaunchTypeCorrect == Spec => []TypeOK
<1>1. LaunchInv => TypeOK
  BY DEF LaunchInv
<1> QED
  BY <1>1, LaunchInvariant, PTL

\* A launch script that has ended, whatever failed or signalled it, has left no helper, no
\* server and no overlay: the EXIT trap of start-tombraider-direct-dispatch.sh.
THEOREM NothingLeftBehind == Spec => []NothingLeft
<1>1. LaunchInv => NothingLeft
  BY DEF LaunchInv, OverlayInv, ServerInv, HelpersInv, NothingLeft
<1> QED
  BY <1>1, LaunchInvariant, PTL

\* A probe that has cleaned up leaves no marker file: cleanup of start-tombraider-bvb-probe.sh.
THEOREM NoMarkerLeft == Spec => []MarkersGone
<1>1. LaunchInv => MarkersGone
  BY DEF LaunchInv, ProbeInv
<1> QED
  BY <1>1, LaunchInvariant, PTL

\* A probe that reports success has had the whole game: the final checks of
\* start-tombraider-bvb-probe.sh.
THEOREM SuccessMeansPlayed == Spec => []SuccessIsPlayed
<1>1. LaunchInv => SuccessIsPlayed
  BY DEF LaunchInv, ServerStatusInv, ExitInv, ProbeStatusInv, SuccessIsPlayed
<1> QED
  BY <1>1, LaunchInvariant, PTL

\* Only one action starts the game.
LEMMA GameStart ==
  ASSUME LaunchInv, [Next]_vars, game = "off", game' # "off"
  PROVE  ServerStart
<1>1. CASE LaunchStep
  BY <1>1 DEF LaunchStep, LaunchPrepare, LaunchActivate, LaunchActivated, LaunchServe, LaunchSocket,
         LaunchGuards, LaunchSteam, LaunchPrefetch, LaunchGate, LaunchCheck, LaunchWait,
         LaunchTrap, CleanHelpers, CleanServer, CleanOverlay, Exit, StopServer
<1>2. CASE ServerStep
  BY <1>2 DEF ServerStep, ServerFails, ServerRequest, ServerGate, ServerStart, ServerEnds, ServerUnchanged
<1>3. CASE ProbeStep
  BY <1>3 DEF ProbeStep, ProbeService, ProbeLaunch, ProbeHandoff, ProbeActivity, ProbeFrame, ProbeRelease,
         MonitorLaunch, MonitorService, MonitorFrame, ProbeFinish, ProbeStop,
         ProbeStopping, ProbeUnlink, ProbeGoes, ProbeStops, ProbeUnchanged
<1>4. CASE GameEnds \/ ServiceDies \/ FrameEnds \/ SignalProbe \/ SignalLaunch \/ UNCHANGED vars
  BY <1>4 DEF GameEnds, ServiceDies, FrameEnds, SignalProbe, SignalLaunch, vars
<1> QED
  BY <1>1, <1>2, <1>3, <1>4 DEF Next

\* With a probe no game starts before its frame client is there and Steam has acknowledged:
\* the start gate of pressure-vessel-direct-dispatch.py.
THEOREM FramesBeforeGame == Spec => FramesFirst
<1>1. LaunchInv /\ [Next]_vars => (gated /\ game = "off" /\ game' # "off"
                                     => frame # "off" /\ launch.status = "ok")
  <2> SUFFICES ASSUME LaunchInv, [Next]_vars, gated, game = "off", game' # "off"
               PROVE  frame # "off" /\ launch.status = "ok"
    OBVIOUS
  <2>1. server.pc = "start"
    BY GameStart DEF ServerStart
  <2> QED
    BY <2>1 DEF LaunchInv, GateInv
<1>2. LaunchInv /\ UNCHANGED vars => (gated /\ game = "off" /\ game' # "off"
                                     => frame # "off" /\ launch.status = "ok")
  BY DEF vars
<1> QED
  BY <1>1, <1>2, LaunchInvariant, PTL DEF Spec, FramesFirst

\* Once a probe has cleaned up no game starts: stop_child_bounded comes before the end.
THEOREM NoGameWithoutRenderer == Spec => NoGameAfterProbe
<1>1. LaunchInv /\ [Next]_vars =>
        (probe.pc = "done" /\ ~probe.cut /\ ~launch.killed /\ game = "off" => game' = "off")
  <2> SUFFICES ASSUME LaunchInv, [Next]_vars, probe.pc = "done", ~probe.cut, ~launch.killed,
                      game = "off", game' # "off"
               PROVE  FALSE
    OBVIOUS
  <2>1. server.pc = "start"
    BY GameStart DEF ServerStart
  <2>2. launch.pc \in {"off", "done"}
    BY DEF LaunchInv, ProbeInv
  <2> QED
    BY <2>1, <2>2 DEF LaunchInv, ServerInv, NothingYet
<1> QED
  BY <1>1, LaunchInvariant, PTL DEF Spec, NoGameAfterProbe

\* A launch that has ended has left nothing running, no overlay and no marker, and a success
\* of the probe was a game that was played (EndsWell).
THEOREM LaunchEndsWell == Spec => []EndsWell
<1>1. SuccessIsPlayed /\ NothingLeft /\ MarkersGone => EndsWell
  BY DEF EndsWell
<1>2. QED
  BY <1>1, SuccessMeansPlayed, NothingLeftBehind, NoMarkerLeft, PTL

\* The game runs between the frame client's start and the probe's cleanup (PlaysInFrame).
THEOREM PlayedInFrame == Spec => PlaysInFrame
BY FramesBeforeGame, NoGameWithoutRenderer DEF PlaysInFrame

HIDE DirectLaunchAssumption

------------------------------------------------------------------------------
(* The inductive invariant *)

\* A client is with one server at most: in its queue, or accepted.
Owned ==
    /\ \A c \in Clients : cli[c].pc = "new" =>
           \A s \in Servers : c \notin queue[s] /\ srv[s].client # c
    /\ \A s, t \in Servers : \A c \in queue[s] :
           srv[t].client # c /\ (c \in queue[t] => s = t)
    /\ \A s, t \in Servers : srv[s].client = srv[t].client /\ srv[s].client # None => s = t

Early == {"new", "look", "unlink", "bind", "listen", "accept", "receive", "plan", "fork"}
Serving == {"fork", "inspect", "release", "wait", "respond"}

\* A server that goes on, and a child from its fork on, has a client with a sound request and a
\* plan of the operator's settings.
Entitled(s) ==
    LET v == srv[s] IN
    /\ v.pc \in {"receive", "plan"} \cup Serving => v.client # None
    /\ v.pc \in {"plan"} \cup Serving => cli[v.client].sound
    /\ v.pc \in Serving => v.plan = "selected"
    /\ child[s].pc # "none" =>
           v.client # None /\ cli[v.client].sound /\ v.plan = "selected"

\* A child that ends well has had the descriptors that were asked for.
ChildTells(s) == child[s].code = 0 => child[s].table = "asked"

\* How far a server and its child may be apart, by what is in the pipe between them.
InStep(s) ==
    LET v == srv[s] IN
    /\ v.pc \in Early => child[s].pc = "none"
    /\ v.pc \in {"inspect", "release"} =>
           child[s].pc \in {"inherit", "read"} /\ "server" \in pipe[s]
    /\ v.pc = "release" => v.tracer # None
    /\ v.pc = "wait" => "released" \in pipe[s]
    /\ v.pc = "respond" => child[s].pc = "gone"
    /\ v.pc \in {"close", "remove"} => child[s].pc \in {"none", "gone"}
    /\ "released" \in pipe[s] =>
           v.tracer # None /\ v.pc \notin Early \cup {"inspect", "release"}
    /\ child[s].pc \in {"pin", "running"} =>
           "released" \in pipe[s] /\ child[s].table = "asked"
    /\ child[s].pc = "gone" =>
           \/ "released" \in pipe[s] /\ ChildTells(s)
           \/ v.pc = "dead"

\* The status that is going to be sent.
Answer(s) ==
    srv[s].pc = "respond" /\ srv[s].status = 0 =>
        srv[s].tracer = "untraced" /\ child[s].code = 0 /\ child[s].table = "asked"

DispatchInv ==
    /\ Owned /\ PassIsReal
    /\ \A s \in Servers : Entitled(s) /\ InStep(s) /\ Answer(s)

------------------------------------------------------------------------------
(* What is said of the plans and of the descriptors, by DispatchPlan and RemapDescriptors *)

\* No plan leaves a setting out, or adds one; no payload finds other descriptors than it asked
\* for.  Both are about functions of finite data.
PlansRight == "other" \notin Outcomes
TablesRight == "other" \notin Passings

LEMMA OutcomeSelected ==
    ASSUME PlansRight, NEW o \in Outcomes \ {"refused"}
    PROVE  o = "selected"
<1> DEFINE Kinds == {"refused", "selected", "other"}
<1>1. ASSUME NEW mode, NEW settings, NEW carried, NEW command, NEW broken
      PROVE  Outcome(mode, settings, carried, command, broken) \in Kinds
  BY DEF Outcome
<1> HIDE DEF Kinds
<1>2. SettingOutcomes \subseteq Kinds
  BY <1>1, SMT DEF SettingOutcomes
<1>3. OptionOutcomes \subseteq Kinds
  BY <1>1, SMT DEF OptionOutcomes
<1>4. o \in Kinds
  BY <1>2, <1>3 DEF Outcomes
<1>5. QED
  BY <1>4 DEF PlansRight, Kinds

LEMMA PassingAsked ==
    ASSUME TablesRight, NEW passing \in Passings \ {"truncated"}
    PROVE  passing \in {"full", "asked"}
<1>1. ASSUME NEW numbers, NEW table
      PROVE  Passing(numbers, table) \in {"truncated", "full", "asked", "other"}
  BY DEF Passing
<1>2. \E numbers \in Requests, table \in Tables : passing = Passing(numbers, table)
  BY DEF Passings
<1>3. passing \in {"truncated", "full", "asked", "other"}
  BY <1>1, <1>2
<1>4. QED
  BY <1>3 DEF TablesRight

------------------------------------------------------------------------------
(* Type correctness *)

\* A server that goes to its next step.
LEMMA GotoType ==
    ASSUME DispatchTypeOK, NEW s \in Servers, NEW step \in ServerSteps, Goto(s, step)
    PROVE  srv' \in [Servers -> Dispatcher]
<1>1. [srv[s] EXCEPT !.pc = step] \in Dispatcher
  BY DEF DispatchTypeOK, Dispatcher
<1>2. QED
  BY <1>1 DEF DispatchTypeOK, Goto

\* Clients whose connection ends.
LEMMA ResetType ==
    ASSUME DispatchTypeOK, NEW s \in Servers, Reset(s)
    PROVE  cli' \in [Clients -> Client] /\ queue' \in [Servers -> SUBSET Clients]
<1>1. \A c \in Clients : [cli[c] EXCEPT !.pc = "done", !.result = 125] \in Client
  BY DEF DispatchTypeOK, Client, ExitStatuses
<1>2. QED
  BY <1>1 DEF DispatchTypeOK, Reset

LEMMA EndsType ==
    ASSUME DispatchTypeOK, NEW s \in Servers, Ends(s) \/ UNCHANGED <<cli, queue>>
    PROVE  cli' \in [Clients -> Client] /\ queue' \in [Servers -> SUBSET Clients]
BY ResetType DEF Ends, DispatchTypeOK

\* The records of one server, one child and one client.
LEMMA ServerType ==
    ASSUME DispatchTypeOK, NEW s \in Servers, NEW v \in Dispatcher, srv' = [srv EXCEPT ![s] = v]
    PROVE  srv' \in [Servers -> Dispatcher]
BY DEF DispatchTypeOK

LEMMA ChildType ==
    ASSUME DispatchTypeOK, NEW s \in Servers, NEW v \in Child, child' = [child EXCEPT ![s] = v]
    PROVE  child' \in [Servers -> Child]
BY DEF DispatchTypeOK

LEMMA ClientType ==
    ASSUME DispatchTypeOK, NEW c \in Clients, NEW v \in Client, cli' = [cli EXCEPT ![c] = v]
    PROVE  cli' \in [Clients -> Client]
BY DEF DispatchTypeOK

LEMMA ServeType ==
    ASSUME DispatchTypeOK, PlansRight, NEW s \in Servers, Start(s) \/ Serve(s) \/ Kill(s)
    PROVE  DispatchTypeOK'
<1>0. {"look", "bind", "unlink", "dead", "listen", "close", "accept", "plan", "inspect",
       "wait", "remove"} \subseteq ServerSteps
  BY DEF ServerSteps
<1>1. srv[s] \in Dispatcher /\ {"receive", "fork", "release", "respond", "dead"} \subseteq
     ServerSteps
  BY DEF DispatchTypeOK, ServerSteps
<1>2. CASE Start(s) \/ Look(s) \/ Unlink(s) \/ Bind(s) \/ Listen(s) \/ Receive(s)
  <2>1. \E step \in ServerSteps : Goto(s, step)
    BY <1>0, <1>2 DEF Start, Look, Unlink, Bind, Listen, Receive
  <2>2. srv' \in [Servers -> Dispatcher]
    BY <2>1, GotoType
  <2>3. path' \in Servers \cup {None} /\ UNCHANGED <<queue, cli, child, pipe>>
    BY <1>2 DEF Start, Look, Unlink, Bind, Listen, Receive, DispatchTypeOK
  <2>4. QED
    BY <2>2, <2>3 DEF DispatchTypeOK
<1>3. CASE Accept(s)
  <2>1. PICK c \in queue[s] : /\ srv' = [srv EXCEPT ![s].pc = "receive", ![s].client = c]
                              /\ queue' = [queue EXCEPT ![s] = queue[s] \ {c}]
    BY <1>3 DEF Accept
  <2>2. c \in Clients /\ queue' \in [Servers -> SUBSET Clients]
    BY <2>1 DEF DispatchTypeOK
  <2>3. [srv[s] EXCEPT !.pc = "receive", !.client = c] \in Dispatcher
    BY <1>1, <2>2 DEF Dispatcher
  <2>4. QED
    BY <1>3, <2>1, <2>2, <2>3, ServerType DEF Accept, DispatchTypeOK
<1>4. CASE Plan(s)
  <2>1. CASE Goto(s, "close")
    BY <1>0, <1>4, <2>1, GotoType DEF Plan, DispatchTypeOK
  <2>2. CASE ~Goto(s, "close")
    <3>1. PICK o \in Outcomes \ {"refused"} :
              srv' = [srv EXCEPT ![s].pc = "fork", ![s].plan = o]
      BY <1>4, <2>2 DEF Plan
    <3>2. [srv[s] EXCEPT !.pc = "fork", !.plan = o] \in Dispatcher
      BY <1>1, <3>1, OutcomeSelected DEF Dispatcher
    <3>3. QED
      BY <1>4, <3>1, <3>2, ServerType DEF Plan, DispatchTypeOK
  <2>3. QED
    BY <2>1, <2>2
<1>5. CASE Fork(s)
  <2>1. srv' \in [Servers -> Dispatcher]
    BY <1>0, <1>5, GotoType DEF Fork
  <2>2. \A code \in ExitStatuses : [pc |-> "inherit", code |-> code, table |-> "none"] \in Child
    BY DEF Child
  <2>3. QED
    BY <1>5, <2>1, <2>2 DEF Fork, DispatchTypeOK
<1>6. CASE Inspect(s)
  <2>1. \A tracer \in Tracers : [srv[s] EXCEPT !.pc = "release", !.tracer = tracer] \in Dispatcher
    BY <1>1 DEF Dispatcher
  <2>2. srv' \in [Servers -> Dispatcher]
    BY <1>6, <2>1 DEF Inspect, DispatchTypeOK
  <2>3. QED
    BY <1>6, <2>2 DEF Inspect, DispatchTypeOK
<1>7. CASE Release(s)
  BY <1>0, <1>7, GotoType DEF Release, DispatchTypeOK
<1>8. CASE Wait(s)
  <2>1. child[s].code \in ExitStatuses
    BY DEF DispatchTypeOK, Child
  <2>2. \A status \in ExitStatuses : [srv[s] EXCEPT !.pc = "respond", !.status = status] \in
       Dispatcher
    BY <1>1 DEF Dispatcher
  <2>3. srv' \in [Servers -> Dispatcher]
    <3>1. PICK status \in ExitStatuses :
              srv' = [srv EXCEPT ![s].pc = "respond", ![s].status = status]
      BY <1>8, <2>1 DEF Wait, ExitStatuses
    <3>2. QED
      BY <2>2, <3>1 DEF DispatchTypeOK
  <2>4. QED
    BY <1>8, <2>3 DEF Wait, DispatchTypeOK
<1>9. CASE Respond(s)
  <2>1. srv[s].status \in ExitStatuses
    BY DEF DispatchTypeOK, Dispatcher
  <2>2. \A c \in Clients, status \in ExitStatuses :
            [cli[c] EXCEPT !.pc = "done", !.result = status] \in Client
    BY DEF DispatchTypeOK, Client
  <2>3. cli' \in [Clients -> Client]
    BY <1>9, <2>1, <2>2 DEF Respond, DispatchTypeOK
  <2>4. QED
    BY <1>0, <1>9, <2>3, GotoType DEF Respond, DispatchTypeOK
<1>10. CASE Close(s) \/ RemoveSocket(s)
  BY <1>0, <1>10, GotoType, ResetType DEF Close, RemoveSocket, DispatchTypeOK
<1>11. CASE Kill(s)
  <2>1. [srv[s] EXCEPT !.pc = "dead", !.killed = TRUE] \in Dispatcher
    BY <1>1 DEF Dispatcher
  <2>2. cli' \in [Clients -> Client] /\ queue' \in [Servers -> SUBSET Clients]
    BY <1>11, ResetType DEF Kill, DispatchTypeOK
  <2>3. QED
    BY <1>11, <2>1, <2>2, ServerType DEF Kill, DispatchTypeOK
<1>12. QED
  BY <1>2, <1>3, <1>4, <1>5, <1>6, <1>7, <1>8, <1>9, <1>10, <1>11 DEF Serve

LEMMA RunChildType ==
    ASSUME DispatchTypeOK, TablesRight, NEW s \in Servers, RunChild(s)
    PROVE  DispatchTypeOK'
<1>1. \A pc \in {"read", "pin", "running", "gone"} : [child[s] EXCEPT !.pc = pc] \in Child
  BY DEF DispatchTypeOK, Child
<1>0. child[s] \in Child /\ 125 \in ExitStatuses
  BY DEF DispatchTypeOK, ExitStatuses
<1>2. [child[s] EXCEPT !.pc = "gone", !.code = 125] \in Child
  BY <1>0 DEF Child
<1>3. [child[s] EXCEPT !.pc = "pin", !.table = "asked"] \in Child
  BY <1>0 DEF Child
<1>4. UNCHANGED srv /\ path' = path /\ pipe' \in [Servers -> SUBSET {"server", "child", "released"}]
  BY DEF RunChild, ChildInherit, ChildRead, ChildPin, ChildExit, DispatchTypeOK
<1>5. cli' \in [Clients -> Client] /\ queue' \in [Servers -> SUBSET Clients]
  BY EndsType DEF RunChild, ChildInherit, ChildRead, ChildPin, ChildExit
<1>6. child' \in [Servers -> Child]
  <2>1. CASE ChildRead(s)
    BY <1>1, <1>2, <1>3, <2>1, PassingAsked DEF ChildRead, DispatchTypeOK
  <2>2. CASE ~ChildRead(s)
    BY <1>1, <1>2, <2>2 DEF RunChild, ChildInherit, ChildPin, ChildExit, DispatchTypeOK
  <2>3. QED
    BY <2>1, <2>2
<1>7. QED
  BY <1>4, <1>5, <1>6 DEF DispatchTypeOK

LEMMA ClientStepType ==
    ASSUME DispatchTypeOK, NEW c \in Clients, Connect(c) \/ Send(c) \/ ClientKilled(c)
    PROVE  DispatchTypeOK'
<1>1. /\ \A pc \in {"connected", "sent"} : [cli[c] EXCEPT !.pc = pc] \in Client
      /\ \A result \in {125, None} : [cli[c] EXCEPT !.pc = "done", !.result = result] \in Client
  BY DEF DispatchTypeOK, Client, ExitStatuses
<1>2. cli' \in [Clients -> Client]
  BY <1>1 DEF DispatchTypeOK, Connect, Send, ClientKilled
<1>3. queue' \in [Servers -> SUBSET Clients]
  BY DEF DispatchTypeOK, Connect, Send, ClientKilled, Listened
<1>4. QED
  BY <1>2, <1>3 DEF DispatchTypeOK, Connect, Send, ClientKilled

LEMMA DispatchTypeStep ==
    ASSUME PlansRight, TablesRight, DispatchTypeOK, [DispatchNext]_dispatchVars
    PROVE  DispatchTypeOK'
<1>1. CASE UNCHANGED dispatchVars
  BY <1>1 DEF dispatchVars, DispatchTypeOK
<1>2. QED
  BY <1>1, ServeType, RunChildType, ClientStepType DEF DispatchNext

LEMMA DispatchInitType == DispatchInit => DispatchTypeOK
<1> SUFFICES ASSUME DispatchInit PROVE DispatchTypeOK
  OBVIOUS
<1>1. srv \in [Servers -> Dispatcher] /\ child \in [Servers -> Child]
  BY DEF DispatchInit, Dispatcher, ServerSteps, Child, ExitStatuses
<1>2. \A b \in BOOLEAN : [pc |-> "new", sound |-> b, result |-> None] \in Client
  BY DEF Client
<1>3. cli \in [Clients -> Client]
  BY <1>2 DEF DispatchInit
<1>4. QED
  BY <1>1, <1>3 DEF DispatchInit, DispatchTypeOK

------------------------------------------------------------------------------
(* What a step leaves alone *)

\* No step makes a request sound that was not, or forgets that it was.
LEMMA SoundKept ==
    ASSUME DispatchTypeOK, [DispatchNext]_dispatchVars
    PROVE  \A c \in Clients : cli'[c].sound = cli[c].sound
<1> DEFINE Kept == \A c \in Clients : cli'[c].sound = cli[c].sound
<1>1. cli' = cli => Kept
  OBVIOUS
<1>2. ASSUME NEW s \in Servers, Reset(s) PROVE Kept
  BY <1>2 DEF Reset, DispatchTypeOK, Client
<1>3. ASSUME NEW c \in Clients, NEW v \in Client, v.sound = cli[c].sound,
             cli' = [cli EXCEPT ![c] = v]
      PROVE  Kept
  BY <1>3 DEF DispatchTypeOK
<1>4. ASSUME NEW s \in Servers, Respond(s) PROVE Kept
  BY <1>4 DEF Respond, DispatchTypeOK, Client
<1>5. ASSUME NEW c \in Clients, Connect(c) \/ Send(c) \/ ClientKilled(c) PROVE Kept
  BY <1>5 DEF Connect, Send, ClientKilled, DispatchTypeOK, Client
<1>6. ASSUME NEW s \in Servers, Start(s) \/ (Serve(s) /\ ~Respond(s)) \/ Kill(s) \/ RunChild(s)
      PROVE  cli' = cli \/ Reset(s)
  BY <1>6 DEF Start, Serve, Look, Unlink, Bind, Listen, Accept, Receive, Plan, Fork, Inspect,
              Release,
              Wait, Close, RemoveSocket, Kill, RunChild, ChildInherit, ChildRead, ChildPin,
              ChildExit, Ends
<1>7. QED
  BY <1>1, <1>2, <1>4, <1>5, <1>6 DEF DispatchNext, dispatchVars

\* A step of one server, or of its child, is no other's.
LEMMA OthersKept ==
    ASSUME DispatchTypeOK, NEW s \in Servers, Start(s) \/ Serve(s) \/ Kill(s) \/ RunChild(s)
    PROVE  \A t \in Servers \ {s} : srv'[t] = srv[t] /\ child'[t] = child[t] /\ pipe'[t] = pipe[t]
<1>1. \A t \in Servers \ {s} : srv'[t] = srv[t]
  BY DEF Start, Serve, Look, Unlink, Bind, Listen, Accept, Receive, Plan, Fork, Inspect, Release,
         Wait, Respond, Close, RemoveSocket, Kill, RunChild, ChildInherit, ChildRead, ChildPin,
         ChildExit, Goto, DispatchTypeOK
<1>2. \A t \in Servers \ {s} : child'[t] = child[t]
  BY DEF Start, Serve, Look, Unlink, Bind, Listen, Accept, Receive, Plan, Fork, Inspect, Release,
         Wait, Respond, Close, RemoveSocket, Kill, RunChild, ChildInherit, ChildRead, ChildPin,
         ChildExit, DispatchTypeOK
<1>3. \A t \in Servers \ {s} : pipe'[t] = pipe[t]
  BY DEF Start, Serve, Look, Unlink, Bind, Listen, Accept, Receive, Plan, Fork, Inspect, Release,
         Wait, Respond, Close, RemoveSocket, Kill, RunChild, ChildInherit, ChildRead, ChildPin,
         ChildExit, DispatchTypeOK
<1>4. QED
  BY <1>1, <1>2, <1>3

\* What is said of a server stays true while it, its child and its pipe stay as they are.
LEMMA StaysInOrder ==
    ASSUME DispatchTypeOK, NEW t \in Servers, Entitled(t), InStep(t), Answer(t),
           \A c \in Clients : cli'[c].sound = cli[c].sound,
           srv'[t] = srv[t], child'[t] = child[t], pipe'[t] = pipe[t]
    PROVE  Entitled(t)' /\ InStep(t)' /\ Answer(t)'
<1>1. srv[t].client \in Clients \cup {None}
  BY DEF DispatchTypeOK, Dispatcher
<1>2. Entitled(t)'
  BY <1>1 DEF Entitled
<1>3. InStep(t)' /\ Answer(t)'
  BY DEF InStep, Answer, ChildTells
<1>4. QED
  BY <1>2, <1>3

\* The fields of a server that goes to its next step.
LEMMA GotoSays ==
    ASSUME DispatchTypeOK, NEW s \in Servers, NEW step, Goto(s, step)
    PROVE  /\ srv'[s].pc = step
           /\ srv'[s].client = srv[s].client /\ srv'[s].plan = srv[s].plan
           /\ srv'[s].tracer = srv[s].tracer /\ srv'[s].status = srv[s].status
BY DEF DispatchTypeOK, Dispatcher, Goto

------------------------------------------------------------------------------
(* A client is with one server at most *)

\* Leaving a queue, and ending, disturb nothing.
LEMMA FewerQueued ==
    ASSUME DispatchTypeOK, Owned,
           \A s \in Servers : queue'[s] \subseteq queue[s] /\ srv'[s].client = srv[s].client,
           \A c \in Clients : cli'[c].pc = "new" => cli[c].pc = "new"
    PROVE  Owned'
<1>1. \A s \in Servers : queue[s] \subseteq Clients
  BY DEF DispatchTypeOK
<1>2. \A c \in Clients : cli'[c].pc = "new" =>
          \A s \in Servers : c \notin queue'[s] /\ srv'[s].client # c
  BY DEF Owned
<1>3. \A s, t \in Servers : \A c \in queue'[s] : srv'[t].client # c /\ (c \in queue'[t] => s = t)
  BY DEF Owned
<1>4. \A s, t \in Servers : srv'[s].client = srv'[t].client /\ srv'[s].client # None => s = t
  BY DEF Owned
<1>5. QED
  BY <1>2, <1>3, <1>4 DEF Owned

LEMMA OwnedServe ==
    ASSUME DispatchTypeOK, Owned, NEW s \in Servers, Start(s) \/ Serve(s) \/ Kill(s) \/ RunChild(s)
    PROVE  Owned'
<1>1. CASE Accept(s)
  <2>1. PICK c \in queue[s] : /\ srv' = [srv EXCEPT ![s].pc = "receive", ![s].client = c]
                              /\ queue' = [queue EXCEPT ![s] = queue[s] \ {c}]
    BY <1>1 DEF Accept
  <2>2. c \in Clients /\ cli' = cli
    BY <1>1, <2>1 DEF Accept, DispatchTypeOK
  <2>3. /\ srv'[s].client = c /\ queue'[s] = queue[s] \ {c}
        /\ \A t \in Servers \ {s} : srv'[t].client = srv[t].client /\ queue'[t] = queue[t]
    BY <2>1 DEF DispatchTypeOK, Dispatcher
  <2>4. /\ \A t \in Servers \ {s} : c \notin queue[t]
        /\ \A t \in Servers : srv[t].client # c
        /\ cli[c].pc # "new"
    BY <2>1, <2>2 DEF Owned
  <2>5. \A t \in Servers : queue'[t] \subseteq queue[t] /\ c \notin queue'[t]
    BY <2>3, <2>4
  <2>6. \A d \in Clients : cli'[d].pc = "new" =>
            \A t \in Servers : d \notin queue'[t] /\ srv'[t].client # d
    BY <2>2, <2>3, <2>4, <2>5 DEF Owned
  <2>7. \A t, u \in Servers : \A d \in queue'[t] :
            srv'[u].client # d /\ (d \in queue'[u] => t = u)
    BY <2>3, <2>5 DEF Owned
  <2>8. \A t, u \in Servers : srv'[t].client = srv'[u].client /\ srv'[t].client # None => t = u
    BY <2>3, <2>4 DEF Owned
  <2>9. QED
    BY <2>6, <2>7, <2>8 DEF Owned
<1>2. CASE ~Accept(s)
  <2>1. \A t \in Servers : queue'[t] \subseteq queue[t]
    <3>1. queue' = queue \/ Reset(s)
      BY <1>2 DEF Start, Serve, Look, Unlink, Bind, Listen, Receive, Plan, Fork, Inspect, Release,
                  Wait, Respond, Close, RemoveSocket, Kill, RunChild, ChildInherit, ChildRead,
                  ChildPin, ChildExit, Ends
    <3>2. QED
      BY <3>1 DEF Reset, DispatchTypeOK
  <2>2. \A t \in Servers : srv'[t].client = srv[t].client
    <3>1. CASE srv' = srv
      BY <3>1
    <3>2. CASE \E step : Goto(s, step)
      BY <3>2 DEF Goto, DispatchTypeOK, Dispatcher
    <3>3. CASE Plan(s)
      BY <3>3 DEF Plan, Goto, DispatchTypeOK, Dispatcher
    <3>4. CASE Inspect(s) \/ Wait(s) \/ Kill(s)
      BY <3>4 DEF Inspect, Wait, Kill, DispatchTypeOK, Dispatcher
    <3>5. QED
      BY <1>2, <3>1, <3>2, <3>3, <3>4
         DEF Start, Serve, Look, Unlink, Bind, Listen, Receive, Fork, Release, Respond, Close,
             RemoveSocket, RunChild, ChildInherit, ChildRead, ChildPin, ChildExit
  <2>3. \A c \in Clients : cli'[c].pc = "new" => cli[c].pc = "new"
    <3>1. CASE Respond(s)
      BY <3>1 DEF Respond, DispatchTypeOK, Client
    <3>2. CASE Reset(s)
      BY <3>2 DEF Reset, DispatchTypeOK, Client
    <3>3. CASE cli' = cli
      BY <3>3
    <3>4. QED
      BY <1>2, <3>1, <3>2, <3>3
         DEF Start, Serve, Look, Unlink, Bind, Listen, Receive, Plan, Fork, Inspect, Release, Wait,
             Close, RemoveSocket, Kill, RunChild, ChildInherit, ChildRead, ChildPin, ChildExit, Ends
  <2>4. QED
    BY <2>1, <2>2, <2>3, FewerQueued
<1>3. QED
  BY <1>1, <1>2

LEMMA OwnedClient ==
    ASSUME DispatchTypeOK, Owned, NEW c \in Clients, Connect(c) \/ Send(c) \/ ClientKilled(c)
    PROVE  Owned'
<1>1. srv' = srv /\ \A d \in Clients : cli'[d].pc = "new" => cli[d].pc = "new" /\ d # c
  BY DEF Connect, Send, ClientKilled, DispatchTypeOK, Client
<1>2. CASE queue' = queue
  BY <1>1, <1>2, FewerQueued
<1>3. CASE queue' # queue
  <2>1. path \in Servers /\ cli[c].pc = "new" /\ queue' = [queue EXCEPT ![path] = @ \cup {c}]
    BY <1>3 DEF Connect, Send, ClientKilled, Listened, DispatchTypeOK
  <2>2. /\ queue'[path] = queue[path] \cup {c}
        /\ \A t \in Servers \ {path} : queue'[t] = queue[t]
    BY <2>1 DEF DispatchTypeOK
  <2>3. \A t \in Servers : c \notin queue[t] /\ srv[t].client # c
    BY <2>1 DEF Owned
  <2>4. \A d \in Clients : cli'[d].pc = "new" =>
            \A t \in Servers : d \notin queue'[t] /\ srv'[t].client # d
    BY <1>1, <2>2 DEF Owned
  <2>5. \A t, u \in Servers : \A d \in queue'[t] :
            srv'[u].client # d /\ (d \in queue'[u] => t = u)
    BY <1>1, <2>1, <2>2, <2>3 DEF Owned
  <2>6. QED
    BY <1>1, <2>4, <2>5 DEF Owned
<1>4. QED
  BY <1>2, <1>3

LEMMA OwnedStep ==
    ASSUME DispatchTypeOK, Owned, [DispatchNext]_dispatchVars
    PROVE  Owned'
<1>1. CASE UNCHANGED dispatchVars
  BY <1>1 DEF dispatchVars, Owned
<1>2. QED
  BY <1>1, OwnedServe, OwnedClient DEF DispatchNext

------------------------------------------------------------------------------
(* The server, its child and the pipe *)

\* The fields that a step of the server gives it, of those that the invariant speaks of.
LEMMA OrderedServe ==
    ASSUME DispatchTypeOK, PlansRight, NEW s \in Servers, Start(s) \/ Serve(s) \/ Kill(s),
           Entitled(s), InStep(s), Answer(s), \A c \in Clients : cli'[c].sound = cli[c].sound
    PROVE  Entitled(s)' /\ InStep(s)' /\ Answer(s)'
<1> USE DirectDispatchAssumption
<1>0. srv[s] \in Dispatcher /\ srv[s].client \in Clients \cup {None}
  BY DEF DispatchTypeOK, Dispatcher
<1>1. CASE Start(s) \/ Look(s) \/ Unlink(s) \/ Bind(s) \/ Listen(s)
  <2>1. PICK step \in {"look", "bind", "unlink", "dead", "listen", "close", "accept"} :
            Goto(s, step)
    BY <1>1 DEF Start, Look, Unlink, Bind, Listen
  <2>2. /\ srv'[s].pc = step /\ child' = child /\ pipe' = pipe /\ srv[s].pc \in Early
    BY <1>1, <2>1, GotoSays DEF Start, Look, Unlink, Bind, Listen, At, Early
  <2>3. QED
    BY <2>1, <2>2 DEF Entitled, InStep, Answer, Early, Serving
<1>2. CASE Accept(s)
  <2>1. PICK c \in queue[s] : srv' = [srv EXCEPT ![s].pc = "receive", ![s].client = c]
    BY <1>2 DEF Accept
  <2>2. /\ srv'[s].pc = "receive" /\ srv'[s].client = c /\ c \in Clients
        /\ child' = child /\ pipe' = pipe /\ srv[s].pc = "accept"
    BY <1>0, <1>2, <2>1 DEF Accept, At, DispatchTypeOK, Dispatcher
  <2>3. QED
    BY <2>2 DEF Entitled, InStep, Answer, Early, Serving
<1>3. CASE Receive(s)
  <2>1. PICK step \in {"plan", "close"} :
            Goto(s, step) /\ (step = "plan" => cli[srv[s].client].sound)
    BY <1>3 DEF Receive
  <2>2. /\ srv'[s].pc = step /\ child' = child /\ pipe' = pipe /\ srv[s].pc = "receive"
        /\ srv'[s].client = srv[s].client
    BY <1>3, <2>1, GotoSays DEF Receive, At
  <2>3. QED
    BY <1>0, <2>1, <2>2 DEF Entitled, InStep, Answer, Early, Serving
<1>4. CASE Plan(s)
  <2>1. /\ srv'[s].pc = "close" \/ (srv'[s].pc = "fork" /\ srv'[s].plan = "selected")
        /\ child' = child /\ pipe' = pipe /\ srv[s].pc = "plan"
        /\ srv'[s].client = srv[s].client
    BY <1>0, <1>4, OutcomeSelected DEF Plan, Goto, At, DispatchTypeOK, Dispatcher
  <2>2. QED
    BY <1>0, <2>1 DEF Entitled, InStep, Answer, Early, Serving
<1>5. CASE Fork(s)
  <2>1. /\ srv'[s].pc = "inspect" /\ srv[s].pc = "fork"
        /\ srv'[s].client = srv[s].client /\ srv'[s].plan = srv[s].plan
    BY <1>5, GotoSays DEF Fork, At
  <2>2. child'[s].pc = "inherit" /\ pipe'[s] = {"server", "child"}
    BY <1>5 DEF Fork, DispatchTypeOK
  <2>3. QED
    BY <1>0, <2>1, <2>2 DEF Entitled, InStep, Answer, Early, Serving
<1>6. CASE Inspect(s)
  <2>1. /\ srv'[s].pc = "release" /\ srv[s].pc = "inspect" /\ srv'[s].tracer \in Tracers
        /\ srv'[s].client = srv[s].client /\ srv'[s].plan = srv[s].plan
        /\ child' = child /\ pipe' = pipe
    BY <1>0, <1>6 DEF Inspect, At, DispatchTypeOK, Dispatcher
  <2>2. QED
    BY <1>0, <2>1 DEF Entitled, InStep, Answer, Early, Serving
<1>7. CASE Release(s)
  <2>1. /\ srv'[s].pc = "wait" /\ srv[s].pc = "release" /\ srv'[s].tracer = srv[s].tracer
        /\ srv'[s].client = srv[s].client /\ srv'[s].plan = srv[s].plan /\ child' = child
    BY <1>7, GotoSays DEF Release, At
  <2>2. pipe'[s] = {"released"}
    BY <1>7 DEF Release, DispatchTypeOK
  <2>3. QED
    BY <1>0, <2>1, <2>2 DEF Entitled, InStep, Answer, Early, Serving
<1>8. CASE Wait(s)
  <2>1. /\ srv'[s].pc = "respond" /\ srv[s].pc = "wait" /\ srv'[s].tracer = srv[s].tracer
        /\ srv'[s].client = srv[s].client /\ srv'[s].plan = srv[s].plan
        /\ child' = child /\ pipe' = pipe /\ child[s].pc = "gone"
        /\ srv'[s].status = IF srv[s].tracer = "untraced" THEN child[s].code ELSE 125
    BY <1>0, <1>8 DEF Wait, At, DispatchTypeOK, Dispatcher
  <2>2. Entitled(s)' /\ InStep(s)'
    BY <1>0, <2>1 DEF Entitled, InStep, Early, Serving, ChildTells
  <2>3. Answer(s)'
    BY <2>1 DEF InStep, Answer, ChildTells
  <2>4. QED
    BY <2>2, <2>3
<1>9. CASE Respond(s) \/ Close(s) \/ RemoveSocket(s)
  <2>1. PICK step \in {"close", "remove", "dead"} : Goto(s, step)
    BY <1>9 DEF Respond, Close, RemoveSocket
  <2>2. /\ srv'[s].pc = step /\ srv[s].pc \in {"respond", "close", "remove"}
        /\ srv'[s].tracer = srv[s].tracer
        /\ srv'[s].client = srv[s].client /\ srv'[s].plan = srv[s].plan
        /\ child' = child /\ pipe' = pipe
    BY <1>9, <2>1, GotoSays DEF Respond, Close, RemoveSocket, At
  <2>3. Entitled(s)' /\ Answer(s)'
    BY <1>0, <2>1, <2>2 DEF Entitled, Answer, Serving
  <2>4. InStep(s)'
    BY <2>1, <2>2 DEF InStep, Early, ChildTells
  <2>5. QED
    BY <2>3, <2>4
<1>10. CASE Kill(s)
  <2>1. /\ srv'[s].pc = "dead" /\ srv'[s].tracer = srv[s].tracer
        /\ srv'[s].client = srv[s].client /\ srv'[s].plan = srv[s].plan /\ child' = child
        /\ pipe'[s] = pipe[s] \ {"server"}
    BY <1>0, <1>10 DEF Kill, DispatchTypeOK, Dispatcher
  <2>2. Entitled(s)' /\ Answer(s)'
    BY <1>0, <2>1 DEF Entitled, Answer, Serving
  <2>3. InStep(s)'
    BY <2>1 DEF InStep, Early
  <2>4. QED
    BY <2>2, <2>3
<1>11. QED
  BY <1>1, <1>2, <1>3, <1>4, <1>5, <1>6, <1>7, <1>8, <1>9, <1>10 DEF Serve

LEMMA OrderedChild ==
    ASSUME DispatchTypeOK, TablesRight, NEW s \in Servers, RunChild(s),
           Entitled(s), InStep(s), Answer(s), \A c \in Clients : cli'[c].sound = cli[c].sound
    PROVE  Entitled(s)' /\ InStep(s)' /\ Answer(s)'
<1>0. /\ srv[s].client \in Clients \cup {None}
      /\ srv[s].pc \in ServerSteps /\ child[s] \in Child /\ srv' = srv
  BY DEF DispatchTypeOK, Dispatcher, RunChild, ChildInherit, ChildRead, ChildPin, ChildExit
<1>1. child[s].pc \notin {"none", "gone"}
  BY DEF RunChild, ChildInherit, ChildRead, ChildPin, ChildExit
<1>2. Entitled(s)'
  BY <1>0, <1>1 DEF Entitled
<1>3. Answer(s)'
  BY <1>0, <1>1 DEF InStep, Answer
<1>4. srv[s].pc \in {"inspect", "release", "wait", "dead"}
  BY <1>0, <1>1 DEF InStep, Early, ServerSteps
<1>5. /\ [child[s] EXCEPT !.pc = "gone", !.code = 125].pc = "gone"
      /\ [child[s] EXCEPT !.pc = "gone", !.code = 125].code = 125
      /\ [child[s] EXCEPT !.pc = "gone"].pc = "gone"
      /\ [child[s] EXCEPT !.pc = "gone", !.code = 125].table = child[s].table
      /\ [child[s] EXCEPT !.pc = "running"].pc = "running"
      /\ [child[s] EXCEPT !.pc = "running"].table = child[s].table
      /\ [child[s] EXCEPT !.pc = "pin", !.table = "asked"].pc = "pin"
      /\ [child[s] EXCEPT !.pc = "pin", !.table = "asked"].table = "asked"
  BY <1>0 DEF Child
<1>6. InStep(s)'
  <2>1. CASE ChildInherit(s)
    <3>2. child'[s].pc = "read" /\ pipe'[s] = pipe[s] \ {"child"} /\ child[s].pc = "inherit"
      BY <1>0, <2>1 DEF ChildInherit, DispatchTypeOK, Child
    <3>3. QED
      BY <1>0, <1>4, <3>2 DEF InStep, Early
  <2>2. CASE ChildRead(s)
    <3>1. /\ pipe' = pipe
          /\ \/ /\ "released" \in pipe[s]
                /\ \/ child'[s] = [child[s] EXCEPT !.pc = "gone", !.code = 125]
                   \/ child'[s] = [child[s] EXCEPT !.pc = "pin", !.table = "asked"]
             \/ pipe[s] = {} /\ child'[s] = [child[s] EXCEPT !.pc = "gone"]
      BY <2>2, PassingAsked DEF ChildRead, DispatchTypeOK
    <3>2. /\ pipe' = pipe
          /\ \/ "released" \in pipe[s] /\ child'[s].pc = "gone" /\ child'[s].code = 125
             \/ "released" \in pipe[s] /\ child'[s].pc = "pin" /\ child'[s].table = "asked"
             \/ pipe[s] = {} /\ child'[s].pc = "gone"
      BY <1>5, <3>1
    <3>3. child'[s].code = 125 => ChildTells(s)'
      BY DEF ChildTells
    <3>4. QED
      BY <1>0, <1>4, <3>2, <3>3 DEF InStep, Early
  <2>3. CASE ChildPin(s)
    <3>1. /\ pipe' = pipe /\ child[s].pc = "pin"
          /\ \/ child'[s] = [child[s] EXCEPT !.pc = "running"]
             \/ child'[s] = [child[s] EXCEPT !.pc = "gone", !.code = 125]
      BY <2>3 DEF ChildPin, DispatchTypeOK
    <3>2. /\ pipe' = pipe /\ child[s].pc = "pin" /\ child'[s].table = child[s].table
          /\ \/ child'[s].pc = "running"
             \/ child'[s].pc = "gone" /\ child'[s].code = 125
      BY <1>5, <3>1
    <3>3. child'[s].code = 125 => ChildTells(s)'
      BY DEF ChildTells
    <3>4. QED
      BY <1>0, <1>4, <3>2, <3>3 DEF InStep, Early
  <2>4. CASE ChildExit(s)
    <3>2. /\ pipe' = pipe /\ child[s].pc = "running" /\ child'[s].table = child[s].table
          /\ child'[s].pc = "gone" /\ (child[s].table = "asked" => ChildTells(s)')
      BY <1>0, <2>4 DEF ChildExit, DispatchTypeOK, Child, ChildTells
    <3>3. QED
      BY <1>0, <1>4, <3>2 DEF InStep, Early
  <2>5. QED
    BY <2>1, <2>2, <2>3, <2>4 DEF RunChild
<1>7. QED
  BY <1>2, <1>3, <1>6

------------------------------------------------------------------------------
(* What a client is told *)

\* A client that has been told of success is not told otherwise, and what it was told of stays.
LEMMA PassStays ==
    ASSUME PassIsReal, \A c \in Clients : cli'[c].sound = cli[c].sound,
           \A c \in Clients : cli'[c].result = 0 => cli[c].result = 0,
           \A s \in Servers : child[s].pc = "gone" =>
               /\ child'[s] = child[s]
               /\ srv'[s].client = srv[s].client /\ srv'[s].plan = srv[s].plan
               /\ srv'[s].tracer = srv[s].tracer
    PROVE  PassIsReal'
<1> SUFFICES ASSUME NEW c \in Clients, cli'[c].result = 0
             PROVE  /\ cli'[c].sound
                    /\ \E s \in Servers :
                          /\ srv'[s].client = c /\ srv'[s].plan = "selected"
                          /\ srv'[s].tracer = "untraced"
                          /\ child'[s].pc = "gone" /\ child'[s].code = 0
                          /\ child'[s].table = "asked"
  BY DEF PassIsReal
<1>1. cli[c].sound
  BY DEF PassIsReal
<1>2. PICK s \in Servers :
          /\ srv[s].client = c /\ srv[s].plan = "selected" /\ srv[s].tracer = "untraced"
          /\ child[s].pc = "gone" /\ child[s].code = 0 /\ child[s].table = "asked"
  BY DEF PassIsReal
<1>3. QED
  BY <1>1, <1>2

\* The end of a connection tells nobody of success.
LEMMA ResetTells ==
    ASSUME DispatchTypeOK, NEW s \in Servers, Reset(s)
    PROVE  \A c \in Clients : cli'[c].result = 0 => cli[c].result = 0
<1> SUFFICES ASSUME NEW c \in Clients PROVE cli'[c].result = 125 \/ cli'[c] = cli[c]
  OBVIOUS
<1>1. [cli[c] EXCEPT !.pc = "done", !.result = 125].result = 125
  BY DEF DispatchTypeOK, Client
<1>2. QED
  BY <1>1 DEF Reset

\* Servers and children alone go on without telling a client anything, but for Respond.
LEMMA PassServe ==
    ASSUME DispatchTypeOK, PlansRight, DispatchInv, NEW s \in Servers,
           Start(s) \/ (Serve(s) /\ ~Respond(s)) \/ Kill(s) \/ RunChild(s),
           \A c \in Clients : cli'[c].sound = cli[c].sound
    PROVE  PassIsReal'
<1>1. \A c \in Clients : cli'[c].result = 0 => cli[c].result = 0
  <2>1. cli' = cli \/ Reset(s)
    BY DEF Start, Serve, Look, Unlink, Bind, Listen, Accept, Receive, Plan, Fork, Inspect, Release,
           Wait, Close, RemoveSocket, Kill, RunChild, ChildInherit, ChildRead, ChildPin,
           ChildExit, Ends
  <2>2. QED
    BY <2>1, ResetTells
<1>2. child[s].pc = "gone" =>
          /\ child'[s] = child[s] /\ srv'[s].client = srv[s].client
          /\ srv'[s].plan = srv[s].plan /\ srv'[s].tracer = srv[s].tracer
  <2> SUFFICES ASSUME child[s].pc = "gone"
               PROVE  /\ child'[s] = child[s] /\ srv'[s].client = srv[s].client
                      /\ srv'[s].plan = srv[s].plan /\ srv'[s].tracer = srv[s].tracer
    OBVIOUS
  <2>1. srv[s].pc \notin Early \cup {"inspect", "release"}
    BY DEF DispatchInv, InStep
  <2>2. Wait(s) \/ Close(s) \/ RemoveSocket(s) \/ Kill(s)
    BY <2>1 DEF Early, At, Start, Serve, Look, Unlink, Bind, Listen, Accept, Receive, Plan, Fork,
                Inspect, Release, RunChild, ChildInherit, ChildRead, ChildPin, ChildExit
  <2>3. child' = child
    BY <2>2 DEF Wait, Close, RemoveSocket, Kill
  <2>4. CASE Wait(s) \/ Kill(s)
    BY <2>3, <2>4 DEF Wait, Kill, DispatchTypeOK, Dispatcher
  <2>5. CASE Close(s) \/ RemoveSocket(s)
    BY <2>3, <2>5, GotoSays DEF Close, RemoveSocket
  <2>6. QED
    BY <2>2, <2>4, <2>5
<1>3. \A t \in Servers : child[t].pc = "gone" =>
          /\ child'[t] = child[t] /\ srv'[t].client = srv[t].client
          /\ srv'[t].plan = srv[t].plan /\ srv'[t].tracer = srv[t].tracer
  BY <1>2, OthersKept
<1>4. QED
  BY <1>1, <1>3, PassStays DEF DispatchInv

\* The answer is the child's, and the child has had what this client asked for.
LEMMA PassRespond ==
    ASSUME DispatchTypeOK, DispatchInv, NEW s \in Servers, Respond(s),
           \A c \in Clients : cli'[c].sound = cli[c].sound
    PROVE  PassIsReal'
<1> DEFINE d == srv[s].client
<1>1. Entitled(s) /\ InStep(s) /\ Answer(s)
  BY DEF DispatchInv
<1>2. srv[s].pc = "respond" /\ child' = child
  BY DEF Respond, At
<1>3. /\ srv[s].client # None /\ cli[d].sound /\ srv[s].plan = "selected"
      /\ child[s].pc = "gone"
  BY <1>1, <1>2 DEF Entitled, InStep, Serving
<1>4. /\ \A t \in Servers : /\ srv'[t].client = srv[t].client /\ srv'[t].plan = srv[t].plan
                            /\ srv'[t].tracer = srv[t].tracer
  BY GotoSays, OthersKept DEF Respond, Serve
<1>5. CASE cli' = cli
  <2>1. \A c \in Clients : cli'[c].result = 0 => cli[c].result = 0
    BY <1>5
  <2>2. QED
    BY <1>2, <1>4, <2>1, PassStays DEF DispatchInv
<1>6. CASE cli' # cli
  <2>1. d \in Clients
    BY <1>3 DEF DispatchTypeOK, Dispatcher
  <2>2. cli'[d] = [cli[d] EXCEPT !.pc = "done", !.result = srv[s].status]
    BY <1>6, <2>1 DEF Respond, DispatchTypeOK
  <2>3. cli'[d].result = srv[s].status
    BY <2>1, <2>2 DEF DispatchTypeOK, Client
  <2>4. \A c \in Clients \ {d} : cli'[c] = cli[c]
    BY <1>6, <2>1 DEF Respond, DispatchTypeOK
  <2>5. ASSUME NEW c \in Clients, cli'[c].result = 0
        PROVE  /\ cli'[c].sound
               /\ \E t \in Servers :
                     /\ srv'[t].client = c /\ srv'[t].plan = "selected"
                     /\ srv'[t].tracer = "untraced"
                     /\ child'[t].pc = "gone" /\ child'[t].code = 0
                     /\ child'[t].table = "asked"
    <3>1. CASE c = d
      <4>1. srv[s].status = 0
        BY <2>3, <2>5, <3>1
      <4>2. srv[s].tracer = "untraced" /\ child[s].code = 0 /\ child[s].table = "asked"
        BY <1>1, <1>2, <4>1 DEF Answer
      <4>3. QED
        BY <1>2, <1>3, <1>4, <3>1, <4>2
    <3>2. CASE c # d
      <4>1. cli[c].result = 0
        BY <2>4, <2>5, <3>2
      <4>2. /\ cli[c].sound
            /\ \E t \in Servers :
                  /\ srv[t].client = c /\ srv[t].plan = "selected" /\ srv[t].tracer = "untraced"
                  /\ child[t].pc = "gone" /\ child[t].code = 0 /\ child[t].table = "asked"
        BY <4>1 DEF DispatchInv, PassIsReal
      <4>3. QED
        BY <1>2, <1>4, <4>2
    <3>3. QED
      BY <3>1, <3>2
  <2>6. QED
    BY <2>5 DEF PassIsReal
<1>7. QED
  BY <1>5, <1>6

LEMMA PassClient ==
    ASSUME DispatchTypeOK, DispatchInv, NEW c \in Clients, Connect(c) \/ Send(c) \/ ClientKilled(c),
           \A d \in Clients : cli'[d].sound = cli[d].sound
    PROVE  PassIsReal'
<1>1. \A d \in Clients : cli'[d].result = 0 => cli[d].result = 0
  <2>1. /\ [cli[c] EXCEPT !.pc = "done", !.result = 125].result = 125
        /\ [cli[c] EXCEPT !.pc = "done", !.result = None].result = None
        /\ \A pc \in {"connected", "sent"} : [cli[c] EXCEPT !.pc = pc].result = cli[c].result
    BY DEF DispatchTypeOK, Client
  <2>2. None # 0
    BY DirectDispatchAssumption DEF ExitStatuses
  <2>3. cli'[c].result \in {125, None, cli[c].result}
    BY <2>1 DEF Connect, Send, ClientKilled, DispatchTypeOK
  <2>4. \A d \in Clients \ {c} : cli'[d] = cli[d]
    BY DEF Connect, Send, ClientKilled, DispatchTypeOK
  <2>5. QED
    BY <2>2, <2>3, <2>4
<1>2. child' = child /\ srv' = srv
  BY DEF Connect, Send, ClientKilled
<1>3. QED
  BY <1>1, <1>2, PassStays DEF DispatchInv

------------------------------------------------------------------------------
(* The invariant, and the theorem *)

LEMMA DispatchInvStarts == DispatchInit => DispatchInv
<1> SUFFICES ASSUME DispatchInit PROVE DispatchInv
  OBVIOUS
<1>1. \A c \in Clients : cli[c].pc = "new" /\ cli[c].result = None
  BY DEF DispatchInit
<1>2. None # 0
  BY DirectDispatchAssumption DEF ExitStatuses
<1>3. PassIsReal
  BY <1>1, <1>2 DEF PassIsReal
<1>4. \A s \in Servers : /\ srv[s].pc = "new" /\ srv[s].client = None
                         /\ queue[s] = {} /\ child[s].pc = "none" /\ pipe[s] = {}
  BY DEF DispatchInit
<1>5. Owned
  BY <1>4, DirectDispatchAssumption DEF Owned
<1>6. \A s \in Servers : Entitled(s) /\ InStep(s) /\ Answer(s)
  BY <1>4 DEF Entitled, InStep, Answer, Early, Serving
<1>7. QED
  BY <1>3, <1>5, <1>6 DEF DispatchInv

LEMMA DispatchInvStep ==
    ASSUME PlansRight, TablesRight, DispatchTypeOK, DispatchInv, [DispatchNext]_dispatchVars
    PROVE  DispatchInv'
<1>1. \A c \in Clients : cli'[c].sound = cli[c].sound
  BY SoundKept
<1>2. Owned'
  BY OwnedStep DEF DispatchInv
<1>3. \A t \in Servers : Entitled(t) /\ InStep(t) /\ Answer(t)
  BY DEF DispatchInv
<1>4. CASE UNCHANGED <<srv, child, pipe>> /\ PassIsReal'
  <2>1. \A t \in Servers : Entitled(t)' /\ InStep(t)' /\ Answer(t)'
    BY <1>1, <1>3, <1>4, StaysInOrder
  <2>2. QED
    BY <1>2, <1>4, <2>1 DEF DispatchInv
<1>5. CASE UNCHANGED dispatchVars
  BY <1>4, <1>5 DEF dispatchVars, DispatchInv, PassIsReal
<1>6. ASSUME NEW c \in Clients, Connect(c) \/ Send(c) \/ ClientKilled(c)
      PROVE  DispatchInv'
  BY <1>1, <1>4, <1>6, PassClient DEF Connect, Send, ClientKilled
<1>7. ASSUME NEW s \in Servers, Start(s) \/ Serve(s) \/ Kill(s) \/ RunChild(s)
      PROVE  DispatchInv'
  <2>1. \A t \in Servers \ {s} : Entitled(t)' /\ InStep(t)' /\ Answer(t)'
    BY <1>1, <1>3, <1>7, OthersKept, StaysInOrder
  <2>2. Entitled(s)' /\ InStep(s)' /\ Answer(s)'
    BY <1>1, <1>3, <1>7, OrderedServe, OrderedChild
  <2>3. PassIsReal'
    BY <1>1, <1>7, PassServe, PassRespond
  <2>4. QED
    BY <1>2, <2>1, <2>2, <2>3 DEF DispatchInv
<1>8. QED
  BY <1>5, <1>6, <1>7 DEF DispatchNext

\* While a payload runs, it is that of its server's own client.
LEMMA RunsOwn ==
    ASSUME DispatchInv
    PROVE  RunsForItsClient
<1> SUFFICES ASSUME NEW s \in Servers, child[s].pc = "running"
             PROVE  /\ srv[s].client # None /\ cli[srv[s].client].sound
                    /\ srv[s].tracer # None /\ child[s].table = "asked"
                    /\ srv[s].plan = "selected"
                    /\ \A other \in Servers \ {s} : srv[other].client # srv[s].client
  BY DEF RunsForItsClient
<1>1. srv[s].client # None /\ cli[srv[s].client].sound /\ srv[s].plan = "selected"
  BY DEF DispatchInv, Entitled
<1>2. srv[s].tracer # None /\ child[s].table = "asked"
  BY DEF DispatchInv, InStep
<1>3. \A other \in Servers \ {s} : srv[other].client # srv[s].client
  BY <1>1 DEF DispatchInv, Owned
<1>4. QED
  BY <1>1, <1>2, <1>3

\* A client is told of success only when its own payload ended with success, untraced, on the
\* descriptors it asked for and with the operator's settings (AsSelected of DispatchPlan, whose
\* one exception is Overruled: the switch of the profile smc-full in the Tomb Raider modes, which
\* another setting decides); and a payload that runs is that of one client with a valid request.
\* This holds for any number of servers and clients, however they interleave and whichever of them
\* are killed, if the plans and the tables of descriptors, which are functions of one request, are
\* right.
THEOREM ClientIsServedRight ==
    ASSUME PlansRight, TablesRight
    PROVE  DispatchSpec => []ServedRight
<1>1. DispatchInit => DispatchTypeOK /\ DispatchInv
  BY DispatchInitType, DispatchInvStarts
<1>2. DispatchTypeOK /\ DispatchInv /\ [DispatchNext]_dispatchVars => (DispatchTypeOK /\
     DispatchInv)'
  BY DispatchTypeStep, DispatchInvStep
<1>3. DispatchTypeOK /\ DispatchInv => ServedRight
  BY RunsOwn DEF ServedRight, DispatchInv
<1>4. QED
  BY <1>1, <1>2, <1>3, PTL DEF DispatchSpec

==============================================================================
