-------------------------- MODULE SteamSessionProofs --------------------------
(***************************************************************************)
(* The safety properties of SteamSession for any finite set of starts and  *)
(* any number of launches and of processes that end by themselves.  What   *)
(* is acknowledged follows from LogInv, that a request is played once from *)
(* AskInv, and what a stop leaves from StopInv; all rest on the types and  *)
(* on what a launch may be.                                                *)
(***************************************************************************)
EXTENDS SteamSession, FiniteSetTheorems, TLAPS

LEMMA Numbers ==
    MaxLaunches \in Nat /\ 0 \in 0..MaxLaunches /\ 0 \notin Launches
    /\ Launches \subseteq 0..MaxLaunches
BY SteamSessionAssumption DEF Launches

\* Nothing runs of a launch that has not been asked for or whose shell has not got there; one
\* Steam is the session's; a game is its.
LaunchInv ==
    /\ \A l \in Launches : launch[l].shell \in {"none", "script"} => launch[l].chain = "none"
    /\ \A k, l \in Launches : launch[k].chain = "steam" /\ launch[l].chain = "steam" => k = l
    /\ \A l \in Launches : launch[l].shell = "none" => launch[l].request = None

\* The steps behind the start's look at the log.
Looked == {"settle", "forward", "forwarded", "launchers", "appear", "answer", "accepted"}

\* What a game was started by has been the session's Steam; what is acknowledged has been
\* Steam.
LogInv ==
    /\ Len(log) >= 1
    /\ \A i \in 2..Len(log) : log[i] \in Launches /\ launch[log[i]].chain \in {"steam", "gone"}
    /\ \A s \in Starts : start[s].pc \in Looked => start[s].offset >= 1
    /\ \A s \in Starts : At(s, "accepted") =>
          /\ start[s].steam \in Launches
          /\ launch[start[s].steam].chain \in {"steam", "second", "gone"}
    /\ AcceptedIsOwn

\* A start's request is not sent yet; is on its way; may still start a game.
Unsent(s) ==
    \/ start[s].pc \in {"new", "xready", "unlink", "server", "xwait", "xsettle", "display",
                        "discover", "offset", "many", "launchers", "forward"}
    \/ At(s, "settle") /\ start[s].launch = 0
Carried(s) == s \in inbox \/ \E l \in Launches : launch[l].request = s
Open == {s \in Starts : start[s].app /\ (Unsent(s) \/ Carried(s))}
Apps == {s \in Starts : start[s].app}

\* A request is in one place at most.
PlaceInv ==
    /\ \A s \in Starts : Unsent(s) => ~Carried(s)
    /\ \A s \in Starts : Carried(s) => start[s].app
    /\ \A s \in Starts : At(s, "appear") => start[s].launch # 0
    /\ \A l \in Launches : launch[l].request \in Starts => launch[l].request \notin inbox
    /\ \A k, l \in Launches :
          launch[k].request \in Starts /\ launch[k].request = launch[l].request => k = l

AskInv == PlaceInv /\ Len(log) + Cardinality(Open) <= 1 + Cardinality(Apps)

\* What a stop that no start has crossed has ended so far.
StopInv ==
    stop.alone =>
        /\ stop.pc \in {"kill", "killall", "xterm", "xkill", "socket", "stopped"} =>
              Shells = {} /\ \A l \in Launches : launch[l].chain = "boot" => l \in stop.booting
        /\ stop.pc \in {"killall", "xterm", "xkill", "socket", "stopped"} =>
              \A l \in Steams : l \in stop.booting
        /\ stop.pc \in {"socket", "stopped"} => Found = {}
        /\ stop.pc = "stopped" => socket = None

SessionInv == TypeOK /\ LaunchInv /\ LogInv /\ AskInv /\ StopInv

------------------------------------------------------------------------------
(* The starts                                                               *)

\* What no step of a start changes, and what it does to the stop.
Beside(s) ==
    /\ start' \in [Starts -> Start] /\ stop' \in Stop
    /\ \A d \in Starts : start'[d].app = start[d].app /\ (d # s => start'[d] = start[d])
    /\ stop'.pc = stop.pc /\ stop'.booting = stop.booting
    /\ stop'.alone => stop.alone /\ stop.pc = "new"
    /\ UNCHANGED <<game, log, ends>>

LEMMA SeenType ==
    ASSUME stop \in Stop, Seen
    PROVE  /\ stop' \in Stop /\ stop'.pc = stop.pc /\ stop'.booting = stop.booting
           /\ stop'.alone => stop.alone /\ stop.pc = "new"
BY DEF Seen, Stop

\* A start that goes on to another step.
LEMMA GotoStep ==
    ASSUME TypeOK, NEW s \in Starts, NEW step \in StartSteps \cup Ended, Goto(s, step),
           UNCHANGED <<game, log, ends>>
    PROVE  /\ Beside(s) /\ start'[s].pc = step
           /\ step \notin {"ready", "failed"} =>
                 /\ start'[s].steam = start[s].steam /\ start'[s].launch = start[s].launch
                 /\ start'[s].offset = start[s].offset
<1>1. start \in [Starts -> Start] /\ start[s] \in Start /\ stop \in Stop
  BY DEF TypeOK
<1>2. Seen
  BY DEF Goto
<1>3. CASE step \in {"ready", "failed"}
  <2> DEFINE r == [start[s] EXCEPT !.pc = step, !.steam = 0, !.launch = 0, !.offset = 0]
  <2>0. r.app = start[s].app /\ r.pc = step
    BY <1>1 DEF Start
  <2>1. r \in Start
    BY <1>1, Numbers DEF Start
  <2>2. start' = [start EXCEPT ![s] = r]
    BY <1>3 DEF Goto
  <2> HIDE DEF r
  <2>3. QED
    BY <1>1, <1>2, <1>3, <2>0, <2>1, <2>2, SeenType DEF Beside
<1>4. CASE step \notin {"ready", "failed"}
  <2> DEFINE r == [start[s] EXCEPT !.pc = step]
  <2>1. /\ r \in Start /\ r.app = start[s].app /\ r.pc = step
        /\ r.steam = start[s].steam /\ r.launch = start[s].launch /\ r.offset = start[s].offset
    BY <1>1 DEF Start
  <2>2. start' = [start EXCEPT ![s] = r]
    BY <1>4 DEF Goto
  <2> HIDE DEF r
  <2>3. QED
    BY <1>1, <1>2, <2>1, <2>2, SeenType DEF Beside
<1>5. QED
  BY <1>3, <1>4

\* A start that puts down what it has found.
LEMMA NoteStep ==
    ASSUME TypeOK, NEW s \in Starts, NEW r \in Start, start' = [start EXCEPT ![s] = r],
           r.app = start[s].app, Seen, UNCHANGED <<game, log, ends>>
    PROVE  Beside(s) /\ start'[s] = r
<1>1. start \in [Starts -> Start] /\ stop \in Stop
  BY DEF TypeOK
<1>2. QED
  BY <1>1, SeenType DEF Beside

\* The launcher is run with a request.
Runs(l, request) == Launched(l, request) /\ request \in Starts \cup {None, Shutdown}

\* What a step of a start does besides: it runs the launcher, leaves its request in the pipe,
\* or neither.
StartDoes(s) ==
    \/ UNCHANGED <<launch, inbox>>
    \/ (\E l \in Launches : Runs(l, s) \/ Runs(l, None)) /\ inbox' = inbox
    \/ inbox' = inbox \cup {s} /\ launch' = launch

LEMMA StartStepBeside ==
    ASSUME TypeOK, NEW s \in Starts, StartStep(s)
    PROVE  Beside(s) /\ StartDoes(s)
<1>0. start \in [Starts -> Start] /\ start[s] \in Start /\ Steams \subseteq Launches
      /\ Shells \subseteq Launches
  BY DEF TypeOK, Steams, Shells
<1>1. CASE Begin(s) \/ XReady(s) \/ UnlinkSocket(s) \/ RunServer(s) \/ WaitForX11(s)
           \/ SettleX11(s) \/ UseDisplay(s) \/ Answer(s) \/ Window(s) \/ Fail(s)
  <2>1. /\ \E step \in StartSteps \cup Ended : Goto(s, step)
        /\ UNCHANGED <<game, log, ends, launch, inbox>>
    BY <1>1 DEF Begin, XReady, UnlinkSocket, RunServer, WaitForX11, SettleX11, UseDisplay, Answer,
       Window, Fail, StartSteps, Ended
  <2>2. QED
    BY <2>1, GotoStep DEF StartDoes
<1>2. CASE Discover(s) \/ Settle(s) \/ Appear(s)
  <2>0. /\ UNCHANGED <<game, log, ends, launch, inbox>>
        /\ After(s) \in StartSteps \cup Ended
    BY <1>2 DEF Discover, Settle, Appear, After, StartSteps, Ended
  <2>1. CASE \E step \in StartSteps \cup Ended : Goto(s, step)
    BY <2>0, <2>1, GotoStep DEF StartDoes
  <2>2. CASE ~\E step \in StartSteps \cup Ended : Goto(s, step)
    <3>1. PICK l \in Launches, step \in StartSteps \cup Ended :
            /\ \/ start' = [start EXCEPT ![s].pc = step, ![s].steam = l]
               \/ start' = [start EXCEPT ![s].steam = l, ![s].pc = step]
            /\ Seen
      <4>1. CASE Discover(s)
        BY <1>0, <4>1, <2>2 DEF Discover, StartSteps
      <4>2. CASE Settle(s)
        <5>1. PICK l \in Steams : start' = [start EXCEPT ![s].steam = l,
                                       ![s].pc = IF start[s].launch = 0 THEN "forward"
                                                 ELSE After(s)] /\ Seen
          BY <4>2, <2>0, <2>2 DEF Settle, StartSteps
        <5>2. QED
          BY <1>0, <2>0, <5>1 DEF StartSteps
      <4>3. CASE Appear(s)
        BY <1>0, <2>0, <4>3, <2>2 DEF Appear, StartSteps, Ended
      <4>4. QED
        BY <1>2, <4>1, <4>2, <4>3
    <3> DEFINE r == start'[s]
    <3>2. /\ r \in Start /\ r.app = start[s].app
          /\ start' = [start EXCEPT ![s] = r]
      <4>1. \/ r = [start[s] EXCEPT !.pc = step, !.steam = l]
            \/ r = [start[s] EXCEPT !.steam = l, !.pc = step]
        BY <1>0, <3>1
      <4>2. start' = [start EXCEPT ![s] = r]
        BY <1>0, <3>1
      <4> HIDE DEF r
      <4>3. r \in Start /\ r.app = start[s].app
        BY <1>0, <4>1, Numbers DEF Start
      <4>4. QED
        BY <4>2, <4>3
    <3>3. \E q \in Start : start' = [start EXCEPT ![s] = q] /\ q.app = start[s].app
      BY <3>2
    <3>4. QED
      BY <2>0, <3>1, <3>3, NoteStep DEF StartDoes
  <2>3. QED
    BY <2>1, <2>2
<1>3. CASE TakeOffset(s)
  <2>1. PICK step \in StartSteps :
          start' = [start EXCEPT ![s] = [start[s] EXCEPT !.offset = Len(log), !.pc = step]]
    BY <1>0, <1>3 DEF TakeOffset, StartSteps
  <2> DEFINE r == [start[s] EXCEPT !.offset = Len(log), !.pc = step]
  <2>2. r \in Start /\ r.app = start[s].app
    <3>1. Len(log) \in Nat
      BY DEF TypeOK
    <3>2. QED
      BY <1>0, <3>1 DEF Start
  <2>3. Seen /\ UNCHANGED <<game, log, ends, launch, inbox>>
    BY <1>3 DEF TakeOffset
  <2> HIDE DEF r
  <2>4. QED
    BY <2>1, <2>2, <2>3, NoteStep DEF r, StartDoes
<1>4. CASE Forwarded(s)
  <2>1. /\ \E step \in StartSteps \cup Ended : Goto(s, step)
        /\ UNCHANGED <<game, log, ends, launch, inbox>>
    BY <1>4 DEF Forwarded, After, StartSteps, Ended
  <2>2. QED
    BY <2>1, GotoStep DEF StartDoes
<1>5. CASE Forward(s)
  <2>0. UNCHANGED <<game, log, ends>> /\ After(s) \in StartSteps \cup Ended
    BY <1>5 DEF Forward, After, StartSteps, Ended
  <2>1. CASE Goto(s, After(s)) /\ launch' = launch
    BY <1>5, <2>0, <2>1, GotoStep DEF Forward, StartDoes, Launched
  <2>2. CASE ~(Goto(s, After(s)) /\ launch' = launch)
    <3>1. PICK l \in Launches :
            Launched(l, s) /\ start' = [start EXCEPT ![s].pc = "forwarded", ![s].launch = l]
      BY <1>5, <2>2 DEF Forward
    <3>2. Seen /\ inbox' = inbox
      BY <1>5, <2>2 DEF Forward
    <3> DEFINE r == [start[s] EXCEPT !.pc = "forwarded", !.launch = l]
    <3>3. r \in Start /\ r.app = start[s].app
      BY <1>0, Numbers DEF Start, StartSteps
    <3>4. start' = [start EXCEPT ![s] = r]
      BY <1>0, <3>1
    <3> HIDE DEF r
    <3>5. Beside(s)
      BY <2>0, <3>2, <3>3, <3>4, NoteStep
    <3>6. QED
      BY <3>1, <3>2, <3>5 DEF StartDoes, Runs
  <2>3. QED
    BY <2>1, <2>2
<1>6. CASE FindLaunchers(s)
  <2>0. UNCHANGED <<game, log, ends, inbox>>
    BY <1>6 DEF FindLaunchers
  <2>1. CASE Goto(s, "failed") /\ launch' = launch
    BY <2>0, <2>1, GotoStep DEF StartDoes, Ended
  <2>2. CASE ~(Goto(s, "failed") /\ launch' = launch)
    <3>1. PICK l \in Launches :
            /\ start' = [start EXCEPT ![s].pc = "appear", ![s].launch = l] /\ Seen
            /\ Launched(l, IF start[s].app THEN s ELSE None) \/ launch' = launch
      BY <1>0, <1>6, <2>2 DEF FindLaunchers
    <3> DEFINE r == [start[s] EXCEPT !.pc = "appear", !.launch = l]
    <3>3. r \in Start /\ r.app = start[s].app
      BY <1>0, Numbers DEF Start, StartSteps
    <3>4. start' = [start EXCEPT ![s] = r]
      BY <1>0, <3>1
    <3> HIDE DEF r
    <3>5. Beside(s)
      BY <2>0, <3>1, <3>3, <3>4, NoteStep
    <3>6. QED
      BY <2>0, <3>1, <3>5 DEF StartDoes, Runs
  <2>3. QED
    BY <2>1, <2>2
<1>7. QED
  BY <1>1, <1>2, <1>3, <1>4, <1>5, <1>6 DEF StartStep


------------------------------------------------------------------------------
(* The launches                                                             *)

\* The shells that are signalled.
ShellsEnd ==
    launch' = [l \in Launches |-> IF l \in Shells THEN [launch[l] EXCEPT !.shell = "gone"]
                                  ELSE launch[l]]

\* What ends keeps its shell, and its request is lost.
LEMMA EndEach ==
    ASSUME TypeOK, NEW S \in SUBSET Launches, End(S), NEW l \in Launches
    PROVE  /\ launch'[l] \in Launch
           /\ launch'[l].shell = launch[l].shell
           /\ launch'[l].chain = IF l \in S THEN "gone" ELSE launch[l].chain
           /\ launch'[l].request = IF l \in S THEN None ELSE launch[l].request
<1>1. launch[l] \in Launch
  BY DEF TypeOK
<1>2. launch'[l] = IF l \in S THEN [launch[l] EXCEPT !.chain = "gone", !.request = None]
                   ELSE launch[l]
  BY DEF End
<1>3. QED
  BY <1>1, <1>2 DEF Launch

\* The ways a step changes the launches, with what it does to the game.
Ways ==
    \/ launch' = launch /\ (game' \in {0, game} \/ \E l \in Launches : StartGame(l))
    \/ (\E l \in Launches, r \in Starts \cup {None, Shutdown} : Launched(l, r)) /\ game' = game
    \/ \E S \in SUBSET {l \in Launches : launch[l].chain \in {"boot", "steam", "second"}} : End(S)
    \/ ShellsEnd /\ game' = game
    \/ \E l \in Launches :
          RunPipeline(l) \/ Refuse(l) \/ BecomeSteam(l) \/ HandOver(l) \/ ShellEnds(l)

LEMMA NextWays == TypeOK /\ Next => Ways
<1> SUFFICES ASSUME TypeOK, Next PROVE Ways
  OBVIOUS
<1>1. CASE \E s \in Starts : StartStep(s)
  <2>1. PICK s \in Starts : Beside(s) /\ StartDoes(s)
    BY <1>1, StartStepBeside
  <2>2. QED
    BY <2>1 DEF Ways, Beside, StartDoes, Runs
<1>2. CASE StopStep
  <2>1. CASE BeginStop \/ Graceful \/ TermX11 \/ KillX11 \/ RemoveSocket
    BY <2>1 DEF Ways, BeginStop, Graceful, TermX11, KillX11, RemoveSocket
  <2>2. CASE RequestShutdown
    BY <2>2 DEF Ways, RequestShutdown
  <2>3. CASE TermSteam \/ KillSteam
    <3>1. PICK S \in SUBSET Steams : End(S)
      BY <2>3 DEF TermSteam, KillSteam
    <3>2. S \in SUBSET {l \in Launches : launch[l].chain \in {"boot", "steam", "second"}}
      BY DEF Steams
    <3>3. QED
      BY <3>1, <3>2 DEF Ways
  <2>4. CASE TermLaunchers \/ KillLaunchers
    BY <2>4 DEF Ways, ShellsEnd, TermLaunchers, KillLaunchers
  <2>5. QED
    BY <1>2, <2>1, <2>2, <2>3, <2>4 DEF StopStep
<1>3. CASE External
  <2>1. ASSUME NEW l \in Launches, RunPipeline(l) \/ Refuse(l) \/ BecomeSteam(l) \/ HandOver(l)
               \/ ShellEnds(l)
        PROVE  Ways
    BY <2>1 DEF Ways
  <2>2. ASSUME NEW l \in Launches, StartGame(l) PROVE Ways
    BY <2>2 DEF Ways, StartGame
  <2>3. ASSUME NEW l \in Launches, ShutDown(l) \/ SteamEnds(l) PROVE Ways
    <3>1. /\ End({l})
          /\ {l} \in SUBSET {k \in Launches : launch[k].chain \in {"boot", "steam", "second"}}
      BY <2>3 DEF ShutDown, SteamEnds
    <3>2. QED
      BY <3>1 DEF Ways
  <2>4. CASE GameEnds \/ \E s \in Servers : ServerUp(s) \/ ServerEnds(s)
    BY <2>4 DEF Ways, GameEnds, ServerUp, ServerEnds
  <2>5. QED
    BY <1>3, <2>1, <2>2, <2>3, <2>4 DEF External
<1>4. QED
  BY <1>1, <1>2, <1>3 DEF Next

\* Each of them keeps the launches' types and LaunchInv, and the game with a Steam.
LaunchOK ==
    /\ launch \in [Launches -> Launch] /\ LaunchInv
    /\ game \in 0..MaxLaunches /\ (game # 0 => launch[game].chain = "steam")

LEMMA LaunchStep == TypeOK /\ LaunchInv /\ Next => LaunchOK'
<1> SUFFICES ASSUME TypeOK, LaunchInv, Next PROVE LaunchOK'
  OBVIOUS
<1>0. /\ launch \in [Launches -> Launch] /\ game \in 0..MaxLaunches
      /\ game # 0 => game \in Launches /\ launch[game].chain = "steam"
  BY Numbers DEF TypeOK, Launches
<1>1. CASE launch' = launch /\ (game' \in {0, game} \/ \E l \in Launches : StartGame(l))
  <2>0. LaunchInv' /\ launch' \in [Launches -> Launch]
    BY <1>0, <1>1 DEF LaunchInv
  <2>1. CASE \E l \in Launches : StartGame(l)
    <3>1. PICK l \in Launches : launch[l].chain = "steam" /\ game' \in {game, l}
      BY <2>1 DEF StartGame
    <3>2. QED
      BY <1>0, <1>1, <2>0, <3>1, Numbers DEF LaunchOK
  <2>2. CASE game' \in {0, game}
    BY <1>0, <1>1, <2>0, <2>2, Numbers DEF LaunchOK
  <2>3. QED
    BY <1>1, <2>1, <2>2
<1>2. ASSUME NEW l \in Launches, NEW r \in Starts \cup {None, Shutdown}, Launched(l, r),
             game' = game
      PROVE  LaunchOK'
  <2>1. launch' = [launch EXCEPT ![l] = [shell |-> "script", chain |-> "none", request |-> r]]
        /\ launch[l].shell = "none"
    BY <1>2 DEF Launched, Fresh
  <2>2. [shell |-> "script", chain |-> "none", request |-> r] \in Launch
    BY DEF Launch
  <2>3. game # l \/ game = 0
    BY <1>0, <2>1 DEF LaunchInv
  <2>4. QED
    BY <1>0, <1>2, <2>1, <2>2, <2>3 DEF LaunchOK, LaunchInv
<1>3. ASSUME NEW S \in SUBSET {l \in Launches : launch[l].chain \in {"boot", "steam", "second"}},
             End(S)
      PROVE  LaunchOK'
  <2>1. \A l \in Launches :
           /\ launch'[l] \in Launch /\ launch'[l].shell = launch[l].shell
           /\ launch'[l].chain = IF l \in S THEN "gone" ELSE launch[l].chain
           /\ launch'[l].request = IF l \in S THEN None ELSE launch[l].request
    BY <1>3, EndEach
  <2>2. launch' \in [Launches -> Launch]
    <3>1. launch' = [l \in Launches |-> launch'[l]]
      BY <1>3 DEF End
    <3>2. QED
      BY <2>1, <3>1
  <2>3. LaunchInv'
    BY <2>1 DEF LaunchInv
  <2>4. game' = IF game \in S THEN 0 ELSE game
    BY <1>3 DEF End
  <2>5. game' \in 0..MaxLaunches
    BY <1>0, <2>4, Numbers
  <2>6. ASSUME game' # 0 PROVE launch'[game'].chain = "steam"
    <3>1. game' = game /\ game \notin S
      BY <2>4, <2>6
    <3>2. game \in Launches /\ launch[game].chain = "steam"
      BY <1>0, <2>6, <3>1
    <3>3. launch'[game].chain = launch[game].chain
      BY <2>1, <3>1, <3>2
    <3>4. QED
      BY <3>1, <3>2, <3>3
  <2>7. QED
    BY <2>2, <2>3, <2>5, <2>6 DEF LaunchOK
<1>4. CASE ShellsEnd /\ game' = game
  <2>1. \A l \in Launches : /\ launch'[l].chain = launch[l].chain
                            /\ launch'[l].request = launch[l].request
                            /\ launch'[l].shell \in {launch[l].shell, "gone"}
                            /\ launch'[l] \in Launch
    BY <1>0, <1>4 DEF ShellsEnd, Launch
  <2>2. launch' \in [Launches -> Launch]
    <3>1. launch' = [l \in Launches |-> launch'[l]]
      BY <1>4 DEF ShellsEnd
    <3>2. QED
      BY <2>1, <3>1
  <2>3. LaunchInv'
    BY <2>1 DEF LaunchInv
  <2>4. QED
    BY <1>0, <1>4, <2>1, <2>2, <2>3 DEF LaunchOK
<1>5. ASSUME NEW l \in Launches,
             RunPipeline(l) \/ Refuse(l) \/ BecomeSteam(l) \/ HandOver(l) \/ ShellEnds(l)
      PROVE  LaunchOK'
  <2> DEFINE r == launch'[l]
  <2>0. launch[l] \in Launch /\ game' = game
    BY <1>0, <1>5 DEF RunPipeline, Refuse, BecomeSteam, HandOver, ShellEnds
  <2>1. /\ launch' = [launch EXCEPT ![l] = r] /\ r \in Launch
        /\ r.shell \in {"none", "script"} => r.chain = "none" /\ launch[l].shell = r.shell
        /\ r.chain = "steam" /\ launch[l].chain # "steam" =>
              \A k \in Launches : launch[k].chain # "steam"
        /\ launch[l].chain = "steam" => r.chain = "steam"
        /\ r.request \in {None, launch[l].request}
    <3>1. CASE RunPipeline(l)
      <4>1. r = [launch[l] EXCEPT !.shell = "waiting", !.chain = "boot"]
            /\ launch' = [launch EXCEPT ![l] = r] /\ launch[l].shell = "script"
        BY <1>0, <3>1 DEF RunPipeline
      <4> HIDE DEF r
      <4>2. QED
        BY <2>0, <4>1 DEF Launch, LaunchInv
    <3>2. CASE Refuse(l)
      <4>1. r = [launch[l] EXCEPT !.shell = "gone", !.request = None]
            /\ launch' = [launch EXCEPT ![l] = r]
        BY <1>0, <3>2 DEF Refuse
      <4> HIDE DEF r
      <4>2. QED
        BY <2>0, <4>1 DEF Launch, LaunchInv
    <3>3. CASE BecomeSteam(l) /\ \E k \in Launches : launch[k].chain = "steam"
      <4>1. r = [launch[l] EXCEPT !.chain = "second"] /\ launch[l].chain = "boot"
            /\ launch' = [launch EXCEPT ![l] = r]
        BY <1>0, <3>3 DEF BecomeSteam
      <4> HIDE DEF r
      <4>2. QED
        BY <2>0, <4>1 DEF Launch, LaunchInv
    <3>4. CASE BecomeSteam(l) /\ ~\E k \in Launches : launch[k].chain = "steam"
      <4>1. r = [launch[l] EXCEPT !.chain = "steam", !.request = None] /\ launch[l].chain = "boot"
            /\ launch' = [launch EXCEPT ![l] = r]
        BY <1>0, <3>4 DEF BecomeSteam
      <4> HIDE DEF r
      <4>2. QED
        BY <2>0, <3>4, <4>1 DEF Launch, LaunchInv
    <3>5. CASE HandOver(l)
      <4>1. /\ r = [launch[l] EXCEPT !.chain = IF \E k \in Launches : launch[k].chain = "steam"
                                               THEN "gone" ELSE "steam", !.request = None]
            /\ launch' = [launch EXCEPT ![l] = r] /\ launch[l].chain = "second"
        BY <1>0, <3>5 DEF HandOver
      <4> HIDE DEF r
      <4>2. QED
        BY <2>0, <4>1 DEF Launch, LaunchInv
    <3>6. CASE ShellEnds(l)
      <4>1. r = [launch[l] EXCEPT !.shell = "gone"]
            /\ launch' = [launch EXCEPT ![l] = r]
        BY <1>0, <3>6 DEF ShellEnds
      <4> HIDE DEF r
      <4>2. QED
        BY <2>0, <4>1 DEF Launch, LaunchInv
    <3>7. QED
      BY <1>5, <3>1, <3>2, <3>3, <3>4, <3>5, <3>6
  <2> HIDE DEF r
  <2>2. QED
    BY <1>0, <2>0, <2>1 DEF LaunchOK, LaunchInv
<1>6. QED
  BY <1>1, <1>2, <1>3, <1>4, <1>5, NextWays DEF Ways

------------------------------------------------------------------------------
(* Types                                                                    *)

\* The steps of the stop, and those of everything else, leave the starts alone.
LEMMA StopStepBeside ==
    ASSUME TypeOK, StopStep
    PROVE  /\ stop' \in Stop /\ UNCHANGED <<start, log, ends>>
           /\ inbox' \in {inbox, {}}
<1>0. stop \in Stop
  BY DEF TypeOK
<1>1. CASE BeginStop \/ RequestShutdown \/ Graceful
  BY <1>0, <1>1 DEF BeginStop, RequestShutdown, Graceful, Stop, StopSteps
<1>2. CASE TermSteam \/ KillSteam \/ KillLaunchers
  BY <1>0, <1>2 DEF TermSteam, KillSteam, KillLaunchers, End, Stop, StopSteps
<1>3. CASE TermLaunchers
  BY <1>0, <1>3 DEF TermLaunchers, Stop, StopSteps
<1>4. CASE TermX11 \/ KillX11 \/ RemoveSocket
  BY <1>0, <1>4 DEF TermX11, KillX11, RemoveSocket, Stop, StopSteps
<1>5. QED
  BY <1>1, <1>2, <1>3, <1>4 DEF StopStep

LEMMA ExternalBeside ==
    ASSUME TypeOK, External
    PROVE  /\ UNCHANGED <<start, stop>> /\ ends' \in 0..MaxEnds
           /\ inbox' \subseteq Starts \cup {Shutdown}
           /\ log' = log \/ \E l \in Launches : StartGame(l) /\ log' = Append(log, l)
<1>0. /\ launch \in [Launches -> Launch] /\ inbox \subseteq Starts \cup {Shutdown}
      /\ ends \in 0..MaxEnds /\ MaxEnds \in Nat
  BY SteamSessionAssumption DEF TypeOK
<1>1. ASSUME NEW l \in Launches, RunPipeline(l) \/ Refuse(l) \/ ShellEnds(l) PROVE
      UNCHANGED <<start, stop, ends, inbox, log>>
  BY <1>1 DEF RunPipeline, Refuse, ShellEnds
<1>2. ASSUME NEW l \in Launches, BecomeSteam(l) \/ HandOver(l)
      PROVE  /\ UNCHANGED <<start, stop, ends, log>>
             /\ inbox' \subseteq Starts \cup {Shutdown}
  <2>1. launch[l].request \in Starts \cup {None, Shutdown}
    BY <1>0 DEF Launch
  <2>2. QED
    BY <1>0, <1>2, <2>1 DEF BecomeSteam, HandOver
<1>3. ASSUME NEW l \in Launches, ShutDown(l) \/ SteamEnds(l)
      PROVE  /\ UNCHANGED <<start, stop, log>> /\ inbox' \in {inbox, {}} /\ ends' \in 0..MaxEnds
  <2>1. ends' \in {ends, ends + 1} /\ (ends' = ends \/ ends < MaxEnds)
    BY <1>3 DEF ShutDown, SteamEnds
  <2>2. ends' \in 0..MaxEnds
    BY <1>0, <2>1
  <2>3. QED
    BY <1>3, <2>2 DEF ShutDown, SteamEnds, End
<1>4. ASSUME NEW l \in Launches, StartGame(l)
      PROVE  /\ UNCHANGED <<start, stop, ends>> /\ inbox' \subseteq inbox
             /\ log' = log \/ log' = Append(log, l)
  BY <1>4 DEF StartGame
<1>5. CASE GameEnds
  BY <1>0, <1>5 DEF GameEnds
<1>6. ASSUME NEW s \in Servers, ServerUp(s) \/ ServerEnds(s)
      PROVE  UNCHANGED <<start, stop, log, inbox>> /\ ends' \in 0..MaxEnds
  BY <1>0, <1>6 DEF ServerUp, ServerEnds
<1>7. QED
  BY <1>0, <1>1, <1>2, <1>3, <1>4, <1>5, <1>6 DEF External

\* The X servers keep their states.
LEMMA ServerType ==
    ASSUME TypeOK, Next
    PROVE  /\ server' \in [Servers -> {"none", "starting", "up", "dead"}]
           /\ socket' \in Servers \cup {None}
<1>0. /\ server \in [Servers -> {"none", "starting", "up", "dead"}]
      /\ socket \in Servers \cup {None}
  BY DEF TypeOK
<1>1. ASSUME NEW s \in Starts, StartStep(s)
      PROVE  /\ UNCHANGED server \/ server' = [server EXCEPT ![s] = "starting"]
             /\ UNCHANGED socket \/ socket' = None
  BY <1>1 DEF StartStep, Begin, XReady, UnlinkSocket, RunServer, WaitForX11, SettleX11, UseDisplay,
     Discover, TakeOffset, Settle, Forward, Forwarded, FindLaunchers, Appear, Answer, Window, Fail
<1>2. ASSUME StopStep
      PROVE  /\ \/ UNCHANGED server
                \/ \E S \in SUBSET Servers :
                      server' = [s \in Servers |-> IF s \in S THEN "dead" ELSE server[s]]
             /\ UNCHANGED socket \/ socket' = None
  <2>1. CASE TermX11 \/ KillX11
    <3>1. Found \in SUBSET Servers /\ SUBSET Found \subseteq SUBSET Servers
      BY DEF Found
    <3>2. QED
      BY <2>1, <3>1 DEF TermX11, KillX11
  <2>2. CASE ~(TermX11 \/ KillX11)
    BY <1>2, <2>2 DEF StopStep, BeginStop, RequestShutdown, Graceful, TermSteam, TermLaunchers,
       KillSteam, KillLaunchers, RemoveSocket
  <2>3. QED
    BY <2>1, <2>2
<1>3. ASSUME External
      PROVE  \/ UNCHANGED <<server, socket>>
             \/ \E s \in Servers, to \in {"up", "dead"} :
                   server' = [server EXCEPT ![s] = to] /\ socket' \in {socket, s}
  BY <1>3 DEF External, RunPipeline, Refuse, BecomeSteam, HandOver, StartGame, ShutDown, SteamEnds,
     ShellEnds, GameEnds, ServerUp, ServerEnds
<1>4. CASE \E s \in Starts : StartStep(s)
  BY <1>0, <1>1, <1>4 DEF Servers
<1>5. CASE StopStep
  BY <1>0, <1>2, <1>5
<1>6. CASE External
  BY <1>0, <1>3, <1>6
<1>7. QED
  BY <1>4, <1>5, <1>6 DEF Next

LEMMA TypeStep == TypeOK /\ LaunchInv /\ Next => TypeOK'
<1> SUFFICES ASSUME TypeOK, LaunchInv, Next PROVE TypeOK'
  OBVIOUS
<1>0. /\ log \in Seq(0..MaxLaunches) /\ inbox \subseteq Starts \cup {Shutdown}
      /\ ends \in 0..MaxEnds /\ start \in [Starts -> Start]
  BY DEF TypeOK
<1>1. LaunchOK' /\ server' \in [Servers -> {"none", "starting", "up", "dead"}]
      /\ socket' \in Servers \cup {None}
  BY LaunchStep, ServerType
<1>2. /\ start' \in [Starts -> Start] /\ stop' \in Stop /\ ends' \in 0..MaxEnds
      /\ log' \in Seq(0..MaxLaunches) /\ inbox' \subseteq Starts \cup {Shutdown}
  <2>1. CASE \E s \in Starts : StartStep(s)
    <3>1. PICK s \in Starts : Beside(s) /\ StartDoes(s)
      BY <2>1, StartStepBeside
    <3>2. QED
      BY <1>0, <3>1 DEF Beside, StartDoes
  <2>2. CASE StopStep
    BY <1>0, <2>2, StopStepBeside
  <2>3. CASE External
    <3>1. /\ UNCHANGED <<start, stop>> /\ ends' \in 0..MaxEnds
          /\ inbox' \subseteq Starts \cup {Shutdown}
          /\ log' = log \/ \E l \in Launches : log' = Append(log, l)
      BY <2>3, ExternalBeside
    <3>2. log' \in Seq(0..MaxLaunches)
      BY <1>0, <3>1, Numbers
    <3>3. QED
      BY <1>0, <3>1, <3>2 DEF TypeOK
  <2>4. QED
    BY <2>1, <2>2, <2>3 DEF Next
<1>3. QED
  BY <1>1, <1>2 DEF TypeOK, LaunchOK

------------------------------------------------------------------------------
(* The stop                                                                 *)

\* By themselves, launches get no shell, and reach a pipeline only from a shell, Steam only from
\* a pipeline; servers come up only when they were started.
LEMMA ExternalGoesOn ==
    ASSUME TypeOK, External
    PROVE  /\ \A l \in Launches :
                 /\ launch'[l].shell \in {"script", "waiting"} => l \in Shells
                 /\ launch'[l].chain = "boot" => launch[l].chain = "boot" \/ l \in Shells
                 /\ launch'[l].chain \in {"steam", "second"} =>
                       launch[l].chain = "boot" \/ l \in Steams
           /\ \A s \in Servers : server'[s] \in {"starting", "up"} => s \in Found
           /\ socket' = socket \/ Found # {}
<1>0. /\ launch \in [Launches -> Launch]
      /\ server \in [Servers -> {"none", "starting", "up", "dead"}]
  BY DEF TypeOK
<1> USE DEF Shells, Steams, Found
<1>1. ASSUME NEW l \in Launches,
             RunPipeline(l) \/ Refuse(l) \/ BecomeSteam(l) \/ HandOver(l) \/ ShellEnds(l)
      PROVE  /\ UNCHANGED <<server, socket>>
             /\ \A k \in Launches : k # l => launch'[k] = launch[k]
             /\ launch'[l].shell \in {"script", "waiting"} => l \in Shells
             /\ launch'[l].chain = "boot" => launch[l].chain = "boot" \/ l \in Shells
             /\ launch'[l].chain \in {"steam", "second"} =>
                   launch[l].chain = "boot" \/ l \in Steams
  <2>0. launch[l] \in Launch
    BY <1>0
  <2>1. CASE RunPipeline(l)
    BY <1>0, <2>0, <2>1 DEF RunPipeline, Launch
  <2>2. CASE Refuse(l)
    BY <1>0, <2>0, <2>2 DEF Refuse, Launch
  <2>3. CASE BecomeSteam(l)
    BY <1>0, <2>0, <2>3 DEF BecomeSteam, Launch
  <2>4. CASE HandOver(l)
    BY <1>0, <2>0, <2>4 DEF HandOver, Launch
  <2>5. CASE ShellEnds(l)
    BY <1>0, <2>0, <2>5 DEF ShellEnds, Launch
  <2>6. QED
    BY <1>1, <2>1, <2>2, <2>3, <2>4, <2>5
<1>2. ASSUME NEW l \in Launches, StartGame(l) PROVE UNCHANGED <<launch, server, socket>>
  BY <1>2 DEF StartGame
<1>3. ASSUME NEW l \in Launches, ShutDown(l) \/ SteamEnds(l)
      PROVE  /\ UNCHANGED <<server, socket>>
             /\ \A k \in Launches : launch'[k].shell = launch[k].shell
                                    /\ launch'[k].chain \in {launch[k].chain, "gone"}
  <2>1. End({l}) /\ UNCHANGED <<server, socket>>
    BY <1>3 DEF ShutDown, SteamEnds
  <2>2. QED
    BY <2>1, EndEach
<1>4. CASE GameEnds
  BY <1>4 DEF GameEnds
<1>5. ASSUME NEW s \in Servers, ServerUp(s)
      PROVE  UNCHANGED launch /\ s \in Found
             /\ \A d \in Servers : d # s => server'[d] = server[d]
  BY <1>0, <1>5 DEF ServerUp
<1>6. ASSUME NEW s \in Servers, ServerEnds(s)
      PROVE  UNCHANGED <<launch, socket>> /\ s \in Found
             /\ \A d \in Servers : d # s => server'[d] = server[d]
  BY <1>0, <1>6 DEF ServerEnds
<1>7. CASE \E l \in Launches :
             RunPipeline(l) \/ Refuse(l) \/ BecomeSteam(l) \/ HandOver(l) \/ ShellEnds(l)
  BY <1>1, <1>7
<1>8. CASE \E l \in Launches : ShutDown(l) \/ SteamEnds(l)
  BY <1>3, <1>8
<1>9. QED
  BY <1>2, <1>4, <1>5, <1>6, <1>7, <1>8 DEF External

LEMMA StopInvStep == TypeOK /\ StopInv /\ Next => StopInv'
<1> SUFFICES ASSUME TypeOK, StopInv, Next, stop'.alone PROVE StopInv'
  BY DEF StopInv
<1>0. /\ launch \in [Launches -> Launch] /\ stop \in Stop
      /\ server \in [Servers -> {"none", "starting", "up", "dead"}]
  BY DEF TypeOK
<1>1. CASE \E s \in Starts : StartStep(s)
  <2>1. stop'.pc = "new"
    BY <1>1, StartStepBeside DEF Beside
  <2>2. QED
    BY <2>1 DEF StopInv
<1>2. CASE BeginStop \/ RequestShutdown \/ Graceful \/ TermSteam
  <2>1. stop'.pc \in {"refused", "look", "term", "graceful", "launchers"}
    BY <1>0, <1>2 DEF BeginStop, RequestShutdown, Graceful, TermSteam, Stop
  <2>2. QED
    BY <2>1 DEF StopInv
<1>3. CASE TermLaunchers
  <2>1. /\ stop'.pc = "kill"
        /\ stop'.booting = {l \in Launches : launch[l].chain = "boot"}
    BY <1>0, <1>3 DEF TermLaunchers, Stop
  <2>2. \A l \in Launches : /\ launch'[l].shell \notin {"script", "waiting"}
                            /\ launch'[l].chain = launch[l].chain
    BY <1>0, <1>3 DEF TermLaunchers, Shells, Launch
  <2>3. QED
    BY <2>1, <2>2 DEF StopInv, Shells
<1>4. CASE KillSteam
  <2>1. /\ stop.pc = "kill" /\ stop.alone /\ stop'.pc = "killall" /\ stop'.booting = stop.booting
    BY <1>0, <1>4 DEF KillSteam, Stop
  <2>2. \A l \in Launches : /\ launch'[l].shell = launch[l].shell
                            /\ launch'[l].chain = IF l \in Steams THEN "gone" ELSE launch[l].chain
    BY <1>0, <1>4 DEF KillSteam, End, Launch
  <2>3. QED
    BY <2>1, <2>2 DEF StopInv, Shells, Steams
<1>5. CASE KillLaunchers
  <2>1. /\ stop.pc = "killall" /\ stop.alone /\ stop'.pc = "xterm" /\ stop'.booting = stop.booting
    BY <1>0, <1>5 DEF KillLaunchers, Stop
  <2>2. \A l \in Launches : /\ launch'[l].shell \in {"gone", launch[l].shell}
                            /\ launch'[l].chain = launch[l].chain
    BY <1>0, <1>5 DEF KillLaunchers, Launch
  <2>3. QED
    BY <2>1, <2>2 DEF StopInv, Shells, Steams
<1>6. CASE TermX11
  <2>1. /\ stop.pc = "xterm" /\ stop.alone /\ stop'.pc = "xkill" /\ stop'.booting = stop.booting
        /\ launch' = launch
    BY <1>0, <1>6 DEF TermX11, Stop
  <2>2. QED
    BY <2>1 DEF StopInv, Shells, Steams
<1>7. CASE KillX11
  <2>1. /\ stop.pc = "xkill" /\ stop.alone /\ stop'.pc = "socket" /\ stop'.booting = stop.booting
        /\ launch' = launch
        /\ \A s \in Servers : server'[s] = IF s \in Found THEN "dead" ELSE server[s]
    BY <1>0, <1>7 DEF KillX11, Stop
  <2>2. Found' = {}
    BY <1>0, <2>1 DEF Found
  <2>3. QED
    BY <2>1, <2>2 DEF StopInv, Shells, Steams
<1>8. CASE RemoveSocket
  <2>1. /\ stop.pc = "socket" /\ stop.alone /\ stop'.pc = "stopped" /\ stop'.booting = stop.booting
        /\ UNCHANGED <<launch, server>>
    BY <1>0, <1>8 DEF RemoveSocket, Stop
  <2>2. Found = {} /\ ~Reachable
    BY <2>1 DEF StopInv, Found, Reachable, TypeOK
  <2>3. socket' = None
    BY <1>8, <2>2 DEF RemoveSocket
  <2>4. QED
    BY <2>1, <2>2, <2>3 DEF StopInv, Shells, Steams, Found
<1>9. CASE External
  <2>1. stop' = stop
    BY <1>9, ExternalBeside
  <2>2. CASE stop.pc \in {"kill", "killall", "xterm", "xkill", "socket", "stopped"}
    <3>1. Shells' = {} /\ \A l \in Launches : launch'[l].chain = "boot" => l \in stop.booting
      BY <1>9, <2>1, <2>2, ExternalGoesOn DEF StopInv, Shells
    <3>2. stop.pc # "kill" => \A l \in Steams' : l \in stop.booting
      BY <1>9, <2>1, <2>2, ExternalGoesOn DEF StopInv, Steams
    <3>3. stop.pc \in {"socket", "stopped"} => Found' = {}
      BY <1>9, <2>1, <2>2, ExternalGoesOn DEF StopInv, Found
    <3>4. stop.pc = "stopped" => socket' = None
      BY <1>9, <2>1, <2>2, ExternalGoesOn DEF StopInv
    <3>5. QED
      BY <2>1, <2>2, <3>1, <3>2, <3>3, <3>4 DEF StopInv
  <2>3. QED
    BY <2>1, <2>2 DEF StopInv
<1>10. QED
  BY <1>1, <1>2, <1>3, <1>4, <1>5, <1>6, <1>7, <1>8, <1>9 DEF Next, StopStep

------------------------------------------------------------------------------
(* The log                                                                  *)

\* What has been Steam becomes nothing else; what becomes the session's finds no other.
LEMMA ChainsGoOn ==
    ASSUME TypeOK, LaunchInv, Next, NEW l \in Launches
    PROVE  /\ launch[l].chain = "gone" => launch'[l].chain = "gone"
           /\ launch[l].chain = "steam" => launch'[l].chain \in {"steam", "gone"}
           /\ launch[l].chain = "second" => launch'[l].chain \in {"second", "steam", "gone"}
           /\ launch'[l].chain = "steam" /\ launch[l].chain # "steam" =>
                 \A k \in Launches : launch[k].chain # "steam"
<1>0. launch \in [Launches -> Launch] /\ launch[l] \in Launch
  BY DEF TypeOK
<1>1. CASE launch' = launch
  BY <1>1
<1>2. ASSUME NEW k \in Launches, NEW r \in Starts \cup {None, Shutdown}, Launched(k, r)
      PROVE  /\ l # k => launch'[l] = launch[l]
             /\ launch[k].chain = "none" /\ launch'[k].chain = "none"
  BY <1>0, <1>2 DEF Launched, Fresh, LaunchInv
<1>3. ASSUME NEW S \in SUBSET {k \in Launches : launch[k].chain \in {"boot", "steam", "second"}},
             End(S)
      PROVE  launch'[l].chain = IF l \in S THEN "gone" ELSE launch[l].chain
  BY <1>0, <1>3 DEF End, Launch
<1>4. CASE ShellsEnd
  BY <1>0, <1>4 DEF ShellsEnd, Launch
<1>5. ASSUME NEW k \in Launches, RunPipeline(k) \/ Refuse(k) \/ BecomeSteam(k) \/ HandOver(k)
                                   \/ ShellEnds(k)
      PROVE  /\ l # k => launch'[l] = launch[l]
             /\ \/ launch[k].chain = "none" /\ launch'[k].chain = "boot"
                \/ launch[k].chain = "boot" /\ launch'[k].chain = "second"
                \/ /\ launch[k].chain \in {"boot", "second"} /\ launch'[k].chain = "steam"
                   /\ \A j \in Launches : launch[j].chain # "steam"
                \/ launch[k].chain = "second" /\ launch'[k].chain = "gone"
                \/ launch'[k].chain = launch[k].chain
  <2>0. launch[k] \in Launch
    BY <1>0
  <2>1. CASE RunPipeline(k)
    BY <1>0, <2>0, <2>1 DEF RunPipeline, Launch, LaunchInv
  <2>2. CASE Refuse(k)
    BY <1>0, <2>0, <2>2 DEF Refuse, Launch
  <2>3. CASE BecomeSteam(k)
    BY <1>0, <2>0, <2>3 DEF BecomeSteam, Launch
  <2>4. CASE HandOver(k)
    BY <1>0, <2>0, <2>4 DEF HandOver, Launch
  <2>5. CASE ShellEnds(k)
    BY <1>0, <2>0, <2>5 DEF ShellEnds, Launch
  <2>6. QED
    BY <1>5, <2>1, <2>2, <2>3, <2>4, <2>5
<1>6. CASE \E k \in Launches, r \in Starts \cup {None, Shutdown} : Launched(k, r)
  BY <1>2, <1>6
<1>7. CASE \E S \in SUBSET {k \in Launches : launch[k].chain \in {"boot", "steam", "second"}} : End(S)
  BY <1>3, <1>7
<1>8. CASE \E k \in Launches : RunPipeline(k) \/ Refuse(k) \/ BecomeSteam(k) \/ HandOver(k)
                               \/ ShellEnds(k)
  BY <1>5, <1>8
<1>9. QED
  BY <1>1, <1>4, <1>6, <1>7, <1>8, NextWays DEF Ways

\* The log only grows, by launches that are the session's Steam.
LEMMA LogGrows ==
    ASSUME TypeOK, Next
    PROVE  log' = log \/ \E l \in Launches : /\ log' = Append(log, l) /\ UNCHANGED <<launch, start>>
                                             /\ launch[l].chain = "steam"
<1>1. CASE \E s \in Starts : StartStep(s)
  BY <1>1, StartStepBeside DEF Beside
<1>2. CASE StopStep
  BY <1>2, StopStepBeside
<1>3. CASE External
  BY <1>3, ExternalBeside DEF StartGame
<1>4. QED
  BY <1>1, <1>2, <1>3 DEF Next

\* What a start knows when it has gone on: offset and Steam.
LEMMA StartKnows ==
    ASSUME TypeOK, NEW s \in Starts, StartStep(s), Len(log) >= 1,
           start[s].pc \in Looked => start[s].offset >= 1
    PROVE  /\ start'[s].pc \in Looked => start'[s].offset >= 1
           /\ start'[s].pc = "accepted" =>
                 /\ start'[s].steam \in Steams /\ start'[s].offset < Len(log)
                 /\ launch' = launch
<1>0. start \in [Starts -> Start] /\ start[s] \in Start
  BY DEF TypeOK
<1> USE DEF Looked, At
<1>1. CASE Answer(s)
  <2>1. CASE Goto(s, "failed")
    <3>1. start'[s].pc = "failed"
      BY <1>1, <2>1, GotoStep DEF Answer, Ended
    <3>2. QED
      BY <3>1
  <2>2. CASE ~Goto(s, "failed")
    <3>1. /\ start[s].steam \in Steams /\ Len(log) > start[s].offset /\ Goto(s, "accepted")
          /\ start[s].pc = "answer" /\ launch' = launch
      BY <1>1, <2>2 DEF Answer
    <3>2. /\ start'[s].steam = start[s].steam /\ start'[s].offset = start[s].offset
      BY <1>1, <3>1, GotoStep DEF Answer, Ended
    <3>3. QED
      BY <1>0, <3>1, <3>2 DEF TypeOK, Start
  <2>3. QED
    BY <2>1, <2>2
<1>2. CASE TakeOffset(s)
  BY <1>0, <1>2 DEF TakeOffset, Start
<1>3. CASE Begin(s) \/ XReady(s) \/ UnlinkSocket(s) \/ RunServer(s) \/ WaitForX11(s)
           \/ SettleX11(s) \/ UseDisplay(s) \/ Window(s) \/ Fail(s)
  <2>1. \E step \in (StartSteps \cup Ended) \ Looked : Goto(s, step) /\ UNCHANGED <<game, log, ends>>
    BY <1>3 DEF Begin, XReady, UnlinkSocket, RunServer, WaitForX11, SettleX11, UseDisplay, Window,
       Fail, StartSteps, Ended
  <2>2. start'[s].pc \notin Looked
    BY <2>1, GotoStep
  <2>3. QED
    BY <2>2
<1>4. CASE Discover(s)
  <2>1. start'[s].pc \in {"offset", "many"}
    BY <1>0, <1>4 DEF Discover, Goto, Start
  <2>2. QED
    BY <2>1
<1>5. CASE Settle(s) \/ Forward(s) \/ Forwarded(s) \/ FindLaunchers(s) \/ Appear(s)
  <2>1. start[s].pc \in Looked \ {"accepted"} /\ After(s) \in {"window", "answer", "ready"}
    BY <1>5 DEF Settle, Forward, Forwarded, FindLaunchers, Appear, After
  <2>2. CASE \E step \in StartSteps \cup {"ready", "failed"} : Goto(s, step)
    <3>1. PICK step \in StartSteps \cup {"ready", "failed"} : Goto(s, step)
      BY <2>2
    <3>2. UNCHANGED <<game, log, ends>> /\ "accepted" \notin StartSteps
      BY <1>5 DEF Settle, Forward, Forwarded, FindLaunchers, Appear, StartSteps
    <3>3. /\ start'[s].pc = step
          /\ step \notin {"ready", "failed"} => start'[s].offset = start[s].offset
      BY <3>1, <3>2, GotoStep DEF Ended
    <3>4. QED
      BY <2>1, <3>2, <3>3
  <2>3. CASE ~\E step \in StartSteps \cup {"ready", "failed"} : Goto(s, step)
    <3>1. start'[s].offset = start[s].offset /\ start'[s].pc # "accepted"
      <4>1. CASE Settle(s)
        <5>1. PICK l \in Steams : start' = [start EXCEPT ![s].steam = l,
                                       ![s].pc = IF start[s].launch = 0 THEN "forward"
                                                 ELSE After(s)]
          BY <2>3, <4>1 DEF Settle, StartSteps
        <5>2. QED
          BY <1>0, <2>1, <5>1 DEF Start
      <4>2. CASE Forward(s)
        BY <1>0, <2>1, <2>3, <4>2 DEF Forward, Start, StartSteps
      <4>3. CASE Forwarded(s)
        BY <2>1, <2>3, <4>3 DEF Forwarded, StartSteps
      <4>4. CASE FindLaunchers(s)
        BY <1>0, <2>3, <4>4 DEF FindLaunchers, Start
      <4>5. CASE Appear(s)
        BY <1>0, <2>1, <2>3, <4>5 DEF Appear, Start, StartSteps
      <4>6. QED
        BY <1>5, <4>1, <4>2, <4>3, <4>4, <4>5
    <3>2. QED
      BY <2>1, <3>1
  <2>4. QED
    BY <2>2, <2>3
<1>6. QED
  BY <1>1, <1>2, <1>3, <1>4, <1>5 DEF StartStep

LEMMA OwnStepOnly ==
    ASSUME TypeOK, Next, NEW d \in Starts
    PROVE  StartStep(d) \/ start'[d] = start[d]
<1>1. CASE \E s \in Starts : StartStep(s)
  BY <1>1, StartStepBeside DEF Beside
<1>2. CASE StopStep
  BY <1>2, StopStepBeside
<1>3. CASE External
  BY <1>3, ExternalBeside
<1>4. QED
  BY <1>1, <1>2, <1>3 DEF Next

LEMMA LogStep == TypeOK /\ LaunchInv /\ LogInv /\ Next => LogInv'
<1> SUFFICES ASSUME TypeOK, LaunchInv, LogInv, Next PROVE LogInv'
  OBVIOUS
<1>0. /\ log \in Seq(0..MaxLaunches) /\ launch \in [Launches -> Launch]
      /\ start \in [Starts -> Start] /\ Len(log) >= 1 /\ TypeOK'
  BY TypeStep DEF TypeOK, LogInv
<1>1. /\ Len(log') >= Len(log) /\ Len(log') \in Nat
      /\ \A i \in 1..Len(log) : log'[i] = log[i]
      /\ \A i \in 1..Len(log') : i <= Len(log) \/ (log'[i] \in Launches /\ launch' = launch
                                                    /\ launch[log'[i]].chain = "steam")
  <2>1. CASE log' = log
    BY <1>0, <2>1
  <2>2. CASE log' # log
    <3>1. PICK l \in Launches : log' = Append(log, l) /\ launch' = launch
                                /\ launch[l].chain = "steam"
      BY <2>2, LogGrows
    <3>2. /\ Len(log') = Len(log) + 1 /\ log'[Len(log) + 1] = l
          /\ \A i \in 1..Len(log) : log'[i] = log[i]
      BY <1>0, <3>1, Numbers
    <3>3. QED
      BY <1>0, <3>1, <3>2
  <2>3. QED
    BY <2>1, <2>2
<1>2. \A i \in 2..Len(log') : log'[i] \in Launches /\ launch'[log'[i]].chain \in {"steam", "gone"}
  <2> SUFFICES ASSUME NEW i \in 2..Len(log')
               PROVE  log'[i] \in Launches /\ launch'[log'[i]].chain \in {"steam", "gone"}
    OBVIOUS
  <2>1. CASE i <= Len(log)
    <3>1. i \in 1..Len(log) /\ i \in 2..Len(log)
      BY <1>0, <1>1, <2>1
    <3>2. /\ log'[i] = log[i] /\ log[i] \in Launches
          /\ launch[log[i]].chain \in {"steam", "gone"}
      BY <1>1, <3>1 DEF LogInv
    <3>3. QED
      BY <3>2, ChainsGoOn
  <2>2. CASE ~(i <= Len(log))
    BY <1>1, <2>2
  <2>3. QED
    BY <2>1, <2>2
<1>3. \A d \in Starts : start'[d].pc \in Looked => start'[d].offset >= 1
  <2> SUFFICES ASSUME NEW d \in Starts PROVE start'[d].pc \in Looked => start'[d].offset >= 1
    OBVIOUS
  <2>1. start[d].pc \in Looked => start[d].offset >= 1
    BY DEF LogInv
  <2>2. QED
    BY <1>0, <2>1, OwnStepOnly, StartKnows
<1>4. ASSUME NEW d \in Starts, start'[d].pc = "accepted"
      PROVE  /\ start'[d].steam \in Launches
             /\ launch'[start'[d].steam].chain \in {"steam", "second", "gone"}
             /\ \E i \in (start'[d].offset + 1)..Len(log') :
                   log'[i] # start'[d].steam =>
                      /\ log'[i] \in Launches
                      /\ launch'[log'[i]].chain = "gone"
                           \/ launch'[start'[d].steam].chain # "steam"
  <2>0. start[d] \in Start /\ start'[d] \in Start /\ start'[d].offset >= 1
        /\ start'[d].offset \in Nat
    BY <1>0, <1>3, <1>4 DEF TypeOK, Start, Looked
  <2>1. CASE StartStep(d)
    <3>1. /\ start'[d].steam \in Steams /\ start'[d].offset < Len(log) /\ launch' = launch
      BY <1>0, <1>4, <2>1, StartKnows DEF LogInv
    <3>2. log' = log
      BY <2>1, StartStepBeside DEF Beside
    <3>3. /\ Len(log) \in 2..Len(log) /\ Len(log) \in (start'[d].offset + 1)..Len(log)
      BY <1>0, <2>0, <3>1
    <3>4. /\ log[Len(log)] \in Launches /\ launch[log[Len(log)]].chain \in {"steam", "gone"}
      BY <3>3 DEF LogInv
    <3>5. /\ start'[d].steam \in Launches
          /\ launch[start'[d].steam].chain \in {"steam", "second"}
      BY <3>1 DEF Steams
    <3>6. log[Len(log)] # start'[d].steam =>
             launch[log[Len(log)]].chain = "gone" \/ launch[start'[d].steam].chain # "steam"
      BY <3>4, <3>5 DEF LaunchInv
    <3>7. QED
      BY <3>1, <3>2, <3>3, <3>4, <3>5, <3>6
  <2>2. CASE start'[d] = start[d]
    <3> DEFINE t == start[d].steam
    <3>1. /\ t \in Launches /\ launch[t].chain \in {"steam", "second", "gone"}
      BY <1>4, <2>2 DEF LogInv, At
    <3>2. PICK i \in (start[d].offset + 1)..Len(log) :
             log[i] # t => /\ log[i] \in Launches
                           /\ launch[log[i]].chain = "gone" \/ launch[t].chain # "steam"
      BY <1>4, <2>2 DEF LogInv, AcceptedIsOwn, At
    <3>3. i \in 2..Len(log) /\ i \in 1..Len(log) /\ i \in (start'[d].offset + 1)..Len(log')
      BY <1>0, <1>1, <2>0, <2>2
    <3>4. log'[i] = log[i] /\ log[i] \in Launches /\ launch[log[i]].chain \in {"steam", "gone"}
      BY <1>1, <3>3 DEF LogInv
    <3>5. launch'[t].chain \in {"steam", "second", "gone"}
      BY <3>1, ChainsGoOn
    <3>6. log[i] # t => launch'[log[i]].chain = "gone" \/ launch'[t].chain # "steam"
      <4>1. CASE launch[log[i]].chain = "gone"
        BY <3>4, <4>1, ChainsGoOn
      <4>2. CASE launch[log[i]].chain = "steam"
        BY <3>1, <3>2, <3>4, <4>2, ChainsGoOn
      <4>3. QED
        BY <3>4, <4>1, <4>2
    <3>7. QED
      BY <2>2, <3>1, <3>3, <3>4, <3>5, <3>6
  <2>3. QED
    BY <2>1, <2>2, OwnStepOnly
<1>5. AcceptedIsOwn'
  BY <1>0, <1>4 DEF AcceptedIsOwn, At
<1>6. QED
  BY <1>0, <1>1, <1>2, <1>3, <1>4, <1>5 DEF LogInv, At

------------------------------------------------------------------------------
(* The requests                                                             *)

\* No start takes its request back, and one that waits for Steam to appear has a launcher.
StartsGoOn ==
    \A d \in Starts : /\ start'[d].app = start[d].app
                      /\ Unsent(d)' => Unsent(d)
                      /\ At(d, "appear")' => start'[d].launch # 0

\* A start sends its request.
Sends(s) ==
    /\ start[s].app /\ Unsent(s) /\ ~Unsent(s)'
    /\ \/ (\E l \in Launches : Launched(l, s)) /\ inbox' = inbox
       \/ inbox' = inbox \cup {s} /\ launch' = launch

\* Requests may be lost, and none is added.
Fades ==
    /\ inbox' \cap Starts \subseteq inbox
    /\ \A l \in Launches : launch'[l].request \in Starts =>
                              launch'[l].request = launch[l].request

\* A launch hands its request over.
Hands(l) ==
    /\ \A k \in Launches : launch'[k].request = IF k = l THEN None ELSE launch[k].request
    /\ inbox' = inbox \cup ({launch[l].request} \ {None})

LEMMA PlaceFades ==
    ASSUME PlaceInv, StartsGoOn, Fades
    PROVE  PlaceInv' /\ Open' \subseteq Open
<1>1. \A s \in Starts : Carried(s)' => Carried(s)
  BY DEF Fades, Carried
<1>2. Open' \subseteq Open
  BY <1>1 DEF Open, StartsGoOn
<1>3. \A s \in Starts : Unsent(s)' => ~Carried(s)'
  BY <1>1 DEF PlaceInv, StartsGoOn
<1>4. \A s \in Starts : Carried(s)' => start'[s].app
  BY <1>1 DEF PlaceInv, StartsGoOn
<1>5. \A l \in Launches : launch'[l].request \in Starts => launch'[l].request \notin inbox'
  BY DEF PlaceInv, Fades
<1>6. \A k, l \in Launches :
         launch'[k].request \in Starts /\ launch'[k].request = launch'[l].request => k = l
  BY DEF PlaceInv, Fades
<1>7. QED
  BY <1>2, <1>3, <1>4, <1>5, <1>6 DEF PlaceInv, StartsGoOn, At

LEMMA PlaceHands ==
    ASSUME PlaceInv, StartsGoOn, NEW l \in Launches, Hands(l)
    PROVE  PlaceInv' /\ Open' \subseteq Open
<1>0. None \notin Starts
  BY SteamSessionAssumption
<1>1. \A s \in Starts : Carried(s)' => Carried(s)
  <2> SUFFICES ASSUME NEW s \in Starts, Carried(s)' PROVE Carried(s)
    OBVIOUS
  <2>1. CASE s \in inbox'
    <3>1. s \in inbox \/ s = launch[l].request
      BY <2>1 DEF Hands
    <3>2. QED
      BY <3>1 DEF Carried
  <2>2. CASE s \notin inbox'
    <3>1. PICK k \in Launches : launch'[k].request = s
      BY <2>2 DEF Carried
    <3>2. launch[k].request = s
      BY <1>0, <3>1 DEF Hands
    <3>3. QED
      BY <3>2 DEF Carried
  <2>3. QED
    BY <2>1, <2>2
<1>2. Open' \subseteq Open
  BY <1>1 DEF Open, StartsGoOn
<1>3. \A s \in Starts : Unsent(s)' => ~Carried(s)'
  BY <1>1 DEF PlaceInv, StartsGoOn
<1>4. \A s \in Starts : Carried(s)' => start'[s].app
  BY <1>1 DEF PlaceInv, StartsGoOn
<1>5. \A k \in Launches : launch'[k].request \in Starts => launch'[k].request \notin inbox'
  BY <1>0 DEF PlaceInv, Hands
<1>6. \A j, k \in Launches :
         launch'[j].request \in Starts /\ launch'[j].request = launch'[k].request => j = k
  BY <1>0 DEF PlaceInv, Hands
<1>7. QED
  BY <1>2, <1>3, <1>4, <1>5, <1>6 DEF PlaceInv, StartsGoOn, At

LEMMA PlaceSends ==
    ASSUME TypeOK, LaunchInv, PlaceInv, StartsGoOn, NEW s \in Starts, Sends(s)
    PROVE  PlaceInv' /\ Open' \subseteq Open
<1>0. None \notin Starts /\ launch \in [Launches -> Launch]
  BY SteamSessionAssumption DEF TypeOK
<1>1. CASE \E l \in Launches : Launched(l, s) /\ inbox' = inbox
  <2>1. PICK l \in Launches : Launched(l, s) /\ inbox' = inbox
    BY <1>1
  <2>2. /\ \A k \in Launches : launch'[k].request = IF k = l THEN s ELSE launch[k].request
        /\ launch[l].request = None
    BY <1>0, <2>1 DEF Launched, Fresh, LaunchInv
  <2>3. ~Carried(s)
    BY DEF PlaceInv, Sends
  <2>4. \A d \in Starts : Carried(d)' => Carried(d) \/ d = s
    BY <2>1, <2>2 DEF Carried
  <2>5. Open' \subseteq Open
    BY <2>4 DEF Open, StartsGoOn, Sends
  <2>6. \A d \in Starts : Unsent(d)' => ~Carried(d)'
    BY <2>4 DEF PlaceInv, StartsGoOn, Sends
  <2>7. \A d \in Starts : Carried(d)' => start'[d].app
    BY <2>4 DEF PlaceInv, StartsGoOn, Sends
  <2>8. \A k \in Launches : launch'[k].request \in Starts => launch'[k].request \notin inbox'
    BY <2>1, <2>2, <2>3 DEF PlaceInv, Carried
  <2>9. \A j, k \in Launches :
           launch'[j].request \in Starts /\ launch'[j].request = launch'[k].request => j = k
    BY <2>2, <2>3 DEF PlaceInv, Carried
  <2>10. QED
    BY <2>5, <2>6, <2>7, <2>8, <2>9 DEF PlaceInv, StartsGoOn, At
<1>2. CASE inbox' = inbox \cup {s} /\ launch' = launch
  <2>3. ~Carried(s)
    BY DEF PlaceInv, Sends
  <2>4. \A d \in Starts : Carried(d)' => Carried(d) \/ d = s
    BY <1>2 DEF Carried
  <2>5. Open' \subseteq Open
    BY <2>4 DEF Open, StartsGoOn, Sends
  <2>6. \A d \in Starts : Unsent(d)' => ~Carried(d)'
    BY <2>4 DEF PlaceInv, StartsGoOn, Sends
  <2>7. \A d \in Starts : Carried(d)' => start'[d].app
    BY <2>4 DEF PlaceInv, StartsGoOn, Sends
  <2>8. \A k \in Launches : launch'[k].request \in Starts => launch'[k].request \notin inbox'
    BY <1>2, <2>3 DEF PlaceInv, Carried
  <2>9. \A j, k \in Launches :
           launch'[j].request \in Starts /\ launch'[j].request = launch'[k].request => j = k
    BY <1>2 DEF PlaceInv
  <2>10. QED
    BY <2>5, <2>6, <2>7, <2>8, <2>9 DEF PlaceInv, StartsGoOn, At
<1>3. QED
  BY <1>1, <1>2 DEF Sends

\* What a step of a start is to the requests.
LEMMA StartRequests ==
    ASSUME TypeOK, PlaceInv, NEW s \in Starts, StartStep(s)
    PROVE  StartsGoOn /\ (Fades \/ Sends(s))
<1>0. /\ start \in [Starts -> Start] /\ start[s] \in Start /\ launch \in [Launches -> Launch]
      /\ None \notin Starts /\ 0 \notin Launches
      /\ Steams \subseteq Launches /\ Shells \subseteq Launches
  BY SteamSessionAssumption, Numbers DEF TypeOK, Steams, Shells
<1>1. \A d \in Starts : start'[d].app = start[d].app /\ (d # s => start'[d] = start[d])
  BY StartStepBeside DEF Beside
<1> DEFINE Kept == (Unsent(s)' => Unsent(s)) /\ (start'[s].pc = "appear" => start'[s].launch # 0)
<1>2. Kept => StartsGoOn
  <2> SUFFICES ASSUME Kept, NEW d \in Starts
               PROVE  /\ Unsent(d)' => Unsent(d)
                      /\ start'[d].pc = "appear" => start'[d].launch # 0
    BY <1>1 DEF StartsGoOn, At
  <2>1. CASE d = s
    BY <2>1
  <2>2. CASE d # s
    BY <1>1, <2>2 DEF Unsent, At, PlaceInv
  <2>3. QED
    BY <2>1, <2>2
<1>3. UNCHANGED <<launch, inbox>> => Fades
  BY DEF Fades
<1>4. \A step \in StartSteps \cup Ended : Goto(s, step) /\ UNCHANGED <<game, log, ends>> =>
         /\ start'[s].pc = step
         /\ step \notin {"ready", "failed"} => start'[s].launch = start[s].launch
  BY GotoStep
<1> USE DEF Unsent, At
<1>5. CASE Begin(s) \/ XReady(s) \/ UnlinkSocket(s) \/ RunServer(s) \/ WaitForX11(s)
           \/ SettleX11(s) \/ UseDisplay(s)
  <2>1. /\ \E step \in (StartSteps \cup Ended) \ {"appear", "settle"} : Goto(s, step)
        /\ UNCHANGED <<game, log, ends, launch, inbox>> /\ Unsent(s)
    BY <1>5 DEF Begin, XReady, UnlinkSocket, RunServer, WaitForX11, SettleX11, UseDisplay,
       StartSteps, Ended
  <2>2. start'[s].pc # "appear"
    BY <1>4, <2>1
  <2>3. QED
    BY <1>2, <1>3, <2>1, <2>2
<1>6. CASE Answer(s) \/ Window(s) \/ Fail(s) \/ Forwarded(s)
  <2>1. /\ \E step \in {"accepted", "ready", "failed", "window", "answer"} : Goto(s, step)
        /\ UNCHANGED <<game, log, ends, launch, inbox>>
    BY <1>6 DEF Answer, Window, Fail, Forwarded, After
  <2>2. start'[s].pc \in {"accepted", "ready", "failed", "window", "answer"}
    BY <1>4, <2>1 DEF StartSteps, Ended
  <2>3. QED
    BY <1>2, <1>3, <2>1, <2>2
<1>7. CASE Discover(s) \/ TakeOffset(s)
  <2>1. /\ start'[s].pc \in {"offset", "many", "settle", "launchers", "forward"}
        /\ UNCHANGED <<launch, inbox>> /\ Unsent(s)
    BY <1>0, <1>7 DEF Discover, TakeOffset, Goto, Start
  <2>2. QED
    BY <1>2, <1>3, <2>1
<1>8. CASE Settle(s)
  <2>1. /\ start'[s].launch = start[s].launch \/ start'[s].pc = "ready"
        /\ start'[s].pc \in (IF start[s].launch = 0 THEN {"launchers", "forward"}
                             ELSE {"appear", "window", "answer", "ready"})
        /\ UNCHANGED <<launch, inbox>>
    <3>1. CASE Steams = {}
      BY <1>0, <1>8, <3>1 DEF Settle, Goto, Start
    <3>2. CASE Steams # {}
      <4>1. PICK l \in Steams :
               /\ start' = [start EXCEPT ![s].steam = l,
                                         ![s].pc = IF start[s].launch = 0 THEN "forward"
                                                   ELSE After(s)]
               /\ UNCHANGED <<launch, inbox>> /\ start[s].pc = "settle"
        BY <1>8, <3>2 DEF Settle
      <4>2. QED
        BY <1>0, <4>1 DEF After, Start
    <3>3. QED
      BY <3>1, <3>2
  <2>2. start[s].pc = "settle"
    BY <1>8 DEF Settle
  <2>3. QED
    BY <1>2, <1>3, <2>1, <2>2
<1>9. CASE Appear(s)
  <2>1. start[s].launch # 0
    BY <1>9 DEF Appear, PlaceInv
  <2>2. /\ start'[s].pc \in {"settle", "failed", "window", "answer", "ready"}
        /\ start'[s].pc = "settle" => start'[s].launch = start[s].launch
        /\ UNCHANGED <<launch, inbox>>
    <3>1. CASE \E step \in {"settle", "failed"} : Goto(s, step)
      BY <1>4, <1>9, <3>1 DEF Appear, StartSteps, Ended
    <3>2. CASE ~\E step \in {"settle", "failed"} : Goto(s, step)
      <4>1. PICK l \in Steams : start' = [start EXCEPT ![s].pc = After(s), ![s].steam = l]
        BY <1>9, <3>2 DEF Appear
      <4>2. After(s) \in {"window", "answer", "ready"}
        BY DEF After
      <4>3. start'[s].pc = After(s)
        BY <1>0, <4>1 DEF Start
      <4>4. QED
        BY <1>9, <4>2, <4>3 DEF Appear
    <3>3. QED
      BY <3>1, <3>2
  <2>3. QED
    BY <1>2, <1>3, <2>1, <2>2
<1>10. CASE Forward(s)
  <2>1. Unsent(s) /\ After(s) \in {"window", "answer", "ready"}
    BY <1>10 DEF Forward, After
  <2>2. start'[s].pc \in {"window", "answer", "ready", "forwarded"}
    <3>1. CASE Goto(s, After(s))
      BY <1>4, <1>10, <2>1, <3>1 DEF Forward, StartSteps, Ended
    <3>2. CASE ~Goto(s, After(s))
      BY <1>0, <1>10, <3>2 DEF Forward, Start
    <3>3. QED
      BY <3>1, <3>2
  <2>3. \/ UNCHANGED <<launch, inbox>>
        \/ start[s].app /\ (\/ (\E l \in Launches : Launched(l, s)) /\ inbox' = inbox
                            \/ inbox' = inbox \cup {s} /\ launch' = launch)
    BY <1>10 DEF Forward
  <2>4. QED
    BY <1>2, <1>3, <2>1, <2>2, <2>3 DEF Sends
<1>11. CASE FindLaunchers(s)
  <2>1. Unsent(s) /\ inbox' = inbox
    BY <1>11 DEF FindLaunchers
  <2>2. start'[s].pc = "failed" \/ (start'[s].pc = "appear" /\ start'[s].launch \in Launches)
    <3>1. CASE Goto(s, "failed")
      BY <1>4, <1>11, <3>1 DEF FindLaunchers, Ended
    <3>2. CASE ~Goto(s, "failed")
      <4>1. PICK l \in Launches : start' = [start EXCEPT ![s].pc = "appear", ![s].launch = l]
        BY <1>0, <1>11, <3>2 DEF FindLaunchers
      <4>2. QED
        BY <1>0, <4>1 DEF Start
    <3>3. QED
      BY <3>1, <3>2
  <2>3. \/ launch' = launch
        \/ \E l \in Launches : Launched(l, IF start[s].app THEN s ELSE None)
    BY <1>11 DEF FindLaunchers
  <2>4. StartsGoOn
    BY <1>0, <1>2, <2>1, <2>2
  <2>5. CASE launch' = launch
    BY <1>3, <2>1, <2>4, <2>5
  <2>6. CASE start[s].app /\ \E l \in Launches : Launched(l, s)
    BY <2>1, <2>2, <2>4, <2>6 DEF Sends
  <2>7. ASSUME NEW l \in Launches, Launched(l, None) PROVE Fades
    BY <1>0, <2>1, <2>7 DEF Fades, Launched
  <2>8. QED
    BY <2>3, <2>4, <2>5, <2>6, <2>7
<1>12. QED
  BY <1>5, <1>6, <1>7, <1>8, <1>9, <1>10, <1>11 DEF StartStep

\* What the other steps are to the requests.
LEMMA OtherRequests ==
    ASSUME TypeOK, PlaceInv, StopStep \/ External
    PROVE  StartsGoOn /\ (Fades \/ \E l \in Launches : Hands(l))
<1>0. /\ launch \in [Launches -> Launch] /\ None \notin Starts /\ Shutdown \notin Starts
  BY SteamSessionAssumption DEF TypeOK
<1>1. start' = start
  BY StopStepBeside, ExternalBeside
<1>2. StartsGoOn
  BY <1>1 DEF StartsGoOn, Unsent, At, PlaceInv
<1>3. CASE StopStep
  <2>1. inbox' \in {inbox, {}}
    BY <1>3, StopStepBeside
  <2>2. \A l \in Launches : launch'[l].request \in Starts =>
                               launch'[l].request = launch[l].request
    <3>1. CASE BeginStop \/ Graceful \/ TermX11 \/ KillX11 \/ RemoveSocket
      BY <3>1 DEF BeginStop, Graceful, TermX11, KillX11, RemoveSocket
    <3>2. CASE RequestShutdown
      BY <1>0, <3>2 DEF RequestShutdown, Launched
    <3>3. CASE TermSteam \/ KillSteam
      BY <1>0, <3>3 DEF TermSteam, KillSteam, End, Launch
    <3>4. CASE TermLaunchers \/ KillLaunchers
      BY <1>0, <3>4 DEF TermLaunchers, KillLaunchers, Launch
    <3>5. QED
      BY <1>3, <3>1, <3>2, <3>3, <3>4 DEF StopStep
  <2>3. QED
    BY <1>2, <2>1, <2>2 DEF Fades
<1>4. ASSUME NEW l \in Launches, BecomeSteam(l) \/ HandOver(l) PROVE Fades \/ Hands(l)
  <2>0. launch[l] \in Launch
    BY <1>0
  <2>1. CASE BecomeSteam(l) /\ \E k \in Launches : launch[k].chain = "steam"
    <3>1. inbox' = inbox /\ \A k \in Launches : launch'[k].request = launch[k].request
      BY <1>0, <2>0, <2>1 DEF BecomeSteam, Launch
    <3>2. QED
      BY <3>1 DEF Fades
  <2>2. CASE (BecomeSteam(l) /\ ~\E k \in Launches : launch[k].chain = "steam") \/ HandOver(l)
    BY <1>0, <2>0, <2>2 DEF BecomeSteam, HandOver, Hands, Launch
  <2>3. QED
    BY <1>4, <2>1, <2>2
<1>5. ASSUME NEW l \in Launches, RunPipeline(l) \/ Refuse(l) \/ ShellEnds(l) PROVE Fades
  BY <1>0, <1>5 DEF RunPipeline, Refuse, ShellEnds, Fades, Launch
<1>6. ASSUME NEW l \in Launches, StartGame(l) PROVE Fades
  BY <1>6 DEF StartGame, Fades
<1>7. ASSUME NEW l \in Launches, ShutDown(l) \/ SteamEnds(l) PROVE Fades
  <2>1. End({l})
    BY <1>7 DEF ShutDown, SteamEnds
  <2>2. inbox' \in {inbox, {}}
    BY <2>1 DEF End
  <2>3. \A k \in Launches : launch'[k].request \in {None, launch[k].request}
    BY <2>1, EndEach
  <2>4. QED
    BY <1>0, <2>2, <2>3 DEF Fades
<1>8. CASE GameEnds \/ \E s \in Servers : ServerUp(s) \/ ServerEnds(s)
  <2>1. UNCHANGED <<launch, inbox>>
    BY <1>8 DEF GameEnds, ServerUp, ServerEnds
  <2>2. QED
    BY <1>2, <2>1 DEF Fades
<1>9. QED
  BY <1>2, <1>3, <1>4, <1>5, <1>6, <1>7, <1>8 DEF External

LEMMA AskStep == TypeOK /\ LaunchInv /\ AskInv /\ Next => AskInv'
<1> SUFFICES ASSUME TypeOK, LaunchInv, AskInv, Next PROVE AskInv'
  OBVIOUS
<1>0. /\ log \in Seq(0..MaxLaunches) /\ PlaceInv
      /\ Len(log) + Cardinality(Open) <= 1 + Cardinality(Apps)
  BY DEF TypeOK, AskInv
<1>1. PlaceInv' /\ Open' \subseteq Open /\ StartsGoOn
  <2>1. CASE \E s \in Starts : StartStep(s)
    BY <1>0, <2>1, StartRequests, PlaceFades, PlaceSends
  <2>2. CASE StopStep \/ External
    BY <1>0, <2>2, OtherRequests, PlaceFades, PlaceHands
  <2>3. QED
    BY <2>1, <2>2 DEF Next
<1>2. Apps' = Apps
  BY <1>1 DEF Apps, StartsGoOn
<1>3. /\ IsFiniteSet(Open) /\ Cardinality(Open) \in Nat /\ Cardinality(Open') \in Nat
      /\ Cardinality(Open') <= Cardinality(Open) /\ Cardinality(Apps) \in Nat
  <2>1. IsFiniteSet(Starts) /\ Open \in SUBSET Starts /\ Apps \in SUBSET Starts
    BY SteamSessionAssumption DEF Open, Apps
  <2>2. IsFiniteSet(Open) /\ IsFiniteSet(Apps)
    BY <2>1, FS_Subset
  <2>3. Open' \in SUBSET Open
    BY <1>1
  <2>4. IsFiniteSet(Open') /\ Cardinality(Open') <= Cardinality(Open)
    BY <2>2, <2>3, FS_Subset
  <2>5. QED
    BY <2>2, <2>4, FS_CardinalityType
<1>4. CASE log' = log
  BY <1>0, <1>1, <1>2, <1>3, <1>4 DEF AskInv
<1>5. CASE log' # log
  <2>1. External
    BY <1>5, StartStepBeside, StopStepBeside DEF Next, Beside
  <2>2. PICK l \in Launches : StartGame(l) /\ log' = Append(log, l)
    BY <1>5, <2>1, ExternalBeside
  <2>3. PICK r \in inbox \cap Starts : inbox' = inbox \ {r}
    BY <2>2 DEF StartGame
  <2>4. UNCHANGED <<launch, start>>
    BY <2>2 DEF StartGame
  <2>5. Carried(r) /\ r \in Open
    BY <1>0, <2>3 DEF Carried, Open, PlaceInv
  <2>6. r \notin Open'
    <3>1. ~Unsent(r)'
      BY <1>0, <2>4, <2>5 DEF PlaceInv, Unsent, At
    <3>2. ~Carried(r)'
      BY <1>0, <2>3, <2>4 DEF PlaceInv, Carried
    <3>3. QED
      BY <3>1, <3>2 DEF Open
  <2>7. Cardinality(Open') <= Cardinality(Open) - 1
    <3>1. Cardinality(Open \ {r}) = Cardinality(Open) - 1 /\ IsFiniteSet(Open \ {r})
      BY <1>3, <2>5, FS_RemoveElement
    <3>2. Open' \in SUBSET (Open \ {r})
      BY <1>1, <2>6
    <3>3. QED
      BY <3>1, <3>2, FS_Subset
  <2>8. Len(log') = Len(log) + 1 /\ Len(log) \in Nat
    BY <1>0, <2>2, Numbers
  <2>9. QED
    BY <1>0, <1>1, <1>2, <1>3, <2>7, <2>8 DEF AskInv
<1>6. QED
  BY <1>4, <1>5

------------------------------------------------------------------------------
(* The theorems                                                             *)

LEMMA SessionInit == Init => SessionInv
<1> SUFFICES ASSUME Init PROVE SessionInv
  OBVIOUS
<1>1. /\ \A s \in Starts : start[s] \in Start /\ start[s].pc = "new"
      /\ start = [s \in Starts |-> start[s]]
  <2>1. \A kind \in Kinds : kind[1] \in BOOLEAN /\ kind[2] \in BOOLEAN
    BY SteamSessionAssumption
  <2>2. \A s \in Starts : \E kind \in Kinds :
           start[s] = [pc |-> "new", app |-> kind[1], back |-> kind[2], steam |-> 0,
                       launch |-> 0, offset |-> 0]
    BY DEF Init
  <2>3. ASSUME NEW s \in Starts PROVE start[s] \in Start /\ start[s].pc = "new"
    <3>1. PICK kind \in Kinds :
             start[s] = [pc |-> "new", app |-> kind[1], back |-> kind[2], steam |-> 0,
                         launch |-> 0, offset |-> 0]
      BY <2>2
    <3>2. kind[1] \in BOOLEAN /\ kind[2] \in BOOLEAN /\ 0 \in 0..MaxLaunches /\ 0 \in Nat
      BY <2>1, Numbers
    <3> DEFINE a == kind[1]
               b == kind[2]
    <3> HIDE DEF a, b
    <3>3. start[s] = [pc |-> "new", app |-> a, back |-> b, steam |-> 0, launch |-> 0,
                      offset |-> 0] /\ a \in BOOLEAN /\ b \in BOOLEAN
      BY <3>1, <3>2 DEF a, b
    <3>4. QED
      BY <3>2, <3>3 DEF Start, StartSteps
  <2>4. QED
    BY <2>3 DEF Init
<1>2. \A l \in Launches : launch[l] = [shell |-> "none", chain |-> "none", request |-> None]
  BY DEF Init
<1>3. stop \in Stop /\ stop.pc = "new"
  <2>1. PICK force \in BOOLEAN : stop = [pc |-> "new", force |-> force, booting |-> {},
                                        alone |-> TRUE]
    BY DEF Init
  <2>2. QED
    BY <2>1 DEF Stop, StopSteps
<1>4. TypeOK
  <2>1. launch \in [Launches -> Launch]
    BY DEF Init, Launch
  <2>2. server \in [Servers -> {"none", "starting", "up", "dead"}]
        /\ socket \in Servers \cup {None}
    BY DEF Init, Servers
  <2>3. log \in Seq(0..MaxLaunches)
    BY Numbers DEF Init
  <2>4. ends \in 0..MaxEnds
    BY SteamSessionAssumption DEF Init
  <2>5. start \in [Starts -> Start]
    BY <1>1
  <2>6. QED
    BY <1>3, <2>1, <2>2, <2>3, <2>4, <2>5, Numbers DEF Init, TypeOK
<1>5. LaunchInv
  BY <1>2 DEF LaunchInv
<1>6. LogInv
  <2>1. Len(log) = 1
    BY DEF Init
  <2>2. AcceptedIsOwn
    BY <1>1, <1>4 DEF AcceptedIsOwn, At
  <2>3. QED
    BY <1>1, <2>1, <2>2 DEF LogInv, Looked, At
<1>7. AskInv
  <2>1. \A s \in Starts : ~Carried(s)
    BY <1>2, SteamSessionAssumption DEF Carried, Init
  <2>2. PlaceInv
    BY <1>1, <1>2, <2>1, SteamSessionAssumption DEF PlaceInv, At
  <2>3. IsFiniteSet(Apps) /\ Open \in SUBSET Apps
    <3>1. Apps \in SUBSET Starts
      BY DEF Apps
    <3>2. QED
      BY <3>1, SteamSessionAssumption, FS_Subset DEF Open, Apps
  <2>4. Cardinality(Open) <= Cardinality(Apps) /\ Cardinality(Apps) \in Nat
        /\ Cardinality(Open) \in Nat
    BY <2>3, FS_Subset, FS_CardinalityType
  <2>5. Len(log) = 1
    BY DEF Init
  <2>6. QED
    BY <2>2, <2>4, <2>5 DEF AskInv
<1>8. StopInv
  BY <1>3 DEF StopInv
<1>9. QED
  BY <1>4, <1>5, <1>6, <1>7, <1>8 DEF SessionInv

LEMMA SessionInvariant == Spec => []SessionInv
<1>1. SessionInv /\ [Next]_vars => SessionInv'
  <2>1. CASE UNCHANGED vars
    BY <2>1 DEF vars, SessionInv, TypeOK, LaunchInv, LogInv, AskInv, PlaceInv, StopInv,
       AcceptedIsOwn, At, Unsent, Carried, Open, Apps, Shells, Steams, Found
  <2>2. CASE Next
    BY <2>2, TypeStep, LaunchStep, LogStep, AskStep, StopInvStep DEF SessionInv, LaunchOK
  <2>3. QED
    BY <2>1, <2>2
<1>2. QED
  BY <1>1, SessionInit, PTL DEF Spec

\* An acknowledgement is of a game started behind the start's look at the log, by the Steam that is
\* reported unless that had a reason not to be (AcceptedIsOwn), with the types.
THEOREM AcknowledgedIsOwn == Spec => []AcceptedIsOwn
<1>1. SessionInv => AcceptedIsOwn
  BY DEF SessionInv, LogInv
<1>2. QED
  BY <1>1, SessionInvariant, PTL

\* However starts, launchers and Steam come and go: no request starts two games (AskedOnce).
THEOREM RequestsStartOnce == Spec => []AskedOnce
<1>1. SessionInv => AskedOnce
  <2> SUFFICES ASSUME SessionInv PROVE AskedOnce
    OBVIOUS
  <2>1. /\ Len(log) + Cardinality(Open) <= 1 + Cardinality(Apps) /\ Len(log) \in Nat
    BY DEF SessionInv, AskInv, TypeOK
  <2>2. Cardinality(Open) \in Nat /\ Cardinality(Apps) \in Nat
    <3>1. Open \in SUBSET Starts /\ Apps \in SUBSET Starts /\ IsFiniteSet(Starts)
      BY SteamSessionAssumption DEF Open, Apps
    <3>2. QED
      BY <3>1, FS_Subset, FS_CardinalityType
  <2>3. QED
    BY <2>1, <2>2 DEF AskedOnce, Apps
<1>2. QED
  BY <1>1, SessionInvariant, PTL

\* A stop that no start has crossed leaves nothing but pipelines that were not Steam yet when their
\* launcher was ended (StopStops).
THEOREM StopLeavesNothing == Spec => []StopStops
<1>1. SessionInv => StopStops
  BY DEF SessionInv, StopInv, StopStops, Steams
<1>2. QED
  BY <1>1, SessionInvariant, PTL

==============================================================================
