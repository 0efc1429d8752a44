----------------------------- MODULE SteamSession -----------------------------
(***************************************************************************)
(* A Steam session: scripts/start-steam.sh brings up the X server, finds   *)
(* Steam or starts it through its launcher (bin/steam-arm), hands it a     *)
(* request and waits for the answer in Steam's log;                        *)
(* bin/steam-arm64-forward-dispatch and scripts/steam-pipe-forward.py pass *)
(* a request to a Steam that runs, scripts/wait-steam-app-launch.sh reads  *)
(* the log, and scripts/stop-steam.sh ends everything.                     *)
(*                                                                         *)
(* Nothing serialises these scripts: Starts run beside one another and     *)
(* beside the stop.  A launch is a run of the launcher: its shell, and the *)
(* chain of programs behind it that becomes Steam.  Steam is external: the *)
(* first of its processes is the session's, a later one hands over its     *)
(* arguments and ends.                                                     *)
(*                                                                         *)
(* The operators called ...Bug each hold the definition after them with    *)
(* one mistake, for mutation runs.                                         *)
(***************************************************************************)
EXTENDS Naturals, Sequences, FiniteSets

CONSTANTS
    Starts,         \* runs of start-steam.sh
    Kinds,          \* what they are asked: <<app, back>>
    Before,         \* the X server of an earlier session
    None,           \* no server, no request
    Shutdown,       \* the request of stop-steam.sh
    MaxLaunches,    \* bound: runs of the launcher
    MaxEnds         \* bound: Steam processes and X servers that end by themselves

VARIABLES
    server,         \* the X servers, named for the start that runs them
    socket,         \* whose X socket is at the path, alive or not
    launch,         \* the launches
    inbox,          \* requests Steam has received and not acted on
    game,           \* the launch whose Steam runs the game, or 0
    log,            \* gameprocess_log.txt: for each game started, the launch of its Steam
    start,          \* the runs of start-steam.sh
    stop,           \* the run of stop-steam.sh
    ends

vars == <<server, socket, launch, inbox, game, log, start, stop, ends>>

------------------------------------------------------------------------------
(* Data *)

ASSUME SteamSessionAssumption ==
    /\ None \notin Starts /\ Before \notin Starts /\ Shutdown \notin Starts
    /\ Before # None /\ Shutdown # None
    /\ Kinds \subseteq BOOLEAN \X BOOLEAN /\ IsFiniteSet(Starts)
    /\ MaxLaunches \in Nat \ {0} /\ MaxEnds \in Nat

Servers == Starts \cup {Before}

Launches == 1..MaxLaunches

\* shell: the launcher's shell, before and after it has begun the pipeline; chain: what runs
\* in the pipeline, steam and second once it is Steam.
Launch == [shell : {"none", "script", "waiting", "gone"},
           chain : {"none", "boot", "steam", "second", "gone"},
           request : Starts \cup {None, Shutdown}]

StartSteps == {"new", "xready", "unlink", "server", "xwait", "xsettle", "display", "discover",
               "offset", "many", "settle", "forward", "forwarded", "launchers", "appear", "answer",
               "window"}

Ended == {"accepted", "ready", "failed"}

\* app: a game is asked for; back: background_mode; steam: steam_pids[0]; launch: launcher_pid,
\* or the one that forwards; offset: gameprocess_log_offset.
Start == [pc : StartSteps \cup Ended, app : BOOLEAN, back : BOOLEAN,
          steam : 0..MaxLaunches, launch : 0..MaxLaunches, offset : Nat]

StopSteps == {"new", "look", "graceful", "term", "launchers", "kill", "killall", "xterm", "xkill",
              "socket"}

\* booting: launches signalled before their chain was Steam; alone: no start has run since it began.
Stop == [pc : StopSteps \cup {"stopped", "refused"}, force : BOOLEAN,
         booting : SUBSET Launches, alone : BOOLEAN]

\* An earlier session has left its X server, its socket, or nothing; its log has an entry.
Init ==
    /\ server \in [Servers -> {"none", "up"}]
    /\ \A s \in Starts : server[s] = "none"
    /\ socket \in {None, Before}
    /\ server[Before] = "up" => socket = Before
    /\ launch = [l \in Launches |-> [shell |-> "none", chain |-> "none", request |-> None]]
    /\ inbox = {}
    /\ game = 0
    /\ log = <<0>>
    /\ start \in [Starts -> {[pc |-> "new", app |-> kind[1], back |-> kind[2], steam |-> 0,
                              launch |-> 0, offset |-> 0] : kind \in Kinds}]
    /\ stop \in {[pc |-> "new", force |-> force, booting |-> {}, alone |-> TRUE] :
                 force \in BOOLEAN}
    /\ ends = 0

Live == {s \in Servers : server[s] = "up"}

\* Servers that pgrep finds, whether or not they answer yet.
Found == {s \in Servers : server[s] \in {"starting", "up"}}

Reachable == socket # None /\ server[socket] = "up"

\* matching_pids steam, matching_pids launcher.
Steams == {l \in Launches : launch[l].chain \in {"steam", "second"}}

Shells == {l \in Launches : launch[l].shell \in {"script", "waiting"}}

Running(s) == start[s].pc \notin {"new"} \cup Ended

At(s, step) == start[s].pc = step

\* A start that takes a step since the stop has begun.
Seen == stop' = IF stop.pc = "new" THEN stop ELSE [stop EXCEPT !.alone = FALSE]

\* A start that ends without an acknowledgement forgets what it has found.
Goto(s, step) ==
    /\ start' = IF step \in {"ready", "failed"}
                THEN [start EXCEPT ![s] = [@ EXCEPT !.pc = step, !.steam = 0, !.launch = 0,
                                                    !.offset = 0]]
                ELSE [start EXCEPT ![s].pc = step]
    /\ Seen

\* The launcher is run with a request.
Fresh == {l \in Launches : launch[l].shell = "none"}

Launched(l, request) ==
    /\ l \in Fresh /\ \A k \in Fresh : l <= k
    /\ launch' = [launch EXCEPT ![l] = [shell |-> "script", chain |-> "none",
                                        request |-> request]]

------------------------------------------------------------------------------
(* start-steam.sh *)

\* mapfile x11_pids: none is a cold start, one is used, two are refused.
Begin(s) ==
    /\ At(s, "new")
    /\ Goto(s, IF Found = {} THEN "xready" ELSE IF Cardinality(Found) = 1 THEN "display"
               ELSE "failed")
    /\ UNCHANGED <<server, socket, launch, inbox, game, log, ends>>

\* A display that answers without a server is refused.
XReady(s) ==
    /\ At(s, "xready")
    /\ Goto(s, IF Reachable THEN "failed" ELSE "unlink")
    /\ UNCHANGED <<server, socket, launch, inbox, game, log, ends>>

\* What is at the path was a dead server's when it was looked at.
UnlinkSocket(s) ==
    /\ At(s, "unlink")
    /\ socket' = None
    /\ Goto(s, "server")
    /\ UNCHANGED <<server, launch, inbox, game, log, ends>>

RunServer(s) ==
    /\ At(s, "server")
    /\ server' = [server EXCEPT ![s] = "starting"]
    /\ Goto(s, "xwait")
    /\ UNCHANGED <<socket, launch, inbox, game, log, ends>>

\* wait_for_x11 asks the display, whoever serves it.
WaitForX11(s) ==
    /\ At(s, "xwait")
    /\ Reachable
    /\ Goto(s, "xsettle")
    /\ UNCHANGED <<server, socket, launch, inbox, game, log, ends>>

SettleX11(s) ==
    /\ At(s, "xsettle")
    /\ Cardinality(Found) = 1
    /\ Goto(s, "display")
    /\ UNCHANGED <<server, socket, launch, inbox, game, log, ends>>

\* The checks of a server that is used, down to its input devices.
UseDisplay(s) ==
    /\ At(s, "display")
    /\ Reachable
    /\ Goto(s, "discover")
    /\ UNCHANGED <<server, socket, launch, inbox, game, log, ends>>

\* What follows once Steam is known to run and to have the request.
After(s) ==
    IF ~start[s].back THEN "window" ELSE IF start[s].app THEN "answer" ELSE "ready"

\* steam_pids is read before the log's size, and acted on after it.
Discover(s) ==
    /\ At(s, "discover")
    /\ \/ /\ Steams = {}
          /\ Goto(s, "offset")
       \/ /\ Cardinality(Steams) > 1
          /\ Goto(s, "many")
       \/ \E l \in Steams :
             /\ Steams = {l}
             /\ start' = [start EXCEPT ![s].pc = "offset", ![s].steam = l]
             /\ Seen
    /\ UNCHANGED <<server, socket, launch, inbox, game, log, ends>>

\* The log is read from its beginning.
TakeOffsetBug(s) ==
    /\ start[s].pc \in {"offset", "many"}
    /\ Goto(s, IF At(s, "many") THEN "settle"
               ELSE IF start[s].steam = 0 THEN "launchers" ELSE "forward")
    /\ UNCHANGED <<server, socket, launch, inbox, game, log, ends>>

TakeOffset(s) ==
    /\ start[s].pc \in {"offset", "many"}
    /\ start' = [start EXCEPT ![s].offset = Len(log),
                              ![s].pc = IF At(s, "many") THEN "settle"
                                        ELSE IF start[s].steam = 0 THEN "launchers"
                                        ELSE "forward"]
    /\ Seen
    /\ UNCHANGED <<server, socket, launch, inbox, game, log, ends>>

\* Until one Steam process is left, or none: before a launcher was run or found, or after.
Settle(s) ==
    /\ At(s, "settle")
    /\ \/ /\ Steams = {}
          /\ Goto(s, IF start[s].launch = 0 THEN "launchers" ELSE "appear")
       \/ \E l \in Steams :
             /\ Steams = {l}
             /\ start' = [start EXCEPT ![s].steam = l,
                                       ![s].pc = IF start[s].launch = 0 THEN "forward"
                                                 ELSE After(s)]
             /\ Seen
    /\ UNCHANGED <<server, socket, launch, inbox, game, log, ends>>

\* The request is left in the pipe and the launcher is run with it.
ForwardBug(s) ==
    /\ At(s, "forward")
    /\ inbox' = IF launch[start[s].steam].chain = "steam" THEN inbox \cup {s} ELSE inbox
    /\ \E l \in Launches :
          /\ Launched(l, IF start[s].app THEN s ELSE None)
          /\ start' = [start EXCEPT ![s].pc = "forwarded", ![s].launch = l]
    /\ Seen
    /\ UNCHANGED <<server, socket, game, log, ends>>

\* The dispatcher writes the request to the pipe of the Steam it was told of, or runs the
\* launcher with it.
Forward(s) ==
    /\ At(s, "forward")
    /\ \/ /\ ~start[s].app
          /\ Goto(s, After(s))
          /\ UNCHANGED <<launch, inbox>>
       \/ /\ start[s].app
          /\ launch[start[s].steam].chain = "steam"
          /\ inbox' = inbox \cup {s}
          /\ Goto(s, After(s))
          /\ UNCHANGED launch
       \/ /\ start[s].app
          /\ \E l \in Launches :
                /\ Launched(l, s)
                /\ start' = [start EXCEPT ![s].pc = "forwarded", ![s].launch = l]
          /\ Seen
          /\ UNCHANGED inbox
    /\ UNCHANGED <<server, socket, game, log, ends>>

\* It waits for the launcher it has run.
Forwarded(s) ==
    /\ At(s, "forwarded")
    /\ launch[start[s].launch].shell = "gone"
    /\ Goto(s, After(s))
    /\ UNCHANGED <<server, socket, launch, inbox, game, log, ends>>

\* A launcher that is found is waited for, and nothing is sent to it.
FindLaunchers(s) ==
    /\ At(s, "launchers")
    /\ \/ /\ Shells = {}
          /\ \E l \in Launches :
                /\ Launched(l, IF start[s].app THEN s ELSE None)
                /\ start' = [start EXCEPT ![s].pc = "appear", ![s].launch = l]
          /\ Seen
       \/ /\ Cardinality(Shells) > 1
          /\ Goto(s, "failed")
          /\ UNCHANGED launch
       \/ \E l \in Shells :
             /\ Shells = {l}
             /\ start' = [start EXCEPT ![s].pc = "appear", ![s].launch = l]
             /\ Seen
             /\ UNCHANGED launch
    /\ UNCHANGED <<server, socket, inbox, game, log, ends>>

\* Steam is looked for before the launcher: its death is a failure only without Steam.
Appear(s) ==
    /\ At(s, "appear")
    /\ \/ /\ Cardinality(Steams) > 1
          /\ Goto(s, "settle")
       \/ /\ Steams = {}
          /\ launch[start[s].launch].shell = "gone"
          /\ Goto(s, "failed")
       \/ \E l \in Steams :
             /\ Steams = {l}
             /\ start' = [start EXCEPT ![s].pc = After(s), ![s].steam = l]
             /\ Seen
    /\ UNCHANGED <<server, socket, launch, inbox, game, log, ends>>

\* wait-steam-app-launch.sh: the game is named in the log behind the offset, and Steam is still
\* the process it was.
Answer(s) ==
    /\ At(s, "answer")
    /\ \/ /\ start[s].steam \notin Steams
          /\ Goto(s, "failed")
       \/ /\ start[s].steam \in Steams
          /\ Len(log) > start[s].offset
          /\ Goto(s, "accepted")
    /\ UNCHANGED <<server, socket, launch, inbox, game, log, ends>>

\* A visible window of a Steam that is still the process it was.
Window(s) ==
    /\ At(s, "window")
    /\ Goto(s, IF start[s].steam \in Steams THEN "ready" ELSE "failed")
    /\ UNCHANGED <<server, socket, launch, inbox, game, log, ends>>

\* Any wait may reach its limit and any check fail; what was begun goes on without it.
Fail(s) ==
    /\ Running(s)
    /\ Goto(s, "failed")
    /\ UNCHANGED <<server, socket, launch, inbox, game, log, ends>>

StartStep(s) ==
    \/ Begin(s) \/ XReady(s) \/ UnlinkSocket(s) \/ RunServer(s) \/ WaitForX11(s)
    \/ SettleX11(s) \/ UseDisplay(s) \/ Discover(s) \/ TakeOffset(s) \/ Settle(s)
    \/ Forward(s) \/ Forwarded(s) \/ FindLaunchers(s) \/ Appear(s) \/ Answer(s) \/ Window(s)
    \/ Fail(s)

------------------------------------------------------------------------------
(* stop-steam.sh *)

\* A game protects the session unless the stop is forced.
BeginStop ==
    /\ stop.pc = "new"
    /\ stop' = [stop EXCEPT !.pc = IF game # 0 /\ ~stop.force THEN "refused" ELSE "look",
                            !.alone = \A s \in Starts : ~Running(s)]
    /\ UNCHANGED <<server, socket, launch, inbox, game, log, start, ends>>

\* The launcher is run with -shutdown if Steam is there now.
RequestShutdown ==
    /\ stop.pc = "look"
    /\ IF Steams = {}
       THEN stop' = [stop EXCEPT !.pc = "term"] /\ UNCHANGED launch
       ELSE /\ stop' = [stop EXCEPT !.pc = "graceful"]
            /\ \E l \in Launches : Launched(l, Shutdown)
    /\ UNCHANGED <<server, socket, inbox, game, log, start, ends>>

\* Until Steam is gone, or for steam_timeout.
Graceful ==
    /\ stop.pc = "graceful"
    /\ stop' = [stop EXCEPT !.pc = "term"]
    /\ UNCHANGED <<server, socket, launch, inbox, game, log, start, ends>>

\* The end of Steam processes: the game goes with its Steam, requests with the session's.
End(S) ==
    /\ launch' = [l \in Launches |-> IF l \in S THEN [launch[l] EXCEPT !.chain = "gone",
                                                                 !.request = None]
                                     ELSE launch[l]]
    /\ inbox' = IF \E l \in S : launch[l].chain = "steam" THEN {} ELSE inbox
    /\ game' = IF game \in S THEN 0 ELSE game

\* TERM ends them or does not.
TermSteam ==
    /\ stop.pc = "term"
    /\ \E S \in SUBSET Steams : End(S)
    /\ stop' = [stop EXCEPT !.pc = "launchers"]
    /\ UNCHANGED <<server, socket, log, start, ends>>

\* A shell ends at once, before its pipeline or in front of it; the pipeline does not.
TermLaunchers ==
    /\ stop.pc = "launchers"
    /\ launch' = [l \in Launches |-> IF l \in Shells THEN [launch[l] EXCEPT !.shell = "gone"]
                                     ELSE launch[l]]
    /\ stop' = [stop EXCEPT !.pc = "kill",
                            !.booting = {l \in Launches : launch[l].chain = "boot"}]
    /\ UNCHANGED <<server, socket, inbox, game, log, start, ends>>

\* Only the session's Steam is ended, not one that was about to hand over.
KillSteamBug ==
    /\ stop.pc = "kill"
    /\ End({l \in Steams : launch[l].chain = "steam"})
    /\ stop' = [stop EXCEPT !.pc = "killall"]
    /\ UNCHANGED <<server, socket, log, start, ends>>

KillSteam ==
    /\ stop.pc = "kill"
    /\ End(Steams)
    /\ stop' = [stop EXCEPT !.pc = "killall"]
    /\ UNCHANGED <<server, socket, log, start, ends>>

KillLaunchers ==
    /\ stop.pc = "killall"
    /\ launch' = [l \in Launches |-> IF l \in Shells THEN [launch[l] EXCEPT !.shell = "gone"]
                                     ELSE launch[l]]
    /\ stop' = [stop EXCEPT !.pc = "xterm"]
    /\ UNCHANGED <<server, socket, inbox, game, log, start, ends>>

TermX11 ==
    /\ stop.pc = "xterm"
    /\ \E S \in SUBSET Found :
          server' = [s \in Servers |-> IF s \in S THEN "dead" ELSE server[s]]
    /\ stop' = [stop EXCEPT !.pc = "xkill"]
    /\ UNCHANGED <<socket, launch, inbox, game, log, start, ends>>

KillX11 ==
    /\ stop.pc = "xkill"
    /\ server' = [s \in Servers |-> IF s \in Found THEN "dead" ELSE server[s]]
    /\ stop' = [stop EXCEPT !.pc = "socket"]
    /\ UNCHANGED <<socket, launch, inbox, game, log, start, ends>>

\* The socket file of a server that is gone.
RemoveSocket ==
    /\ stop.pc = "socket"
    /\ socket' = IF Found = {} /\ ~Reachable THEN None ELSE socket
    /\ stop' = [stop EXCEPT !.pc = "stopped"]
    /\ UNCHANGED <<server, launch, inbox, game, log, start, ends>>

StopStep ==
    \/ BeginStop \/ RequestShutdown \/ Graceful \/ TermSteam \/ TermLaunchers \/ KillSteam
    \/ KillLaunchers \/ TermX11 \/ KillX11 \/ RemoveSocket

------------------------------------------------------------------------------
(* The launcher, Steam and the X server *)

\* The launcher's checks: it refuses, or runs the pipeline.
RunPipeline(l) ==
    /\ launch[l].shell = "script"
    /\ launch' = [launch EXCEPT ![l].shell = "waiting", ![l].chain = "boot"]
    /\ UNCHANGED <<server, socket, inbox, game, log, start, stop, ends>>

Refuse(l) ==
    /\ launch[l].shell = "script"
    /\ launch' = [launch EXCEPT ![l].shell = "gone", ![l].request = None]
    /\ UNCHANGED <<server, socket, inbox, game, log, start, stop, ends>>

\* exec of Steam: the session's, with its request, or one that hands it over.
BecomeSteam(l) ==
    /\ launch[l].chain = "boot"
    /\ IF \E k \in Launches : launch[k].chain = "steam"
       THEN launch' = [launch EXCEPT ![l].chain = "second"] /\ UNCHANGED inbox
       ELSE /\ launch' = [launch EXCEPT ![l].chain = "steam", ![l].request = None]
            /\ inbox' = inbox \cup ({launch[l].request} \ {None})
    /\ UNCHANGED <<server, socket, game, log, start, stop, ends>>

\* The second process finds the session's at its pipe, or takes its place.
HandOver(l) ==
    /\ launch[l].chain = "second"
    /\ launch' = [launch EXCEPT ![l].chain = IF \E k \in Launches : launch[k].chain = "steam"
                                             THEN "gone" ELSE "steam",
                              ![l].request = None]
    /\ inbox' = inbox \cup ({launch[l].request} \ {None})
    /\ UNCHANGED <<server, socket, game, log, start, stop, ends>>

\* Steam acts on a request: a game that is not running is started, or cannot be.
StartGame(l) ==
    /\ launch[l].chain = "steam"
    /\ \E r \in inbox \cap Starts :
          /\ inbox' = inbox \ {r}
          /\ \/ /\ game = 0
                /\ game' = l
                /\ log' = Append(log, l)
             \/ UNCHANGED <<game, log>>
    /\ UNCHANGED <<server, socket, launch, start, stop, ends>>

ShutDown(l) ==
    /\ launch[l].chain = "steam" /\ Shutdown \in inbox
    /\ End({l})
    /\ UNCHANGED <<server, socket, log, start, stop, ends>>

\* By itself: its user quits it, it crashes, or the Android system ends it.
SteamEnds(l) ==
    /\ ends < MaxEnds /\ ends' = ends + 1
    /\ launch[l].chain \in {"boot", "steam", "second"}
    /\ End({l})
    /\ UNCHANGED <<server, socket, log, start, stop>>

\* The pipeline has ended.
ShellEnds(l) ==
    /\ launch[l].shell = "waiting" /\ launch[l].chain = "gone"
    /\ launch' = [launch EXCEPT ![l].shell = "gone"]
    /\ UNCHANGED <<server, socket, inbox, game, log, start, stop, ends>>

GameEnds ==
    /\ game # 0
    /\ game' = 0
    /\ UNCHANGED <<server, socket, launch, inbox, log, start, stop, ends>>

\* A server binds the socket, unless another one answers there; one whose socket file was
\* taken away may keep it from starting or not.
ServerUp(s) ==
    /\ server[s] = "starting"
    /\ \/ /\ ~Reachable
          /\ server' = [server EXCEPT ![s] = "up"]
          /\ socket' = s
       \/ /\ Live # {}
          /\ server' = [server EXCEPT ![s] = "dead"]
          /\ UNCHANGED socket
    /\ UNCHANGED <<launch, inbox, game, log, start, stop, ends>>

ServerEnds(s) ==
    /\ ends < MaxEnds /\ ends' = ends + 1
    /\ s \in Found
    /\ server' = [server EXCEPT ![s] = "dead"]
    /\ UNCHANGED <<socket, launch, inbox, game, log, start, stop>>

External ==
    \/ \E l \in Launches :
          \/ RunPipeline(l) \/ Refuse(l) \/ BecomeSteam(l) \/ HandOver(l) \/ StartGame(l)
          \/ ShutDown(l) \/ SteamEnds(l) \/ ShellEnds(l)
    \/ GameEnds
    \/ \E s \in Servers : ServerUp(s) \/ ServerEnds(s)

Next == (\E s \in Starts : StartStep(s)) \/ StopStep \/ External

Spec == Init /\ [][Next]_vars

------------------------------------------------------------------------------
(* Properties *)

TypeOK ==
    /\ server \in [Servers -> {"none", "starting", "up", "dead"}]
    /\ socket \in Servers \cup {None}
    /\ launch \in [Launches -> Launch]
    /\ inbox \subseteq Starts \cup {Shutdown}
    /\ game \in 0..MaxLaunches /\ (game # 0 => launch[game].chain = "steam")
    /\ log \in Seq(0..MaxLaunches)
    /\ start \in [Starts -> Start]
    /\ stop \in Stop
    /\ ends \in 0..MaxEnds

\* "AppID ... accepted in background": the game was started behind the start's look at the log,
\* and by the Steam that is reported, unless the one that started it has ended meanwhile or the
\* process that was found was still to hand over to it.  With the types.
AcceptedIsOwn ==
    TypeOK /\ \A s \in Starts : At(s, "accepted") =>
        \E i \in (start[s].offset + 1)..Len(log) :
            log[i] # start[s].steam =>
                /\ log[i] \in Launches
                /\ launch[log[i]].chain = "gone" \/ launch[start[s].steam].chain # "steam"

\* A request reaches a game once, by the pipe or by the launcher, though Steam, its launcher and
\* the starts come and go between: there are no more games than starts that ask for one.
AskedOnce == Len(log) - 1 <= Cardinality({s \in Starts : start[s].app})

\* What a stop leaves that no start has crossed: no shell of the launcher, no X server and no
\* socket, and of Steam only what comes of a pipeline that was not Steam yet when its launcher
\* was ended: another Steam, also one that handed over or was asked to shut down, is gone.  The
\* message of the stop says more: EverythingStopped.
StopStops ==
    (stop.pc = "stopped" /\ stop.alone) =>
        /\ Shells = {} /\ Found = {} /\ socket = None
        /\ \A l \in Launches :
              launch[l].chain \in {"boot", "steam", "second"} => l \in stop.booting

\* "Steam, session helpers, and X display ... are stopped" (stop-steam.sh:233): when this is
\* said, and no start has crossed the stop, no Steam runs.  The code looks for Steam a last time
\* before it, and a pipeline whose launcher it has ended becomes Steam after that look.
EverythingStopped ==
    [][(stop.pc # "stopped" /\ stop'.pc = "stopped" /\ stop.alone) => Steams = {}]_vars

==============================================================================
