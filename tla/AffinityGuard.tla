---------------------------- MODULE AffinityGuard ----------------------------
(***************************************************************************)
(* The affinity guard of Tomb Raider (scripts/set-tombraider-affinity.py   *)
(* --watch --raknet-cpu1 --wait-for-cpu-log): it waits for the game, lets  *)
(* it count its processors undisturbed until the count is in the game's    *)
(* log, moves its threads and those of its helpers to their processors     *)
(* poll after poll, and reports when all has been in place for a while.    *)
(*                                                                         *)
(* The game, Steam's helpers and the wineserver are other processes: they  *)
(* start and end, and change their masks, between any two steps of the     *)
(* guard, and one game may follow another under the same guard.            *)
(*                                                                         *)
(* The operators called ...Bug each hold the definition after them with    *)
(* one mistake, for mutation runs.                                         *)
(***************************************************************************)
EXTENDS Naturals, Sequences

CONSTANTS
    MaxGames,       \* bound: games
    MaxChanges,     \* bound: changes the other processes make to masks and windows
    Stable          \* polls in stable_seconds

VARIABLES
    game,           \* the game that runs
    log,            \* the counts in Tomb Raider.log
    others,         \* Steam's helper and the wineserver
    window,         \* is the game's window visible?
    guard,
    changes

vars == <<game, log, others, window, guard, changes>>

------------------------------------------------------------------------------
(* Data *)

AffinityGuardAssumption == MaxGames \in Nat /\ MaxChanges \in Nat /\ Stable \in Nat \ {0}

\* own: a mask the game has chosen or was started with; target: CPUs 1-7; net: CPU 1.
Masks == {"absent", "own", "target", "net"}

Threads == {"main", "net"}

\* The network thread comes last.  disturbed: somebody set its masks while it probed; polls: how
\* often the guard has found it.
Game == [id : 0..MaxGames, phase : {"none", "probe", "counted", "play"},
         mask : [Threads -> Masks], disturbed : BOOLEAN, polls : 0..(Stable + 1)]

Others == [{"helper", "server"} -> {"absent", "wrong", "right"}]

\* pid: the game of this poll; tracked: tracked_pid; topology: topology_ready; isolate: the
\* network thread was there when the masks were read; ready: what this poll has found in place;
\* since: stable_since, in polls, 0 for None; offset: cpu_log_offset.
Guard == [pc : {"look", "topology", "converge", "verify", "others", "settle", "final", "end"},
          tracked : 0..MaxGames, topology : BOOLEAN, isolate : BOOLEAN,
          ready : SUBSET {"game", "others"}, since : 0..Stable, offset : 0..(MaxGames + 1),
          exit : {"none", "ready", "failed"}]

NoGame(id) == [id |-> id, phase |-> "none", mask |-> [t \in Threads |-> "absent"],
               disturbed |-> FALSE, polls |-> 0]

\* A guard that starts: what is in the log already is of earlier launches.
Started(old) == [pc |-> "look", tracked |-> 0, topology |-> FALSE, isolate |-> FALSE,
                 ready |-> {}, since |-> 0, offset |-> Len(old), exit |-> "none"]

Init ==
    /\ game = NoGame(0)
    /\ log \in {<<>>, <<"good">>}
    /\ others \in [{"helper", "server"} -> {"absent", "wrong"}]
    /\ window = FALSE
    /\ guard = Started(log)
    /\ changes = 0

Alive == game.phase # "none"

\* guard.tracked names the game of this poll from Look on.
Watched == Alive /\ game.id = guard.tracked

Step(pc) == guard' = [guard EXCEPT !.pc = pc]

Fail == guard' = [guard EXCEPT !.pc = "end", !.exit = "failed"]

------------------------------------------------------------------------------
(* The guard: one poll *)

Forget == [guard EXCEPT !.pc = "look", !.tracked = 0, !.since = 0]

FollowBug == [guard EXCEPT !.tracked = game.id]

\* A game that was not the one before starts the interval anew.
Follow ==
    IF guard.tracked = game.id THEN guard
    ELSE [guard EXCEPT !.tracked = game.id, !.since = 0]

\* At the top of the loop: the deadline is checked here too (GiveUp).
Look ==
    /\ guard.pc = "look"
    /\ IF Alive
       THEN /\ guard' = [Follow EXCEPT !.pc = IF guard.topology THEN "converge" ELSE "topology"]
            /\ game' = [game EXCEPT !.polls = IF @ <= Stable THEN @ + 1 ELSE @]
       ELSE guard' = Forget /\ UNCHANGED game
    /\ UNCHANGED <<log, others, window, changes>>

\* A log shorter than the offset was begun again.
Offset == IF Len(log) < guard.offset THEN 0 ELSE guard.offset

\* fresh_cpu_count, and what the loop does with it.
Topology ==
    /\ guard.pc = "topology"
    /\ IF ~Watched THEN guard' = Forget
       ELSE IF Len(log) = Offset THEN guard' = [guard EXCEPT !.pc = "look", !.offset = Offset]
       ELSE IF log[Offset + 1] = "bad" THEN Fail
       ELSE guard' = [guard EXCEPT !.pc = "converge", !.topology = TRUE, !.offset = Offset + 1]
    /\ UNCHANGED <<game, log, others, window, changes>>

\* expected_mask: the network thread has a processor of its own, once there is one.
Expected(thread, isolate) == IF isolate /\ thread = "net" THEN "net" ELSE "target"

InPlace(isolate) ==
    \A t \in Threads : game.mask[t] \in {"absent", Expected(t, isolate)}

HasNet == game.mask["net"] # "absent"

\* The first read of converge_game_affinity, and taskset if a mask is not in place.
Converge ==
    /\ guard.pc = "converge"
    /\ IF ~Watched THEN guard' = Forget /\ UNCHANGED game
       ELSE IF InPlace(HasNet)
       THEN /\ guard' = [guard EXCEPT !.pc = "others", !.isolate = HasNet,
                                      !.ready = IF HasNet THEN {"game"} ELSE {}]
            /\ UNCHANGED game
       ELSE /\ guard' = [guard EXCEPT !.pc = "verify", !.isolate = HasNet, !.ready = {}]
            /\ game' = [game EXCEPT
                  !.mask = [t \in Threads |-> IF @[t] = "absent" THEN "absent"
                                              ELSE Expected(t, HasNet)],
                  !.disturbed = @ \/ game.phase = "probe"]
    /\ UNCHANGED <<log, others, window, changes>>

\* The second read: the threads may have changed their masks, or there may be a new one.
Verify ==
    /\ guard.pc = "verify"
    /\ IF ~Watched THEN guard' = Forget
       ELSE guard' = [guard EXCEPT !.pc = "others",
                        !.ready = IF guard.isolate /\ InPlace(TRUE) THEN {"game"} ELSE {}]
    /\ UNCHANGED <<game, log, others, window, changes>>

\* Steam's helper and the wineserver get their masks; one that is not there is not ready.
Align ==
    /\ guard.pc = "others"
    /\ others' = [o \in DOMAIN others |-> IF others[o] = "wrong" THEN "right" ELSE others[o]]
    /\ guard' = [guard EXCEPT !.pc = "settle",
                    !.ready = IF \A o \in DOMAIN others : others[o] # "absent"
                              THEN @ \cup {"others"} ELSE @]
    /\ UNCHANGED <<game, log, window, changes>>

Settled == window /\ guard.ready = {"game", "others"}

SettleBug ==
    /\ guard.pc = "settle"
    /\ IF ~Settled THEN guard' = [guard EXCEPT !.pc = "look", !.since = 0]
       ELSE guard' = [guard EXCEPT !.pc = IF guard.since >= Stable THEN "final" ELSE "look",
                                   !.since = 1]
    /\ UNCHANGED <<game, log, others, window, changes>>

\* The interval begins with the first poll that finds all in place.
Settle ==
    /\ guard.pc = "settle"
    /\ IF ~Settled THEN guard' = [guard EXCEPT !.pc = "look", !.since = 0]
       ELSE IF guard.since >= Stable THEN Step("final")
       ELSE guard' = [guard EXCEPT !.pc = "look", !.since = @ + 1]
    /\ UNCHANGED <<game, log, others, window, changes>>

\* The last check is not retried: what it finds out of place ends the guard.
Final ==
    /\ guard.pc = "final"
    /\ IF Watched /\ HasNet /\ InPlace(TRUE)
       THEN guard' = [guard EXCEPT !.pc = "end", !.exit = "ready"]
       ELSE Fail
    /\ UNCHANGED <<game, log, others, window, changes>>

\* The deadline; taskset that cannot be run; a process outside Android's foreground group.
GiveUp ==
    /\ guard.pc \in {"look", "topology", "converge", "others"}
    /\ Fail
    /\ UNCHANGED <<game, log, others, window, changes>>

------------------------------------------------------------------------------
(* The other processes *)

\* A new game begins its log again or goes on with it.
StartGame ==
    /\ ~Alive /\ game.id < MaxGames
    /\ game' = [NoGame(game.id + 1) EXCEPT !.phase = "probe", !.mask["main"] = "own"]
    /\ log' \in {log, <<>>}
    /\ UNCHANGED <<others, window, guard, changes>>

\* A probe that was disturbed counts wrong, or not; one that was not may be wrong too.
Count ==
    /\ game.phase = "probe"
    /\ game' = [game EXCEPT !.phase = "counted"]
    /\ \E count \in {"good", "bad"} : log' = Append(log, count)
    /\ UNCHANGED <<others, window, guard, changes>>

\* The network thread has the mask of the thread that makes it.
Connect ==
    /\ game.phase = "counted"
    /\ game' = [game EXCEPT !.phase = "play", !.mask["net"] = game.mask["main"]]
    /\ UNCHANGED <<log, others, window, guard, changes>>

EndGame ==
    /\ Alive
    /\ game' = NoGame(game.id)
    /\ window' = FALSE
    /\ UNCHANGED <<log, others, guard, changes>>

ShowWindow ==
    /\ game.phase \in {"counted", "play"} /\ ~window
    /\ window' = TRUE
    /\ UNCHANGED <<game, log, others, guard, changes>>

\* A thread sets its own mask again, a window is hidden, a helper starts or ends.
Change ==
    /\ changes < MaxChanges
    /\ changes' = changes + 1
    /\ \/ \E t \in Threads :
            /\ Alive /\ game.mask[t] # "absent"
            /\ game' = [game EXCEPT !.mask[t] = "own"]
            /\ UNCHANGED <<others, window>>
       \/ window /\ window' = FALSE /\ UNCHANGED <<game, others>>
       \/ \E o \in DOMAIN others :
            /\ others' = [others EXCEPT ![o] = IF @ = "wrong" THEN "absent" ELSE "wrong"]
            /\ UNCHANGED <<game, window>>
    /\ UNCHANGED <<log, guard>>

------------------------------------------------------------------------------

GuardSteps == Look \/ Topology \/ Converge \/ Verify \/ Align \/ Settle \/ Final

Next ==
    \/ GuardSteps \/ GiveUp
    \/ StartGame \/ Count \/ Connect \/ EndGame \/ ShowWindow \/ Change

\* The guard goes on; nothing is asked of the other processes.
Spec == Init /\ [][Next]_vars /\ WF_vars(GuardSteps)

------------------------------------------------------------------------------
(* Properties *)

\* The first game under a guard counts its processors undisturbed, whatever the log holds from
\* earlier launches, and whether the game goes on with that log or begins it again.
FirstProbeUndisturbed == game.disturbed => game.id > 1

\* What the guard reports ready is a game it has found in as many polls as the interval asks
\* for (another game that took its place between two polls starts the interval anew), with its
\* network thread on a processor of its own and every other thread on the target ones.
ReadyStep ==
    guard.exit = "none" /\ guard'.exit = "ready" =>
        /\ Watched /\ game.polls > Stable /\ guard.topology
        /\ game.mask = [main |-> "target", net |-> "net"]

\* The guard keeps its hands off a game that probes, and reports one that it has set up.
GuardIsRight == []FirstProbeUndisturbed /\ [][ReadyStep]_vars

\* A game that goes on, with its helpers and its window there, is reported or the guard fails:
\* setting the masks and reading them again does not go on for ever.
GameStays ==
    /\ game.phase = "play" /\ window /\ guard.topology
    /\ \A o \in DOMAIN others : others[o] # "absent"

GuardReports == <>[]GameStays => <>(guard.exit # "none")
===============================================================================
