------------------------------ MODULE LaunchTimer ------------------------------
(***************************************************************************)
(* The timer of a launch (scripts/time-steam-game-launch.py): it polls     *)
(* Steam's logs for the session and the launch, the processes and the logs *)
(* of DXVK for the stages of the launch, and the display for the window of *)
(* the game, until that has been there for some time.  A session that      *)
(* Steam starts anew begins another attempt.                               *)
(*                                                                         *)
(* Steam, the game and the window change between any two steps of a poll.  *)
(*                                                                         *)
(* The operators called ...Bug each hold the definition after them with    *)
(* one mistake, for mutation runs.                                         *)
(***************************************************************************)
EXTENDS Naturals, Sequences

CONSTANTS
    StablePolls,    \* --window-stable-seconds in polls
    MaxSessions,    \* bound: sessions that Steam starts
    MaxFlips        \* bound: games that end, windows that hide, logs that are cut

VARIABLES
    compat, console,    \* the lines of compat_log.txt and of console_log.txt for this game
    target,             \* does the process of the game run?
    visible,            \* is its window visible?
    dxvk,               \* has a new log of DXVK a line that was not read?
    timer,
    flips

timerVars == <<compat, console, target, visible, dxvk, timer, flips>>

------------------------------------------------------------------------------
(* Data *)

LaunchTimerAssumption == StablePolls \in Nat \ {0} /\ MaxSessions \in Nat /\ MaxFlips \in Nat

Stages == {"target", "module", "dxvk"}

\* events: in which attempt each stage was seen, 0 for a stage that is not among the events;
\* session, launch: what the lines say, a number that grows by the second; 0 for None.
Attempt == [status : {"superseded", "complete", "timeout"}, session : Nat, launch : Nat,
            events : [Stages -> Nat]]

NoEvents == [stage \in Stages |-> 0]

\* read: the lines of compat that were read; end, torn: those there are in this poll, and how many
\* of them are torn; heard: the lines of console that were read; sampled: was the target among the processes of this poll?
\* since: polls since the window was first seen, 0 for None.
\* streak: the polls in a row, in this attempt, that have found the target and the window.
Timer == [pc : {"open", "compat", "console", "sample", "window", "end"},
          read : Nat, end : Nat, torn : {0, 1}, heard : Nat, session : Nat, launch : Nat,
          events : [Stages -> Nat], attempts : Seq(Attempt), sampled : BOOLEAN,
          since : 0..StablePolls, status : {"timeout", "complete"}, streak : Nat]

\* What was in the logs before the timer does not count.
TimerInit ==
    /\ compat = <<>> /\ console = <<>>
    /\ target \in BOOLEAN /\ visible = FALSE /\ dxvk = FALSE
    /\ timer = [pc |-> "open", read |-> 0, end |-> 0, torn |-> 0, heard |-> 0, session |-> 0,
                launch |-> 0, events |-> NoEvents, attempts |-> <<>>, sampled |-> FALSE, since |-> 0,
                status |-> "timeout", streak |-> 0]
    /\ flips = 0

\* LogFollower: a log (that of the console, here) that is shorter than before is read from its beginning.
From(log, read) == IF Len(log) < read THEN 0 ELSE read

Number == Len(timer.attempts) + 1

Recorded(status) ==
    Append(timer.attempts, [status |-> status, session |-> timer.session,
                            launch |-> timer.launch, events |-> timer.events])

game == <<compat, console, target, visible, dxvk, flips>>

------------------------------------------------------------------------------
(* One poll *)

\* A line that is still being written may be read in two parts, none of which is the line.
OpenCompat ==
    /\ timer.pc = "open"
    /\ \E torn \in {0, 1} :
          /\ torn <= Len(compat) - timer.read
          /\ timer' = [timer EXCEPT !.pc = "compat", !.end = Len(compat), !.torn = torn]
    /\ UNCHANGED game

\* The stages of the attempt before stay among the events.
RetriedBug(line) ==
    [timer EXCEPT !.attempts = Recorded("superseded"), !.session = line, !.launch = 0,
                  !.since = 0, !.streak = 0, !.read = @ + 1]

\* Another session closes the attempt; launch, events and window are sought anew.
Retried(line) ==
    [timer EXCEPT !.attempts = Recorded("superseded"), !.session = line, !.launch = 0,
                  !.events = NoEvents, !.since = 0, !.streak = 0, !.read = @ + 1]

\* A line like that of the session before, of the same second, is no other session.
ReadCompat ==
    /\ timer.pc = "compat" /\ timer.read < timer.end - timer.torn
    /\ LET line == compat[timer.read + 1] IN
       timer' = IF timer.session \notin {0, line} THEN Retried(line)
                ELSE [timer EXCEPT !.session = line, !.read = @ + 1]
    /\ UNCHANGED game

CompatRead ==
    /\ timer.pc = "compat" /\ timer.read = timer.end - timer.torn
    /\ timer' = [timer EXCEPT !.pc = "console", !.read = timer.end]
    /\ UNCHANGED game

\* The first launch since the attempt began.
ReadConsole ==
    /\ timer.pc = "console"
    /\ LET from == From(console, timer.heard)
           launch == IF timer.launch = 0 /\ from < Len(console) THEN console[from + 1]
                     ELSE timer.launch
       IN timer' = [timer EXCEPT !.heard = Len(console), !.launch = launch,
                                 !.pc = IF launch = 0 THEN "open" ELSE "sample"]
    /\ UNCHANGED game

\* A stage is an event when it is first seen.
Seen(stages) ==
    [stage \in Stages |-> IF timer.events[stage] = 0 /\ stage \in stages THEN Number
                          ELSE timer.events[stage]]

\* Processes, modules that the target has mapped, and what is new in the logs of DXVK.
Sample ==
    /\ timer.pc = "sample"
    /\ \E stages \in SUBSET Stages :
          /\ "target" \in stages <=> target
          /\ "module" \in stages => target
          /\ "dxvk" \in stages <=> dxvk
          /\ timer' = [timer EXCEPT !.pc = "window", !.events = Seen(stages), !.sampled = target]
    /\ dxvk' = FALSE
    /\ UNCHANGED <<compat, console, target, visible, flips>>

\* update_window_stability, and the end of the measurement.
Window ==
    /\ timer.pc = "window"
    /\ IF ~(timer.sampled /\ visible)
       THEN timer' = [timer EXCEPT !.pc = "open", !.since = 0, !.streak = 0]
       ELSE IF timer.since < StablePolls
       THEN timer' = [timer EXCEPT !.pc = "open", !.since = @ + 1, !.streak = @ + 1]
       ELSE timer' = [timer EXCEPT !.pc = "end", !.status = "complete", !.streak = @ + 1,
                                   !.attempts = Recorded("complete")]
    /\ UNCHANGED game

\* The deadline is looked at before each poll.
Deadline ==
    /\ timer.pc = "open"
    /\ timer' = [timer EXCEPT !.pc = "end",
          !.attempts = IF timer.session # 0 \/ timer.launch # 0 THEN Recorded("timeout") ELSE @]
    /\ UNCHANGED game

------------------------------------------------------------------------------
(* Steam and the game *)

LastOf(log) == IF log = <<>> THEN 0 ELSE log[Len(log)]

\* Within the same second as the session before, or later.
StartSession ==
    /\ Len(compat) < MaxSessions
    /\ \E later \in {0, 1} :
          /\ LastOf(compat) + later > 0
          /\ compat' = Append(compat, LastOf(compat) + later)
    /\ UNCHANGED <<console, target, visible, dxvk, timer, flips>>

AddProcess ==
    /\ compat # <<>> /\ Len(console) < Len(compat)
    /\ console' = Append(console, LastOf(compat))
    /\ UNCHANGED <<compat, target, visible, dxvk, timer, flips>>

StartTarget ==
    /\ ~target /\ console # <<>>
    /\ target' = TRUE
    /\ UNCHANGED <<compat, console, visible, dxvk, timer, flips>>

Show ==
    /\ target /\ ~visible
    /\ visible' = TRUE
    /\ UNCHANGED <<compat, console, target, dxvk, timer, flips>>

LogDxvk ==
    /\ target /\ ~dxvk
    /\ dxvk' = TRUE
    /\ UNCHANGED <<compat, console, target, visible, timer, flips>>

Flip ==
    /\ flips < MaxFlips
    /\ flips' = flips + 1
    /\ \/ target /\ target' = FALSE /\ visible' = FALSE /\ UNCHANGED console
       \/ visible /\ visible' = FALSE /\ UNCHANGED <<target, console>>
       \/ console' = <<>> /\ UNCHANGED <<target, visible>>
    /\ UNCHANGED <<compat, dxvk, timer>>

TimerNext ==
    \/ OpenCompat \/ ReadCompat \/ CompatRead \/ ReadConsole \/ Sample \/ Window \/ Deadline
    \/ StartSession \/ AddProcess \/ StartTarget \/ Show \/ LogDxvk \/ Flip

TimerSpec == TimerInit /\ [][TimerNext]_timerVars

------------------------------------------------------------------------------
(* Properties *)

\* What the report says: the attempts in the order of their sessions, only the last of them not
\* superseded, each with stages that were seen during it; and a launch is complete only when
\* every poll of the interval has found the target and the window, in one attempt.
TimerTells ==
    /\ \A i \in 1..Len(timer.attempts) :
          /\ \A stage \in Stages : timer.attempts[i].events[stage] \in {0, i}
          /\ timer.attempts[i].status # "superseded" => i = Len(timer.attempts)
          /\ i > 1 => timer.attempts[i - 1].session < timer.attempts[i].session
    /\ timer.status = "complete" => timer.streak > StablePolls

===============================================================================
