------------------------------- MODULE GameHold -------------------------------
(***************************************************************************)
(* The three helpers of a measured Tomb Raider pass that change something  *)
(* outside the game for as long as the game runs, and the controller that  *)
(* owns them (run-tombraider-native-benchmark.py, one helper per pass):    *)
(*   cef      hold-tombraider-steam-cef.py stops Steam's CEF helpers;      *)
(*   x11      isolate-tombraider-x11.py pins every thread of Termux:X11;   *)
(*   service  isolate-tombraider-steam-service.py pins one Steam thread.   *)
(* A target is a number of /proc: it may be free, and it may be given      *)
(* again while the helper sleeps (born tells one use of it from the next,  *)
(* as start_ticks does).  Held is what the helper makes of a target: a     *)
(* stopped process, or a thread with the mask of the isolation CPUs.       *)
(*                                                                         *)
(* The operators called ...Bug each hold the definition after them with    *)
(* one mistake, for mutation runs.                                         *)
(***************************************************************************)
EXTENDS Naturals

CONSTANTS
    Modes,      \* the helpers considered
    Targets,    \* process or thread numbers
    MaxSignals, \* bound: HUP, INT and TERM that do not come from the controller
    MaxChanges  \* bound: births, deaths, escapes, and checks that fail

VARIABLES
    mode,       \* the helper of this pass, chosen once
    live,       \* the numbers in use
    born,       \* per number: which use of it this is
    held,       \* those stopped, or with the isolation mask
    inherited,  \* those that were born with the isolation mask
    game,       \* the exact game process
    pc,         \* the helper
    todo,       \* numbers the helper's loop has still to visit
    status,     \* its exit status so far
    isolated,   \* the service helper's variable of that name
    taken,      \* numbers in held, records or service_record
    ticks,      \* the start_ticks recorded for them
    asHeld,     \* those whose recorded mask is the isolation mask
    active,     \* the numbers of its line "active", empty if not printed
    exited,     \* its line "game exited"
    undone,     \* the numbers of its line "resumed" or "restored"
    control,    \* the controller
    launch,     \* the launch command that it runs meanwhile
    signals, changes

proc == <<live, born, held, inherited>>
note == <<taken, ticks, asHeld>>
log == <<active, exited, undone>>
outside == <<mode, game, control, launch, signals>>
helper == <<pc, todo, status, isolated, note, log>>
vars == <<outside, proc, helper, changes>>

------------------------------------------------------------------------------
(* Data *)

ASSUME GameHoldAssumption ==
    /\ Modes \subseteq {"cef", "x11", "service"}
    /\ MaxSignals \in Nat /\ MaxChanges \in Nat

\* The number still names the process or thread it was recorded for.
Same(t) == t \in taken /\ t \in live /\ born[t] = ticks[t]

Waiting == {"await", "verify", "hold"}
Trying == {"find", "await", "take", "act", "mark", "verify", "hold"}

Init ==
    /\ mode \in Modes
    /\ live \in SUBSET Targets /\ born = [t \in Targets |-> 0]
    /\ held = {} /\ inherited = {} /\ game = "absent"
    /\ pc = "find" /\ todo = {} /\ status = "ok" /\ isolated = FALSE
    /\ taken = {} /\ ticks = [t \in Targets |-> 0] /\ asHeld = {}
    /\ active = {} /\ exited = FALSE /\ undone = {}
    /\ control = "launch" /\ launch = "running"
    /\ signals = 0 /\ changes = 0

------------------------------------------------------------------------------
(* The helper's try *)

Goto(step) == pc' = step /\ UNCHANGED <<status, isolated>>

\* An exception: the finally goes through what was recorded, that of the service helper
\* only if `isolated` was set.
ToUndo == IF mode = "service" /\ ~isolated THEN {} ELSE taken

Unwind ==
    /\ pc' = "undo" /\ todo' = ToUndo /\ status' = "bad"
    /\ UNCHANGED <<isolated, note, log>>

Raise == Unwind /\ UNCHANGED <<outside, proc, changes>>

\* find_exact_steam, find_exact_x11.
Find ==
    /\ pc = "find"
    /\ Goto("await")
    /\ UNCHANGED <<outside, proc, todo, note, log, changes>>

\* wait_for_game, the delay, and the check that the game is still there.
GameSeen ==
    /\ pc = "await" /\ game = "running"
    /\ Goto("take")
    /\ UNCHANGED <<outside, proc, todo, note, log, changes>>

\* The service helper wants one thread, with its own mask; the others want some target.
CanTake ==
    /\ live # {}
    /\ mode = "service" => held = {} /\ \E thread \in live : live = {thread}

\* The helpers, the service thread, or the threads of the first pass: those of X11 are
\* recorded one by one, when they are visited.
Take ==
    /\ pc = "take" /\ CanTake
    /\ Goto("act") /\ todo' = live
    /\ IF mode = "x11" THEN UNCHANGED note
       ELSE taken' = live /\ ticks' = born /\ UNCHANGED asHeld
    /\ UNCHANGED <<outside, proc, log, changes>>

NothingToTake == pc = "take" /\ ~CanTake /\ Raise

\* A number that is free, or for X11 another thread's by now, ends the attempt.
Lost(t) == t \notin live \/ (mode = "x11" /\ t \in taken /\ ~Same(t))

ActLost(t) == pc = "act" /\ t \in todo /\ Lost(t) /\ Raise

\* Mutant: the mask of an X11 thread is read after it has been set.
ActBug(t) ==
    /\ pc = "act" /\ t \in todo /\ ~Lost(t)
    /\ held' = held \cup {t}
    /\ IF mode # "x11" \/ t \in taken THEN UNCHANGED note
       ELSE /\ taken' = taken \cup {t} /\ ticks' = [ticks EXCEPT ![t] = born[t]]
            /\ asHeld' = asHeld \cup {t}
    /\ todo' = todo \ {t} /\ Goto(IF mode = "service" THEN "mark" ELSE "act")
    /\ UNCHANGED <<outside, live, born, inherited, log, changes>>

\* SIGSTOP, sched_setaffinity or taskset.
Act(t) ==
    /\ pc = "act" /\ t \in todo /\ ~Lost(t)
    /\ held' = held \cup {t}
    /\ IF mode # "x11" \/ t \in taken THEN UNCHANGED note
       ELSE /\ taken' = taken \cup {t} /\ ticks' = [ticks EXCEPT ![t] = born[t]]
            /\ asHeld' = IF t \in held THEN asHeld \cup {t} ELSE asHeld
    /\ todo' = todo \ {t} /\ Goto(IF mode = "service" THEN "mark" ELSE "act")
    /\ UNCHANGED <<outside, live, born, inherited, log, changes>>

\* isolated = True, a statement of its own after taskset has returned.
Mark ==
    /\ pc = "mark"
    /\ pc' = "verify" /\ isolated' = TRUE
    /\ UNCHANGED <<outside, proc, todo, status, note, log, changes>>

\* What the loops look for: the recorded targets are the same and still held, and the
\* CEF helpers are those recorded, no more and no fewer.
AllHeld ==
    /\ \A t \in taken : Same(t) /\ t \in held
    /\ mode = "cef" => live = taken

SayActive == active' = (IF active = {} THEN taken ELSE active) /\ UNCHANGED <<exited, undone>>

\* A pass over the targets is complete; X11's has looked at each mask already.
Visited ==
    /\ pc = "act" /\ todo = {}
    /\ IF mode = "x11" THEN Goto("hold") /\ SayActive ELSE Goto("verify") /\ UNCHANGED log
    /\ UNCHANGED <<outside, proc, todo, note, changes>>

Verify ==
    /\ pc = "verify" /\ AllHeld
    /\ Goto("hold") /\ SayActive
    /\ UNCHANGED <<outside, proc, todo, note, changes>>

\* The CEF helper polls for five seconds, the service helper looks once.
VerifyFails == pc = "verify" /\ mode = "service" /\ ~AllHeld /\ Raise

\* A round of the loop while the game lives: two of the helpers give up when anything has
\* changed ...
GiveUp == pc = "hold" /\ (IF mode = "x11" THEN live = {} ELSE ~AllHeld) /\ Raise

\* ... and X11 makes another pass over its threads.
Again ==
    /\ pc = "hold" /\ mode = "x11"
    /\ \E t \in live : ~(Same(t) /\ t \in held)
    /\ Goto("act") /\ todo' = live
    /\ UNCHANGED <<outside, proc, note, log, changes>>

GameOver ==
    /\ pc = "hold" /\ game = "gone"
    /\ exited' = TRUE
    /\ Goto("undo") /\ todo' = ToUndo
    /\ UNCHANGED <<outside, proc, note, active, undone, changes>>

\* Mutant: no deadline for the hold itself.
TimedOutBug == pc \in {"await", "verify"} /\ (pc = "verify" => mode = "cef") /\ Raise

\* The deadlines: for the game, for the stop to be seen, for the hold.
TimedOut == pc \in Waiting /\ (pc = "verify" => mode = "cef") /\ Raise

\* Any other check that fails: a second process of the same command, one that is not in
\* the top-app group, a file of /proc that cannot be read.
Trouble ==
    /\ pc \in Trying /\ changes < MaxChanges
    /\ changes' = changes + 1
    /\ Unwind /\ UNCHANGED <<outside, proc>>

------------------------------------------------------------------------------
(* The helper's finally *)

\* SIGCONT, or the recorded mask.
Undo(t) ==
    /\ pc = "undo" /\ t \in todo /\ Same(t)
    /\ held' = IF mode # "cef" /\ t \in asHeld THEN held \cup {t} ELSE held \ {t}
    /\ undone' = undone \cup {t}
    /\ todo' = todo \ {t} /\ Goto("undo")
    /\ UNCHANGED <<outside, live, born, inherited, note, active, exited, changes>>

\* resume_helpers and restore_threads pass over a number that is not the recorded target
\* any more; to the service helper that is a failure.
Skip(t) ==
    /\ pc = "undo" /\ t \in todo /\ ~Same(t)
    /\ todo' = todo \ {t} /\ pc' = "undo"
    /\ status' = IF mode = "service" THEN "bad" ELSE status
    /\ UNCHANGED <<outside, proc, isolated, note, log, changes>>

\* An exception in the finally: what is left to undo is left.
Break ==
    /\ pc' = "ended" /\ todo' = {} /\ status' = "bad" /\ undone' = {}
    /\ UNCHANGED <<isolated, note, active, exited>>

\* A CEF helper ends between the look at its start ticks and SIGCONT: os.kill raises
\* ProcessLookupError, and the helpers after it stay stopped.
Vanishes(t) ==
    /\ pc = "undo" /\ t \in todo /\ mode = "cef" /\ Same(t)
    /\ changes < MaxChanges
    /\ changes' = changes + 1
    /\ live' = live \ {t} /\ held' = held \ {t} /\ inherited' = inherited \ {t}
    /\ Break /\ UNCHANGED <<outside, born>>

\* The exit status: helpers still stopped, or isolated threads that were not there to be
\* restored, make it a failure.
Undone ==
    /\ mode = "cef" => \A t \in taken : Same(t) => t \notin held
    /\ mode = "x11" => undone = taken

Exit ==
    /\ pc = "undo" /\ todo = {}
    /\ pc' = "ended" /\ status' = IF Undone THEN status ELSE "bad"
    /\ UNCHANGED <<outside, proc, todo, isolated, note, log, changes>>

\* StopRequested is a RuntimeError: in the try it leads to the finally, in the finally to
\* the handler there.
StopRequested ==
    \/ pc \in Trying /\ Unwind
    \/ pc = "undo" /\ Break
    \/ pc = "ended" /\ UNCHANGED helper

Signal ==
    /\ signals < MaxSignals /\ pc # "ended"
    /\ signals' = signals + 1
    /\ StopRequested
    /\ UNCHANGED <<mode, game, control, launch, proc, changes>>

Visit(t) == ActLost(t) \/ Act(t) \/ Undo(t) \/ Skip(t)

HolderStep ==
    \/ Find \/ GameSeen \/ Take \/ NothingToTake \/ Mark \/ Visited \/ Verify \/ VerifyFails
    \/ GiveUp \/ Again \/ GameOver \/ TimedOut \/ Exit
    \/ \E t \in Targets : Visit(t)

------------------------------------------------------------------------------
(* The controller: run_logged_with_cef_holder and its two siblings *)

LaunchEnds ==
    /\ control = "launch"
    /\ control' = "wait" /\ launch' \in {"ok", "failed"}
    /\ UNCHANGED <<mode, game, signals, proc, helper, changes>>

\* Mutant: any CEF helper resumed will do.
LogParsesBug ==
    /\ active # {} /\ exited
    /\ IF mode = "cef" THEN undone # {}
       ELSE IF mode = "x11" THEN active \subseteq undone ELSE undone = active

\* The log is the three lines and nothing else, and what it says was undone matches: the
\* same helpers, all the active threads, the same thread.
LogParses ==
    /\ active # {} /\ exited
    /\ IF mode = "x11" THEN active \subseteq undone ELSE undone = active

Accepts == launch = "ok" /\ status = "ok" /\ LogParses

Reap ==
    /\ control \in {"wait", "term"} /\ pc = "ended"
    /\ control' = IF Accepts THEN "accepted" ELSE "rejected"
    /\ UNCHANGED <<mode, game, launch, signals, proc, helper, changes>>

\* Fifteen seconds without an end: SIGTERM, and the pass is lost.
Terminate ==
    /\ control = "wait" /\ pc # "ended"
    /\ control' = "term" /\ launch' = "failed"
    /\ StopRequested
    /\ UNCHANGED <<mode, game, signals, proc, changes>>

\* Fifteen more: the helper is left to its own deadlines, and never killed.
Abandon ==
    /\ control = "term" /\ pc # "ended"
    /\ control' = "abandoned"
    /\ UNCHANGED <<mode, game, launch, signals, proc, helper, changes>>

------------------------------------------------------------------------------
(* The game and the targets *)

GameStarts ==
    /\ game = "absent" /\ game' = "running"
    /\ UNCHANGED <<mode, control, launch, signals, proc, helper, changes>>

GameEnds ==
    /\ game = "running" /\ game' = "gone"
    /\ UNCHANGED <<mode, control, launch, signals, proc, helper, changes>>

Change == changes < MaxChanges /\ changes' = changes + 1 /\ UNCHANGED <<outside, helper>>

Dies(t) ==
    /\ t \in live /\ Change
    /\ live' = live \ {t} /\ held' = held \ {t} /\ inherited' = inherited \ {t}
    /\ UNCHANGED born

\* A CEF helper or service thread is born as it should be, a thread of X11 with the mask of
\* the one that makes it.  A number is given again only while the helper sleeps, not between
\* a check and the call after it.
Born(t) ==
    /\ t \in Targets \ live /\ (t \in taken \cup todo => pc \in {"await", "hold", "ended"})
    /\ Change
    /\ live' = live \cup {t} /\ born' = [born EXCEPT ![t] = born[t] + 1]
    /\ \/ (mode = "x11" => \E parent \in live : parent \notin held) /\ UNCHANGED <<held, inherited>>
       \/ /\ mode = "x11" /\ held # {}
          /\ held' = held \cup {t} /\ inherited' = inherited \cup {t}

\* Somebody else continues the process, or gives the thread its mask back.
Escapes(t) ==
    /\ t \in held /\ Change
    /\ held' = held \ {t}
    /\ UNCHANGED <<live, born, inherited>>

Next ==
    \/ HolderStep \/ Trouble \/ Signal
    \/ LaunchEnds \/ Reap \/ Terminate \/ Abandon
    \/ GameStarts \/ GameEnds
    \/ \E t \in Targets : Vanishes(t) \/ Dies(t) \/ Born(t) \/ Escapes(t)

Spec == Init /\ [][Next]_vars

\* The helper is a process that is scheduled; each of its waits has a deadline.
FairSpec == Spec /\ WF_vars(HolderStep)

------------------------------------------------------------------------------
(* Properties *)

\* The variables have their types; only targets in use are held; and the service helper sets
\* its flag only when its finally knows a thread.
TypeOK ==
    /\ mode \in Modes /\ game \in {"absent", "running", "gone"}
    /\ live \subseteq Targets /\ held \subseteq live /\ inherited \subseteq live
    /\ born \in [Targets -> Nat] /\ ticks \in [Targets -> Nat]
    /\ pc \in Trying \cup {"undo", "ended"} /\ todo \subseteq Targets
    /\ status \in {"ok", "bad"} /\ isolated \in BOOLEAN
    /\ isolated => mode = "service" /\ taken # {}
    /\ taken \subseteq Targets /\ asHeld \subseteq taken
    /\ active \subseteq Targets /\ exited \in BOOLEAN /\ undone \subseteq Targets
    /\ control \in {"launch", "wait", "term", "accepted", "rejected", "abandoned"}
    /\ launch \in {"running", "ok", "failed"}
    /\ signals \in 0..MaxSignals /\ changes \in 0..MaxChanges

\* A helper that ends with status 0 leaves nothing held: of the targets that were not born
\* into the isolation, every one alive runs and has its own mask, whatever died, was born,
\* escaped or failed on the way.
OkLeavesNothingHeld ==
    pc = "ended" /\ status = "ok" => held \subseteq inherited

\* A pass that the controller accepts was held from a moment of the game to its end, and every
\* process or thread its log calls active was given back.
AcceptedPassWasHeld ==
    control = "accepted" =>
        /\ game = "gone" /\ active # {} /\ active \subseteq undone
        /\ \A t \in active : Same(t) => t \notin held

\* What a helper and the controller report of a pass is true.
HoldTells == OkLeavesNothingHeld /\ AcceptedPassWasHeld

\* Whatever is sent to it and whatever its targets do, the helper comes to an end.
HolderEnds == <>(pc = "ended")

==============================================================================
