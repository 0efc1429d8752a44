-------------------------- MODULE ForegroundLaunch --------------------------
(***************************************************************************)
(* run-tombraider-bvb-foreground.py: a controller enables the external-    *)
(* command property of Termux, has Termux start a child in the top-app     *)
(* cgroup, puts the property back, arranges the Termux:X11 window, and     *)
(* waits for the child, which runs the BVB probe.  Two controllers share   *)
(* termux.properties and the window; each has its own child and request    *)
(* directory.  The child may come late, every step of a controller may     *)
(* fail or time out, and a controller may be interrupted (its finally      *)
(* runs) or killed (it does not).  Android moves a process in and out of   *)
(* the top-app cgroups at any moment, so that a check of the cgroup may    *)
(* come out either way; the cgroup itself is not a variable.               *)
(***************************************************************************)
EXTENDS Naturals

CONSTANTS
  Controllers,  \* the controllers that may run
  Pairs,        \* the modes in which more than one runs, without faults
  Modes,        \* how X11 is arranged: "full", "windowed", "plain" (not at all)
  MaxFaults     \* bound on signals to a controller and on deaths of a child

ASSUME BoundAssumption == MaxFaults \in Nat
ASSUME ModesAssumption == Pairs \subseteq Modes /\ Modes \subseteq {"full", "windowed", "plain"}

VARIABLES
  mode,      \* rigid: --x11-fullscreen, neither, or ALLOW_NO_X11
  found,     \* rigid: whether the property was enabled before
  prop,      \* whether termux.properties enables external commands
  asked,     \* a reload broadcast is on its way
  loaded,    \* the setting as Termux has cached it
  window,    \* Termux:X11: "normal", "small" (freeform), "whole" (borderless)
  ctl,       \* the controllers: pc, and the variables of controller_main
  kid,       \* the children, with the probe and the files of their directory
  cut,       \* the controllers that could not undo what they did
  faults

outside == <<mode, found, loaded, faults>>
vars == <<outside, prop, asked, window, ctl, kid, cut>>

Try == {"enable", "write", "mark", "settle", "promote", "task", "top", "launch",
        "state", "restore", "reload", "check", "expand", "settled", "still",
        "poll", "result"}
Finally == {"undo", "unload", "display", "stop"}
Steps == Try \cup Finally \cup {"ended"}

\* guard.original and guard.changed, promoted, full_display_ready, whether child_pid is
\* set, and the exit status ("ok" is 0).
Controller == [pc: Steps, original: {"unread", "on", "off"}, changed: BOOLEAN,
               promoted: BOOLEAN, ready: BOOLEAN, known: BOOLEAN,
               code: {"none", "ok", "bad"}]

\* The process with --child, probe.gate, result.json, and the probe.
Child == [at: {"none", "asked", "gate", "go", "bare", "held", "stopping", "gone"},
          gate: BOOLEAN, result: {"none", "ok", "bad"},
          probe: {"none", "runs", "ok", "bad"}]

\* Of a controller that is not started nothing is ever seen.  With several at work INT
\* would add nothing to a step that fails, and what TERM leaves is not asked about.
Init ==
  /\ mode \in Modes /\ found \in BOOLEAN
  /\ prop = found /\ asked = FALSE /\ loaded = found /\ window = "normal"
  /\ \E started \in (SUBSET Controllers) \ {{}} :
       LET several == \E x, y \in started : x # y IN
       /\ several => mode \in Pairs
       /\ faults = IF several THEN MaxFaults ELSE 0
       /\ ctl = [c \in Controllers |->
                   [pc |-> IF c \in started THEN "enable" ELSE "ended",
                    original |-> "unread", changed |-> FALSE, promoted |-> FALSE,
                    ready |-> FALSE, known |-> FALSE, code |-> "none"]]
  /\ kid = [c \in Controllers |->
              [at |-> "none", gate |-> FALSE, result |-> "none",
               probe |-> "none"]]
  /\ cut = {}

Value(b) == IF b THEN "on" ELSE "off"
At(c, step) == ctl[c].pc = step
Goto(c, step) == ctl' = [ctl EXCEPT ![c].pc = step]

\* The child lives and has written state.json.
Stated(c) == kid[c].at \in {"gate", "go", "bare", "held", "stopping"}

-----------------------------------------------------------------------------
(* The controller: the try block.                                          *)

\* PropertyGuard.enable reads the file; if it is enabled nothing is written.
EnableRead(c) ==
  /\ At(c, "enable")
  /\ ctl' = [ctl EXCEPT ![c].original = Value(prop),
                        ![c].pc = IF prop THEN "settle" ELSE "write"]
  /\ UNCHANGED <<outside, prop, asked, window, kid, cut>>

\* atomic_write replaces the file, with what was made from the text read.
EnableWrite(c) ==
  /\ At(c, "write") /\ Goto(c, "mark")
  /\ prop' = TRUE
  /\ UNCHANGED <<outside, asked, window, kid, cut>>

\* changed is set after the file has been replaced; then the reload.
EnableMark(c) ==
  /\ At(c, "mark")
  /\ ctl' = [ctl EXCEPT ![c].changed = TRUE, ![c].pc = "settle"]
  /\ asked' = TRUE
  /\ UNCHANGED <<outside, prop, window, kid, cut>>

\* The readiness probe answers from top-app: Termux had the setting.
ServiceProbe(c) ==
  /\ At(c, "settle") /\ loaded
  /\ Goto(c, IF mode = "full" THEN "promote" ELSE "launch")
  /\ UNCHANGED <<outside, prop, asked, window, kid, cut>>

\* promote_x11 starts the Activity in freeform mode ...
PromoteStart(c) ==
  /\ At(c, "promote") /\ Goto(c, "task")
  /\ window' = "small"
  /\ UNCHANGED <<outside, prop, asked, kid, cut>>

\* ... and finds and resizes its task; only then promoted is set.
PromoteTask(c) ==
  /\ At(c, "task")
  /\ ctl' = [ctl EXCEPT ![c].promoted = TRUE,
                        ![c].pc = IF mode = "full" THEN "launch" ELSE "top"]
  /\ UNCHANGED <<outside, prop, asked, window, kid, cut>>

\* am startservice returns before the service has looked at the request.
LaunchChild(c) ==
  /\ At(c, "launch") /\ Goto(c, "state")
  /\ kid' = [kid EXCEPT ![c].at = "asked"]
  /\ UNCHANGED <<outside, prop, asked, window, cut>>

\* validate_child: the process of state.json is that child, and in top-app.
ValidateChild(c) ==
  /\ At(c, "state") /\ Stated(c)
  /\ ctl' = [ctl EXCEPT ![c].known = TRUE, ![c].pc = "restore"]
  /\ UNCHANGED <<outside, prop, asked, window, kid, cut>>

\* Mutant: the guard writes what it read, changed or not.
PutBackBug(c) == prop' = (ctl[c].original = "on")

\* PropertyGuard.restore writes only what this guard has changed.
PutBack(c) == prop' = IF ctl[c].changed THEN ctl[c].original = "on" ELSE prop

RestoreWrite(c) ==
  /\ At(c, "restore") /\ PutBack(c)
  /\ Goto(c, IF ctl[c].changed THEN "reload" ELSE "check")
  /\ UNCHANGED <<outside, asked, window, kid, cut>>

RestoreReload(c) ==
  /\ At(c, "reload")
  /\ asked' = TRUE
  /\ ctl' = [ctl EXCEPT ![c].changed = FALSE, ![c].pc = "check"]
  /\ UNCHANGED <<outside, prop, window, kid, cut>>

\* What the controller does once the property is as it was.
AfterRestore == CASE mode = "full" -> "expand" [] mode = "windowed" -> "poll"
                  [] OTHER -> "result"

\* The file holds again what the guard read.
RestoreCheck(c) ==
  /\ At(c, "check") /\ Value(prop) = ctl[c].original
  /\ Goto(c, AfterRestore)
  /\ UNCHANGED <<outside, prop, asked, window, kid, cut>>

\* expand_x11_full_display: the task is resized and its control tapped ...
ExpandStart(c) ==
  /\ At(c, "expand") /\ Goto(c, "settled")
  /\ window' = "whole"
  /\ UNCHANGED <<outside, prop, asked, kid, cut>>

\* ... until a window dump shows it borderless.
ExpandSettled(c) ==
  /\ At(c, "settled") /\ window = "whole"
  /\ ctl' = [ctl EXCEPT ![c].ready = TRUE, ![c].pc = "still"]
  /\ UNCHANGED <<outside, prop, asked, window, kid, cut>>

\* The child is still in top-app: the gate is written.
OpenGate(c) ==
  /\ At(c, "still") /\ Stated(c) /\ Goto(c, "result")
  /\ kid' = [kid EXCEPT ![c].gate = TRUE]
  /\ UNCHANGED <<outside, prop, asked, window, cut>>

\* Without --x11-fullscreen X11 is promoted when the probe has printed its handoff record or
\* the child is not in top-app (any more).
Handoff(c) ==
  /\ At(c, "poll") /\ kid[c].result = "none"
  /\ Goto(c, "promote")
  /\ UNCHANGED <<outside, prop, asked, window, kid, cut>>

BackOnTop(c) ==
  /\ At(c, "top") /\ Stated(c)
  /\ Goto(c, "result")
  /\ UNCHANGED <<outside, prop, asked, window, kid, cut>>

\* wait_for_result: the exit status is the child's.
ReadResult(c) ==
  /\ At(c, "result") /\ kid[c].result # "none"
  /\ ctl' = [ctl EXCEPT ![c].code = kid[c].result, ![c].pc = "undo"]
  /\ UNCHANGED <<outside, prop, asked, window, kid, cut>>

\* A step raises: a command fails, a check does not hold, a deadline passes.
Unwind(c) ==
  /\ ctl[c].pc \in Try
  /\ ctl' = [ctl EXCEPT ![c].code = "bad", ![c].pc = "undo"]
  /\ cut' = IF At(c, "mark") THEN cut \cup {c} ELSE cut
  /\ UNCHANGED <<prop, asked, window, kid>>

Fail(c) == Unwind(c) /\ UNCHANGED outside

-----------------------------------------------------------------------------
(* The controller: the finally block, which reports its own failures.      *)

UndoProperty(c) ==
  /\ At(c, "undo") /\ PutBack(c)
  /\ Goto(c, IF ctl[c].changed THEN "unload" ELSE "display")
  /\ UNCHANGED <<outside, asked, window, kid, cut>>

UndoReload(c) ==
  /\ At(c, "unload")
  /\ asked' = TRUE
  /\ ctl' = [ctl EXCEPT ![c].changed = FALSE, ![c].pc = "display"]
  /\ UNCHANGED <<outside, prop, window, kid, cut>>

\* X11 is expanded, or put back to fullscreen, if this controller promoted it.
UndoDisplay(c) ==
  /\ At(c, "display") /\ Goto(c, "stop")
  /\ window' = IF ~ctl[c].promoted \/ (mode = "full" /\ ctl[c].ready) THEN window
               ELSE IF mode = "full" THEN "whole" ELSE "normal"
  /\ UNCHANGED <<outside, prop, asked, kid, cut>>

\* The property or the window could not be put back; that is printed.
UndoFails(c) ==
  /\ \/ At(c, "undo") /\ ctl[c].changed /\ Goto(c, "display")
     \/ At(c, "unload") /\ Goto(c, "display")
     \/ At(c, "display") /\ ctl[c].promoted /\ Goto(c, "stop")
  /\ cut' = cut \cup {c}
  /\ UNCHANGED <<outside, prop, asked, window, kid>>

\* TERM by its default action, or by stop_probe once that is installed.
Terminated(at) ==
  CASE at \in {"gate", "go", "bare"} -> "gone"
    [] at = "held" -> "stopping"
    [] OTHER -> at

\* Mutant: the child is stopped only while it waits at the gate.
StopChildBug(c) ==
  /\ At(c, "stop") /\ Goto(c, "ended")
  /\ kid' = IF ctl[c].known /\ kid[c].at = "gate"
              THEN [kid EXCEPT ![c].at = "gone"] ELSE kid
  /\ UNCHANGED <<outside, prop, asked, window, cut>>

\* The child is sent TERM if it has been validated and there is no result.
StopChild(c) ==
  /\ At(c, "stop") /\ Goto(c, "ended")
  /\ kid' = IF ctl[c].known /\ kid[c].result = "none"
              THEN [kid EXCEPT ![c].at = Terminated(@)] ELSE kid
  /\ UNCHANGED <<outside, prop, asked, window, cut>>

ControllerStep(c) ==
  \/ EnableRead(c) \/ EnableWrite(c) \/ EnableMark(c) \/ ServiceProbe(c)
  \/ PromoteStart(c) \/ PromoteTask(c) \/ LaunchChild(c) \/ ValidateChild(c)
  \/ RestoreWrite(c) \/ RestoreReload(c) \/ RestoreCheck(c)
  \/ ExpandStart(c) \/ ExpandSettled(c) \/ OpenGate(c)
  \/ Handoff(c) \/ BackOnTop(c) \/ ReadResult(c) \/ Fail(c)
  \/ UndoProperty(c) \/ UndoReload(c) \/ UndoDisplay(c) \/ UndoFails(c)
  \/ StopChild(c)

-----------------------------------------------------------------------------
(* Signals to a controller.                                                *)

Fault == faults < MaxFaults /\ faults' = faults + 1 /\ UNCHANGED <<mode, found, loaded>>

\* INT in the try block runs the finally, even when it comes after the file was replaced
\* and before changed was set; in the finally it ends the rest of it.
Interrupt(c) ==
  /\ Fault
  /\ \/ Unwind(c)
     \/ /\ ctl[c].pc \in Finally
        /\ ctl' = [ctl EXCEPT ![c].code = "bad", ![c].pc = "ended"]
        /\ cut' = cut \cup {c}
        /\ UNCHANGED <<prop, asked, window, kid>>

\* TERM, HUP or KILL: no handler, nothing is undone.
Kill(c) ==
  /\ Fault /\ ~At(c, "ended")
  /\ ctl' = [ctl EXCEPT ![c].code = "bad", ![c].pc = "ended"]
  /\ cut' = cut \cup {c}
  /\ UNCHANGED <<prop, asked, window, kid>>

-----------------------------------------------------------------------------
(* Termux, the child and the probe.                                        *)

\* The broadcast is handled: Termux reads the file.
AppReloads ==
  /\ asked /\ asked' = FALSE /\ loaded' = prop
  /\ UNCHANGED <<mode, found, faults, prop, window, ctl, kid, cut>>

Kid(c, changes) == kid' = [kid EXCEPT ![c] = changes]
Beside == UNCHANGED <<outside, prop, asked, window, ctl, cut>>

\* RunCommandService takes the request up: child_main up to state.json, and to its gate if
\* it has one.
ChildStarts(c) ==
  /\ kid[c].at = "asked" /\ loaded
  /\ Kid(c, [kid[c] EXCEPT !.at = IF mode = "full" THEN "gate" ELSE "go"])
  /\ Beside

\* Mutant: the child does not wait for its gate.
PassGateBug(c) ==
  /\ kid[c].at = "gate"
  /\ Kid(c, [kid[c] EXCEPT !.at = "go"])
  /\ Beside

PassGate(c) ==
  /\ kid[c].at = "gate" /\ kid[c].gate
  /\ Kid(c, [kid[c] EXCEPT !.at = "go"])
  /\ Beside

\* The request is rejected or the child is not in top-app; its gate does not come in a
\* minute; its log exists.
ChildFails(c) ==
  /\ kid[c].at \in {"asked", "gate", "go"}
  /\ Kid(c, [kid[c] EXCEPT !.at = "gone"])
  /\ Beside

\* Popen, in a session of its own; the handlers are installed afterwards.
StartProbe(c) ==
  /\ kid[c].at = "go"
  /\ Kid(c, [kid[c] EXCEPT !.at = "bare", !.probe = "runs"])
  /\ Beside

InstallHandlers(c) ==
  /\ kid[c].at = "bare"
  /\ Kid(c, [kid[c] EXCEPT !.at = "held"])
  /\ Beside

\* stop_probe: TERM to the session of the probe, and KILL ten seconds later.
StopProbe(c) ==
  /\ kid[c].at = "stopping" /\ kid[c].probe = "runs"
  /\ Kid(c, [kid[c] EXCEPT !.probe = "bad"])
  /\ Beside

\* result.json: the status of the probe, or 128 and the signal.
Report(c) ==
  /\ kid[c].at \in {"held", "stopping"} /\ kid[c].probe # "runs"
  /\ Kid(c, [kid[c] EXCEPT !.at = "gone",
               !.result = IF kid[c].at = "held" THEN kid[c].probe ELSE "bad"])
  /\ Beside

ChildStep(c) ==
  ChildStarts(c) \/ PassGate(c) \/ ChildFails(c) \/ StartProbe(c) \/ InstallHandlers(c)
    \/ StopProbe(c) \/ Report(c)

ProbeEnds(c) ==
  /\ kid[c].probe = "runs"
  /\ \E how \in {"ok", "bad"} : Kid(c, [kid[c] EXCEPT !.probe = how])
  /\ Beside

\* Android ends the child; the probe has a session of its own.
ChildKilled(c) ==
  /\ Stated(c) /\ Fault
  /\ Kid(c, [kid[c] EXCEPT !.at = "gone"])
  /\ UNCHANGED <<prop, asked, window, ctl, cut>>

Next ==
  \/ AppReloads
  \/ \E c \in Controllers :
       \/ ControllerStep(c) \/ Interrupt(c) \/ Kill(c)
       \/ ChildStep(c) \/ ProbeEnds(c) \/ ChildKilled(c)

\* Controllers and children are processes that are scheduled, and every wait of theirs has a
\* deadline, which is a disjunct of ControllerStep or of ChildStep.  The probe may run forever.
Spec == Init /\ [][Next]_vars
FairSpec ==
  Spec /\ \A c \in Controllers : WF_vars(ControllerStep(c)) /\ WF_vars(ChildStep(c))

-----------------------------------------------------------------------------
(* Properties.                                                             *)

\* The variables have their types; the gate exists only for the full display.
TypeOK ==
  /\ mode \in Modes /\ found \in BOOLEAN
  /\ prop \in BOOLEAN /\ asked \in BOOLEAN /\ loaded \in BOOLEAN
  /\ window \in {"normal", "small", "whole"}
  /\ ctl \in [Controllers -> Controller] /\ kid \in [Controllers -> Child]
  /\ \A c \in Controllers : kid[c].gate => mode = "full" /\ ctl[c].ready
  /\ cut \subseteq Controllers /\ faults \in 0..MaxFaults

\* termux.properties, and the setting Termux works with, are as they were found when the
\* controllers have ended and each could undo what it did: however two of them overlapped,
\* failed or were interrupted (PropertyGuard).  With the types.
PropertyRestored ==
  /\ TypeOK
  /\ (\A c \in Controllers : At(c, "ended")) /\ cut = {} =>
       prop = found /\ (~asked => loaded = found)

\* Exit status 0 means that the controller's own probe ended by itself with 0, and that
\* the controller had put its change of the property back before.
ZeroIsPlayed ==
  \A c \in Controllers :
    ctl[c].code = "ok" => kid[c].probe = "ok" /\ ctl[c].known /\ ~ctl[c].changed

\* With --x11-fullscreen the probe starts only after its controller has seen the borderless
\* display, has put the property back, and has not given up; a
\* child that comes late starts nothing (probe_gate of child_main).
StartsInPlace ==
  [][\A c \in Controllers :
       kid[c].probe = "none" /\ kid'[c].probe = "runs" /\ mode = "full" =>
         /\ ctl[c].ready /\ ~ctl[c].changed
         /\ At(c, "ended") => c \in cut]_vars

\* A probe is played where, and reported as, its own controller has seen it.
ProbeIsOwn == StartsInPlace /\ []ZeroIsPlayed

\* Every controller ends; and one that ends having validated its child, and was not cut
\* short, leaves no probe under that child (the last part of the finally, stop_probe).
RunEnds ==
  \A c \in Controllers :
    /\ <>At(c, "ended")
    /\ [](At(c, "ended") /\ ctl[c].known /\ c \notin cut =>
            <>(kid[c].probe # "runs" \/ kid[c].at = "gone"))
=============================================================================
