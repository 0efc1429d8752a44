----------------------------- MODULE DxvkOverlay -----------------------------
(***************************************************************************)
(* scripts/manage-tombraider-dxvk-overlay.py: `activate` copies the DLLs   *)
(* of one DXVK variant into the game directory, `restore` moves them out   *)
(* again into an evidence directory of the run.  An exclusive flock, which *)
(* the kernel drops when its holder dies, lets one command work at a time; *)
(* a command that does not get the lock changes nothing, so op is the      *)
(* command that holds it.  Between any two file-system calls the command   *)
(* may be killed, or an error or ^C may be raised in it.                   *)
(*                                                                         *)
(* The operators called ...Bug each hold the definition after them with    *)
(* one mistake, for mutation runs.                                         *)
(***************************************************************************)
EXTENDS Naturals

CONSTANTS
    Files,      \* d3d9.dll, d3d11.dll, ...: the same names in every variant
    Variants,   \* the keys of VARIANTS
    NoFile,       \* no such file
    Foreign,    \* a DLL that did not come from the candidate directory
    MaxDrawn,    \* how many run ids are drawn (bounds the model)
    MaxOverlayFaults   \* how many kills, errors and DLLs changed by others (bounds the model)

VARIABLES
    dll,        \* the game directory: what each file name holds
    state,      \* runtime/active.json
    evidence,   \* .steamclienttermux-dxvk-overlays/<run id>
    drawnRuns,       \* run ids drawn so far
    op,         \* the command that holds the lock
    swapped,    \* files that others have changed since a command verified them (history)
    overlayFaults

overlayVars == <<dll, state, evidence, drawnRuns, op, swapped, overlayFaults>>

------------------------------------------------------------------------------
(* Data *)

RunIds == 1..MaxDrawn

\* whole: all the bytes of the candidate; otherwise a copy that stopped half way.
Overlay == [variant : Variants, whole : BOOLEAN]

Whole(v) == [variant |-> v, whole |-> TRUE]
Part(v)  == [variant |-> v, whole |-> FALSE]

State == [status : {"activating", "active"}, variant : Variants, run : RunIds]

\* The files moved into one evidence directory, and its manifest.
Evidence == [files : [Files -> Overlay \cup {NoFile, Foreign}], manifest : BOOLEAN]

ASSUME DxvkOverlayAssumption ==
    /\ NoFile # Foreign
    /\ {NoFile, Foreign} \cap Overlay = {}
    /\ NoFile \notin State
    /\ NoFile \notin Evidence
    /\ NoFile \notin Variants
    /\ MaxDrawn \in Nat /\ MaxOverlayFaults \in Nat

RestoreSteps == {"inspect", "mkdir", "move", "manifest", "unlink"}
CopySteps    == {"copy", "copying", "committed"}
OpSteps == {"idle", "start", "check", "announce"} \cup RestoreSteps \cup CopySteps

\* task: what restore was called for: by itself, by activate before it starts, or
\* by activate's exception handler.  todo: files still to be moved or copied.
Op == [pc : OpSteps, task : {"restore", "activate", "undo"},
       variant : Variants \cup {NoFile}, todo : SUBSET Files]

NoOp == [pc |-> "idle", task |-> "restore", variant |-> NoFile, todo |-> {}]

OpAt(step) == op.pc = step

OpGoto(step) == op' = [op EXCEPT !.pc = step]

OpExit == op' = NoOp

------------------------------------------------------------------------------
InitialOverlay ==
    /\ dll = [f \in Files |-> NoFile]
    /\ state = NoFile
    /\ evidence = [r \in RunIds |-> NoFile]
    /\ drawnRuns = 0
    /\ op = NoOp
    /\ swapped = {}
    /\ overlayFaults = 0

\* main(): the command line is read and the lock taken.
BeginOp(task, v) ==
    /\ OpAt("idle")
    /\ task = "activate" => drawnRuns < MaxDrawn
    /\ op' = [op EXCEPT !.pc = "start", !.task = task, !.variant = v]
    /\ UNCHANGED <<dll, state, evidence, drawnRuns, swapped, overlayFaults>>

\* A state that is already there is restored first.
Start ==
    /\ OpAt("start")
    /\ IF state # NoFile THEN OpGoto("inspect")
       ELSE IF op.task = "activate" THEN OpGoto("check") ELSE OpExit
    /\ UNCHANGED <<dll, state, evidence, drawnRuns, swapped, overlayFaults>>

------------------------------------------------------------------------------
(* restore *)

\* A missing file is never expected.
InspectStrictBug ==
    /\ OpAt("inspect")
    /\ IF (\A f \in Files : dll[f] = Whole(state.variant)) /\ evidence[state.run] = NoFile
       THEN op' = [op EXCEPT !.pc = "mkdir", !.todo = Files]
       ELSE OpExit
    /\ UNCHANGED <<dll, state, evidence, drawnRuns, swapped, overlayFaults>>

\* Every file that is there must be the candidate's; a missing one is expected
\* only while the activation had not finished.
Inspect ==
    /\ OpAt("inspect")
    /\ LET there == {f \in Files : dll[f] # NoFile} IN
       IF /\ \A f \in there : dll[f] = Whole(state.variant)
          /\ there = Files \/ state.status = "activating"
          /\ evidence[state.run] = NoFile
       THEN op' = [op EXCEPT !.pc = "mkdir", !.todo = there] /\ swapped' = {}
       ELSE OpExit /\ UNCHANGED swapped
    /\ UNCHANGED <<dll, state, evidence, drawnRuns, overlayFaults>>

Mkdir ==
    /\ OpAt("mkdir")
    /\ evidence' = [evidence EXCEPT ![state.run] =
                       [files |-> [f \in Files |-> NoFile], manifest |-> FALSE]]
    /\ OpGoto("move")
    /\ UNCHANGED <<dll, state, drawnRuns, swapped, overlayFaults>>

\* A file is removed from the game, not kept as evidence.
MoveBug(f) ==
    /\ OpAt("move")
    /\ f \in op.todo
    /\ dll' = [dll EXCEPT ![f] = NoFile]
    /\ op' = [op EXCEPT !.todo = op.todo \ {f}]
    /\ UNCHANGED <<state, evidence, drawnRuns, swapped, overlayFaults>>

\* os.replace moves what bears the name by now, and fails if nothing does.
Move(f) ==
    /\ OpAt("move")
    /\ f \in op.todo
    /\ IF dll[f] # NoFile
       THEN /\ evidence' = [evidence EXCEPT ![state.run].files[f] = dll[f]]
            /\ dll' = [dll EXCEPT ![f] = NoFile]
            /\ op' = [op EXCEPT !.todo = op.todo \ {f}]
       ELSE OpExit /\ UNCHANGED <<dll, evidence>>
    /\ UNCHANGED <<state, drawnRuns, swapped, overlayFaults>>

\* The manifest is written, and the state dropped, while files remain to be moved.
ManifestBug ==
    /\ OpAt("move")
    /\ evidence' = [evidence EXCEPT ![state.run].manifest = TRUE]
    /\ OpGoto("unlink")
    /\ UNCHANGED <<dll, state, drawnRuns, swapped, overlayFaults>>

Manifest ==
    /\ OpAt("move")
    /\ op.todo = {}
    /\ evidence' = [evidence EXCEPT ![state.run].manifest = TRUE]
    /\ OpGoto("unlink")
    /\ UNCHANGED <<dll, state, drawnRuns, swapped, overlayFaults>>

\* Back to activate when it was activate that wanted the old state gone.
Unlink ==
    /\ OpAt("unlink")
    /\ state' = NoFile
    /\ IF op.task = "activate" THEN OpGoto("check") ELSE OpExit
    /\ UNCHANGED <<dll, evidence, drawnRuns, swapped, overlayFaults>>

------------------------------------------------------------------------------
(* activate *)

Check ==
    /\ OpAt("check")
    /\ IF \A f \in Files : dll[f] = NoFile THEN OpGoto("announce") ELSE OpExit
    /\ UNCHANGED <<dll, state, evidence, drawnRuns, swapped, overlayFaults>>

\* The run id is made of the time in nanoseconds and the pid.
Announce ==
    /\ OpAt("announce")
    /\ drawnRuns < MaxDrawn
    /\ drawnRuns' = drawnRuns + 1
    /\ state' = [status |-> "activating", variant |-> op.variant, run |-> drawnRuns']
    /\ op' = [op EXCEPT !.pc = "copy", !.todo = Files]
    /\ UNCHANGED <<dll, evidence, swapped, overlayFaults>>

\* The except clause of activate: restore, then raise.
Undo == op' = [op EXCEPT !.pc = "inspect", !.task = "undo", !.todo = {}]

\* copy_exclusive creates the file, O_EXCL, and fills it afterwards.
CopyOpen(f) ==
    /\ OpAt("copy")
    /\ f \in op.todo
    /\ IF dll[f] = NoFile
       THEN dll' = [dll EXCEPT ![f] = Part(op.variant)] /\ OpGoto("copying")
       ELSE Undo /\ UNCHANGED dll
    /\ UNCHANGED <<state, evidence, drawnRuns, swapped, overlayFaults>>

\* The copy is complete and passes regular(), unless another file bears its name by now.
CopyDone(f) ==
    /\ OpAt("copying")
    /\ f \in op.todo
    /\ IF dll[f] = Part(op.variant)
       THEN /\ dll' = [dll EXCEPT ![f] = Whole(op.variant)]
            /\ swapped' = swapped \ {f}
            /\ op' = [op EXCEPT !.pc = "copy", !.todo = op.todo \ {f}]
       ELSE Undo /\ UNCHANGED <<dll, swapped>>
    /\ UNCHANGED <<state, evidence, drawnRuns, overlayFaults>>

Commit ==
    /\ OpAt("copy")
    /\ op.todo = {}
    /\ state' = [state EXCEPT !.status = "active"]
    /\ OpGoto("committed")
    /\ UNCHANGED <<dll, evidence, drawnRuns, swapped, overlayFaults>>

\* activate prints its result, still inside main's lock.
Activated ==
    /\ OpAt("committed")
    /\ OpExit
    /\ UNCHANGED <<dll, state, evidence, drawnRuns, swapped, overlayFaults>>

------------------------------------------------------------------------------
(* Faults and the world around the tool *)

\* SIGKILL or SIGTERM, which the tool does not handle, or a power loss.
KillOp ==
    /\ ~OpAt("idle")
    /\ overlayFaults < MaxOverlayFaults /\ overlayFaults' = overlayFaults + 1
    /\ OpExit
    /\ UNCHANGED <<dll, state, evidence, drawnRuns, swapped>>

\* A full disk, an I/O error or ^C: handled only from the first copy to the commit.
RaiseOp ==
    /\ ~OpAt("idle")
    /\ overlayFaults < MaxOverlayFaults /\ overlayFaults' = overlayFaults + 1
    /\ IF op.pc \in CopySteps THEN Undo ELSE OpExit
    /\ UNCHANGED <<dll, state, evidence, drawnRuns, swapped>>

\* A mod or an update puts a DLL of its own into the game directory, at any time, also over one
\* of ours that a command has just verified.
OtherDll(f) ==
    /\ dll[f] # Foreign
    /\ overlayFaults < MaxOverlayFaults /\ overlayFaults' = overlayFaults + 1
    /\ dll' = [dll EXCEPT ![f] = Foreign]
    /\ swapped' = swapped \cup {f}
    /\ UNCHANGED <<state, evidence, drawnRuns, op>>

\* Someone removes a DLL by hand.
DllRemoved(f) ==
    /\ dll[f] # NoFile
    /\ overlayFaults < MaxOverlayFaults /\ overlayFaults' = overlayFaults + 1
    /\ dll' = [dll EXCEPT ![f] = NoFile]
    /\ swapped' = swapped \cup {f}
    /\ UNCHANGED <<state, evidence, drawnRuns, op>>

Restore == Inspect \/ Mkdir \/ (\E f \in Files : Move(f)) \/ Manifest \/ Unlink

ActivateOverlay ==
    Check \/ Announce \/ (\E f \in Files : CopyOpen(f) \/ CopyDone(f)) \/ Commit
    \/ Activated

OpStep == Start \/ Restore \/ ActivateOverlay

OverlayWorld == \E f \in Files : OtherDll(f) \/ DllRemoved(f)

OpRun ==
    \/ \E v \in Variants : BeginOp("activate", v)
    \/ BeginOp("restore", NoFile)
    \/ OpStep
    \/ KillOp \/ RaiseOp

OverlayNext == OpRun \/ OverlayWorld

OverlaySpec == InitialOverlay /\ [][OverlayNext]_overlayVars

------------------------------------------------------------------------------
(* Properties *)

OverlayTypeOK ==
    /\ dll \in [Files -> Overlay \cup {NoFile, Foreign}]
    /\ state \in State \cup {NoFile}
    /\ evidence \in [RunIds -> Evidence \cup {NoFile}]
    /\ drawnRuns \in 0..MaxDrawn
    /\ op \in Op
    /\ swapped \in SUBSET Files
    /\ overlayFaults \in Nat

\* At whatever step a command dies, each DLL of ours in the game directory, whole
\* or partial, is on record: active.json is there and names its variant.  So no
\* restore ever reports success over a game that still has one.
OnRecord ==
    \A f \in Files : dll[f] \in Overlay =>
        state # NoFile /\ dll[f].variant = state.variant

\* A step of a command, not of the world around it.
ByCommand == op' # op

\* The tool moves a DLL it did not put there only if it took the place of one of ours after
\* restore had verified that one (between regular() and os.replace nothing is looked at again).
ForeignKept ==
    [][ByCommand => \A f \in Files :
           dll[f] = Foreign => dll'[f] = Foreign \/ f \in swapped]_overlayVars

\* "Never silently remove evidence or overwrite a destination": a DLL that is whole, and also one
\* that is not ours, only leaves the game directory for a free place in the evidence directory of
\* the run, and stays there.
NothingLost ==
    [][/\ ByCommand => \A f \in Files, d \in {Whole(v) : v \in Variants} \cup {Foreign} :
             dll[f] = d /\ dll'[f] # d =>
                 /\ evidence[state.run].files[f] = NoFile
                 /\ evidence'[state.run].files[f] = d
       /\ \A r \in RunIds, f \in Files :
             evidence[r] # NoFile /\ evidence[r].files[f] # NoFile =>
                 evidence'[r] # NoFile /\ evidence'[r].files[f] = evidence[r].files[f]]_overlayVars

\* No DLL is overwritten, removed or moved over, be it the tool's own or somebody else's, and
\* somebody else's is moved only if it replaced one of ours under the hands of restore.
NothingOverwritten == ForeignKept /\ NothingLost

\* active.json says "active" only from a moment on when every file of the variant was in the
\* game directory, whole, but for those that others have changed since they were verified.
ActiveIsWhole ==
    [][state' # NoFile /\ state'.status = "active" /\ state' # state =>
           \A f \in Files : dll[f] = Whole(state'.variant) \/ f \in swapped]_overlayVars

------------------------------------------------------------------------------
(* Liveness.  Nothing restarts a killed command; the user, or the next launch,  *)
(* restores again.                                                              *)

RestoredAgain == WF_overlayVars(OpStep) /\ SF_overlayVars(BeginOp("restore", NoFile))

OverlayFairSpec == OverlaySpec /\ RestoredAgain

\* What restore accepts: whole files, all of them once active, no evidence yet.
Intact ==
    /\ state # NoFile /\ evidence[state.run] = NoFile
    /\ \A f \in Files :
           \/ dll[f] = Whole(state.variant)
           \/ dll[f] = NoFile /\ state.status = "activating"

\* An overlay left behind by a killed command between two whole copies, or by one
\* that ended, is restored once nothing goes wrong any more.
IntactRestored == (Intact /\ OpAt("idle") /\ overlayFaults = MaxOverlayFaults) ~> (state = NoFile)

==============================================================================
