-------------------------- MODULE DxvkOverlayProofs --------------------------
(***************************************************************************)
(* The safety properties of DxvkOverlay for every set of files, variants,  *)
(* run ids and any number of kills and errors.  They follow from one       *)
(* inductive invariant, OverlayInv: what the step a command has reached    *)
(* says of active.json, of the game directory and of the evidence.         *)
(***************************************************************************)
EXTENDS DxvkOverlay, TLAPS

Ours(f) == dll[f] \in Overlay

\* Somebody has removed it since, or put another in its place.
Swapped(f) == f \in swapped /\ dll[f] \in {NoFile, Foreign}

\* What each step of a command may rely on.
StepInv ==
    /\ op.pc \in RestoreSteps \cup CopySteps => state # NoFile
    /\ op.pc \in {"check", "announce"} => state = NoFile
    /\ op.pc \in {"start", "check", "announce"} \cup RestoreSteps =>
           (op.task = "activate" => op.variant \in Variants)
    /\ op.pc \in {"check", "announce"} => op.task = "activate"
    /\ op.pc \in CopySteps => op.variant \in Variants /\ state.variant = op.variant
    /\ op.pc \in {"copy", "copying"} =>
           \A f \in Files \ op.todo : dll[f] = Whole(op.variant) \/ f \in swapped
    /\ op.pc \in {"mkdir", "move"} =>
           /\ \A f \in op.todo : dll[f] = Whole(state.variant) \/ Swapped(f)
           /\ \A f \in Files : Ours(f) => f \in op.todo
    /\ op.pc = "mkdir" => evidence[state.run] = NoFile
    /\ op.pc = "move" =>
           /\ evidence[state.run] # NoFile
           /\ \A f \in op.todo : evidence[state.run].files[f] = NoFile
    /\ op.pc = "unlink" =>
           /\ \A f \in Files : ~Ours(f)
           /\ evidence[state.run] # NoFile

OverlayInv == OverlayTypeOK /\ OnRecord /\ StepInv

------------------------------------------------------------------------------
\* The data: what is whole or partial is neither absent nor foreign.
LEMMA OverlayData ==
    /\ \A v \in Variants : Whole(v) \in Overlay /\ Part(v) \in Overlay
    /\ \A v, w \in Variants : Whole(v) # Part(w)
    /\ NoFile \notin Overlay /\ Foreign \notin Overlay /\ NoFile # Foreign
    /\ \A o \in Overlay : o = Whole(o.variant) \/ o = Part(o.variant)
BY DxvkOverlayAssumption DEF Overlay, Whole, Part

\* The initial state satisfies the invariant.
LEMMA OverlayInit == InitialOverlay => OverlayInv
<1> SUFFICES ASSUME InitialOverlay PROVE OverlayInv
  OBVIOUS
<1>1. OverlayTypeOK
  BY DxvkOverlayAssumption DEF InitialOverlay, OverlayTypeOK, Op, NoOp, OpSteps
<1>2. OnRecord
  BY OverlayData DEF InitialOverlay, OnRecord
<1>3. StepInv
  BY DEF InitialOverlay, StepInv, NoOp, RestoreSteps, CopySteps
<1> QED
  BY <1>1, <1>2, <1>3 DEF OverlayInv

\* A command that ends, whatever it leaves on the disk, relies on nothing.
LEMMA ExitInv ==
    ASSUME OpExit PROVE StepInv' /\ op' \in Op
BY DEF OpExit, StepInv, NoOp, RestoreSteps, CopySteps, Op, OpSteps

\* restore keeps the invariant.
LEMMA RestoreInv ==
    ASSUME OverlayInv, Restore PROVE OverlayInv'
<1>0. OverlayTypeOK /\ OnRecord /\ StepInv
  BY DEF OverlayInv
<1>1. CASE Inspect
  <2>1. CASE OpExit
    <3>1. OverlayTypeOK' /\ OnRecord'
      <4>1. swapped' \in SUBSET Files
        BY <1>0, <1>1 DEF Inspect, OverlayTypeOK
      <4>2. QED
        BY <1>0, <1>1, <2>1, <4>1, ExitInv DEF Inspect, OverlayTypeOK, OnRecord
    <3>2. QED
      BY <3>1, <2>1, ExitInv DEF OverlayInv
  <2>2. CASE ~OpExit
    <3>1. /\ op' = [op EXCEPT !.pc = "mkdir", !.todo = {f \in Files : dll[f] # NoFile}]
          /\ \A f \in Files : dll[f] # NoFile => dll[f] = Whole(state.variant)
          /\ evidence[state.run] = NoFile /\ swapped' = {}
          /\ UNCHANGED <<dll, state, evidence, drawnRuns, overlayFaults>>
      BY <1>1, <2>2 DEF Inspect
    <3>2. OverlayTypeOK' /\ OnRecord'
      BY <1>0, <3>1 DEF OverlayTypeOK, OnRecord, Op, OpSteps, RestoreSteps
    <3>3. op.pc = "inspect" /\ op'.pc = "mkdir" /\ op'.task = op.task
          /\ op'.variant = op.variant /\ op'.todo = {f \in Files : dll[f] # NoFile}
      BY <1>0, <1>1, <3>1 DEF OverlayTypeOK, Op, Inspect, OpAt
    <3>4. StepInv'
      BY <1>0, <3>1, <3>3, OverlayData DEF StepInv, Ours, RestoreSteps, CopySteps
    <3>5. QED
      BY <3>2, <3>4 DEF OverlayInv
  <2>3. QED
    BY <2>1, <2>2
<1>2. CASE Mkdir
  <2>0. /\ op.pc = "mkdir" /\ op' = [op EXCEPT !.pc = "move"] /\ state # NoFile
        /\ UNCHANGED <<dll, state, drawnRuns, swapped, overlayFaults>>
    BY <1>0, <1>2 DEF Mkdir, OpAt, OpGoto, StepInv, RestoreSteps
  <2>1. op'.pc = "move" /\ op'.task = op.task /\ op'.variant = op.variant /\ op'.todo = op.todo
    BY <1>0, <2>0 DEF OverlayTypeOK, Op
  <2>2. state.run \in RunIds
    BY <1>0, <2>0 DEF OverlayTypeOK, State
  <2>3. /\ evidence'[state.run] = [files |-> [f \in Files |-> NoFile], manifest |-> FALSE]
        /\ evidence' \in [RunIds -> Evidence \cup {NoFile}]
    BY <1>0, <1>2, <2>2 DEF Mkdir, OverlayTypeOK, Evidence
  <2>4. evidence'[state.run] # NoFile /\ \A f \in Files : evidence'[state.run].files[f] = NoFile
    <3>1. [files |-> [f \in Files |-> NoFile], manifest |-> FALSE] \in Evidence
      BY DEF Evidence
    <3>2. \A f \in Files : evidence'[state.run].files[f] = NoFile
      BY <2>3
    <3>3. QED
      BY <2>3, <3>1, <3>2, DxvkOverlayAssumption
  <2>5. OverlayTypeOK' /\ OnRecord'
    BY <1>0, <2>0, <2>3 DEF OverlayTypeOK, OnRecord, Op, OpSteps, RestoreSteps
  <2>6. /\ \A f \in op.todo : dll[f] = Whole(state.variant) \/ Swapped(f)
        /\ \A f \in Files : Ours(f) => f \in op.todo
        /\ op.task = "activate" => op.variant \in Variants
        /\ op.todo \subseteq Files
    BY <1>0, <2>0 DEF StepInv, RestoreSteps, OverlayTypeOK, Op
  <2>7. StepInv'
    BY <2>0, <2>1, <2>4, <2>6 DEF StepInv, Ours, Swapped, RestoreSteps, CopySteps
  <2>8. QED
    BY <2>5, <2>7 DEF OverlayInv
<1>3. ASSUME NEW f \in Files, Move(f) PROVE OverlayInv'
  <2>a. op.pc = "move" /\ f \in op.todo /\ UNCHANGED <<state, drawnRuns, swapped, overlayFaults>>
    BY <1>3 DEF Move, OpAt
  <2>e. CASE OpExit /\ UNCHANGED <<dll, evidence>>
    BY <1>0, <2>a, <2>e, ExitInv DEF OverlayTypeOK, OnRecord, OverlayInv
  <2>m. CASE /\ dll[f] # NoFile
             /\ op' = [op EXCEPT !.todo = op.todo \ {f}]
             /\ dll' = [dll EXCEPT ![f] = NoFile]
             /\ evidence' = [evidence EXCEPT ![state.run].files[f] = dll[f]]
    <3>0. state # NoFile
      BY <1>0, <2>a DEF StepInv, RestoreSteps
    <3>1. op'.pc = "move" /\ op'.task = op.task /\ op'.variant = op.variant
          /\ op'.todo = op.todo \ {f}
      BY <1>0, <2>a, <2>m DEF OverlayTypeOK, Op
    <3>2. /\ state.run \in RunIds /\ state.variant \in Variants
          /\ evidence[state.run] \in Evidence
      BY <1>0, <2>a, <3>0 DEF OverlayTypeOK, State, StepInv
    <3>4. /\ evidence'[state.run] \in Evidence
          /\ \A g \in Files \ {f} : evidence'[state.run].files[g] = evidence[state.run].files[g]
          /\ evidence' \in [RunIds -> Evidence \cup {NoFile}]
      BY <1>0, <2>m, <3>2 DEF Evidence, OverlayTypeOK
    <3>5. dll' \in [Files -> Overlay \cup {NoFile, Foreign}] /\ dll'[f] = NoFile
          /\ \A g \in Files \ {f} : dll'[g] = dll[g]
      BY <1>0, <2>m DEF OverlayTypeOK
    <3>6. OverlayTypeOK'
      BY <1>0, <2>a, <2>m, <3>4, <3>5 DEF OverlayTypeOK, Op
    <3>7. OnRecord'
      BY <1>0, <2>a, <3>5, OverlayData DEF OnRecord
    <3>8. StepInv'
      BY <1>0, <2>a, <3>0, <3>1, <3>4, <3>5, OverlayData, DxvkOverlayAssumption
         DEF StepInv, Ours, Swapped, RestoreSteps, CopySteps, OverlayTypeOK, Op
    <3>9. QED
      BY <3>6, <3>7, <3>8 DEF OverlayInv
  <2>q. QED
    BY <1>3, <2>e, <2>m DEF Move
<1>4. CASE Manifest
  <2>0. /\ op.pc = "move" /\ op.todo = {} /\ state # NoFile
        /\ op' = [op EXCEPT !.pc = "unlink"]
        /\ UNCHANGED <<dll, state, drawnRuns, swapped, overlayFaults>>
    BY <1>0, <1>4 DEF Manifest, OpAt, OpGoto, StepInv, RestoreSteps
  <2>1. op'.pc = "unlink" /\ op'.task = op.task /\ op'.variant = op.variant
    BY <1>0, <2>0 DEF OverlayTypeOK, Op
  <2>2. state.run \in RunIds /\ evidence[state.run] \in Evidence
    BY <1>0, <2>0 DEF OverlayTypeOK, State, StepInv
  <2>3. /\ evidence'[state.run] \in Evidence
        /\ evidence' \in [RunIds -> Evidence \cup {NoFile}]
    BY <1>0, <1>4, <2>2 DEF Manifest, Evidence, OverlayTypeOK
  <2>4. OverlayTypeOK' /\ OnRecord'
    BY <1>0, <2>0, <2>3 DEF OverlayTypeOK, OnRecord, Op, OpSteps, RestoreSteps
  <2>5. StepInv'
    BY <1>0, <2>0, <2>1, <2>3, DxvkOverlayAssumption
       DEF StepInv, Ours, RestoreSteps, CopySteps
  <2>6. QED
    BY <2>4, <2>5 DEF OverlayInv
<1>5. CASE Unlink
  <2>0. /\ op.pc = "unlink" /\ state' = NoFile /\ UNCHANGED <<dll, evidence, drawnRuns, swapped,
             overlayFaults>>
        /\ \A f \in Files : ~Ours(f)
    BY <1>0, <1>5 DEF Unlink, OpAt, StepInv
  <2>1. OnRecord'
    BY <2>0 DEF OnRecord, Ours
  <2>2. StepInv' /\ op' \in Op
    <3>1. CASE OpExit
      BY <3>1, ExitInv
    <3>2. CASE op.task = "activate" /\ OpGoto("check")
      <4>1. op' \in Op /\ op'.pc = "check" /\ op'.task = "activate" /\ op'.variant = op.variant
        BY <1>0, <3>2 DEF OpGoto, OverlayTypeOK, Op, OpSteps
      <4>2. QED
        BY <1>0, <2>0, <3>2, <4>1 DEF StepInv, RestoreSteps, CopySteps
    <3>3. QED
      BY <1>5, <3>1, <3>2 DEF Unlink
  <2>3. OverlayTypeOK'
    BY <1>0, <2>0, <2>2 DEF OverlayTypeOK
  <2>4. QED
    BY <2>1, <2>2, <2>3 DEF OverlayInv
<1> QED
  BY <1>1, <1>2, <1>3, <1>4, <1>5 DEF Restore

\* So does activate.
LEMMA ActivateInv ==
    ASSUME OverlayInv, ActivateOverlay PROVE OverlayInv'
<1>0. OverlayTypeOK /\ OnRecord /\ StepInv
  BY DEF OverlayInv
<1>1. CASE Check
  <2>1. CASE OpExit
    BY <1>0, <1>1, <2>1, ExitInv DEF Check, OverlayTypeOK, OnRecord, OverlayInv
  <2>2. CASE op.pc = "check" /\ OpGoto("announce")
    <3>1. op' \in Op /\ op'.pc = "announce" /\ op'.task = op.task /\ op'.variant = op.variant
      BY <1>0, <2>2 DEF OpGoto, OverlayTypeOK, Op, OpSteps
    <3>2. UNCHANGED <<dll, state, evidence, drawnRuns, swapped, overlayFaults>>
      BY <1>1 DEF Check
    <3>3. OverlayTypeOK' /\ OnRecord'
      BY <1>0, <3>1, <3>2 DEF OverlayTypeOK, OnRecord
    <3>4. StepInv'
      BY <1>0, <2>2, <3>1, <3>2 DEF StepInv, RestoreSteps, CopySteps
    <3>5. QED
      BY <3>3, <3>4 DEF OverlayInv
  <2>3. QED
    BY <1>1, <2>1, <2>2 DEF Check, OpAt
<1>2. CASE Announce
  <2>0. /\ op.pc = "announce" /\ drawnRuns < MaxDrawn /\ drawnRuns' = drawnRuns + 1
        /\ state' = [status |-> "activating", variant |-> op.variant, run |-> drawnRuns']
        /\ op' = [op EXCEPT !.pc = "copy", !.todo = Files]
        /\ UNCHANGED <<dll, evidence, swapped, overlayFaults>>
    BY <1>2 DEF Announce, OpAt
  <2>1. op.variant \in Variants /\ state = NoFile
    BY <1>0, <2>0 DEF StepInv
  <2>2. op' \in Op /\ op'.pc = "copy" /\ op'.variant = op.variant /\ op'.todo = Files
        /\ op'.task = op.task
    BY <1>0, <2>0 DEF OverlayTypeOK, Op, OpSteps, CopySteps
  <2>3. drawnRuns' \in 1..MaxDrawn /\ drawnRuns' \in 0..MaxDrawn
    BY <1>0, <2>0, DxvkOverlayAssumption DEF OverlayTypeOK
  <2>4. state' \in State
    BY <2>0, <2>1, <2>3 DEF State, RunIds
  <2>5. \A f \in Files : ~Ours(f)
    BY <1>0, <2>1 DEF OnRecord, Ours
  <2>6. OverlayTypeOK'
    BY <1>0, <2>0, <2>2, <2>3, <2>4 DEF OverlayTypeOK
  <2>7. OnRecord'
    BY <2>0, <2>5 DEF OnRecord, Ours
  <2>8. state' # NoFile /\ state'.variant = op.variant
    BY <2>0, <2>4, DxvkOverlayAssumption
  <2>9. StepInv'
    BY <2>1, <2>2, <2>8 DEF StepInv, RestoreSteps, CopySteps
  <2>10. QED
    BY <2>6, <2>7, <2>9 DEF OverlayInv
<1>3. ASSUME NEW f \in Files, CopyOpen(f) PROVE OverlayInv'
  <2>0. op.pc = "copy" /\ UNCHANGED <<state, evidence, drawnRuns, swapped, overlayFaults>>
        /\ state # NoFile /\ op.variant \in Variants /\ state.variant = op.variant
        /\ f \in op.todo /\ \A g \in Files \ op.todo : dll[g] = Whole(op.variant) \/ g \in swapped
    BY <1>0, <1>3 DEF CopyOpen, OpAt, StepInv, CopySteps
  <2>1. CASE Undo /\ UNCHANGED dll
    <3>1. op' \in Op /\ op'.pc = "inspect" /\ op'.task = "undo"
      BY <1>0, <2>1 DEF Undo, OverlayTypeOK, Op, OpSteps, RestoreSteps
    <3>2. QED
      BY <1>0, <2>0, <2>1, <3>1
         DEF OverlayInv, OverlayTypeOK, OnRecord, StepInv, RestoreSteps, CopySteps
  <2>2. CASE dll' = [dll EXCEPT ![f] = Part(op.variant)] /\ OpGoto("copying")
    <3>1. op' \in Op /\ op'.pc = "copying" /\ op'.task = op.task
          /\ op'.variant = op.variant /\ op'.todo = op.todo
      BY <1>0, <2>2 DEF OpGoto, OverlayTypeOK, Op, OpSteps, CopySteps
    <3>2. /\ dll' \in [Files -> Overlay \cup {NoFile, Foreign}]
          /\ dll'[f] = Part(op.variant) /\ \A g \in Files \ {f} : dll'[g] = dll[g]
      BY <1>0, <2>0, <2>2, OverlayData DEF OverlayTypeOK
    <3>3. OverlayTypeOK'
      BY <1>0, <2>0, <3>1, <3>2 DEF OverlayTypeOK
    <3>4. OnRecord'
      BY <1>0, <2>0, <3>2 DEF OnRecord, Part
    <3>5. StepInv'
      BY <2>0, <3>1, <3>2 DEF StepInv, RestoreSteps, CopySteps
    <3>6. QED
      BY <3>3, <3>4, <3>5 DEF OverlayInv
  <2>3. QED
    BY <1>3, <2>1, <2>2 DEF CopyOpen
<1>4. ASSUME NEW f \in Files, CopyDone(f) PROVE OverlayInv'
  <2>0. /\ op.pc = "copying" /\ UNCHANGED <<state, evidence, drawnRuns, overlayFaults>>
        /\ state # NoFile /\ op.variant \in Variants /\ state.variant = op.variant
        /\ f \in op.todo
        /\ \A g \in Files \ op.todo : dll[g] = Whole(op.variant) \/ g \in swapped
    BY <1>0, <1>4 DEF CopyDone, OpAt, StepInv, CopySteps
  <2>u. CASE Undo /\ UNCHANGED <<dll, swapped>>
    <3>1. op' \in Op /\ op'.pc = "inspect" /\ op'.task = "undo"
      BY <1>0, <2>u DEF Undo, OverlayTypeOK, Op, OpSteps, RestoreSteps
    <3>2. QED
      BY <1>0, <2>0, <2>u, <3>1
         DEF OverlayInv, OverlayTypeOK, OnRecord, StepInv, RestoreSteps, CopySteps
  <2>w. CASE /\ dll' = [dll EXCEPT ![f] = Whole(op.variant)]
             /\ swapped' = swapped \ {f}
             /\ op' = [op EXCEPT !.pc = "copy", !.todo = op.todo \ {f}]
    <3>1. op' \in Op /\ op'.pc = "copy" /\ op'.variant = op.variant
          /\ op'.todo = op.todo \ {f} /\ op'.task = op.task
      BY <1>0, <2>w DEF OverlayTypeOK, Op, OpSteps, CopySteps
    <3>2. /\ dll' \in [Files -> Overlay \cup {NoFile, Foreign}]
          /\ dll'[f] = Whole(op.variant) /\ \A g \in Files \ {f} : dll'[g] = dll[g]
      BY <1>0, <2>0, <2>w, OverlayData DEF OverlayTypeOK
    <3>3. OverlayTypeOK'
      BY <1>0, <2>0, <2>w, <3>1, <3>2 DEF OverlayTypeOK
    <3>4. OnRecord'
      BY <1>0, <2>0, <3>2 DEF OnRecord, Whole
    <3>5. StepInv'
      BY <2>0, <2>w, <3>1, <3>2 DEF StepInv, RestoreSteps, CopySteps
    <3>6. QED
      BY <3>3, <3>4, <3>5 DEF OverlayInv
  <2>q. QED
    BY <1>4, <2>u, <2>w DEF CopyDone
<1>5. CASE Commit
  <2>0. /\ op.pc = "copy" /\ op' = [op EXCEPT !.pc = "committed"]
        /\ state # NoFile /\ op.variant \in Variants /\ state.variant = op.variant
        /\ state' = [state EXCEPT !.status = "active"]
        /\ UNCHANGED <<dll, evidence, drawnRuns, swapped, overlayFaults>>
    BY <1>0, <1>5 DEF Commit, OpAt, OpGoto, StepInv, CopySteps
  <2>1. op' \in Op /\ op'.pc = "committed" /\ op'.variant = op.variant /\ op'.task = op.task
    BY <1>0, <2>0 DEF OverlayTypeOK, Op, OpSteps, CopySteps
  <2>2. state' \in State /\ state'.variant = state.variant
    BY <1>0, <2>0 DEF OverlayTypeOK, State
  <2>3. OverlayTypeOK' /\ OnRecord'
    BY <1>0, <2>0, <2>1, <2>2, DxvkOverlayAssumption DEF OverlayTypeOK, OnRecord
  <2>4. StepInv'
    BY <2>0, <2>1, <2>2, DxvkOverlayAssumption DEF StepInv, RestoreSteps, CopySteps
  <2>5. QED
    BY <2>3, <2>4 DEF OverlayInv
<1>6. CASE Activated
  BY <1>0, <1>6, ExitInv DEF Activated, OverlayInv, OverlayTypeOK, OnRecord
<1> QED
  BY <1>1, <1>2, <1>3, <1>4, <1>5, <1>6 DEF ActivateOverlay

\* So does everything else.
LEMMA OtherInv ==
    ASSUME OverlayInv,
           \/ \E task \in {"activate"}, v \in Variants : BeginOp(task, v)
           \/ BeginOp("restore", NoFile)
           \/ Start \/ KillOp \/ RaiseOp \/ OverlayWorld \/ UNCHANGED overlayVars
    PROVE  OverlayInv'
<1>0. OverlayTypeOK /\ OnRecord /\ StepInv
  BY DEF OverlayInv
<1>1. ASSUME NEW task \in {"activate", "restore"}, NEW v \in Variants \cup {NoFile},
             task = "activate" => v \in Variants, BeginOp(task, v)
      PROVE  OverlayInv'
  <2>1. op' \in Op /\ op'.pc = "start" /\ op'.task = task /\ op'.variant = v
    BY <1>0, <1>1 DEF BeginOp, OverlayTypeOK, Op, OpSteps
  <2>2. UNCHANGED <<dll, state, evidence, drawnRuns, swapped, overlayFaults>>
    BY <1>1 DEF BeginOp
  <2>3. QED
    BY <1>0, <1>1, <2>1, <2>2
       DEF OverlayInv, OverlayTypeOK, OnRecord, StepInv, RestoreSteps, CopySteps
<1>2. CASE Start
  <2>0. /\ op.pc = "start" /\ UNCHANGED <<dll, state, evidence, drawnRuns, swapped, overlayFaults>>
        /\ op.task = "activate" => op.variant \in Variants
    BY <1>0, <1>2 DEF Start, OpAt, StepInv
  <2>1. CASE OpExit
    BY <1>0, <2>0, <2>1, ExitInv DEF OverlayInv, OverlayTypeOK, OnRecord
  <2>2. CASE state # NoFile /\ OpGoto("inspect")
    <3>1. op' \in Op /\ op'.pc = "inspect" /\ op'.task = op.task /\ op'.variant = op.variant
      BY <1>0, <2>2 DEF OpGoto, OverlayTypeOK, Op, OpSteps, RestoreSteps
    <3>2. QED
      BY <1>0, <2>0, <2>2, <3>1
         DEF OverlayInv, OverlayTypeOK, OnRecord, StepInv, RestoreSteps, CopySteps
  <2>3. CASE state = NoFile /\ op.task = "activate" /\ OpGoto("check")
    <3>1. op' \in Op /\ op'.pc = "check" /\ op'.task = op.task /\ op'.variant = op.variant
      BY <1>0, <2>3 DEF OpGoto, OverlayTypeOK, Op, OpSteps
    <3>2. QED
      BY <1>0, <2>0, <2>3, <3>1
         DEF OverlayInv, OverlayTypeOK, OnRecord, StepInv, RestoreSteps, CopySteps
  <2>4. QED
    BY <1>2, <2>1, <2>2, <2>3 DEF Start
<1>3. CASE KillOp
  <2>1. UNCHANGED <<dll, state, evidence, drawnRuns,
          swapped>> /\ overlayFaults' \in Nat /\ StepInv' /\ op' \in Op
    BY <1>0, <1>3, ExitInv DEF KillOp, OverlayTypeOK
  <2>2. QED
    BY <1>0, <2>1 DEF OverlayInv, OverlayTypeOK, OnRecord
<1>4. CASE RaiseOp
  <2>1. UNCHANGED <<dll, state, evidence, drawnRuns, swapped>> /\ overlayFaults' \in Nat
    BY <1>0, <1>4 DEF RaiseOp, OverlayTypeOK
  <2>2. CASE OpExit
    BY <1>0, <2>1, <2>2, ExitInv DEF OverlayInv, OverlayTypeOK, OnRecord
  <2>3. CASE op.pc \in CopySteps /\ Undo
    <3>1. op' \in Op /\ op'.pc = "inspect" /\ op'.task = "undo"
      BY <1>0, <2>3 DEF Undo, OverlayTypeOK, Op, OpSteps, RestoreSteps
    <3>2. QED
      BY <1>0, <2>1, <2>3, <3>1
         DEF OverlayInv, OverlayTypeOK, OnRecord, StepInv, RestoreSteps, CopySteps
  <2>4. QED
    BY <1>4, <2>2, <2>3 DEF RaiseOp
<1>5. ASSUME NEW f \in Files, OtherDll(f) \/ DllRemoved(f) PROVE OverlayInv'
  <2>0. PICK d \in {NoFile, Foreign} :
            /\ UNCHANGED <<state, evidence, drawnRuns, op>> /\ overlayFaults' \in Nat
            /\ dll' = [dll EXCEPT ![f] = d] /\ swapped' = swapped \cup {f}
    BY <1>0, <1>5 DEF OtherDll, DllRemoved, OverlayTypeOK
  <2>1. /\ dll' \in [Files -> Overlay \cup {NoFile, Foreign}] /\ dll'[f] = d
        /\ \A g \in Files \ {f} : dll'[g] = dll[g]
        /\ swapped' \in SUBSET Files
    BY <1>0, <2>0 DEF OverlayTypeOK
  <2>2. OverlayTypeOK' /\ OnRecord'
    BY <1>0, <2>0, <2>1, OverlayData DEF OverlayTypeOK, OnRecord
  <2>3. op.todo \in SUBSET Files
    BY <1>0 DEF OverlayTypeOK, Op
  <2>4. /\ op'.pc = op.pc /\ op'.todo = op.todo /\ op'.task = op.task
        /\ op'.variant = op.variant /\ state' = state /\ evidence' = evidence
        /\ f \in swapped' /\ \A g \in Files : g \in swapped => g \in swapped'
        /\ ~Ours(f)' /\ (\A g \in Files \ {f} : Ours(g)' => Ours(g))
        /\ Swapped(f)' /\ (\A g \in Files \ {f} : Swapped(g) => Swapped(g)')
    BY <2>0, <2>1, OverlayData DEF Ours, Swapped
  <2>5. StepInv'
    BY <1>0, <2>1, <2>3, <2>4 DEF StepInv, RestoreSteps, CopySteps
  <2>6. QED
    BY <2>2, <2>5 DEF OverlayInv
<1>7. CASE UNCHANGED overlayVars
  <2>1. StepInv'
    BY <1>0, <1>7 DEF overlayVars, StepInv, Ours, Swapped
  <2>2. QED
    BY <1>0, <1>7, <2>1 DEF overlayVars, OverlayInv, OverlayTypeOK, OnRecord
<1> QED
  BY <1>1, <1>2, <1>3, <1>4, <1>5, <1>7 DEF OverlayWorld

\* The invariant holds of every behaviour.
LEMMA OverlayInvariant == OverlaySpec => []OverlayInv
<1>1. OverlayInv /\ [OverlayNext]_overlayVars => OverlayInv'
  BY RestoreInv, ActivateInv, OtherInv DEF OverlayNext, OpRun, OpStep
<1> QED
  BY OverlayInit, <1>1, PTL DEF OverlaySpec

\* Every reachable state of the overlay tool is well typed.
THEOREM OverlayTypeCorrect == OverlaySpec => []OverlayTypeOK
<1>1. OverlayInv => OverlayTypeOK
  BY DEF OverlayInv
<1> QED
  BY OverlayInvariant, <1>1, PTL

\* Each DLL the tool left in the game directory is on record in active.json,
\* after any number of kills and errors at any step.
THEOREM EveryDllOnRecord == OverlaySpec => []OnRecord
<1>1. OverlayInv => OnRecord
  BY DEF OverlayInv
<1> QED
  BY OverlayInvariant, <1>1, PTL

------------------------------------------------------------------------------
\* The tool neither overwrites a DLL it did not put there nor moves one, unless it took the place
\* of one of ours that restore had verified: what activate creates was absent.
THEOREM ForeignDllKept == OverlaySpec => ForeignKept
<1>1. ASSUME OverlayInv, [OverlayNext]_overlayVars, ByCommand, NEW f \in Files, dll[f] = Foreign
      PROVE  dll'[f] = Foreign \/ f \in swapped
  <2>0. OverlayTypeOK /\ StepInv
    BY <1>1 DEF OverlayInv
  <2>1. ASSUME NEW g \in Files, Move(g) PROVE dll'[f] = Foreign \/ f \in swapped
    <3>1. /\ dll[g] = Whole(state.variant) \/ Swapped(g)
          /\ state.variant \in Variants
      BY <2>0, <2>1 DEF Move, OpAt, StepInv, OverlayTypeOK, State, RestoreSteps
    <3>2. f # g \/ f \in swapped
      BY <1>1, <3>1, OverlayData DEF Swapped
    <3>3. QED
      BY <1>1, <2>0, <2>1, <3>2 DEF Move, OverlayTypeOK
  <2>2. ASSUME NEW g \in Files, CopyOpen(g) PROVE dll'[f] = Foreign
    <3>1. CASE UNCHANGED dll
      BY <1>1, <3>1
    <3>2. CASE dll[g] = NoFile /\ dll' = [dll EXCEPT ![g] = Part(op.variant)]
      BY <1>1, <2>0, <3>2, OverlayData DEF OverlayTypeOK
    <3>3. QED
      BY <2>2, <3>1, <3>2 DEF CopyOpen
  <2>3. ASSUME NEW g \in Files, CopyDone(g) PROVE dll'[f] = Foreign
    <3>1. CASE UNCHANGED dll
      BY <1>1, <3>1
    <3>2. CASE dll[g] = Part(op.variant) /\ dll' = [dll EXCEPT ![g] = Whole(op.variant)]
      <4>1. op.variant \in Variants
        BY <2>0, <2>3 DEF CopyDone, OpAt, StepInv, CopySteps
      <4>2. f # g
        BY <1>1, <3>2, <4>1, OverlayData
      <4>3. QED
        BY <1>1, <2>0, <3>2, <4>2 DEF OverlayTypeOK
    <3>3. QED
      BY <2>3, <3>1, <3>2 DEF CopyDone
  <2>4. CASE OverlayWorld
    BY <1>1, <2>4 DEF OverlayWorld, OtherDll, DllRemoved, ByCommand
  <2>5. CASE UNCHANGED dll
    BY <1>1, <2>5
  <2>6. QED
    BY <1>1, <2>1, <2>2, <2>3, <2>4, <2>5
       DEF OverlayNext, OpRun, BeginOp, OpStep, Start, Restore, Inspect, Mkdir, Manifest, Unlink,
           ActivateOverlay, Check, Announce, Commit, Activated, KillOp, RaiseOp, overlayVars
<1>2. OverlayInv /\ [OverlayNext]_overlayVars =>
        [ByCommand => \A f \in Files :
           dll[f] = Foreign => dll'[f] = Foreign \/ f \in swapped]_overlayVars
  BY <1>1
<1> QED
  BY OverlayInvariant, <1>2, PTL DEF OverlaySpec, ForeignKept

\* active.json only becomes "active" in a step before which every file of its
\* variant was in the game directory, whole, or changed by others after it had been.
THEOREM ActiveOnlyWhole == OverlaySpec => ActiveIsWhole
<1>1. ASSUME OverlayInv, [OverlayNext]_overlayVars, state' # NoFile, state'.status = "active",
        state' # state,
             NEW f \in Files
      PROVE  dll[f] = Whole(state'.variant) \/ f \in swapped
  <2>0. OverlayTypeOK /\ StepInv
    BY <1>1 DEF OverlayInv
  <2>1. CASE Commit
    <3>1. /\ op.pc = "copy" /\ op.todo = {} /\ state # NoFile
          /\ state' = [state EXCEPT !.status = "active"] /\ state.variant = op.variant
      BY <2>0, <2>1 DEF Commit, OpAt, StepInv, CopySteps
    <3>2. state'.variant = state.variant
      BY <2>0, <3>1 DEF OverlayTypeOK, State
    <3>3. dll[f] = Whole(op.variant) \/ f \in swapped
      BY <2>0, <3>1 DEF StepInv
    <3>4. QED
      BY <3>1, <3>2, <3>3
  <2>2. CASE Announce
    BY <1>1, <2>2 DEF Announce
  <2>3. CASE Unlink
    BY <1>1, <2>3 DEF Unlink
  <2>4. CASE UNCHANGED state
    BY <1>1, <2>4
  <2>5. QED
    BY <1>1, <2>1, <2>2, <2>3, <2>4
       DEF OverlayNext, OpRun, BeginOp, OpStep, Start, Restore, Inspect, Mkdir, Move, Manifest,
           ActivateOverlay, Check, CopyOpen, CopyDone, Activated, KillOp, RaiseOp, OverlayWorld,
             OtherDll,
           DllRemoved, overlayVars
<1>2. OverlayInv /\ [OverlayNext]_overlayVars =>
        [state' # NoFile /\ state'.status = "active" /\ state' # state =>
            \A f \in Files : dll[f] = Whole(state'.variant) \/ f \in swapped]_overlayVars
  BY <1>1
<1> QED
  BY OverlayInvariant, <1>2, PTL DEF OverlaySpec, ActiveIsWhole

\* A whole DLL, or one that is not ours, leaves the game directory only for a free place in the
\* evidence directory of its run, and what is in an evidence directory stays there.
THEOREM NoDllLost == OverlaySpec => NothingLost
<1>1. ASSUME OverlayInv, [OverlayNext]_overlayVars, ByCommand, NEW f \in Files,
             NEW d \in {Whole(v) : v \in Variants} \cup {Foreign},
             dll[f] = d, dll'[f] # d
      PROVE  /\ evidence[state.run].files[f] = NoFile
             /\ evidence'[state.run].files[f] = d
  <2>0. OverlayTypeOK /\ StepInv
    BY <1>1 DEF OverlayInv
  <2>d. d # NoFile /\ \A v \in Variants : d # Part(v)
    BY OverlayData
  <2>1. ASSUME NEW g \in Files, Move(g)
        PROVE  /\ evidence[state.run].files[f] = NoFile
               /\ evidence'[state.run].files[f] = d
    <3>1. f = g
      BY <1>1, <2>0, <2>1 DEF Move, OverlayTypeOK
    <3>2. /\ state # NoFile /\ evidence[state.run] # NoFile
          /\ evidence[state.run].files[f] = NoFile
          /\ evidence' = [evidence EXCEPT ![state.run].files[f] = dll[f]]
      BY <1>1, <2>0, <2>1, <2>d, <3>1 DEF Move, OpAt, StepInv, RestoreSteps
    <3>3. state.run \in RunIds /\ evidence[state.run] \in Evidence
      BY <2>0, <3>2 DEF OverlayTypeOK, State
    <3>4. QED
      BY <1>1, <2>0, <3>2, <3>3 DEF OverlayTypeOK, Evidence
  <2>2. ASSUME NEW g \in Files, CopyOpen(g) PROVE dll'[f] = dll[f]
    <3>1. CASE UNCHANGED dll
      BY <3>1
    <3>2. CASE dll[g] = NoFile /\ dll' = [dll EXCEPT ![g] = Part(op.variant)]
      BY <1>1, <2>0, <2>d, <3>2 DEF OverlayTypeOK
    <3>3. QED
      BY <2>2, <3>1, <3>2 DEF CopyOpen
  <2>3. ASSUME NEW g \in Files, CopyDone(g) PROVE dll'[f] = dll[f]
    <3>1. CASE UNCHANGED dll
      BY <3>1
    <3>2. CASE dll[g] = Part(op.variant) /\ dll' = [dll EXCEPT ![g] = Whole(op.variant)]
      <4>1. op.variant \in Variants
        BY <2>0, <2>3 DEF CopyDone, OpAt, StepInv, CopySteps
      <4>2. f # g
        BY <1>1, <2>d, <3>2, <4>1
      <4>3. QED
        BY <2>0, <3>2, <4>2 DEF OverlayTypeOK
    <3>3. QED
      BY <2>3, <3>1, <3>2 DEF CopyDone
  <2>4. CASE OverlayWorld
    BY <1>1, <2>4 DEF OverlayWorld, OtherDll, DllRemoved, ByCommand
  <2>5. CASE UNCHANGED dll
    BY <1>1, <2>5
  <2>6. QED
    BY <1>1, <2>1, <2>2, <2>3, <2>4, <2>5
       DEF OverlayNext, OpRun, BeginOp, OpStep, Start, Restore, Inspect, Mkdir, Manifest, Unlink,
           ActivateOverlay, Check, Announce, Commit, Activated, KillOp, RaiseOp, overlayVars
<1>2. ASSUME OverlayInv, [OverlayNext]_overlayVars, NEW r \in RunIds, NEW f \in Files,
             evidence[r] # NoFile, evidence[r].files[f] # NoFile
      PROVE  evidence'[r] # NoFile /\ evidence'[r].files[f] = evidence[r].files[f]
  <2>0. OverlayTypeOK /\ StepInv
    BY <1>2 DEF OverlayInv
  <2>1. CASE Mkdir
    <3>1. evidence[state.run] = NoFile /\ state # NoFile
      BY <2>0, <2>1 DEF Mkdir, OpAt, StepInv, RestoreSteps
    <3>2. QED
      BY <1>2, <2>0, <2>1, <3>1 DEF Mkdir, OverlayTypeOK
  <2>2. ASSUME NEW g \in Files, Move(g)
        PROVE  evidence'[r] # NoFile /\ evidence'[r].files[f] = evidence[r].files[f]
    <3>e. CASE UNCHANGED evidence
      BY <1>2, <3>e
    <3>m. CASE evidence' = [evidence EXCEPT ![state.run].files[g] = dll[g]]
      <4>1. /\ state # NoFile /\ evidence[state.run] # NoFile
            /\ evidence[state.run].files[g] = NoFile
        BY <2>0, <2>2 DEF Move, OpAt, StepInv, RestoreSteps
      <4>2. state.run \in RunIds /\ evidence[state.run] \in Evidence
        BY <2>0, <4>1 DEF OverlayTypeOK, State
      <4>3. evidence'[state.run] \in Evidence
        BY <2>0, <3>m, <4>2 DEF OverlayTypeOK, Evidence
      <4>4. r = state.run => f # g
        BY <1>2, <4>1
      <4>5. QED
        BY <1>2, <2>0, <3>m, <4>1, <4>2, <4>3, <4>4, DxvkOverlayAssumption DEF OverlayTypeOK,
           Evidence
    <3>q. QED
      BY <2>2, <3>e, <3>m DEF Move
  <2>3. CASE Manifest
    <3>1. state # NoFile /\ evidence[state.run] # NoFile
          /\ evidence' = [evidence EXCEPT ![state.run].manifest = TRUE]
      BY <2>0, <2>3 DEF Manifest, OpAt, StepInv, RestoreSteps
    <3>2. state.run \in RunIds /\ evidence[state.run] \in Evidence
      BY <2>0, <3>1 DEF OverlayTypeOK, State
    <3>3. evidence'[state.run] \in Evidence
          /\ evidence'[state.run].files = evidence[state.run].files
      BY <2>0, <3>1, <3>2 DEF OverlayTypeOK, Evidence
    <3>4. QED
      BY <1>2, <2>0, <3>1, <3>2, <3>3, DxvkOverlayAssumption DEF OverlayTypeOK
  <2>4. CASE UNCHANGED evidence
    BY <1>2, <2>4
  <2>5. QED
    BY <1>2, <2>1, <2>2, <2>3, <2>4
       DEF OverlayNext, OpRun, BeginOp, OpStep, Start, Restore, Inspect, Unlink,
           ActivateOverlay, Check,
           Announce, CopyOpen, CopyDone, Commit, Activated, KillOp, RaiseOp, OverlayWorld, OtherDll,
           DllRemoved, overlayVars
<1>3. OverlayInv /\ [OverlayNext]_overlayVars =>
        [/\ ByCommand => \A f \in Files, d \in {Whole(v) : v \in Variants} \cup {Foreign} :
               dll[f] = d /\ dll'[f] # d =>
                   /\ evidence[state.run].files[f] = NoFile
                   /\ evidence'[state.run].files[f] = d
         /\ \A r \in RunIds, f \in Files :
               evidence[r] # NoFile /\ evidence[r].files[f] # NoFile =>
                   evidence'[r] # NoFile
                   /\ evidence'[r].files[f] = evidence[r].files[f]]_overlayVars
  BY <1>1, <1>2
<1> QED
  BY OverlayInvariant, <1>3, PTL DEF OverlaySpec, NothingLost

\* The tool overwrites or loses no DLL, its own or another's, and touches another's only where it
\* took the place of one that restore had verified (NothingOverwritten).
THEOREM NothingIsOverwritten == OverlaySpec => NothingOverwritten
BY ForeignDllKept, NoDllLost DEF NothingOverwritten
==============================================================================
