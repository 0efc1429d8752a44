------------------------ MODULE SeedAndLibraryProofs -------------------------
(***************************************************************************)
(* Theorems about SeedSetup, for any sets of slots, locks and labels, and  *)
(* about RemovableLibrary, for any sets of cards and files and any bounds. *)
(***************************************************************************)
EXTENDS SeedSetup, RemovableLibrary, TLAPS

USE DEF At, seedFiles, clientFiles

------------------------------------------------------------------------------
(* Type correctness *)

\* A command that is to write into its quarantine has found or made it; no
\* quarantine is ever removed.
QuarantineMade ==
    \A p \in Procs :
        run[p].pc \in {"archive", "announce", "move", "unreceipt", "untransact", "complete"} =>
            quarantine[run[p].label] # None

TypeInv == TypeOK /\ QuarantineMade

\* A step that moves a command on keeps run and said well typed.
LEMMA GotoType ==
    ASSUME run \in [Procs -> Run], said \in [Procs -> Outcomes],
           NEW p \in Procs, NEW s \in Steps, Goto(p, s), run[p].pc # "idle",
           s \in RollbackSteps => run[p].label \in Labels,
           s \in {"mkdir", "archive", "announce"} \cup (ActivateSteps \ {"activate"}) =>
               run[p].receipt \in Tree
    PROVE  run' \in [Procs -> Run] /\ said' \in [Procs -> Outcomes]
<1>1. run[p] \in Run
  OBVIOUS
<1>2. [run[p] EXCEPT !.pc = s] \in Run
  BY <1>1 DEF Run
<1>3. QED
  BY <1>2 DEF Goto

\* So does a step that ends it.
LEMMA ExitType ==
    ASSUME run \in [Procs -> Run], said \in [Procs -> Outcomes],
           NEW p \in Procs, NEW o \in Outcomes, Exit(p, o)
    PROVE  run' \in [Procs -> Run] /\ said' \in [Procs -> Outcomes]
<1>1. Idle \in Run
  BY DEF Idle, Run, Steps, RollbackSteps, ActivateSteps
<1>2. QED
  BY <1>1 DEF Exit

\* The steps of prepare.
LEMMA PrepareType ==
    ASSUME TypeOK, NEW p \in Procs, Prepare(p)
    PROVE  TypeOK'
<1> USE DEF TypeOK, Outcomes, Validates
<1>0. /\ \A s \in PrepareSteps : s \in Steps /\ s \notin RollbackSteps /\ s \notin ActivateSteps
                                 /\ s \notin {"mkdir", "archive", "announce"}
      /\ {"consider", "open", "fetch", "place", "receipt", "close"} \subseteq PrepareSteps
  BY DEF Steps, PrepareSteps, RollbackSteps, ActivateSteps
<1>r. run[p].pc # "idle" => run[p].lock \in Locks
  BY DEF Run
<1>1. CASE PrepareReceipted(p)
  BY <1>0, <1>1, GotoType, ExitType DEF PrepareReceipted
<1>2. CASE PrepareConsider(p)
  BY <1>0, <1>2, GotoType, ExitType DEF PrepareConsider
<1>3. CASE PrepareOpen(p)
  BY <1>0, <1>r, <1>3, GotoType DEF PrepareOpen, Transaction
<1>4. CASE PrepareFetch(p)
  BY <1>0, <1>4, GotoType, ExitType DEF PrepareFetch
<1>5. CASE PreparePlace(p)
  BY <1>0, <1>r, <1>5, GotoType, ExitType DEF PreparePlace, Tree
<1>6. CASE PrepareReceipt(p)
  BY <1>0, <1>6, GotoType, ExitType DEF PrepareReceipt
<1>7. CASE PrepareClose(p)
  BY <1>7, ExitType DEF PrepareClose
<1>. QED
  BY <1>1, <1>2, <1>3, <1>4, <1>5, <1>6, <1>7 DEF Prepare

\* The steps of rollback.
LEMMA RollbackType ==
    ASSUME TypeInv, NEW p \in Procs, Rollback(p)
    PROVE  TypeOK'
<1> USE DEF TypeInv, QuarantineMade, TypeOK, Outcomes
<1>0. /\ \A s \in RollbackSteps : s \in Steps /\ s \notin ActivateSteps /\ s # "idle"
      /\ RollbackSteps = {"rollback", "mkdir", "archive", "announce", "reread", "check",
                  "move", "unreceipt", "untransact", "complete"}
  BY DEF Steps, RollbackSteps, ActivateSteps
<1>r. /\ run[p].pc # "idle" => run[p].lock \in Locks
      /\ run[p].pc \in RollbackSteps => run[p].label \in Labels
      /\ run[p].pc \in {"mkdir", "archive", "announce"} => run[p].receipt \in Tree
      /\ run[p] \in Run
  BY DEF Run
<1>1. CASE RollbackRead(p)
  <2>1. CASE Exit(p, "refused") /\ UNCHANGED <<seedFiles, clientFiles, crashes>>
    BY <2>1, ExitType
  <2>2. CASE /\ seedTxn # None /\ seedTxn.kind = "rollback" /\ seedTxn.lock = run[p].lock
             /\ run' = [run EXCEPT ![p].pc = "check", ![p].label = seedTxn.label]
             /\ UNCHANGED <<said, seedFiles, clientFiles, crashes>>
    <3>1. seedTxn.label \in Labels
      BY <2>2 DEF Transaction
    <3>2. [run[p] EXCEPT !.pc = "check", !.label = seedTxn.label] \in Run
      BY <1>0, <1>1, <1>r, <3>1 DEF Run, RollbackRead
    <3>3. QED
      BY <2>2, <3>2
  <2>3. CASE /\ Validates(seedReceipt, run[p].lock, seed)
             /\ run' = [run EXCEPT ![p].pc = "mkdir", ![p].receipt = seedReceipt]
             /\ UNCHANGED <<said, seedFiles, clientFiles, crashes>>
    <3>1. seedReceipt \in Tree
      BY <2>3 DEF Validates
    <3>2. [run[p] EXCEPT !.pc = "mkdir", !.receipt = seedReceipt] \in Run
      BY <1>0, <1>1, <1>r, <3>1 DEF Run, RollbackRead
    <3>3. QED
      BY <2>3, <3>2
  <2>4. QED
    BY <1>1, <2>1, <2>2, <2>3 DEF RollbackRead
<1>2. CASE RollbackMkdir(p)
  <2>1. [receipt |-> None, payload |-> None, complete |-> FALSE] \in Quarantine
    BY DEF Quarantine
  <2>2. QED
    BY <1>0, <1>r, <1>2, <2>1, GotoType, ExitType DEF RollbackMkdir
<1>3. CASE RollbackArchive(p)
  <2>1. quarantine' \in [Labels -> Quarantine \cup {None}]
    BY <1>0, <1>r, <1>3 DEF RollbackArchive, Quarantine
  <2>2. run' \in [Procs -> Run] /\ said' \in [Procs -> Outcomes]
    BY <1>0, <1>r, <1>3, GotoType DEF RollbackArchive
  <2>3. QED
    BY <1>3, <2>1, <2>2 DEF RollbackArchive
<1>4. CASE RollbackAnnounce(p)
  BY <1>0, <1>r, <1>4, GotoType DEF RollbackAnnounce, Transaction
<1>5. CASE RollbackReread(p)
  <2>1. CASE Exit(p, "refused") /\ UNCHANGED <<seedFiles, clientFiles, crashes>>
    BY <2>1, ExitType
  <2>2. CASE /\ seedTxn # None /\ seedTxn.kind = "rollback" /\ seedTxn.lock = run[p].lock
             /\ run' = [run EXCEPT ![p].pc = "check", ![p].label = seedTxn.label]
             /\ UNCHANGED <<said, seedFiles, clientFiles, crashes>>
    <3>1. seedTxn.label \in Labels
      BY <2>2 DEF Transaction
    <3>2. [run[p] EXCEPT !.pc = "check", !.label = seedTxn.label] \in Run
      BY <1>0, <1>5, <1>r, <3>1 DEF Run, RollbackReread
    <3>3. QED
      BY <2>2, <3>2
  <2>3. QED
    BY <1>5, <2>1, <2>2 DEF RollbackReread
<1>6. CASE RollbackCheck(p)
  BY <1>0, <1>r, <1>6, GotoType, ExitType DEF RollbackCheck
<1>7. CASE RollbackMove(p)
  <2>1. quarantine' \in [Labels -> Quarantine \cup {None}]
    BY <1>0, <1>r, <1>7 DEF RollbackMove, Quarantine
  <2>2. run' \in [Procs -> Run] /\ said' \in [Procs -> Outcomes]
    BY <1>0, <1>r, <1>7, GotoType, ExitType DEF RollbackMove
  <2>3. QED
    BY <1>7, <2>1, <2>2 DEF RollbackMove
<1>8. CASE RollbackUnreceipt(p)
  BY <1>0, <1>r, <1>8, GotoType DEF RollbackUnreceipt
<1>9. CASE RollbackUntransact(p)
  BY <1>0, <1>r, <1>9, GotoType DEF RollbackUntransact
<1>10. CASE RollbackComplete(p)
  <2>1. quarantine' \in [Labels -> Quarantine \cup {None}]
    BY <1>0, <1>r, <1>10 DEF RollbackComplete, Quarantine
  <2>2. QED
    BY <1>10, <2>1, ExitType DEF RollbackComplete
<1>. QED
  BY <1>1, <1>2, <1>3, <1>4, <1>5, <1>6, <1>7, <1>8, <1>9, <1>10 DEF Rollback

\* The steps of activate.
LEMMA ActivateType ==
    ASSUME TypeOK, NEW p \in Procs, Activate(p)
    PROVE  TypeOK'
<1> USE DEF TypeOK, Outcomes
<1>0. /\ \A s \in ActivateSteps : s \in Steps /\ s \notin RollbackSteps /\ s # "idle"
      /\ ActivateSteps = {"activate", "known", "claim", "stake", "look", "copy", "copying",
                  "verify", "rename", "certify", "settle"}
  BY DEF Steps, RollbackSteps, ActivateSteps
<1>r. /\ run[p].pc # "idle" => run[p].lock \in Locks
      /\ run[p].pc \in ActivateSteps \ {"activate"} => run[p].receipt \in Tree
      /\ run[p] \in Run
  BY DEF Run
<1>1. CASE ActivateSeed(p)
  <2>1. CASE Exit(p, "refused") /\ UNCHANGED <<seedFiles, clientFiles, crashes>>
    BY <2>1, ExitType
  <2>2. CASE /\ Validates(seedReceipt, run[p].lock, seed)
             /\ run' = [run EXCEPT ![p].pc = "known", ![p].receipt = seedReceipt]
             /\ UNCHANGED <<said, seedFiles, clientFiles, crashes>>
    <3>1. seedReceipt \in Tree
      BY <2>2 DEF Validates
    <3>2. [run[p] EXCEPT !.pc = "known", !.receipt = seedReceipt] \in Run
      BY <1>0, <1>1, <1>r, <3>1 DEF Run, ActivateSeed
    <3>3. QED
      BY <2>2, <3>2
  <2>3. QED
    BY <1>1, <2>1, <2>2 DEF ActivateSeed
<1>2. CASE ActivateKnown(p)
  BY <1>0, <1>r, <1>2, GotoType, ExitType DEF ActivateKnown
<1>3. CASE ActivateClaim(p)
  BY <1>0, <1>r, <1>3, GotoType, ExitType DEF ActivateClaim
<1>4. CASE ActivateStake(p)
  BY <1>0, <1>r, <1>4, GotoType DEF ActivateStake
<1>5. CASE ActivateLook(p)
  BY <1>0, <1>r, <1>5, GotoType, ExitType DEF ActivateLook
<1>6. CASE ActivateCopy(p)
  BY <1>0, <1>r, <1>6, GotoType, ExitType DEF ActivateCopy, As, Tree
<1>7. CASE ActivateCopied(p)
  BY <1>0, <1>r, <1>7, GotoType, ExitType DEF ActivateCopied
<1>8. CASE ActivateVerify(p)
  BY <1>0, <1>r, <1>8, GotoType, ExitType DEF ActivateVerify
<1>9. CASE ActivateRename(p)
  BY <1>0, <1>r, <1>9, GotoType, ExitType DEF ActivateRename
<1>10. CASE ActivateCertify(p)
  BY <1>0, <1>r, <1>10, GotoType, ExitType DEF ActivateCertify
<1>11. CASE ActivateSettle(p)
  BY <1>11, ExitType DEF ActivateSettle
<1>. QED
  BY <1>1, <1>2, <1>3, <1>4, <1>5, <1>6, <1>7, <1>8, <1>9, <1>10, <1>11 DEF Activate

\* Steps that start or end a command, and those of the world.
LEMMA OtherType ==
    ASSUME TypeOK,
           \/ \E p \in Procs, c \in Commands, l \in Locks, q \in Labels : Begin(p, c, l, q)
           \/ \E p \in Procs : Crash(p)
           \/ World
           \/ UNCHANGED vars
    PROVE  TypeOK'
<1> USE DEF TypeOK, Outcomes
<1>1. ASSUME NEW p \in Procs, NEW c \in Commands, NEW l \in Locks, NEW q \in Labels,
             Begin(p, c, l, q)
      PROVE  TypeOK'
  <2>1. [pc |-> c, lock |-> l, receipt |-> None,
         label |-> IF c = "rollback" THEN q ELSE None] \in Run
    BY DEF Run, Commands, Steps, PrepareSteps, RollbackSteps, ActivateSteps
  <2>2. QED
    BY <1>1, <2>1 DEF Begin
<1>2. ASSUME NEW p \in Procs, Crash(p)
      PROVE  TypeOK'
  BY <1>2, ExitType DEF Crash
<1>3. CASE World
  BY <1>3 DEF World, SteamUpdates, UserInstallsClient, SeedEdited, As, Tree
<1>4. CASE UNCHANGED vars
  BY <1>4 DEF vars
<1>5. QED
  BY <1>1, <1>2, <1>3, <1>4

\* A step of one slot leaves the others alone.
Only(p) == \A x \in Procs \ {p} : run'[x] = run[x]

LEMMA GotoSlot ==
    ASSUME run \in [Procs -> Run], NEW p \in Procs, NEW s \in Steps, Goto(p, s)
    PROVE  Only(p) /\ run'[p] = [run[p] EXCEPT !.pc = s]
                   /\ run'[p].pc = s /\ run'[p].label = run[p].label
BY DEF Goto, Run, Only

LEMMA ExitSlot ==
    ASSUME run \in [Procs -> Run], NEW p \in Procs, NEW o \in Outcomes, Exit(p, o)
    PROVE  Only(p) /\ run'[p] = Idle /\ run'[p].pc = "idle"
BY DEF Exit, Idle, Only

Making == {"archive", "announce", "move", "unreceipt", "untransact", "complete"}

\* What a step must do to keep QuarantineMade: remove no quarantine, and move its
\* slot to a writing step only if the quarantine is there.
LEMMA KeepMade ==
    ASSUME TypeInv, NEW p \in Procs, Only(p),
           run'[p].pc \in Making => quarantine'[run'[p].label] # None,
           \A q \in Labels : quarantine[q] # None => quarantine'[q] # None
    PROVE  QuarantineMade'
<1>1. \A x \in Procs : run[x].pc \in Making => run[x].label \in Labels
  BY DEF TypeInv, TypeOK, Run, Making, RollbackSteps
<1>2. ASSUME NEW x \in Procs, run'[x].pc \in Making
      PROVE  quarantine'[run'[x].label] # None
  <2>1. CASE x = p
    BY <1>2, <2>1
  <2>2. CASE x # p
    <3>1. run'[x] = run[x]
      BY <2>2 DEF Only
    <3>2. QED
      BY <1>1, <1>2, <3>1 DEF TypeInv, QuarantineMade, Making
  <2>3. QED
    BY <2>1, <2>2
<1>3. QED
  BY <1>2 DEF QuarantineMade, Making

\* A step of prepare moves on within prepare, or exits.
LEMMA PrepareShape ==
    ASSUME NEW p, Prepare(p)
    PROVE  (\E s \in PrepareSteps : Goto(p, s)) \/ (\E o \in Outcomes : Exit(p, o))
<1> USE DEF PrepareSteps, Outcomes
<1>1. CASE PrepareReceipted(p)
  BY <1>1 DEF PrepareReceipted
<1>2. CASE PrepareConsider(p)
  BY <1>2 DEF PrepareConsider
<1>3. CASE PrepareOpen(p) \/ PrepareFetch(p) \/ PreparePlace(p)
  BY <1>3 DEF PrepareOpen, PrepareFetch, PreparePlace
<1>4. CASE PrepareReceipt(p) \/ PrepareClose(p)
  BY <1>4 DEF PrepareReceipt, PrepareClose
<1>5. QED
  BY <1>1, <1>2, <1>3, <1>4 DEF Prepare

\* A step of activate after its first moves on within activate, or exits.
LEMMA ActivateShape ==
    ASSUME NEW p, Activate(p), ~ActivateSeed(p)
    PROVE  (\E s \in ActivateSteps : Goto(p, s)) \/ (\E o \in Outcomes : Exit(p, o))
<1> USE DEF ActivateSteps, Outcomes
<1>1. CASE ActivateKnown(p) \/ ActivateClaim(p) \/ ActivateStake(p)
  BY <1>1 DEF ActivateKnown, ActivateClaim, ActivateStake
<1>2. CASE ActivateLook(p)
  BY <1>2 DEF ActivateLook
<1>3. CASE ActivateCopy(p) \/ ActivateCopied(p) \/ ActivateVerify(p)
  BY <1>3 DEF ActivateCopy, ActivateCopied, ActivateVerify
<1>4. CASE ActivateRename(p) \/ ActivateCertify(p) \/ ActivateSettle(p)
  BY <1>4 DEF ActivateRename, ActivateCertify, ActivateSettle
<1>5. QED
  BY <1>1, <1>2, <1>3, <1>4 DEF Activate

\* Every step removes no quarantine and enters its own only when it is there.
LEMMA QuarantineKept ==
    ASSUME TypeInv, [Next]_vars
    PROVE  QuarantineMade'
<1>0. /\ run \in [Procs -> Run]
      /\ quarantine \in [Labels -> Quarantine \cup {None}]
      /\ \A x \in Procs : run[x].pc \in RollbackSteps => run[x].label \in Labels
      /\ \A x \in Procs : run[x].pc \in Making => quarantine[run[x].label] # None
  BY DEF TypeInv, TypeOK, Run, QuarantineMade, Making
<1>q. /\ None \notin Quarantine
      /\ [receipt |-> None, payload |-> None, complete |-> FALSE] \in Quarantine
  BY SeedSetupAssumption DEF Quarantine
<1>1. ASSUME NEW p \in Procs, Prepare(p)
      PROVE  QuarantineMade'
  <2>1. (\E s \in PrepareSteps : Goto(p, s)) \/ (\E o \in Outcomes : Exit(p, o))
    BY <1>1, PrepareShape
  <2>1a. Only(p) /\ run'[p].pc \notin Making
    BY <1>0, <2>1, GotoSlot, ExitSlot DEF Steps, PrepareSteps, Making
  <2>2. UNCHANGED quarantine
    BY <1>1 DEF Prepare, PrepareReceipted, PrepareConsider, PrepareOpen,
       PrepareFetch, PreparePlace, PrepareReceipt, PrepareClose
  <2>3. QED
    BY <2>1a, <2>2, KeepMade
<1>2. ASSUME NEW p \in Procs, Activate(p)
      PROVE  QuarantineMade'
  <2>1. Only(p) /\ run'[p].pc \notin Making
    <3>1. CASE ActivateSeed(p)
      <4>1. CASE Exit(p, "refused")
        BY <1>0, <4>1, GotoSlot, ExitSlot DEF Outcomes, Making
      <4>2. CASE run' = [run EXCEPT ![p].pc = "known", ![p].receipt = seedReceipt]
        BY <1>0, <4>2 DEF Run, Making, Only
      <4>3. QED
        BY <3>1, <4>1, <4>2 DEF ActivateSeed
    <3>2. CASE ~ActivateSeed(p)
      <4>1. (\E s \in ActivateSteps : Goto(p, s)) \/ (\E o \in Outcomes : Exit(p, o))
        BY <1>2, <3>2, ActivateShape
      <4>2. QED
        BY <1>0, <4>1, GotoSlot, ExitSlot DEF Steps, ActivateSteps, Making
    <3>3. QED
      BY <3>1, <3>2
  <2>2. UNCHANGED quarantine
    BY <1>2 DEF Activate, ActivateSeed, ActivateKnown, ActivateClaim,
         ActivateStake, ActivateLook, ActivateCopy, ActivateCopied, ActivateVerify,
         ActivateRename, ActivateCertify, ActivateSettle
  <2>3. QED
    BY <2>1, <2>2, KeepMade
<1>3. ASSUME NEW p \in Procs, Rollback(p)
      PROVE  QuarantineMade'
  <2> USE <1>0 DEF Steps, RollbackSteps, Outcomes
  <2>1. CASE RollbackRead(p)
    <3>1. Only(p) /\ run'[p].pc \notin Making
      <4>1. CASE Exit(p, "refused")
        BY <4>1, GotoSlot, ExitSlot DEF Making
      <4>2. CASE run' = [run EXCEPT ![p].pc = "check", ![p].label = seedTxn.label]
        BY <4>2 DEF Run, Making, Only
      <4>3. CASE run' = [run EXCEPT ![p].pc = "mkdir", ![p].receipt = seedReceipt]
        BY <4>3 DEF Run, Making, Only
      <4>4. QED
        BY <2>1, <4>1, <4>2, <4>3 DEF RollbackRead
    <3>2. QED
      BY <2>1, <3>1, KeepMade DEF RollbackRead
  <2>q. \A q \in Labels : quarantine[q] # None => quarantine[q] \in Quarantine
    OBVIOUS
  <2>l. run[p].pc \in RollbackSteps => run[p].label \in Labels
    OBVIOUS
  <2>2. CASE RollbackMkdir(p)
    <3>1. CASE Exit(p, "refused") /\ UNCHANGED quarantine
      BY <3>1, ExitSlot, KeepMade DEF Making
    <3>2. CASE /\ Goto(p, "archive")
               /\ quarantine' = [quarantine EXCEPT ![run[p].label] =
                                    [receipt |-> None, payload |-> None, complete |-> FALSE]]
      <4>1. Only(p) /\ run'[p].label = run[p].label
        BY <3>2, GotoSlot
      <4>2. \A q \in Labels : quarantine[q] # None => quarantine'[q] # None
        BY <1>q, <3>2
      <4>3. quarantine'[run[p].label] # None
        BY <1>q, <2>l, <2>2, <3>2 DEF RollbackMkdir
      <4>4. QED
        BY <4>1, <4>2, <4>3, KeepMade
    <3>3. QED
      BY <2>2, <3>1, <3>2 DEF RollbackMkdir
  <2>3. CASE RollbackArchive(p)
    <3>1. Only(p) /\ run'[p].label = run[p].label
      BY <2>3, GotoSlot DEF RollbackArchive
    <3>2. /\ run[p].label \in Labels /\ quarantine[run[p].label] \in Quarantine
          /\ run[p].receipt \in Tree
      BY <2>q, <2>l, <2>3 DEF RollbackArchive, Run, Making
    <3>3. quarantine'[run[p].label] \in Quarantine
      BY <2>3, <3>2 DEF RollbackArchive, Quarantine
    <3>4. QED
      BY <1>q, <2>3, <3>1, <3>2, <3>3, KeepMade DEF RollbackArchive
  <2>4. CASE RollbackAnnounce(p)
    BY <2>4, GotoSlot, ExitSlot, KeepMade DEF RollbackAnnounce, Making
  <2>5. CASE RollbackReread(p)
    <3>1. Only(p) /\ run'[p].pc \notin Making
      <4>1. CASE Exit(p, "refused")
        BY <4>1, GotoSlot, ExitSlot DEF Making
      <4>2. CASE run' = [run EXCEPT ![p].pc = "check", ![p].label = seedTxn.label]
        BY <4>2 DEF Run, Making, Only
      <4>3. QED
        BY <2>5, <4>1, <4>2 DEF RollbackReread
    <3>2. QED
      BY <2>5, <3>1, KeepMade DEF RollbackReread
  <2>6. CASE RollbackCheck(p)
    BY <2>6, GotoSlot, ExitSlot, KeepMade, ZenonT(60) DEF RollbackCheck, Making
  <2>7. CASE RollbackMove(p)
    <3>1. CASE Exit(p, "refused") /\ UNCHANGED quarantine
      BY <3>1, ExitSlot, KeepMade DEF Making
    <3>2. CASE /\ Goto(p, "unreceipt") /\ seed # None
               /\ quarantine' = [quarantine EXCEPT ![run[p].label].payload = seed]
      <4>1. Only(p) /\ run'[p].label = run[p].label
        BY <3>2, GotoSlot
      <4>2. run[p].label \in Labels /\ quarantine[run[p].label] \in Quarantine
        BY <2>q, <2>l, <2>7 DEF RollbackMove, Making
      <4>3. quarantine'[run[p].label] \in Quarantine
        BY <3>2, <4>2 DEF Quarantine, TypeInv, TypeOK
      <4>4. QED
        BY <1>q, <3>2, <4>1, <4>2, <4>3, KeepMade
    <3>3. QED
      BY <2>7, <3>1, <3>2 DEF RollbackMove
  <2>8. CASE RollbackUnreceipt(p)
    BY <2>8, GotoSlot, ExitSlot, KeepMade DEF RollbackUnreceipt, Making
  <2>9. CASE RollbackUntransact(p)
    BY <2>9, GotoSlot, ExitSlot, KeepMade DEF RollbackUntransact, Making
  <2>10. CASE RollbackComplete(p)
    <3>1. Only(p) /\ run'[p].pc = "idle"
      BY <2>10, ExitSlot DEF RollbackComplete
    <3>2. run[p].label \in Labels /\ quarantine[run[p].label] \in Quarantine
      BY <2>q, <2>l, <2>10 DEF RollbackComplete, Making
    <3>3. quarantine'[run[p].label] \in Quarantine
      BY <2>10, <3>2 DEF RollbackComplete, Quarantine
    <3>4. QED
      BY <1>q, <2>10, <3>1, <3>2, <3>3, KeepMade DEF RollbackComplete, Making
  <2>11. QED
    BY <1>3, <2>1, <2>2, <2>3, <2>4, <2>5, <2>6, <2>7, <2>8, <2>9, <2>10 DEF Rollback
<1>4. ASSUME NEW p \in Procs, NEW c \in Commands, NEW l \in Locks, NEW q \in Labels,
             Begin(p, c, l, q)
      PROVE  QuarantineMade'
  BY <1>0, <1>4, KeepMade DEF Begin, Commands, Making, Only
<1>5. ASSUME NEW p \in Procs, Crash(p)
      PROVE  QuarantineMade'
  BY <1>0, <1>5, GotoSlot, ExitSlot, KeepMade DEF Crash, Outcomes, Making
<1>6. CASE World
  BY <1>6 DEF World, SteamUpdates, UserInstallsClient, SeedEdited, TypeInv, QuarantineMade
<1>7. CASE UNCHANGED vars
  BY <1>7 DEF vars, TypeInv, QuarantineMade
<1>8. QED
  BY <1>1, <1>2, <1>3, <1>4, <1>5, <1>6, <1>7 DEF Next, Command

\* Type correctness is inductive together with QuarantineMade.
LEMMA TypeInvInductive == TypeInv /\ [Next]_vars => TypeInv'
<1> SUFFICES ASSUME TypeInv, [Next]_vars PROVE TypeInv'
  OBVIOUS
<1>1. QuarantineMade'
  BY QuarantineKept
<1>2. TypeOK'
  BY PrepareType, RollbackType, ActivateType, OtherType DEF TypeInv, Next, Command
<1>3. QED
  BY <1>1, <1>2 DEF TypeInv

\* TypeInv holds of every reachable state.
LEMMA TypeInvariant == Spec => []TypeInv
<1>1. Init => TypeInv
  BY DEF Init, TypeInv, TypeOK, QuarantineMade, Run, Idle, Steps, RollbackSteps,
     ActivateSteps, Outcomes
<1>2. QED
  BY <1>1, TypeInvInductive, PTL DEF Spec

\* The variables of every reachable state are well typed, whatever commands run
\* at once and wherever they are killed (TypeOK).
THEOREM TypeCorrect == Spec => []TypeOK
<1>1. TypeInv => TypeOK
  BY DEF TypeInv
<1>2. QED
  BY <1>1, TypeInvariant, PTL

------------------------------------------------------------------------------
(* What holds of any number of concurrent commands *)

\* prepare and rollback leave the client's files alone.
LEMMA SeedCommandsLeaveClient ==
    ASSUME NEW p, Prepare(p) \/ Rollback(p)
    PROVE  UNCHANGED clientFiles
<1>1. CASE Prepare(p)
  BY <1>1 DEF Prepare, PrepareReceipted, PrepareConsider, PrepareOpen, PrepareFetch,
     PreparePlace, PrepareReceipt, PrepareClose
<1>2. CASE Rollback(p)
  BY <1>2 DEF Rollback, RollbackRead, RollbackMkdir, RollbackArchive, RollbackAnnounce,
     RollbackReread, RollbackCheck, RollbackMove, RollbackUnreceipt, RollbackUntransact,
     RollbackComplete
<1>3. QED
  BY <1>1, <1>2

\* activate leaves the seed's files alone.
LEMMA ActivateLeavesSeed ==
    ASSUME NEW p, Activate(p)
    PROVE  UNCHANGED seedFiles
BY DEF Activate, ActivateSeed, ActivateKnown, ActivateClaim, ActivateStake,
   ActivateLook, ActivateCopy, ActivateCopied, ActivateVerify, ActivateRename,
   ActivateCertify, ActivateSettle

\* Of the commands' steps only the promoting rename changes base/client, and only
\* the certificate changes its receipt.
LEMMA ClientSteps ==
    ASSUME NEW p, Activate(p)
    PROVE  /\ UNCHANGED client \/ (client = None /\ UNCHANGED clientReceipt)
           /\ UNCHANGED clientReceipt \/ ActivateCertify(p)
BY DEF Activate, ActivateSeed, ActivateKnown, ActivateClaim, ActivateStake,
   ActivateLook, ActivateCopy, ActivateCopied, ActivateVerify, ActivateRename,
   ActivateCertify, ActivateSettle

\* A client tree that exists is never replaced or removed by any interleaving of
\* the commands (ClientNeverReplaced).
THEOREM ClientKept == Spec => ClientNeverReplaced
<1>1. [Next]_vars => (client # None => client' = client \/ client' = As("updated", client))
  <2> SUFFICES ASSUME [Next]_vars, client # None
               PROVE  client' = client \/ client' = As("updated", client)
    OBVIOUS
  <2>1. ASSUME NEW p \in Procs, Command(p)
        PROVE  UNCHANGED client
    BY <2>1, SeedCommandsLeaveClient, ClientSteps DEF Command
  <2>2. ASSUME NEW p \in Procs, NEW c \in Commands, NEW l \in Locks, NEW q \in Labels,
               Begin(p, c, l, q) \/ Crash(p)
        PROVE  UNCHANGED client
    BY <2>2 DEF Begin, Crash
  <2>2a. ASSUME NEW p \in Procs, Crash(p)
         PROVE  UNCHANGED client
    BY <2>2a DEF Crash
  <2>3. CASE World
    BY <2>3 DEF World, SteamUpdates, UserInstallsClient, SeedEdited
  <2>4. CASE UNCHANGED vars
    BY <2>4 DEF vars
  <2>5. QED
    BY <2>1, <2>2, <2>2a, <2>3, <2>4 DEF Next
<1>2. QED
  BY <1>1, PTL DEF Spec, ClientNeverReplaced

\* An activation receipt always describes the client that is there, unless Valve
\* has updated it since (ClientReceiptSound).
THEOREM ClientReceiptHolds == Spec => []ClientReceiptSound
<1>1. Init => ClientReceiptSound
  BY DEF Init, ClientReceiptSound
<1>2. TypeInv /\ ClientReceiptSound /\ [Next]_vars => ClientReceiptSound'
  <2> SUFFICES ASSUME TypeInv, ClientReceiptSound, [Next]_vars
               PROVE  ClientReceiptSound'
    OBVIOUS
  <2>0. CASE UNCHANGED <<client, clientReceipt>>
    BY <2>0 DEF ClientReceiptSound, As
  <2>1. ASSUME NEW p \in Procs, Activate(p)
        PROVE  ClientReceiptSound'
    <3>1. CASE ActivateCertify(p)
      <4>1. CASE client = run[p].receipt /\ clientReceipt' = run[p].receipt
        <5>1. run[p].receipt \in Tree
          BY <3>1 DEF ActivateCertify, TypeInv, TypeOK, Run, ActivateSteps
        <5>2. QED
          BY <3>1, <4>1, <5>1, SeedSetupAssumption DEF ActivateCertify, ClientReceiptSound
      <4>2. QED
        BY <2>0, <3>1, <4>1 DEF ActivateCertify
    <3>2. CASE ~ActivateCertify(p)
      <4>1. UNCHANGED clientReceipt /\ (UNCHANGED client \/ client = None)
        BY <2>1, <3>2, ClientSteps
      <4>2. QED
        BY <2>0, <4>1 DEF ClientReceiptSound
    <3>3. QED
      BY <3>1, <3>2
  <2>2. ASSUME NEW p \in Procs, Prepare(p) \/ Rollback(p)
        PROVE  ClientReceiptSound'
    BY <2>0, <2>2, SeedCommandsLeaveClient
  <2>3. CASE World
    <3>1. CASE SteamUpdates
      <4>1. client \in Tree /\ client' = [lock |-> client.lock, form |-> "updated"]
        BY <3>1 DEF SteamUpdates, As, TypeInv, TypeOK
      <4>2. client' \in Tree /\ client'.lock = client.lock /\ client' = As("updated", client)'
        BY <4>1 DEF Tree, As
      <4>3. QED
        BY <3>1, <4>2, SeedSetupAssumption DEF SteamUpdates, ClientReceiptSound
    <3>2. CASE UserInstallsClient
      BY <3>2 DEF UserInstallsClient, ClientReceiptSound
    <3>3. QED
      BY <2>0, <2>3, <3>1, <3>2 DEF World, SeedEdited
  <2>4. ASSUME NEW p \in Procs, NEW c \in Commands, NEW l \in Locks, NEW q \in Labels,
               Begin(p, c, l, q)
        PROVE  ClientReceiptSound'
    BY <2>0, <2>4 DEF Begin
  <2>5. ASSUME NEW p \in Procs, Crash(p)
        PROVE  ClientReceiptSound'
    BY <2>0, <2>5 DEF Crash
  <2>6. CASE UNCHANGED vars
    BY <2>0, <2>6 DEF vars
  <2>7. QED
    BY <2>1, <2>2, <2>3, <2>4, <2>5, <2>6 DEF Next, Command
<1>3. QED
  BY <1>1, <1>2, TypeInvariant, PTL DEF Spec

\* Making a quarantine, filling in its receipt and marking it leave every payload as it is.
LEMMA PayloadsFrame ==
    ASSUME TypeInv, NEW p \in Procs,
           RollbackMkdir(p) \/ RollbackArchive(p) \/ RollbackComplete(p)
    PROVE  \A x \in Labels : Payload(x)' = Payload(x)
<1>0. /\ quarantine \in [Labels -> Quarantine \cup {None}]
      /\ run[p].label \in Labels
      /\ run[p].pc \in Making => quarantine[run[p].label] \in Quarantine
  BY DEF TypeInv, TypeOK, Run, QuarantineMade, Making, RollbackMkdir, RollbackArchive,
     RollbackComplete, RollbackSteps
<1> DEFINE q == run[p].label
<1>1. CASE RollbackMkdir(p)
  <2>1. CASE quarantine[q] = None
    <3>1. /\ quarantine'[q] = [receipt |-> None, payload |-> None, complete |-> FALSE]
          /\ \A x \in Labels \ {q} : quarantine'[x] = quarantine[x]
      BY <1>0, <1>1, <2>1 DEF RollbackMkdir
    <3>2. QED
      BY <2>1, <3>1 DEF Payload
  <2>2. QED
    BY <1>1, <2>1 DEF RollbackMkdir, Payload
<1>2. CASE RollbackArchive(p) \/ RollbackComplete(p)
  <2>1. quarantine[q] \in Quarantine
    BY <1>0, <1>2 DEF RollbackArchive, RollbackComplete, Making
  <2>2. /\ quarantine'[q] \in Quarantine /\ quarantine'[q].payload = quarantine[q].payload
        /\ \A x \in Labels \ {q} : quarantine'[x] = quarantine[x]
    <3>1. CASE RollbackArchive(p)
      <4>1. run[p].receipt \in Tree
        BY <3>1 DEF RollbackArchive, TypeInv, TypeOK, Run
      <4>2. QED
        BY <1>0, <2>1, <3>1, <4>1 DEF RollbackArchive, Quarantine
    <3>2. CASE RollbackComplete(p)
      BY <1>0, <2>1, <3>2 DEF RollbackComplete, Quarantine
    <3>3. QED
      BY <1>2, <3>1, <3>2
  <2>3. QED
    BY <2>1, <2>2, SeedSetupAssumption DEF Payload
<1>3. QED
  BY <1>1, <1>2

\* No interleaving of commands destroys a seed tree or a quarantined payload
\* (SeedNeverLost).
THEOREM SeedKept == Spec => SeedNeverLost
<1> DEFINE Kept == \A q \in Labels : Payload(q) # None => Payload(q)' = Payload(q)
           Moved == seed # None /\ seed' = None =>
                      \E q \in Labels : Payload(q) = None /\ Payload(q)' = seed
<1>1. TypeInv /\ [Next]_vars => Moved /\ Kept
  <2> SUFFICES ASSUME TypeInv, [Next]_vars PROVE Moved /\ Kept
    OBVIOUS
  <2>q. /\ quarantine \in [Labels -> Quarantine \cup {None}]
        /\ \A q \in Labels : quarantine[q] # None => quarantine[q] \in Quarantine
        /\ \A p \in Procs : run[p].pc \in RollbackSteps => run[p].label \in Labels
        /\ \A p \in Procs : run[p].pc \in Making => quarantine[run[p].label] # None
    BY DEF TypeInv, TypeOK, Run, QuarantineMade, Making
  <2>0. CASE UNCHANGED quarantine /\ (UNCHANGED seed \/ seed = None \/ seed' # None)
    BY <2>0 DEF Payload
  <2>1. ASSUME NEW p \in Procs, Prepare(p)
        PROVE  Moved /\ Kept
    <3>1. UNCHANGED quarantine /\ (UNCHANGED seed \/ seed = None)
      BY <2>1 DEF Prepare, PrepareReceipted, PrepareConsider, PrepareOpen, PrepareFetch,
         PreparePlace, PrepareReceipt, PrepareClose
    <3>2. QED
      BY <2>0, <3>1
  <2>2. ASSUME NEW p \in Procs, Rollback(p)
        PROVE  Moved /\ Kept
    <3>1. CASE RollbackMkdir(p) \/ RollbackArchive(p) \/ RollbackComplete(p)
      <4>1. UNCHANGED seed
        BY <3>1 DEF RollbackMkdir, RollbackArchive, RollbackComplete
      <4>2. QED
        BY <3>1, <4>1, PayloadsFrame
    <3>3. CASE RollbackMove(p)
      <4>0. PICK q \in Labels : q = run[p].label
        BY <2>q, <3>3 DEF RollbackMove, RollbackSteps
      <4>1. CASE /\ seed # None /\ quarantine[q].payload = None
                 /\ quarantine' = [quarantine EXCEPT ![q].payload = seed]
        <5>1. quarantine[q] \in Quarantine /\ seed \in Tree
          BY <2>q, <3>3, <4>0, <4>1 DEF RollbackMove, Making, TypeInv, TypeOK
        <5>2. /\ quarantine'[q] \in Quarantine /\ quarantine'[q].payload = seed
              /\ \A x \in Labels \ {q} : quarantine'[x] = quarantine[x]
          BY <2>q, <4>1, <5>1 DEF Quarantine
        <5>3. Payload(q) = None /\ Payload(q)' = seed
          BY <4>1, <5>1, <5>2, SeedSetupAssumption DEF Payload
        <5>4. \A x \in Labels \ {q} : Payload(x)' = Payload(x)
          BY <5>2 DEF Payload
        <5>5. QED
          BY <5>3, <5>4
      <4>2. QED
        BY <2>0, <3>3, <4>0, <4>1 DEF RollbackMove
    <3>4. CASE \/ RollbackRead(p) \/ RollbackAnnounce(p) \/ RollbackReread(p) \/ RollbackCheck(p)
               \/ RollbackUnreceipt(p) \/ RollbackUntransact(p)
      BY <2>0, <3>4 DEF RollbackRead, RollbackAnnounce, RollbackReread, RollbackCheck,
         RollbackUnreceipt, RollbackUntransact
    <3>5. QED
      BY <2>2, <3>1, <3>3, <3>4 DEF Rollback
  <2>3. ASSUME NEW p \in Procs, Activate(p)
        PROVE  Moved /\ Kept
    BY <2>0, <2>3, ActivateLeavesSeed
  <2>4. ASSUME NEW p \in Procs, NEW c \in Commands, NEW l \in Locks, NEW q \in Labels,
               Begin(p, c, l, q)
        PROVE  Moved /\ Kept
    BY <2>0, <2>4 DEF Begin
  <2>5. ASSUME NEW p \in Procs, Crash(p)
        PROVE  Moved /\ Kept
    BY <2>0, <2>5 DEF Crash
  <2>6. CASE World
    <3>1. CASE SeedEdited
      <4>1. seed' \in Tree
        BY <3>1 DEF SeedEdited, As, Tree, TypeInv, TypeOK
      <4>2. QED
        BY <2>0, <3>1, <4>1, SeedSetupAssumption DEF SeedEdited
    <3>2. QED
      BY <2>0, <2>6, <3>1 DEF World, SteamUpdates, UserInstallsClient
  <2>7. CASE UNCHANGED vars
    BY <2>0, <2>7 DEF vars
  <2>8. QED
    BY <2>1, <2>2, <2>3, <2>4, <2>5, <2>6, <2>7 DEF Next, Command
<1>2. QED
  BY <1>1, TypeInvariant, PTL DEF Spec, SeedNeverLost

------------------------------------------------------------------------------
(* What holds when commands run one at a time, killed at any step *)

OneAtATime == \E p \in Procs : Procs = {p}

Archived(q) == quarantine[q].receipt

\* What each step may rely on, besides the three properties themselves.
StepInv(p) ==
    LET r == run[p] IN
    /\ r.pc \in {"consider", "open", "fetch", "place", "receipt"} => seedReceipt = None
    /\ r.pc = "open" => seedTxn = None /\ seed = None
    /\ r.pc \in {"fetch", "place", "receipt", "close"} => Preparing
    /\ r.pc \in {"mkdir", "archive", "announce"} =>
           /\ seedTxn = None
           /\ r.receipt.lock = r.lock
           /\ seedReceipt = r.receipt /\ seed = r.receipt
    /\ r.pc = "archive" => quarantine[r.label].payload = None
    /\ r.pc = "announce" => quarantine[r.label].payload = None /\ Archived(r.label) = r.receipt
    /\ r.pc \in {"reread", "check", "move", "unreceipt", "untransact"} =>
           RollingBack /\ seedTxn.label = r.label
    /\ r.pc = "move" => seed = Archived(r.label) /\ quarantine[r.label].payload = None
    /\ r.pc \in {"unreceipt", "untransact"} =>
           seed = None /\ quarantine[r.label].payload = Archived(r.label)
    /\ r.pc = "untransact" => seedReceipt = None
    /\ r.pc = "complete" => quarantine[r.label].payload # None

FilesInv ==
    /\ SeedReceiptSound
    /\ RollbackResumable
    /\ QuarantineExact
    /\ RollingBack /\ seed # None => seed.lock = Archived(seedTxn.label).lock

SingleInv == FilesInv /\ \A p \in Procs : StepInv(p)

\* FilesInv speaks of the seed's files only.
LEMMA FilesFrame ==
    ASSUME FilesInv, UNCHANGED seedFiles
    PROVE  FilesInv'
BY DEF FilesInv, SeedReceiptSound, RollbackResumable, QuarantineExact, RollingBack, Archived

\* A slot whose command has ended relies on nothing.
LEMMA StepIdle ==
    ASSUME NEW p, run'[p].pc = "idle"
    PROVE  StepInv(p)'
BY DEF StepInv

\* What Goto does to the slot's record.
LEMMA GotoRecord ==
    ASSUME run \in [Procs -> Run], NEW p \in Procs, NEW s \in Steps, Goto(p, s)
    PROVE  /\ run'[p].pc = s /\ run'[p].label = run[p].label
           /\ run'[p].lock = run[p].lock /\ run'[p].receipt = run[p].receipt
BY DEF Goto, Run

\* prepare keeps SingleInv when no other command runs.
LEMMA PrepareSingle ==
    ASSUME NEW p, Procs = {p}, TypeInv, SingleInv, Prepare(p)
    PROVE  SingleInv'
<1>0. /\ p \in Procs /\ run \in [Procs -> Run] /\ FilesInv /\ StepInv(p)
      /\ PrepareSteps \subseteq Steps
  BY DEF SingleInv, TypeInv, TypeOK, Steps
<1>s. SUFFICES FilesInv' /\ StepInv(p)'
  BY DEF SingleInv
<1>e. ASSUME NEW o \in Outcomes, Exit(p, o)
      PROVE  StepInv(p)'
  BY <1>0, <1>e, ExitSlot, StepIdle
<1>g. ASSUME NEW s \in PrepareSteps, Goto(p, s)
      PROVE  run'[p].pc = s
  BY <1>0, <1>g, GotoRecord
<1>o. {"refused", "already-ready", "prepared"} \subseteq Outcomes
  BY DEF Outcomes
<1>1. CASE PrepareReceipted(p)
  <2>1. FilesInv'
    BY <1>0, <1>1, FilesFrame DEF PrepareReceipted
  <2>2. CASE seedReceipt = None /\ Goto(p, "consider")
    <3>1. run'[p].pc = "consider"
      BY <2>2, <1>g DEF PrepareSteps
    <3>2. QED
      BY <1>1, <2>1, <2>2, <3>1 DEF PrepareReceipted, StepInv
  <2>3. QED
    BY <1>1, <1>e, <1>o, <2>1, <2>2 DEF PrepareReceipted
<1>2. CASE PrepareConsider(p)
  <2>1. FilesInv' /\ UNCHANGED seedFiles
    BY <1>0, <1>2, FilesFrame DEF PrepareConsider
  <2>2. seedReceipt = None
    BY <1>0, <1>2 DEF PrepareConsider, StepInv
  <2>3. CASE Exit(p, "refused")
    BY <1>e, <1>o, <2>1, <2>3
  <2>4. CASE Goto(p, "receipt") \/ Goto(p, "fetch")
    <3>1. run'[p].pc \in {"receipt", "fetch"}
      BY <1>g, <2>4 DEF PrepareSteps
    <3>2. CASE Preparing
      BY <2>1, <2>2, <3>1, <3>2 DEF StepInv, Preparing
    <3>3. CASE ~Preparing
      <4>1. Exit(p, "refused") \/ Goto(p, "open")
        BY <1>2, <3>3 DEF PrepareConsider, Preparing
      <4>2. run'[p].pc \in {"idle", "open"}
        BY <1>0, <1>g, <1>o, <4>1, ExitSlot DEF PrepareSteps
      <4>3. QED
        BY <3>1, <4>2
    <3>4. QED
      BY <3>2, <3>3
  <2>5. CASE Goto(p, "open") /\ seedTxn = None /\ seed = None
    <3>1. run'[p].pc = "open"
      BY <1>g, <2>5 DEF PrepareSteps
    <3>2. QED
      BY <2>1, <2>2, <2>5, <3>1 DEF StepInv
  <2>6. QED
    BY <1>2, <2>3, <2>4, <2>5 DEF PrepareConsider
<1>3. CASE PrepareOpen(p)
  <2>1. run'[p].pc = "fetch" /\ seedReceipt = None
    BY <1>0, <1>g, <1>3 DEF PrepareOpen, PrepareSteps, StepInv
  <2>2. seedTxn' = [kind |-> "prepare", lock |-> run[p].lock, label |-> None]
    BY <1>3 DEF PrepareOpen
  <2>3. seedTxn' \in Transaction
    BY <1>3, <2>2 DEF PrepareOpen, Transaction, TypeInv, TypeOK, Run
  <2>4. Preparing' /\ ~RollingBack'
    BY <2>2, <2>3, SeedSetupAssumption DEF Preparing, RollingBack
  <2>5. QED
    BY <1>3, <2>1, <2>4, <1>0 DEF PrepareOpen, StepInv, FilesInv, SeedReceiptSound,
       RollbackResumable, QuarantineExact
<1>4. CASE PrepareFetch(p)
  <2>1. FilesInv' /\ UNCHANGED seedFiles
    BY <1>0, <1>4, FilesFrame DEF PrepareFetch
  <2>2. CASE Exit(p, "refused")
    BY <1>e, <1>o, <2>1, <2>2
  <2>3. CASE Goto(p, "place")
    <3>1. run'[p].pc = "place"
      BY <1>g, <2>3 DEF PrepareSteps
    <3>2. QED
      BY <1>0, <1>4, <2>1, <3>1 DEF PrepareFetch, StepInv, Preparing
  <2>4. QED
    BY <1>4, <2>2, <2>3 DEF PrepareFetch
<1>5. CASE PreparePlace(p)
  <2>0. seedReceipt = None /\ Preparing
    BY <1>0, <1>5 DEF PreparePlace, StepInv
  <2>1. CASE Exit(p, "refused") /\ UNCHANGED seed
    BY <1>0, <1>5, <1>e, <1>o, <2>1, FilesFrame DEF PreparePlace
  <2>2. CASE Goto(p, "receipt")
    <3>1. run'[p].pc = "receipt"
      BY <1>g, <2>2 DEF PrepareSteps
    <3>2. UNCHANGED <<seedReceipt, seedTxn, quarantine>>
      BY <1>5 DEF PreparePlace
    <3>3. StepInv(p)'
      BY <2>0, <3>1, <3>2 DEF StepInv, Preparing
    <3>4. FilesInv'
      BY <1>0, <2>0, <3>2 DEF FilesInv, SeedReceiptSound, RollbackResumable,
         QuarantineExact, RollingBack, Preparing
    <3>5. QED
      BY <3>3, <3>4
  <2>3. QED
    BY <1>5, <2>1, <2>2 DEF PreparePlace
<1>6. CASE PrepareReceipt(p)
  <2>0. seedReceipt = None /\ Preparing
    BY <1>0, <1>6 DEF PrepareReceipt, StepInv
  <2>1. CASE Exit(p, "refused") /\ UNCHANGED seedReceipt
    BY <1>0, <1>6, <1>e, <1>o, <2>1, FilesFrame DEF PrepareReceipt
  <2>2. CASE Goto(p, "close") /\ seed # None /\ seedReceipt' = seed
    <3>1. run'[p].pc = "close"
      BY <1>g, <2>2 DEF PrepareSteps
    <3>2. UNCHANGED <<seed, seedTxn, quarantine>>
      BY <1>6 DEF PrepareReceipt
    <3>3. StepInv(p)'
      BY <2>0, <3>1, <3>2 DEF StepInv, Preparing
    <3>4. FilesInv'
      BY <1>0, <2>0, <2>2, <3>2 DEF FilesInv, SeedReceiptSound, RollbackResumable,
         QuarantineExact, RollingBack, Preparing
    <3>5. QED
      BY <3>3, <3>4
  <2>3. QED
    BY <1>6, <2>1, <2>2 DEF PrepareReceipt
<1>7. CASE PrepareClose(p)
  <2>1. Preparing /\ StepInv(p)'
    BY <1>0, <1>7, <1>e, <1>o DEF PrepareClose, StepInv
  <2>2. seedTxn' = None /\ UNCHANGED <<seed, seedReceipt, quarantine>>
    BY <1>7 DEF PrepareClose
  <2>3. FilesInv'
    BY <1>0, <2>1, <2>2 DEF FilesInv, SeedReceiptSound, RollbackResumable,
       QuarantineExact, RollingBack, Preparing
  <2>4. QED
    BY <2>1, <2>3
<1>. QED
  BY <1>1, <1>2, <1>3, <1>4, <1>5, <1>6, <1>7 DEF Prepare

\* rollback keeps SingleInv when no other command runs.
LEMMA RollbackSingle ==
    ASSUME NEW p, Procs = {p}, TypeInv, SingleInv, Rollback(p)
    PROVE  SingleInv'
<1>0. /\ p \in Procs /\ run \in [Procs -> Run] /\ FilesInv /\ StepInv(p)
      /\ RollbackSteps \subseteq Steps
  BY DEF SingleInv, TypeInv, TypeOK, Steps
<1>s. SUFFICES FilesInv' /\ StepInv(p)'
  BY DEF SingleInv
<1>e. ASSUME NEW o \in Outcomes, Exit(p, o)
      PROVE  StepInv(p)'
  BY <1>0, <1>e, ExitSlot, StepIdle
<1>g. ASSUME NEW s \in RollbackSteps, Goto(p, s)
      PROVE  /\ run'[p].pc = s /\ run'[p].label = run[p].label
             /\ run'[p].lock = run[p].lock /\ run'[p].receipt = run[p].receipt
  BY <1>0, <1>g, GotoRecord
<1>o. {"refused", "rolled-back"} \subseteq Outcomes
  BY DEF Outcomes
<1>q. /\ quarantine \in [Labels -> Quarantine \cup {None}]
      /\ \A q \in Labels : quarantine[q] # None => quarantine[q] \in Quarantine
      /\ run[p].pc \in RollbackSteps => run[p].label \in Labels
      /\ run[p].pc \in Making => quarantine[run[p].label] # None
  BY <1>0 DEF TypeInv, TypeOK, Run, QuarantineMade, Making
<1>1. CASE RollbackRead(p)
  <2>1. FilesInv' /\ UNCHANGED seedFiles
    BY <1>0, <1>1, FilesFrame DEF RollbackRead
  <2>2. CASE Exit(p, "refused")
    BY <1>e, <1>o, <2>1, <2>2
  <2>3. CASE /\ seedTxn # None /\ seedTxn.kind = "rollback"
             /\ run' = [run EXCEPT ![p].pc = "check", ![p].label = seedTxn.label]
    <3>1. run'[p].pc = "check" /\ run'[p].label = seedTxn.label
      BY <1>0, <2>3 DEF Run
    <3>2. QED
      BY <2>1, <2>3, <3>1 DEF StepInv, RollingBack
  <2>4. CASE /\ seedTxn = None /\ Validates(seedReceipt, run[p].lock, seed)
             /\ run' = [run EXCEPT ![p].pc = "mkdir", ![p].receipt = seedReceipt]
    <3>1. /\ run'[p].pc = "mkdir" /\ run'[p].receipt = seedReceipt
          /\ run'[p].lock = run[p].lock
      BY <1>0, <2>4 DEF Run
    <3>2. QED
      BY <2>1, <2>4, <3>1 DEF StepInv, Validates
  <2>5. QED
    BY <1>1, <2>2, <2>3, <2>4 DEF RollbackRead
<1>2. CASE RollbackMkdir(p)
  <2>1. CASE Exit(p, "refused") /\ UNCHANGED quarantine
    BY <1>0, <1>2, <1>e, <1>o, <2>1, FilesFrame DEF RollbackMkdir
  <2>2. CASE /\ Goto(p, "archive") /\ quarantine[run[p].label] = None
             /\ quarantine' = [quarantine EXCEPT ![run[p].label] =
                                  [receipt |-> None, payload |-> None, complete |-> FALSE]]
    <3>0. PICK q \in Labels : q = run[p].label
      BY <1>2, <1>q DEF RollbackMkdir, RollbackSteps
    <3>1. /\ run'[p].pc = "archive" /\ run'[p].label = q
          /\ run'[p].lock = run[p].lock /\ run'[p].receipt = run[p].receipt
      BY <1>g, <2>2, <3>0 DEF RollbackSteps
    <3>2. UNCHANGED <<seed, seedReceipt, seedTxn>>
      BY <1>2 DEF RollbackMkdir
    <3>3. /\ seedTxn = None /\ run[p].receipt.lock = run[p].lock
          /\ seedReceipt = run[p].receipt /\ seed = run[p].receipt
      BY <1>0, <1>2 DEF RollbackMkdir, StepInv
    <3>4. /\ quarantine'[q] = [receipt |-> None, payload |-> None, complete |-> FALSE]
          /\ \A x \in Labels \ {q} : quarantine'[x] = quarantine[x]
      BY <1>q, <2>2, <3>0
    <3>5. StepInv(p)'
      BY <3>1, <3>2, <3>3, <3>4 DEF StepInv
    <3>6. QuarantineExact'
      BY <1>0, <3>4 DEF FilesInv, QuarantineExact
    <3>7. FilesInv'
      BY <1>0, <3>2, <3>3, <3>6 DEF FilesInv, SeedReceiptSound, RollbackResumable, RollingBack
    <3>8. QED
      BY <3>5, <3>7
  <2>3. QED
    BY <1>2, <2>1, <2>2 DEF RollbackMkdir
<1>3. CASE RollbackArchive(p)
  <2>0. PICK q \in Labels : q = run[p].label
    BY <1>3, <1>q DEF RollbackArchive, RollbackSteps
  <2>1. /\ run'[p].pc = "announce" /\ run'[p].label = q
        /\ run'[p].lock = run[p].lock /\ run'[p].receipt = run[p].receipt
    BY <1>3, <1>g, <2>0 DEF RollbackArchive, RollbackSteps
  <2>2. UNCHANGED <<seed, seedReceipt, seedTxn>>
    BY <1>3 DEF RollbackArchive
  <2>3. /\ seedTxn = None /\ run[p].receipt.lock = run[p].lock
        /\ seedReceipt = run[p].receipt /\ seed = run[p].receipt
        /\ quarantine[q].payload = None /\ quarantine[q] \in Quarantine
    BY <1>0, <1>3, <1>q, <2>0 DEF RollbackArchive, StepInv, Making
  <2>4. /\ quarantine'[q] = [quarantine[q] EXCEPT !.receipt = run[p].receipt]
        /\ \A x \in Labels \ {q} : quarantine'[x] = quarantine[x]
    BY <1>3, <1>q, <2>0 DEF RollbackArchive
  <2>5. /\ quarantine'[q].receipt = run[p].receipt /\ quarantine'[q].payload = None
        /\ quarantine'[q].complete = quarantine[q].complete
    BY <2>3, <2>4 DEF Quarantine
  <2>6. StepInv(p)'
    BY <2>1, <2>2, <2>3, <2>5 DEF StepInv, Archived
  <2>7. QuarantineExact'
    BY <1>0, <1>q, <1>3, <2>0, <2>3, <2>4, <2>5 DEF FilesInv, QuarantineExact, RollbackArchive, Making
  <2>8. FilesInv'
    BY <1>0, <2>2, <2>3, <2>7 DEF FilesInv, SeedReceiptSound, RollbackResumable, RollingBack
  <2>9. QED
    BY <2>6, <2>8
<1>4. CASE RollbackAnnounce(p)
  <2>0. PICK q \in Labels : q = run[p].label
    BY <1>4, <1>q DEF RollbackAnnounce, RollbackSteps
  <2>1. /\ run'[p].pc = "reread" /\ run'[p].label = q
    BY <1>4, <1>g, <2>0 DEF RollbackAnnounce, RollbackSteps
  <2>2. UNCHANGED <<seed, seedReceipt, quarantine>>
    BY <1>4 DEF RollbackAnnounce
  <2>3. /\ run[p].receipt.lock = run[p].lock /\ run[p].receipt \in Tree
        /\ seedReceipt = run[p].receipt /\ seed = run[p].receipt
        /\ quarantine[q].payload = None /\ quarantine[q].receipt = run[p].receipt
        /\ quarantine[q] # None /\ run[p].lock \in Locks
    BY <1>0, <1>4, <1>q, <2>0 DEF RollbackAnnounce, StepInv, Making, Archived, Run
  <2>4. seedTxn' = [kind |-> "rollback", lock |-> run[p].lock, label |-> q]
    BY <1>4, <2>0 DEF RollbackAnnounce
  <2>5. seedTxn' \in Transaction
    BY <2>3, <2>4 DEF Transaction
  <2>6. /\ RollingBack' /\ seedTxn'.label = q /\ seedTxn'.lock = run[p].lock
        /\ run[p].receipt # None
    BY <2>3, <2>4, <2>5, SeedSetupAssumption DEF RollingBack
  <2>7. StepInv(p)'
    BY <2>1, <2>6 DEF StepInv
  <2>8. SeedReceiptSound' /\ RollbackResumable'
    BY <2>2, <2>3, <2>6 DEF SeedReceiptSound, RollbackResumable
  <2>9. FilesInv'
    BY <1>0, <2>2, <2>3, <2>6, <2>8 DEF FilesInv, QuarantineExact, Archived
  <2>10. QED
    BY <2>7, <2>9
<1>5. CASE RollbackReread(p)
  <2>1. FilesInv' /\ UNCHANGED seedFiles
    BY <1>0, <1>5, FilesFrame DEF RollbackReread
  <2>2. CASE Exit(p, "refused")
    BY <1>e, <1>o, <2>1, <2>2
  <2>3. CASE /\ seedTxn # None /\ seedTxn.kind = "rollback"
             /\ run' = [run EXCEPT ![p].pc = "check", ![p].label = seedTxn.label]
    <3>1. run'[p].pc = "check" /\ run'[p].label = seedTxn.label
      BY <1>0, <2>3 DEF Run
    <3>2. QED
      BY <2>1, <2>3, <3>1 DEF StepInv, RollingBack
  <2>4. QED
    BY <1>5, <2>2, <2>3 DEF RollbackReread
<1>6. CASE RollbackCheck(p)
  <2>0. PICK q \in Labels : q = run[p].label
    BY <1>6, <1>q DEF RollbackCheck, RollbackSteps
  <2>1. FilesInv' /\ UNCHANGED seedFiles
    BY <1>0, <1>6, FilesFrame DEF RollbackCheck
  <2>2. CASE Exit(p, "refused")
    BY <1>e, <1>o, <2>1, <2>2
  <2>3. CASE /\ Goto(p, IF seed # None THEN "move" ELSE "unreceipt")
             /\ (seed = None) # (quarantine[q].payload = None)
             /\ Validates(quarantine[q].receipt, run[p].lock,
                          IF seed # None THEN seed ELSE quarantine[q].payload)
    <3>1. /\ run'[p].pc = IF seed # None THEN "move" ELSE "unreceipt"
          /\ run'[p].label = q
      BY <1>g, <2>0, <2>3 DEF RollbackSteps
    <3>2. RollingBack /\ seedTxn.label = q
      BY <1>0, <1>6, <2>0 DEF RollbackCheck, StepInv
    <3>3. IF seed # None
          THEN seed = quarantine[q].receipt /\ quarantine[q].payload = None
          ELSE quarantine[q].payload = quarantine[q].receipt
      BY <2>3 DEF Validates
    <3>4. StepInv(p)'
      BY <2>1, <3>1, <3>2, <3>3 DEF StepInv, RollingBack, Archived
    <3>5. QED
      BY <2>1, <3>4
  <2>4. QED
    BY <1>6, <2>0, <2>2, <2>3 DEF RollbackCheck
<1>7. CASE RollbackMove(p)
  <2>0. PICK q \in Labels : q = run[p].label
    BY <1>7, <1>q DEF RollbackMove, RollbackSteps
  <2>1. CASE Exit(p, "refused") /\ UNCHANGED <<seed, quarantine>>
    BY <1>0, <1>7, <1>e, <1>o, <2>1, FilesFrame DEF RollbackMove
  <2>2. CASE /\ Goto(p, "unreceipt") /\ seed # None /\ seed' = None
             /\ quarantine' = [quarantine EXCEPT ![q].payload = seed]
    <3>1. run'[p].pc = "unreceipt" /\ run'[p].label = q
      BY <1>g, <2>0, <2>2 DEF RollbackSteps
    <3>2. UNCHANGED <<seedReceipt, seedTxn>>
      BY <1>7 DEF RollbackMove
    <3>3. /\ RollingBack /\ seedTxn.label = q
          /\ seed = quarantine[q].receipt /\ quarantine[q] \in Quarantine
      BY <1>0, <1>7, <1>q, <2>0 DEF RollbackMove, StepInv, Archived, Making
    <3>4. /\ quarantine'[q].payload = seed /\ quarantine'[q].receipt = quarantine[q].receipt
          /\ quarantine'[q] \in Quarantine
          /\ \A x \in Labels \ {q} : quarantine'[x] = quarantine[x]
      BY <1>q, <2>2, <3>3 DEF Quarantine, TypeInv, TypeOK
    <3>5. StepInv(p)'
      BY <2>2, <3>1, <3>2, <3>3, <3>4 DEF StepInv, RollingBack, Archived
    <3>6. SeedReceiptSound'
      BY <1>0, <2>2, <3>2, <3>3, <3>4 DEF FilesInv, SeedReceiptSound, RollbackResumable, RollingBack
    <3>7. RollbackResumable'
      BY <1>0, <2>2, <3>2, <3>3, <3>4, SeedSetupAssumption DEF FilesInv, RollbackResumable, RollingBack
    <3>8. QuarantineExact'
      BY <1>0, <2>2, <3>3, <3>4 DEF FilesInv, QuarantineExact
    <3>9. QED
      BY <2>2, <3>5, <3>6, <3>7, <3>8 DEF FilesInv
  <2>3. QED
    BY <1>7, <2>0, <2>1, <2>2 DEF RollbackMove
<1>8. CASE RollbackUnreceipt(p)
  <2>1. run'[p].pc = "untransact" /\ run'[p].label = run[p].label
    BY <1>8, <1>g DEF RollbackUnreceipt, RollbackSteps
  <2>2. seedReceipt' = None /\ UNCHANGED <<seed, seedTxn, quarantine>>
    BY <1>8 DEF RollbackUnreceipt
  <2>3. StepInv(p)'
    BY <1>0, <1>8, <2>1, <2>2 DEF RollbackUnreceipt, StepInv, RollingBack, Archived
  <2>4. FilesInv'
    BY <1>0, <2>2 DEF FilesInv, SeedReceiptSound, RollbackResumable, QuarantineExact,
       RollingBack, Archived
  <2>5. QED
    BY <2>3, <2>4
<1>9. CASE RollbackUntransact(p)
  <2>1. run'[p].pc = "complete" /\ run'[p].label = run[p].label
    BY <1>9, <1>g DEF RollbackUntransact, RollbackSteps
  <2>2. seedTxn' = None /\ UNCHANGED <<seed, seedReceipt, quarantine>>
    BY <1>9 DEF RollbackUntransact
  <2>3. /\ RollingBack /\ seedTxn.label = run[p].label /\ seedReceipt = None
        /\ quarantine[run[p].label].payload = Archived(run[p].label)
    BY <1>0, <1>9 DEF RollbackUntransact, StepInv
  <2>4. quarantine[run[p].label].payload # None
    BY <1>0, <2>3 DEF FilesInv, RollbackResumable, Archived
  <2>5. StepInv(p)'
    BY <2>1, <2>2, <2>4 DEF StepInv
  <2>6. FilesInv'
    BY <1>0, <2>2, <2>3 DEF FilesInv, SeedReceiptSound, RollbackResumable, QuarantineExact,
       RollingBack
  <2>7. QED
    BY <2>5, <2>6
<1>10. CASE RollbackComplete(p)
  <2>0. PICK q \in Labels : q = run[p].label
    BY <1>10, <1>q DEF RollbackComplete, RollbackSteps
  <2>1. StepInv(p)'
    BY <1>10, <1>e, <1>o DEF RollbackComplete
  <2>2. UNCHANGED <<seed, seedReceipt, seedTxn>>
    BY <1>10 DEF RollbackComplete
  <2>3. quarantine[q] \in Quarantine /\ quarantine[q].payload # None
    BY <1>0, <1>10, <1>q, <2>0 DEF RollbackComplete, StepInv, Making
  <2>4. /\ quarantine'[q].payload = quarantine[q].payload
        /\ quarantine'[q].receipt = quarantine[q].receipt
        /\ quarantine'[q] \in Quarantine
        /\ \A x \in Labels \ {q} : quarantine'[x] = quarantine[x]
    BY <1>10, <1>q, <2>0, <2>3 DEF RollbackComplete, Quarantine
  <2>5. QuarantineExact'
    BY <1>0, <2>3, <2>4, SeedSetupAssumption DEF FilesInv, QuarantineExact
  <2>6. RollingBack => seedTxn.label \in Labels
    BY DEF RollingBack, TypeInv, TypeOK, Transaction
  <2>7. RollingBack => /\ quarantine'[seedTxn.label].payload = quarantine[seedTxn.label].payload
                       /\ quarantine'[seedTxn.label].receipt = quarantine[seedTxn.label].receipt
                       /\ quarantine'[seedTxn.label] # None
    BY <1>0, <2>3, <2>4, <2>6, SeedSetupAssumption DEF FilesInv, RollbackResumable
  <2>8. SeedReceiptSound' /\ RollbackResumable'
    BY <1>0, <2>2, <2>7 DEF FilesInv, SeedReceiptSound, RollbackResumable, RollingBack
  <2>9. FilesInv'
    BY <1>0, <2>2, <2>5, <2>7, <2>8 DEF FilesInv, RollingBack, Archived
  <2>10. QED
    BY <2>1, <2>9
<1>. QED
  BY <1>1, <1>2, <1>3, <1>4, <1>5, <1>6, <1>7, <1>8, <1>9, <1>10 DEF Rollback

\* So does every other step.
LEMMA OtherSingle ==
    ASSUME NEW p, Procs = {p}, TypeInv, SingleInv,
           \/ Activate(p)
           \/ \E c \in Commands, l \in Locks, q \in Labels : Begin(p, c, l, q)
           \/ Crash(p)
           \/ World
           \/ UNCHANGED vars
    PROVE  SingleInv'
<1>0. /\ p \in Procs /\ run \in [Procs -> Run] /\ FilesInv /\ StepInv(p)
  BY DEF SingleInv, TypeInv, TypeOK
<1>s. SUFFICES FilesInv' /\ StepInv(p)'
  BY DEF SingleInv
<1>1. CASE Activate(p)
  <2>1. FilesInv'
    BY <1>0, <1>1, ActivateLeavesSeed, FilesFrame
  <2>2. run'[p].pc \in ActivateSteps \cup {"idle"}
    <3>1. CASE ActivateSeed(p)
      <4>1. CASE Exit(p, "refused")
        BY <1>0, <4>1, ExitSlot DEF Outcomes
      <4>2. CASE run' = [run EXCEPT ![p].pc = "known", ![p].receipt = seedReceipt]
        BY <1>0, <4>2 DEF Run, ActivateSteps
      <4>3. QED
        BY <3>1, <4>1, <4>2 DEF ActivateSeed
    <3>2. CASE ~ActivateSeed(p)
      <4>1. (\E s \in ActivateSteps : Goto(p, s)) \/ (\E o \in Outcomes : Exit(p, o))
        BY <1>1, <3>2, ActivateShape
      <4>2. QED
        BY <1>0, <4>1, GotoSlot, ExitSlot, ZenonT(60) DEF Steps
    <3>3. QED
      BY <3>1, <3>2
  <2>3. StepInv(p)'
    BY <2>2 DEF StepInv, ActivateSteps
  <2>4. QED
    BY <2>1, <2>3
<1>2. ASSUME NEW c \in Commands, NEW l \in Locks, NEW q \in Labels, Begin(p, c, l, q)
      PROVE  FilesInv' /\ StepInv(p)'
  <2>1. FilesInv'
    BY <1>0, <1>2, FilesFrame DEF Begin
  <2>2. run'[p].pc \in Commands
    BY <1>0, <1>2 DEF Begin
  <2>3. QED
    BY <2>1, <2>2 DEF StepInv, Commands
<1>3. CASE Crash(p)
  BY <1>0, <1>3, ExitSlot, StepIdle, FilesFrame DEF Crash, Outcomes
<1>4. CASE UNCHANGED <<seedFiles, run>>
  BY <1>0, <1>4, FilesFrame DEF StepInv, RollingBack, Preparing, Archived
<1>5. CASE SeedEdited
  <2>1. /\ seed # None /\ seed' = As("edited", seed) /\ run[p].pc = "idle"
        /\ UNCHANGED <<seedReceipt, seedTxn, quarantine, run>>
    BY <1>0, <1>5 DEF SeedEdited, AllIdle
  <2>2. seed' \in Tree /\ seed'.lock = seed.lock
    BY <2>1 DEF As, Tree, TypeInv, TypeOK
  <2>3. StepInv(p)'
    BY <2>1, StepIdle
  <2>4. FilesInv'
    BY <1>0, <2>1, <2>2, SeedSetupAssumption DEF FilesInv, SeedReceiptSound, RollbackResumable,
       QuarantineExact, RollingBack, Archived
  <2>5. QED
    BY <2>3, <2>4
<1>6. QED
  BY <1>1, <1>2, <1>3, <1>4, <1>5 DEF World, SteamUpdates, UserInstallsClient, vars

\* SingleInv is an invariant when commands run one at a time.
LEMMA SingleInvariant == ASSUME OneAtATime PROVE Spec => [](TypeInv /\ SingleInv)
<1>1. PICK p \in Procs : Procs = {p}
  BY DEF OneAtATime
<1>2. Init => TypeInv /\ SingleInv
  <2>1. Init => TypeInv
    BY DEF Init, TypeInv, TypeOK, QuarantineMade, Run, Idle, Steps, RollbackSteps,
       ActivateSteps, Outcomes
  <2>2. Init => SingleInv
    BY DEF Init, SingleInv, FilesInv, SeedReceiptSound, RollbackResumable, QuarantineExact,
       RollingBack, StepInv, Idle
  <2>3. QED
    BY <2>1, <2>2
<1>3. TypeInv /\ SingleInv /\ [Next]_vars => (TypeInv /\ SingleInv)'
  <2> SUFFICES ASSUME TypeInv, SingleInv, [Next]_vars
               PROVE  TypeInv' /\ SingleInv'
    OBVIOUS
  <2>1. TypeInv'
    BY TypeInvInductive
  <2>2. SingleInv'
    BY <1>1, PrepareSingle, RollbackSingle, OtherSingle DEF Next, Command
  <2>3. QED
    BY <2>1, <2>2
<1>4. QED
  BY <1>2, <1>3, PTL DEF Spec

\* One at a time and killed anywhere, the commands never leave a receipt without
\* its tree (SeedReceiptSound).
THEOREM SeedReceiptHolds == ASSUME OneAtATime PROVE Spec => []SeedReceiptSound
<1>1. SingleInv => SeedReceiptSound
  BY DEF SingleInv, FilesInv
<1>2. QED
  BY <1>1, SingleInvariant, PTL

\* One at a time and killed anywhere, a rollback on record can always be resumed
\* (RollbackResumable).
THEOREM RollbackIsResumable == ASSUME OneAtATime PROVE Spec => []RollbackResumable
<1>1. SingleInv => RollbackResumable
  BY DEF SingleInv, FilesInv
<1>2. QED
  BY <1>1, SingleInvariant, PTL

\* One at a time, what a quarantine holds is what its receipt says
\* (QuarantineExact).
THEOREM QuarantineIsExact == ASSUME OneAtATime PROVE Spec => []QuarantineExact
<1>1. SingleInv => QuarantineExact
  BY DEF SingleInv, FilesInv
<1>2. QED
  BY <1>1, SingleInvariant, PTL

\* One at a time and killed anywhere, what the commands leave on the disk agrees: receipts,
\* the rollback on record and the quarantines (SeedSafe).
THEOREM SeedIsSafe == ASSUME OneAtATime PROVE Spec => []SeedSafe
<1>1. SeedReceiptSound /\ RollbackResumable /\ QuarantineExact /\ ClientReceiptSound => SeedSafe
  BY DEF SeedSafe
<1>2. QED
  BY <1>1, SeedReceiptHolds, RollbackIsResumable, QuarantineIsExact, ClientReceiptHolds, PTL

\* Commands that follow, repeat or cross one another destroy neither a client nor a seed
\* (NothingDestroyed).
THEOREM NothingIsDestroyed == Spec => NothingDestroyed
BY ClientKept, SeedKept DEF NothingDestroyed
------------------------------------------------------------------------------
(* status *)

\* A seed in place beside a receipt is the tree of the receipt, unless edited since; one without
\* a receipt has a transaction, which a command that is about to close one has outlived.
AsReceipted ==
    /\ seed # None /\ seedReceipt # None => seed = seedReceipt \/ seed.form = "edited"
    /\ seedReceipt = None /\ seedTxn = None => seed = None
    /\ \A p \in Procs : At(p, "close") => seedReceipt # None

LEMMA AsReceiptedInvariant ==
    ASSUME OneAtATime PROVE Spec => [](TypeInv /\ SingleInv /\ AsReceipted)
<1>1. PICK p \in Procs : Procs = {p}
  BY DEF OneAtATime
<1>2. Init => AsReceipted
  BY DEF Init, AsReceipted, At, Idle
<1>3. TypeInv /\ SingleInv /\ AsReceipted /\ [Next]_vars => AsReceipted'
  <2> SUFFICES ASSUME TypeInv, SingleInv, AsReceipted, [Next]_vars
               PROVE  AsReceipted'
    OBVIOUS
  <2>0. StepInv(p) /\ p \in Procs
    BY <1>1 DEF SingleInv
  <2>t. run \in [Procs -> Run] /\ run[p] \in Run
    BY <1>1 DEF TypeInv, TypeOK
  <2>f. CASE UNCHANGED <<seed, seedReceipt, seedTxn>> /\ (At(p, "close")' => At(p, "close"))
    BY <1>1, <2>f DEF AsReceipted, At
  <2>1. CASE Prepare(p)
    <3>1. CASE PreparePlace(p)
      <4>1. At(p, "close")' => FALSE
        BY <1>1, <2>t, <3>1 DEF PreparePlace, Goto, Exit, At, Idle, Run
      <4>2. QED
        BY <1>1, <2>0, <3>1, <4>1, SeedSetupAssumption
           DEF PreparePlace, StepInv, AsReceipted, At, Preparing
    <3>2. CASE PrepareReceipt(p)
      <4>1. seedReceipt' # None \/ (UNCHANGED <<seed, seedReceipt, seedTxn>> /\ ~At(p, "close")')
        BY <1>1, <2>t, <3>2 DEF PrepareReceipt, Goto, Exit, At, Idle, Run
      <4>2. QED
        BY <1>1, <2>f, <3>2, <4>1 DEF PrepareReceipt, AsReceipted, At
    <3>3. CASE PrepareClose(p)
      <4>1. ~At(p, "close")' /\ seedReceipt # None
        BY <1>1, <2>t, <3>3 DEF PrepareClose, Exit, At, Idle, Run, AsReceipted
      <4>2. QED
        BY <1>1, <3>3, <4>1 DEF PrepareClose, AsReceipted
    <3>4. CASE PrepareOpen(p)
      <4>1. ~At(p, "close")' /\ seedTxn' # None
        BY <1>1, <2>t, <3>4, SeedSetupAssumption
           DEF PrepareOpen, Goto, At, Run, Transaction, TypeInv, TypeOK, PrepareSteps
      <4>2. QED
        BY <1>1, <3>4, <4>1 DEF PrepareOpen, AsReceipted
    <3>5. CASE PrepareReceipted(p) \/ PrepareConsider(p) \/ PrepareFetch(p)
      <4>1. UNCHANGED seedFiles /\ ~At(p, "close")'
        BY <1>1, <2>t, <3>5 DEF PrepareReceipted, PrepareConsider, PrepareFetch, Goto, Exit, At,
           Idle, Run
      <4>2. QED
        BY <2>f, <4>1 DEF seedFiles
    <3>6. QED
      BY <2>1, <3>1, <3>2, <3>3, <3>4, <3>5 DEF Prepare
  <2>2. CASE Rollback(p)
    <3>0. ~At(p, "close")'
      BY <1>1, <2>2, <2>t DEF Rollback, RollbackRead, RollbackMkdir, RollbackArchive,
         RollbackAnnounce, RollbackReread, RollbackCheck, RollbackMove, RollbackUnreceipt,
         RollbackUntransact, RollbackComplete, Goto, Exit, At, Idle, Run
    <3>1. CASE RollbackMove(p) \/ RollbackUnreceipt(p) \/ RollbackUntransact(p)
      <4>1. seed' = None \/ UNCHANGED <<seed, seedReceipt, seedTxn>>
        BY <2>0, <3>1
           DEF RollbackMove, RollbackUnreceipt, RollbackUntransact, StepInv, At
      <4>2. QED
        BY <1>1, <2>f, <3>0, <4>1 DEF AsReceipted
    <3>2. CASE RollbackAnnounce(p)
      <4>1. UNCHANGED <<seed, seedReceipt>> /\ seedReceipt # None
        BY <2>0, <2>t, <3>2, SeedSetupAssumption
           DEF RollbackAnnounce, StepInv, At, Run, RollbackSteps
      <4>2. QED
        BY <1>1, <3>0, <4>1 DEF AsReceipted
    <3>3. CASE \/ RollbackRead(p) \/ RollbackMkdir(p) \/ RollbackArchive(p)
               \/ RollbackReread(p) \/ RollbackCheck(p) \/ RollbackComplete(p)
      BY <2>f, <3>0, <3>3 DEF RollbackRead, RollbackMkdir, RollbackArchive,
         RollbackReread, RollbackCheck, RollbackComplete, seedFiles
    <3>4. QED
      BY <2>2, <3>1, <3>2, <3>3 DEF Rollback
  <2>3. CASE Activate(p)
    <3>1. ~At(p, "close")'
      BY <1>1, <2>3, <2>t DEF Activate, ActivateSeed, ActivateKnown, ActivateClaim,
         ActivateStake, ActivateLook, ActivateCopy, ActivateCopied, ActivateVerify,
         ActivateRename, ActivateCertify, ActivateSettle, Goto, Exit, At, Idle, Run
    <3>2. UNCHANGED seedFiles
      BY <1>1, <2>3, ActivateLeavesSeed
    <3>3. QED
      BY <2>f, <3>1, <3>2 DEF seedFiles
  <2>4. CASE \/ \E c \in Commands, l \in Locks, q \in Labels : Begin(p, c, l, q)
             \/ Crash(p) \/ UNCHANGED vars
    BY <1>1, <2>t, <2>f, <2>4 DEF Begin, Crash, Exit, At, Idle, Commands, vars, seedFiles
  <2>5. CASE World
    <3>1. CASE SeedEdited
      <4>1. seed' # None /\ seed'.form = "edited"
        BY <3>1, SeedSetupAssumption DEF SeedEdited, As, TypeInv, TypeOK, Tree
      <4>2. QED
        BY <1>1, <3>1, <4>1 DEF SeedEdited, AsReceipted, At, AllIdle
    <3>2. QED
      BY <2>f, <2>5, <3>1 DEF World, SteamUpdates, UserInstallsClient, At, seedFiles
  <2>6. QED
    BY <1>1, <2>1, <2>2, <2>3, <2>4, <2>5 DEF Next, Command
<1>4. QED
  BY <1>2, <1>3, SingleInvariant, PTL DEF Spec

\* One at a time and killed anywhere, commands never leave a seed that status, asked with the
\* lock it was prepared with, calls invalid, nor one that status does not see: only somebody's
\* edit, or another lock, makes a seed invalid (StatusTells).
THEOREM StatusTellsEdits == ASSUME OneAtATime PROVE Spec => []StatusTells
<1>1. TypeInv /\ SingleInv /\ AsReceipted => StatusTells
  <2> SUFFICES ASSUME TypeInv, SingleInv, AsReceipted, NEW l \in Locks
               PROVE  /\ Status(l) = "invalid" =>
                             seed # None /\ (seedReceipt.lock # l \/ seed.form = "edited")
                      /\ Status(l) = "not-prepared" => seed = None
    BY DEF StatusTells
  <2>1. CASE seedTxn = None /\ seedReceipt # None
    BY <2>1 DEF SingleInv, FilesInv, SeedReceiptSound, RollingBack, AsReceipted, Status, Validates
  <2>2. CASE ~(seedTxn = None /\ seedReceipt # None)
    BY <2>2 DEF AsReceipted, Status
  <2>3. QED
    BY <2>1, <2>2
<1>2. QED
  BY <1>1, AsReceiptedInvariant, PTL

------------------------------------------------------------------------------
(* The refinement of SeedLifecycle *)

\* Until the tree has left client-seed, a rollback on record finds the receipt in use: it is
\* removed after the move only, which is why the move retires a seed that was installed.
ReceiptStays == RollingBack /\ seed # None => seedReceipt # None

LEMMA ReceiptStaysInvariant ==
    ASSUME OneAtATime PROVE Spec => [](TypeInv /\ SingleInv /\ ReceiptStays)
<1>1. PICK p \in Procs : Procs = {p}
  BY DEF OneAtATime
<1>2. Init => ReceiptStays
  BY DEF Init, ReceiptStays
<1>3. TypeInv /\ SingleInv /\ ReceiptStays /\ [Next]_vars => ReceiptStays'
  <2> SUFFICES ASSUME TypeInv, SingleInv, ReceiptStays, [Next]_vars
               PROVE  ReceiptStays'
    OBVIOUS
  <2>0. StepInv(p) /\ (seed # None => seed \in Tree)
    BY <1>1 DEF SingleInv, TypeInv, TypeOK
  <2>f. CASE UNCHANGED <<seed, seedReceipt, seedTxn>>
    BY <2>f DEF ReceiptStays, RollingBack
  <2>1. CASE Prepare(p)
    <3>1. CASE PrepareOpen(p)
      BY <3>1 DEF PrepareOpen, ReceiptStays, RollingBack
    <3>2. CASE PreparePlace(p)
      BY <2>0, <3>2 DEF PreparePlace, StepInv, Preparing, ReceiptStays, RollingBack
    <3>3. CASE PrepareReceipt(p)
      BY <3>3 DEF PrepareReceipt, ReceiptStays, RollingBack
    <3>4. CASE PrepareClose(p)
      BY <3>4 DEF PrepareClose, ReceiptStays, RollingBack
    <3>5. CASE PrepareReceipted(p) \/ PrepareConsider(p) \/ PrepareFetch(p)
      BY <2>f, <3>5 DEF PrepareReceipted, PrepareConsider, PrepareFetch
    <3>6. QED
      BY <2>1, <3>1, <3>2, <3>3, <3>4, <3>5 DEF Prepare
  <2>2. CASE Rollback(p)
    <3>1. CASE RollbackAnnounce(p)
      <4>1. seedReceipt # None
        BY <1>1, <2>0, <3>1, SeedSetupAssumption
           DEF RollbackAnnounce, StepInv, TypeInv, TypeOK, Run
      <4>2. QED
        BY <3>1, <4>1 DEF RollbackAnnounce, ReceiptStays
    <3>2. CASE RollbackMove(p)
      BY <3>2 DEF RollbackMove, ReceiptStays, RollingBack
    <3>3. CASE RollbackUnreceipt(p)
      BY <2>0, <3>3 DEF RollbackUnreceipt, StepInv, ReceiptStays
    <3>4. CASE RollbackUntransact(p)
      BY <3>4 DEF RollbackUntransact, ReceiptStays, RollingBack
    <3>5. CASE \/ RollbackRead(p) \/ RollbackMkdir(p) \/ RollbackArchive(p)
               \/ RollbackReread(p) \/ RollbackCheck(p) \/ RollbackComplete(p)
      BY <2>f, <3>5 DEF RollbackRead, RollbackMkdir, RollbackArchive, RollbackReread,
         RollbackCheck, RollbackComplete
    <3>6. QED
      BY <2>2, <3>1, <3>2, <3>3, <3>4, <3>5 DEF Rollback
  <2>3. CASE Activate(p)
    BY <1>1, <2>f, <2>3, ActivateLeavesSeed
  <2>4. CASE \/ \E c \in Commands, l \in Locks, q \in Labels : Begin(p, c, l, q)
             \/ Crash(p) \/ UNCHANGED vars
    BY <2>f, <2>4 DEF Begin, Crash, vars
  <2>5. CASE World
    <3>1. CASE SeedEdited
      BY <3>1 DEF SeedEdited, ReceiptStays, RollingBack
    <3>2. QED
      BY <2>f, <2>5, <3>1 DEF World, SteamUpdates, UserInstallsClient
  <2>6. QED
    BY <1>1, <2>1, <2>2, <2>3, <2>4, <2>5 DEF Next, Command
<1>4. QED
  BY <1>2, <1>3, SingleInvariant, PTL DEF Spec

\* One at a time and killed anywhere, prepare installs a seed in one step, the rename of its
\* receipt, and rollback retires it in one step, the rename of its payload; no other step of
\* any command is seen (ImplementsLifecycle).
THEOREM LifecycleIsImplemented == ASSUME OneAtATime PROVE Spec => ImplementsLifecycle
<1>1. PICK p \in Procs : Procs = {p}
  BY DEF OneAtATime
<1> DEFINE Held == [q \in Labels |-> Payload(q)]
<1>2. Init => Lifecycle!Init
  BY DEF Init, Lifecycle!Init, Installed, Payload
<1>3. TypeInv /\ SingleInv /\ ReceiptStays /\ [Next]_vars => [Lifecycle!Next]_(Lifecycle!vars)
  <2> SUFFICES ASSUME TypeInv, SingleInv, ReceiptStays, [Next]_vars
               PROVE  Lifecycle!Next \/ (Installed' = Installed /\ Held' = Held)
    BY DEF Lifecycle!vars
  <2>0. /\ StepInv(p) /\ p \in Procs
        /\ seed \in Tree \cup {None} /\ seedReceipt \in Tree \cup {None}
        /\ quarantine \in [Labels -> Quarantine \cup {None}]
        /\ run[p].pc \in RollbackSteps => run[p].label \in Labels
        /\ run[p].pc \in Making => quarantine[run[p].label] # None
    BY <1>1 DEF SingleInv, TypeInv, TypeOK, QuarantineMade, Making, Run
  <2>f. ASSUME UNCHANGED <<seed, seedReceipt, quarantine>>
        PROVE  Installed' = Installed /\ Held' = Held
    BY <2>f DEF Installed, Payload
  <2>1. CASE Prepare(p)
    <3>1. CASE PreparePlace(p)
      <4>1. seedReceipt' = None /\ seedReceipt = None /\ UNCHANGED quarantine
        BY <2>0, <3>1 DEF PreparePlace, StepInv
      <4>2. QED
        BY <4>1 DEF Installed, Payload
    <3>2. CASE PrepareReceipt(p)
      <4>1. seedReceipt = None /\ UNCHANGED <<seed, quarantine>>
        BY <2>0, <3>2 DEF PrepareReceipt, StepInv
      <4>2. CASE seed # None /\ seedReceipt' = seed
        <5>1. Lifecycle!Install(seed)
          BY <4>1, <4>2 DEF Lifecycle!Install, Installed, Payload
        <5>2. QED
          BY <2>0, <4>2, <5>1 DEF Lifecycle!Next
      <4>3. QED
        BY <2>f, <3>2, <4>1, <4>2 DEF PrepareReceipt
    <3>3. CASE \/ PrepareReceipted(p) \/ PrepareConsider(p) \/ PrepareOpen(p)
               \/ PrepareFetch(p) \/ PrepareClose(p)
      BY <2>f, <3>3 DEF PrepareReceipted, PrepareConsider, PrepareOpen, PrepareFetch,
         PrepareClose
    <3>4. QED
      BY <2>1, <3>1, <3>2, <3>3 DEF Prepare
  <2>2. CASE Rollback(p)
    <3>1. CASE RollbackMkdir(p) \/ RollbackArchive(p) \/ RollbackComplete(p)
      <4>1. Held' = Held
        BY <2>0, <3>1, PayloadsFrame
      <4>2. UNCHANGED <<seed, seedReceipt>>
        BY <3>1 DEF RollbackMkdir, RollbackArchive, RollbackComplete
      <4>3. QED
        BY <4>1, <4>2 DEF Installed
    <3>2. CASE RollbackMove(p)
      <4>0. PICK q \in Labels : q = run[p].label
        BY <2>0, <3>2 DEF RollbackMove, RollbackSteps
      <4>1. CASE /\ seed # None /\ quarantine[q].payload = None /\ seed' = None
                 /\ quarantine' = [quarantine EXCEPT ![q].payload = seed]
        <5>1. /\ RollingBack /\ seedTxn.label = q /\ seed = Archived(q)
              /\ quarantine[q] \in Quarantine
          BY <2>0, <3>2, <4>0 DEF RollbackMove, StepInv, Making
        <5>2. Installed = seed
          BY <4>1, <5>1 DEF Installed, ReceiptStays, SingleInv, FilesInv, RollbackResumable,
             Archived
        <5>3. /\ quarantine'[q] \in Quarantine /\ quarantine'[q].payload = seed
              /\ \A x \in Labels \ {q} : quarantine'[x] = quarantine[x]
          BY <2>0, <4>1, <5>1 DEF Quarantine
        <5>4. /\ Payload(q) = None /\ Payload(q)' = seed
              /\ \A x \in Labels \ {q} : Payload(x)' = Payload(x)
          BY <4>1, <5>1, <5>3, SeedSetupAssumption DEF Payload
        <5>5. Held' = [Held EXCEPT ![q] = Installed]
          BY <5>2, <5>4
        <5>6. Lifecycle!Retire(q)
          BY <4>1, <5>2, <5>4, <5>5 DEF Lifecycle!Retire, Installed
        <5>7. QED
          BY <5>6 DEF Lifecycle!Next
      <4>2. QED
        BY <2>f, <3>2, <4>0, <4>1 DEF RollbackMove
    <3>3. CASE RollbackUnreceipt(p)
      <4>1. seed = None /\ seed' = None /\ UNCHANGED quarantine
        BY <2>0, <3>3 DEF RollbackUnreceipt, StepInv
      <4>2. QED
        BY <4>1 DEF Installed, Payload
    <3>4. CASE \/ RollbackRead(p) \/ RollbackAnnounce(p) \/ RollbackReread(p)
               \/ RollbackCheck(p) \/ RollbackUntransact(p)
      BY <2>f, <3>4 DEF RollbackRead, RollbackAnnounce, RollbackReread, RollbackCheck,
         RollbackUntransact
    <3>5. QED
      BY <2>2, <3>1, <3>2, <3>3, <3>4 DEF Rollback
  <2>3. CASE Activate(p)
    BY <1>1, <2>f, <2>3, ActivateLeavesSeed
  <2>4. CASE \/ \E c \in Commands, l \in Locks, q \in Labels : Begin(p, c, l, q)
             \/ Crash(p) \/ UNCHANGED vars
    BY <2>f, <2>4 DEF Begin, Crash, vars
  <2>5. CASE World
    <3>1. CASE SeedEdited
      <4>1. seed # None /\ seed' # None /\ UNCHANGED <<seedReceipt, quarantine>>
        BY <2>0, <3>1, SeedSetupAssumption DEF SeedEdited, As, Tree
      <4>2. QED
        BY <4>1 DEF Installed, Payload
    <3>2. QED
      BY <2>f, <2>5, <3>1 DEF World, SteamUpdates, UserInstallsClient
  <2>6. QED
    BY <1>1, <2>1, <2>2, <2>3, <2>4, <2>5 DEF Next, Command
<1>4. QED
  BY <1>2, <1>3, ReceiptStaysInvariant, PTL DEF Spec, ImplementsLifecycle, Lifecycle!Spec

HIDE DEF At, seedFiles, clientFiles

USE DEF libVars, steamVars, cmdVars

------------------------------------------------------------------------------
(* The inductive invariant *)

\* A command that has looked for Steam goes on only while no launch is under way, or is raced.
Alone == ~raced /\ launch # "off" => pc \in {"idle", "load", "scan"}

\* A launcher that has read the configuration and no Steam yet: a command that begins now,
\* or runs, does not see it.
ReadsAlone == ~raced /\ launch = "reading" => pc = "idle"

\* From mount-info to the end of Steam, what was read is in force.
Mounted ==
    ~raced /\ launch # "off" => view = config /\ (view # Unset => Shown(view.place))

\* The tree that a finalize-staging has found complete still is.
FoundWhole ==
    ~raced /\ op = "finalize" /\ pc \in {"compare", "replace"} => Names(game) = Files

\* A payload root that prepare chooses for its card, or set-payload-common for the card in force.
Meant(p) ==
    \/ p = Prepared(p.card).place
    \/ p.pay = "public" /\ p.card = config.place.card

\* The payload link, where these commands leave it at each step: it leads to the root they choose,
\* or still to the one in force.
Standing(p) == Acceptable(p) /\ Meant(p)
PreparingView ==
    op \in {"prepare", "set"} /\ pc \in {"link", "undo", "validate", "write"} =>
        Standing(want.place)

\* A command that was cut short has left its link so.
Broken == \A p \in broke : Standing(p)
NoneBroken == pc \in {"link", "undo", "validate"} => broke = {}

\* A file in both trees that commit is going to remove from one is whole in the other.
Duplicates == ~raced /\ pc = "move" => \A f \in over : game[f] = "good"

LibraryInv ==
    /\ Alone /\ ReadsAlone /\ Mounted
    /\ InstalledIsWhole /\ FoundWhole
    /\ PreparingView /\ Broken /\ NoneBroken
    /\ Duplicates

------------------------------------------------------------------------------
(* Lemmas about the operators *)

\* The first and the last of some links are among them.
LEMMA LinkChosen ==
    ASSUME NEW S \in SUBSET Links, S # {}
    PROVE  First(S) \in S /\ Last(S) \in S
<1>1. S \subseteq {1, 2, 3}
  BY DEF Links
<1>2. \E l \in S : \A m \in S : l <= m
  <2>1. CASE 1 \in S
    BY <1>1, <2>1
  <2>2. CASE 1 \notin S /\ 2 \in S
    BY <1>1, <2>2
  <2>3. CASE S = {3}
    BY <2>3
  <2>4. QED
    BY <1>1, <2>1, <2>2, <2>3
<1>3. \E l \in S : \A m \in S : l >= m
  <2>1. CASE 3 \in S
    BY <1>1, <2>1
  <2>2. CASE 3 \notin S /\ 2 \in S
    BY <1>1, <2>2
  <2>3. CASE S = {1}
    BY <2>3
  <2>4. QED
    BY <1>1, <2>1, <2>2, <2>3
<1>4. QED
  BY <1>2, <1>3 DEF First, Last

\* What is written, or read, as a configuration is one.
LEMMA ConfigType ==
    /\ Unset \in Configs
    /\ \A p \in Places \cup {Nowhere}, b \in BOOLEAN, fs \in SUBSET Files :
          Config(p, b, fs) \in Configs
BY DEF Unset, Configs, Config

LEMMA ConfigParts ==
    ASSUME NEW c \in Configs
    PROVE  c.place \in Places \cup {Nowhere} /\ c.bound \in BOOLEAN /\ c.files \subseteq Files
BY DEF Configs

\* What a command asks for is a configuration, when its card is one.
LEMMA TargetType ==
    ASSUME LibraryTypeOK, Target.place.card \in Cards
    PROVE  Target \in Configs
<1>1. config \in Configs /\ config.place \in Places \cup {Nowhere}
  BY DEF LibraryTypeOK, Configs
<1>2. CASE op = "prepare"
  <2>1. Config(Own(arg), FALSE, {}) \in Configs
    BY DEF LibraryTypeOK, Config, Own, Configs, Places
  <2>2. QED
    BY <1>1, <1>2, <2>1 DEF Target, Prepared
<1>3. CASE op # "prepare"
  <2>1. Target.place = [config.place EXCEPT !.pay = "public"]
    BY <1>3 DEF Target, Selected, Config
  <2>2. Target.place \in Places
    BY <1>1, <2>1, CardsAssumption DEF Places, Nowhere
  <2>3. QED
    BY <1>1, <1>3, <2>2 DEF Target, Selected, Config, Configs
<1>4. QED
  BY <1>2, <1>3

------------------------------------------------------------------------------
(* Type correctness *)

\* What a command knew is forgotten.
LEMMA ForgetType ==
    ASSUME Forget
    PROVE  /\ op' = "prepare" /\ pc' = "idle" /\ arg' \in Cards /\ want' \in Configs
           /\ was' \in [Links -> {"none", "dir", "link"}] /\ done' \subseteq Links
           /\ over' \subseteq Files /\ age' \in 0..MaxWrites
BY CardsAssumption, BoundsAssumption DEF Forget, Unset, Nowhere, Configs, Places

LEMMA LeaveType ==
    ASSUME LibraryTypeOK, half' = half, Leave
    PROVE  LibraryTypeOK'
BY ForgetType DEF LibraryTypeOK, Leave

\* The steps of a command that change links.
LEMMA LinkType ==
    ASSUME LibraryTypeOK, half' = half, PlanView \/ ClearPlace \/ MakeLink \/ UndoLink
    PROVE  LibraryTypeOK'
<1>1. CASE PlanView
  <2>1. CASE Leave
    BY <2>1, LeaveType
  <2>2. CASE ~Leave
    <3>1. Target.place.card \in Cards
      BY <1>1, <2>2 DEF PlanView, Available, LibraryTypeOK
    <3>2. QED
      BY <1>1, <2>2, <3>1, TargetType DEF PlanView, Continue, LibraryTypeOK
  <2>3. QED
    BY <2>1, <2>2
<1>2. CASE ClearPlace
  <2>1. First(Wrong) \in Links
    BY <1>2, LinkChosen DEF ClearPlace, Wrong
  <2>2. kind' \in [Links -> {"none", "dir", "link"}]
    BY <1>2, <2>1 DEF ClearPlace, LibraryTypeOK
  <2>3. QED
    BY <1>2, <2>2 DEF ClearPlace, Continue, LibraryTypeOK
<1>3. CASE MakeLink
  <2>1. First(Wrong) \in Links
    BY <1>3, LinkChosen DEF MakeLink, Wrong
  <2>2. kind' \in [Links -> {"none", "dir", "link"}] /\ done' \subseteq Links
    BY <1>3, <2>1 DEF MakeLink, LibraryTypeOK
  <2>3. goes' \in Places \cup {Nowhere}
    BY <1>3 DEF MakeLink, LibraryTypeOK, Configs
  <2>4. QED
    BY <1>3, <2>2, <2>3 DEF MakeLink, Continue, LibraryTypeOK
<1>4. CASE UndoLink
  <2>1. Last(done) \in Links
    BY <1>4, LinkChosen DEF UndoLink, LibraryTypeOK
  <2>2. kind' \in [Links -> {"none", "dir", "link"}] /\ done' \subseteq Links
    BY <1>4, <2>1 DEF UndoLink, LibraryTypeOK
  <2>3. goes' \in Places \cup {Nowhere}
    BY <1>4 DEF UndoLink, LibraryTypeOK, Configs
  <2>4. QED
    BY <1>4, <2>2, <2>3 DEF UndoLink, Continue, LibraryTypeOK
<1>5. QED
  BY <1>1, <1>2, <1>3, <1>4

\* The other steps of a command.
LEMMA CommandType ==
    ASSUME LibraryTypeOK, half' = half, CommandStep
    PROVE  LibraryTypeOK'
<1>1. CASE PlanView \/ ClearPlace \/ MakeLink \/ UndoLink
  BY <1>1, LinkType
<1>2. CASE Leave
  BY <1>2, LeaveType
<1>3. CASE LoadLayout \/ FindRunning \/ Refuse \/ ViewInstalled \/ FailLink
  <2>1. ~Leave => /\ pc' \in {"scan", "plan", "read", "check", "bind", "validate", "undo"}
                  /\ faults' \in 0..MaxFaults
    BY <1>3, BoundsAssumption
       DEF LoadLayout, FindRunning, Refuse, ViewInstalled, FailLink, Continue, LibraryTypeOK
  <2>2. QED
    BY <1>2, <1>3, <2>1
       DEF LoadLayout, FindRunning, Refuse, ViewInstalled, FailLink, Continue, LibraryTypeOK
<1>4. CASE UndoneView \/ Revalidate \/ WriteConfig
  <2>1. CutShort \subseteq Places \cup {Nowhere}
    BY DEF CutShort, LibraryTypeOK, Configs
  <2>2. CASE Forget
    BY <1>4, <2>1, <2>2, ForgetType DEF UndoneView, Revalidate, WriteConfig, Continue, LibraryTypeOK
  <2>3. CASE ~Forget
    BY <1>4, <2>3 DEF UndoneView, Revalidate, WriteConfig, Continue, LibraryTypeOK
  <2>4. QED
    BY <2>2, <2>3
<1>5. CASE EnableBind \/ EnableEmptyBind \/ DisableBind
  <2>1. config.place \in Places \cup {Nowhere} /\ Names(stage) \subseteq Files
    BY DEF LibraryTypeOK, Configs, Names
  <2>2. want' \in Configs
    BY <1>5, <2>1, ConfigType DEF EnableBind, EnableEmptyBind, DisableBind
  <2>3. QED
    BY <1>5, <2>2 DEF EnableBind, EnableEmptyBind, DisableBind, Continue, LibraryTypeOK
<1>6. CASE CommitCheck \/ CommitEnd
  <2>1. Names(stage) \cap Names(game) \subseteq Files
    BY DEF Names
  <2>2. QED
    BY <1>2, <1>6, <2>1 DEF CommitCheck, CommitEnd, Continue, LibraryTypeOK
<1>7. ASSUME NEW f \in Files, CommitFile(f)
      PROVE  LibraryTypeOK'
  <2>1. /\ stage' \in [Files -> {"none", "good", "other"}]
        /\ game' \in [Files -> {"none", "good", "other"}]
    BY <1>7 DEF CommitFile, LibraryTypeOK
  <2>2. pc' \in {"move", "moved"}
    BY <1>7 DEF CommitFile, Continue
  <2>3. QED
    BY <1>7, <2>1, <2>2 DEF CommitFile, Continue, LibraryTypeOK
<1>8. CASE ReadRecord \/ ReadList \/ Compare
  BY <1>2, <1>8 DEF ReadRecord, ReadList, Compare, Continue, LibraryTypeOK
<1>9. CASE Replace
  BY <1>9, ForgetType DEF Replace, LibraryTypeOK
<1>10. QED
  BY <1>1, <1>2, <1>3, <1>4, <1>5, <1>6, <1>7, <1>8, <1>9 DEF CommandStep

\* Steam, its launcher and the owner.
LEMMA BesideType ==
    ASSUME LibraryTypeOK, half' = half,
           \/ \E o \in Ops, c \in Cards : BeginCommand(o, c)
           \/ Kill \/ Steam \/ MoveGame
           \/ \E c \in Cards : Pull(c) \/ PutBack(c)
    PROVE  LibraryTypeOK'
<1>1. ASSUME NEW o \in Ops, NEW c \in Cards, BeginCommand(o, c)
      PROVE  LibraryTypeOK'
  BY <1>1 DEF BeginCommand, Ops, LibraryTypeOK
<1>2. CASE Kill
  <2>1. CutShort \subseteq Places \cup {Nowhere} /\ faults' \in 0..MaxFaults
    BY <1>2, BoundsAssumption DEF Kill, CutShort, LibraryTypeOK, Configs
  <2>2. QED
    BY <1>2, <2>1, ForgetType DEF Kill, LibraryTypeOK
<1>3. CASE LaunchReads \/ LaunchStarts \/ SteamStops
  <2>1. config \in Configs /\ view \in Configs
    BY DEF LibraryTypeOK
  <2>2. view' \in Configs
    BY <1>3, <2>1, ConfigType, ConfigParts DEF LaunchReads, LaunchStarts, SteamStops
  <2>3. launch' \in {"off", "reading", "up"} /\ raced' \in BOOLEAN
    BY <1>3 DEF LaunchReads, LaunchStarts, SteamStops, LibraryTypeOK
  <2>4. UNCHANGED <<libVars, cmdVars>>
    BY <1>3 DEF LaunchReads, LaunchStarts, SteamStops
  <2>5. QED
    BY <2>2, <2>3, <2>4 DEF LibraryTypeOK
<1>4. ASSUME NEW f \in Files, SteamStages(f) \/ SteamCopies(f) \/ SteamStartsUpdate(f)
      PROVE  LibraryTypeOK'
  <2>1. stage' \in [Files -> {"none", "good", "other"}]
    BY <1>4 DEF SteamStages, SteamCopies, SteamStartsUpdate, LibraryTypeOK
  <2>2. game' \in [Files -> {"none", "good", "other"}]
    BY <1>4 DEF SteamStages, SteamCopies, SteamStartsUpdate, LibraryTypeOK
  <2>3. recordAge' \in 0..MaxWrites /\ manifestBy' \in {"steam", "helper"}
    BY <1>4, BoundsAssumption DEF SteamStages, SteamCopies, SteamStartsUpdate, LibraryTypeOK
  <2>4. QED
    BY <1>4, <2>1, <2>2, <2>3 DEF SteamStages, SteamCopies, SteamStartsUpdate, LibraryTypeOK
<1>5. CASE MoveGame \/ \E c \in Cards : Pull(c) \/ PutBack(c)
  BY <1>5, BoundsAssumption DEF MoveGame, Pull, PutBack, LibraryTypeOK
<1>6. QED
  BY <1>1, <1>2, <1>3, <1>4, <1>5 DEF Steam

LEMMA TypeStep == LibraryTypeOK /\ [LibraryNext]_libraryVars => LibraryTypeOK'
<1>1. ASSUME LibraryTypeOK, UNCHANGED libraryVars
      PROVE  LibraryTypeOK'
  BY <1>1 DEF libraryVars, LibraryTypeOK
<1>2. QED
  BY <1>1, CommandType, BesideType DEF LibraryNext, Advance

\* Each variable keeps to its values, so that no file gets a content that no part writes.
THEOREM LibraryTypeCorrect == LibrarySpec => []LibraryTypeOK
<1>1. LibraryInit => LibraryTypeOK
  <2> SUFFICES ASSUME LibraryInit PROVE LibraryTypeOK
    OBVIOUS
  <2>1. kind \in [Links -> {"none", "dir", "link"}] /\ goes \in Places \cup {Nowhere}
    BY DEF LibraryInit
  <2>2. config \in Configs /\ view \in Configs /\ want \in Configs
    <3>1. config = Unset \/ config = Config(goes, FALSE, {})
      BY DEF LibraryInit
    <3>2. view = Unset /\ want = Unset
      BY DEF LibraryInit
    <3>3. QED
      BY <2>1, <3>1, <3>2, ConfigType
  <2>3. /\ stage \in [Files -> {"none", "good", "other"}]
        /\ game \in [Files -> {"none", "good", "other"}]
    BY DEF LibraryInit
  <2>4. /\ half \in {"layout", "game"} /\ inserted = Cards
        /\ at = "own" /\ manifestBy = "steam" /\ recordAge = 0 /\ ours = FALSE
        /\ launch = "off" /\ raced = FALSE /\ op = "prepare" /\ arg = Home /\ pc = "idle"
        /\ was = [l \in Links |-> "none"] /\ done = {} /\ over = {} /\ age = 0
        /\ broke = {} /\ faults = 0
    BY DEF LibraryInit
  <2>5. was \in [Links -> {"none", "dir", "link"}]
    BY <2>4
  <2>6. 0 \in 0..MaxWrites /\ 0 \in 0..MaxFaults
    BY BoundsAssumption
  <2>7. QED
    BY <2>1, <2>2, <2>3, <2>4, <2>5, <2>6, CardsAssumption DEF LibraryTypeOK
<1>2. QED
  BY <1>1, TypeStep, PTL DEF LibrarySpec

------------------------------------------------------------------------------
(* What Steam was given is what is there *)

ViewInv == Alone /\ ReadsAlone /\ Mounted

\* A command changes neither the launcher nor what it has read.
LEMMA CommandLeavesLauncher ==
    ASSUME CommandStep \/ Kill
    PROVE  UNCHANGED <<launch, view, raced>>
BY DEF CommandStep, LoadLayout, FindRunning, Refuse, PlanView, ClearPlace, MakeLink, ViewInstalled,
   FailLink, UndoLink, UndoneView, Revalidate, WriteConfig, EnableBind, EnableEmptyBind,
   DisableBind, CommitCheck, CommitFile, CommitEnd, ReadRecord, ReadList, Compare, Replace,
   Leave, Kill

\* The first steps of a command touch nothing.
LEMMA FirstSteps ==
    ASSUME CommandStep, pc \in {"load", "scan"}
    PROVE  /\ UNCHANGED libVars
           /\ launch = "up" => pc' \in {"idle", "load", "scan"}
BY DEF CommandStep, LoadLayout, FindRunning, Refuse, PlanView, ClearPlace, MakeLink, ViewInstalled,
   FailLink, UndoLink, UndoneView, Revalidate, WriteConfig, EnableBind, EnableEmptyBind,
   DisableBind, CommitCheck, CommitFile, CommitEnd, ReadRecord, ReadList, Compare, Replace,
   Leave, Forget, Continue

LEMMA NoCommandIdle ==
    ASSUME CommandStep PROVE pc # "idle"
BY DEF CommandStep, LoadLayout, FindRunning, Refuse, PlanView, ClearPlace, MakeLink, ViewInstalled,
   FailLink, UndoLink, UndoneView, Revalidate, WriteConfig, EnableBind, EnableEmptyBind,
   DisableBind, CommitCheck, CommitFile, CommitEnd, ReadRecord, ReadList, Compare, Replace

\* What Mounted speaks of.
LEMMA MountedFrame ==
    ASSUME Mounted, UNCHANGED <<raced, view, config, kind, goes>>,
           launch' # "off" => launch # "off"
    PROVE  Mounted'
BY DEF Mounted, Shown, Right

LEMMA ViewStep == LibraryTypeOK /\ ViewInv /\ LibraryNext => ViewInv'
<1> SUFFICES ASSUME LibraryTypeOK, ViewInv, LibraryNext
             PROVE  ViewInv'
  OBVIOUS
<1>1. ASSUME NEW o \in Ops, NEW c \in Cards, BeginCommand(o, c)
      PROVE  ViewInv'
  <2>1. Mounted'
    <3>1. CASE raced'
      BY <3>1 DEF Mounted
    <3>2. CASE ~raced'
      <4>1. raced' = raced
        BY <1>1, <3>2 DEF BeginCommand, LibraryTypeOK
      <4>2. QED
        BY <1>1, <4>1, MountedFrame DEF BeginCommand, ViewInv
    <3>3. QED
      BY <3>1, <3>2
  <2>2. Alone' /\ ReadsAlone'
    BY <1>1 DEF BeginCommand, ViewInv, Alone, ReadsAlone
  <2>3. QED
    BY <2>1, <2>2 DEF ViewInv
<1>2. CASE CommandStep
  <2>1. UNCHANGED <<launch, view, raced>>
    BY <1>2, CommandLeavesLauncher
  <2>2. CASE raced \/ launch = "off"
    BY <2>1, <2>2 DEF ViewInv, Alone, ReadsAlone, Mounted
  <2>3. CASE ~raced /\ launch # "off"
    <3>1. pc \in {"load", "scan"} /\ launch = "up"
      BY <1>2, <2>3, NoCommandIdle DEF ViewInv, Alone, ReadsAlone, LibraryTypeOK
    <3>2. UNCHANGED libVars /\ pc' \in {"idle", "load", "scan"}
      BY <1>2, <3>1, FirstSteps
    <3>3. Mounted'
      BY <2>1, <3>2, MountedFrame DEF ViewInv
    <3>4. QED
      BY <2>1, <3>1, <3>2, <3>3 DEF ViewInv, Alone, ReadsAlone
  <2>4. QED
    BY <2>2, <2>3
<1>3. CASE Kill
  BY <1>3, MountedFrame DEF Kill, Forget, ViewInv, Alone, ReadsAlone
<1>4. CASE LaunchReads
  <2>1. Alone' /\ ReadsAlone'
    BY <1>4 DEF LaunchReads, Alone, ReadsAlone, LibraryTypeOK
  <2>2. view' = config' /\ (view' # Unset => Shown(view'.place))
    BY <1>4 DEF LaunchReads, Usable
  <2>3. UNCHANGED <<kind, goes>>
    BY <1>4 DEF LaunchReads
  <2>4. Mounted'
    BY <2>2, <2>3 DEF Mounted, Shown, Right
  <2>5. QED
    BY <2>1, <2>4 DEF ViewInv
<1>5. CASE LaunchStarts
  <2>1. Alone' /\ ReadsAlone'
    BY <1>5 DEF LaunchStarts, ViewInv, Alone, ReadsAlone
  <2>2. CASE raced \/ launch' = "off"
    BY <1>5, <2>1, <2>2 DEF LaunchStarts, ViewInv, Mounted
  <2>3. CASE ~raced /\ launch' = "up"
    <3>1. view = config /\ (view # Unset => Shown(view.place))
      BY <1>5, <2>3 DEF LaunchStarts, ViewInv, Mounted
    <3>2. config = Config(config.place, config.bound, config.files)
      BY DEF LibraryTypeOK, Configs, Config
    <3>3. view' = view
      BY <1>5, <2>3, <3>1, <3>2 DEF LaunchStarts
    <3>4. QED
      BY <1>5, <2>1, <3>3, MountedFrame DEF LaunchStarts, ViewInv
  <2>4. QED
    BY <1>5, <2>2, <2>3 DEF LaunchStarts
<1>6. CASE SteamStops
  BY <1>6 DEF SteamStops, ViewInv, Alone, ReadsAlone, Mounted
<1>7. CASE \/ \E f \in Files : SteamStages(f) \/ SteamCopies(f) \/ SteamStartsUpdate(f)
           \/ MoveGame
           \/ \E c \in Cards : Pull(c) \/ PutBack(c)
  <2>1. UNCHANGED <<raced, view, launch, config, kind, goes, pc>>
    BY <1>7 DEF SteamStages, SteamCopies, SteamStartsUpdate, MoveGame, Pull, PutBack
  <2>2. QED
    BY <2>1, MountedFrame DEF ViewInv, Alone, ReadsAlone
<1>8. QED
  BY <1>1, <1>2, <1>3, <1>4, <1>5, <1>6, <1>7 DEF LibraryNext, Advance, Steam

LEMMA ViewInvariant == LibrarySpec => [](LibraryTypeOK /\ ViewInv)
<1>1. LibraryInit => ViewInv
  BY DEF LibraryInit, ViewInv, Alone, ReadsAlone, Mounted
<1>2. LibraryTypeOK /\ ViewInv /\ [LibraryNext]_libraryVars => ViewInv'
  <2>1. ViewInv /\ UNCHANGED libraryVars => ViewInv'
    BY MountedFrame DEF libraryVars, ViewInv, Alone, ReadsAlone
  <2>2. QED
    BY <2>1, ViewStep
<1>3. QED
  BY <1>1, <1>2, LibraryTypeCorrect, PTL DEF LibrarySpec

\* While Steam runs, the links and the configuration are those that it was given mounts for,
\* wherever commands before it were killed or failed; a launch and a command that overlapped
\* unseen excepted (OneView).
THEOREM ViewIsOne == LibrarySpec => []OneView
<1>1. LibraryTypeOK /\ ViewInv => OneView
  BY DEF ViewInv, Mounted, OneView, Shown
<1>2. QED
  BY <1>1, ViewInvariant, PTL

------------------------------------------------------------------------------
(* Nothing half done: the game *)

GameInv == InstalledIsWhole /\ FoundWhole /\ Duplicates

\* Names only grow unless a file goes.
LEMMA NamesFrame ==
    ASSUME Names(game) = Files, \A f \in Files : game[f] # "none" => game'[f] # "none"
    PROVE  Names(game)' = Files
BY DEF Names

LEMMA CommitFileKeeps ==
    ASSUME LibraryTypeOK, NEW f \in Files, CommitFile(f)
    PROVE  /\ \A g \in Files : game[g] # "none" => game'[g] = game[g]
           /\ UNCHANGED <<manifestBy, raced, op, over>> /\ pc' \in {"move", "moved"} /\ pc = "move"
BY DEF LibraryTypeOK, CommitFile, Continue

\* What GameInv speaks of; a step of a command that ends it, or is of another one.
LEMMA GameFrame ==
    ASSUME GameInv, UNCHANGED <<game, manifestBy, raced>>,
           pc' # "idle" => UNCHANGED <<op, over>>,
           pc' \in {"compare", "replace"} => pc \in {"compare", "replace"},
           pc' = "move" => pc = "move"
    PROVE  GameInv'
BY DEF GameInv, InstalledIsWhole, FoundWhole, Duplicates, Names

LEMMA GameStep == LibraryTypeOK /\ ViewInv /\ GameInv /\ LibraryNext => GameInv'
<1> SUFFICES ASSUME LibraryTypeOK, ViewInv, GameInv, LibraryNext
             PROVE  GameInv'
  OBVIOUS
<1>1. ASSUME NEW o \in Ops, NEW c \in Cards, BeginCommand(o, c)
      PROVE  GameInv'
  BY <1>1 DEF BeginCommand, GameInv, InstalledIsWhole, FoundWhole, Duplicates
<1>2. CASE \/ LoadLayout \/ FindRunning \/ Refuse \/ PlanView \/ ClearPlace \/ MakeLink
           \/ ViewInstalled \/ FailLink \/ UndoLink \/ UndoneView \/ Revalidate \/ WriteConfig
           \/ EnableBind \/ EnableEmptyBind \/ DisableBind \/ CommitEnd
           \/ (Compare /\ op = "finalize") \/ Kill
  BY <1>2, GameFrame
     DEF LoadLayout, FindRunning, Refuse, PlanView, ClearPlace, MakeLink, ViewInstalled,
         FailLink, UndoLink, UndoneView, Revalidate, WriteConfig, EnableBind, EnableEmptyBind,
         DisableBind, CommitEnd, Compare, Kill, Leave, Forget, Continue
<1>3. CASE CommitCheck
  <2>1. CASE Leave
    BY <2>1, GameFrame DEF Leave, Forget
  <2>2. CASE ~Leave
    <3>1. /\ \A f \in over' : game[f] = "good"
          /\ pc' = "move" /\ UNCHANGED <<game, manifestBy, raced, op>>
      BY <1>3, <2>2 DEF CommitCheck, SameDigest, Continue
    <3>2. QED
      BY <3>1 DEF GameInv, InstalledIsWhole, FoundWhole, Duplicates, Names
  <2>3. QED
    BY <2>1, <2>2
<1>4. ASSUME NEW f \in Files, CommitFile(f)
      PROVE  GameInv'
  <2>1. Duplicates'
    BY <1>4, CommitFileKeeps DEF GameInv, Duplicates, LibraryTypeOK
  <2>2. FoundWhole'
    BY <1>4, CommitFileKeeps DEF FoundWhole
  <2>3. InstalledIsWhole'
    <3>1. CASE manifestBy = "helper" /\ ~raced
      <4>1. Names(game) = Files
        BY <3>1 DEF GameInv, InstalledIsWhole
      <4>2. Names(game)' = Files
        BY <1>4, <4>1, CommitFileKeeps, NamesFrame
      <4>3. QED
        BY <4>2 DEF InstalledIsWhole
    <3>2. CASE ~(manifestBy = "helper" /\ ~raced)
      BY <1>4, <3>2, CommitFileKeeps DEF InstalledIsWhole
    <3>3. QED
      BY <3>1, <3>2
  <2>4. QED
    BY <2>1, <2>2, <2>3 DEF GameInv
<1>5. CASE ReadRecord
  <2>1. CASE Leave
    BY <2>1, GameFrame DEF Leave, Forget
  <2>2. CASE ~Leave
    <3>1. Names(game) = Files /\ pc' = "compare" /\ UNCHANGED <<game, manifestBy, raced, op>>
      BY <1>5, <2>2 DEF ReadRecord, Complete, Continue
    <3>2. QED
      BY <3>1 DEF GameInv, InstalledIsWhole, FoundWhole, Duplicates, Names
  <2>3. QED
    BY <2>1, <2>2
<1>6. CASE ReadList \/ (Compare /\ op # "finalize")
  <2>1. CASE Leave
    BY <2>1, GameFrame DEF Leave, Forget
  <2>2. CASE ~Leave
    <3>1. op # "finalize" /\ pc' # "move" /\ UNCHANGED <<game, manifestBy, raced, op>>
      BY <1>6, <2>2 DEF ReadList, Compare, Continue
    <3>2. QED
      BY <3>1 DEF GameInv, InstalledIsWhole, FoundWhole, Duplicates, Names
  <2>3. QED
    BY <2>1, <2>2
<1>7. CASE Replace
  <2>1. pc = "replace" /\ pc' = "idle" /\ UNCHANGED <<game, raced>>
    BY <1>7 DEF Replace, Forget
  <2>2. manifestBy' = "helper" => manifestBy = "helper" \/ op = "finalize"
    BY <1>7 DEF Replace
  <2>3. QED
    BY <2>1, <2>2 DEF GameInv, InstalledIsWhole, FoundWhole, Duplicates, Names
<1>8. CASE LaunchReads \/ LaunchStarts \/ SteamStops
  BY <1>8 DEF LaunchReads, LaunchStarts, SteamStops, GameInv, InstalledIsWhole, FoundWhole,
     Duplicates, Names
<1>9. ASSUME NEW f \in Files, SteamStages(f) \/ SteamCopies(f)
      PROVE  GameInv'
  <2>1. \A g \in Files : game[g] # "none" => game'[g] \in {game[g], "good"}
    BY <1>9 DEF SteamStages, SteamCopies, LibraryTypeOK
  <2>2. UNCHANGED <<manifestBy, raced, op, over, pc>>
    BY <1>9 DEF SteamStages, SteamCopies
  <2>3. Names(game) = Files => Names(game)' = Files
    BY <2>1, NamesFrame DEF LibraryTypeOK
  <2>4. InstalledIsWhole' /\ FoundWhole'
    BY <2>2, <2>3 DEF GameInv, InstalledIsWhole, FoundWhole
  <2>5. Duplicates'
    BY <2>1, <2>2 DEF GameInv, Duplicates, LibraryTypeOK
  <2>6. QED
    BY <2>4, <2>5 DEF GameInv
<1>10. ASSUME NEW f \in Files, SteamStartsUpdate(f)
       PROVE  GameInv'
  <2>1. manifestBy' = "steam" /\ launch = "up" /\ UNCHANGED <<raced, pc>>
    BY <1>10 DEF SteamStartsUpdate
  <2>2. raced \/ pc \in {"idle", "load", "scan"}
    BY <2>1 DEF ViewInv, Alone
  <2>3. QED
    BY <2>1, <2>2 DEF GameInv, InstalledIsWhole, FoundWhole, Duplicates
<1>11. CASE MoveGame \/ \E c \in Cards : Pull(c) \/ PutBack(c)
  BY <1>11, GameFrame DEF MoveGame, Pull, PutBack
<1>12. QED
  BY <1>1, <1>2, <1>3, <1>4, <1>5, <1>6, <1>7, <1>8, <1>9, <1>10, <1>11
     DEF LibraryNext, Advance, Steam, CommandStep

LEMMA GameInvariant == LibrarySpec => [](LibraryTypeOK /\ ViewInv /\ GameInv)
<1>1. LibraryInit => GameInv
  BY DEF LibraryInit, GameInv, InstalledIsWhole, FoundWhole, Duplicates
<1>2. LibraryTypeOK /\ ViewInv /\ GameInv /\ [LibraryNext]_libraryVars => GameInv'
  <2>1. GameInv /\ UNCHANGED libraryVars => GameInv'
    BY GameFrame DEF libraryVars
  <2>2. QED
    BY <2>1, GameStep
<1>3. QED
  BY <1>1, <1>2, ViewInvariant, PTL DEF LibrarySpec

------------------------------------------------------------------------------
(* Nothing half done: the links *)

LinksInv == PreparingView /\ Broken /\ NoneBroken

\* Where the payload link may lead, for a root that a command chooses.
LEMMA StandingFrame ==
    ASSUME UNCHANGED <<kind, goes, config>>, NEW p, Standing(p)
    PROVE  Standing(p)'
BY DEF Standing, Meant, Acceptable, Prepared, Own

\* What a cut-short command adds to broke is as it left it.
LEMMA CutShortStands ==
    ASSUME LinksInv, UNCHANGED <<kind, goes, config>>
    PROVE  \A p \in CutShort : Standing(p)'
BY StandingFrame DEF LinksInv, CutShort, PreparingView, Broken

\* The root that prepare or set-payload-common is going to set up is one of those.
LEMMA TargetMeant ==
    ASSUME LibraryTypeOK, op \in {"prepare", "set"}
    PROVE  Meant(Target.place)
<1>1. config.place \in Places \cup {Nowhere} /\ arg \in Cards
  BY DEF LibraryTypeOK, Configs
<1>2. CASE op = "prepare" /\ config.place.card = arg
  BY <1>2 DEF Meant, Target, Prepared
<1>3. CASE op = "prepare" /\ config.place.card # arg
  <2>1. Target.place = Own(arg) /\ Own(arg).card = arg
    BY <1>3 DEF Target, Prepared, Config, Own
  <2>2. QED
    BY <2>1, <1>3 DEF Meant, Prepared, Config
<1>4. CASE op = "set"
  <2>1. Target.place = [config.place EXCEPT !.pay = "public"]
    BY <1>4 DEF Target, Selected, Config
  <2>2. Target.place.card = config.place.card /\ Target.place.pay = "public"
    BY <2>1, <1>1 DEF Places, Nowhere
  <2>3. QED
    BY <2>2 DEF Meant
<1>5. QED
  BY <1>2, <1>3, <1>4

\* A step that leaves links and configuration alone, and begins no writing.
LEMMA LinksFrame ==
    ASSUME LinksInv, UNCHANGED <<kind, goes, config>>, broke' = broke \/ broke' = {},
           pc' \in {"link", "undo", "validate"} => pc \in {"link", "undo", "validate"},
           \/ pc' \notin {"link", "undo", "validate", "write"}
           \/ op' \notin {"prepare", "set"}
           \/ /\ pc \in {"link", "undo", "validate", "write"}
              /\ UNCHANGED <<op, arg, want>>
    PROVE  LinksInv'
<1>1. Broken'
  BY StandingFrame DEF LinksInv, Broken
<1>2. NoneBroken'
  BY DEF LinksInv, NoneBroken
<1>3. PreparingView'
  <2>1. CASE op' \in {"prepare", "set"} /\ pc' \in {"link", "undo", "validate", "write"}
    <3>1. Standing(want.place) /\ want' = want
      BY <2>1 DEF LinksInv, PreparingView
    <3>2. Standing(want.place)'
      BY <3>1, StandingFrame
    <3>3. QED
      BY <3>2 DEF PreparingView
  <2>2. CASE ~(op' \in {"prepare", "set"} /\ pc' \in {"link", "undo", "validate", "write"})
    BY <2>2 DEF PreparingView
  <2>3. QED
    BY <2>1, <2>2
<1>4. QED
  BY <1>1, <1>2, <1>3 DEF LinksInv

\* A command that ends where it may have changed links.
LEMMA EndFrame ==
    ASSUME LinksInv, UNCHANGED <<kind, goes, config>>, pc' = "idle",
           broke' = broke \/ broke' = CutShort
    PROVE  LinksInv'
BY CutShortStands, StandingFrame DEF LinksInv, PreparingView, Broken, NoneBroken

LEMMA LinksStep == LibraryTypeOK /\ LinksInv /\ LibraryNext => LinksInv'
<1> SUFFICES ASSUME LibraryTypeOK, LinksInv, LibraryNext
             PROVE  LinksInv'
  OBVIOUS
<1>1. ASSUME NEW o \in Ops, NEW c \in Cards, BeginCommand(o, c)
      PROVE  LinksInv'
  BY <1>1, LinksFrame DEF BeginCommand
<1>2. CASE \/ LoadLayout \/ FindRunning \/ Refuse \/ CommitCheck \/ CommitEnd
           \/ ReadRecord \/ ReadList \/ Compare \/ Replace
           \/ \E f \in Files : CommitFile(f)
  <2>1. UNCHANGED <<kind, goes, config, broke>>
    BY <1>2 DEF LoadLayout, FindRunning, Refuse, CommitCheck, CommitFile, CommitEnd,
       ReadRecord, ReadList, Compare, Replace, Leave, Forget, Continue
  <2>2. pc' \notin {"link", "undo", "validate", "write"}
    BY <1>2 DEF LoadLayout, FindRunning, Refuse, CommitCheck, CommitFile, CommitEnd,
       ReadRecord, ReadList, Compare, Replace, Leave, Forget, Continue
  <2>3. QED
    BY <2>1, <2>2, LinksFrame
<1>3. CASE PlanView
  <2>1. CASE Leave
    BY <2>1, EndFrame DEF Leave, Forget
  <2>2. CASE ~Leave
    <3>1. /\ want' = Target /\ Acceptable(Target.place) /\ broke' = {} /\ pc' = "link"
          /\ UNCHANGED <<kind, goes, config, op, arg>>
      BY <1>3, <2>2 DEF PlanView, Continue
    <3>2. op \in {"prepare", "set"} => Standing(want.place)'
      <4> SUFFICES ASSUME op \in {"prepare", "set"}
                   PROVE  Standing(want.place)'
        OBVIOUS
      <4>1. Meant(Target.place)
        BY TargetMeant
      <4>2. PICK root : root = Target.place
        OBVIOUS
      <4>3. Standing(root)
        BY <3>1, <4>1, <4>2 DEF Standing
      <4>4. Standing(root)' /\ want'.place = root
        BY <3>1, <4>2, <4>3, StandingFrame
      <4> QED
        BY <4>4 DEF Standing, Acceptable, Meant, Prepared
    <3>3. Broken' /\ NoneBroken'
      BY <3>1 DEF Broken, NoneBroken
    <3>4. PreparingView'
      BY <3>1, <3>2 DEF PreparingView
    <3>5. QED
      BY <3>3, <3>4 DEF LinksInv
  <2>3. QED
    BY <2>1, <2>2
<1>4. CASE ClearPlace \/ MakeLink \/ UndoLink
  <2>1. pc \in {"link", "undo"} /\ pc' \in {"link", "undo"} /\ UNCHANGED <<op, arg, want, config>>
    BY <1>4 DEF ClearPlace, MakeLink, UndoLink, Continue
  <2>2. broke = {} /\ broke' = {}
    BY <1>4, <2>1 DEF ClearPlace, MakeLink, UndoLink, LinksInv, NoneBroken
  <2>3. kind'[PayloadLink] = "link" =>
            goes' \in {want.place, config.place} \/ (kind[PayloadLink] = "link" /\ goes' = goes)
    <3>1. CASE ClearPlace
      BY <3>1 DEF ClearPlace, LibraryTypeOK, Links, PayloadLink
    <3>2. CASE MakeLink
      BY <3>2 DEF MakeLink, LibraryTypeOK, Links, PayloadLink
    <3>3. CASE UndoLink
      BY <3>3 DEF UndoLink, LibraryTypeOK, Links, PayloadLink
    <3>4. QED
      BY <1>4, <3>1, <3>2, <3>3
  <2>4. op \in {"prepare", "set"} => Standing(want.place)
    BY <2>1 DEF LinksInv, PreparingView
  <2>5. op \in {"prepare", "set"} => Acceptable(want.place)'
    BY <2>1, <2>3, <2>4 DEF Standing, Acceptable
  <2>6. op \in {"prepare", "set"} => Meant(want.place)'
    BY <2>1, <2>4 DEF Standing, Meant, Prepared, Own
  <2>7. QED
    BY <2>1, <2>2, <2>5, <2>6 DEF LinksInv, PreparingView, Broken, NoneBroken, Standing
<1>5. CASE ViewInstalled \/ FailLink
  BY <1>5, LinksFrame DEF ViewInstalled, FailLink, Continue
<1>6. CASE UndoneView \/ Kill
  BY <1>6, EndFrame DEF UndoneView, Kill, Forget
<1>7. CASE Revalidate
  <2>1. CASE Forget
    <3>1. UNCHANGED <<kind, goes, config>> /\ broke' \in {broke, CutShort}
      BY <1>7 DEF Revalidate
    <3>2. QED
      BY <2>1, <3>1, EndFrame DEF Forget
  <2>2. CASE ~Forget
    BY <1>7, <2>2, LinksFrame DEF Revalidate, Continue
  <2>3. QED
    BY <2>1, <2>2
<1>8. CASE WriteConfig
  BY <1>8 DEF WriteConfig, Forget, LinksInv, PreparingView, Broken, NoneBroken
<1>9. CASE EnableBind \/ EnableEmptyBind \/ DisableBind
  <2>1. op' \notin {"prepare", "set"} /\ pc' = "write" /\ UNCHANGED <<kind, goes, config, broke>>
    BY <1>9 DEF EnableBind, EnableEmptyBind, DisableBind, Continue
  <2>2. QED
    BY <2>1, LinksFrame
<1>10. CASE \/ LaunchReads \/ LaunchStarts \/ SteamStops \/ MoveGame
            \/ \E f \in Files : SteamStages(f) \/ SteamCopies(f) \/ SteamStartsUpdate(f)
            \/ \E c \in Cards : Pull(c) \/ PutBack(c)
  <2>1. UNCHANGED <<kind, goes, config, broke, pc, op, arg, want>>
    BY <1>10 DEF LaunchReads, LaunchStarts, SteamStops, MoveGame, SteamStages, SteamCopies,
       SteamStartsUpdate, Pull, PutBack
  <2>2. QED
    BY <2>1, LinksFrame
<1>11. QED
  BY <1>1, <1>2, <1>3, <1>4, <1>5, <1>6, <1>7, <1>8, <1>9, <1>10
     DEF LibraryNext, Advance, Steam, CommandStep

LEMMA LinksInvariant == LibrarySpec => []LinksInv
<1>1. LibraryInit => LinksInv
  BY DEF LibraryInit, LinksInv, PreparingView, Broken, NoneBroken
<1>2. LibraryTypeOK /\ LinksInv /\ [LibraryNext]_libraryVars => LinksInv'
  <2>1. LinksInv /\ UNCHANGED libraryVars => LinksInv'
    BY LinksFrame DEF libraryVars
  <2>2. QED
    BY <2>1, LinksStep
<1>3. QED
  BY <1>1, <1>2, LibraryTypeCorrect, PTL DEF LibrarySpec

\* A root whose set-up was cut short: the prepare of its card accepts the link, unless it leads to
\* the public root before the configuration does.
LEMMA StandingTaken ==
    ASSUME NEW p, Standing(p)
    PROVE  Acceptable(Prepared(p.card).place) \/ Ahead(p)
<1>1. CASE p = Prepared(p.card).place
  BY <1>1 DEF Standing
<1>2. CASE p.pay = "public" /\ p.card = config.place.card
  <2>1. Prepared(p.card) = config
    BY <1>2 DEF Prepared
  <2>2. kind[PayloadLink] = "link" => goes \in {p, config.place}
    BY DEF Standing, Acceptable
  <2>3. QED
    BY <1>2, <2>1, <2>2 DEF Acceptable, Ahead
<1>3. QED
  BY <1>1, <1>2 DEF Standing, Meant

\* A game that is recorded as installed has all its files; and what a prepare or set-payload-common
\* that was cut short anywhere leaves is accepted by the prepare of its card, but for a payload
\* link that is ahead of the configuration (NothingHalfDone).
THEOREM NothingIsHalfDone == LibrarySpec => []NothingHalfDone
<1>1. GameInv /\ LinksInv => NothingHalfDone
  BY StandingTaken DEF GameInv, LinksInv, Broken, NothingHalfDone, PrepareResumable
<1>2. QED
  BY <1>1, GameInvariant, LinksInvariant, PTL

------------------------------------------------------------------------------
(* The files of the game are kept *)

LEMMA CopiesKept ==
    ASSUME NEW f, stage[f] = "good" \/ game[f] = "good"
                      => stage'[f] = "good" \/ game'[f] = "good",
           Copies(f) # {}
    PROVE  Copies(f)' # {}
BY DEF Copies

\* No step of a command, and no kill or pulled card, takes away the last good copy of a file:
\* commit removes a duplicate that it has compared, and otherwise moves (GameKept).
THEOREM GameIsKept == LibrarySpec => GameKept
<1> DEFINE Kept == \/ recordAge' # recordAge \/ raced
                   \/ \A f \in Files : Copies(f) # {} => Copies(f)' # {}
<1>1. LibraryTypeOK /\ GameInv /\ LibraryNext => Kept
  <2> SUFFICES ASSUME LibraryTypeOK, GameInv, LibraryNext, recordAge' = recordAge, ~raced, NEW f
       \in Files
               PROVE  stage[f] = "good" \/ game[f] = "good"
                          => stage'[f] = "good" \/ game'[f] = "good"
    BY CopiesKept
  <2>1. CASE UNCHANGED <<stage, game>>
    BY <2>1
  <2>2. ASSUME NEW g \in Files, CommitFile(g)
        PROVE  stage[f] = "good" \/ game[f] = "good"
                   => stage'[f] = "good" \/ game'[f] = "good"
    <3>1. CASE g \in over
      <4>1. game[g] = "good" /\ game' = game /\ stage' = [stage EXCEPT ![g] = "none"]
        BY <2>2, <3>1 DEF CommitFile, GameInv, Duplicates
      <4>2. QED
        BY <4>1 DEF LibraryTypeOK
    <3>2. CASE g \notin over
      BY <2>2, <3>2 DEF CommitFile, LibraryTypeOK
    <3>3. QED
      BY <3>1, <3>2
  <2>3. ASSUME NEW g \in Files, SteamStages(g) \/ SteamCopies(g)
        PROVE  stage[f] = "good" \/ game[f] = "good"
                   => stage'[f] = "good" \/ game'[f] = "good"
    BY <2>3 DEF SteamStages, SteamCopies, LibraryTypeOK
  <2>4. ASSUME NEW g \in Files, SteamStartsUpdate(g)
        PROVE  FALSE
    BY <2>4, BoundsAssumption DEF SteamStartsUpdate, LibraryTypeOK
  <2>5. \/ UNCHANGED <<stage, game>>
        \/ \E g \in Files : CommitFile(g) \/ SteamStages(g) \/ SteamCopies(g) \/
             SteamStartsUpdate(g)
    BY DEF LibraryNext, Advance, CommandStep, Steam, BeginCommand, LoadLayout, FindRunning,
           Refuse, PlanView,
       ClearPlace, MakeLink, ViewInstalled, FailLink, UndoLink, UndoneView, Revalidate,
       WriteConfig, EnableBind, EnableEmptyBind, DisableBind, CommitCheck, CommitEnd,
       ReadRecord, ReadList, Compare, Replace, Kill, Leave, LaunchReads, LaunchStarts,
       SteamStops, MoveGame, Pull, PutBack
  <2>6. QED
    BY <2>1, <2>2, <2>3, <2>4, <2>5
<1>2. LibraryTypeOK /\ GameInv /\ [LibraryNext]_libraryVars => [Kept]_libraryVars
  BY <1>1
<1>3. QED
  BY <1>2, GameInvariant, PTL DEF LibrarySpec, GameKept

==============================================================================
