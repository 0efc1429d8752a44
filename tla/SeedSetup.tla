------------------------------ MODULE SeedSetup ------------------------------
(***************************************************************************)
(* scripts/setup-steam-stack.py: the `prepare`, `activate` and `rollback`  *)
(* commands on one base directory.  Every command is a Unix process of its *)
(* own that may be killed between any two file-system calls; nothing       *)
(* serialises two of them, so what they share is the base directory only.  *)
(*                                                                         *)
(* A tree (client-seed, client, the activation staging directory, a        *)
(* quarantined payload) is abstracted to the lock file whose archive it    *)
(* came from and to whether its inventory still is the archive's.  A       *)
(* receipt holds the inventory of the tree it was made from, so it is such *)
(* a value too, and validating a tree against a receipt is equality.       *)
(*                                                                         *)
(* The operators called ...Bug are not part of the specification: each is  *)
(* the definition after it with one mistake, for mutation runs.            *)
(***************************************************************************)
EXTENDS Naturals

CONSTANTS
    Procs,      \* slots in which a command may be running
    Locks,      \* versions of config/steam-arm64-bootstrap-lock.json
    Labels,     \* rollback labels (by default a timestamp, never reused)
    None,       \* no such file, directory or value
    MaxCrashes  \* how many processes may be killed (bounds the model)

VARIABLES
    seed,           \* base/client-seed
    seedReceipt,    \* steam-seed-receipt.json
    seedTxn,        \* steam-seed-transaction.json
    quarantine,     \* base/rollback/steam-seed-<label>
    client,         \* base/client
    staging,        \* base/.client.activate.staging
    clientReceipt,  \* steam-client-activation.json
    clientTxn,      \* steam-client-activation-transaction.json
    run,            \* the command running in each slot
    said,           \* what the last command of each slot reported
    crashes

seedFiles   == <<seed, seedReceipt, seedTxn, quarantine>>
clientFiles == <<client, staging, clientReceipt, clientTxn>>
vars == <<seedFiles, clientFiles, run, said, crashes>>

------------------------------------------------------------------------------
(* Data *)

\* edited: changed by hand; updated: changed by Valve's client, or not ours.
Tree == [lock : Locks, form : {"exact", "partial", "edited", "updated"}]

As(form, t) == [lock |-> t.lock, form |-> form]

Transaction ==
    [kind : {"prepare"}, lock : Locks, label : {None}]
        \cup [kind : {"rollback"}, lock : Locks, label : Labels]

\* receipt.json, payload/ and ROLLBACK-COMPLETE.json of one quarantine.
Quarantine ==
    [receipt : Tree \cup {None}, payload : Tree \cup {None}, complete : BOOLEAN]

ASSUME SeedSetupAssumption ==
    /\ None \notin Locks \cup Labels
    /\ None \notin Tree
    /\ None \notin Transaction
    /\ None \notin Quarantine
    /\ MaxCrashes \in Nat

Commands == {"prepare", "activate", "rollback"}

\* Where a command stands: the next file-system step it takes.
PrepareSteps  == {"prepare", "consider", "open", "fetch", "place", "receipt", "close"}
RollbackSteps == {"rollback", "mkdir", "archive", "announce", "reread", "check",
                  "move", "unreceipt", "untransact", "complete"}
ActivateSteps == {"activate", "known", "claim", "stake", "look", "copy", "copying",
                  "verify", "rename", "certify", "settle"}
Steps == {"idle"} \cup PrepareSteps \cup RollbackSteps \cup ActivateSteps

\* One command: --lock and --label of its command line, the receipt it has read.
Run ==
    {r \in [pc : Steps, lock : Locks \cup {None}, label : Labels \cup {None},
            receipt : Tree \cup {None}] :
        /\ r.pc # "idle" => r.lock \in Locks
        /\ r.pc \in RollbackSteps => r.label \in Labels
        /\ r.pc \in {"mkdir", "archive", "announce"} \cup (ActivateSteps \ {"activate"}) =>
               r.receipt \in Tree}

Idle == [pc |-> "idle", lock |-> None, label |-> None, receipt |-> None]

Outcomes == {"nothing", "refused", "killed", "already-ready", "prepared",
             "already-active", "activated", "rolled-back", "unlike-seed"}

ValidatesBug(receipt, l, tree) ==
    receipt # None /\ receipt.lock = l /\ tree # None /\ tree.lock = l

\* verify_seed_executable and the lock and inventory checks of validate_receipt.
Validates(receipt, l, tree) ==
    /\ receipt # None
    /\ receipt.lock = l
    /\ tree # None
    /\ tree = receipt

------------------------------------------------------------------------------
Init ==
    /\ seed = None /\ seedReceipt = None /\ seedTxn = None
    /\ quarantine = [q \in Labels |-> None]
    /\ client = None /\ staging = None
    /\ clientReceipt = None /\ clientTxn = None
    /\ run = [p \in Procs |-> Idle]
    /\ said = [p \in Procs |-> "nothing"]
    /\ crashes = 0

At(p, step) == run[p].pc = step

Goto(p, step) == run' = [run EXCEPT ![p].pc = step] /\ UNCHANGED said

\* The process exits: its locals are gone, its report remains.
Exit(p, outcome) ==
    /\ run' = [run EXCEPT ![p] = Idle]
    /\ said' = [said EXCEPT ![p] = outcome]

\* main(): a command line is typed.
Begin(p, command, l, q) ==
    /\ At(p, "idle")
    /\ run' = [run EXCEPT ![p] = [pc |-> command, lock |-> l, receipt |-> None,
                                  label |-> IF command = "rollback" THEN q ELSE None]]
    /\ said' = [said EXCEPT ![p] = "nothing"]
    /\ UNCHANGED <<seedFiles, clientFiles, crashes>>

\* A kill, a power loss, or an OSError that no handler of these commands undoes.
Crash(p) ==
    /\ ~At(p, "idle")
    /\ crashes < MaxCrashes
    /\ crashes' = crashes + 1
    /\ Exit(p, "killed")
    /\ UNCHANGED <<seedFiles, clientFiles>>

------------------------------------------------------------------------------
(* prepare *)

\* A receipt ends the command before the transaction is even looked at.
PrepareReceipted(p) ==
    /\ At(p, "prepare")
    /\ IF seedReceipt = None THEN Goto(p, "consider")
       ELSE Exit(p, IF Validates(seedReceipt, run[p].lock, seed)
                    THEN "already-ready" ELSE "refused")
    /\ UNCHANGED <<seedFiles, clientFiles, crashes>>

PrepareConsider(p) ==
    /\ At(p, "consider")
    /\ LET ours == seedTxn # None /\ seedTxn.kind = "prepare" /\ seedTxn.lock = run[p].lock
       IN  \/ seedTxn # None /\ ~ours /\ Exit(p, "refused")
           \/ ours /\ seed # None /\ Goto(p, "receipt")
           \/ ours /\ seed = None /\ Goto(p, "fetch")
           \/ seedTxn = None /\ seed # None /\ Exit(p, "refused")
           \/ seedTxn = None /\ seed = None /\ Goto(p, "open")
    /\ UNCHANGED <<seedFiles, clientFiles, crashes>>

PrepareOpen(p) ==
    /\ At(p, "open")
    /\ seedTxn' = [kind |-> "prepare", lock |-> run[p].lock, label |-> None]
    /\ Goto(p, "fetch")
    /\ UNCHANGED <<seed, seedReceipt, quarantine, clientFiles, crashes>>

\* Download or open the archive, and extract it into a private staging
\* directory; any error removes that directory again.
PrepareFetch(p) ==
    /\ At(p, "fetch")
    /\ \/ Exit(p, "refused")
       \/ seed = None /\ Goto(p, "place")
    /\ UNCHANGED <<seedFiles, clientFiles, crashes>>

\* os.replace of a directory fails on a destination that is not empty.
PreparePlace(p) ==
    /\ At(p, "place")
    /\ IF seed = None
       THEN seed' = [lock |-> run[p].lock, form |-> "exact"] /\ Goto(p, "receipt")
       ELSE Exit(p, "refused") /\ UNCHANGED seed
    /\ UNCHANGED <<seedReceipt, seedTxn, quarantine, clientFiles, crashes>>

\* The receipt takes the inventory found on the disk; only the executable is
\* compared with the lock.
PrepareReceipt(p) ==
    /\ At(p, "receipt")
    /\ IF seed # None /\ seed.lock = run[p].lock
       THEN seedReceipt' = seed /\ Goto(p, "close")
       ELSE Exit(p, "refused") /\ UNCHANGED seedReceipt
    /\ UNCHANGED <<seed, seedTxn, quarantine, clientFiles, crashes>>

PrepareClose(p) ==
    /\ At(p, "close")
    /\ seedTxn' = None
    /\ Exit(p, "prepared")
    /\ UNCHANGED <<seed, seedReceipt, quarantine, clientFiles, crashes>>

------------------------------------------------------------------------------
(* rollback *)

RollbackRead(p) ==
    /\ At(p, "rollback")
    /\ \/ /\ seedTxn # None
          /\ IF seedTxn.kind = "rollback" /\ seedTxn.lock = run[p].lock
             THEN /\ run' = [run EXCEPT ![p].pc = "check", ![p].label = seedTxn.label]
                  /\ UNCHANGED said
             ELSE Exit(p, "refused")
       \/ /\ seedTxn = None
          /\ IF Validates(seedReceipt, run[p].lock, seed)
             THEN /\ run' = [run EXCEPT ![p].pc = "mkdir", ![p].receipt = seedReceipt]
                  /\ UNCHANGED said
             ELSE Exit(p, "refused")
    /\ UNCHANGED <<seedFiles, clientFiles, crashes>>

\* A quarantine of the same label is begun anew.
RollbackMkdirBug(p) ==
    /\ At(p, "mkdir")
    /\ quarantine' = [quarantine EXCEPT ![run[p].label] =
                        [receipt |-> None, payload |-> None, complete |-> FALSE]]
    /\ Goto(p, "archive")
    /\ UNCHANGED <<seed, seedReceipt, seedTxn, clientFiles, crashes>>

RollbackMkdir(p) ==
    /\ At(p, "mkdir")
    /\ IF quarantine[run[p].label] = None
       THEN /\ quarantine' = [quarantine EXCEPT ![run[p].label] =
                                [receipt |-> None, payload |-> None, complete |-> FALSE]]
            /\ Goto(p, "archive")
       ELSE Exit(p, "refused") /\ UNCHANGED quarantine
    /\ UNCHANGED <<seed, seedReceipt, seedTxn, clientFiles, crashes>>

RollbackArchive(p) ==
    /\ At(p, "archive")
    /\ quarantine' = [quarantine EXCEPT ![run[p].label].receipt = run[p].receipt]
    /\ Goto(p, "announce")
    /\ UNCHANGED <<seed, seedReceipt, seedTxn, clientFiles, crashes>>

\* The move starts without a transaction on record.
RollbackAnnounceBug(p) ==
    /\ At(p, "announce")
    /\ Goto(p, "check")
    /\ UNCHANGED <<seedFiles, clientFiles, crashes>>

\* atomic_json replaces whatever transaction is there by now.
RollbackAnnounce(p) ==
    /\ At(p, "announce")
    /\ seedTxn' = [kind |-> "rollback", lock |-> run[p].lock, label |-> run[p].label]
    /\ Goto(p, "reread")
    /\ UNCHANGED <<seed, seedReceipt, quarantine, clientFiles, crashes>>

RollbackReread(p) ==
    /\ At(p, "reread")
    /\ IF seedTxn # None /\ seedTxn.kind = "rollback" /\ seedTxn.lock = run[p].lock
       THEN /\ run' = [run EXCEPT ![p].pc = "check", ![p].label = seedTxn.label]
            /\ UNCHANGED said
       ELSE Exit(p, "refused")
    /\ UNCHANGED <<seedFiles, clientFiles, crashes>>

\* A receipt that an earlier attempt already removed is not tolerated.
RollbackCheckBug(p) ==
    /\ At(p, "check")
    /\ LET archived == quarantine[run[p].label] IN
       IF archived # None /\ archived.receipt # None /\ seedReceipt = archived.receipt
       THEN Goto(p, IF seed # None THEN "move" ELSE "unreceipt")
       ELSE Exit(p, "refused")
    /\ UNCHANGED <<seedFiles, clientFiles, crashes>>

\* finish_rollback up to its first change: the active receipt is the archived
\* one or gone, exactly one of client-seed and payload exists, and that one
\* matches the archived receipt.
RollbackCheck(p) ==
    /\ At(p, "check")
    /\ LET archived == quarantine[run[p].label]
           sound == /\ archived # None
                    /\ archived.receipt # None
                    /\ seedReceipt \in {None, archived.receipt}
                    /\ (seed = None) # (archived.payload = None)
                    /\ Validates(archived.receipt, run[p].lock,
                                 IF seed # None THEN seed ELSE archived.payload)
       IN  IF sound THEN Goto(p, IF seed # None THEN "move" ELSE "unreceipt")
                    ELSE Exit(p, "refused")
    /\ UNCHANGED <<seedFiles, clientFiles, crashes>>

RollbackMove(p) ==
    /\ At(p, "move")
    /\ IF seed # None /\ quarantine[run[p].label].payload = None
       THEN /\ quarantine' = [quarantine EXCEPT ![run[p].label].payload = seed]
            /\ seed' = None
            /\ Goto(p, "unreceipt")
       ELSE Exit(p, "refused") /\ UNCHANGED <<seed, quarantine>>
    /\ UNCHANGED <<seedReceipt, seedTxn, clientFiles, crashes>>

RollbackUnreceipt(p) ==
    /\ At(p, "unreceipt")
    /\ seedReceipt' = None
    /\ Goto(p, "untransact")
    /\ UNCHANGED <<seed, seedTxn, quarantine, clientFiles, crashes>>

RollbackUntransact(p) ==
    /\ At(p, "untransact")
    /\ seedTxn' = None
    /\ Goto(p, "complete")
    /\ UNCHANGED <<seed, seedReceipt, quarantine, clientFiles, crashes>>

RollbackComplete(p) ==
    /\ At(p, "complete")
    /\ quarantine' = [quarantine EXCEPT ![run[p].label].complete = TRUE]
    /\ Exit(p, "rolled-back")
    /\ UNCHANGED <<seed, seedReceipt, seedTxn, clientFiles, crashes>>

------------------------------------------------------------------------------
(* activate *)

ActivateSeed(p) ==
    /\ At(p, "activate")
    /\ IF seedTxn = None /\ Validates(seedReceipt, run[p].lock, seed)
       THEN /\ run' = [run EXCEPT ![p].pc = "known", ![p].receipt = seedReceipt]
            /\ UNCHANGED said
       ELSE Exit(p, "refused")
    /\ UNCHANGED <<seedFiles, clientFiles, crashes>>

ActivateKnown(p) ==
    /\ At(p, "known")
    /\ IF clientReceipt = None THEN Goto(p, "claim")
       ELSE Exit(p, IF clientReceipt = run[p].receipt /\ client # None
                    THEN "already-active" ELSE "refused")
    /\ UNCHANGED <<seedFiles, clientFiles, crashes>>

ActivateClaim(p) ==
    /\ At(p, "claim")
    /\ \/ clientTxn = run[p].lock /\ Goto(p, "look")
       \/ clientTxn \notin {None, run[p].lock} /\ Exit(p, "refused")
       \/ clientTxn = None /\ client = None /\ staging = None /\ Goto(p, "stake")
       \/ clientTxn = None /\ ~(client = None /\ staging = None) /\ Exit(p, "refused")
    /\ UNCHANGED <<seedFiles, clientFiles, crashes>>

ActivateStake(p) ==
    /\ At(p, "stake")
    /\ clientTxn' = run[p].lock
    /\ Goto(p, "look")
    /\ UNCHANGED <<seedFiles, client, staging, clientReceipt, crashes>>

ActivateLook(p) ==
    /\ At(p, "look")
    /\ \/ client # None /\ staging # None /\ Exit(p, "refused")
       \/ client # None /\ staging = None /\ Goto(p, "certify")
       \/ client = None /\ staging = None /\ Goto(p, "copy")
       \/ client = None /\ staging # None /\ Goto(p, "verify")
    /\ UNCHANGED <<seedFiles, clientFiles, crashes>>

\* shutil.copytree creates its destination and refuses one that exists.
ActivateCopy(p) ==
    /\ At(p, "copy")
    /\ IF seed # None /\ staging = None
       THEN staging' = As("partial", seed) /\ Goto(p, "copying")
       ELSE Exit(p, "refused") /\ UNCHANGED staging
    /\ UNCHANGED <<seedFiles, client, clientReceipt, clientTxn, crashes>>

\* The copy ends, or stops half way when the disk is full, the seed is moved
\* away under it or the staging directory is renamed by another command.
ActivateCopied(p) ==
    /\ At(p, "copying")
    /\ \/ /\ seed # None /\ staging = As("partial", seed)
          /\ staging' = seed
          /\ Goto(p, "verify")
       \/ Exit(p, "refused") /\ UNCHANGED staging
    /\ UNCHANGED <<seedFiles, client, clientReceipt, clientTxn, crashes>>

ActivateVerify(p) ==
    /\ At(p, "verify")
    /\ IF staging = run[p].receipt THEN Goto(p, "rename") ELSE Exit(p, "unlike-seed")
    /\ UNCHANGED <<seedFiles, clientFiles, crashes>>

ActivateRename(p) ==
    /\ At(p, "rename")
    /\ IF staging # None /\ client = None
       THEN client' = staging /\ staging' = None /\ Goto(p, "certify")
       ELSE Exit(p, "refused") /\ UNCHANGED <<client, staging>>
    /\ UNCHANGED <<seedFiles, clientReceipt, clientTxn, crashes>>

\* Whatever is found in base/client is certified.
ActivateCertifyBug(p) ==
    /\ At(p, "certify")
    /\ clientReceipt' = run[p].receipt
    /\ Goto(p, "settle")
    /\ UNCHANGED <<seedFiles, client, staging, clientTxn, crashes>>

\* finish_client_activation compares the promoted tree once more.
ActivateCertify(p) ==
    /\ At(p, "certify")
    /\ IF client = run[p].receipt
       THEN clientReceipt' = run[p].receipt /\ Goto(p, "settle")
       ELSE Exit(p, "unlike-seed") /\ UNCHANGED clientReceipt
    /\ UNCHANGED <<seedFiles, client, staging, clientTxn, crashes>>

ActivateSettle(p) ==
    /\ At(p, "settle")
    /\ clientTxn' = None
    /\ Exit(p, "activated")
    /\ UNCHANGED <<seedFiles, client, staging, clientReceipt, crashes>>

------------------------------------------------------------------------------
(* status: a query, with the --lock of its command line *)

Status(l) ==
    IF seedTxn # None THEN "recovery-required"
    ELSE IF seedReceipt = None THEN "not-prepared"
    ELSE IF Validates(seedReceipt, l, seed) THEN "ready" ELSE "invalid"

------------------------------------------------------------------------------
(* The world around the tool *)

AllIdle == \A p \in Procs : At(p, "idle")

\* Valve's client updates itself as soon as it is started; starting it needs no
\* activation receipt.
SteamUpdates ==
    /\ client # None
    /\ client' = As("updated", client)
    /\ UNCHANGED <<seedFiles, staging, clientReceipt, clientTxn, run, said, crashes>>

\* The user already has a client of their own.
UserInstallsClient ==
    /\ AllIdle /\ client = None
    /\ \E l \in Locks : client' = [lock |-> l, form |-> "updated"]
    /\ UNCHANGED <<seedFiles, staging, clientReceipt, clientTxn, run, said, crashes>>

\* Someone edits the seed between two commands.
SeedEdited ==
    /\ AllIdle /\ seed # None
    /\ seed' = As("edited", seed)
    /\ UNCHANGED <<seedReceipt, seedTxn, quarantine, clientFiles, run, said, crashes>>

World == SteamUpdates \/ UserInstallsClient \/ SeedEdited

Prepare(p) ==
    \/ PrepareReceipted(p) \/ PrepareConsider(p) \/ PrepareOpen(p) \/ PrepareFetch(p)
    \/ PreparePlace(p) \/ PrepareReceipt(p) \/ PrepareClose(p)

Rollback(p) ==
    \/ RollbackRead(p) \/ RollbackMkdir(p) \/ RollbackArchive(p) \/ RollbackAnnounce(p)
    \/ RollbackReread(p) \/ RollbackCheck(p) \/ RollbackMove(p) \/ RollbackUnreceipt(p)
    \/ RollbackUntransact(p) \/ RollbackComplete(p)

Activate(p) ==
    \/ ActivateSeed(p) \/ ActivateKnown(p) \/ ActivateClaim(p) \/ ActivateStake(p)
    \/ ActivateLook(p) \/ ActivateCopy(p) \/ ActivateCopied(p) \/ ActivateVerify(p)
    \/ ActivateRename(p) \/ ActivateCertify(p) \/ ActivateSettle(p)

Command(p) == Prepare(p) \/ Rollback(p) \/ Activate(p)

Next ==
    \/ \E p \in Procs, c \in Commands, l \in Locks, q \in Labels : Begin(p, c, l, q)
    \/ \E p \in Procs : Command(p) \/ Crash(p)
    \/ World

Spec == Init /\ [][Next]_vars
------------------------------------------------------------------------------
(* Properties *)

TypeOK ==
    /\ seed \in Tree \cup {None}
    /\ seedReceipt \in Tree \cup {None}
    /\ seedTxn \in Transaction \cup {None}
    /\ quarantine \in [Labels -> Quarantine \cup {None}]
    /\ client \in Tree \cup {None}
    /\ staging \in Tree \cup {None}
    /\ clientReceipt \in Tree \cup {None}
    /\ clientTxn \in Locks \cup {None}
    /\ run \in [Procs -> Run]
    /\ said \in [Procs -> Outcomes]
    /\ crashes \in Nat

Payload(q) == IF quarantine[q] = None THEN None ELSE quarantine[q].payload

RollingBack == seedTxn # None /\ seedTxn.kind = "rollback"
Preparing   == seedTxn # None /\ seedTxn.kind = "prepare"

\* Whatever step a kill falls on, a seed receipt never outlives its tree: the
\* seed it describes is in place, or a rollback is on record whose quarantine
\* holds exactly that tree (activate trusts the receipt for this).
SeedReceiptSound ==
    seedReceipt # None =>
        \/ seed # None /\ seed.lock = seedReceipt.lock
        \/ RollingBack /\ quarantine[seedTxn.label].payload = seedReceipt

\* A rollback transaction on record always leads finish_rollback to a tree it can
\* act on: the archived receipt exists and agrees with the active one, and the
\* tree is in exactly one of the two places, unmoved or moved, never in both.
RollbackResumable ==
    RollingBack =>
        LET archived == quarantine[seedTxn.label] IN
        /\ archived # None /\ archived.receipt # None
        /\ archived.receipt.lock = seedTxn.lock
        /\ seedReceipt \in {None, archived.receipt}
        /\ (seed = None) # (archived.payload = None)

\* "rollback refuses modified trees": what a quarantine holds is the tree its
\* receipt describes, and a quarantine marked complete does hold one.
QuarantineExact ==
    \A q \in Labels : quarantine[q] # None =>
        /\ quarantine[q].payload \in {None, quarantine[q].receipt}
        /\ quarantine[q].complete => quarantine[q].payload # None

\* activate, at any interleaving, never replaces or removes a client that exists:
\* whatever is in base/client stays there until Valve's own updater changes it.
ClientNeverReplaced ==
    [][client # None => client' = client \/ client' = As("updated", client)]_vars

\* No command destroys a seed: a tree that leaves client-seed has become the
\* payload of a quarantine that held none, and no payload is ever replaced.
SeedNeverLost ==
    [][/\ seed # None /\ seed' = None =>
             \E q \in Labels : Payload(q) = None /\ Payload(q)' = seed
       /\ \A q \in Labels : Payload(q) # None => Payload(q)' = Payload(q)]_vars

\* A client is certified only while it is the tree the seed receipt describes.
ClientReceiptSound ==
    clientReceipt # None =>
        client # None /\ client \in {clientReceipt, As("updated", client)}
        /\ client.lock = clientReceipt.lock

\* What status says, under any lock, is never for what a killed or repeated command has left:
\* a seed is invalid only when somebody has edited it or the lock is not the one it was prepared
\* with, and "not-prepared" means that there is none (an unreceipted one stops prepare).
StatusTells ==
    \A l \in Locks :
        /\ Status(l) = "invalid" => seed # None /\ (seedReceipt.lock # l \/ seed.form = "edited")
        /\ Status(l) = "not-prepared" => seed = None

\* The files on disk agree with one another whatever step a kill falls on: the receipts of the
\* seed and of the client, a rollback on record and the quarantines.
SeedSafe == SeedReceiptSound /\ RollbackResumable /\ QuarantineExact /\ ClientReceiptSound

\* Neither a seed, a quarantined one or a client is destroyed, by commands that follow, repeat
\* or cross one another.
NothingDestroyed == ClientNeverReplaced /\ SeedNeverLost

\* The single-run refinement: under kills at any step, prepare installs a seed in
\* one step (the receipt's rename) and rollback retires it in one step (the
\* payload's rename); every other step of the two commands is invisible.
Installed == IF seed # None THEN seedReceipt ELSE None

Lifecycle == INSTANCE SeedLifecycle
    WITH Seeds <- Tree, Archives <- Labels, installed <- Installed,
         archive <- [q \in Labels |-> Payload(q)]

ImplementsLifecycle == Lifecycle!Spec

------------------------------------------------------------------------------
(* Liveness: a killed process is not restarted by anything; the user types the  *)
(* same command again (docs/PACKAGING.md: "the same command resumes").          *)

Resume(p) == \E q \in Labels : seedTxn # None /\ Begin(p, seedTxn.kind, seedTxn.lock, q)

FairSpec ==
    /\ Spec
    /\ \A p \in Procs : /\ WF_vars(Command(p)) /\ SF_vars(PrepareFetch(p) /\ At(p, "place")')
                        /\ SF_vars(Resume(p))

\* An interrupted rollback ends: once announced, re-running rollback takes the
\* transaction off the record, unless the seed was edited meanwhile.
RollbackResumes == RollingBack ~> (~RollingBack \/ (seed # None /\ seed.form = "edited"))

\* A prepare on record gets as far as its receipt. This is less than a resumption: see below.
PrepareArrives == Preparing ~> seedReceipt # None

\* What repeating an interrupted command is good for: a rollback ends, a prepare has a receipt.
Resumes == RollbackResumes /\ PrepareArrives

\* docs/PACKAGING.md:47-48, of prepare: "An interrupted prepare or rollback retains a durable
\* transaction that the same command resumes". One that was killed between its receipt and the
\* removal of its transaction is not: prepare answers already-ready before it looks at the
\* transaction, which nothing removes, and for which rollback and activate refuse.
PrepareResumes == Preparing ~> (~Preparing \/ (seed # None /\ seed.form = "edited"))

==============================================================================
