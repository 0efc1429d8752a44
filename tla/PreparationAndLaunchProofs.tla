------------------------ MODULE PreparationAndLaunchProofs ------------------------
(***************************************************************************)
(* Proofs about what is prepared before a game is started                  *)
(* (MCGamePreparation): the files of Proton and of the game, the settings  *)
(* files, the packages, the seed of the client, the tree of the runtime,   *)
(* the cache of DXVK and the shared-memory files, each for any number of   *)
(* commands, of updates and of acts of others.                             *)
(*                                                                         *)
(* Then, on its own, proofs about the launchers that keep a game in the    *)
(* foreground (ForegroundLaunch), for any number of controllers and        *)
(* faults.                                                                 *)
(***************************************************************************)
EXTENDS MCGamePreparation, ForegroundLaunch, SequenceTheorems, TLAPS

-----------------------------------------------------------------------------
(* The files of Proton and of the game *)

ProtonSteps ==
    {"state", "prepare", "check", "restore", "digest", "backup", "stage", "install", "verify",
     "identify", "record", "putback", "end", "running", "source", "build", "setaside", "upgradetool", "droptool", "installtool",
     "candidate", "openvr", "copyopenvr", "keepopenvr", "putopenvr", "seeopenvr", "xinput",
     "putxinput"}

ProtonBusy ==
    [on : {TRUE}, tool : {"wine", "nms"}, verb : {"prepare", "check", "restore"},
     at : ProtonSteps, t : Proton!Exes, read : Proton!Exe \cup {None},
     staged : Proton!Exe \cup {None}, records : Proton!Records, late : BOOLEAN]

ProtonCommand == {Proton!Idle} \cup ProtonBusy

NmsFiles ==
    [tool : {"none", "legacy", "good"}, toolBackup : BOOLEAN, candidate : BOOLEAN,
     openvr : {"none", "stock", "other", "stub"}, openvrBackup : {"none", "stock", "other", "stub"},
     openvrNew : BOOLEAN, owned : {"stock", "other"}, xinput : SUBSET Proton!Dlls,
     xinputNew : SUBSET Proton!Dlls]

\* The types, in full; Steam's versions are counted by its updates.
ProtonTypes ==
    /\ updates \in 0..MaxUpdates /\ version \in 1..(updates + 1)
    /\ exe \in [Proton!Exes -> Proton!Exe]
    /\ backups \subseteq Proton!Exes \X Proton!Exe
    /\ state \in Proton!Records /\ nms \in NmsFiles
    /\ steam \in {"on", "off"} /\ torn \subseteq 0..Targets
    /\ proc \in [Procs -> ProtonCommand]

\* The version that is installed is kept, or was written under a command's hands.
VersionKept(t) == t \in torn \/ <<t, Proton!Original(version)>> \in backups

\* An executable is Steam's, or what Steam installed last is kept.
ExesKept == \A t \in Proton!Exes :
    VersionKept(t) \/ exe[t] = Proton!Original(version)

\* What a record says, it says of the file and the backup that are there.
Matches(t, m) ==
    /\ exe[t] = [of |-> m.patched, is |-> "patched"]
    /\ <<t, m.of>> \in backups
SeenMatch(records) ==
    \A t \in Proton!Exes :
        records[t] # None /\ records[t].seen = "same" => Matches(t, records[t])

\* What a command of the first tool knows of the executable it has in hand.
WineKnows(p) ==
    proc[p].tool = "wine" =>
        /\ proc[p].at \in {"state", "prepare", "check", "restore", "digest", "backup", "stage",
                           "install", "verify", "identify", "record", "putback", "end"}
        /\ proc[p].at = "state" => proc[p].t = 1
        /\ proc[p].at \in {"state", "prepare"} => proc[p].staged = None
        /\ proc[p].at \in {"prepare", "digest", "backup", "stage", "install", "verify",
                           "identify", "record"} => proc[p].verb = "prepare"
        /\ proc[p].at = "check" => proc[p].verb = "check"
        /\ proc[p].at \in {"restore", "putback"} => proc[p].verb = "restore"
        /\ proc[p].at \in {"backup", "stage", "install", "verify"} => proc[p].read \in Proton!Exe
        /\ proc[p].at = "backup" =>
               VersionKept(proc[p].t) \/ proc[p].read = Proton!Original(version)
        /\ proc[p].at \in {"stage", "install", "putback"} => VersionKept(proc[p].t)
        /\ proc[p].at \in {"stage", "install", "verify"} => <<proc[p].t, proc[p].read>> \in backups
        /\ proc[p].at \in {"install", "verify"} =>
               proc[p].staged \in Proton!Exe /\ proc[p].staged.is = "patched"
        /\ proc[p].at = "identify" =>
               \/ /\ proc[p].staged = None /\ proc[p].records[proc[p].t] # None
                  /\ <<proc[p].t, proc[p].records[proc[p].t].of>> \in backups
               \/ /\ proc[p].staged \in Proton!Exe /\ proc[p].staged # None
                  /\ proc[p].read \in Proton!Exe /\ <<proc[p].t, proc[p].read>> \in backups
        /\ proc[p].at = "putback" => proc[p].records[proc[p].t] # None

\* The executables a command is done with.
DoneWith(p) ==
    {t \in Proton!Exes : \/ t < proc[p].t \/ proc[p].at = "end"
                         \/ proc[p].at = "record" /\ t = proc[p].t}
\* The record of one it has passed: true, or with the identities of another file.
Owed(verb, t, m) ==
    /\ m # None
    /\ \/ Matches(t, m)
       \/ verb = "prepare" /\ m.seen = "other"
Finished(p, t) ==
    IF proc[p].verb = "restore" THEN exe[t].is = "original"
    ELSE Owed(proc[p].verb, t, proc[p].records[t])

\* A command beside which nobody wrote has done what it has passed.
WineDone(p) ==
    proc[p].tool = "wine" /\ ~proc[p].late /\ proc[p].at # "state" =>
        /\ \A t \in DoneWith(p) : Finished(p, t)
        /\ proc[p].verb = "check" => proc[p].records = state

\* The second tool: where it is, what is made.
NmsDone(p) ==
    proc[p].tool = "nms" /\ ~proc[p].late =>
        /\ proc[p].at \in {"candidate", "droptool", "openvr", "copyopenvr", "keepopenvr",
                           "putopenvr", "seeopenvr", "xinput", "putxinput", "end"}
               => Proton!Contained
        /\ proc[p].at \in {"openvr", "copyopenvr", "keepopenvr", "putopenvr", "seeopenvr",
                           "xinput", "putxinput", "end"} => nms.candidate
        /\ proc[p].at \in {"xinput", "putxinput", "end"} => Proton!GameOpenvr
        /\ proc[p].at = "end" => Proton!GameXInput

OwnedKept == 0 \in torn \/ nms.owned \in {nms.openvr, nms.openvrBackup}
NmsKnows(p) ==
    proc[p].tool = "nms" =>
        /\ proc[p].at \in {"running", "source", "build", "setaside", "upgradetool", "droptool",
                           "installtool", "candidate", "openvr", "copyopenvr", "keepopenvr",
                           "putopenvr", "seeopenvr", "xinput", "putxinput", "check", "end"}
        /\ proc[p].at \in {"copyopenvr", "keepopenvr"} => 0 \in torn \/ nms.owned = nms.openvr
        /\ proc[p].at = "putopenvr" => 0 \in torn \/ nms.owned = nms.openvrBackup

OneNms == \A p, q \in Proton!Active : proc[p].tool = "nms" /\ proc[q].tool = "nms" => p = q

Knows(p) ==
    proc[p].on => /\ SeenMatch(proc[p].records) /\ WineKnows(p) /\ WineDone(p)
                  /\ NmsDone(p) /\ NmsKnows(p)

ProtonInv ==
    /\ ProtonTypes /\ ExesKept /\ OwnedKept /\ OneNms /\ SeenMatch(state)
    /\ \A p \in Procs : Knows(p)

-----------------------------------------------------------------------------
(* What a step of a command does to the others *)

\* Nobody but p moves, and nothing that is shared is written.
Private(p) ==
    /\ \A q \in Procs \ {p} : proc'[q] = proc[q]
    /\ UNCHANGED <<exe, state, nms>>

\* Something is written, of the executables at most those of ts, and everybody else is told.
Told(q, ts) ==
    proc'[q] = IF proc[q].on
               THEN [proc[q] EXCEPT !.late = TRUE,
                                    !.records = Proton!Unseen(proc[q].records, ts)]
               ELSE proc[q]
Public(p) ==
    \E ts \in SUBSET Proton!Exes :
        /\ \A t \in Proton!Exes \ ts : exe'[t] = exe[t]
        /\ \A q \in Procs \ {p} : Told(q, ts)

ProtonActs(p) == Proton!Begin(p) \/ Proton!Wine(p) \/ Proton!Nms(p) \/ Proton!Fails(p)

LEMMA ProtonConstants ==
    /\ Targets \in Nat \ {0} /\ MaxRuns \in Nat /\ MaxUpdates \in Nat
    /\ None \notin Procs /\ None \notin Proton!Record /\ None \notin Proton!Exe
    BY PreparationAssumption DEF PreparationAssumption, Proton!ProtonFilesAssumption

\* A command in its place in the table is a command; what it was handed, it is.
LEMMA PutCommand ==
    ASSUME ProtonTypes, NEW p \in Procs, NEW mine \in ProtonCommand,
           proc' = [proc EXCEPT ![p] = mine]
    PROVE  /\ proc' \in [Procs -> ProtonCommand] /\ proc'[p] = mine
           /\ \A q \in Procs \ {p} : proc'[q] = proc[q]
    BY DEF ProtonTypes

LEMMA UnseenRecords ==
    ASSUME NEW records \in Proton!Records, NEW ts
    PROVE  /\ Proton!Unseen(records, ts) \in Proton!Records
           /\ \A t \in Proton!Exes :
                  LET r == Proton!Unseen(records, ts)[t] IN
                  /\ (r = None) <=> (records[t] = None)
                  /\ r # None => r.of = records[t].of /\ r.patched = records[t].patched
                  /\ r # None /\ r.seen # "no" => t \notin ts /\ r = records[t]
    <1>. DEFINE u == Proton!Unseen(records, ts)
    <1>1. ASSUME NEW t \in Proton!Exes, t \in ts, records[t] # None
          PROVE  /\ u[t] = [records[t] EXCEPT !.seen = "no"] /\ u[t] \in Proton!Record
                 /\ u[t].of = records[t].of /\ u[t].patched = records[t].patched
                 /\ u[t].seen = "no" /\ u[t] # None
        <2>1. records[t] \in Proton!Record
            BY <1>1 DEF Proton!Records
        <2>2. u[t] = [records[t] EXCEPT !.seen = "no"]
            BY <1>1 DEF Proton!Unseen
        <2>. QED BY <2>1, <2>2, ProtonConstants DEF Proton!Record
    <1>2. ASSUME NEW t \in Proton!Exes, ~(t \in ts /\ records[t] # None)
          PROVE  u[t] = records[t]
        BY <1>2 DEF Proton!Unseen
    <1>3. u \in Proton!Records
        <2>1. \A t \in Proton!Exes : u[t] \in Proton!Record \cup {None}
            BY <1>1, <1>2 DEF Proton!Records
        <2>2. u = [t \in Proton!Exes |-> u[t]]
            BY DEF Proton!Unseen
        <2>. QED BY <2>1, <2>2 DEF Proton!Records
    <1>. QED BY <1>1, <1>2, <1>3

LEMMA WroteCommand ==
    ASSUME ProtonTypes, NEW p, NEW mine \in ProtonCommand, NEW ts \in SUBSET Proton!Exes,
           proc' = Proton!Wrote(p, ts, mine)
    PROVE  /\ proc' \in [Procs -> ProtonCommand]
           /\ p \in Procs => proc'[p] = mine
           /\ \A q \in Procs \ {p} : Told(q, ts)
    <1>1. \A q \in Procs \ {p} : Told(q, ts)
        BY DEF Proton!Wrote, Told
    <1>2. p \in Procs => proc'[p] = mine
        BY DEF Proton!Wrote
    <1>3. ASSUME NEW q \in Procs \ {p}
          PROVE  proc'[q] \in ProtonCommand
        <2>1. CASE proc[q].on
            <3>1. proc[q] \in ProtonBusy
                BY <2>1 DEF ProtonTypes, ProtonCommand, Proton!Idle
            <3>2. Proton!Unseen(proc[q].records, ts) \in Proton!Records
                BY <3>1, UnseenRecords DEF ProtonBusy
            <3>3. proc'[q] = [proc[q] EXCEPT !.late = TRUE,
                                  !.records = Proton!Unseen(proc[q].records, ts)]
                BY <1>1, <2>1 DEF Told
            <3>4. proc'[q] \in ProtonBusy
                BY <3>1, <3>2, <3>3 DEF ProtonBusy
            <3>. QED BY <3>4 DEF ProtonCommand
        <2>2. CASE ~proc[q].on
            BY <1>1, <2>2 DEF Told, ProtonTypes
        <2>. QED BY <2>1, <2>2
    <1>4. \A q \in Procs : proc'[q] \in ProtonCommand
        BY <1>2, <1>3
    <1>. QED BY <1>1, <1>2, <1>4 DEF Proton!Wrote

\* A command that is on has the fields of one.
LEMMA BusyFields ==
    ASSUME ProtonTypes, NEW p \in Procs, proc[p].on
    PROVE  proc[p] \in ProtonBusy
    BY DEF ProtonTypes, ProtonCommand, Proton!Idle

-----------------------------------------------------------------------------
(* One step of a command, as far as it is about that command *)

FilesStay == UNCHANGED <<version, exe, backups, state, nms, steam, updates, torn>>

\* What every step of a command p establishes.
Good(p) ==
    /\ ProtonTypes' /\ ExesKept' /\ OwnedKept' /\ SeenMatch(state)' /\ Knows(p)'
    /\ UNCHANGED <<version, torn>> /\ backups \subseteq backups'
    /\ Private(p) \/ Public(p)
    /\ Proton!Begin(p) \/ (proc'[p].on => proc[p].on /\ proc'[p].tool = proc[p].tool)

LEMMA SharedStays ==
    ASSUME ProtonInv, FilesStay
    PROVE  ExesKept' /\ OwnedKept' /\ SeenMatch(state)'
    BY DEF ProtonInv, FilesStay, ExesKept, OwnedKept, SeenMatch, VersionKept, Matches

\* A command that only changes itself.
LEMMA OwnChange ==
    ASSUME ProtonInv, NEW p \in Procs, NEW mine \in ProtonCommand, FilesStay,
           proc' = [proc EXCEPT ![p] = mine], mine.on => proc[p].on /\ mine.tool = proc[p].tool,
           mine.on => Knows(p)'
    PROVE  Good(p) /\ proc'[p] = mine
    <1>1. /\ proc' \in [Procs -> ProtonCommand] /\ proc'[p] = mine
          /\ \A q \in Procs \ {p} : proc'[q] = proc[q]
        BY PutCommand DEF ProtonInv
    <1>2. ProtonTypes'
        BY <1>1 DEF ProtonInv, ProtonTypes, FilesStay
    <1>3. Private(p)
        BY <1>1 DEF Private, FilesStay
    <1>4. Knows(p)'
        BY <1>1 DEF Knows
    <1>. QED BY <1>1, <1>2, <1>3, <1>4, SharedStays DEF Good, FilesStay

LEMMA EndsGood ==
    ASSUME ProtonInv, NEW p \in Procs, FilesStay, Proton!Ends(p)
    PROVE  Good(p)
    <1>1. Proton!Idle \in ProtonCommand /\ Proton!Idle.on = FALSE
        BY DEF ProtonCommand, Proton!Idle
    <1>. QED BY <1>1, OwnChange DEF Proton!Ends

\* What Steps does to a command.
LEMMA StepFields ==
    ASSUME ProtonInv, NEW p \in Procs, NEW at \in ProtonSteps, proc[p].on, Proton!Steps(p, at)
    PROVE  /\ proc[p] \in ProtonBusy
           /\ proc' = [proc EXCEPT ![p] = [proc[p] EXCEPT !.at = at]]
           /\ [proc[p] EXCEPT !.at = at] \in ProtonCommand
           /\ proc'[p] = [proc[p] EXCEPT !.at = at]
           /\ proc'[p].on /\ proc'[p].at = at /\ proc'[p].tool = proc[p].tool
           /\ proc'[p].verb = proc[p].verb /\ proc'[p].late = proc[p].late
           /\ proc'[p].records = proc[p].records /\ proc'[p].t = proc[p].t
           /\ proc'[p].read = proc[p].read /\ proc'[p].staged = proc[p].staged
    <1>1. proc[p] \in ProtonBusy
        BY BusyFields DEF ProtonInv
    <1>2. proc' = [proc EXCEPT ![p] = [proc[p] EXCEPT !.at = at]]
        BY DEF Proton!Steps
    <1>3. [proc[p] EXCEPT !.at = at] \in ProtonBusy
        BY <1>1 DEF ProtonBusy
    <1>4. proc'[p] = [proc[p] EXCEPT !.at = at]
        BY <1>2 DEF ProtonInv, ProtonTypes
    <1>5. /\ proc'[p].on /\ proc'[p].at = at /\ proc'[p].tool = proc[p].tool
          /\ proc'[p].verb = proc[p].verb /\ proc'[p].late = proc[p].late
          /\ proc'[p].records = proc[p].records /\ proc'[p].t = proc[p].t
          /\ proc'[p].read = proc[p].read /\ proc'[p].staged = proc[p].staged
        BY <1>1, <1>4 DEF ProtonBusy
    <1>. QED BY <1>1, <1>2, <1>3, <1>4, <1>5 DEF ProtonCommand

\* A step of the second tool that only goes on.
LEMMA NmsGoesOn ==
    ASSUME ProtonInv, NEW p \in Procs, NEW at \in ProtonSteps, proc[p].on, proc[p].tool = "nms",
           Proton!Steps(p, at), FilesStay,
           NmsDone(p)', NmsKnows(p)'
    PROVE  Good(p)
    <1>1. Knows(p)'
        <2>1. SeenMatch(proc[p].records)
            BY DEF ProtonInv, Knows
        <2>2. proc'[p].records = proc[p].records /\ proc'[p].tool = "nms"
            BY StepFields
        <2>3. SeenMatch(proc[p].records)'
            BY <2>1, <2>2 DEF SeenMatch, Matches, FilesStay
        <2>4. WineKnows(p)'
            BY <2>2 DEF WineKnows
        <2>5. WineDone(p)'
            BY <2>2 DEF WineDone
        <2>. QED BY <2>3, <2>4, <2>5 DEF Knows
    <1>2. /\ [proc[p] EXCEPT !.at = at] \in ProtonCommand
          /\ proc' = [proc EXCEPT ![p] = [proc[p] EXCEPT !.at = at]]
          /\ [proc[p] EXCEPT !.at = at].tool = proc[p].tool
        BY StepFields
    <1>. QED BY <1>1, <1>2, OwnChange

LEMMA NmsReads ==
    ASSUME ProtonInv, NEW p \in Procs,
           \/ Proton!CheckNms(p) \/ Proton!NotRunning(p) \/ Proton!ValidateSource(p)
           \/ Proton!BuildStage(p) \/ Proton!PrepareOpenvr(p) \/ Proton!SeeOpenvr(p)
           \/ Proton!EndNms(p) \/ Proton!Fails(p)
    PROVE  Good(p)
    <1>0. FilesStay
        BY DEF FilesStay, Proton!CheckNms, Proton!NotRunning, Proton!ValidateSource,
               Proton!BuildStage, Proton!PrepareOpenvr, Proton!SeeOpenvr, Proton!EndNms,
               Proton!Fails
    <1>k. proc[p].on => NmsDone(p) /\ NmsKnows(p)
        BY DEF ProtonInv, Knows
    <1>1. CASE Proton!Ends(p)
        BY <1>0, <1>1, EndsGood
    <1>2. CASE ~Proton!Ends(p) /\ Proton!CheckNms(p)
        <2>1. /\ proc[p].on /\ proc[p].tool = "nms" /\ Proton!Steps(p, "end")
              /\ Proton!Contained /\ nms.candidate /\ Proton!GameOpenvr /\ Proton!GameXInput
            BY <1>2 DEF Proton!CheckNms, Proton!At, Proton!Active
        <2>2. NmsDone(p)' /\ NmsKnows(p)'
            BY <2>1, <1>0, StepFields DEF FilesStay, NmsDone, NmsKnows, Proton!Contained,
               Proton!GameOpenvr, Proton!GameXInput, ProtonSteps
        <2>. QED BY <2>1, <2>2, <1>0, NmsGoesOn DEF ProtonSteps
    <1>3. CASE ~Proton!Ends(p) /\ Proton!NotRunning(p)
        <2>1. proc[p].on /\ proc[p].tool = "nms" /\ Proton!Steps(p, "source")
            BY <1>3 DEF Proton!NotRunning, Proton!At, Proton!Active
        <2>2. NmsDone(p)' /\ NmsKnows(p)'
            BY <2>1, <1>0, StepFields DEF FilesStay, NmsDone, NmsKnows, ProtonSteps
        <2>. QED BY <2>1, <2>2, <1>0, NmsGoesOn DEF ProtonSteps
    <1>4. CASE ~Proton!Ends(p) /\ Proton!ValidateSource(p)
        <2>1. /\ proc[p].on /\ proc[p].tool = "nms"
              /\ \/ Proton!Steps(p, "build")
                 \/ Proton!Steps(p, "candidate") /\ Proton!Contained
            BY <1>4 DEF Proton!ValidateSource, Proton!At, Proton!Active
        <2>2. CASE Proton!Steps(p, "build")
            <3>1. NmsDone(p)' /\ NmsKnows(p)'
                BY <2>1, <2>2, <1>0, StepFields DEF FilesStay, NmsDone, NmsKnows, ProtonSteps
            <3>. QED BY <2>1, <2>2, <3>1, <1>0, NmsGoesOn DEF ProtonSteps
        <2>3. CASE Proton!Steps(p, "candidate") /\ Proton!Contained
            <3>1. NmsDone(p)' /\ NmsKnows(p)'
                BY <2>1, <2>3, <1>0, StepFields DEF FilesStay, NmsDone, NmsKnows, ProtonSteps,
                   Proton!Contained
            <3>. QED BY <2>1, <2>3, <3>1, <1>0, NmsGoesOn DEF ProtonSteps
        <2>. QED BY <2>1, <2>2, <2>3
    <1>5. CASE ~Proton!Ends(p) /\ Proton!BuildStage(p)
        <2>1. /\ proc[p].on /\ proc[p].tool = "nms"
              /\ \E at \in {"setaside", "installtool"} : Proton!Steps(p, at)
            BY <1>5 DEF Proton!BuildStage, Proton!At, Proton!Active
        <2>2. PICK at \in {"setaside", "installtool"} : Proton!Steps(p, at)
            BY <2>1
        <2>3. NmsDone(p)' /\ NmsKnows(p)'
            BY <2>1, <2>2, <1>0, StepFields DEF FilesStay, NmsDone, NmsKnows, ProtonSteps
        <2>. QED BY <2>1, <2>2, <2>3, <1>0, NmsGoesOn DEF ProtonSteps
    <1>6. CASE ~Proton!Ends(p) /\ Proton!PrepareOpenvr(p)
        <2>1. /\ proc[p].on /\ proc[p].tool = "nms" /\ proc[p].at = "openvr"
              /\ \/ Proton!Steps(p, "xinput") /\ Proton!GameOpenvr
                 \/ Proton!Steps(p, "copyopenvr") /\ nms.openvrBackup = "none"
                                                  /\ nms.openvr = "stock"
            BY <1>6 DEF Proton!PrepareOpenvr, Proton!At, Proton!Active
        <2>2. CASE Proton!Steps(p, "xinput") /\ Proton!GameOpenvr
            <3>1. NmsDone(p)' /\ NmsKnows(p)'
                BY <2>1, <2>2, <1>0, <1>k, StepFields DEF FilesStay, NmsDone, NmsKnows,
                   ProtonSteps, Proton!Contained, Proton!GameOpenvr
            <3>. QED BY <2>1, <2>2, <3>1, <1>0, NmsGoesOn DEF ProtonSteps
        <2>3. CASE /\ Proton!Steps(p, "copyopenvr")
                   /\ nms.openvrBackup = "none" /\ nms.openvr = "stock"
            <3>1. 0 \in torn \/ nms.owned = nms.openvr
                BY <2>3 DEF ProtonInv, OwnedKept, ProtonTypes, NmsFiles
            <3>2. NmsDone(p)' /\ NmsKnows(p)'
                BY <2>1, <2>3, <3>1, <1>0, <1>k, StepFields DEF FilesStay, NmsDone, NmsKnows,
                   ProtonSteps, Proton!Contained
            <3>. QED BY <2>1, <2>3, <3>2, <1>0, NmsGoesOn DEF ProtonSteps
        <2>. QED BY <2>1, <2>2, <2>3
    <1>7. CASE ~Proton!Ends(p) /\ Proton!SeeOpenvr(p)
        <2>1. /\ proc[p].on /\ proc[p].tool = "nms" /\ proc[p].at = "seeopenvr"
              /\ Proton!Steps(p, "xinput") /\ Proton!GameOpenvr
            BY <1>7 DEF Proton!SeeOpenvr, Proton!At, Proton!Active
        <2>2. NmsDone(p)' /\ NmsKnows(p)'
            BY <2>1, <1>0, <1>k, StepFields DEF FilesStay, NmsDone, NmsKnows,
               ProtonSteps, Proton!Contained, Proton!GameOpenvr
        <2>. QED BY <2>1, <2>2, <1>0, NmsGoesOn DEF ProtonSteps
    <1>8. CASE ~Proton!Ends(p) /\ (Proton!EndNms(p) \/ Proton!Fails(p))
        BY <1>8 DEF Proton!EndNms, Proton!Fails
    <1>. QED BY <1>1, <1>2, <1>3, <1>4, <1>5, <1>6, <1>7, <1>8

-----------------------------------------------------------------------------
(* The steps of the second tool that write *)

\* A step that writes something that is not an executable, and goes on.
LEMMA WritesFields ==
    ASSUME ProtonInv, NEW p \in Procs, NEW at \in ProtonSteps, proc[p].on,
           proc' = Proton!Wrote(p, {}, [proc[p] EXCEPT !.at = at]), UNCHANGED exe
    PROVE  /\ proc[p] \in ProtonBusy
           /\ proc' \in [Procs -> ProtonCommand]
           /\ proc'[p] = [proc[p] EXCEPT !.at = at]
           /\ proc'[p].on /\ proc'[p].at = at /\ proc'[p].tool = proc[p].tool
           /\ proc'[p].verb = proc[p].verb /\ proc'[p].late = proc[p].late
           /\ proc'[p].records = proc[p].records /\ proc'[p].t = proc[p].t
           /\ proc'[p].read = proc[p].read /\ proc'[p].staged = proc[p].staged
           /\ Public(p)
    <1>1. proc[p] \in ProtonBusy
        BY BusyFields DEF ProtonInv
    <1>. DEFINE mine == [proc[p] EXCEPT !.at = at]
    <1>2. mine \in ProtonCommand
        BY <1>1 DEF ProtonBusy, ProtonCommand
    <1>3. /\ proc' \in [Procs -> ProtonCommand] /\ proc'[p] = mine
          /\ \A q \in Procs \ {p} : Told(q, {})
        <2>1. ProtonTypes
            BY DEF ProtonInv
        <2>2. proc' = Proton!Wrote(p, {}, mine)
            OBVIOUS
        <2>3. {} \in SUBSET Proton!Exes
            OBVIOUS
        <2>. HIDE DEF mine
        <2>. QED BY <1>2, <2>1, <2>2, <2>3, WroteCommand
    <1>4. /\ proc'[p].on /\ proc'[p].at = at /\ proc'[p].tool = proc[p].tool
          /\ proc'[p].verb = proc[p].verb /\ proc'[p].late = proc[p].late
          /\ proc'[p].records = proc[p].records /\ proc'[p].t = proc[p].t
          /\ proc'[p].read = proc[p].read /\ proc'[p].staged = proc[p].staged
        BY <1>1, <1>3 DEF ProtonBusy
    <1>. QED BY <1>1, <1>3, <1>4 DEF Public

LEMMA NmsMakes ==
    ASSUME ProtonInv, NEW p \in Procs, NEW at \in ProtonSteps, NEW changed \in NmsFiles,
           proc[p].on, proc[p].tool = "nms", Proton!Makes(p, changed, at),
           OwnedKept', NmsDone(p)', NmsKnows(p)'
    PROVE  Good(p)
    <1>1. /\ proc' = Proton!Wrote(p, {}, [proc[p] EXCEPT !.at = at]) /\ nms' = changed
          /\ UNCHANGED <<version, exe, backups, state, steam, runs, updates, torn>>
        BY DEF Proton!Makes
    <1>2. /\ proc' \in [Procs -> ProtonCommand] /\ Public(p) /\ proc'[p].on
          /\ proc'[p].tool = proc[p].tool /\ proc'[p].records = proc[p].records
        BY <1>1, WritesFields
    <1>3. ProtonTypes'
        BY <1>1, <1>2 DEF ProtonInv, ProtonTypes
    <1>4. ExesKept' /\ SeenMatch(state)'
        BY <1>1 DEF ProtonInv, ExesKept, SeenMatch, VersionKept, Matches
    <1>5. SeenMatch(proc[p].records)'
        <2>1. SeenMatch(proc[p].records)
            BY DEF ProtonInv, Knows
        <2>. QED BY <1>1, <1>2, <2>1 DEF SeenMatch, Matches
    <1>6. WineKnows(p)' /\ WineDone(p)'
        BY <1>2 DEF WineKnows, WineDone
    <1>7. Knows(p)'
        BY <1>5, <1>6 DEF Knows
    <1>. QED BY <1>1, <1>2, <1>3, <1>4, <1>7 DEF Good

LEMMA NmsWrites ==
    ASSUME ProtonInv, NEW p \in Procs,
           \/ Proton!SetToolAside(p) \/ Proton!UpgradeTool(p) \/ Proton!DropTool(p)
           \/ Proton!InstallTool(p) \/ Proton!PrepareCandidate(p) \/ Proton!CopyOpenvr(p)
           \/ Proton!KeepOpenvr(p) \/ Proton!PutOpenvr(p) \/ Proton!PutXInput(p)
    PROVE  Good(p)
    <1>n. nms \in NmsFiles /\ OwnedKept
        BY DEF ProtonInv, ProtonTypes
    <1>k. proc[p].on => NmsDone(p) /\ NmsKnows(p)
        BY DEF ProtonInv, Knows
    <1>1. ASSUME NEW at \in ProtonSteps, NEW changed \in NmsFiles, proc[p].on,
                 proc[p].tool = "nms", Proton!Makes(p, changed, at)
          PROVE  /\ nms' = changed /\ torn' = torn
                 /\ proc'[p].on /\ proc'[p].at = at /\ proc'[p].tool = "nms"
                 /\ proc'[p].late = proc[p].late
        <2>1. /\ proc' = Proton!Wrote(p, {}, [proc[p] EXCEPT !.at = at]) /\ nms' = changed
              /\ exe' = exe /\ torn' = torn
            BY <1>1 DEF Proton!Makes
        <2>. QED BY <1>1, <2>1, WritesFields
    <1>2. CASE Proton!SetToolAside(p)
        <2>. DEFINE changed == [nms EXCEPT !.tool = "none", !.toolBackup = TRUE]
        <2>1. /\ proc[p].on /\ proc[p].tool = "nms" /\ proc[p].at = "setaside"
              /\ Proton!Makes(p, changed, "upgradetool")
            BY <1>2 DEF Proton!SetToolAside, Proton!At, Proton!Active
        <2>2. /\ changed \in NmsFiles /\ changed.owned = nms.owned
              /\ changed.openvr = nms.openvr /\ changed.openvrBackup = nms.openvrBackup
            BY <1>n DEF NmsFiles
        <2>. HIDE DEF changed
        <2>3. OwnedKept' /\ NmsDone(p)' /\ NmsKnows(p)'
            BY <2>1, <2>2, <1>1, <1>n, <1>k DEF OwnedKept, NmsDone, NmsKnows, ProtonSteps
        <2>. QED BY <2>1, <2>2, <2>3, NmsMakes DEF ProtonSteps
    <1>3. CASE Proton!UpgradeTool(p)
        <2>. DEFINE changed == [nms EXCEPT !.tool = "good"]
        <2>1. /\ proc[p].on /\ proc[p].tool = "nms" /\ proc[p].at = "upgradetool"
              /\ Proton!Makes(p, changed, "droptool")
            BY <1>3 DEF Proton!UpgradeTool, Proton!At, Proton!Active
        <2>2. /\ changed \in NmsFiles /\ changed.owned = nms.owned /\ changed.tool = "good"
              /\ changed.openvr = nms.openvr /\ changed.openvrBackup = nms.openvrBackup
            BY <1>n DEF NmsFiles
        <2>. HIDE DEF changed
        <2>3. OwnedKept' /\ NmsDone(p)' /\ NmsKnows(p)'
            BY <2>1, <2>2, <1>1, <1>n, <1>k DEF OwnedKept, NmsDone, NmsKnows, ProtonSteps,
               Proton!Contained
        <2>. QED BY <2>1, <2>2, <2>3, NmsMakes DEF ProtonSteps
    <1>4. CASE Proton!DropTool(p)
        <2>. DEFINE changed == [nms EXCEPT !.toolBackup = FALSE]
        <2>1. /\ proc[p].on /\ proc[p].tool = "nms" /\ proc[p].at = "droptool"
              /\ Proton!Makes(p, changed, "candidate")
            BY <1>4 DEF Proton!DropTool, Proton!At, Proton!Active
        <2>2. /\ changed \in NmsFiles /\ changed.owned = nms.owned /\ changed.tool = nms.tool
              /\ changed.openvr = nms.openvr /\ changed.openvrBackup = nms.openvrBackup
            BY <1>n DEF NmsFiles
        <2>. HIDE DEF changed
        <2>3. OwnedKept' /\ NmsDone(p)' /\ NmsKnows(p)'
            BY <2>1, <2>2, <1>1, <1>n, <1>k DEF OwnedKept, NmsDone, NmsKnows, ProtonSteps,
               Proton!Contained
        <2>. QED BY <2>1, <2>2, <2>3, NmsMakes DEF ProtonSteps
    <1>5. CASE Proton!InstallTool(p)
        <2>. DEFINE changed == [nms EXCEPT !.tool = "good"]
        <2>1. /\ proc[p].on /\ proc[p].tool = "nms" /\ proc[p].at = "installtool"
              /\ Proton!Makes(p, changed, "candidate")
            BY <1>5 DEF Proton!InstallTool, Proton!At, Proton!Active
        <2>2. /\ changed \in NmsFiles /\ changed.owned = nms.owned /\ changed.tool = "good"
              /\ changed.openvr = nms.openvr /\ changed.openvrBackup = nms.openvrBackup
            BY <1>n DEF NmsFiles
        <2>. HIDE DEF changed
        <2>3. OwnedKept' /\ NmsDone(p)' /\ NmsKnows(p)'
            BY <2>1, <2>2, <1>1, <1>n, <1>k DEF OwnedKept, NmsDone, NmsKnows, ProtonSteps,
               Proton!Contained
        <2>. QED BY <2>1, <2>2, <2>3, NmsMakes DEF ProtonSteps
    <1>6. CASE Proton!PrepareCandidate(p)
        <2>. DEFINE changed == [nms EXCEPT !.candidate = TRUE]
        <2>1. /\ proc[p].on /\ proc[p].tool = "nms" /\ proc[p].at = "candidate"
              /\ Proton!Makes(p, changed, "openvr")
            BY <1>6 DEF Proton!PrepareCandidate, Proton!At, Proton!Active
        <2>2. /\ changed \in NmsFiles /\ changed.owned = nms.owned /\ changed.tool = nms.tool
              /\ changed.openvr = nms.openvr /\ changed.openvrBackup = nms.openvrBackup
              /\ changed.candidate
            BY <1>n DEF NmsFiles
        <2>. HIDE DEF changed
        <2>3. OwnedKept' /\ NmsDone(p)' /\ NmsKnows(p)'
            BY <2>1, <2>2, <1>1, <1>n, <1>k DEF OwnedKept, NmsDone, NmsKnows, ProtonSteps,
               Proton!Contained
        <2>. QED BY <2>1, <2>2, <2>3, NmsMakes DEF ProtonSteps
    <1>7. CASE Proton!CopyOpenvr(p)
        <2>. DEFINE changed == [nms EXCEPT !.openvrNew = TRUE]
        <2>1. /\ proc[p].on /\ proc[p].tool = "nms" /\ proc[p].at = "copyopenvr"
              /\ Proton!Makes(p, changed, "keepopenvr")
            BY <1>7 DEF Proton!CopyOpenvr, Proton!At, Proton!Active
        <2>2. /\ changed \in NmsFiles /\ changed.owned = nms.owned /\ changed.tool = nms.tool
              /\ changed.openvr = nms.openvr /\ changed.openvrBackup = nms.openvrBackup
              /\ changed.candidate = nms.candidate
            BY <1>n DEF NmsFiles
        <2>. HIDE DEF changed
        <2>3. OwnedKept' /\ NmsDone(p)' /\ NmsKnows(p)'
            BY <2>1, <2>2, <1>1, <1>n, <1>k DEF OwnedKept, NmsDone, NmsKnows, ProtonSteps,
               Proton!Contained
        <2>. QED BY <2>1, <2>2, <2>3, NmsMakes DEF ProtonSteps
    <1>8. CASE Proton!KeepOpenvr(p)
        <2>. DEFINE changed == [nms EXCEPT !.openvrBackup = nms.openvr, !.openvr = "none"]
        <2>1. /\ proc[p].on /\ proc[p].tool = "nms" /\ proc[p].at = "keepopenvr"
              /\ Proton!Makes(p, changed, "putopenvr")
            BY <1>8 DEF Proton!KeepOpenvr, Proton!At, Proton!Active
        <2>2. /\ changed \in NmsFiles /\ changed.owned = nms.owned /\ changed.tool = nms.tool
              /\ changed.openvrBackup = nms.openvr /\ changed.candidate = nms.candidate
            BY <1>n DEF NmsFiles
        <2>. HIDE DEF changed
        <2>3. OwnedKept' /\ NmsDone(p)' /\ NmsKnows(p)'
            BY <2>1, <2>2, <1>1, <1>n, <1>k DEF OwnedKept, NmsDone, NmsKnows, ProtonSteps,
               Proton!Contained
        <2>. QED BY <2>1, <2>2, <2>3, NmsMakes DEF ProtonSteps
    <1>9. CASE Proton!PutOpenvr(p)
        <2>. DEFINE changed == [nms EXCEPT !.openvr = "stub", !.openvrNew = FALSE]
        <2>1. /\ proc[p].on /\ proc[p].tool = "nms" /\ proc[p].at = "putopenvr"
              /\ Proton!Makes(p, changed, "seeopenvr")
            BY <1>9 DEF Proton!PutOpenvr, Proton!At, Proton!Active
        <2>2. /\ changed \in NmsFiles /\ changed.owned = nms.owned /\ changed.tool = nms.tool
              /\ changed.openvrBackup = nms.openvrBackup /\ changed.candidate = nms.candidate
            BY <1>n DEF NmsFiles
        <2>. HIDE DEF changed
        <2>3. OwnedKept' /\ NmsDone(p)' /\ NmsKnows(p)'
            BY <2>1, <2>2, <1>1, <1>n, <1>k DEF OwnedKept, NmsDone, NmsKnows, ProtonSteps,
               Proton!Contained
        <2>. QED BY <2>1, <2>2, <2>3, NmsMakes DEF ProtonSteps
    <1>10. CASE Proton!PutXInput(p)
        <2>1. PICK d \in Proton!Dlls :
                  /\ proc[p].on /\ proc[p].tool = "nms" /\ proc[p].at = "putxinput"
                  /\ Proton!Makes(p, [nms EXCEPT !.xinput = @ \cup {d},
                                                 !.xinputNew = @ \ {d}], "xinput")
            BY <1>10 DEF Proton!PutXInput, Proton!At, Proton!Active, Proton!Dlls
        <2>. DEFINE changed == [nms EXCEPT !.xinput = @ \cup {d}, !.xinputNew = @ \ {d}]
        <2>2. /\ changed \in NmsFiles /\ changed.owned = nms.owned /\ changed.tool = nms.tool
              /\ changed.openvrBackup = nms.openvrBackup /\ changed.candidate = nms.candidate
              /\ changed.openvr = nms.openvr
            BY <1>n DEF NmsFiles
        <2>3. Proton!Makes(p, changed, "xinput")
            BY <2>1
        <2>. HIDE DEF changed
        <2>4. OwnedKept' /\ NmsDone(p)' /\ NmsKnows(p)'
            BY <2>1, <2>2, <2>3, <1>1, <1>n, <1>k DEF OwnedKept, NmsDone, NmsKnows, ProtonSteps,
               Proton!Contained, Proton!GameOpenvr
        <2>. QED BY <2>1, <2>2, <2>3, <2>4, NmsMakes DEF ProtonSteps
    <1>. QED BY <1>2, <1>3, <1>4, <1>5, <1>6, <1>7, <1>8, <1>9, <1>10

LEMMA CopiesXInput ==
    ASSUME ProtonInv, NEW p \in Procs, Proton!CopyXInput(p)
    PROVE  Good(p)
    <1>n. nms \in NmsFiles /\ OwnedKept
        BY DEF ProtonInv, ProtonTypes
    <1>0. proc[p].on /\ proc[p].tool = "nms" /\ proc[p].at = "xinput"
        BY DEF Proton!CopyXInput, Proton!At, Proton!Active
    <1>k. NmsDone(p) /\ NmsKnows(p)
        BY <1>0 DEF ProtonInv, Knows
    <1>1. \/ Proton!Steps(p, "end") /\ nms' = nms /\ Proton!GameXInput
          \/ Proton!Ends(p) /\ nms' = nms
          \/ \E d \in Proton!Dlls :
                 /\ nms' = [nms EXCEPT !.xinputNew = @ \cup {d}]
                 /\ proc' = Proton!Wrote(p, {}, [proc[p] EXCEPT !.at = "putxinput"])
        <2>1. Proton!Dlls \ nms.xinput = {} => Proton!GameXInput
            BY <1>n DEF NmsFiles, Proton!GameXInput
        <2>. QED BY <2>1 DEF Proton!CopyXInput, Proton!Dlls
    <1>2. UNCHANGED <<version, exe, backups, state, steam, runs, updates, torn>>
        BY DEF Proton!CopyXInput
    <1>3. CASE Proton!Steps(p, "end") /\ nms' = nms /\ Proton!GameXInput
        <2>1. FilesStay
            BY <1>2, <1>3 DEF FilesStay
        <2>2. NmsDone(p)' /\ NmsKnows(p)'
            BY <2>1, <1>0, <1>3, <1>k, StepFields DEF FilesStay, NmsDone, NmsKnows, ProtonSteps,
               Proton!Contained, Proton!GameOpenvr, Proton!GameXInput
        <2>. QED BY <2>1, <2>2, <1>0, <1>3, NmsGoesOn DEF ProtonSteps
    <1>4. CASE Proton!Ends(p) /\ nms' = nms
        BY <1>2, <1>4, EndsGood DEF FilesStay
    <1>5. ASSUME NEW d \in Proton!Dlls,
                 nms' = [nms EXCEPT !.xinputNew = @ \cup {d}],
                 proc' = Proton!Wrote(p, {}, [proc[p] EXCEPT !.at = "putxinput"])
          PROVE  Good(p)
        <2>. DEFINE changed == [nms EXCEPT !.xinputNew = @ \cup {d}]
        <2>1. Proton!Makes(p, changed, "putxinput")
            BY <1>2, <1>5 DEF Proton!Makes
        <2>2. /\ changed \in NmsFiles /\ changed.owned = nms.owned /\ changed.tool = nms.tool
              /\ changed.openvrBackup = nms.openvrBackup /\ changed.candidate = nms.candidate
              /\ changed.openvr = nms.openvr
            BY <1>n DEF NmsFiles
        <2>3. nms' = changed
            BY <1>5
        <2>. HIDE DEF changed
        <2>4. /\ proc'[p].on /\ proc'[p].at = "putxinput" /\ proc'[p].tool = "nms"
              /\ proc'[p].late = proc[p].late
            BY <1>0, <1>2, <1>5, WritesFields DEF ProtonSteps
        <2>5. OwnedKept' /\ NmsDone(p)' /\ NmsKnows(p)'
            BY <2>2, <2>3, <2>4, <1>2, <1>0, <1>n, <1>k DEF OwnedKept, NmsDone, NmsKnows,
               Proton!Contained, Proton!GameOpenvr
        <2>. QED BY <2>1, <2>2, <2>5, <1>0, NmsMakes DEF ProtonSteps
    <1>. QED BY <1>1, <1>3, <1>4, <1>5

LEMMA RenamesBack ==
    ASSUME ProtonInv, NEW p \in Procs, Proton!RenameFails(p)
    PROVE  Good(p)
    <1>n. nms \in NmsFiles /\ OwnedKept
        BY DEF ProtonInv, ProtonTypes
    <1>0. proc[p].on /\ proc[p].tool = "nms"
        BY DEF Proton!RenameFails, Proton!At, Proton!Active
    <1>k. NmsKnows(p)
        BY <1>0 DEF ProtonInv, Knows
    <1>1. /\ proc' = Proton!Wrote(p, {}, Proton!Idle)
          /\ UNCHANGED <<version, exe, backups, state, steam, runs, updates, torn>>
        BY DEF Proton!RenameFails
    <1>2. nms' \in NmsFiles /\ OwnedKept'
        <2>1. CASE /\ proc[p].at = "upgradetool"
                   /\ nms' = [nms EXCEPT !.tool = "legacy", !.toolBackup = FALSE]
            <3>1. /\ nms' \in NmsFiles /\ nms'.owned = nms.owned /\ nms'.openvr = nms.openvr
                  /\ nms'.openvrBackup = nms.openvrBackup
                BY <1>n, <2>1 DEF NmsFiles
            <3>. QED BY <1>1, <1>n, <3>1 DEF OwnedKept
        <2>2. CASE /\ proc[p].at = "putopenvr"
                   /\ nms' = [nms EXCEPT !.openvr = nms.openvrBackup, !.openvrBackup = "none"]
            <3>1. /\ nms' \in NmsFiles /\ nms'.owned = nms.owned
                  /\ nms'.openvr = nms.openvrBackup
                BY <1>n, <2>2 DEF NmsFiles
            <3>. QED BY <1>0, <1>1, <1>k, <2>2, <3>1 DEF OwnedKept, NmsKnows
        <2>. QED BY <2>1, <2>2 DEF Proton!RenameFails, Proton!At
    <1>3. /\ proc' \in [Procs -> ProtonCommand] /\ proc'[p] = Proton!Idle
          /\ \A q \in Procs \ {p} : Told(q, {})
        <2>1. Proton!Idle \in ProtonCommand /\ {} \in SUBSET Proton!Exes
            BY DEF ProtonCommand
        <2>2. ProtonTypes
            BY DEF ProtonInv
        <2>. QED BY <1>1, <2>1, <2>2, WroteCommand
    <1>4. ProtonTypes'
        BY <1>1, <1>2, <1>3 DEF ProtonInv, ProtonTypes
    <1>5. ExesKept' /\ SeenMatch(state)'
        BY <1>1 DEF ProtonInv, ExesKept, SeenMatch, VersionKept, Matches
    <1>6. Public(p) /\ ~proc'[p].on
        BY <1>1, <1>3 DEF Public, Proton!Idle
    <1>7. Knows(p)'
        BY <1>6 DEF Knows
    <1>. QED BY <1>1, <1>2, <1>4, <1>5, <1>6, <1>7 DEF Good

-----------------------------------------------------------------------------
(* The steps of the first tool *)

\* With the files as they were, what a command knows of them is about itself alone.
LEMMA WineChanges ==
    ASSUME ProtonInv, NEW p \in Procs, NEW mine \in ProtonBusy, FilesStay,
           proc' = [proc EXCEPT ![p] = mine], proc[p].on, mine.tool = "wine",
           proc[p].tool = "wine", SeenMatch(mine.records), WineKnows(p)', WineDone(p)'
    PROVE  Good(p)
    <1>1. mine \in ProtonCommand /\ mine.on
        BY DEF ProtonCommand, ProtonBusy
    <1>2. proc'[p] = mine
        BY <1>1, PutCommand DEF ProtonInv
    <1>3. SeenMatch(proc[p].records)'
        BY <1>2 DEF SeenMatch, Matches, FilesStay
    <1>4. NmsDone(p)' /\ NmsKnows(p)'
        BY <1>2 DEF NmsDone, NmsKnows
    <1>5. Knows(p)'
        BY <1>3, <1>4 DEF Knows
    <1>. QED BY <1>1, <1>5, OwnChange

\* On to the next executable: what is done is done, and this one too.
LEMMA GoesOnFields ==
    ASSUME NEW p \in Procs, proc[p] \in ProtonBusy, proc[p].tool = "wine",
           proc[p].verb = proc[p].at \/ proc[p].at \in {"identify", "record", "putback"},
           NEW records \in Proton!Records, NEW mine, mine = Proton!Goes(p, records)
    PROVE  /\ mine \in ProtonBusy /\ mine.tool = "wine" /\ mine.verb = proc[p].verb
           /\ mine.records = records /\ mine.late = proc[p].late /\ mine.staged = None
           /\ mine.at \in {proc[p].verb, "end"}
           /\ \A t \in Proton!Exes : t < mine.t \/ mine.at = "end" => t < proc[p].t \/ t = proc[p].t
    <1>1. proc[p].t \in Proton!Exes /\ proc[p].verb \in {"prepare", "check", "restore"}
        BY DEF ProtonBusy
    <1>2. mine = [proc[p] EXCEPT !.records = records, !.read = None, !.staged = None,
                      !.at = IF proc[p].t = Targets THEN "end" ELSE proc[p].verb,
                      !.t = IF proc[p].t = Targets THEN proc[p].t ELSE proc[p].t + 1]
        BY DEF Proton!Goes, Proton!Next1
    <1>3. /\ mine.records = records /\ mine.tool = "wine" /\ mine.verb = proc[p].verb
          /\ mine.late = proc[p].late /\ mine.staged = None
          /\ mine.at = IF proc[p].t = Targets THEN "end" ELSE proc[p].verb
          /\ mine.t = IF proc[p].t = Targets THEN proc[p].t ELSE proc[p].t + 1
        BY <1>2 DEF ProtonBusy
    <1>4. /\ (IF proc[p].t = Targets THEN proc[p].t ELSE proc[p].t + 1) \in Proton!Exes
          /\ (IF proc[p].t = Targets THEN "end" ELSE proc[p].verb) \in ProtonSteps
        BY <1>1, ProtonConstants DEF Proton!Exes, ProtonSteps
    <1>5. mine \in ProtonBusy
        BY <1>2, <1>4 DEF ProtonBusy
    <1>6. ASSUME NEW t \in Proton!Exes, t < mine.t \/ mine.at = "end"
          PROVE  t < proc[p].t \/ t = proc[p].t
        BY <1>1, <1>3, <1>6, ProtonConstants DEF Proton!Exes
    <1>. QED BY <1>3, <1>5, <1>6, <1>1

\* A step forward of a command of the first tool that has only looked.
LEMMA WineGoesOn ==
    ASSUME ProtonInv, NEW p \in Procs, NEW records \in Proton!Records, FilesStay,
           proc[p].on, proc[p].tool = "wine",
           \/ proc[p].at = proc[p].verb
           \/ (proc[p].at = "identify" /\ proc[p].verb = "prepare"),
           proc' = [proc EXCEPT ![p] = Proton!Goes(p, records)],
           SeenMatch(records),
           \A t \in Proton!Exes : t < proc[p].t /\ Finished(p, t) =>
               IF proc[p].verb = "restore" THEN TRUE
               ELSE Owed(proc[p].verb, t, records[t]),
           IF proc[p].verb = "restore" THEN exe[proc[p].t].is = "original"
           ELSE Owed(proc[p].verb, proc[p].t, records[proc[p].t]),
           proc[p].verb = "check" => records = proc[p].records
    PROVE  Good(p)
    <1>. DEFINE mine == Proton!Goes(p, records)
    <1>0. proc[p] \in ProtonBusy
        BY BusyFields DEF ProtonInv
    <1>1. /\ mine \in ProtonBusy /\ mine.tool = "wine" /\ mine.verb = proc[p].verb
          /\ mine.records = records /\ mine.late = proc[p].late /\ mine.staged = None
          /\ mine.at \in {proc[p].verb, "end"}
          /\ \A t \in Proton!Exes :
                 t < mine.t \/ mine.at = "end" => t < proc[p].t \/ t = proc[p].t
        BY <1>0, GoesOnFields
    <1>. HIDE DEF mine
    <1>2. proc'[p] = mine
        <2>1. mine \in ProtonCommand
            BY <1>1 DEF ProtonCommand
        <2>2. proc' = [proc EXCEPT ![p] = mine]
            BY DEF mine
        <2>. QED BY <2>1, <2>2, PutCommand DEF ProtonInv
    <1>3. proc[p].verb \in {"prepare", "check", "restore"}
        BY <1>0 DEF ProtonBusy
    <1>k. WineDone(p) /\ proc[p].at # "state"
        BY <1>3 DEF ProtonInv, Knows
    <1>4. WineKnows(p)'
        BY <1>1, <1>2, <1>3 DEF WineKnows
    <1>5. WineDone(p)'
        <2>1. SUFFICES ASSUME ~proc'[p].late
                       PROVE  /\ \A t \in DoneWith(p)' : Finished(p, t)'
                              /\ proc'[p].verb = "check" => proc'[p].records = state'
            BY DEF WineDone
        <2>2. ~proc[p].late
            BY <2>1, <1>1, <1>2
        <2>3. \A t \in DoneWith(p) : Finished(p, t)
            BY <2>2, <1>k DEF WineDone
        <2>4. ASSUME NEW t \in DoneWith(p)'
              PROVE  Finished(p, t)'
            <3>1. t \in Proton!Exes /\ (t < proc[p].t \/ t = proc[p].t)
                BY <2>4, <1>1, <1>2, <1>3 DEF DoneWith
            <3>2. t < proc[p].t => Finished(p, t)
                BY <2>3, <3>1 DEF DoneWith
            <3>3. IF proc[p].verb = "restore" THEN exe[t].is = "original"
                  ELSE Owed(proc[p].verb, t, records[t])
                BY <3>1, <3>2 DEF Finished
            <3>. QED BY <3>3, <1>1, <1>2 DEF Finished, Owed, Matches, FilesStay
        <2>5. proc'[p].verb = "check" => proc'[p].records = state'
            BY <1>1, <1>2, <1>k, <2>2 DEF WineDone, FilesStay
        <2>. QED BY <2>4, <2>5
    <1>6. proc' = [proc EXCEPT ![p] = mine]
        BY DEF mine
    <1>. QED BY <1>1, <1>4, <1>5, <1>6, WineChanges

\* The identities that are taken are of the file there is: a record with those of the file it
\* names is true.
LEMMA IdentitiesTaken ==
    ASSUME NEW records \in Proton!Records, NEW p, proc[p].t \in Proton!Exes,
           NEW m \in Proton!Record, SeenMatch(records), <<proc[p].t, m.of>> \in backups
    PROVE  LET new == [records EXCEPT ![proc[p].t] = Proton!Identified(p, m)] IN
           /\ new \in Proton!Records /\ SeenMatch(new)
           /\ Owed("prepare", proc[p].t, new[proc[p].t])
           /\ \A x \in Proton!Exes : x # proc[p].t => new[x] = records[x]
    <1>. DEFINE t == proc[p].t
                one == Proton!Identified(p, m)
                new == [records EXCEPT ![t] = one]
    <1>1. /\ one \in Proton!Record /\ one # None /\ one.of = m.of /\ one.patched = m.patched
          /\ one.seen \in {"same", "other"}
          /\ one.seen = "same" => exe[t] = [of |-> m.patched, is |-> "patched"]
        BY ProtonConstants DEF Proton!Record, Proton!Identified, Proton!Target
    <1>. HIDE DEF one
    <1>2. /\ new \in Proton!Records /\ new[t] = one
          /\ \A x \in Proton!Exes : x # t => new[x] = records[x]
        BY <1>1 DEF Proton!Records
    <1>. HIDE DEF new
    <1>3. one.seen = "same" => Matches(t, one)
        BY <1>1 DEF Matches
    <1>4. SeenMatch(new) /\ Owed("prepare", t, new[t])
        BY <1>1, <1>2, <1>3 DEF SeenMatch, Owed
    <1>. QED BY <1>2, <1>4 DEF new, one

\* A step of a command of the first tool that only goes on.
LEMMA WineSteps ==
    ASSUME ProtonInv, NEW p \in Procs, NEW at \in {"digest", "identify", "putback"}, FilesStay,
           proc[p].on, proc[p].tool = "wine", proc[p].at \notin {"state", "record", "end"},
           Proton!Steps(p, at), WineKnows(p)'
    PROVE  Good(p)
    <1>1. /\ [proc[p] EXCEPT !.at = at] \in ProtonBusy
          /\ proc' = [proc EXCEPT ![p] = [proc[p] EXCEPT !.at = at]]
          /\ proc'[p] = [proc[p] EXCEPT !.at = at]
          /\ proc'[p].at = at /\ proc'[p].tool = "wine" /\ proc'[p].verb = proc[p].verb
          /\ proc'[p].late = proc[p].late /\ proc'[p].records = proc[p].records
          /\ proc'[p].t = proc[p].t
        <2>1. at \in ProtonSteps
            BY DEF ProtonSteps
        <2>2. /\ proc' = [proc EXCEPT ![p] = [proc[p] EXCEPT !.at = at]]
              /\ proc[p] \in ProtonBusy /\ proc'[p] = [proc[p] EXCEPT !.at = at]
              /\ proc'[p].at = at /\ proc'[p].tool = "wine" /\ proc'[p].verb = proc[p].verb
              /\ proc'[p].late = proc[p].late /\ proc'[p].records = proc[p].records
              /\ proc'[p].t = proc[p].t
            BY <2>1, StepFields
        <2>3. [proc[p] EXCEPT !.at = at] \in ProtonBusy
            BY <2>1, <2>2 DEF ProtonBusy
        <2>. QED BY <2>2, <2>3
    <1>2. SeenMatch(proc[p].records) /\ WineDone(p)
        BY DEF ProtonInv, Knows
    <1>3. WineDone(p)'
        BY <1>1, <1>2 DEF WineDone, DoneWith, Finished, Owed, Matches, FilesStay
    <1>. QED BY <1>1, <1>2, <1>3, WineChanges

LEMMA WineReads ==
    ASSUME ProtonInv, NEW p \in Procs,
           \/ Proton!ReadState(p) \/ Proton!PrepareTarget(p) \/ Proton!Digest(p)
           \/ Proton!Stage(p) \/ Proton!VerifyInstalled(p) \/ Proton!RecordIdentities(p)
           \/ Proton!CheckTarget(p) \/ Proton!RestoreTarget(p)
    PROVE  Good(p)
    <1>0. FilesStay
        BY DEF FilesStay, Proton!ReadState, Proton!PrepareTarget, Proton!Digest, Proton!Stage,
               Proton!VerifyInstalled, Proton!RecordIdentities, Proton!CheckTarget,
               Proton!RestoreTarget
    <1>1. proc[p].on /\ proc[p].tool = "wine"
        BY DEF Proton!ReadState, Proton!PrepareTarget, Proton!Digest, Proton!Stage,
               Proton!VerifyInstalled, Proton!RecordIdentities, Proton!CheckTarget,
               Proton!RestoreTarget, Proton!At, Proton!Active
    <1>2. proc[p] \in ProtonBusy
        BY <1>1, BusyFields DEF ProtonInv
    <1>3. /\ proc[p].records \in Proton!Records /\ proc[p].t \in Proton!Exes
          /\ proc[p].verb \in {"prepare", "check", "restore"}
        BY <1>2 DEF ProtonBusy
    <1>k. SeenMatch(proc[p].records) /\ WineKnows(p) /\ WineDone(p)
        BY <1>1 DEF ProtonInv, Knows
    <1>4. CASE proc' = [proc EXCEPT ![p] = Proton!Idle]
        BY <1>0, <1>4, EndsGood DEF Proton!Ends
    <1>5. CASE Proton!ReadState(p)
        <2>. DEFINE mine == [proc[p] EXCEPT !.records = state, !.at = proc[p].verb]
        <2>1. proc[p].at = "state"
            BY <1>5 DEF Proton!ReadState, Proton!At
        <2>2. proc' = [proc EXCEPT ![p] = mine]
            BY <1>5 DEF Proton!ReadState
        <2>3. /\ mine \in ProtonBusy /\ mine.tool = "wine" /\ mine.records = state
              /\ mine.t = proc[p].t /\ mine.at = mine.verb /\ mine.verb = proc[p].verb
              /\ mine.staged = proc[p].staged
            BY <1>1, <1>2, <1>3 DEF ProtonBusy, ProtonSteps, ProtonInv, ProtonTypes
        <2>. HIDE DEF mine
        <2>4. proc'[p] = mine
            BY <2>2, <2>3, PutCommand DEF ProtonInv, ProtonCommand
        <2>5. proc[p].t = 1 /\ proc[p].staged = None
            BY <2>1, <1>1, <1>k DEF WineKnows
        <2>6. WineKnows(p)'
            BY <2>3, <2>4, <2>5, <1>3 DEF WineKnows
        <2>7. DoneWith(p)' = {}
            BY <2>3, <2>4, <2>5, <1>3, ProtonConstants DEF DoneWith, Proton!Exes
        <2>8. WineDone(p)'
            BY <2>3, <2>4, <2>7, <1>0 DEF WineDone, FilesStay
        <2>9. SeenMatch(mine.records)
            BY <2>3 DEF ProtonInv
        <2>. QED BY <1>0, <1>1, <2>2, <2>3, <2>6, <2>8, <2>9, WineChanges
    <1>6. CASE Proton!PrepareTarget(p) /\ proc' # [proc EXCEPT ![p] = Proton!Idle]
        <2>1. /\ proc[p].at = "prepare"
              /\ \/ Proton!Cached(p)
                    /\ proc' = [proc EXCEPT ![p] = Proton!Goes(p, proc[p].records)]
                 \/ Proton!Valid(p) /\ proc' = [proc EXCEPT ![p] = [proc[p] EXCEPT !.at = "identify"]]
                 \/ proc' = [proc EXCEPT ![p] = [proc[p] EXCEPT !.at = "digest"]]
            BY <1>6 DEF Proton!PrepareTarget, Proton!At
        <2>v. proc[p].verb = "prepare" /\ proc[p].staged = None
            BY <2>1, <1>1, <1>k DEF WineKnows
        <2>2. CASE /\ Proton!Cached(p)
                   /\ proc' = [proc EXCEPT ![p] = Proton!Goes(p, proc[p].records)]
            <3>1. Owed("prepare", proc[p].t, proc[p].records[proc[p].t])
                <4>1. /\ proc[p].records[proc[p].t] # None
                      /\ proc[p].records[proc[p].t].seen # "no"
                    BY <2>2 DEF Proton!Cached, Proton!Mine
                <4>2. proc[p].records[proc[p].t].seen \in {"same", "other"}
                    BY <4>1, <1>3 DEF Proton!Records, Proton!Record
                <4>. QED BY <4>1, <4>2, <1>3, <1>k DEF SeenMatch, Owed
            <3>2. \A t \in Proton!Exes : Finished(p, t) =>
                      Owed("prepare", t, proc[p].records[t])
                BY <2>v DEF Finished
            <3>. QED BY <1>0, <1>1, <1>3, <1>k, <2>1, <2>2, <2>v, <3>1, <3>2, WineGoesOn
        <2>3. CASE proc' = [proc EXCEPT ![p] = [proc[p] EXCEPT !.at = "identify"]] /\ Proton!Valid(p)
            <3>1. /\ proc[p].records[proc[p].t] # None
                  /\ <<proc[p].t, proc[p].records[proc[p].t].of>> \in backups
                BY <2>3 DEF Proton!Valid, Proton!Mine
            <3>2. Proton!Steps(p, "identify")
                BY <2>3 DEF Proton!Steps
            <3>3. WineKnows(p)'
                BY <3>1, <3>2, <2>v, <1>0, <1>1, StepFields DEF WineKnows, FilesStay, ProtonSteps
            <3>. QED BY <2>1, <3>2, <3>3, <1>0, <1>1, WineSteps
        <2>4. CASE proc' = [proc EXCEPT ![p] = [proc[p] EXCEPT !.at = "digest"]]
            <3>1. Proton!Steps(p, "digest")
                BY <2>4 DEF Proton!Steps
            <3>2. WineKnows(p)'
                BY <3>1, <2>v, <1>0, <1>1, StepFields DEF WineKnows, FilesStay, ProtonSteps
            <3>. QED BY <2>1, <3>1, <3>2, <1>0, <1>1, WineSteps
        <2>. QED BY <2>1, <2>2, <2>3, <2>4
    <1>7. CASE Proton!Stage(p)
        <2>. DEFINE new == [Proton!Target(p) EXCEPT !.is = "patched"]
                    mine == [proc[p] EXCEPT !.staged = new, !.at = "install"]
        <2>1. proc[p].at = "stage"
            BY <1>7 DEF Proton!Stage, Proton!At
        <2>2. new \in Proton!Exe /\ new.is = "patched"
            <3>1. Proton!Target(p) \in Proton!Exe
                BY <1>3 DEF Proton!Target, ProtonInv, ProtonTypes
            <3>. QED BY <3>1 DEF Proton!Exe
        <2>3. proc' = [proc EXCEPT ![p] = mine]
            BY <1>7 DEF Proton!Stage
        <2>. HIDE DEF new
        <2>4. /\ mine \in ProtonBusy /\ mine.tool = "wine" /\ mine.at = "install"
              /\ mine.verb = proc[p].verb /\ mine.t = proc[p].t
              /\ mine.staged = new /\ mine.read = proc[p].read /\ mine.late = proc[p].late
              /\ mine.records = proc[p].records
            BY <1>1, <1>2, <2>2 DEF ProtonBusy, ProtonSteps
        <2>. HIDE DEF mine
        <2>5. proc'[p] = mine
            BY <2>3, <2>4, PutCommand DEF ProtonInv, ProtonCommand
        <2>6. WineKnows(p)'
            BY <2>1, <2>2, <2>4, <2>5, <1>0, <1>1, <1>k DEF WineKnows, VersionKept, FilesStay
        <2>7. WineDone(p)'
            BY <2>1, <2>4, <2>5, <1>0, <1>1, <1>k DEF WineDone, DoneWith, Finished, Owed, Matches,
               FilesStay, WineKnows
        <2>. QED BY <1>0, <1>1, <1>k, <2>3, <2>4, <2>6, <2>7, WineChanges
    <1>8. CASE Proton!CheckTarget(p) /\ proc' # [proc EXCEPT ![p] = Proton!Idle]
        <2>1. /\ proc[p].at = "check" /\ Proton!Valid(p)
              /\ proc' = [proc EXCEPT ![p] = Proton!Goes(p, proc[p].records)]
            BY <1>8 DEF Proton!CheckTarget, Proton!At
        <2>v. proc[p].verb = "check"
            BY <2>1, <1>1, <1>k DEF WineKnows
        <2>2. Owed("check", proc[p].t, proc[p].records[proc[p].t])
            BY <2>1 DEF Proton!Valid, Proton!Mine, Proton!Target, Matches, Owed
        <2>3. \A t \in Proton!Exes : Finished(p, t) => Owed("check", t, proc[p].records[t])
            BY <2>v DEF Finished
        <2>. QED BY <1>0, <1>1, <1>3, <1>k, <2>1, <2>v, <2>2, <2>3, WineGoesOn
    <1>9. CASE Proton!RestoreTarget(p) /\ proc' # [proc EXCEPT ![p] = Proton!Idle]
        <2>a. Proton!Target(p) = Proton!Mine(p).of /\ Proton!Mine(p).of.is = "original"
                  => Proton!Target(p).is = "original"
            BY Zenon
        <2>b. Proton!Target(p) = [of |-> Proton!Mine(p).patched, is |-> "patched"]
                  => Proton!Target(p).is = "patched"
            OBVIOUS
        <2>c. /\ proc[p].at = "restore"
              /\ \/ Proton!Target(p).is = "original"
                    /\ proc' = [proc EXCEPT ![p] = Proton!Goes(p, proc[p].records)]
                 \/ /\ Proton!Mine(p) # None /\ Proton!Target(p).is = "patched"
                    /\ proc' = [proc EXCEPT ![p] = [proc[p] EXCEPT !.at = "putback"]]
            BY <1>9, <2>a, <2>b DEF Proton!RestoreTarget, Proton!At
        <2>1. /\ proc[p].at = "restore"
              /\ \/ exe[proc[p].t].is = "original"
                    /\ proc' = [proc EXCEPT ![p] = Proton!Goes(p, proc[p].records)]
                 \/ /\ Proton!Mine(p) # None /\ Proton!Target(p).is = "patched"
                    /\ proc' = [proc EXCEPT ![p] = [proc[p] EXCEPT !.at = "putback"]]
            BY <2>c DEF Proton!Target
        <2>v. proc[p].verb = "restore"
            BY <2>1, <1>1, <1>k DEF WineKnows
        <2>2. CASE /\ exe[proc[p].t].is = "original"
                   /\ proc' = [proc EXCEPT ![p] = Proton!Goes(p, proc[p].records)]
            BY <1>0, <1>1, <1>3, <1>k, <2>1, <2>2, <2>v, WineGoesOn
        <2>3. CASE /\ Proton!Mine(p) # None /\ Proton!Target(p).is = "patched"
                   /\ proc' = [proc EXCEPT ![p] = [proc[p] EXCEPT !.at = "putback"]]
            <3>. DEFINE mine == [proc[p] EXCEPT !.at = "putback"]
            <3>1. /\ mine \in ProtonBusy /\ mine.tool = "wine" /\ mine.at = "putback"
                  /\ mine.verb = proc[p].verb /\ mine.t = proc[p].t
                  /\ mine.late = proc[p].late /\ mine.records = proc[p].records
                BY <1>1, <1>2 DEF ProtonBusy, ProtonSteps
            <3>2. proc' = [proc EXCEPT ![p] = mine]
                BY <2>3
            <3>. HIDE DEF mine
            <3>3. proc'[p] = mine
                BY <3>1, <3>2, PutCommand DEF ProtonInv, ProtonCommand
            <3>4. VersionKept(proc[p].t)
                <4>1. VersionKept(proc[p].t) \/ exe[proc[p].t] = Proton!Original(version)
                    BY <1>3 DEF ProtonInv, ExesKept
                <4>. QED BY <4>1, <2>3 DEF Proton!Target, Proton!Original
            <3>5. WineKnows(p)'
                BY <3>1, <3>3, <3>4, <2>3, <2>v, <1>0 DEF WineKnows, VersionKept, FilesStay,
                   Proton!Mine
            <3>6. WineDone(p)'
                BY <3>1, <3>3, <2>1, <2>v, <1>1, <1>0, <1>k DEF WineDone, DoneWith, Finished,
                   Owed, Matches, FilesStay
            <3>. QED BY <1>0, <1>1, <1>k, <3>1, <3>2, <3>5, <3>6, WineChanges
        <2>. QED BY <2>1, <2>2, <2>3
    <1>10. CASE Proton!Digest(p)
        <2>. DEFINE mine == [proc[p] EXCEPT !.read = Proton!Target(p), !.at = "backup"]
        <2>1. proc[p].at = "digest" /\ proc' = [proc EXCEPT ![p] = mine]
            BY <1>10 DEF Proton!Digest, Proton!At
        <2>2. proc[p].verb = "prepare"
            BY <2>1, <1>1, <1>k DEF WineKnows
        <2>3. Proton!Target(p) \in Proton!Exe /\ Proton!Target(p) = exe[proc[p].t]
            BY <1>3 DEF Proton!Target, ProtonInv, ProtonTypes
        <2>4. /\ mine \in ProtonBusy /\ mine.tool = "wine" /\ mine.at = "backup"
              /\ mine.verb = proc[p].verb /\ mine.t = proc[p].t
              /\ mine.read = Proton!Target(p) /\ mine.late = proc[p].late
              /\ mine.records = proc[p].records
            BY <1>1, <1>2, <2>3 DEF ProtonBusy, ProtonSteps
        <2>. HIDE DEF mine
        <2>5. proc'[p] = mine
            BY <2>1, <2>4, PutCommand DEF ProtonInv, ProtonCommand
        <2>6. VersionKept(proc[p].t) \/ mine.read = Proton!Original(version)
            BY <2>3, <2>4, <1>3 DEF ProtonInv, ExesKept
        <2>7. WineKnows(p)'
            BY <2>2, <2>3, <2>4, <2>5, <2>6, <1>0 DEF WineKnows, VersionKept, FilesStay
        <2>8. WineDone(p)'
            BY <2>1, <2>2, <2>4, <2>5, <1>1, <1>0, <1>k DEF WineDone, DoneWith, Finished, Owed,
               Matches, FilesStay
        <2>. QED BY <1>0, <1>1, <1>k, <2>1, <2>4, <2>7, <2>8, WineChanges
    <1>11. CASE Proton!VerifyInstalled(p) /\ proc' # [proc EXCEPT ![p] = Proton!Idle]
        <2>1. proc[p].at = "verify" /\ Proton!Steps(p, "identify")
            BY <1>11 DEF Proton!VerifyInstalled, Proton!At, Proton!Ends
        <2>2. /\ proc[p].verb = "prepare" /\ proc[p].read \in Proton!Exe
              /\ <<proc[p].t, proc[p].read>> \in backups
              /\ proc[p].staged \in Proton!Exe /\ proc[p].staged # None
            BY <2>1, <1>1, <1>k, ProtonConstants DEF WineKnows
        <2>3. WineKnows(p)'
            BY <2>1, <2>2, <1>0, <1>1, StepFields DEF WineKnows, FilesStay, ProtonSteps
        <2>. QED BY <2>1, <2>3, <1>0, <1>1, WineSteps
    <1>12. CASE Proton!RecordIdentities(p)
        <2>. DEFINE t == proc[p].t
        <2>1. proc[p].at = "identify"
            BY <1>12 DEF Proton!RecordIdentities, Proton!At
        <2>v. proc[p].verb = "prepare"
            BY <2>1, <1>1, <1>k DEF WineKnows
        <2>2. CASE proc[p].staged = None
            <3>. DEFINE m == proc[p].records[t]
                        new == [proc[p].records EXCEPT ![t] = Proton!Identified(p, m)]
            <3>1. m \in Proton!Record /\ <<t, m.of>> \in backups
                BY <2>1, <2>2, <1>1, <1>3, <1>k DEF WineKnows, Proton!Records
            <3>2. proc' = [proc EXCEPT ![p] = Proton!Goes(p, new)]
                BY <1>12, <2>2 DEF Proton!RecordIdentities, Proton!Mine
            <3>. HIDE DEF m
            <3>3. /\ new \in Proton!Records /\ SeenMatch(new) /\ Owed("prepare", t, new[t])
                  /\ \A x \in Proton!Exes : x # t => new[x] = proc[p].records[x]
                BY <3>1, <1>3, <1>k, IdentitiesTaken
            <3>. HIDE DEF new
            <3>4. \A x \in Proton!Exes : Finished(p, x) => Owed("prepare", x, new[x])
                BY <2>v, <3>3 DEF Finished
            <3>. QED BY <1>0, <1>1, <2>1, <2>v, <3>2, <3>3, <3>4, WineGoesOn
        <2>3. CASE proc[p].staged # None
            <3>. DEFINE m == [of |-> proc[p].read, patched |-> proc[p].staged.of, seen |-> "no"]
                        new == [proc[p].records EXCEPT ![t] = Proton!Identified(p, m)]
                        mine == [proc[p] EXCEPT !.at = "record", !.records = new]
            <3>1. /\ proc[p].staged \in Proton!Exe /\ proc[p].read \in Proton!Exe
                  /\ <<t, proc[p].read>> \in backups
                BY <2>1, <2>3, <1>1, <1>k DEF WineKnows
            <3>2. proc[p].staged.of \in Proton!Versions
                BY <3>1 DEF Proton!Exe
            <3>3. m \in Proton!Record /\ <<t, m.of>> \in backups
                BY <3>1, <3>2 DEF Proton!Record
            <3>4. proc' = [proc EXCEPT ![p] = mine]
                BY <1>12, <2>3 DEF Proton!RecordIdentities
            <3>. HIDE DEF m
            <3>5. /\ new \in Proton!Records /\ SeenMatch(new) /\ Owed("prepare", t, new[t])
                  /\ \A x \in Proton!Exes : x # t => new[x] = proc[p].records[x]
                BY <3>3, <1>3, <1>k, IdentitiesTaken
            <3>. HIDE DEF new
            <3>6. /\ mine \in ProtonBusy /\ mine.tool = "wine" /\ mine.at = "record"
                  /\ mine.verb = proc[p].verb /\ mine.t = t /\ mine.late = proc[p].late
                  /\ mine.records = new
                BY <1>1, <1>2, <3>5 DEF ProtonBusy, ProtonSteps
            <3>. HIDE DEF mine
            <3>7. proc'[p] = mine
                BY <3>4, <3>6, PutCommand DEF ProtonInv, ProtonCommand
            <3>8. WineKnows(p)'
                BY <3>6, <3>7, <2>v DEF WineKnows
            <3>9. WineDone(p)'
                <4>1. SUFFICES ASSUME ~proc[p].late, NEW x \in DoneWith(p)'
                               PROVE  Finished(p, x)'
                    BY <3>6, <3>7, <2>v DEF WineDone
                <4>2. x \in Proton!Exes /\ (x < t \/ x = t)
                    BY <3>6, <3>7 DEF DoneWith
                <4>3. x # t => Owed("prepare", x, proc[p].records[x])
                    BY <4>1, <4>2, <1>1, <1>k, <2>1, <2>v DEF WineDone, DoneWith, Finished
                <4>4. Owed("prepare", x, new[x])
                    BY <4>2, <4>3, <3>5
                <4>. QED BY <4>4, <3>6, <3>7, <2>v, <1>0 DEF Finished, Owed, Matches, FilesStay
            <3>. QED BY <1>0, <1>1, <3>4, <3>5, <3>6, <3>8, <3>9, WineChanges
        <2>. QED BY <2>2, <2>3
    <1>. QED BY <1>4, <1>5, <1>6, <1>7, <1>8, <1>9, <1>10, <1>11, <1>12

-----------------------------------------------------------------------------
(* The steps of the first tool that write *)

\* Records that are told of what is written stay true.
LEMMA UnseenMatches ==
    ASSUME NEW records \in Proton!Records, SeenMatch(records), NEW ts,
           \A t \in Proton!Exes : t \notin ts => exe'[t] = exe[t], backups \subseteq backups'
    PROVE  LET u == Proton!Unseen(records, ts) IN
           \A t \in Proton!Exes : u[t] # None /\ u[t].seen = "same" =>
               /\ exe'[t] = [of |-> u[t].patched, is |-> "patched"]
               /\ <<t, u[t].of>> \in backups'
    <1>. DEFINE u == Proton!Unseen(records, ts)
    <1>1. \A t \in Proton!Exes : u[t] # None /\ u[t].seen = "same" =>
              t \notin ts /\ records[t] = u[t]
        BY UnseenRecords
    <1>. HIDE DEF u
    <1>2. \A t \in Proton!Exes : u[t] # None /\ u[t].seen = "same" =>
               /\ exe'[t] = [of |-> u[t].patched, is |-> "patched"]
               /\ <<t, u[t].of>> \in backups'
        BY <1>1 DEF SeenMatch, Matches
    <1>. QED BY <1>2 DEF u

LEMMA BackupKept ==
    ASSUME ProtonInv, NEW p \in Procs, Proton!InstallBackup(p)
    PROVE  Good(p)
    <1>0. /\ proc[p].on /\ proc[p].tool = "wine" /\ proc[p].at = "backup"
          /\ UNCHANGED <<version, exe, state, nms, steam, updates, torn>>
        BY DEF Proton!InstallBackup, Proton!At, Proton!Active
    <1>k. SeenMatch(proc[p].records) /\ WineKnows(p) /\ WineDone(p)
        BY <1>0 DEF ProtonInv, Knows
    <1>1. CASE Proton!Ends(p) /\ backups' = backups
        BY <1>0, <1>1, EndsGood DEF FilesStay
    <1>2. CASE /\ Proton!Steps(p, "stage")
               /\ backups' = backups \cup {<<proc[p].t, proc[p].read>>}
        <2>1. /\ proc[p] \in ProtonBusy
              /\ proc' = [proc EXCEPT ![p] = [proc[p] EXCEPT !.at = "stage"]]
              /\ [proc[p] EXCEPT !.at = "stage"] \in ProtonCommand
              /\ proc'[p].on /\ proc'[p].at = "stage" /\ proc'[p].tool = "wine"
              /\ proc'[p].verb = proc[p].verb /\ proc'[p].late = proc[p].late
              /\ proc'[p].records = proc[p].records /\ proc'[p].t = proc[p].t
              /\ proc'[p].read = proc[p].read
            BY <1>0, <1>2, StepFields DEF ProtonSteps
        <2>2. proc' \in [Procs -> ProtonCommand] /\ \A q \in Procs \ {p} : proc'[q] = proc[q]
            BY <2>1, PutCommand DEF ProtonInv
        <2>3. proc[p].t \in Proton!Exes /\ proc[p].read \in Proton!Exe
            BY <1>0, <1>k, <2>1 DEF ProtonBusy, WineKnows
        <2>4. <<proc[p].t, proc[p].read>> \in Proton!Exes \X Proton!Exe
            BY <2>3
        <2>5. ProtonTypes'
            BY <1>0, <1>2, <2>2, <2>4 DEF ProtonInv, ProtonTypes
        <2>6. backups \subseteq backups'
            BY <1>2
        <2>7. ExesKept' /\ OwnedKept' /\ SeenMatch(state)' /\ SeenMatch(proc[p].records)'
            BY <1>0, <1>k, <2>1, <2>6 DEF ProtonInv, ExesKept, OwnedKept, VersionKept,
               SeenMatch, Matches
        <2>8. WineKnows(p)'
            BY <1>0, <1>2, <1>k, <2>1, <2>6 DEF WineKnows, VersionKept
        <2>9. WineDone(p)'
            BY <1>0, <1>k, <2>1, <2>6 DEF WineDone, DoneWith, Finished, Owed, Matches, WineKnows
        <2>10. Knows(p)'
            BY <2>1, <2>7, <2>8, <2>9 DEF Knows, NmsDone, NmsKnows
        <2>11. Private(p)
            BY <1>0, <2>2 DEF Private
        <2>. QED BY <1>0, <2>1, <2>5, <2>6, <2>7, <2>10, <2>11 DEF Good
    <1>. QED BY <1>0, <1>1, <1>2 DEF Proton!InstallBackup

\* What is written by a command of the first tool, and what that command knows then.
LEMMA WineWrites ==
    ASSUME ProtonInv, NEW p \in Procs, NEW mine \in ProtonCommand,
           NEW ts \in SUBSET Proton!Exes, proc[p].on, proc[p].tool = "wine",
           proc' = Proton!Wrote(p, ts, mine), mine.on => mine.tool = "wine",
           UNCHANGED <<version, nms, steam, updates, torn, backups>>,
           exe' \in [Proton!Exes -> Proton!Exe], state' \in Proton!Records,
           \A t \in Proton!Exes \ ts : exe'[t] = exe[t], \A t \in ts : VersionKept(t),
           SeenMatch(state)',
           mine.on => /\ \A t \in Proton!Exes :
                             mine.records[t] # None /\ mine.records[t].seen = "same" =>
                             /\ exe'[t] = [of |-> mine.records[t].patched, is |-> "patched"]
                             /\ <<t, mine.records[t].of>> \in backups
                      /\ proc'[p] = mine => WineKnows(p)' /\ WineDone(p)'
    PROVE  Good(p)
    <1>1. /\ proc' \in [Procs -> ProtonCommand] /\ proc'[p] = mine
          /\ \A q \in Procs \ {p} : Told(q, ts)
        BY WroteCommand DEF ProtonInv
    <1>2. ProtonTypes'
        BY <1>1 DEF ProtonInv, ProtonTypes
    <1>3. ExesKept' /\ OwnedKept'
        BY DEF ProtonInv, ExesKept, OwnedKept, VersionKept
    <1>4. Public(p)
        BY <1>1 DEF Public
    <1>5. Knows(p)'
        <2>1. mine.on => SeenMatch(proc[p].records)'
            BY <1>1 DEF SeenMatch, Matches
        <2>2. mine.on => NmsDone(p)' /\ NmsKnows(p)'
            BY <1>1 DEF NmsDone, NmsKnows
        <2>. QED BY <1>1, <2>1, <2>2 DEF Knows
    <1>. QED BY <1>1, <1>2, <1>3, <1>4, <1>5 DEF Good

LEMMA Installs1 ==
    ASSUME ProtonInv, NEW p \in Procs, Proton!Install(p)
    PROVE  Good(p)
    <1>. DEFINE t == proc[p].t
                told == Proton!Unseen(proc[p].records, {t})
                mine == [proc[p] EXCEPT !.at = "verify", !.records = told]
    <1>0. /\ proc[p].on /\ proc[p].tool = "wine" /\ proc[p].at = "install"
          /\ UNCHANGED <<version, nms, steam, updates, torn, backups>>
          /\ exe' = [exe EXCEPT ![t] = proc[p].staged]
          /\ state' = Proton!Unseen(state, {t})
          /\ proc' = Proton!Wrote(p, {t}, mine)
        BY DEF Proton!Install, Proton!At, Proton!Active
    <1>1. proc[p] \in ProtonBusy
        BY <1>0, BusyFields DEF ProtonInv
    <1>2. t \in Proton!Exes /\ proc[p].records \in Proton!Records
        BY <1>1 DEF ProtonBusy
    <1>k. SeenMatch(proc[p].records) /\ WineKnows(p) /\ WineDone(p)
        BY <1>0 DEF ProtonInv, Knows
    <1>3. /\ proc[p].staged \in Proton!Exe /\ proc[p].staged.is = "patched"
          /\ proc[p].verb = "prepare" /\ proc[p].read \in Proton!Exe
          /\ <<t, proc[p].read>> \in backups /\ VersionKept(t)
        BY <1>0, <1>k DEF WineKnows
    <1>4. /\ exe' \in [Proton!Exes -> Proton!Exe]
          /\ \A x \in Proton!Exes \ {t} : exe'[x] = exe[x]
        BY <1>0, <1>2, <1>3 DEF ProtonInv, ProtonTypes
    <1>5. /\ told \in Proton!Records
          /\ \A x \in Proton!Exes :
                 /\ (told[x] = None) <=> (proc[p].records[x] = None)
                 /\ told[x] # None => /\ told[x].of = proc[p].records[x].of
                                      /\ told[x].patched = proc[p].records[x].patched
                 /\ x # t => told[x] = proc[p].records[x]
        <2>1. \A x \in Proton!Exes : x # t => told[x] = proc[p].records[x]
            BY DEF Proton!Unseen
        <2>2. /\ told \in Proton!Records
              /\ \A x \in Proton!Exes :
                     /\ (told[x] = None) <=> (proc[p].records[x] = None)
                     /\ told[x] # None => /\ told[x].of = proc[p].records[x].of
                                          /\ told[x].patched = proc[p].records[x].patched
            BY <1>2, UnseenRecords
        <2>. HIDE DEF told
        <2>. QED BY <2>1, <2>2
    <1>6. \A x \in Proton!Exes : told[x] # None /\ told[x].seen = "same" =>
               /\ exe'[x] = [of |-> told[x].patched, is |-> "patched"]
               /\ <<x, told[x].of>> \in backups
        BY <1>0, <1>2, <1>k, <1>4, UnseenMatches
    <1>7. state' \in Proton!Records /\ SeenMatch(state)'
        <2>1. state \in Proton!Records /\ SeenMatch(state)
            BY DEF ProtonInv, ProtonTypes
        <2>2. state' \in Proton!Records
            BY <1>0, <2>1, UnseenRecords
        <2>3. \A x \in Proton!Exes : state'[x] # None /\ state'[x].seen = "same" =>
                  /\ exe'[x] = [of |-> state'[x].patched, is |-> "patched"]
                  /\ <<x, state'[x].of>> \in backups'
            BY <1>0, <2>1, <1>4, UnseenMatches
        <2>. QED BY <2>2, <2>3 DEF SeenMatch, Matches
    <1>. HIDE DEF told
    <1>8. /\ mine \in ProtonBusy /\ mine.tool = "wine" /\ mine.at = "verify" /\ mine.t = t
          /\ mine.verb = "prepare" /\ mine.read = proc[p].read
          /\ mine.staged = proc[p].staged /\ mine.late = proc[p].late /\ mine.records = told
        BY <1>0, <1>1, <1>3, <1>5 DEF ProtonBusy, ProtonSteps
    <1>. HIDE DEF mine
    <1>9. ASSUME proc'[p] = mine
          PROVE  WineKnows(p)' /\ WineDone(p)'
        <2>1. WineKnows(p)'
            BY <1>9, <1>8, <1>3, <1>0 DEF WineKnows
        <2>2. SUFFICES ASSUME ~proc[p].late, NEW x \in DoneWith(p)'
                       PROVE  Finished(p, x)'
            BY <2>1, <1>8, <1>9 DEF WineDone
        <2>3. x \in Proton!Exes /\ x < t
            BY <1>8, <1>9 DEF DoneWith
        <2>4. x # t
            BY <2>3, <1>2, ProtonConstants DEF Proton!Exes
        <2>5. Finished(p, x)
            BY <2>2, <2>3, <1>0, <1>k DEF WineDone, DoneWith
        <2>6. Owed("prepare", x, told[x]) /\ exe'[x] = exe[x]
            BY <2>3, <2>4, <2>5, <1>3, <1>4, <1>5 DEF Finished
        <2>. QED BY <2>6, <1>0, <1>3, <1>8, <1>9 DEF Finished, Owed, Matches
    <1>10. mine \in ProtonCommand /\ {t} \in SUBSET Proton!Exes
        BY <1>2, <1>8 DEF ProtonCommand
    <1>11. \A x \in Proton!Exes : mine.records[x] # None /\ mine.records[x].seen = "same" =>
               /\ exe'[x] = [of |-> mine.records[x].patched, is |-> "patched"]
               /\ <<x, mine.records[x].of>> \in backups
        BY <1>6, <1>8
    <1>12. \A x \in {t} : VersionKept(x)
        BY <1>3
    <1>13. proc' = Proton!Wrote(p, {t}, mine)
        BY <1>0 DEF mine
    <1>. HIDE DEF t
    <1>. QED BY <1>0, <1>4, <1>7, <1>8, <1>9, <1>10, <1>11, <1>12, <1>13, WineWrites

LEMMA RecordWritten ==
    ASSUME ProtonInv, NEW p \in Procs, Proton!WriteRecord(p)
    PROVE  Good(p)
    <1>. DEFINE t == proc[p].t
                mine == Proton!Goes(p, proc[p].records)
    <1>0. /\ proc[p].on /\ proc[p].tool = "wine" /\ proc[p].at = "record"
          /\ UNCHANGED <<version, exe, nms, steam, updates, torn, backups>>
          /\ state' = proc[p].records /\ proc' = Proton!Wrote(p, {}, mine)
        BY DEF Proton!WriteRecord, Proton!At, Proton!Active
    <1>1. proc[p] \in ProtonBusy
        BY <1>0, BusyFields DEF ProtonInv
    <1>2. t \in Proton!Exes /\ proc[p].records \in Proton!Records
        BY <1>1 DEF ProtonBusy
    <1>k. SeenMatch(proc[p].records) /\ WineDone(p) /\ proc[p].verb = "prepare"
        BY <1>0 DEF ProtonInv, Knows, WineKnows
    <1>3. SeenMatch(state)'
        BY <1>0, <1>k DEF SeenMatch, Matches
    <1>4. /\ mine \in ProtonBusy /\ mine.tool = "wine" /\ mine.verb = "prepare"
          /\ mine.records = proc[p].records /\ mine.late = proc[p].late /\ mine.staged = None
          /\ mine.at \in {"prepare", "end"}
          /\ \A x \in Proton!Exes : x < mine.t \/ mine.at = "end" => x < t \/ x = t
        BY <1>0, <1>1, <1>2, <1>k, GoesOnFields
    <1>. HIDE DEF mine
    <1>5. ASSUME proc'[p] = mine
          PROVE  WineKnows(p)' /\ WineDone(p)'
        <2>1. WineKnows(p)'
            BY <1>4, <1>5 DEF WineKnows
        <2>2. SUFFICES ASSUME ~proc[p].late, NEW x \in DoneWith(p)'
                       PROVE  Finished(p, x)'
            BY <2>1, <1>4, <1>5 DEF WineDone
        <2>3. x \in Proton!Exes /\ (x < t \/ x = t)
            BY <1>4, <1>5 DEF DoneWith
        <2>4. Finished(p, x)
            BY <2>2, <2>3, <1>0, <1>k DEF WineDone, DoneWith
        <2>. QED BY <2>4, <1>0, <1>4, <1>5, <1>k DEF Finished, Owed, Matches
    <1>6. mine \in ProtonCommand /\ {} \in SUBSET Proton!Exes
        BY <1>4 DEF ProtonCommand
    <1>7. \A x \in Proton!Exes : mine.records[x] # None /\ mine.records[x].seen = "same" =>
               /\ exe'[x] = [of |-> mine.records[x].patched, is |-> "patched"]
               /\ <<x, mine.records[x].of>> \in backups
        BY <1>0, <1>4, <1>k DEF SeenMatch, Matches
    <1>8. exe' \in [Proton!Exes -> Proton!Exe] /\ state' \in Proton!Records
        BY <1>0, <1>2 DEF ProtonInv, ProtonTypes
    <1>. QED BY <1>0, <1>3, <1>4, <1>5, <1>6, <1>7, <1>8, WineWrites

LEMMA PutsBack ==
    ASSUME ProtonInv, NEW p \in Procs, Proton!PutBack(p)
    PROVE  Good(p)
    <1>. DEFINE t == proc[p].t
                back == proc[p].records[t].of
                told == Proton!Unseen(proc[p].records, {t})
                mine == Proton!Goes(p, told)
    <1>0. /\ proc[p].on /\ proc[p].tool = "wine" /\ proc[p].at = "putback"
          /\ UNCHANGED <<version, nms, steam, updates, torn, backups>>
          /\ exe' = [exe EXCEPT ![t] = back]
          /\ state' = Proton!Unseen(state, {t})
          /\ proc' = Proton!Wrote(p, {t}, IF back.is = "original" THEN mine ELSE Proton!Idle)
        BY DEF Proton!PutBack, Proton!Mine, Proton!At, Proton!Active
    <1>1. proc[p] \in ProtonBusy
        BY <1>0, BusyFields DEF ProtonInv
    <1>2. t \in Proton!Exes /\ proc[p].records \in Proton!Records
        BY <1>1 DEF ProtonBusy
    <1>k. SeenMatch(proc[p].records) /\ WineKnows(p) /\ WineDone(p)
        BY <1>0 DEF ProtonInv, Knows
    <1>3. proc[p].records[t] # None /\ proc[p].verb = "restore" /\ VersionKept(t)
        BY <1>0, <1>k DEF WineKnows
    <1>4. back \in Proton!Exe
        BY <1>2, <1>3 DEF Proton!Records, Proton!Record
    <1>. HIDE DEF back
    <1>5. /\ exe' \in [Proton!Exes -> Proton!Exe] /\ exe'[t] = back
          /\ \A x \in Proton!Exes \ {t} : exe'[x] = exe[x]
        BY <1>0, <1>2, <1>4 DEF ProtonInv, ProtonTypes
    <1>6. told \in Proton!Records
        BY <1>2, UnseenRecords
    <1>7. \A x \in Proton!Exes : told[x] # None /\ told[x].seen = "same" =>
               /\ exe'[x] = [of |-> told[x].patched, is |-> "patched"]
               /\ <<x, told[x].of>> \in backups
        BY <1>0, <1>2, <1>k, <1>5, UnseenMatches
    <1>8. state' \in Proton!Records /\ SeenMatch(state)'
        <2>1. state \in Proton!Records /\ SeenMatch(state)
            BY DEF ProtonInv, ProtonTypes
        <2>2. state' \in Proton!Records
            BY <1>0, <2>1, UnseenRecords
        <2>3. \A x \in Proton!Exes : state'[x] # None /\ state'[x].seen = "same" =>
                  /\ exe'[x] = [of |-> state'[x].patched, is |-> "patched"]
                  /\ <<x, state'[x].of>> \in backups'
            BY <1>0, <2>1, <1>5, UnseenMatches
        <2>. QED BY <2>2, <2>3 DEF SeenMatch, Matches
    <1>. HIDE DEF told
    <1>9. /\ mine \in ProtonBusy /\ mine.tool = "wine" /\ mine.verb = "restore"
          /\ mine.records = told /\ mine.late = proc[p].late
          /\ mine.at \in {"restore", "end"}
          /\ \A x \in Proton!Exes : x < mine.t \/ mine.at = "end" => x < t \/ x = t
        BY <1>0, <1>1, <1>3, <1>6, GoesOnFields
    <1>. HIDE DEF mine
    <1>10. ASSUME proc'[p] = mine, back.is = "original"
           PROVE  WineKnows(p)' /\ WineDone(p)'
        <2>1. WineKnows(p)'
            BY <1>10, <1>9 DEF WineKnows
        <2>2. SUFFICES ASSUME ~proc[p].late, NEW x \in DoneWith(p)'
                       PROVE  Finished(p, x)'
            BY <2>1, <1>9, <1>10 DEF WineDone
        <2>3. x \in Proton!Exes /\ (x < t \/ x = t)
            BY <1>9, <1>10 DEF DoneWith
        <2>4. x # t => exe[x].is = "original"
            BY <2>2, <2>3, <1>0, <1>3, <1>k DEF WineDone, DoneWith, Finished
        <2>5. exe'[x].is = "original"
            BY <2>3, <2>4, <1>10, <1>5
        <2>. QED BY <2>5, <1>9, <1>10 DEF Finished
    <1>11. mine \in ProtonCommand /\ {t} \in SUBSET Proton!Exes
        BY <1>2, <1>9 DEF ProtonCommand
    <1>12. \A x \in Proton!Exes : mine.records[x] # None /\ mine.records[x].seen = "same" =>
               /\ exe'[x] = [of |-> mine.records[x].patched, is |-> "patched"]
               /\ <<x, mine.records[x].of>> \in backups
        BY <1>7, <1>9
    <1>13. \A x \in {t} : VersionKept(x)
        BY <1>3
    <1>. HIDE DEF t
    <1>14. CASE back.is = "original"
        <2>1. proc' = Proton!Wrote(p, {t}, mine)
            BY <1>0, <1>14 DEF mine
        <2>. QED BY <1>0, <1>5, <1>8, <1>9, <1>10, <1>11, <1>12, <1>13, <1>14, <2>1, WineWrites
    <1>15. CASE back.is # "original"
        <2>1. proc' = Proton!Wrote(p, {t}, Proton!Idle)
            BY <1>0, <1>15
        <2>2. Proton!Idle \in ProtonCommand /\ ~Proton!Idle.on
            BY DEF ProtonCommand, Proton!Idle
        <2>. QED BY <1>0, <1>5, <1>8, <1>11, <1>13, <2>1, <2>2, WineWrites
    <1>. QED BY <1>14, <1>15

LEMMA WineEnds ==
    ASSUME ProtonInv, NEW p \in Procs, Proton!EndWine(p)
    PROVE  Good(p)
    <1>0. /\ proc[p].on /\ proc[p].tool = "wine"
          /\ UNCHANGED <<version, exe, nms, steam, updates, torn, backups>>
        BY DEF Proton!EndWine, Proton!At, Proton!Active
    <1>1. CASE state' = state /\ Proton!Ends(p)
        BY <1>0, <1>1, EndsGood DEF FilesStay
    <1>2. CASE state' = proc[p].records /\ proc' = Proton!Wrote(p, {}, Proton!Idle)
        <2>1. proc[p].records \in Proton!Records
            BY <1>0, BusyFields DEF ProtonInv, ProtonBusy
        <2>2. SeenMatch(proc[p].records)
            BY <1>0 DEF ProtonInv, Knows
        <2>3. SeenMatch(state)'
            BY <1>0, <1>2, <2>2 DEF SeenMatch, Matches
        <2>4. Proton!Idle \in ProtonCommand /\ ~Proton!Idle.on
            BY DEF ProtonCommand, Proton!Idle
        <2>5. exe' \in [Proton!Exes -> Proton!Exe] /\ {} \in SUBSET Proton!Exes
            BY <1>0 DEF ProtonInv, ProtonTypes
        <2>. QED BY <1>0, <1>2, <2>1, <2>3, <2>4, <2>5, WineWrites
    <1>. QED BY <1>1, <1>2 DEF Proton!EndWine

LEMMA BeginsGood ==
    ASSUME ProtonInv, NEW p \in Procs, Proton!Begin(p)
    PROVE  Good(p)
    <1>1. PICK tool \in {"wine", "nms"}, verb \in {"prepare", "check", "restore"},
               at \in {"state", "running", "check"} :
              /\ IF tool = "wine" THEN at = "state" ELSE at \in {"running", "check"}
              /\ proc' = [proc EXCEPT ![p] =
                     [on |-> TRUE, tool |-> tool, verb |-> verb, at |-> at,
                      t |-> 1, read |-> None, staged |-> None, records |-> state,
                      late |-> FALSE]]
        <2>1. PICK c \in Proton!Commands :
                  proc' = [proc EXCEPT ![p] =
                      [on |-> TRUE, tool |-> c[1], verb |-> c[2],
                       at |-> IF c[1] = "wine" THEN "state"
                              ELSE IF c[2] = "prepare" THEN "running" ELSE "check",
                       t |-> 1, read |-> None, staged |-> None, records |-> state,
                       late |-> FALSE]]
            BY DEF Proton!Begin
        <2>2. c[1] \in {"wine", "nms"} /\ c[2] \in {"prepare", "check", "restore"}
            BY DEF Proton!Commands
        <2>. QED BY <2>1, <2>2
    <1>. DEFINE mine == [on |-> TRUE, tool |-> tool, verb |-> verb, at |-> at,
                         t |-> 1, read |-> None, staged |-> None, records |-> state,
                         late |-> FALSE]
    <1>2. FilesStay
        BY DEF Proton!Begin, FilesStay
    <1>3. state \in Proton!Records /\ 1 \in Proton!Exes /\ SeenMatch(state)
        BY ProtonConstants DEF ProtonInv, ProtonTypes, Proton!Exes
    <1>4. mine \in ProtonCommand /\ mine.on /\ mine.tool = tool /\ mine.at = at /\ mine.t = 1
          /\ mine.records = state /\ mine.verb = verb /\ mine.staged = None
        BY <1>3 DEF ProtonCommand, ProtonBusy, ProtonSteps
    <1>5. proc' = [proc EXCEPT ![p] = mine]
        BY <1>1
    <1>. HIDE DEF mine
    <1>6. /\ proc' \in [Procs -> ProtonCommand] /\ proc'[p] = mine
          /\ \A q \in Procs \ {p} : proc'[q] = proc[q]
        BY <1>4, <1>5, PutCommand DEF ProtonInv
    <1>7. ProtonTypes'
        BY <1>2, <1>6 DEF ProtonInv, ProtonTypes, FilesStay
    <1>8. SeenMatch(proc[p].records)'
        BY <1>2, <1>3, <1>4, <1>6 DEF SeenMatch, Matches, FilesStay
    <1>9. WineKnows(p)' /\ NmsKnows(p)' /\ WineDone(p)' /\ NmsDone(p)'
        BY <1>1, <1>4, <1>6 DEF WineKnows, NmsKnows, WineDone, NmsDone
    <1>10. Knows(p)' /\ Private(p)
        BY <1>2, <1>6, <1>8, <1>9 DEF Knows, Private, FilesStay
    <1>11. ExesKept' /\ OwnedKept' /\ SeenMatch(state)'
        BY <1>2, SharedStays
    <1>. QED BY <1>2, <1>7, <1>10, <1>11 DEF Good, FilesStay

\* Every step of a command.
LEMMA StepGood ==
    ASSUME ProtonInv, NEW p \in Procs, ProtonActs(p)
    PROVE  Good(p)
    <1>1. CASE Proton!Begin(p)
        BY <1>1, BeginsGood
    <1>2. CASE Proton!Wine(p)
        BY <1>2, WineReads, BackupKept, Installs1, RecordWritten, PutsBack, WineEnds
           DEF Proton!Wine
    <1>3. CASE Proton!Nms(p)
        BY <1>3, NmsReads, NmsWrites, CopiesXInput, RenamesBack DEF Proton!Nms
    <1>4. CASE Proton!Fails(p)
        BY <1>4, NmsReads
    <1>. QED BY <1>1, <1>2, <1>3, <1>4 DEF ProtonActs

-----------------------------------------------------------------------------
(* The others, Steam, and the theorems *)

\* What being told leaves of a command.
LEMMA ToldFields ==
    ASSUME ProtonInv, NEW q \in Procs, NEW ts \in SUBSET Proton!Exes, Told(q, ts), proc[q].on
    PROVE  /\ proc'[q].on /\ proc'[q].tool = proc[q].tool /\ proc'[q].verb = proc[q].verb
           /\ proc'[q].at = proc[q].at /\ proc'[q].t = proc[q].t /\ proc'[q].t \in Proton!Exes
           /\ proc'[q].read = proc[q].read /\ proc'[q].staged = proc[q].staged
           /\ proc'[q].late /\ proc[q].records \in Proton!Records
           /\ proc'[q].records = Proton!Unseen(proc[q].records, ts)
    <1>1. proc[q] \in ProtonBusy
        BY BusyFields DEF ProtonInv
    <1>. QED BY <1>1 DEF Told, ProtonBusy

\* Being told, a command knows no less than before of the executable it has in hand.
LEMMA ToldKnows ==
    ASSUME ProtonInv, NEW q \in Procs, NEW ts \in SUBSET Proton!Exes, Told(q, ts), proc[q].on,
           \A t \in Proton!Exes : t \notin ts => exe'[t] = exe[t],
           backups \subseteq backups',
           WineKnows(q) => UNCHANGED <<version, torn>> \/ WineKnows(q)',
           NmsKnows(q) => UNCHANGED torn \/ NmsKnows(q)',
           proc[q].tool = "nms" => UNCHANGED nms \/ NmsKnows(q)'
    PROVE  Knows(q)'
    <1>0. SeenMatch(proc[q].records) /\ WineKnows(q) /\ NmsKnows(q)
        BY DEF ProtonInv, Knows
    <1>. DEFINE u == Proton!Unseen(proc[q].records, ts)
    <1>1. /\ proc'[q].on /\ proc'[q].tool = proc[q].tool /\ proc'[q].verb = proc[q].verb
          /\ proc'[q].at = proc[q].at /\ proc'[q].t = proc[q].t /\ proc'[q].t \in Proton!Exes
          /\ proc'[q].read = proc[q].read /\ proc'[q].staged = proc[q].staged
          /\ proc'[q].late /\ proc[q].records \in Proton!Records
          /\ proc'[q].records = u
        BY ToldFields
    <1>2. \A t \in Proton!Exes : u[t] # None /\ u[t].seen = "same" =>
               /\ exe'[t] = [of |-> u[t].patched, is |-> "patched"]
               /\ <<t, u[t].of>> \in backups'
        BY <1>0, <1>1, UnseenMatches
    <1>3. /\ u[proc[q].t] = None => proc[q].records[proc[q].t] = None
          /\ u[proc[q].t] # None => u[proc[q].t].of = proc[q].records[proc[q].t].of
        BY <1>1, UnseenRecords
    <1>. HIDE DEF u
    <1>4. SeenMatch(proc[q].records)'
        BY <1>1, <1>2 DEF SeenMatch, Matches
    <1>5. WineKnows(q)'
        BY <1>0, <1>1, <1>3 DEF WineKnows, VersionKept
    <1>6. NmsKnows(q)'
        BY <1>0, <1>1 DEF NmsKnows
    <1>7. WineDone(q)' /\ NmsDone(q)'
        BY <1>1 DEF WineDone, NmsDone
    <1>. QED BY <1>4, <1>5, <1>6, <1>7 DEF Knows

\* Only a command of the second tool changes what the second tool makes.
LEMMA NmsIsIts ==
    ASSUME ProtonInv, NEW p \in Procs, ProtonActs(p), nms' # nms
    PROVE  proc[p].on /\ proc[p].tool = "nms"
    BY DEF ProtonActs, Proton!Begin, Proton!Wine, Proton!Nms, Proton!Fails,
       Proton!ReadState, Proton!PrepareTarget, Proton!Digest, Proton!InstallBackup, Proton!Stage,
       Proton!Install, Proton!VerifyInstalled, Proton!RecordIdentities, Proton!WriteRecord,
       Proton!CheckTarget, Proton!RestoreTarget,
       Proton!PutBack, Proton!EndWine, Proton!At, Proton!Active,
       Proton!CheckNms, Proton!NotRunning, Proton!ValidateSource, Proton!BuildStage,
       Proton!SetToolAside, Proton!UpgradeTool, Proton!DropTool, Proton!InstallTool,
       Proton!RenameFails, Proton!PrepareCandidate, Proton!PrepareOpenvr, Proton!CopyOpenvr,
       Proton!KeepOpenvr, Proton!PutOpenvr, Proton!SeeOpenvr, Proton!CopyXInput,
       Proton!PutXInput, Proton!EndNms

LEMMA CommandKeepsInv ==
    ASSUME ProtonInv, NEW p \in Procs, ProtonActs(p)
    PROVE  ProtonInv'
    <1>1. Good(p)
        BY StepGood
    <1>2. ASSUME NEW q \in Procs \ {p}, proc'[q].on
          PROVE  Knows(q)' /\ proc[q].on /\ proc'[q].tool = proc[q].tool
        <2>1. CASE Private(p)
            <3>1. proc'[q] = proc[q] /\ UNCHANGED <<exe, state, nms, version, torn>>
                  /\ backups \subseteq backups'
                BY <1>1, <2>1 DEF Private, Good
            <3>2. Knows(q)
                BY DEF ProtonInv
            <3>3. proc[q].on
                BY <1>2, <3>1
            <3>4. SeenMatch(proc[q].records)'
                BY <3>1, <3>2, <3>3 DEF Knows, SeenMatch, Matches
            <3>5. WineKnows(q)' /\ NmsKnows(q)'
                BY <3>1, <3>2, <3>3 DEF Knows, WineKnows, NmsKnows, VersionKept
            <3>6. WineDone(q)'
                BY <3>1, <3>2, <3>3 DEF Knows, WineDone, DoneWith, Finished, Owed, Matches
            <3>7. NmsDone(q)'
                BY <3>1, <3>2, <3>3 DEF Knows, NmsDone, Proton!Contained, Proton!GameOpenvr,
                   Proton!GameXInput
            <3>. QED BY <3>1, <3>3, <3>4, <3>5, <3>6, <3>7 DEF Knows
        <2>2. CASE Public(p)
            <3>1. PICK ts \in SUBSET Proton!Exes :
                      /\ \A t \in Proton!Exes \ ts : exe'[t] = exe[t]
                      /\ Told(q, ts)
                BY <2>2 DEF Public
            <3>2. proc[q].on
                BY <1>2, <3>1 DEF Told
            <3>3. UNCHANGED <<version, torn>> /\ backups \subseteq backups'
                BY <1>1 DEF Good
            <3>4. proc[q].tool = "nms" => nms' = nms
                BY <3>2, NmsIsIts DEF ProtonInv, OneNms, Proton!Active
            <3>5. \A t \in Proton!Exes : t \notin ts => exe'[t] = exe[t]
                BY <3>1
            <3>6. Knows(q)'
                BY <3>1, <3>2, <3>3, <3>4, <3>5, ToldKnows
            <3>. QED BY <3>1, <3>2, <3>6, ToldFields
        <2>. QED BY <1>1, <2>1, <2>2 DEF Good
    <1>3. \A q \in Procs : Knows(q)'
        <2>1. \A q \in Procs : ~proc'[q].on => Knows(q)'
            BY DEF Knows
        <2>. QED BY <1>1, <1>2, <2>1 DEF Good
    <1>4. OneNms'
        <2>1. SUFFICES ASSUME NEW a \in Procs, NEW b \in Procs, a # b, proc'[a].on, proc'[b].on,
                              proc'[a].tool = "nms", proc'[b].tool = "nms"
                       PROVE  FALSE
            BY DEF OneNms, Proton!Active
        <2>2. CASE ~Proton!Begin(p)
            <3>1. /\ proc[a].on /\ proc[a].tool = "nms"
                  /\ proc[b].on /\ proc[b].tool = "nms"
                BY <1>1, <1>2, <2>1, <2>2 DEF Good
            <3>. QED BY <2>1, <3>1 DEF ProtonInv, OneNms, Proton!Active
        <2>3. CASE Proton!Begin(p)
            <3>1. PICK c \in Proton!Commands :
                      /\ c[1] = "nms" => \A q \in Proton!Active : proc[q].tool # "nms"
                      /\ proc' = [proc EXCEPT ![p] =
                             [on |-> TRUE, tool |-> c[1], verb |-> c[2],
                              at |-> IF c[1] = "wine" THEN "state"
                                     ELSE IF c[2] = "prepare" THEN "running" ELSE "check",
                              t |-> 1, read |-> None, staged |-> None, records |-> state,
                              late |-> FALSE]]
                BY <2>3 DEF Proton!Begin
            <3>2. proc'[p].tool = c[1]
                BY <3>1 DEF ProtonInv, ProtonTypes
            <3>3. ~proc[p].on
                BY <2>3 DEF Proton!Begin
            <3>4. CASE a = p
                <4>1. proc[b].on /\ proc[b].tool = "nms"
                    BY <1>2, <2>1, <3>4
                <4>. QED BY <2>1, <3>1, <3>2, <3>4, <4>1 DEF Proton!Active
            <3>5. CASE b = p
                <4>1. proc[a].on /\ proc[a].tool = "nms"
                    BY <1>2, <2>1, <3>5
                <4>. QED BY <2>1, <3>1, <3>2, <3>5, <4>1 DEF Proton!Active
            <3>6. CASE a # p /\ b # p
                <4>1. /\ proc[a].on /\ proc[a].tool = "nms"
                      /\ proc[b].on /\ proc[b].tool = "nms"
                    BY <1>2, <2>1, <3>6
                <4>. QED BY <2>1, <4>1 DEF ProtonInv, OneNms, Proton!Active
            <3>. QED BY <3>4, <3>5, <3>6
        <2>. QED BY <2>2, <2>3
    <1>. QED BY <1>1, <1>3, <1>4 DEF ProtonInv, Good

LEMMA SteamKeepsInv ==
    ASSUME ProtonInv, Proton!Steam
    PROVE  ProtonInv'
    <1>1. CASE Proton!SteamStarts \/ Proton!SteamStops
        <2>1. /\ UNCHANGED <<version, exe, backups, state, nms, proc, updates, torn>>
              /\ steam' \in {"on", "off"}
            BY <1>1 DEF Proton!SteamStarts, Proton!SteamStops
        <2>2. ProtonTypes' /\ ExesKept' /\ OwnedKept' /\ OneNms' /\ SeenMatch(state)'
            BY <2>1 DEF ProtonInv, ProtonTypes, ExesKept, OwnedKept, OneNms, SeenMatch,
               VersionKept, Matches, Proton!Active
        <2>3. \A p \in Procs : Knows(p)'
            BY <2>1 DEF ProtonInv, Knows, SeenMatch, Matches, WineKnows, VersionKept, WineDone,
               DoneWith, Finished, Owed, NmsDone, NmsKnows, Proton!Contained, Proton!GameOpenvr,
               Proton!GameXInput
        <2>. QED BY <2>2, <2>3 DEF ProtonInv
    <1>. DEFINE Nobody(ts) ==
             /\ proc' \in [Procs -> ProtonCommand] /\ \A q \in Procs : Told(q, ts)
    <1>2. ASSUME NEW ts \in SUBSET Proton!Exes, proc' = Proton!Wrote(None, ts, Proton!Idle)
          PROVE  /\ Nobody(ts)
                 /\ \A q \in Procs : proc'[q].on => proc[q].on /\ proc'[q].tool = proc[q].tool
        <2>1. Proton!Idle \in ProtonCommand
            BY DEF ProtonCommand
        <2>2. Nobody(ts)
            BY <1>2, <2>1, WroteCommand, ProtonConstants DEF ProtonInv
        <2>3. ASSUME NEW q \in Procs, proc'[q].on
              PROVE  proc[q].on /\ proc'[q].tool = proc[q].tool
            <3>1. Told(q, ts)
                BY <2>2
            <3>2. proc[q].on
                BY <2>3, <3>1 DEF Told
            <3>. QED BY <3>1, <3>2, ToldFields
        <2>. QED BY <2>2, <2>3
    <1>3. ASSUME \A q \in Procs : proc'[q].on => proc[q].on /\ proc'[q].tool = proc[q].tool
          PROVE  OneNms'
        BY <1>3 DEF ProtonInv, OneNms, Proton!Active
    <1>4. CASE Proton!UpdateProton
        <2>1. /\ updates < MaxUpdates /\ updates' = updates + 1 /\ version' = version + 1
              /\ exe' = [t \in Proton!Exes |-> Proton!Original(version')]
              /\ state' = Proton!Unseen(state, Proton!Exes)
              /\ proc' = Proton!Wrote(None, Proton!Exes, Proton!Idle)
              /\ torn' = (torn \ Proton!Exes)
                         \cup {proc[p].t : p \in Proton!InHand("wine",
                                               {"backup", "stage", "install", "putback"})}
              /\ UNCHANGED <<backups, nms, steam>>
            BY <1>4 DEF Proton!UpdateProton, Proton!Original
        <2>2. /\ Nobody(Proton!Exes)
              /\ \A q \in Procs : proc'[q].on => proc[q].on /\ proc'[q].tool = proc[q].tool
            BY <2>1, <1>2
        <2>3. /\ updates' \in 0..MaxUpdates /\ version' \in 1..(updates' + 1)
              /\ version + 1 \in Proton!Versions
            BY <2>1, ProtonConstants DEF ProtonInv, ProtonTypes, Proton!Versions
        <2>4. exe' \in [Proton!Exes -> Proton!Exe]
            BY <2>1, <2>3 DEF Proton!Exe, Proton!Original
        <2>6. torn' \subseteq 0..Targets /\ (0 \in torn' <=> 0 \in torn)
            <3>1. \A p \in Proton!InHand("wine", {"backup", "stage", "install", "putback"}) :
                      proc[p].t \in Proton!Exes
                BY BusyFields DEF Proton!InHand, Proton!Active, ProtonInv, ProtonBusy
            <3>2. Proton!Exes \subseteq 0..Targets /\ 0 \notin Proton!Exes
                BY ProtonConstants DEF Proton!Exes
            <3>3. torn \subseteq 0..Targets
                BY DEF ProtonInv, ProtonTypes
            <3>. QED BY <2>1, <3>1, <3>2, <3>3
        <2>7. state' \in Proton!Records /\ SeenMatch(state)'
            <3>1. state \in Proton!Records /\ SeenMatch(state)
                BY DEF ProtonInv, ProtonTypes
            <3>2. /\ state' \in Proton!Records
                  /\ \A t \in Proton!Exes : ~(state'[t] # None /\ state'[t].seen = "same")
                BY <2>1, <3>1, UnseenRecords
            <3>. QED BY <3>2 DEF SeenMatch
        <2>8. ProtonTypes'
            BY <2>1, <2>2, <2>3, <2>4, <2>6, <2>7 DEF ProtonInv, ProtonTypes
        <2>9. ExesKept' /\ OwnedKept'
            BY <2>1, <2>6 DEF ProtonInv, ExesKept, OwnedKept
        <2>10. ASSUME NEW p \in Procs, proc'[p].on
               PROVE  Knows(p)'
            <3>1. Told(p, Proton!Exes) /\ proc[p].on
                BY <2>2, <2>10
            <3>2. /\ proc'[p].tool = proc[p].tool /\ proc'[p].verb = proc[p].verb
                  /\ proc'[p].at = proc[p].at /\ proc'[p].t = proc[p].t
                  /\ proc'[p].t \in Proton!Exes
                  /\ proc'[p].read = proc[p].read /\ proc'[p].staged = proc[p].staged
                  /\ proc[p].records \in Proton!Records
                  /\ proc'[p].records = Proton!Unseen(proc[p].records, Proton!Exes)
                BY <3>1, ToldFields
            <3>3. WineKnows(p) /\ NmsKnows(p)
                BY <3>1 DEF ProtonInv, Knows
            <3>4. proc[p].tool = "wine" /\ proc[p].at \in {"backup", "stage", "install", "putback"}
                      => proc[p].t \in torn'
                BY <2>1, <3>1 DEF Proton!InHand, Proton!Active
            <3>5. /\ proc'[p].records[proc[p].t] = None => proc[p].records[proc[p].t] = None
                  /\ proc'[p].records[proc[p].t] # None =>
                         proc'[p].records[proc[p].t].of = proc[p].records[proc[p].t].of
                BY <3>2, UnseenRecords
            <3>6. WineKnows(p)'
                BY <2>1, <3>2, <3>3, <3>4, <3>5 DEF WineKnows, VersionKept
            <3>7. NmsKnows(p)'
                BY <2>1, <2>6, <3>2, <3>3 DEF NmsKnows
            <3>8. \A t \in Proton!Exes : t \notin Proton!Exes => exe'[t] = exe[t]
                OBVIOUS
            <3>. QED BY <2>1, <3>1, <3>6, <3>7, <3>8, ToldKnows
        <2>11. \A p \in Procs : Knows(p)'
            BY <2>10 DEF Knows
        <2>. QED BY <2>2, <2>7, <2>8, <2>9, <2>11, <1>3 DEF ProtonInv
    <1>5. CASE Proton!UpdateGame
        <2>1. PICK dll \in {"stock", "other"} :
                  nms' = [nms EXCEPT !.openvr = dll, !.owned = dll]
            BY <1>5 DEF Proton!UpdateGame
        <2>2. /\ updates < MaxUpdates /\ updates' = updates + 1
              /\ proc' = Proton!Wrote(None, {}, Proton!Idle)
              /\ torn' = (torn \ {0})
                         \cup IF Proton!InHand("nms", {"copyopenvr", "keepopenvr", "putopenvr"})
                                 = {} THEN {} ELSE {0}
              /\ UNCHANGED <<version, exe, backups, state, steam>>
            BY <1>5 DEF Proton!UpdateGame
        <2>3. /\ Nobody({})
              /\ \A q \in Procs : proc'[q].on => proc[q].on /\ proc'[q].tool = proc[q].tool
            BY <2>2, <1>2
        <2>4. /\ nms' \in NmsFiles /\ nms'.owned = nms'.openvr
            BY <2>1 DEF NmsFiles, ProtonInv, ProtonTypes
        <2>5. torn' \subseteq 0..Targets /\ \A t \in Proton!Exes : t \in torn' <=> t \in torn
            <3>1. 0 \in 0..Targets /\ 0 \notin Proton!Exes
                BY ProtonConstants DEF Proton!Exes
            <3>. QED BY <2>2, <3>1 DEF ProtonInv, ProtonTypes
        <2>6. ProtonTypes'
            BY <2>2, <2>3, <2>4, <2>5, ProtonConstants DEF ProtonInv, ProtonTypes
        <2>7. ExesKept' /\ OwnedKept' /\ SeenMatch(state)'
            BY <2>2, <2>4, <2>5 DEF ProtonInv, ExesKept, OwnedKept, VersionKept, SeenMatch,
               Matches
        <2>8. ASSUME NEW p \in Procs, proc'[p].on
              PROVE  Knows(p)'
            <3>1. Told(p, {}) /\ proc[p].on /\ {} \in SUBSET Proton!Exes
                BY <2>3, <2>8
            <3>2. /\ proc'[p].tool = proc[p].tool /\ proc'[p].verb = proc[p].verb
                  /\ proc'[p].at = proc[p].at /\ proc'[p].t = proc[p].t
                  /\ proc'[p].t \in Proton!Exes
                  /\ proc'[p].read = proc[p].read /\ proc'[p].staged = proc[p].staged
                  /\ proc[p].records \in Proton!Records
                  /\ proc'[p].records = Proton!Unseen(proc[p].records, {})
                BY <3>1, ToldFields
            <3>3. WineKnows(p) /\ NmsKnows(p)
                BY <3>1 DEF ProtonInv, Knows
            <3>4. /\ proc'[p].records[proc[p].t] = None => proc[p].records[proc[p].t] = None
                  /\ proc'[p].records[proc[p].t] # None =>
                         proc'[p].records[proc[p].t].of = proc[p].records[proc[p].t].of
                BY <3>2, UnseenRecords
            <3>5. WineKnows(p)'
                BY <2>2, <2>5, <3>2, <3>3, <3>4 DEF WineKnows, VersionKept
            <3>6. proc[p].tool = "nms" /\ proc[p].at \in {"copyopenvr", "keepopenvr", "putopenvr"}
                      => 0 \in torn'
                BY <2>2, <3>1 DEF Proton!InHand, Proton!Active
            <3>7. NmsKnows(p)'
                BY <3>2, <3>3, <3>6 DEF NmsKnows
            <3>8. \A t \in Proton!Exes : t \notin {} => exe'[t] = exe[t]
                BY <2>2
            <3>. QED BY <2>2, <3>1, <3>5, <3>7, <3>8, ToldKnows
        <2>9. \A p \in Procs : Knows(p)'
            BY <2>8 DEF Knows
        <2>. QED BY <2>3, <2>6, <2>7, <2>9, <1>3 DEF ProtonInv
    <1>6. CASE Proton!ReplaceLoader
        <2>1. /\ state' = Proton!Unseen(state, Proton!Exes)
              /\ proc' = Proton!Wrote(None, Proton!Exes, Proton!Idle)
              /\ UNCHANGED <<version, exe, backups, nms, steam, updates, torn>>
            BY <1>6 DEF Proton!ReplaceLoader
        <2>2. /\ Nobody(Proton!Exes)
              /\ \A q \in Procs : proc'[q].on => proc[q].on /\ proc'[q].tool = proc[q].tool
            BY <2>1, <1>2
        <2>3. state' \in Proton!Records /\ SeenMatch(state)'
            <3>1. state \in Proton!Records
                BY DEF ProtonInv, ProtonTypes
            <3>2. /\ state' \in Proton!Records
                  /\ \A t \in Proton!Exes : ~(state'[t] # None /\ state'[t].seen = "same")
                BY <2>1, <3>1, UnseenRecords
            <3>. QED BY <3>2 DEF SeenMatch
        <2>4. ProtonTypes'
            BY <2>1, <2>2, <2>3 DEF ProtonInv, ProtonTypes
        <2>5. ExesKept' /\ OwnedKept'
            BY <2>1 DEF ProtonInv, ExesKept, OwnedKept, VersionKept
        <2>6. ASSUME NEW p \in Procs, proc'[p].on
              PROVE  Knows(p)'
            <3>1. Told(p, Proton!Exes) /\ proc[p].on
                BY <2>2, <2>6
            <3>2. \A t \in Proton!Exes : t \notin Proton!Exes => exe'[t] = exe[t]
                OBVIOUS
            <3>. QED BY <2>1, <3>1, <3>2, ToldKnows
        <2>7. \A p \in Procs : Knows(p)'
            BY <2>6 DEF Knows
        <2>. QED BY <2>2, <2>3, <2>4, <2>5, <2>7, <1>3 DEF ProtonInv
    <1>. QED BY <1>1, <1>4, <1>5, <1>6 DEF Proton!Steam

LEMMA ProtonStarts ==
    ASSUME Proton!Init
    PROVE  ProtonInv
    <1>1. proc = [p \in Procs |-> Proton!Idle] /\ \A p \in Procs : ~proc[p].on
        BY DEF Proton!Init, Proton!Idle
    <1>2. ProtonTypes
        <2>1. nms \in NmsFiles
            BY DEF Proton!Init, NmsFiles
        <2>2. exe \in [Proton!Exes -> Proton!Exe]
            BY ProtonConstants DEF Proton!Init, Proton!Exe, Proton!Versions
        <2>3. state \in Proton!Records
            BY DEF Proton!Init, Proton!Records
        <2>4. proc \in [Procs -> ProtonCommand]
            BY <1>1 DEF ProtonCommand
        <2>. QED BY <2>1, <2>2, <2>3, <2>4, ProtonConstants DEF Proton!Init, ProtonTypes
    <1>3. ExesKept /\ OwnedKept /\ SeenMatch(state)
        BY DEF Proton!Init, ExesKept, OwnedKept, SeenMatch, Proton!Original
    <1>. QED BY <1>1, <1>2, <1>3 DEF ProtonInv, Knows, OneNms, Proton!Active

LEMMA ProtonKeepsInv ==
    ASSUME ProtonInv, Proton!Next \/ UNCHANGED Proton!vars
    PROVE  ProtonInv'
    <1>1. CASE \E p \in Procs : ProtonActs(p)
        BY <1>1, CommandKeepsInv
    <1>2. CASE Proton!Steam
        BY <1>2, SteamKeepsInv
    <1>3. CASE UNCHANGED Proton!vars
        <2>1. UNCHANGED <<version, exe, backups, state, nms, steam, proc, updates, torn>>
            BY <1>3 DEF Proton!vars
        <2>2. ProtonTypes' /\ ExesKept' /\ OwnedKept' /\ OneNms' /\ SeenMatch(state)'
            BY <2>1 DEF ProtonInv, ProtonTypes, ExesKept, OwnedKept, OneNms, SeenMatch,
               VersionKept, Matches, Proton!Active
        <2>3. \A p \in Procs : Knows(p)'
            BY <2>1 DEF ProtonInv, Knows, SeenMatch, Matches, WineKnows, VersionKept, WineDone,
               DoneWith, Finished, Owed, NmsDone, NmsKnows, Proton!Contained, Proton!GameOpenvr,
               Proton!GameXInput
        <2>. QED BY <2>2, <2>3 DEF ProtonInv
    <1>. QED BY <1>1, <1>2, <1>3 DEF Proton!Next, ProtonActs

LEMMA ProtonTellsKept ==
    ASSUME ProtonInv
    PROVE  Proton!OriginalsKept
    <1>1. \A p \in Proton!Active : proc[p].records \in Proton!Records /\ proc[p].t \in Proton!Exes
        BY BusyFields DEF ProtonInv, Proton!Active, ProtonBusy
    <1>2. version \in Proton!Versions
        BY ProtonConstants DEF ProtonInv, ProtonTypes, Proton!Versions
    <1>3. Proton!TypeOK
        BY <1>1, <1>2 DEF ProtonInv, ProtonTypes, NmsFiles, Proton!TypeOK
    <1>. QED BY <1>3 DEF ProtonInv, ExesKept, OwnedKept, VersionKept, Proton!OriginalsKept

LEMMA ProtonEndsWhole ==
    ASSUME ProtonInv, NEW p \in Proton!Active
    PROVE  Proton!WholeIfEnds(p)
    <1>1. p \in Procs /\ proc[p].on /\ Knows(p)
        BY DEF Proton!Active, ProtonInv
    <1>2. proc[p] \in ProtonBusy
        BY <1>1, BusyFields DEF ProtonInv
    <1>3. SUFFICES ASSUME ~proc[p].late
                   PROVE  /\ Proton!EndWine(p) /\ proc[p].verb = "prepare" =>
                               \A t \in Proton!Exes :
                                   /\ state'[t] # None
                                   /\ state'[t].seen # "other" => Proton!Prepared(t, state'[t])
                          /\ Proton!EndWine(p) /\ proc[p].verb = "check" =>
                               \A t \in Proton!Exes : Proton!Prepared(t, state[t])
                          /\ Proton!EndWine(p) /\ proc[p].verb = "restore" =>
                               \A t \in Proton!Exes : exe[t].is = "original"
                          /\ Proton!EndNms(p) => /\ Proton!Contained /\ nms.candidate
                                                 /\ Proton!GameOpenvr /\ Proton!GameXInput
        BY DEF Proton!WholeIfEnds
    <1>4. Proton!EndWine(p) => \A t \in Proton!Exes : Finished(p, t)
        BY <1>1, <1>3 DEF Proton!EndWine, Proton!At, Knows, WineDone, DoneWith
    <1>5. ASSUME Proton!EndWine(p), proc[p].verb = "prepare", NEW t \in Proton!Exes
          PROVE  /\ state'[t] # None
                 /\ state'[t].seen # "other" => Proton!Prepared(t, state'[t])
        <2>1. state' = proc[p].records
            BY <1>5 DEF Proton!EndWine
        <2>2. Owed("prepare", t, proc[p].records[t])
            BY <1>4, <1>5 DEF Finished
        <2>. QED BY <2>1, <2>2 DEF Owed, Matches, Proton!Prepared
    <1>6. ASSUME Proton!EndWine(p), proc[p].verb = "check", NEW t \in Proton!Exes
          PROVE  Proton!Prepared(t, state[t])
        <2>1. state = proc[p].records
            BY <1>1, <1>3, <1>6 DEF Proton!EndWine, Proton!At, Knows, WineDone
        <2>2. Owed("check", t, proc[p].records[t])
            BY <1>4, <1>6 DEF Finished
        <2>. QED BY <2>1, <2>2 DEF Owed, Matches, Proton!Prepared
    <1>7. Proton!EndWine(p) /\ proc[p].verb = "restore" =>
              \A t \in Proton!Exes : exe[t].is = "original"
        BY <1>4 DEF Finished
    <1>8. Proton!EndNms(p) => /\ Proton!Contained /\ nms.candidate
                              /\ Proton!GameOpenvr /\ Proton!GameXInput
        BY <1>1, <1>3 DEF Proton!EndNms, Proton!At, Knows, NmsDone
    <1>. QED BY <1>5, <1>6, <1>7, <1>8

\* What Steam installed last of Proton and of the game can be had again: the originals are
\* backed up before the executables are replaced (install_backup), the game's library is
\* renamed aside before its stand-in is.
THEOREM OriginalsAreKept == PreparationSpec => []OriginalsKept
    <1>. DEFINE I == part = "proton" => ProtonInv
    <1>1. PreparationInit => I
        BY ProtonStarts DEF PreparationInit
    <1>2. I /\ [PreparationNext]_preparationVars => I'
        <2>1. SUFFICES ASSUME I, [PreparationNext]_preparationVars, part' = "proton"
                       PROVE  ProtonInv'
            OBVIOUS
        <2>2. part = "proton" /\ (Proton!Next \/ UNCHANGED Proton!vars)
            BY <2>1 DEF PreparationNext, preparationVars, onlyProton, both, Proton!vars
        <2>. QED BY <2>1, <2>2, ProtonKeepsInv
    <1>3. I => OriginalsKept
        BY ProtonTellsKept DEF OriginalsKept
    <1>. QED BY <1>1, <1>2, <1>3, PTL DEF PreparationSpec

-----------------------------------------------------------------------------
(* The settings files *)

ToolNames ==
    {"performance", "background", "desktop", "socialclub", "folder", "timeout", "superflight",
     "mouse", "nms", "mapping", "topology"}

StepsOf(p) == Settings!Steps(proc[p].tool, proc[p].verb)
StepOf(p) == StepsOf(p)[proc[p].at]

Recordings == [original : Settings!Setting, configured : Values]
EditBusy ==
    [on : {TRUE}, tool : Settings!Places[place], verb : {"set", "undo"}, value : Values,
     at : Nat, expected : Settings!Content, read : Settings!Content,
     backup : Settings!Content, kept : Recordings \cup {None}, late : BOOLEAN, raced : BOOLEAN]
EditCommand == {Settings!Idle} \cup EditBusy
OwnerUp == [phase : {"running", "closing"}, memory : Settings!Content,
            changed : SUBSET Settings!Places[place]]

EditTypes ==
    /\ place \in DOMAIN Settings!Places
    /\ file \in Settings!Content /\ backups \subseteq Settings!Content
    /\ \A t \in Settings!Recording : record[t] = None \/ record[t] \in Recordings
    /\ DOMAIN record = Settings!Recording
    /\ proc \in [Procs -> EditCommand] /\ sessions \in 0..MaxSessions
    /\ stands \in [Settings!Places[place] -> Settings!Setting \cup {Unsaid}]
    /\ owner = Settings!Off \/ owner = [phase |-> "starting"] \/ owner \in OwnerUp

\* What is said to stand is in the file, and in what the owner will write back.
Stands == \A t \in Settings!Places[place] :
    stands[t] # Unsaid => file.set[t] = stands[t]
OwnerKeeps ==
    owner.phase \in {"running", "closing"} =>
        \A t \in Settings!Places[place] \ owner.changed :
            stands[t] # Unsaid => owner.memory.set[t] = stands[t]

\* What was read can be rendered; for a tool that records, what it needs for that is there.
Renderable(p) ==
    IF proc[p].tool \in Settings!Recording
    THEN proc[p].tool = "background" => proc[p].read.set["background"] # None
    ELSE Settings!Rendered(p, proc[p].read) # NoRender

Touched == {"validated", "recheck", "exists", "copy", "compare", "keep", "record", "recorded",
            "decide", "reread", "replace"}

\* What a command knows at its next step.
EditKnows(p) ==
    /\ proc[p].at \in 1..Len(StepsOf(p))
    /\ ~proc[p].late => IF StepOf(p) = "compare" THEN proc[p].backup = file
                                                 ELSE proc[p].read = file
    /\ owner.phase # "off" =>
           \/ proc[p].raced
           \/ /\ owner.phase \in Settings!Sees(proc[p].tool)
              /\ \E i \in proc[p].at..Len(StepsOf(p)) : StepsOf(p)[i] = "running"
    /\ \/ StepOf(p) \in Touched
       \/ StepOf(p) = "running" /\ proc[p].tool \in Settings!Recording
       => Renderable(p)
    /\ StepOf(p) = "compare" => proc[p].backup \in backups
    /\ StepOf(p) \in {"reread", "replace"} /\ proc[p].tool \notin Settings!Recording
           => proc[p].read \in backups
    /\ StepOf(p) \in {"decide", "running", "replace"} /\ proc[p].tool \in Settings!Recording
           => proc[p].kept \in Recordings
    /\ StepOf(p) \in {"running", "replace"} /\ proc[p].tool \in Settings!Recording
           => proc[p].read.set[proc[p].tool] \in {proc[p].kept.original, proc[p].kept.configured}

EditInv ==
    /\ EditTypes /\ Stands /\ OwnerKeeps
    /\ \A p \in Procs : proc[p].on => EditKnows(p)

-----------------------------------------------------------------------------
(* The tables of steps *)

StepNames ==
    {"look", "running", "read", "validated", "recheck", "exists", "copy", "compare", "keep",
     "record", "recorded", "decide", "reread", "replace", "confirm"}

\* Every table is one of these.
PlainSteps == <<"look", "running", "read", "copy", "compare", "replace", "confirm">>
TimeoutSteps == <<"running", "read", "validated", "copy", "compare", "replace", "confirm">>
TopologySteps ==
    <<"look", "running", "read", "copy", "compare", "reread", "replace", "confirm">>
GraphicsSteps == <<"read", "recheck", "keep", "replace">>
MappingSteps == <<"running", "read", "recheck", "copy", "compare", "replace", "confirm">>
ConfigureSteps ==
    <<"read", "exists", "copy", "record", "decide", "running", "replace", "confirm">>
RestoreSteps == <<"read", "recorded", "decide", "running", "replace">>

\* Two tables after each other.
LEMMA Joined ==
    ASSUME NEW s1 \in Seq(StepNames), NEW s2 \in Seq(StepNames), NEW s \in Seq(StepNames),
           Len(s) = Len(s1) + Len(s2),
           \A i \in 1..Len(s) : s[i] = IF i <= Len(s1) THEN s1[i] ELSE s2[i - Len(s1)]
    PROVE  s1 \o s2 = s
    BY ConcatProperties, SeqEqual

LEMMA StepTables ==
    ASSUME NEW tool \in ToolNames, NEW verb \in {"set", "undo"}
    PROVE  LET s == Settings!Steps(tool, verb) IN
           \/ tool \in {"performance", "superflight", "folder", "desktop", "socialclub"}
                  /\ s = PlainSteps
           \/ tool = "timeout" /\ s = TimeoutSteps
           \/ tool = "topology" /\ s = TopologySteps
           \/ tool = "nms" /\ s = GraphicsSteps
           \/ tool = "mapping" /\ s = MappingSteps
           \/ tool \in Settings!Recording /\ verb = "set" /\ s = ConfigureSteps
           \/ tool \in Settings!Recording /\ verb = "undo" /\ s = RestoreSteps
    <1>1. <<"look", "running">> \o <<"read", "copy", "compare", "replace", "confirm">>
              = PlainSteps
        <2>. DEFINE s1 == <<"look", "running">>
                    s2 == <<"read", "copy", "compare", "replace", "confirm">>
        <2>1. /\ s1 \in Seq(StepNames) /\ s2 \in Seq(StepNames) /\ PlainSteps \in Seq(StepNames)
              /\ Len(s1) = 2 /\ Len(s2) = 5 /\ Len(PlainSteps) = 7
            BY DEF PlainSteps, StepNames
        <2>3. /\ s1[1] = "look" /\ s1[2] = "running" /\ s2[1] = "read" /\ s2[2] = "copy"
              /\ s2[3] = "compare" /\ s2[4] = "replace" /\ s2[5] = "confirm"
            OBVIOUS
        <2>4. /\ PlainSteps[1] = "look" /\ PlainSteps[2] = "running" /\ PlainSteps[3] = "read"
              /\ PlainSteps[4] = "copy" /\ PlainSteps[5] = "compare" /\ PlainSteps[6] = "replace"
              /\ PlainSteps[7] = "confirm"
            BY DEF PlainSteps
        <2>. HIDE DEF s1, s2
        <2>5. /\ Len(PlainSteps) = Len(s1) + Len(s2)
              /\ \A i \in 1..Len(PlainSteps) :
                     PlainSteps[i] = IF i <= Len(s1) THEN s1[i] ELSE s2[i - Len(s1)]
            BY <2>1, <2>3, <2>4
        <2>6. s1 \o s2 = PlainSteps
            BY <2>1, <2>5, Joined
        <2>. QED BY <2>6 DEF s1, s2
    <1>2. <<"running">> \o <<"read", "validated", "copy", "compare", "replace", "confirm">>
              = TimeoutSteps
        <2>. DEFINE s1 == <<"running">>
                    s2 == <<"read", "validated", "copy", "compare", "replace", "confirm">>
        <2>1. /\ s1 \in Seq(StepNames) /\ s2 \in Seq(StepNames) /\ TimeoutSteps \in Seq(StepNames)
              /\ Len(s1) = 1 /\ Len(s2) = 6 /\ Len(TimeoutSteps) = 7
            BY DEF TimeoutSteps, StepNames
        <2>3. /\ s1[1] = "running" /\ s2[1] = "read" /\ s2[2] = "validated" /\ s2[3] = "copy"
              /\ s2[4] = "compare" /\ s2[5] = "replace" /\ s2[6] = "confirm"
            OBVIOUS
        <2>4. /\ TimeoutSteps[1] = "running" /\ TimeoutSteps[2] = "read"
              /\ TimeoutSteps[3] = "validated"
              /\ TimeoutSteps[4] = "copy" /\ TimeoutSteps[5] = "compare"
              /\ TimeoutSteps[6] = "replace"
              /\ TimeoutSteps[7] = "confirm"
            BY DEF TimeoutSteps
        <2>. HIDE DEF s1, s2
        <2>5. /\ Len(TimeoutSteps) = Len(s1) + Len(s2)
              /\ \A i \in 1..Len(TimeoutSteps) :
                     TimeoutSteps[i] = IF i <= Len(s1) THEN s1[i] ELSE s2[i - Len(s1)]
            BY <2>1, <2>3, <2>4
        <2>6. s1 \o s2 = TimeoutSteps
            BY <2>1, <2>5, Joined
        <2>. QED BY <2>6 DEF s1, s2
    <1>3. <<"look", "running">> \o <<"read", "copy", "compare", "reread", "replace", "confirm">>
              = TopologySteps
        <2>. DEFINE s1 == <<"look", "running">>
                    s2 == <<"read", "copy", "compare", "reread", "replace", "confirm">>
        <2>1. /\ s1 \in Seq(StepNames) /\ s2 \in Seq(StepNames) /\ TopologySteps \in Seq(StepNames)
              /\ Len(s1) = 2 /\ Len(s2) = 6 /\ Len(TopologySteps) = 8
            BY DEF TopologySteps, StepNames
        <2>3. /\ s1[1] = "look" /\ s1[2] = "running" /\ s2[1] = "read" /\ s2[2] = "copy"
              /\ s2[3] = "compare" /\ s2[4] = "reread" /\ s2[5] = "replace" /\ s2[6] = "confirm"
            OBVIOUS
        <2>4. /\ TopologySteps[1] = "look" /\ TopologySteps[2] = "running"
              /\ TopologySteps[3] = "read"
              /\ TopologySteps[4] = "copy" /\ TopologySteps[5] = "compare"
              /\ TopologySteps[6] = "reread"
              /\ TopologySteps[7] = "replace" /\ TopologySteps[8] = "confirm"
            BY DEF TopologySteps
        <2>. HIDE DEF s1, s2
        <2>5. /\ Len(TopologySteps) = Len(s1) + Len(s2)
              /\ \A i \in 1..Len(TopologySteps) :
                     TopologySteps[i] = IF i <= Len(s1) THEN s1[i] ELSE s2[i - Len(s1)]
            BY <2>1, <2>3, <2>4
        <2>6. s1 \o s2 = TopologySteps
            BY <2>1, <2>5, Joined
        <2>. QED BY <2>6 DEF s1, s2
    <1>4. <<"read">> \o <<"recheck", "keep", "replace">>
              = GraphicsSteps
        <2>. DEFINE s1 == <<"read">>
                    s2 == <<"recheck", "keep", "replace">>
        <2>1. /\ s1 \in Seq(StepNames) /\ s2 \in Seq(StepNames) /\ GraphicsSteps \in Seq(StepNames)
              /\ Len(s1) = 1 /\ Len(s2) = 3 /\ Len(GraphicsSteps) = 4
            BY DEF GraphicsSteps, StepNames
        <2>3. /\ s1[1] = "read" /\ s2[1] = "recheck" /\ s2[2] = "keep" /\ s2[3] = "replace"
            OBVIOUS
        <2>4. /\ GraphicsSteps[1] = "read" /\ GraphicsSteps[2] = "recheck"
              /\ GraphicsSteps[3] = "keep"
              /\ GraphicsSteps[4] = "replace"
            BY DEF GraphicsSteps
        <2>. HIDE DEF s1, s2
        <2>5. /\ Len(GraphicsSteps) = Len(s1) + Len(s2)
              /\ \A i \in 1..Len(GraphicsSteps) :
                     GraphicsSteps[i] = IF i <= Len(s1) THEN s1[i] ELSE s2[i - Len(s1)]
            BY <2>1, <2>3, <2>4
        <2>6. s1 \o s2 = GraphicsSteps
            BY <2>1, <2>5, Joined
        <2>. QED BY <2>6 DEF s1, s2
    <1>5. <<"running", "read">> \o <<"recheck", "copy", "compare", "replace", "confirm">>
              = MappingSteps
        <2>. DEFINE s1 == <<"running", "read">>
                    s2 == <<"recheck", "copy", "compare", "replace", "confirm">>
        <2>1. /\ s1 \in Seq(StepNames) /\ s2 \in Seq(StepNames) /\ MappingSteps \in Seq(StepNames)
              /\ Len(s1) = 2 /\ Len(s2) = 5 /\ Len(MappingSteps) = 7
            BY DEF MappingSteps, StepNames
        <2>3. /\ s1[1] = "running" /\ s1[2] = "read" /\ s2[1] = "recheck" /\ s2[2] = "copy"
              /\ s2[3] = "compare" /\ s2[4] = "replace" /\ s2[5] = "confirm"
            OBVIOUS
        <2>4. /\ MappingSteps[1] = "running" /\ MappingSteps[2] = "read"
              /\ MappingSteps[3] = "recheck"
              /\ MappingSteps[4] = "copy" /\ MappingSteps[5] = "compare"
              /\ MappingSteps[6] = "replace"
              /\ MappingSteps[7] = "confirm"
            BY DEF MappingSteps
        <2>. HIDE DEF s1, s2
        <2>5. /\ Len(MappingSteps) = Len(s1) + Len(s2)
              /\ \A i \in 1..Len(MappingSteps) :
                     MappingSteps[i] = IF i <= Len(s1) THEN s1[i] ELSE s2[i - Len(s1)]
            BY <2>1, <2>3, <2>4
        <2>6. s1 \o s2 = MappingSteps
            BY <2>1, <2>5, Joined
        <2>. QED BY <2>6 DEF s1, s2
    <1>6. CASE tool \in {"performance", "superflight", "folder", "desktop", "socialclub"}
        BY <1>1, <1>6 DEF Settings!Steps, Settings!MainPerformance, Settings!ApplyPerformance,
           Settings!MainSuperflight, Settings!ApplySuperflight, Settings!MainFolder,
           Settings!ApplyFolder, Settings!MainDesktop, Settings!ApplyDesktop,
           Settings!MainSocialClub, Settings!ApplySocialClub
    <1>7. CASE tool = "timeout"
        BY <1>2, <1>7 DEF Settings!Steps, Settings!MainTimeout, Settings!ApplyTimeout
    <1>8. CASE tool = "topology"
        BY <1>3, <1>8 DEF Settings!Steps, Settings!MainTopology, Settings!ApplyTopology
    <1>9. CASE tool = "nms"
        BY <1>4, <1>9 DEF Settings!Steps, Settings!MainGraphics, Settings!ApplyGraphics
    <1>10. CASE tool = "mapping"
        BY <1>5, <1>10 DEF Settings!Steps, Settings!MainMapping, Settings!ApplyMapping
    <1>11. CASE tool \in Settings!Recording
        BY <1>11 DEF Settings!Steps, Settings!Recording, Settings!ConfigureBackground,
           Settings!ConfigureMouse, Settings!RestoreBackground, Settings!RestoreMouse,
           ConfigureSteps, RestoreSteps
    <1>. QED BY <1>6, <1>7, <1>8, <1>9, <1>10, <1>11 DEF ToolNames, Settings!Recording

\* What the tables have in common.  recording: the tool is one that keeps a record.
TableFacts(recording, s) ==
    /\ Len(s) \in Nat /\ 1 \in 1..Len(s)
    /\ s[1] \in {"look", "running", "read"}
    /\ recording => s[1] = "read"
    /\ \A i \in 1..Len(s) :
        /\ s[i] \in StepNames
        /\ s[i] = "copy" /\ ~recording => i + 1 \in 1..Len(s) /\ s[i + 1] = "compare"
        /\ s[i] = "compare" => ~recording
        /\ s[i] \in {"running", "read", "copy", "reread", "exists", "record", "recorded"}
               => i + 1 \in 1..Len(s)
        /\ s[i] \in {"exists", "record", "recorded", "decide"} => recording
        /\ s[i] = "replace" => \A j \in i..Len(s) : s[j] # "running"
    /\ \A i \in 1..Len(s) : i + 1 \in 1..Len(s) =>
        /\ s[i + 1] = "compare" => s[i] = "copy" /\ ~recording
        /\ (s[i + 1] \in Touched \/ (s[i + 1] = "running" /\ recording))
               => (s[i] \in Touched \cup {"read"} \/ (s[i] = "running" /\ recording))
        /\ s[i + 1] \in {"reread", "replace"} /\ ~recording
               => s[i] \in {"compare", "keep", "reread"}
        /\ s[i + 1] = "decide" => s[i] \in {"record", "recorded"}
        /\ s[i + 1] = "running" /\ recording => s[i] = "decide"
        /\ s[i + 1] = "replace" /\ recording => s[i] = "running"
        /\ s[i] = "replace" => s[i + 1] = "confirm"

LEMMA TablesTold ==
    /\ TableFacts(FALSE, PlainSteps) /\ TableFacts(FALSE, TimeoutSteps)
    /\ TableFacts(FALSE, TopologySteps) /\ TableFacts(FALSE, GraphicsSteps)
    /\ TableFacts(FALSE, MappingSteps) /\ TableFacts(TRUE, ConfigureSteps)
    /\ TableFacts(TRUE, RestoreSteps)
    <1>1. TableFacts(FALSE, PlainSteps)
        <2>1. /\ Len(PlainSteps) = 7
              /\ PlainSteps[1] = "look" /\ PlainSteps[2] = "running" /\ PlainSteps[3] = "read"
              /\ PlainSteps[4] = "copy" /\ PlainSteps[5] = "compare" /\ PlainSteps[6] = "replace"
              /\ PlainSteps[7] = "confirm"
            BY DEF PlainSteps
        <2>. QED BY <2>1 DEF TableFacts, Touched, StepNames
    <1>2. TableFacts(FALSE, TimeoutSteps)
        <2>1. /\ Len(TimeoutSteps) = 7
              /\ TimeoutSteps[1] = "running" /\ TimeoutSteps[2] = "read"
              /\ TimeoutSteps[3] = "validated"
              /\ TimeoutSteps[4] = "copy" /\ TimeoutSteps[5] = "compare"
              /\ TimeoutSteps[6] = "replace"
              /\ TimeoutSteps[7] = "confirm"
            BY DEF TimeoutSteps
        <2>. QED BY <2>1 DEF TableFacts, Touched, StepNames
    <1>3. TableFacts(FALSE, TopologySteps)
        <2>1. /\ Len(TopologySteps) = 8
              /\ TopologySteps[1] = "look" /\ TopologySteps[2] = "running"
              /\ TopologySteps[3] = "read"
              /\ TopologySteps[4] = "copy" /\ TopologySteps[5] = "compare"
              /\ TopologySteps[6] = "reread"
              /\ TopologySteps[7] = "replace" /\ TopologySteps[8] = "confirm"
            BY DEF TopologySteps
        <2>. QED BY <2>1 DEF TableFacts, Touched, StepNames
    <1>4. TableFacts(FALSE, GraphicsSteps)
        <2>1. /\ Len(GraphicsSteps) = 4
              /\ GraphicsSteps[1] = "read" /\ GraphicsSteps[2] = "recheck"
              /\ GraphicsSteps[3] = "keep"
              /\ GraphicsSteps[4] = "replace"
            BY DEF GraphicsSteps
        <2>. QED BY <2>1 DEF TableFacts, Touched, StepNames
    <1>5. TableFacts(FALSE, MappingSteps)
        <2>1. /\ Len(MappingSteps) = 7
              /\ MappingSteps[1] = "running" /\ MappingSteps[2] = "read"
              /\ MappingSteps[3] = "recheck"
              /\ MappingSteps[4] = "copy" /\ MappingSteps[5] = "compare"
              /\ MappingSteps[6] = "replace"
              /\ MappingSteps[7] = "confirm"
            BY DEF MappingSteps
        <2>. QED BY <2>1 DEF TableFacts, Touched, StepNames
    <1>6. TableFacts(TRUE, ConfigureSteps)
        <2>1. /\ Len(ConfigureSteps) = 8
              /\ ConfigureSteps[1] = "read" /\ ConfigureSteps[2] = "exists"
              /\ ConfigureSteps[3] = "copy" /\ ConfigureSteps[4] = "record"
              /\ ConfigureSteps[5] = "decide" /\ ConfigureSteps[6] = "running"
              /\ ConfigureSteps[7] = "replace"
              /\ ConfigureSteps[8] = "confirm"
            BY DEF ConfigureSteps
        <2>. QED BY <2>1 DEF TableFacts, Touched, StepNames
    <1>7. TableFacts(TRUE, RestoreSteps)
        <2>1. /\ Len(RestoreSteps) = 5
              /\ RestoreSteps[1] = "read" /\ RestoreSteps[2] = "recorded"
              /\ RestoreSteps[3] = "decide"
              /\ RestoreSteps[4] = "running" /\ RestoreSteps[5] = "replace"
            BY DEF RestoreSteps
        <2>. QED BY <2>1 DEF TableFacts, Touched, StepNames
    <1>. QED BY <1>1, <1>2, <1>3, <1>4, <1>5, <1>6, <1>7

LEMMA TablesOfTools ==
    ASSUME NEW tool \in ToolNames, NEW verb \in {"set", "undo"}
    PROVE  LET s == Settings!Steps(tool, verb) IN
           /\ TableFacts(tool \in Settings!Recording, s)
           /\ Settings!Sees(tool) # {} => \E i \in 1..Len(s) : s[i] = "running"
    <1>. DEFINE s == Settings!Steps(tool, verb)
    <1>1. TableFacts(tool \in Settings!Recording, s)
        <2>1. CASE tool \in Settings!Recording
            <3>1. (tool \in Settings!Recording) = TRUE
                BY <2>1
            <3>2. s = ConfigureSteps \/ s = RestoreSteps
                BY <2>1, StepTables DEF Settings!Recording
            <3>. QED BY <3>1, <3>2, TablesTold
        <2>2. CASE tool \notin Settings!Recording
            <3>1. (tool \in Settings!Recording) = FALSE
                BY <2>2
            <3>2. s \in {PlainSteps, TimeoutSteps, TopologySteps, GraphicsSteps, MappingSteps}
                BY <2>2, StepTables
            <3>. QED BY <3>1, <3>2, TablesTold
        <2>. QED BY <2>1, <2>2
    <1>2. ASSUME Settings!Sees(tool) # {}
          PROVE  \E i \in 1..Len(s) : s[i] = "running"
        <2>1. tool # "nms" /\ tool # "topology"
            <3>1. Settings!Sees("nms") = {} /\ Settings!Sees("topology") = {}
                BY DEF Settings!Sees, Settings!RunningTopology, Settings!Recording
            <3>. QED BY <1>2, <3>1
        <2>2. s \in {PlainSteps, TimeoutSteps, MappingSteps, ConfigureSteps, RestoreSteps}
            BY <2>1, StepTables
        <2>3. /\ 2 \in 1..Len(PlainSteps) /\ PlainSteps[2] = "running"
              /\ 1 \in 1..Len(TimeoutSteps) /\ TimeoutSteps[1] = "running"
              /\ 1 \in 1..Len(MappingSteps) /\ MappingSteps[1] = "running"
              /\ 6 \in 1..Len(ConfigureSteps) /\ ConfigureSteps[6] = "running"
              /\ 4 \in 1..Len(RestoreSteps) /\ RestoreSteps[4] = "running"
            BY DEF PlainSteps, TimeoutSteps, MappingSteps, ConfigureSteps, RestoreSteps
        <2>. HIDE DEF s
        <2>. QED BY <2>2, <2>3
    <1>. QED BY <1>1, <1>2

-----------------------------------------------------------------------------
(* What a step does to a command and to the others *)

LEMMA SettingsConstants ==
    /\ MaxEdits \in Nat /\ MaxSessions \in Nat /\ Values # {}
    /\ None \notin Recordings
    BY PreparationAssumption DEF PreparationAssumption, Settings!SettingsEditAssumption,
       Recordings, Settings!Setting

LEMMA PlaceTools ==
    ASSUME EditTypes
    PROVE  Settings!Places[place] \subseteq ToolNames
    BY DEF EditTypes, Settings!Places, ToolNames

LEMMA EditFields ==
    ASSUME EditTypes, NEW p \in Procs, proc[p].on
    PROVE  /\ proc[p] \in EditBusy
           /\ proc[p].tool \in Settings!Places[place] /\ proc[p].tool \in ToolNames
           /\ proc[p].verb \in {"set", "undo"} /\ proc[p].value \in Values
           /\ proc[p].at \in Nat /\ proc[p].read \in Settings!Content
           /\ proc[p].backup \in Settings!Content /\ proc[p].kept \in Recordings \cup {None}
           /\ proc[p].read.set[proc[p].tool] \in Settings!Setting
           /\ TableFacts(proc[p].tool \in Settings!Recording, StepsOf(p))
           /\ Settings!Sees(proc[p].tool) # {} =>
                  \E i \in 1..Len(StepsOf(p)) : StepsOf(p)[i] = "running"
    <1>1. proc[p] \in EditBusy
        BY DEF EditTypes, EditCommand, Settings!Idle
    <1>2. /\ proc[p].tool \in Settings!Places[place]
          /\ proc[p].verb \in {"set", "undo"} /\ proc[p].value \in Values
          /\ proc[p].at \in Nat /\ proc[p].read \in Settings!Content
          /\ proc[p].backup \in Settings!Content /\ proc[p].kept \in Recordings \cup {None}
        BY <1>1 DEF EditBusy
    <1>3. proc[p].tool \in ToolNames
        BY <1>2, PlaceTools
    <1>4. proc[p].read.set[proc[p].tool] \in Settings!Setting
        BY <1>2 DEF Settings!Content, Settings!Settings
    <1>. QED BY <1>1, <1>2, <1>3, <1>4, TablesOfTools DEF StepsOf

\* What a tool makes of a setting is a setting, or a refusal.
LEMMA RenderType ==
    ASSUME EditTypes, NEW t \in ToolNames, NEW old \in Settings!Setting,
           NEW verb \in {"set", "undo"}, NEW v \in Values, NEW k \in Recordings \cup {None},
           t \in Settings!Recording => k \in Recordings
    PROVE  /\ Settings!Render(t, old, verb, v, k) \in Settings!Setting \cup {NoRender}
           /\ t \in Settings!Recording /\ (t = "background" => old # None)
                  => Settings!Render(t, old, verb, v, k) \in Settings!Setting
    <1>1. v \in Settings!Setting /\ None \in Settings!Setting /\ Other \in Settings!Setting
        BY DEF Settings!Setting
    <1>2. CASE t = "performance"
        BY <1>1, <1>2 DEF Settings!Render, Settings!RenderPerformance, Settings!Recording
    <1>3. CASE t = "superflight"
        BY <1>1, <1>3 DEF Settings!Render, Settings!RenderSuperflight, Settings!Recording
    <1>4. CASE t = "nms"
        BY <1>1, <1>4 DEF Settings!Render, Settings!RenderGraphics, Settings!Recording
    <1>5. CASE t = "folder"
        BY <1>1, <1>5 DEF Settings!Render, Settings!RenderFolder, Settings!Recording
    <1>6. CASE t = "timeout"
        BY <1>1, <1>6 DEF Settings!Render, Settings!RenderTimeout, Settings!Recording
    <1>7. CASE t = "desktop"
        BY <1>1, <1>7 DEF Settings!Render, Settings!RenderDesktop, Settings!Recording,
           Settings!EnableValue, Settings!DisableValue
    <1>8. CASE t = "socialclub"
        BY <1>1, <1>8 DEF Settings!Render, Settings!RenderSocialClub, Settings!Recording,
           Settings!EnableValue, Settings!DisableValue
    <1>9. CASE t = "mapping"
        BY <1>1, <1>9 DEF Settings!Render, Settings!RenderMapping, Settings!Recording
    <1>10. CASE t = "topology"
        BY <1>1, <1>10 DEF Settings!Render, Settings!RenderTopology, Settings!Recording
    <1>11. CASE t = "background"
        <2>1. k.original \in Settings!Setting
            BY <1>11 DEF Recordings, Settings!Recording
        <2>. QED BY <1>1, <1>11, <2>1 DEF Settings!Render, Settings!RenderBackground
    <1>12. CASE t = "mouse"
        <2>1. k.original \in Settings!Setting
            BY <1>12 DEF Recordings, Settings!Recording
        <2>. QED BY <1>1, <1>12, <2>1 DEF Settings!Render, Settings!RenderMouse
    <1>. QED BY <1>2, <1>3, <1>4, <1>5, <1>6, <1>7, <1>8, <1>9, <1>10, <1>11, <1>12
         DEF ToolNames

\* Only a tool that records looks at a record.
LEMMA RenderStays ==
    ASSUME NEW t \in ToolNames \ Settings!Recording, NEW old, NEW verb, NEW v, NEW k
    PROVE  Settings!Render(t, old, verb, v, k)' = Settings!Render(t, old, verb, v, k)
    BY DEF ToolNames, Settings!Recording, Settings!Render, Settings!RenderPerformance,
       Settings!RenderSuperflight, Settings!RenderGraphics, Settings!RenderFolder,
       Settings!RenderTimeout, Settings!RenderDesktop, Settings!RenderSocialClub,
       Settings!RenderMapping, Settings!RenderTopology, Settings!EnableValue,
       Settings!DisableValue

LEMMA RenderableStays ==
    ASSUME EditTypes, NEW q \in Procs, proc[q].on, Renderable(q),
           proc'[q].tool = proc[q].tool, proc'[q].verb = proc[q].verb,
           proc'[q].value = proc[q].value, proc'[q].read = proc[q].read,
           proc[q].tool \notin Settings!Recording => proc'[q].kept = proc[q].kept
    PROVE  Renderable(q)'
    <1>1. CASE proc[q].tool \in Settings!Recording
        BY <1>1 DEF Renderable, Settings!Recording
    <1>2. CASE proc[q].tool \notin Settings!Recording
        <2>. DEFINE old == proc[q].read.set[proc[q].tool]
        <2>1. proc[q].tool \in ToolNames \ Settings!Recording
            BY <1>2, EditFields
        <2>2. Settings!Render(proc[q].tool, old, proc[q].verb, proc[q].value, proc[q].kept)
                  # NoRender
            BY <1>2 DEF Renderable, Settings!Rendered
        <2>3. CASE TRUE
            <3>. PICK t \in ToolNames \ Settings!Recording : t = proc[q].tool
                BY <2>1
            <3>1. PICK o, w, v, k : o = old /\ w = proc[q].verb /\ v = proc[q].value
                                    /\ k = proc[q].kept
                OBVIOUS
            <3>2. Settings!Render(t, o, w, v, k)' # NoRender
                BY <2>2, <3>1, RenderStays
            <3>. QED BY <3>1, <3>2, <1>2 DEF Renderable, Settings!Rendered, Settings!Recording
        <2>. QED BY <2>3
    <1>. QED BY <1>1, <1>2

\* What no step of a command but Replace, and nobody else, does to the files and the records.
FilesGrow ==
    /\ UNCHANGED <<place, file, owner, sessions, stands>>
    /\ backups \subseteq backups' /\ backups' \subseteq Settings!Content
    /\ DOMAIN record' = Settings!Recording
    /\ \A t \in Settings!Recording : record'[t] = None \/ record'[t] \in Recordings

\* A command that only changes itself, and adds to backups and records.
LEMMA EditOwnChange ==
    ASSUME EditInv, NEW p \in Procs, NEW mine \in EditCommand, FilesGrow,
           proc' = [proc EXCEPT ![p] = mine],
           mine.on /\ proc'[p] = mine => EditKnows(p)'
    PROVE  EditInv'
    <1>1. /\ proc' \in [Procs -> EditCommand] /\ proc'[p] = mine
          /\ \A q \in Procs \ {p} : proc'[q] = proc[q]
        BY DEF EditInv, EditTypes
    <1>2. EditCommand' = EditCommand /\ OwnerUp' = OwnerUp /\ Settings!Content' = Settings!Content
          /\ Settings!Settings' = Settings!Settings
          /\ Settings!Places[place]' = Settings!Places[place]
        BY DEF EditCommand, EditBusy, OwnerUp, FilesGrow, Settings!Content, Settings!Settings,
           Recordings, Settings!Setting
    <1>3. EditTypes'
        BY <1>1, <1>2 DEF EditInv, EditTypes, FilesGrow
    <1>4. Stands' /\ OwnerKeeps'
        BY DEF EditInv, FilesGrow, Stands, OwnerKeeps
    <1>5. ASSUME NEW q \in Procs \ {p}, proc'[q].on
          PROVE  EditKnows(q)'
        <2>1. proc'[q] = proc[q] /\ EditKnows(q) /\ proc[q].on
            BY <1>1, <1>5 DEF EditInv
        <2>2. StepsOf(q)' = StepsOf(q) /\ StepOf(q)' = StepOf(q)
            BY <2>1 DEF StepsOf, StepOf, Settings!Steps
        <2>3. Renderable(q) => Renderable(q)'
            BY <2>1, RenderableStays DEF EditInv
        <2>4. Settings!Sees(proc[q].tool)' = Settings!Sees(proc[q].tool)
            BY <2>1 DEF Settings!Sees
        <2>. QED BY <2>1, <2>2, <2>3, <2>4 DEF EditKnows, FilesGrow
    <1>. QED BY <1>1, <1>3, <1>4, <1>5 DEF EditInv

LEMMA EditEnds ==
    ASSUME EditInv, NEW p \in Procs, FilesGrow, Settings!Ends(p)
    PROVE  EditInv'
    <1>1. Settings!Idle \in EditCommand /\ ~Settings!Idle.on
        BY DEF EditCommand, Settings!Idle
    <1>. QED BY <1>1, EditOwnChange DEF Settings!Ends

\* A command goes on to its next step: what that step may rely on.
LEMMA EditGoesOn ==
    ASSUME EditInv, NEW p \in Procs, proc[p].on, FilesGrow, NEW mine \in EditBusy,
           proc' = [proc EXCEPT ![p] = mine],
           mine.tool = proc[p].tool, mine.verb = proc[p].verb, mine.value = proc[p].value,
           mine.at = proc[p].at + 1, mine.at \in 1..Len(StepsOf(p)),
           NEW next, next = StepsOf(p)[mine.at],
           ~mine.late => IF next = "compare" THEN mine.backup = file ELSE mine.read = file,
           IF StepOf(p) = "running" THEN owner.phase # "off" => mine.raced
                                    ELSE mine.raced = proc[p].raced,
           IF StepOf(p) = "read" THEN proc'[p] = mine => Renderable(p)'
                                 ELSE mine.read = proc[p].read,
           next = "compare" => mine.backup \in backups',
           StepOf(p) \in {"compare", "keep"} /\ next \in {"reread", "replace"}
               => mine.read \in backups',
           StepOf(p) \notin {"exists", "record", "recorded"} => mine.kept = proc[p].kept,
           StepOf(p) \in {"record", "recorded"} => mine.kept \in Recordings,
           StepOf(p) = "decide" =>
               mine.read.set[proc[p].tool] \in {mine.kept.original, mine.kept.configured}
    PROVE  EditInv'
    <1>. DEFINE s == StepsOf(p)
                i == proc[p].at
                rec == proc[p].tool \in Settings!Recording
    <1>1. /\ EditKnows(p) /\ i \in 1..Len(s) /\ TableFacts(rec, s) /\ i \in Nat
        BY EditFields DEF EditInv, EditKnows
    <1>2. mine \in EditCommand
        BY DEF EditCommand
    <1>3. ASSUME proc'[p] = mine
          PROVE  EditKnows(p)'
        <2>1. StepsOf(p)' = s /\ StepOf(p)' = next /\ StepOf(p) = s[i] /\ next = s[i + 1]
            BY <1>3 DEF StepsOf, StepOf, Settings!Steps
        <2>2. i + 1 \in 1..Len(s)
            OBVIOUS
        <2>. HIDE DEF s, i, rec
        <2>k. ~rec => mine.kept = proc[p].kept
            BY <1>1, <2>1 DEF TableFacts
        <2>3. proc'[p].at \in 1..Len(StepsOf(p)')
            BY <1>3, <2>1 DEF s
        <2>4. ~mine.late => IF next = "compare" THEN mine.backup = file' ELSE mine.read = file'
            BY DEF FilesGrow
        <2>5. owner'.phase # "off" =>
                 \/ mine.raced
                 \/ /\ owner'.phase \in Settings!Sees(proc[p].tool)
                    /\ \E j \in (i + 1)..Len(s) : s[j] = "running"
            <3>1. owner' = owner
                BY DEF FilesGrow
            <3>2. CASE StepOf(p) = "running"
                BY <3>1, <3>2
            <3>3. CASE StepOf(p) # "running"
                <4>1. SUFFICES ASSUME owner.phase # "off", ~mine.raced
                               PROVE  /\ owner'.phase \in Settings!Sees(proc[p].tool)
                                      /\ \E j \in (i + 1)..Len(s) : s[j] = "running"
                    BY <3>1
                <4>2. /\ owner.phase \in Settings!Sees(proc[p].tool)
                      /\ \E j \in i..Len(s) : s[j] = "running"
                    BY <1>1, <3>3, <4>1 DEF EditKnows, s, i
                <4>3. PICK j \in i..Len(s) : s[j] = "running"
                    BY <4>2
                <4>4. j # i
                    BY <2>1, <3>3, <4>3
                <4>5. j \in (i + 1)..Len(s)
                    BY <1>1, <4>3, <4>4, <2>2
                <4>. QED BY <3>1, <4>2, <4>3, <4>5
            <3>. QED BY <3>2, <3>3
        <2>6. (next \in Touched \/ (next = "running" /\ rec)) => Renderable(p)'
            <3>1. CASE StepOf(p) = "read"
                BY <1>3, <3>1
            <3>2. CASE StepOf(p) # "read"
                <4>1. SUFFICES ASSUME next \in Touched \/ (next = "running" /\ rec)
                               PROVE  Renderable(p)'
                    OBVIOUS
                <4>2. StepOf(p) \in Touched \/ (StepOf(p) = "running" /\ rec)
                    BY <1>1, <2>1, <2>2, <3>2, <4>1 DEF TableFacts
                <4>3. Renderable(p)
                    BY <1>1, <4>2 DEF EditKnows, rec
                <4>. QED BY <1>3, <2>k, <3>2, <4>3, RenderableStays DEF EditInv, rec
            <3>. QED BY <3>1, <3>2
        <2>7. next \in {"reread", "replace"} /\ ~rec => mine.read \in backups'
            <3>1. SUFFICES ASSUME next \in {"reread", "replace"}, ~rec
                           PROVE  mine.read \in backups'
                OBVIOUS
            <3>2. StepOf(p) \in {"compare", "keep", "reread"}
                BY <1>1, <2>1, <2>2, <3>1 DEF TableFacts
            <3>3. CASE StepOf(p) = "reread"
                BY <1>1, <3>1, <3>3 DEF EditKnows, rec, FilesGrow
            <3>. QED BY <3>1, <3>2, <3>3
        <2>8. next \in {"decide", "running", "replace"} /\ rec => mine.kept \in Recordings
            <3>1. SUFFICES ASSUME next \in {"decide", "running", "replace"}, rec
                           PROVE  mine.kept \in Recordings
                OBVIOUS
            <3>2. StepOf(p) \in {"record", "recorded", "decide", "running"}
                BY <1>1, <2>1, <2>2, <3>1 DEF TableFacts
            <3>3. CASE StepOf(p) \in {"decide", "running"}
                BY <1>1, <3>1, <3>3 DEF EditKnows, rec
            <3>. QED BY <3>2, <3>3
        <2>9. next \in {"running", "replace"} /\ rec =>
                  mine.read.set[proc[p].tool] \in {mine.kept.original, mine.kept.configured}
            <3>1. SUFFICES ASSUME next \in {"running", "replace"}, rec
                           PROVE  mine.read.set[proc[p].tool]
                                      \in {mine.kept.original, mine.kept.configured}
                OBVIOUS
            <3>2. StepOf(p) \in {"decide", "running"}
                BY <1>1, <2>1, <2>2, <3>1 DEF TableFacts
            <3>3. CASE StepOf(p) = "running"
                <4>1. mine.kept = proc[p].kept /\ mine.read = proc[p].read
                    BY <3>3
                <4>2. proc[p].read.set[proc[p].tool]
                          \in {proc[p].kept.original, proc[p].kept.configured}
                    BY <1>1, <3>1, <3>3 DEF EditKnows, rec
                <4>. QED BY <4>1, <4>2
            <3>. QED BY <3>2, <3>3
        <2>10. Settings!Sees(proc[p].tool)' = Settings!Sees(proc[p].tool)
            BY <1>3 DEF Settings!Sees
        <2>11. /\ proc'[p].late = mine.late /\ proc'[p].backup = mine.backup
               /\ proc'[p].read = mine.read /\ proc'[p].raced = mine.raced
               /\ proc'[p].tool = proc[p].tool /\ proc'[p].at = i + 1
               /\ proc'[p].kept = mine.kept
            BY <1>3 DEF i
        <2>12. proc'[p].tool \in Settings!Recording <=> rec
            BY <2>11 DEF rec
        <2>13. ~proc'[p].late => IF StepOf(p)' = "compare" THEN proc'[p].backup = file'
                                                          ELSE proc'[p].read = file'
            BY <2>1, <2>4, <2>11
        <2>14. owner'.phase # "off" =>
                   \/ proc'[p].raced
                   \/ /\ owner'.phase \in Settings!Sees(proc[p].tool)'
                      /\ \E j \in proc'[p].at..Len(StepsOf(p)') : StepsOf(p)'[j] = "running"
            BY <2>1, <2>5, <2>10, <2>11
        <2>15. (\/ StepOf(p)' \in Touched
                \/ StepOf(p)' = "running" /\ proc'[p].tool \in Settings!Recording)
                => Renderable(p)'
            BY <2>1, <2>6, <2>12
        <2>16. /\ StepOf(p)' = "compare" => proc'[p].backup \in backups'
               /\ StepOf(p)' \in {"reread", "replace"} /\ proc'[p].tool \notin Settings!Recording
                      => proc'[p].read \in backups'
            BY <2>1, <2>7, <2>11, <2>12
        <2>17. StepOf(p)' \in {"decide", "running", "replace"}
                   /\ proc'[p].tool \in Settings!Recording
                      => proc'[p].kept \in Recordings
            BY <2>1, <2>8, <2>11, <2>12
        <2>18. StepOf(p)' \in {"running", "replace"} /\ proc'[p].tool \in Settings!Recording
                   => proc'[p].read.set[proc'[p].tool] \in {proc'[p].kept.original,
                                                            proc'[p].kept.configured}
            BY <2>1, <2>9, <2>11, <2>12
        <2>. QED BY <2>3, <2>13, <2>14, <2>15, <2>16, <2>17, <2>18 DEF EditKnows, Touched
    <1>. QED BY <1>2, <1>3, EditOwnChange

-----------------------------------------------------------------------------
(* The steps of a command *)

\* A step that leaves the files and the records alone.
LEMMA FilesSame ==
    ASSUME EditInv, UNCHANGED <<place, file, backups, record, owner, sessions, stands>>
    PROVE  FilesGrow
    BY DEF EditInv, EditTypes, FilesGrow

\* Where a command is, said with the lemmas' words.
LEMMA EditAt ==
    ASSUME EditInv, NEW p \in Procs, NEW step, Settings!At(p, step)
    PROVE  /\ proc[p].on /\ StepOf(p) = step /\ EditKnows(p) /\ proc[p].at \in 1..Len(StepsOf(p))
           /\ proc[p].at \in Nat
           /\ TableFacts(proc[p].tool \in Settings!Recording, StepsOf(p))
           /\ proc[p] \in EditBusy /\ proc[p].tool \in Settings!Places[place]
           /\ proc[p].tool \in ToolNames /\ proc[p].value \in Values
           /\ proc[p].verb \in {"set", "undo"} /\ proc[p].read \in Settings!Content
           /\ proc[p].read.set[proc[p].tool] \in Settings!Setting
           /\ proc[p].kept \in Recordings \cup {None}
    <1>1. proc[p].on /\ StepOf(p) = step
        BY DEF Settings!At, Settings!Active, StepOf, StepsOf
    <1>2. EditKnows(p) /\ proc[p].at \in 1..Len(StepsOf(p))
        BY <1>1 DEF EditInv, EditKnows
    <1>. QED BY <1>1, <1>2, EditFields DEF EditInv

\* What a step makes of a command.
LEMMA BusyStays ==
    ASSUME NEW r \in EditBusy, NEW c \in Settings!Content, NEW b \in BOOLEAN,
           NEW k \in Recordings \cup {None}
    PROVE  /\ [r EXCEPT !.at = @ + 1] \in EditBusy
           /\ [r EXCEPT !.raced = b] \in EditBusy
           /\ [r EXCEPT !.read = c, !.late = b] \in EditBusy
           /\ [r EXCEPT !.backup = c, !.late = b] \in EditBusy
           /\ [r EXCEPT !.late = b] \in EditBusy
           /\ [r EXCEPT !.kept = k] \in EditBusy
    <1>. DEFINE r1 == [r EXCEPT !.at = @ + 1]
                r2 == [r EXCEPT !.raced = b]
                r3 == [r EXCEPT !.read = c, !.late = b]
                r4 == [r EXCEPT !.backup = c, !.late = b]
                r5 == [r EXCEPT !.late = b]
                r6 == [r EXCEPT !.kept = k]
    <1>1. r1 \in EditBusy
        <2>1. r.at + 1 \in Nat
            BY DEF EditBusy
        <2>. PICK n \in Nat : n = r.at + 1
            BY <2>1
        <2>2. [r EXCEPT !.at = n] \in EditBusy
            BY DEF EditBusy
        <2>. QED BY <2>2
    <1>2. r2 \in EditBusy
        BY DEF EditBusy
    <1>3. r3 \in EditBusy
        BY DEF EditBusy
    <1>4. r4 \in EditBusy
        BY DEF EditBusy
    <1>5. r5 \in EditBusy
        BY DEF EditBusy
    <1>6. r6 \in EditBusy
        BY DEF EditBusy
    <1>. QED BY <1>1, <1>2, <1>3, <1>4, <1>5, <1>6

\* A command goes on, or is through, without finding anything out.
LEMMA EditGoes ==
    ASSUME EditInv, NEW p \in Procs, NEW step, Settings!At(p, step), FilesGrow,
           Settings!Goes(p),
           step \notin {"running", "read"},
           step = "copy" => proc[p].tool \in Settings!Recording,
           step = "compare" => proc[p].backup = proc[p].read,
           step \in {"compare", "keep"} => proc[p].read \in backups',
           step \in {"record", "recorded"} => proc[p].kept \in Recordings,
           step = "decide" =>
               proc[p].read.set[proc[p].tool] \in {proc[p].kept.original, proc[p].kept.configured}
    PROVE  EditInv'
    <1>. DEFINE s == StepsOf(p)
                i == proc[p].at
                rec == proc[p].tool \in Settings!Recording
                mine == [proc[p] EXCEPT !.at = @ + 1]
    <1>1. /\ proc[p].on /\ s[i] = step /\ StepOf(p) = step /\ EditKnows(p) /\ i \in 1..Len(s)
          /\ i \in Nat /\ TableFacts(rec, s) /\ proc[p] \in EditBusy
        BY EditAt DEF StepOf
    <1>2. CASE Settings!Ends(p)
        BY <1>2, EditEnds
    <1>3. CASE ~Settings!Ends(p)
        <2>1. ~Settings!AtEnd(p) /\ proc' = [proc EXCEPT ![p].at = @ + 1]
            BY <1>3 DEF Settings!Goes
        <2>2. proc' = [proc EXCEPT ![p] = mine]
            BY <2>1
        <2>3. i # Len(s)
            BY <2>1 DEF Settings!AtEnd, StepsOf
        <2>4. mine \in EditBusy
            BY <1>1, BusyStays DEF EditInv, EditTypes
        <2>5. /\ mine.tool = proc[p].tool /\ mine.verb = proc[p].verb /\ mine.value = proc[p].value
              /\ mine.at = i + 1 /\ mine.late = proc[p].late /\ mine.raced = proc[p].raced
              /\ mine.read = proc[p].read /\ mine.backup = proc[p].backup
              /\ mine.kept = proc[p].kept
            BY <1>1 DEF EditBusy
        <2>. HIDE DEF mine, s, i
        <2>6. i + 1 \in 1..Len(s)
            BY <1>1, <2>3 DEF TableFacts
        <2>. PICK next : next = s[i + 1]
            OBVIOUS
        <2>7. next # "compare"
            BY <1>1, <2>6 DEF TableFacts, rec
        <2>8. mine.at \in 1..Len(StepsOf(p)) /\ next = StepsOf(p)[mine.at]
            BY <2>5, <2>6 DEF s
        <2>9. ~mine.late => IF next = "compare" THEN mine.backup = file ELSE mine.read = file
            BY <1>1, <2>5, <2>7 DEF EditKnows
        <2>10. IF StepOf(p) = "running" THEN owner.phase # "off" => mine.raced
                                        ELSE mine.raced = proc[p].raced
            BY <1>1, <2>5
        <2>11. IF StepOf(p) = "read" THEN proc'[p] = mine => Renderable(p)'
                                     ELSE mine.read = proc[p].read
            BY <1>1, <2>5
        <2>12. next = "compare" => mine.backup \in backups'
            BY <2>7
        <2>13. StepOf(p) \in {"compare", "keep"} /\ next \in {"reread", "replace"}
                   => mine.read \in backups'
            BY <1>1, <2>5
        <2>14. /\ StepOf(p) \in {"record", "recorded"} => mine.kept \in Recordings
               /\ StepOf(p) = "decide" =>
                      mine.read.set[proc[p].tool] \in {mine.kept.original, mine.kept.configured}
            BY <1>1, <2>5
        <2>15. mine.at = proc[p].at + 1
            BY <2>5 DEF i
        <2>. QED
            BY <1>1, <2>2, <2>4, <2>5, <2>8, <2>9, <2>10, <2>11, <2>12, <2>13, <2>14, <2>15,
               EditGoesOn
    <1>. QED BY <1>2, <1>3

LEMMA EditLook ==
    ASSUME EditInv, NEW p \in Procs, Settings!Look(p)
    PROVE  EditInv'
    BY EditEnds, EditGoes, FilesSame DEF Settings!Look

LEMMA EditRunning ==
    ASSUME EditInv, NEW p \in Procs, Settings!Running(p)
    PROVE  EditInv'
    <1>. DEFINE mine == [[proc[p] EXCEPT !.raced = owner.phase # "off"] EXCEPT !.at = @ + 1]
                i == proc[p].at
                s == StepsOf(p)
    <1>1. FilesGrow /\ Settings!At(p, "running")
        BY FilesSame DEF Settings!Running
    <1>2. /\ proc[p].on /\ StepOf(p) = "running" /\ s[i] = "running" /\ EditKnows(p)
          /\ i \in 1..Len(s) /\ i \in Nat
          /\ TableFacts(proc[p].tool \in Settings!Recording, s) /\ proc[p] \in EditBusy
        BY <1>1, EditAt DEF StepOf
    <1>3. CASE Settings!Ends(p)
        BY <1>1, <1>3, EditEnds
    <1>4. CASE ~Settings!Ends(p)
        <2>1. proc' = [proc EXCEPT ![p] = mine]
            BY <1>4 DEF Settings!Running, Settings!GoesWith
        <2>2. mine \in EditBusy
            BY <1>2, BusyStays DEF EditInv, EditTypes
        <2>3. /\ mine.tool = proc[p].tool /\ mine.verb = proc[p].verb /\ mine.value = proc[p].value
              /\ mine.at = i + 1 /\ mine.late = proc[p].late /\ mine.raced = (owner.phase # "off")
              /\ mine.read = proc[p].read /\ mine.backup = proc[p].backup
              /\ mine.kept = proc[p].kept
            BY <1>2 DEF EditBusy
        <2>. HIDE DEF mine, s, i
        <2>. PICK next : next = s[i + 1]
            OBVIOUS
        <2>4. i + 1 \in 1..Len(s) /\ next # "compare"
            BY <1>2 DEF TableFacts
        <2>5. mine.at \in 1..Len(StepsOf(p)) /\ next = StepsOf(p)[mine.at]
            BY <2>3, <2>4 DEF s
        <2>6. ~mine.late => IF next = "compare" THEN mine.backup = file ELSE mine.read = file
            BY <1>2, <2>3, <2>4 DEF EditKnows
        <2>7. IF StepOf(p) = "running" THEN owner.phase # "off" => mine.raced
                                       ELSE mine.raced = proc[p].raced
            BY <1>2, <2>3
        <2>8. IF StepOf(p) = "read" THEN proc'[p] = mine => Renderable(p)'
                                    ELSE mine.read = proc[p].read
            BY <1>2, <2>3
        <2>9. mine.at = proc[p].at + 1
            BY <2>3 DEF i
        <2>. QED BY <1>1, <1>2, <2>1, <2>2, <2>3, <2>4, <2>5, <2>6, <2>7, <2>8, <2>9, EditGoesOn
    <1>. QED BY <1>3, <1>4

LEMMA EditValidated ==
    ASSUME EditInv, NEW p \in Procs, Settings!Validated(p)
    PROVE  EditInv'
    BY EditEnds, EditGoes, FilesSame DEF Settings!Validated

LEMMA EditRecheck ==
    ASSUME EditInv, NEW p \in Procs, Settings!Recheck(p)
    PROVE  EditInv'
    BY EditEnds, EditGoes, FilesSame DEF Settings!Recheck

LEMMA EditConfirm ==
    ASSUME EditInv, NEW p \in Procs, Settings!Confirm(p)
    PROVE  EditInv'
    BY EditEnds, FilesSame DEF Settings!Confirm

LEMMA EditFails ==
    ASSUME EditInv, NEW p \in Procs, Settings!Fails(p)
    PROVE  EditInv'
    BY EditEnds, FilesSame DEF Settings!Fails

\* A command that has looked at the file goes on.
LEMMA EditGoesWith ==
    ASSUME EditInv, NEW p \in Procs, NEW step \in {"read", "copy", "reread"},
           Settings!At(p, step), FilesGrow, NEW looked \in EditBusy,
           Settings!GoesWith(p, looked),
           looked.tool = proc[p].tool, looked.verb = proc[p].verb, looked.value = proc[p].value,
           looked.at = proc[p].at, looked.raced = proc[p].raced, looked.kept = proc[p].kept,
           step = "copy" => /\ proc[p].tool \notin Settings!Recording
                            /\ looked.backup = file /\ file \in backups',
           step # "copy" => looked.read = file,
           step = "read" => Renderable(p)',
           step # "read" => looked.read = proc[p].read
    PROVE  EditInv'
    <1>. DEFINE s == StepsOf(p)
                i == proc[p].at
                mine == [looked EXCEPT !.at = @ + 1]
    <1>1. /\ proc[p].on /\ s[i] = step /\ StepOf(p) = step /\ EditKnows(p) /\ i \in 1..Len(s)
          /\ i \in Nat /\ TableFacts(proc[p].tool \in Settings!Recording, s)
        BY EditAt DEF StepOf
    <1>2. proc' = [proc EXCEPT ![p] = mine]
        BY DEF Settings!GoesWith
    <1>3. mine \in EditBusy
        <2>1. PICK b \in BOOLEAN, c \in Settings!Content : c = file
            BY DEF EditInv, EditTypes
        <2>. QED BY <2>1, BusyStays
    <1>4. /\ mine.tool = proc[p].tool /\ mine.verb = proc[p].verb /\ mine.value = proc[p].value
          /\ mine.at = i + 1 /\ mine.raced = proc[p].raced
          /\ mine.read = looked.read /\ mine.backup = looked.backup /\ mine.kept = proc[p].kept
        BY DEF EditBusy
    <1>. HIDE DEF mine, s, i
    <1>. PICK next : next = s[i + 1]
        OBVIOUS
    <1>5. i + 1 \in 1..Len(s) /\ (next = "compare" <=> step = "copy")
        BY <1>1 DEF TableFacts
    <1>6. mine.at \in 1..Len(StepsOf(p)) /\ next = StepsOf(p)[mine.at]
        BY <1>4, <1>5 DEF s
    <1>7. ~mine.late => IF next = "compare" THEN mine.backup = file ELSE mine.read = file
        BY <1>4, <1>5
    <1>8. IF StepOf(p) = "running" THEN owner.phase # "off" => mine.raced
                                   ELSE mine.raced = proc[p].raced
        BY <1>1, <1>4
    <1>9. IF StepOf(p) = "read" THEN proc'[p] = mine => Renderable(p)'
                                ELSE mine.read = proc[p].read
        BY <1>1, <1>4
    <1>10. next = "compare" => mine.backup \in backups'
        BY <1>4, <1>5
    <1>11. mine.at = proc[p].at + 1
        BY <1>4 DEF i
    <1>12. StepOf(p) \notin {"compare", "keep", "record", "recorded", "decide"}
        BY <1>1
    <1>. QED
        BY <1>1, <1>2, <1>3, <1>4, <1>6, <1>7, <1>8, <1>9, <1>10, <1>11, <1>12, EditGoesOn

LEMMA EditRead ==
    ASSUME EditInv, NEW p \in Procs, Settings!Read(p)
    PROVE  EditInv'
    <1>. DEFINE looked == [proc[p] EXCEPT !.read = file, !.late = FALSE]
                t == proc[p].tool
    <1>1. FilesGrow /\ Settings!At(p, "read")
        BY FilesSame DEF Settings!Read
    <1>2. /\ proc[p] \in EditBusy /\ t \in ToolNames /\ file \in Settings!Content
          /\ proc[p].on /\ p \in Procs
        BY <1>1, EditAt DEF EditInv, EditTypes
    <1>3. CASE Settings!Ends(p)
        BY <1>1, <1>3, EditEnds
    <1>4. CASE ~Settings!Ends(p)
        <2>1. /\ Settings!GoesWith(p, looked)
              /\ t = "background" => file.set[t] # None
              /\ t \notin Settings!Recording => Settings!Rendered(p, file) # NoRender
            BY <1>4 DEF Settings!Read, Settings!Recording
        <2>2. looked \in EditBusy
            BY <1>2, BusyStays
        <2>3. /\ looked.tool = proc[p].tool /\ looked.verb = proc[p].verb
              /\ looked.value = proc[p].value
              /\ looked.at = proc[p].at /\ looked.raced = proc[p].raced /\ looked.read = file
              /\ looked.kept = proc[p].kept
            BY <1>2 DEF EditBusy
        <2>4. /\ proc'[p].read = file /\ proc'[p].tool = t /\ proc'[p].verb = proc[p].verb
              /\ proc'[p].value = proc[p].value /\ proc'[p].kept = proc[p].kept
            <3>1. proc' = [proc EXCEPT ![p] = [looked EXCEPT !.at = @ + 1]]
                BY <2>1 DEF Settings!GoesWith
            <3>2. proc \in [Procs -> EditCommand]
                BY DEF EditInv, EditTypes
            <3>3. proc'[p] = [looked EXCEPT !.at = @ + 1]
                BY <3>1, <3>2
            <3>. HIDE DEF looked
            <3>. QED BY <2>2, <2>3, <3>3 DEF EditBusy
        <2>. HIDE DEF looked, t
        <2>5. Renderable(p)'
            <3>1. CASE t \in Settings!Recording
                BY <2>1, <2>4, <3>1 DEF Renderable, Settings!Recording
            <3>2. CASE t \notin Settings!Recording
                <4>. PICK x \in ToolNames \ Settings!Recording : x = t
                    BY <1>2, <3>2
                <4>. PICK o, w, v, k : o = file.set[x] /\ w = proc[p].verb /\ v = proc[p].value
                                       /\ k = proc[p].kept
                    OBVIOUS
                <4>1. Settings!Render(x, o, w, v, k) # NoRender
                    BY <2>1, <3>2 DEF Settings!Rendered, t
                <4>2. Settings!Render(x, o, w, v, k)' # NoRender
                    BY <4>1, RenderStays
                <4>. QED BY <2>4, <3>2, <4>2 DEF Renderable, Settings!Rendered, Settings!Recording
            <3>. QED BY <3>1, <3>2
        <2>. PICK step \in {"read", "copy", "reread"} : step = "read"
            OBVIOUS
        <2>. QED BY <1>1, <2>1, <2>2, <2>3, <2>5, EditGoesWith
    <1>. QED BY <1>3, <1>4

LEMMA EditCopy ==
    ASSUME EditInv, NEW p \in Procs, Settings!Copy(p)
    PROVE  EditInv'
    <1>. DEFINE looked == [proc[p] EXCEPT !.backup = file, !.late = FALSE]
    <1>1. FilesGrow /\ Settings!At(p, "copy")
        BY DEF Settings!Copy, FilesGrow, EditInv, EditTypes
    <1>2. CASE proc[p].tool \in Settings!Recording
        BY <1>1, <1>2, EditGoes DEF Settings!Copy
    <1>3. CASE proc[p].tool \notin Settings!Recording
        <2>1. Settings!GoesWith(p, looked) /\ file \in backups'
            BY <1>3 DEF Settings!Copy
        <2>2. proc[p] \in EditBusy /\ file \in Settings!Content
            BY <1>1, EditAt DEF EditInv, EditTypes
        <2>3. looked \in EditBusy
            BY <2>2, BusyStays
        <2>4. /\ looked.tool = proc[p].tool /\ looked.verb = proc[p].verb
              /\ looked.value = proc[p].value
              /\ looked.at = proc[p].at /\ looked.raced = proc[p].raced
              /\ looked.read = proc[p].read /\ looked.kept = proc[p].kept
              /\ looked.backup = file
            BY <2>2 DEF EditBusy
        <2>. HIDE DEF looked
        <2>. QED BY <1>1, <1>3, <2>1, <2>3, <2>4, EditGoesWith
    <1>. QED BY <1>2, <1>3

LEMMA EditCompare ==
    ASSUME EditInv, NEW p \in Procs, Settings!Compare(p)
    PROVE  EditInv'
    <1>1. FilesGrow /\ Settings!At(p, "compare") /\ backups' = backups
        BY FilesSame DEF Settings!Compare
    <1>2. proc[p].backup \in backups
        BY <1>1, EditAt DEF EditKnows
    <1>. QED BY <1>1, <1>2, EditEnds, EditGoes DEF Settings!Compare

LEMMA EditKeep ==
    ASSUME EditInv, NEW p \in Procs, Settings!Keep(p)
    PROVE  EditInv'
    <1>1. Settings!At(p, "keep") /\ Settings!Goes(p) /\ proc[p].read \in backups'
        BY DEF Settings!Keep
    <1>2. FilesGrow
        BY <1>1, EditAt DEF Settings!Keep, FilesGrow, EditInv, EditTypes
    <1>. QED BY <1>1, <1>2, EditGoes

LEMMA EditReread ==
    ASSUME EditInv, NEW p \in Procs, Settings!Reread(p)
    PROVE  EditInv'
    <1>. DEFINE looked == [proc[p] EXCEPT !.late = FALSE]
    <1>1. FilesGrow /\ Settings!At(p, "reread")
        BY FilesSame DEF Settings!Reread
    <1>2. CASE Settings!Ends(p)
        BY <1>1, <1>2, EditEnds
    <1>3. CASE ~Settings!Ends(p)
        <2>1. Settings!GoesWith(p, looked) /\ file = proc[p].read
            BY <1>3 DEF Settings!Reread
        <2>2. proc[p] \in EditBusy
            BY <1>1, EditAt
        <2>3. looked \in EditBusy
            <3>. PICK c \in Settings!Content : c = file
                BY DEF EditInv, EditTypes
            <3>. QED BY <2>2, BusyStays
        <2>4. /\ looked.tool = proc[p].tool /\ looked.verb = proc[p].verb
              /\ looked.value = proc[p].value
              /\ looked.at = proc[p].at /\ looked.raced = proc[p].raced
              /\ looked.read = proc[p].read /\ looked.kept = proc[p].kept
            BY <2>2 DEF EditBusy
        <2>. HIDE DEF looked
        <2>. QED BY <1>1, <2>1, <2>3, <2>4, EditGoesWith
    <1>. QED BY <1>2, <1>3

\* A command that has found its record, or made it, goes on.
LEMMA EditFinds ==
    ASSUME EditInv, NEW p \in Procs, NEW step \in {"exists", "record", "recorded"},
           Settings!At(p, step), FilesGrow, NEW k \in Recordings \cup {None},
           Settings!GoesWith(p, [proc[p] EXCEPT !.kept = k]),
           step # "exists" => k \in Recordings
    PROVE  EditInv'
    <1>. DEFINE looked == [proc[p] EXCEPT !.kept = k]
                mine == [looked EXCEPT !.at = @ + 1]
                i == proc[p].at
                s == StepsOf(p)
    <1>1. /\ proc[p].on /\ s[i] = step /\ StepOf(p) = step /\ EditKnows(p) /\ i \in 1..Len(s)
          /\ i \in Nat /\ TableFacts(proc[p].tool \in Settings!Recording, s)
          /\ proc[p] \in EditBusy /\ file \in Settings!Content
        BY EditAt DEF StepOf, EditInv, EditTypes
    <1>. PICK c \in Settings!Content, b \in BOOLEAN : c = file
        BY <1>1
    <1>2. looked \in EditBusy
        BY <1>1, BusyStays
    <1>3. /\ looked.tool = proc[p].tool /\ looked.verb = proc[p].verb
          /\ looked.value = proc[p].value /\ looked.at = i /\ looked.late = proc[p].late
          /\ looked.raced = proc[p].raced /\ looked.read = proc[p].read
          /\ looked.backup = proc[p].backup /\ looked.kept = k
        BY <1>1 DEF EditBusy
    <1>4. proc' = [proc EXCEPT ![p] = mine]
        BY DEF Settings!GoesWith
    <1>. HIDE DEF looked
    <1>5. mine \in EditBusy
        BY <1>2, BusyStays
    <1>6. /\ mine.tool = proc[p].tool /\ mine.verb = proc[p].verb /\ mine.value = proc[p].value
          /\ mine.at = i + 1 /\ mine.late = proc[p].late /\ mine.raced = proc[p].raced
          /\ mine.read = proc[p].read /\ mine.backup = proc[p].backup /\ mine.kept = k
        BY <1>2, <1>3 DEF EditBusy
    <1>. HIDE DEF mine, s, i
    <1>. PICK next : next = s[i + 1]
        OBVIOUS
    <1>7. /\ i + 1 \in 1..Len(s) /\ next # "compare"
          /\ proc[p].tool \in Settings!Recording
        BY <1>1 DEF TableFacts
    <1>8. mine.at \in 1..Len(StepsOf(p)) /\ next = StepsOf(p)[mine.at] /\ mine.at = proc[p].at + 1
        BY <1>6, <1>7 DEF s, i
    <1>9. ~mine.late => IF next = "compare" THEN mine.backup = file ELSE mine.read = file
        BY <1>1, <1>6, <1>7 DEF EditKnows
    <1>10. IF StepOf(p) = "running" THEN owner.phase # "off" => mine.raced
                                    ELSE mine.raced = proc[p].raced
        BY <1>1, <1>6
    <1>11. IF StepOf(p) = "read" THEN proc'[p] = mine => Renderable(p)'
                                 ELSE mine.read = proc[p].read
        BY <1>1, <1>6
    <1>12. StepOf(p) \in {"record", "recorded"} => mine.kept \in Recordings
        BY <1>1, <1>6
    <1>13. StepOf(p) \in {"exists", "record", "recorded"}
        BY <1>1
    <1>. QED
        BY <1>1, <1>4, <1>5, <1>6, <1>7, <1>8, <1>9, <1>10, <1>11, <1>12, <1>13, EditGoesOn

LEMMA EditExists ==
    ASSUME EditInv, NEW p \in Procs, Settings!Exists(p)
    PROVE  EditInv'
    <1>. PICK step \in {"exists", "record", "recorded"} : step = "exists"
        OBVIOUS
    <1>1. FilesGrow /\ Settings!At(p, step)
        BY FilesSame DEF Settings!Exists
    <1>2. proc[p].tool \in Settings!Recording
        BY <1>1, EditAt DEF TableFacts, StepOf
    <1>. PICK k \in Recordings \cup {None} : k = record[proc[p].tool]
        BY <1>2 DEF EditInv, EditTypes
    <1>3. \/ Settings!Ends(p)
          \/ Settings!GoesWith(p, [proc[p] EXCEPT !.kept = k])
        BY DEF Settings!Exists
    <1>. QED BY <1>1, <1>3, EditEnds, EditFinds

LEMMA EditRecord ==
    ASSUME EditInv, NEW p \in Procs, Settings!Record(p)
    PROVE  EditInv'
    <1>. DEFINE t == proc[p].tool
    <1>. PICK step \in {"exists", "record", "recorded"} : step = "record"
        OBVIOUS
    <1>1. /\ Settings!At(p, step) /\ UNCHANGED <<place, file, backups, owner, sessions, stands>>
          /\ EditTypes
        BY DEF Settings!Record, EditInv
    <1>2. /\ t \in Settings!Recording /\ proc[p].value \in Values
          /\ proc[p].read.set[t] \in Settings!Setting /\ proc[p].kept \in Recordings \cup {None}
        BY <1>1, EditAt DEF TableFacts, StepOf
    <1>3. CASE proc[p].kept = None
        <2>0. [original |-> proc[p].read.set[t], configured |-> proc[p].value] \in Recordings
            BY <1>2 DEF Recordings
        <2>. HIDE DEF t
        <2>1. PICK k \in Recordings \cup {None} :
                  /\ k = [original |-> proc[p].read.set[t], configured |-> proc[p].value]
                  /\ k \in Recordings
            BY <2>0
        <2>2. /\ Settings!GoesWith(p, [proc[p] EXCEPT !.kept = k])
              /\ record' = [record EXCEPT ![t] = k]
            BY <1>3, <2>1 DEF Settings!Record, t
        <2>3. FilesGrow
            BY <1>1, <1>2, <2>1, <2>2 DEF FilesGrow, EditTypes
        <2>. QED BY <1>1, <2>1, <2>2, <2>3, EditFinds
    <1>4. CASE proc[p].kept # None
        <2>1. FilesGrow /\ Settings!Goes(p)
            BY <1>1, <1>4, FilesSame DEF Settings!Record
        <2>2. proc[p].kept \in Recordings
            BY <1>2, <1>4
        <2>. QED BY <1>1, <2>1, <2>2, EditGoes
    <1>. QED BY <1>3, <1>4

LEMMA EditRecorded ==
    ASSUME EditInv, NEW p \in Procs, Settings!Recorded(p)
    PROVE  EditInv'
    <1>. PICK step \in {"exists", "record", "recorded"} : step = "recorded"
        OBVIOUS
    <1>1. FilesGrow /\ Settings!At(p, step)
        BY FilesSame DEF Settings!Recorded
    <1>2. proc[p].tool \in Settings!Recording
        BY <1>1, EditAt DEF TableFacts, StepOf
    <1>. PICK k \in Recordings \cup {None} : k = record[proc[p].tool]
        BY <1>2 DEF EditInv, EditTypes
    <1>3. \/ Settings!Ends(p)
          \/ k # None /\ Settings!GoesWith(p, [proc[p] EXCEPT !.kept = k])
        BY DEF Settings!Recorded
    <1>. QED BY <1>1, <1>3, EditEnds, EditFinds

LEMMA EditDecide ==
    ASSUME EditInv, NEW p \in Procs, Settings!Decide(p)
    PROVE  EditInv'
    <1>. DEFINE t == proc[p].tool
    <1>1. FilesGrow /\ Settings!At(p, "decide")
        BY FilesSame DEF Settings!Decide
    <1>2. \/ Settings!Ends(p)
          \/ /\ Settings!Goes(p)
             /\ proc[p].read.set[t] \in {proc[p].kept.original, proc[p].kept.configured}
        BY DEF Settings!Decide
    <1>. QED BY <1>1, <1>2, EditEnds, EditGoes

LEMMA EditBegin ==
    ASSUME EditInv, NEW p \in Procs, Settings!Begin(p)
    PROVE  EditInv'
    <1>1. FilesGrow
        BY FilesSame DEF Settings!Begin
    <1>. PICK t \in Settings!Places[place] :
              \E verb \in Settings!Verbs(t), v \in Settings!Asked(t) :
                  proc' = [proc EXCEPT ![p] =
                      [on |-> TRUE, tool |-> t, verb |-> verb, value |-> v, at |-> 1,
                       expected |-> file, read |-> file, backup |-> file, kept |-> None,
                       late |-> FALSE, raced |-> owner.phase \notin {"off"} \cup Settings!Sees(t)]]
        BY DEF Settings!Begin
    <1>2. PICK verb \in Settings!Verbs(t), v \in Settings!Asked(t) :
              proc' = [proc EXCEPT ![p] =
                  [on |-> TRUE, tool |-> t, verb |-> verb, value |-> v, at |-> 1,
                   expected |-> file, read |-> file, backup |-> file, kept |-> None,
                   late |-> FALSE, raced |-> owner.phase \notin {"off"} \cup Settings!Sees(t)]]
        OBVIOUS
    <1>. DEFINE mine == [on |-> TRUE, tool |-> t, verb |-> verb, value |-> v, at |-> 1,
                         expected |-> file, read |-> file, backup |-> file, kept |-> None,
                         late |-> FALSE,
                         raced |-> owner.phase \notin {"off"} \cup Settings!Sees(t)]
                s == Settings!Steps(t, verb)
    <1>3. /\ t \in ToolNames /\ verb \in {"set", "undo"} /\ v \in Values
          /\ file \in Settings!Content
        <2>1. v \in Values
            BY SettingsConstants DEF Settings!Asked
        <2>. QED BY <2>1, PlaceTools DEF EditInv, EditTypes, Settings!Verbs
    <1>4. mine \in EditBusy
        BY <1>3 DEF EditBusy
    <1>5. mine \in EditCommand
        BY <1>4 DEF EditCommand
    <1>6. /\ TableFacts(t \in Settings!Recording, s)
          /\ Settings!Sees(t) # {} => \E i \in 1..Len(s) : s[i] = "running"
        BY <1>3, TablesOfTools
    <1>7. /\ mine.on /\ mine.tool = t /\ mine.verb = verb /\ mine.at = 1 /\ mine.read = file
          /\ ~mine.late /\ mine.raced = (owner.phase \notin {"off"} \cup Settings!Sees(t))
        OBVIOUS
    <1>8. proc' = [proc EXCEPT ![p] = mine]
        BY <1>2
    <1>. HIDE DEF mine
    <1>9. ASSUME proc'[p] = mine
          PROVE  EditKnows(p)'
        <2>1. StepsOf(p)' = s /\ StepOf(p)' = s[1]
            BY <1>7, <1>9 DEF StepsOf, StepOf, Settings!Steps
        <2>. HIDE DEF s
        <2>2. /\ 1 \in 1..Len(s) /\ s[1] \in {"look", "running", "read"}
              /\ t \in Settings!Recording => s[1] = "read"
            BY <1>6 DEF TableFacts
        <2>3. /\ proc'[p].at = 1 /\ proc'[p].read = file /\ proc'[p].tool = t
              /\ proc'[p].raced = (owner.phase \notin {"off"} \cup Settings!Sees(t))
            BY <1>7, <1>9
        <2>4. owner' = owner /\ file' = file /\ Settings!Sees(proc[p].tool)' = Settings!Sees(t)
            BY <1>1, <2>3 DEF FilesGrow, Settings!Sees
        <2>5. owner'.phase # "off" =>
                  \/ proc'[p].raced
                  \/ /\ owner'.phase \in Settings!Sees(proc[p].tool)'
                     /\ \E i \in proc'[p].at..Len(StepsOf(p)') : StepsOf(p)'[i] = "running"
            BY <1>6, <2>1, <2>3, <2>4
        <2>. QED BY <2>1, <2>2, <2>3, <2>4, <2>5 DEF EditKnows, Touched
    <1>. QED BY <1>1, <1>5, <1>8, <1>9, EditOwnChange

\* Whom another command, or the owner, has run over: what it knew it knows still, unless it has
\* been told that it does not.
LEMMA OthersKnow ==
    ASSUME EditInv, NEW q \in Procs, proc[q].on,
           proc'[q].tool = proc[q].tool, proc'[q].verb = proc[q].verb,
           proc'[q].value = proc[q].value, proc'[q].at = proc[q].at,
           proc'[q].read = proc[q].read, proc'[q].backup = proc[q].backup,
           proc'[q].kept = proc[q].kept,
           ~proc'[q].late => ~proc[q].late /\ file' = file,
           proc[q].raced => proc'[q].raced,
           owner'.phase # "off" => proc'[q].raced \/ owner'.phase = owner.phase,
           UNCHANGED <<backups, record>>
    PROVE  EditKnows(q)'
    <1>2. StepsOf(q)' = StepsOf(q) /\ StepOf(q)' = StepOf(q)
          /\ Settings!Sees(proc[q].tool)' = Settings!Sees(proc[q].tool)
        BY DEF StepsOf, StepOf, Settings!Steps, Settings!Sees
    <1>3. EditTypes /\ EditKnows(q)
        BY DEF EditInv
    <1>4. Renderable(q) => Renderable(q)'
        BY <1>3, RenderableStays
    <1>. QED BY <1>2, <1>3, <1>4 DEF EditKnows

LEMMA BusyTold ==
    ASSUME NEW r \in EditBusy, NEW l \in BOOLEAN, NEW x \in BOOLEAN
    PROVE  [r EXCEPT !.late = l, !.raced = x] \in EditBusy
    BY DEF EditBusy

\* What the others are told changes nothing else of them.
LEMMA NoticedStays ==
    ASSUME EditInv, NEW q \in Procs, NEW w \in BOOLEAN, NEW m \in BOOLEAN,
           proc'[q] = IF ~proc[q].on THEN proc[q]
                      ELSE [proc[q] EXCEPT !.late = @ \/ w, !.raced = @ \/ m]
    PROVE  /\ proc'[q] \in EditCommand /\ proc'[q].on = proc[q].on
           /\ proc'[q].on => /\ proc'[q].tool = proc[q].tool /\ proc'[q].verb = proc[q].verb
                        /\ proc'[q].value = proc[q].value /\ proc'[q].at = proc[q].at
                        /\ proc'[q].read = proc[q].read /\ proc'[q].backup = proc[q].backup
                        /\ proc'[q].kept = proc[q].kept
                        /\ proc'[q].late = (proc[q].late \/ w)
                        /\ proc'[q].raced = (proc[q].raced \/ m)
    <1>1. proc[q] \in EditCommand
        BY DEF EditInv, EditTypes
    <1>. PICK now : now = proc'[q]
        OBVIOUS
    <1>3. CASE ~proc[q].on
        BY <1>1, <1>3
    <1>4. CASE proc[q].on
        <2>1. proc[q] \in EditBusy
            BY <1>1, <1>4 DEF EditCommand, Settings!Idle
        <2>2. proc[q].late \in BOOLEAN /\ proc[q].raced \in BOOLEAN
            BY <2>1 DEF EditBusy
        <2>. PICK l \in BOOLEAN : l = (proc[q].late \/ w)
            BY <2>2
        <2>. PICK r \in BOOLEAN : r = (proc[q].raced \/ m)
            BY <2>2
        <2>3. now = [proc[q] EXCEPT !.late = l, !.raced = r]
            BY <1>4
        <2>4. now \in EditBusy
            BY <2>1, <2>3, BusyTold
        <2>5. /\ now.on /\ now.tool = proc[q].tool /\ now.verb = proc[q].verb
              /\ now.value = proc[q].value /\ now.at = proc[q].at /\ now.read = proc[q].read
              /\ now.backup = proc[q].backup /\ now.kept = proc[q].kept /\ now.late = l /\ now.raced = r
            BY <1>4, <2>1, <2>3 DEF EditBusy
        <2>. QED BY <1>4, <2>4, <2>5 DEF EditCommand
    <1>. QED BY <1>3, <1>4

\* A step of the owner: everybody is told, and what it writes is what it may write.
LEMMA OwnerTells ==
    ASSUME EditInv, NEW w \in BOOLEAN, proc' = Settings!Noticed(w, TRUE),
           UNCHANGED <<place, backups, record>>, sessions' \in 0..MaxSessions,
           file' \in Settings!Content, ~w => file' = file,
           stands' \in [Settings!Places[place] -> Settings!Setting \cup {Unsaid}],
           owner' = Settings!Off \/ owner' = [phase |-> "starting"] \/ owner' \in OwnerUp,
           Stands', OwnerKeeps'
    PROVE  EditInv'
    <1>1. /\ proc' \in [Procs -> EditCommand]
          /\ \A q \in Procs : proc'[q].on => EditKnows(q)'
        <2>. PICK m \in BOOLEAN : m = TRUE
            OBVIOUS
        <2>0. \A q \in Procs :
                  proc'[q] = IF ~proc[q].on THEN proc[q]
                             ELSE [proc[q] EXCEPT !.late = @ \/ w, !.raced = @ \/ m]
            BY DEF Settings!Noticed
        <2>1. \A q \in Procs : proc'[q] \in EditCommand
            BY <2>0, NoticedStays
        <2>2. DOMAIN proc' = Procs /\ proc' = [q \in Procs |-> proc'[q]]
            BY DEF Settings!Noticed
        <2>3. ASSUME NEW q \in Procs, proc'[q].on
              PROVE  EditKnows(q)'
            <3>1. proc'[q] = IF ~proc[q].on THEN proc[q]
                             ELSE [proc[q] EXCEPT !.late = @ \/ w, !.raced = @ \/ m]
                BY <2>0
            <3>2. /\ proc'[q].on = proc[q].on
                  /\ proc'[q].tool = proc[q].tool /\ proc'[q].verb = proc[q].verb
                  /\ proc'[q].value = proc[q].value /\ proc'[q].at = proc[q].at
                  /\ proc'[q].read = proc[q].read /\ proc'[q].backup = proc[q].backup
                  /\ proc'[q].kept = proc[q].kept
                  /\ proc'[q].late = (proc[q].late \/ w) /\ proc'[q].raced = (proc[q].raced \/ m)
                BY <2>3, <3>1, NoticedStays
            <3>3. proc'[q].raced /\ proc[q].on
                BY <2>3, <3>2
            <3>. QED BY <3>2, <3>3, OthersKnow
        <2>. QED BY <2>1, <2>2, <2>3
    <1>2. EditCommand' = EditCommand /\ OwnerUp' = OwnerUp /\ Settings!Content' = Settings!Content
          /\ Settings!Places[place]' = Settings!Places[place]
        BY DEF EditCommand, EditBusy, OwnerUp, Settings!Content, Settings!Settings
    <1>3. EditTypes'
        BY <1>1, <1>2 DEF EditInv, EditTypes
    <1>. QED BY <1>1, <1>3 DEF EditInv

\* What an owner that has read the file has, and what becomes of it.
LEMMA OwnerFields ==
    ASSUME EditInv, owner.phase \in {"running", "closing"}
    PROVE  /\ owner \in OwnerUp /\ owner.memory \in Settings!Content
           /\ owner.memory.set \in [Settings!Places[place] -> Settings!Setting]
           /\ owner.changed \subseteq Settings!Places[place]
    <1>1. owner \in OwnerUp
        BY DEF EditInv, EditTypes, Settings!Off
    <1>. QED BY <1>1 DEF OwnerUp, Settings!Content, Settings!Settings

LEMMA UpStays ==
    ASSUME NEW o \in OwnerUp, NEW m \in Settings!Content, NEW n \in 0..MaxSessions,
           NEW t \in Settings!Places[place], NEW v \in Settings!Setting
    PROVE  /\ [o EXCEPT !.memory.saved = n] \in OwnerUp
           /\ [o EXCEPT !.memory.set[t] = v, !.changed = @ \cup {t}] \in OwnerUp
           /\ [o EXCEPT !.phase = "closing"] \in OwnerUp
           /\ [phase |-> "running", memory |-> m, changed |-> {}] \in OwnerUp
    <1>1. [o EXCEPT !.memory.saved = n] \in OwnerUp
        BY DEF OwnerUp, Settings!Content
    <1>2. [o EXCEPT !.memory.set[t] = v, !.changed = @ \cup {t}] \in OwnerUp
        BY DEF OwnerUp, Settings!Content, Settings!Settings
    <1>3. [o EXCEPT !.phase = "closing"] \in OwnerUp
        BY DEF OwnerUp
    <1>4. [phase |-> "running", memory |-> m, changed |-> {}] \in OwnerUp
        BY DEF OwnerUp
    <1>. QED BY <1>1, <1>2, <1>3, <1>4

LEMMA EditOwnerStarts ==
    ASSUME EditInv, Settings!OwnerStarts
    PROVE  EditInv'
    <1>. PICK w \in BOOLEAN : w = FALSE
        OBVIOUS
    <1>1. proc' = Settings!Noticed(w, TRUE)
        BY DEF Settings!OwnerStarts, Settings!Noticed
    <1>2. sessions' \in 0..MaxSessions
        BY SettingsConstants DEF Settings!OwnerStarts, EditInv, EditTypes
    <1>3. owner' = [phase |-> "starting"] /\ owner'.phase = "starting"
        BY DEF Settings!OwnerStarts
    <1>4. Stands' /\ OwnerKeeps'
        BY <1>3 DEF Settings!OwnerStarts, EditInv, Stands, OwnerKeeps
    <1>5. /\ UNCHANGED <<place, backups, record, file, stands>> /\ file \in Settings!Content
          /\ stands \in [Settings!Places[place] -> Settings!Setting \cup {Unsaid}]
        BY DEF Settings!OwnerStarts, EditInv, EditTypes
    <1>. QED BY <1>1, <1>2, <1>3, <1>4, <1>5, OwnerTells

LEMMA EditOwnerLoads ==
    ASSUME EditInv, Settings!OwnerLoads
    PROVE  EditInv'
    <1>. PICK w \in BOOLEAN : w = FALSE
        OBVIOUS
    <1>1. proc' = Settings!Noticed(w, TRUE)
        BY DEF Settings!OwnerLoads, Settings!Noticed
    <1>2. /\ UNCHANGED <<place, backups, record, file, stands, sessions>>
          /\ file \in Settings!Content /\ sessions \in 0..MaxSessions
          /\ stands \in [Settings!Places[place] -> Settings!Setting \cup {Unsaid}]
        BY DEF Settings!OwnerLoads, EditInv, EditTypes
    <1>3. owner' = [phase |-> "running", memory |-> file, changed |-> {}]
          /\ owner'.memory = file
        BY DEF Settings!OwnerLoads
    <1>4. owner' \in OwnerUp
        BY <1>2, <1>3 DEF OwnerUp
    <1>5. Stands' /\ OwnerKeeps'
        BY <1>2, <1>3 DEF EditInv, Stands, OwnerKeeps
    <1>. QED BY <1>1, <1>2, <1>4, <1>5, OwnerTells

LEMMA EditOwnerChanges ==
    ASSUME EditInv, Settings!OwnerChanges
    PROVE  EditInv'
    <1>1. owner.phase = "running" /\ owner \in OwnerUp
          /\ owner.memory.set \in [Settings!Places[place] -> Settings!Setting]
        BY OwnerFields DEF Settings!OwnerChanges
    <1>2. /\ UNCHANGED <<place, backups, record, file, stands, sessions, proc>>
          /\ EditTypes /\ Stands /\ OwnerKeeps
        BY DEF Settings!OwnerChanges, EditInv
    <1>3. owner' \in OwnerUp /\ owner'.phase = "running" /\ OwnerKeeps'
        <2>1. CASE owner' = [owner EXCEPT !.memory.saved = sessions]
            <3>1. owner' \in OwnerUp
                <4>. PICK t \in Settings!Places[place], v \in Settings!Setting,
                          m \in Settings!Content, n \in 0..MaxSessions : n = sessions
                    BY <1>2 DEF EditTypes, Settings!Setting, Settings!Places
                <4>. QED BY <1>1, <2>1, UpStays
            <3>2. /\ owner'.phase = "running" /\ owner'.memory.set = owner.memory.set
                  /\ owner'.changed = owner.changed
                BY <1>1, <2>1 DEF OwnerUp, Settings!Content
            <3>. QED BY <1>1, <1>2, <3>1, <3>2 DEF OwnerKeeps
        <2>2. CASE owner' # [owner EXCEPT !.memory.saved = sessions]
            <3>1. PICK t \in Settings!Places[place], v \in {None, Other} :
                      owner' = [owner EXCEPT !.memory.set[t] = v, !.changed = @ \cup {t}]
                BY <2>2 DEF Settings!OwnerChanges
            <3>2. v \in Settings!Setting
                BY DEF Settings!Setting
            <3>3. owner' \in OwnerUp
                <4>. PICK m \in Settings!Content, n \in 0..MaxSessions : n = sessions
                    BY <1>2 DEF EditTypes
                <4>. QED BY <1>1, <3>1, <3>2, UpStays
            <3>4. /\ owner'.phase = "running"
                  /\ owner'.memory.set = [owner.memory.set EXCEPT ![t] = v]
                  /\ owner'.changed = owner.changed \cup {t}
                BY <1>1, <3>1 DEF OwnerUp, Settings!Content
            <3>5. \A x \in Settings!Places[place] \ owner'.changed :
                      owner'.memory.set[x] = owner.memory.set[x]
                BY <1>1, <3>4
            <3>. QED BY <1>1, <1>2, <3>3, <3>4, <3>5 DEF OwnerKeeps
        <2>. QED BY <2>1, <2>2
    <1>4. Stands'
        BY <1>2 DEF Stands
    <1>5. EditTypes'
        BY <1>2, <1>3 DEF EditTypes, EditCommand, EditBusy, OwnerUp, Settings!Content,
           Settings!Settings
    <1>6. ASSUME NEW q \in Procs, proc'[q].on
          PROVE  EditKnows(q)'
        BY <1>1, <1>2, <1>3, <1>6, OthersKnow
    <1>. QED BY <1>3, <1>4, <1>5, <1>6 DEF EditInv

LEMMA EditOwnerCloses ==
    ASSUME EditInv, Settings!OwnerCloses
    PROVE  EditInv'
    <1>. PICK w \in BOOLEAN : w = FALSE
        OBVIOUS
    <1>1. proc' = Settings!Noticed(w, TRUE)
        BY DEF Settings!OwnerCloses, Settings!Noticed
    <1>2. /\ UNCHANGED <<place, backups, record, file, stands, sessions>>
          /\ file \in Settings!Content /\ sessions \in 0..MaxSessions
          /\ stands \in [Settings!Places[place] -> Settings!Setting \cup {Unsaid}]
        BY DEF Settings!OwnerCloses, EditInv, EditTypes
    <1>3. owner.phase = "running" /\ owner \in OwnerUp
          /\ owner' = [owner EXCEPT !.phase = "closing"]
        BY OwnerFields DEF Settings!OwnerCloses
    <1>4. owner' \in OwnerUp /\ owner'.memory = owner.memory /\ owner'.changed = owner.changed
        BY <1>3 DEF OwnerUp
    <1>5. Stands' /\ OwnerKeeps'
        BY <1>2, <1>3, <1>4 DEF EditInv, Stands, OwnerKeeps
    <1>. QED BY <1>1, <1>2, <1>4, <1>5, OwnerTells

\* The owner writes back what it has read: what stood then stands still, but what it changed.
LEMMA EditOwnerWrites ==
    ASSUME EditInv, Settings!OwnerWrites
    PROVE  EditInv'
    <1>. PICK w \in BOOLEAN : w = TRUE
        OBVIOUS
    <1>1. proc' = Settings!Noticed(w, TRUE)
        BY DEF Settings!OwnerWrites, Settings!Noticed
    <1>2. /\ UNCHANGED <<place, backups, record, sessions>> /\ file' = owner.memory
          /\ stands' = [t \in Settings!Places[place] |->
                           IF t \in owner.changed THEN Unsaid ELSE stands[t]]
          /\ stands \in [Settings!Places[place] -> Settings!Setting \cup {Unsaid}]
          /\ sessions \in 0..MaxSessions /\ owner' = Settings!Off
        BY DEF Settings!OwnerWrites, EditInv, EditTypes
    <1>3. owner.phase = "closing" /\ owner.memory \in Settings!Content /\ OwnerKeeps
        BY OwnerFields DEF Settings!OwnerWrites, EditInv
    <1>4. stands' \in [Settings!Places[place] -> Settings!Setting \cup {Unsaid}]
        BY <1>2
    <1>5. Stands'
        BY <1>2, <1>3 DEF Stands, OwnerKeeps
    <1>6. OwnerKeeps'
        BY <1>2 DEF OwnerKeeps, Settings!Off
    <1>. QED BY <1>1, <1>2, <1>3, <1>4, <1>5, <1>6, OwnerTells

-----------------------------------------------------------------------------
(* The replacement of the file *)

\* What a command puts in the place of the file.
NewContent(p) ==
    [proc[p].read EXCEPT !.set[proc[p].tool] = Settings!Rendered(p, proc[p].read)]

LEMMA ReplaceRenders ==
    ASSUME EditInv, NEW p \in Procs, Settings!At(p, "replace")
    PROVE  /\ Settings!Rendered(p, proc[p].read) \in Settings!Setting
           /\ NewContent(p) \in Settings!Content
           /\ NewContent(p).set[proc[p].tool] = Settings!Rendered(p, proc[p].read)
           /\ \A s \in Settings!Places[place] \ {proc[p].tool} :
                  NewContent(p).set[s] = proc[p].read.set[s]
           /\ NewContent(p) = [proc[p].read EXCEPT !.set[proc[p].tool] =
                                   NewContent(p).set[proc[p].tool]]
    <1>. DEFINE r == Settings!Rendered(p, proc[p].read)
                t == proc[p].tool
                old == proc[p].read.set[t]
    <1>1. /\ EditKnows(p) /\ StepOf(p) = "replace" /\ t \in ToolNames /\ old \in Settings!Setting
          /\ t \in Settings!Places[place] /\ proc[p].read \in Settings!Content
          /\ proc[p].verb \in {"set", "undo"} /\ proc[p].value \in Values
          /\ proc[p].kept \in Recordings \cup {None}
        BY EditAt
    <1>2. EditTypes
        BY DEF EditInv
    <1>3. Renderable(p) /\ (t \in Settings!Recording => proc[p].kept \in Recordings)
        BY <1>1 DEF EditKnows, Touched
    <1>4. r \in Settings!Setting
        <2>1. r = Settings!Render(t, old, proc[p].verb, proc[p].value, proc[p].kept)
            BY DEF Settings!Rendered
        <2>2. /\ r \in Settings!Setting \cup {NoRender}
              /\ t \in Settings!Recording /\ (t = "background" => old # None)
                     => r \in Settings!Setting
            BY <1>1, <1>2, <1>3, <2>1, RenderType
        <2>3. CASE t \in Settings!Recording
            BY <1>3, <2>2, <2>3 DEF Renderable
        <2>4. CASE t \notin Settings!Recording
            BY <1>3, <2>2, <2>4 DEF Renderable
        <2>. QED BY <2>3, <2>4
    <1>5. NewContent(p) = [proc[p].read EXCEPT !.set[t] = r]
        BY DEF NewContent
    <1>. HIDE DEF r, t
    <1>6. /\ NewContent(p) \in Settings!Content /\ NewContent(p).set[t] = r
          /\ \A s \in Settings!Places[place] \ {t} : NewContent(p).set[s] = proc[p].read.set[s]
        BY <1>1, <1>4, <1>5 DEF Settings!Content, Settings!Settings
    <1>7. NewContent(p) = [proc[p].read EXCEPT !.set[t] = NewContent(p).set[t]]
        BY <1>5, <1>6
    <1>. QED BY <1>4, <1>6, <1>7 DEF r, t

\* Who replaces the file while its owner may write back what it had read has been noticed.
LEMMA ReplaceIsSeen ==
    ASSUME EditInv, NEW p \in Procs, Settings!At(p, "replace"), owner.phase # "off"
    PROVE  proc[p].raced
    <1>. DEFINE s == StepsOf(p)
                i == proc[p].at
    <1>1. /\ EditKnows(p) /\ s[i] = "replace" /\ i \in 1..Len(s)
          /\ TableFacts(proc[p].tool \in Settings!Recording, s)
        BY EditAt DEF StepOf
    <1>2. \A j \in i..Len(s) : s[j] # "running"
        <2>. HIDE DEF s, i
        <2>. QED BY <1>1 DEF TableFacts
    <1>. QED BY <1>1, <1>2 DEF EditKnows

LEMMA EditReplace ==
    ASSUME EditInv, NEW p \in Procs, Settings!Replace(p)
    PROVE  EditInv'
    <1>. DEFINE t == proc[p].tool
                new == NewContent(p)
                mine == [proc[p] EXCEPT !.at = @ + 1, !.read = new]
    <1>1. /\ Settings!At(p, "replace") /\ UNCHANGED <<place, backups, record, owner, sessions>>
          /\ EditTypes /\ Stands /\ OwnerKeeps
        BY DEF Settings!Replace, EditInv
    <1>2. /\ file' = new
          /\ stands' = [s \in Settings!Places[place] |->
                 IF s = t THEN IF proc[p].raced THEN Unsaid ELSE new.set[t]
                 ELSE IF proc[p].late THEN Unsaid ELSE stands[s]]
          /\ proc' = [q \in Procs |->
                 IF q = p THEN IF Settings!AtEnd(p) THEN Settings!Idle ELSE mine
                 ELSE IF ~proc[q].on THEN proc[q]
                      ELSE [proc[q] EXCEPT !.late = @ \/ TRUE, !.raced = @ \/ FALSE]]
        BY DEF Settings!Replace, NewContent, Settings!Noticed
    <1>3. /\ proc[p].on /\ proc[p] \in EditBusy /\ EditKnows(p) /\ StepOf(p) = "replace"
          /\ t \in Settings!Places[place] /\ StepsOf(p)[proc[p].at] = "replace"
          /\ proc[p].at \in 1..Len(StepsOf(p)) /\ proc[p].at \in Nat
          /\ TableFacts(t \in Settings!Recording, StepsOf(p))
        BY <1>1, EditAt DEF StepOf
    <1>4. /\ new \in Settings!Content /\ new.set[t] \in Settings!Setting
          /\ \A s \in Settings!Places[place] \ {t} : new.set[s] = proc[p].read.set[s]
        BY <1>1, ReplaceRenders
    <1>5. ~proc[p].late => proc[p].read = file
        BY <1>3 DEF EditKnows
    <1>. HIDE DEF new
    <1>6. stands' \in [Settings!Places[place] -> Settings!Setting \cup {Unsaid}]
        <2>1. \A s \in Settings!Places[place] : stands[s] \in Settings!Setting \cup {Unsaid}
            BY <1>1 DEF EditTypes
        <2>. QED BY <1>2, <1>4, <2>1
    <1>7. Stands'
        BY <1>1, <1>2, <1>4, <1>5 DEF Stands
    <1>8. OwnerKeeps'
        <2>1. owner.phase \in {"running", "closing"} => proc[p].raced
            BY <1>1, ReplaceIsSeen
        <2>. QED BY <1>1, <1>2, <2>1 DEF OwnerKeeps
    <1>9. mine \in EditBusy
        <2>1. [proc[p] EXCEPT !.read = new] \in EditBusy
            BY <1>3, <1>4 DEF EditBusy
        <2>2. mine = [[proc[p] EXCEPT !.read = new] EXCEPT !.at = @ + 1]
            BY <1>3 DEF EditBusy
        <2>3. PICK b \in BOOLEAN : TRUE
            OBVIOUS
        <2>. QED BY <1>4, <2>1, <2>2, <2>3, BusyStays
    <1>10. ASSUME NEW q \in Procs \ {p}
           PROVE  proc'[q] \in EditCommand /\ (proc'[q].on => EditKnows(q)')
        <2>. PICK w \in BOOLEAN, m \in BOOLEAN : w = TRUE /\ m = FALSE
            OBVIOUS
        <2>1. proc'[q] = IF ~proc[q].on THEN proc[q]
                         ELSE [proc[q] EXCEPT !.late = @ \/ w, !.raced = @ \/ m]
            BY <1>2
        <2>2. /\ proc'[q] \in EditCommand /\ proc'[q].on = proc[q].on
              /\ proc'[q].on =>
                     /\ proc'[q].tool = proc[q].tool /\ proc'[q].verb = proc[q].verb
                     /\ proc'[q].value = proc[q].value /\ proc'[q].at = proc[q].at
                     /\ proc'[q].read = proc[q].read /\ proc'[q].backup = proc[q].backup
                     /\ proc'[q].kept = proc[q].kept
                     /\ proc'[q].late = (proc[q].late \/ w) /\ proc'[q].raced = (proc[q].raced \/ m)
            BY <2>1, NoticedStays
        <2>3. ASSUME proc'[q].on
              PROVE  EditKnows(q)'
            <3>1. proc'[q].late /\ (proc[q].raced => proc'[q].raced) /\ proc[q].on
                BY <2>2, <2>3
            <3>2. owner'.phase = owner.phase
                BY <1>1
            <3>. QED BY <1>1, <2>2, <2>3, <3>1, <3>2, OthersKnow
        <2>. QED BY <2>2, <2>3
    <1>11. proc'[p] \in EditCommand
        BY <1>2, <1>9 DEF EditCommand
    <1>12. ASSUME proc'[p].on
           PROVE  EditKnows(p)'
        <2>. DEFINE s == StepsOf(p)
                    i == proc[p].at
        <2>1. ~Settings!AtEnd(p) /\ proc'[p] = mine
            BY <1>2, <1>12 DEF Settings!Idle
        <2>2. /\ proc'[p].tool = t /\ proc'[p].verb = proc[p].verb /\ proc'[p].at = i + 1
              /\ proc'[p].read = new /\ proc'[p].raced = proc[p].raced
            BY <1>3, <2>1 DEF EditBusy
        <2>3. i # Len(s)
            BY <2>1 DEF Settings!AtEnd, StepsOf
        <2>4. StepsOf(p)' = s /\ StepOf(p)' = s[i + 1]
            BY <2>2 DEF StepsOf, StepOf, Settings!Steps
        <2>. HIDE DEF s, i, mine
        <2>5. /\ s[i] = "replace" /\ i \in 1..Len(s) /\ i \in Nat
              /\ TableFacts(t \in Settings!Recording, s)
            BY <1>3 DEF s, i
        <2>6. i + 1 \in 1..Len(s) /\ s[i + 1] = "confirm"
            BY <2>3, <2>5 DEF TableFacts
        <2>7. owner'.phase # "off" => proc'[p].raced
            BY <1>1, <2>2, ReplaceIsSeen
        <2>. QED BY <1>2, <2>2, <2>4, <2>6, <2>7 DEF EditKnows, Touched
    <1>13. proc' \in [Procs -> EditCommand]
        <2>1. DOMAIN proc' = Procs /\ proc' = [q \in Procs |-> proc'[q]]
            BY <1>2
        <2>2. \A q \in Procs : proc'[q] \in EditCommand
            BY <1>10, <1>11
        <2>. QED BY <2>1, <2>2
    <1>14. EditCommand' = EditCommand /\ OwnerUp' = OwnerUp /\ Settings!Content' = Settings!Content
           /\ Settings!Places[place]' = Settings!Places[place]
        BY <1>1 DEF EditCommand, EditBusy, OwnerUp, Settings!Content, Settings!Settings
    <1>15. EditTypes'
        BY <1>1, <1>2, <1>4, <1>6, <1>13, <1>14 DEF EditTypes
    <1>. QED BY <1>7, <1>8, <1>10, <1>12, <1>15 DEF EditInv

-----------------------------------------------------------------------------
(* The specification of the settings files *)

LEMMA SettingsStart ==
    ASSUME Settings!Init
    PROVE  EditInv
    <1>1. /\ place \in DOMAIN Settings!Places /\ backups = {} /\ owner = Settings!Off
          /\ record = [t \in Settings!Recording |-> None]
          /\ proc = [p \in Procs |-> Settings!Idle] /\ sessions = 0
          /\ stands = [t \in Settings!Places[place] |-> Unsaid]
          /\ file \in [set : [Settings!Places[place] -> {None, Other}], saved : {0}]
        BY DEF Settings!Init
    <1>2. file \in Settings!Content
        BY <1>1, SettingsConstants DEF Settings!Content, Settings!Settings, Settings!Setting
    <1>3. proc \in [Procs -> EditCommand] /\ \A p \in Procs : ~proc[p].on
        BY <1>1 DEF EditCommand, Settings!Idle
    <1>4. sessions \in 0..MaxSessions
        BY <1>1, SettingsConstants
    <1>5. EditTypes
        BY <1>1, <1>2, <1>3, <1>4 DEF EditTypes
    <1>6. Stands /\ OwnerKeeps
        BY <1>1 DEF Stands, OwnerKeeps, Settings!Off
    <1>. QED BY <1>3, <1>5, <1>6 DEF EditInv

LEMMA SettingsKeepInv ==
    ASSUME EditInv, Settings!Next \/ UNCHANGED Settings!vars
    PROVE  EditInv'
    <1>1. ASSUME NEW p \in Procs, Settings!Tool(p)
          PROVE  EditInv'
        BY <1>1, EditBegin, EditLook, EditRunning, EditValidated, EditRead, EditRecheck,
           EditExists, EditCopy, EditCompare, EditKeep, EditReread, EditRecord, EditRecorded,
           EditDecide, EditReplace, EditConfirm, EditFails DEF Settings!Tool
    <1>2. CASE Settings!Owner
        BY <1>2, EditOwnerStarts, EditOwnerLoads, EditOwnerChanges, EditOwnerCloses,
           EditOwnerWrites DEF Settings!Owner
    <1>3. CASE UNCHANGED Settings!vars
        <2>1. UNCHANGED <<place, file, backups, record, proc, owner, sessions, stands>>
            BY <1>3 DEF Settings!vars
        <2>2. EditTypes'
            BY <2>1 DEF EditInv, EditTypes, EditCommand, EditBusy, OwnerUp, Settings!Content,
               Settings!Settings
        <2>3. Stands' /\ OwnerKeeps'
            BY <2>1 DEF EditInv, Stands, OwnerKeeps
        <2>4. \A q \in Procs : proc'[q].on => EditKnows(q)'
            BY <2>1, OthersKnow
        <2>. QED BY <2>2, <2>3, <2>4 DEF EditInv
    <1>. QED BY <1>1, <1>2, <1>3 DEF Settings!Next

\* The invariant tells what a command has set.
LEMMA SettingsStand ==
    ASSUME EditInv
    PROVE  Settings!EditStands
    <1>1. ASSUME NEW p \in Settings!Active
          PROVE  /\ proc[p].read \in Settings!Content
                 /\ proc[p].tool \in Settings!Places[place]
                 /\ proc[p].at \in 1..Len(Settings!Steps(proc[p].tool, proc[p].verb))
        <2>1. p \in Procs /\ proc[p].on
            BY DEF Settings!Active
        <2>2. EditKnows(p) /\ EditTypes
            BY <2>1 DEF EditInv
        <2>. QED BY <2>1, <2>2, EditFields DEF EditKnows, StepsOf
    <1>2. Settings!TypeOK
        BY <1>1 DEF EditInv, EditTypes, Settings!TypeOK, Recordings
    <1>. QED BY <1>2 DEF EditInv, Stands, Settings!EditStands

\* And what a replacement keeps.
LEMMA SettingsKept ==
    ASSUME EditInv, NEW p \in Settings!Active, Settings!Replace(p)
    PROVE  Settings!Keeps(p)
    <1>. DEFINE t == proc[p].tool
    <1>1. p \in Procs /\ Settings!At(p, "replace")
        BY DEF Settings!Active, Settings!Replace
    <1>2. file' = NewContent(p)
        BY DEF Settings!Replace, NewContent
    <1>3. EditKnows(p) /\ StepOf(p) = "replace"
        BY <1>1, EditAt
    <1>4. ASSUME ~proc[p].late
          PROVE  /\ file' = [file EXCEPT !.set[t] = file'.set[t]]
                 /\ IF t \in Settings!Recording
                    THEN record[t] = proc[p].kept =>
                             file.set[t] \in {record[t].original, record[t].configured}
                    ELSE file \in backups
        <2>1. proc[p].read = file
            BY <1>3, <1>4 DEF EditKnows
        <2>2. NewContent(p) = [proc[p].read EXCEPT !.set[t] = NewContent(p).set[t]]
            BY <1>1, ReplaceRenders
        <2>3. IF t \in Settings!Recording
              THEN proc[p].read.set[t] \in {proc[p].kept.original, proc[p].kept.configured}
              ELSE proc[p].read \in backups
            BY <1>3 DEF EditKnows
        <2>. HIDE DEF t
        <2>. QED BY <1>2, <2>1, <2>2, <2>3
    <1>. QED BY <1>4 DEF Settings!Keeps

\* What a command has set in a settings file stands, unless its owner, another command of that
\* setting or one whose reading is out of date says otherwise: an owner that was running when
\* the command looked for it is not one that writes back later what it had read before (the
\* looks at /proc of scripts/configure-*.py and prepare-proton-direct-wine.py).
THEOREM EditsStand == PreparationSpec => []EditStands
    <1>. DEFINE I == part = "settings" => EditInv
    <1>1. PreparationInit => I
        BY SettingsStart DEF PreparationInit
    <1>2. I /\ [PreparationNext]_preparationVars => I'
        <2>1. SUFFICES ASSUME I, [PreparationNext]_preparationVars, part' = "settings"
                       PROVE  EditInv'
            OBVIOUS
        <2>2. part = "settings" /\ (Settings!Next \/ UNCHANGED Settings!vars)
            BY <2>1 DEF PreparationNext, preparationVars, onlySettings, both, Settings!vars
        <2>. QED BY <2>1, <2>2, SettingsKeepInv
    <1>3. I => EditStands
        BY SettingsStand DEF EditStands
    <1>. QED BY <1>1, <1>2, <1>3, PTL DEF PreparationSpec
-----------------------------------------------------------------------------
(* Of both *)

\* What a command replaces in a settings file can be had again, and nothing but its own setting
\* is changed (the backups and the state.json of the configuring scripts, as long as state.json
\* is the one that the command read or made); and a command of the Proton files that ends well has
\* done all it says (prepare_outputs, restore_outputs and main of the overlay manager), but for
\* an executable that Steam wrote between its digest and its identities: that one is on record
\* with identities that nobody compared with the bytes.
THEOREM EndsAreWhole == PreparationSpec => EndIsWhole
    <1>. DEFINE I == /\ part = "settings" => EditInv
                     /\ part = "proton" => ProtonInv
                A == /\ part = "settings" =>
                            \A p \in Settings!Active : Settings!Replace(p) => Settings!Keeps(p)
                     /\ part = "proton" => \A p \in Proton!Active : Proton!WholeIfEnds(p)
    <1>1. PreparationInit => I
        BY SettingsStart, ProtonStarts DEF PreparationInit
    <1>2. I /\ [PreparationNext]_preparationVars => I'
        <2>1. CASE part = "settings"
            <3>1. [PreparationNext]_preparationVars => Settings!Next \/ UNCHANGED Settings!vars
                BY <2>1 DEF PreparationNext, preparationVars, onlySettings, both, Settings!vars
            <3>2. [PreparationNext]_preparationVars => part' = part
                BY DEF PreparationNext, preparationVars
            <3>. QED BY <2>1, <3>1, <3>2, SettingsKeepInv
        <2>2. CASE part = "proton"
            <3>1. [PreparationNext]_preparationVars => Proton!Next \/ UNCHANGED Proton!vars
                BY <2>2 DEF PreparationNext, preparationVars, onlyProton, both, Proton!vars
            <3>2. [PreparationNext]_preparationVars => part' = part
                BY DEF PreparationNext, preparationVars
            <3>. QED BY <2>2, <3>1, <3>2, ProtonKeepsInv
        <2>3. CASE part \notin {"settings", "proton"}
            BY <2>3 DEF PreparationNext, preparationVars
        <2>. QED BY <2>1, <2>2, <2>3
    <1>3. I => A
        BY SettingsKept, ProtonEndsWhole
    <1>4. I /\ [PreparationNext]_preparationVars => [A]_preparationVars
        BY <1>3
    <1>. QED BY <1>1, <1>2, <1>4, PTL DEF PreparationSpec, EndIsWhole

-----------------------------------------------------------------------------
(* The packages of Termux *)

DependencyTypes ==
    /\ setup \in Dependencies!Setup /\ profile \in {1, 2}
    /\ transaction = None \/ transaction \in Dependencies!Transactions
    /\ receipt = None \/ receipt \in Dependencies!Receipts
    /\ first = None \/ first \in SUBSET Dependencies!Packages

\* A package that was not missing at first is there, unless the user has removed it.
MissingTold(initial) == Dependencies!Packages \subseteq present \cup initial \cup dropped

DependencyInv ==
    /\ DependencyTypes /\ Dependencies!DependenciesTold
    /\ first = None <=> transaction = None /\ receipt = None
    /\ first # None => MissingTold(first)
    /\ setup.pc = "note" => first = None /\ MissingTold(setup.initial)
    /\ setup.pc \in {"install", "confirm", "report", "receipt"}
           => first # None /\ setup.initial = first
    /\ setup.pc = "receipt" => MissingTold({})
    /\ setup.pc = "drop" => receipt # None

LEMMA GroupsArePackages ==
    /\ Len(Groups) = 2
    /\ \A group \in 1..Len(Groups) : Groups[group] \subseteq Dependencies!Packages
    BY DEF Groups, Dependencies!Packages, Dependencies!ToSet

LEMMA DependenciesStart == Dependencies!DependencyInit => DependencyInv
    BY GroupsArePackages
    DEF Dependencies!DependencyInit, Dependencies!Rest, Dependencies!Setup, DependencyInv,
        DependencyTypes, Dependencies!DependenciesTold, Dependencies!ReceiptTellsAdded,
        Dependencies!ReceiptTellsInstalled

LEMMA DependenciesKeepInv ==
    DependencyInv /\ (Dependencies!DependencyNext \/ UNCHANGED Dependencies!dependencyVars)
        => DependencyInv'
    <1>. SUFFICES ASSUME DependencyInv,
                         Dependencies!DependencyNext \/ UNCHANGED Dependencies!dependencyVars
                  PROVE  DependencyInv'
        OBVIOUS
    <1>. USE DEF DependencyInv, DependencyTypes, Dependencies!DependenciesTold, MissingTold,
                 Dependencies!ReceiptTellsAdded, Dependencies!ReceiptTellsInstalled,
                 Dependencies!onlySetup
    <1>0. /\ \A some \in SUBSET Dependencies!Packages : some # None
          /\ None \notin Dependencies!Transactions /\ None \notin Dependencies!Receipts
          /\ Len(Groups) = 2
        BY PreparationAssumption, GroupsArePackages DEF Dependencies!DependencySetupAssumption
    <1>1. ASSUME NEW exit \in {"none", "installed", "ready", "failed"}, Dependencies!End(exit)
          PROVE  setup' \in Dependencies!Setup /\ setup'.pc = "idle"
        BY <1>0, <1>1 DEF Dependencies!End, Dependencies!Rest, Dependencies!Setup
    <1>2. CASE Dependencies!Run
        <2>1. setup' \in Dependencies!Setup /\ setup'.pc = "look"
            <3>1. Dependencies!Rest \in Dependencies!Setup
                BY <1>0 DEF Dependencies!Rest, Dependencies!Setup
            <3>2. setup' = [Dependencies!Rest EXCEPT !.pc = "look", !.sha = profile]
                BY <1>2 DEF Dependencies!Run
            <3>. QED BY <3>1, <3>2 DEF Dependencies!Setup
        <2>. QED BY <1>2, <2>1 DEF Dependencies!Run
    <1>3. CASE Dependencies!Receipted
        BY <1>1, <1>3 DEF Dependencies!Receipted
    <1>4. CASE Dependencies!Resume
        <2>1. CASE transaction.sha # setup.sha
            BY <1>1, <1>4, <2>1 DEF Dependencies!Resume
        <2>2. CASE transaction.sha = setup.sha
            <3>1. /\ setup' = [setup EXCEPT !.pc = "install", !.initial = transaction.initial]
                  /\ transaction # None /\ UNCHANGED Dependencies!onlySetup
                BY <1>4, <2>2 DEF Dependencies!Resume
            <3>2. transaction.initial = first /\ first \in SUBSET Dependencies!Packages
                BY <3>1
            <3>3. setup' \in Dependencies!Setup /\ setup'.pc = "install" /\ setup'.initial = first
                BY <3>1, <3>2 DEF Dependencies!Setup
            <3>. QED BY <3>1, <3>3
        <2>. QED BY <2>1, <2>2
    <1>5. CASE Dependencies!Report
        <2>1. /\ setup' \in Dependencies!Setup /\ setup'.pc = "note"
              /\ setup'.initial = Dependencies!Packages \ present
            BY <1>5 DEF Dependencies!Report, Dependencies!Setup, Dependencies!Missing
        <2>. QED BY <1>5, <2>1 DEF Dependencies!Report
    <1>6. CASE Dependencies!Begin
        <2>1. /\ setup' \in Dependencies!Setup /\ setup'.pc = "install"
              /\ setup'.initial = setup.initial
              /\ setup.initial \in SUBSET Dependencies!Packages
            BY <1>6 DEF Dependencies!Begin, Dependencies!Setup
        <2>2. transaction' \in Dependencies!Transactions /\ transaction'.initial = setup.initial
            BY <1>0, <1>6, <2>1
            DEF Dependencies!Begin, Dependencies!Note, Dependencies!Transactions, Dependencies!Setup
        <2>. QED BY <1>0, <1>6, <2>1, <2>2 DEF Dependencies!Begin
    <1>7. CASE Dependencies!Install
        <2>1. PICK done \in SUBSET Dependencies!GroupMissing :
                 present' = present \cup done /\ added' = added \cup done
            BY <1>7 DEF Dependencies!Install
        <2>2. done \subseteq Dependencies!Packages \ present
            BY GroupsArePackages DEF Dependencies!GroupMissing, Dependencies!Setup
        <2>3. first # None /\ setup.initial = first /\ setup.pc = "install"
            BY <1>7 DEF Dependencies!Install
        <2>4. added' \subseteq first \cup dropped
            BY <2>1, <2>2, <2>3
        <2>5. /\ setup' \in Dependencies!Setup /\ setup'.pc \in {"idle", "confirm"}
              /\ setup'.pc = "confirm" => setup'.initial = setup.initial
            BY <1>1, <1>7 DEF Dependencies!Install, Dependencies!Setup
        <2>6. UNCHANGED <<profile, transaction, receipt, first, dropped>>
            BY <1>7 DEF Dependencies!Install
        <2>. QED BY <2>1, <2>3, <2>4, <2>5, <2>6
    <1>8. CASE Dependencies!Confirm
        <2>1. CASE Dependencies!GroupMissing # {}
            BY <1>1, <1>8, <2>1 DEF Dependencies!Confirm
        <2>2. CASE Dependencies!GroupMissing = {}
            <3>1. /\ setup' \in Dependencies!Setup /\ setup'.pc \in {"install", "report"}
                  /\ setup'.initial = setup.initial
                <4>1. CASE setup.group < Len(Groups)
                    <5>1. setup' = [setup EXCEPT !.pc = "install", !.group = @ + 1]
                        BY <1>8, <2>2, <4>1 DEF Dependencies!Confirm
                    <5>2. setup.group \in 1..2 /\ setup.group + 1 \in 1..2
                        BY <1>0, <4>1 DEF Dependencies!Setup
                    <5>. QED BY <1>0, <5>1, <5>2 DEF Dependencies!Setup
                <4>2. CASE ~(setup.group < Len(Groups))
                    <5>1. setup' = [setup EXCEPT !.pc = "report"]
                        BY <1>8, <2>2, <4>2 DEF Dependencies!Confirm
                    <5>. QED BY <5>1 DEF Dependencies!Setup
                <4>. QED BY <4>1, <4>2
            <3>2. /\ transaction' \in Dependencies!Transactions
                  /\ transaction'.initial = setup.initial
                BY <1>0, <1>8, <2>2
                DEF Dependencies!Confirm, Dependencies!Note, Dependencies!Transactions,
                    Dependencies!Setup
            <3>. QED BY <1>0, <1>8, <3>1, <3>2 DEF Dependencies!Confirm
        <2>. QED BY <2>1, <2>2
    <1>9. CASE Dependencies!Converged
        <2>1. CASE Dependencies!Missing = {}
            <3>1. /\ setup' \in Dependencies!Setup /\ setup'.pc = "receipt"
                  /\ setup'.initial = setup.initial
                BY <1>9, <2>1 DEF Dependencies!Converged, Dependencies!Setup
            <3>. QED BY <1>9, <2>1, <3>1 DEF Dependencies!Converged, Dependencies!Missing
        <2>2. CASE Dependencies!Missing # {}
            BY <1>1, <1>9, <2>2 DEF Dependencies!Converged
        <2>. QED BY <2>1, <2>2
    <1>10. CASE Dependencies!WriteReceipt
        <2>1. setup' \in Dependencies!Setup /\ setup'.pc = "drop"
            BY <1>10 DEF Dependencies!WriteReceipt, Dependencies!Setup
        <2>2. receipt' \in Dependencies!Receipts /\ receipt'.initial = setup.initial
            BY <1>10 DEF Dependencies!WriteReceipt, Dependencies!Receipts, Dependencies!Setup
        <2>. QED BY <1>0, <1>10, <2>1, <2>2 DEF Dependencies!WriteReceipt
    <1>11. CASE Dependencies!Drop
        BY <1>1, <1>11 DEF Dependencies!Drop
    <1>12. CASE Dependencies!Killed
        <2>1. setup' \in Dependencies!Setup /\ setup'.pc = "idle"
            BY <1>0, <1>12 DEF Dependencies!Killed, Dependencies!Rest, Dependencies!Setup
        <2>. QED BY <1>12, <2>1 DEF Dependencies!Killed
    <1>13. CASE Dependencies!UserInstalls
        BY <1>13 DEF Dependencies!UserInstalls
    <1>14. CASE Dependencies!UserRemoves
        BY <1>14 DEF Dependencies!UserRemoves
    <1>15. CASE Dependencies!Update
        BY <1>15 DEF Dependencies!Update
    <1>16. CASE UNCHANGED Dependencies!dependencyVars
        BY <1>16 DEF Dependencies!dependencyVars
    <1>. QED
        BY <1>2, <1>3, <1>4, <1>5, <1>6, <1>7, <1>8, <1>9, <1>10, <1>11, <1>12, <1>13, <1>14,
           <1>15, <1>16
        DEF Dependencies!DependencyNext
-----------------------------------------------------------------------------
(* The seed of the client *)

DownloadTypes ==
    /\ lock \in Download!Locks /\ kills \in Nat /\ alone \in BOOLEAN
    /\ content \in Seq({"locked", "short", "other"})
    /\ installer \in [Procs -> Download!Installer]
    /\ entry \in [Download!Names -> [final : 0..Len(content), partial : 0..Len(content)]]

\* The steps from which a run goes on to rename or to remove a partial file.
AtPartial == {"write", "verify", "rename", "clean"}

\* Every partial file has a run that will rename or remove it.
PartialOwned ==
    \A name \in Download!Names : kills = 0 /\ entry[name].partial # 0 =>
        \E p \in Procs : installer[p].name = name /\ installer[p].pc \in AtPartial

\* What a run knows of the lock and of what it has unpacked.
Vetted(p) ==
    LET r == installer[p] IN
    /\ r.pc # "idle" => lock # "invalid"
    /\ r.pc \in {"stage", "unpack", "check", "place"} => lock # "members"
    /\ r.pc \in {"check", "place"} => r.staging = "whole"
    /\ r.pc = "place" => lock # "executable"

\* Alone, a run writes to a file that has no final name yet, and renames what it has verified.
AloneSafe ==
    alone =>
        /\ \A p, q \in Procs : installer[p].pc # "idle" /\ installer[q].pc # "idle" => p = q
        /\ \A p \in Procs :
               /\ installer[p].pc = "write" =>
                      \A name \in Download!Names : entry[name].final # installer[p].own
               /\ installer[p].pc = "rename" /\ Download!Partial(p) # 0 =>
                      Download!Locked(Download!Partial(p))

DownloadInv ==
    /\ DownloadTypes /\ PartialOwned /\ Download!SeedIsWhole /\ Download!CacheIsLocked
    /\ AloneSafe /\ \A p \in Procs : Vetted(p)

LEMMA DownloadStarts == Download!DownloadInit => DownloadInv
    <1>. SUFFICES ASSUME Download!DownloadInit PROVE DownloadInv
        OBVIOUS
    <1>1. /\ Download!Idle \in Download!Installer /\ Download!Idle.pc = "idle"
          /\ Download!Idle.exit = "none"
        BY DEF Download!Idle, Download!Installer, Download!Names
    <1>2. /\ content \in Seq({"locked", "short", "other"}) /\ Len(content) = 0
          /\ entry \in [Download!Names -> [final : 0..0, partial : 0..0]]
          /\ \A name \in Download!Names : entry[name].final = 0 /\ entry[name].partial = 0
        BY DEF Download!DownloadInit
    <1>3. /\ installer \in [Procs -> Download!Installer]
          /\ \A p \in Procs : installer[p].pc = "idle" /\ installer[p].exit = "none"
        BY <1>1 DEF Download!DownloadInit
    <1>4. DownloadTypes
        BY <1>2, <1>3 DEF Download!DownloadInit, DownloadTypes
    <1>5. Download!SeedIsWhole /\ Download!CacheIsLocked /\ PartialOwned
        BY <1>2, <1>3
        DEF Download!DownloadInit, Download!SeedIsWhole, Download!CacheIsLocked, PartialOwned
    <1>6. AloneSafe /\ \A p \in Procs : Vetted(p)
        BY <1>3 DEF AloneSafe, Vetted
    <1>. QED BY <1>4, <1>5, <1>6 DEF DownloadInv

\* What a run becomes that goes to another step.
LEMMA GoesTo ==
    ASSUME installer \in [Procs -> Download!Installer], NEW p \in Procs,
           NEW pc \in {"look", "open", "write", "verify", "rename", "clean", "inspect", "stage",
                       "check", "place", "undo"},
           Download!Go(p, pc)
    PROVE  /\ installer' \in [Procs -> Download!Installer]
           /\ installer'[p].pc = pc /\ installer'[p].name = installer[p].name
           /\ installer'[p].own = installer[p].own /\ installer'[p].exit = installer[p].exit
           /\ installer'[p].staging = installer[p].staging
           /\ \A q \in Procs : q # p => installer'[q] = installer[q]
    BY DEF Download!Go, Download!Installer

LEMMA EndsWith ==
    ASSUME installer \in [Procs -> Download!Installer], NEW p \in Procs,
           NEW exit \in {"ok", "failed", "killed"}, Download!End(p, exit)
    PROVE  /\ installer' \in [Procs -> Download!Installer]
           /\ installer'[p].pc = "idle" /\ installer'[p].exit = exit
           /\ \A q \in Procs : q # p => installer'[q] = installer[q]
    <1>1. /\ [Download!Idle EXCEPT !.exit = exit] \in Download!Installer
          /\ [Download!Idle EXCEPT !.exit = exit].pc = "idle"
          /\ [Download!Idle EXCEPT !.exit = exit].exit = exit
        BY DEF Download!Idle, Download!Installer, Download!Names
    <1>. QED BY <1>1 DEF Download!End

\* A run that has a file goes on with the archive, or with unpacking it.
LEMMA HasIt ==
    ASSUME installer \in [Procs -> Download!Installer], NEW p \in Procs, Download!Have(p)
    PROVE  /\ installer' \in [Procs -> Download!Installer]
           /\ installer'[p].pc \in {"look", "inspect"} /\ installer'[p].exit = installer[p].exit
           /\ \A q \in Procs : q # p => installer'[q] = installer[q]
    <1>1. CASE installer[p].name = "manifest"
        BY <1>1 DEF Download!Have, Download!Installer, Download!Names
    <1>2. CASE installer[p].name # "manifest"
        <2>1. Download!Go(p, "inspect")
            BY <1>2 DEF Download!Have
        <2>. QED BY <2>1, GoesTo
    <1>. QED BY <1>1, <1>2

\* A step of a run that leaves the cache alone.
LEMMA CacheLeft ==
    ASSUME DownloadInv, NEW p \in Procs, installer' \in [Procs -> Download!Installer],
           \A q \in Procs : q # p => installer'[q] = installer[q],
           lock' = lock, entry' = entry, content' = content, kills' \in Nat,
           seed' = seed \/ (seed' = "whole" /\ lock = "fit"),
           alone' \in BOOLEAN,
           alone' => /\ alone
                     /\ installer[p].pc # "idle" \/ \A q \in Procs : installer[q].pc = "idle",
           kills' # 0 \/ (/\ kills' = kills
                          /\ installer[p].pc \in AtPartial =>
                                 /\ installer'[p].pc \in AtPartial
                                 /\ installer'[p].name = installer[p].name),
           installer'[p].pc # "write",
           installer'[p].pc = "rename" /\ entry[installer'[p].name].partial # 0 =>
               Download!Locked(entry[installer'[p].name].partial),
           installer'[p].exit = "ok" => seed' = "whole",
           Vetted(p)'
    PROVE  DownloadInv'
    <1>1. DownloadTypes'
        BY DEF DownloadInv, DownloadTypes
    <1>2. PartialOwned'
        BY DEF DownloadInv, PartialOwned
    <1>3. Download!SeedIsWhole'
        BY DEF DownloadInv, Download!SeedIsWhole
    <1>4. \A number : Download!Locked(number)' <=> Download!Locked(number)
        BY DEF Download!Locked
    <1>5. Download!CacheIsLocked'
        BY <1>4 DEF DownloadInv, Download!CacheIsLocked, Download!Locked
    <1>6. \A q \in Procs : Vetted(q)'
        BY DEF DownloadInv, Vetted
    <1>7. ASSUME alone'
          PROVE  /\ \A q \in Procs : q # p => installer'[q].pc = "idle"
                 /\ alone
        BY <1>7 DEF DownloadInv, AloneSafe
    <1>8. ASSUME alone', NEW q \in Procs
          PROVE  /\ installer'[q].pc = "write" =>
                        \A name \in Download!Names : entry'[name].final # installer'[q].own
                 /\ installer'[q].pc = "rename" /\ Download!Partial(q)' # 0 =>
                        Download!Locked(Download!Partial(q))'
        BY <1>7, <1>8 DEF Download!Partial, Download!Locked
    <1>9. AloneSafe'
        BY <1>7, <1>8 DEF AloneSafe
    <1>. QED BY <1>1, <1>2, <1>3, <1>5, <1>6, <1>9 DEF DownloadInv

LEMMA RunsAreTyped ==
    ASSUME DownloadInv
    PROVE  installer \in [Procs -> Download!Installer] /\ kills \in Nat /\ alone \in BOOLEAN
    BY DEF DownloadInv, DownloadTypes

\* A run that fails or is killed, without touching the cache.
LEMMA EndKeepsDownload ==
    ASSUME DownloadInv, NEW p \in Procs, NEW exit \in {"failed", "killed"},
           Download!End(p, exit), UNCHANGED <<lock, entry, content, seed>>,
           \/ kills' = kills /\ installer[p].pc \notin AtPartial
           \/ kills' = kills + 1,
           alone' \in BOOLEAN,
           alone' => /\ alone
                     /\ installer[p].pc # "idle" \/ \A q \in Procs : installer[q].pc = "idle"
    PROVE  DownloadInv'
    <1>1. /\ installer' \in [Procs -> Download!Installer]
          /\ installer'[p].pc = "idle" /\ installer'[p].exit = exit
          /\ \A q \in Procs : q # p => installer'[q] = installer[q]
        BY RunsAreTyped, EndsWith
    <1>2. Vetted(p)'
        BY <1>1 DEF Vetted
    <1>3. kills' \in Nat /\ (kills' # 0 \/ (kills' = kills /\ installer[p].pc \notin AtPartial))
        BY RunsAreTyped
    <1>. QED BY <1>1, <1>2, <1>3, CacheLeft

\* A run that goes on, without touching the cache.
LEMMA GoKeepsDownload ==
    ASSUME DownloadInv, NEW p \in Procs,
           NEW pc \in {"open", "verify", "rename", "clean", "inspect", "stage", "check", "place",
                       "undo"},
           Download!Go(p, pc), UNCHANGED <<lock, entry, content, seed, kills, alone>>,
           installer[p].pc # "idle",
           installer[p].pc \in AtPartial => pc \in AtPartial,
           pc = "rename" => Download!Locked(Download!Partial(p)),
           pc \in {"stage", "check", "place"} => lock # "members",
           pc \in {"check", "place"} => installer[p].staging = "whole",
           pc = "place" => lock # "executable"
    PROVE  DownloadInv'
    <1>1. /\ installer' \in [Procs -> Download!Installer]
          /\ installer'[p].pc = pc /\ installer'[p].name = installer[p].name
          /\ installer'[p].exit = installer[p].exit
          /\ installer'[p].staging = installer[p].staging
          /\ \A q \in Procs : q # p => installer'[q] = installer[q]
        BY RunsAreTyped, GoesTo
    <1>2. Vetted(p)
        BY DEF DownloadInv
    <1>3. Vetted(p)'
        BY <1>1, <1>2 DEF Vetted
    <1>4. installer'[p].exit = "ok" => seed' = "whole"
        BY <1>1 DEF DownloadInv, Download!SeedIsWhole
    <1>5. pc = "rename" => Download!Locked(entry[installer'[p].name].partial)
        BY <1>1 DEF Download!Partial
    <1>. QED BY <1>1, <1>3, <1>4, <1>5, RunsAreTyped, CacheLeft

LEMMA StartKeepsDownload ==
    ASSUME DownloadInv, NEW p \in Procs, Download!Start(p) PROVE DownloadInv'
    <1>1. /\ installer[p].pc = "idle" /\ UNCHANGED <<lock, entry, content, seed, kills>>
          /\ alone' \in BOOLEAN
          /\ alone' => alone /\ \A q \in Procs : installer[q].pc = "idle"
        BY DEF Download!Start, Download!At
    <1>2. CASE lock = "invalid"
        <2>1. Download!End(p, "failed")
            BY <1>2 DEF Download!Start
        <2>. QED BY <1>1, <2>1, EndKeepsDownload DEF AtPartial
    <1>3. CASE lock # "invalid"
        <2>. DEFINE r == [Download!Idle EXCEPT !.pc = "look"]
        <2>1. installer' = [installer EXCEPT ![p] = r]
            BY <1>3 DEF Download!Start
        <2>2. r \in Download!Installer /\ r.pc = "look" /\ r.exit = "none"
            BY DEF Download!Idle, Download!Installer, Download!Names
        <2>. HIDE DEF r
        <2>3. /\ installer' \in [Procs -> Download!Installer]
              /\ installer'[p].pc = "look" /\ installer'[p].exit = "none"
              /\ \A q \in Procs : q # p => installer'[q] = installer[q]
            BY <2>1, <2>2, RunsAreTyped
        <2>4. Vetted(p)'
            BY <1>1, <1>3, <2>3 DEF Vetted
        <2>. QED BY <1>1, <2>3, <2>4, RunsAreTyped, CacheLeft DEF AtPartial
    <1>. QED BY <1>2, <1>3

\* A run that has found what it needs in the cache.
LEMMA HaveKeepsDownload ==
    ASSUME DownloadInv, NEW p \in Procs, Download!Have(p), installer[p].pc = "look",
           UNCHANGED <<lock, entry, content, seed, kills, alone>>
    PROVE  DownloadInv'
    <1>1. /\ installer' \in [Procs -> Download!Installer]
          /\ installer'[p].pc \in {"look", "inspect"} /\ installer'[p].exit = installer[p].exit
          /\ \A q \in Procs : q # p => installer'[q] = installer[q]
        BY RunsAreTyped, HasIt
    <1>2. Vetted(p)'
        BY <1>1 DEF DownloadInv, Vetted
    <1>3. installer'[p].exit = "ok" => seed' = "whole"
        BY <1>1 DEF DownloadInv, Download!SeedIsWhole
    <1>. QED BY <1>1, <1>2, <1>3, RunsAreTyped, CacheLeft DEF AtPartial

LEMMA LookKeepsDownload ==
    ASSUME DownloadInv, NEW p \in Procs, Download!Look(p) PROVE DownloadInv'
    <1>1. installer[p].pc = "look" /\ UNCHANGED <<lock, entry, content, seed, kills, alone>>
        BY DEF Download!Look, Download!At
    <1>2. Download!Have(p) \/ Download!End(p, "failed") \/ Download!Go(p, "open")
        BY DEF Download!Look
    <1>3. installer[p].pc \notin AtPartial /\ installer[p].pc # "idle"
        BY <1>1 DEF AtPartial
    <1>4. CASE Download!Have(p)
        BY <1>1, <1>4, HaveKeepsDownload
    <1>5. CASE Download!End(p, "failed")
        BY <1>1, <1>3, <1>5, RunsAreTyped, EndKeepsDownload
    <1>6. CASE Download!Go(p, "open")
        BY <1>1, <1>3, <1>6, GoKeepsDownload
    <1>. QED BY <1>2, <1>4, <1>5, <1>6

LEMMA VerifyKeepsDownload ==
    ASSUME DownloadInv, NEW p \in Procs, Download!Verify(p) PROVE DownloadInv'
    <1>1. installer[p].pc = "verify" /\ UNCHANGED <<lock, entry, content, seed, kills, alone>>
        BY DEF Download!Verify, Download!At
    <1>2. \/ Download!Locked(Download!Partial(p)) /\ Download!Go(p, "rename")
          \/ Download!Go(p, "clean")
        BY DEF Download!Verify
    <1>3. CASE Download!Locked(Download!Partial(p)) /\ Download!Go(p, "rename")
        BY <1>1, <1>3, GoKeepsDownload DEF AtPartial
    <1>4. CASE Download!Go(p, "clean")
        BY <1>1, <1>4, GoKeepsDownload DEF AtPartial
    <1>. QED BY <1>2, <1>3, <1>4

\* The steps of extract_archive.
LEMMA ExtractKeepsDownload ==
    ASSUME DownloadInv, NEW p \in Procs,
           \/ Download!Inspect(p) \/ Download!Stage(p) \/ Download!Unpack(p) \/ Download!Check(p)
           \/ Download!Place(p) \/ Download!Undo(p)
    PROVE  DownloadInv'
    <1>0. Vetted(p)
        BY DEF DownloadInv
    <1>1. CASE Download!Inspect(p)
        <2>1. installer[p].pc = "inspect" /\ UNCHANGED <<lock, entry, content, seed, kills, alone>>
            BY <1>1 DEF Download!Inspect, Download!At
        <2>2. \/ lock # "members" /\ Download!Go(p, "stage")
              \/ Download!End(p, "failed")
            BY <1>1 DEF Download!Inspect
        <2>3. CASE lock # "members" /\ Download!Go(p, "stage")
            BY <2>1, <2>3, GoKeepsDownload DEF AtPartial
        <2>4. CASE Download!End(p, "failed")
            BY <2>1, <2>4, RunsAreTyped, EndKeepsDownload DEF AtPartial
        <2>. QED BY <2>2, <2>3, <2>4
    <1>2. CASE Download!Stage(p)
        <2>1. installer[p].pc = "stage" /\ UNCHANGED <<lock, entry, content, seed, kills, alone>>
            BY <1>2 DEF Download!Stage, Download!At
        <2>2. CASE seed # "none"
            BY <1>2, <2>1, <2>2, RunsAreTyped, EndKeepsDownload DEF AtPartial, Download!Stage
        <2>3. CASE seed = "none"
            <3>1. installer' = [installer EXCEPT ![p].pc = "unpack", ![p].staging = "short"]
                BY <1>2, <2>3 DEF Download!Stage
            <3>2. /\ installer' \in [Procs -> Download!Installer]
                  /\ installer'[p].pc = "unpack" /\ installer'[p].exit = installer[p].exit
                  /\ \A q \in Procs : q # p => installer'[q] = installer[q]
                BY <3>1, RunsAreTyped DEF Download!Installer
            <3>3. Vetted(p)'
                BY <1>0, <2>1, <3>2 DEF Vetted
            <3>4. installer'[p].exit = "ok" => seed' = "whole"
                BY <2>1, <3>2 DEF DownloadInv, Download!SeedIsWhole
            <3>. QED BY <2>1, <3>2, <3>3, <3>4, RunsAreTyped, CacheLeft DEF AtPartial
        <2>. QED BY <2>2, <2>3
    <1>3. CASE Download!Unpack(p)
        <2>1. installer[p].pc = "unpack" /\ UNCHANGED <<lock, entry, content, seed, kills, alone>>
            BY <1>3 DEF Download!Unpack, Download!At
        <2>2. CASE Download!Go(p, "undo")
            BY <2>1, <2>2, GoKeepsDownload DEF AtPartial
        <2>3. CASE installer' = [installer EXCEPT ![p].pc = "check", ![p].staging = "whole"]
            <3>1. /\ installer' \in [Procs -> Download!Installer]
                  /\ installer'[p].pc = "check" /\ installer'[p].exit = installer[p].exit
                  /\ installer'[p].staging = "whole"
                  /\ \A q \in Procs : q # p => installer'[q] = installer[q]
                BY <2>3, RunsAreTyped DEF Download!Installer
            <3>2. Vetted(p)'
                BY <1>0, <2>1, <3>1 DEF Vetted
            <3>3. installer'[p].exit = "ok" => seed' = "whole"
                BY <2>1, <3>1 DEF DownloadInv, Download!SeedIsWhole
            <3>. QED BY <2>1, <3>1, <3>2, <3>3, RunsAreTyped, CacheLeft DEF AtPartial
        <2>. QED BY <1>3, <2>2, <2>3 DEF Download!Unpack
    <1>4. CASE Download!Check(p)
        <2>1. /\ installer[p].pc = "check" /\ UNCHANGED <<lock, entry, content, seed, kills, alone>>
              /\ lock # "members" /\ installer[p].staging = "whole"
            BY <1>0, <1>4 DEF Download!Check, Download!At, Vetted
        <2>2. \/ Download!Go(p, "undo")
              \/ lock # "executable" /\ Download!Go(p, "place")
            BY <1>4 DEF Download!Check
        <2>3. CASE Download!Go(p, "undo")
            BY <2>1, <2>3, GoKeepsDownload DEF AtPartial
        <2>4. CASE lock # "executable" /\ Download!Go(p, "place")
            BY <2>1, <2>4, GoKeepsDownload DEF AtPartial
        <2>. QED BY <2>2, <2>3, <2>4
    <1>5. CASE Download!Place(p)
        <2>1. /\ installer[p].pc = "place" /\ UNCHANGED <<lock, entry, content, kills, alone>>
              /\ lock = "fit" /\ installer[p].staging = "whole"
            BY <1>0, <1>5
            DEF Download!Place, Download!At, Vetted, DownloadInv, DownloadTypes, Download!Locks
        <2>2. CASE seed = "none"
            <3>1. seed' = "whole" /\ Download!End(p, "ok")
                BY <1>5, <2>1, <2>2 DEF Download!Place
            <3>2. /\ installer' \in [Procs -> Download!Installer]
                  /\ installer'[p].pc = "idle"
                  /\ \A q \in Procs : q # p => installer'[q] = installer[q]
                BY <3>1, RunsAreTyped, EndsWith
            <3>3. Vetted(p)'
                BY <3>2 DEF Vetted
            <3>. QED BY <2>1, <3>1, <3>2, <3>3, RunsAreTyped, CacheLeft DEF AtPartial
        <2>3. CASE seed # "none"
            BY <1>5, <2>1, <2>3, GoKeepsDownload DEF AtPartial, Download!Place
        <2>. QED BY <2>2, <2>3
    <1>6. CASE Download!Undo(p)
        BY <1>6, RunsAreTyped, EndKeepsDownload DEF AtPartial, Download!Undo, Download!At
    <1>. QED BY <1>1, <1>2, <1>3, <1>4, <1>5, <1>6

\* Nobody but p can go on while runs are started one after another.
LEMMA OnlyOne ==
    ASSUME DownloadInv, NEW p \in Procs, installer[p].pc # "idle", alone
    PROVE  \A q \in Procs : q # p => installer[q].pc = "idle"
    BY DEF DownloadInv, AloneSafe

\* What the other runs know stays true while only a run that p is changes the cache.
LEMMA OthersVetted ==
    ASSUME DownloadInv, NEW p \in Procs, lock' = lock, seed' = seed,
           \A q \in Procs : q # p => installer'[q] = installer[q],
           installer'[p].exit # "ok" \/ installer'[p].exit = installer[p].exit, Vetted(p)'
    PROVE  Download!SeedIsWhole' /\ \A q \in Procs : Vetted(q)'
    <1>1. \A q \in Procs : Vetted(q)'
        BY DEF DownloadInv, Vetted
    <1>2. Download!SeedIsWhole'
        BY DEF DownloadInv, Download!SeedIsWhole
    <1>. QED BY <1>1, <1>2

LEMMA OpenKeepsDownload ==
    ASSUME DownloadInv, NEW p \in Procs, Download!Open(p) PROVE DownloadInv'
    <1>1. installer[p].pc = "open" /\ UNCHANGED <<lock, seed, kills, alone>>
        BY DEF Download!Open, Download!At
    <1>2. CASE Download!Go(p, "clean") /\ UNCHANGED <<entry, content>>
        BY <1>1, <1>2, GoKeepsDownload DEF AtPartial
    <1>3. CASE ~(Download!Go(p, "clean") /\ UNCHANGED <<entry, content>>)
        <2>. DEFINE name == installer[p].name
                    own == Len(content) + 1
        <2>1. /\ content' = Append(content, "short")
              /\ entry' = [entry EXCEPT ![name].partial = Len(content')]
              /\ installer' = [installer EXCEPT ![p].pc = "write", ![p].own = Len(content')]
            BY <1>3 DEF Download!Open
        <2>2. /\ content \in Seq({"locked", "short", "other"}) /\ Len(content) \in Nat
              /\ entry \in [Download!Names -> [final : 0..Len(content), partial : 0..Len(content)]]
            BY DEF DownloadInv, DownloadTypes
        <2>3. /\ content' \in Seq({"locked", "short", "other"}) /\ Len(content') = own
              /\ \A number \in 1..Len(content) : content'[number] = content[number]
            BY <2>1, <2>2
        <2>4. /\ installer' \in [Procs -> Download!Installer]
              /\ installer'[p].pc = "write" /\ installer'[p].name = name
              /\ installer'[p].own = own /\ installer'[p].exit = installer[p].exit
              /\ \A q \in Procs : q # p => installer'[q] = installer[q]
            <3>1. ASSUME NEW r \in Download!Installer, NEW n \in Nat
                  PROVE  /\ [r EXCEPT !.pc = "write", !.own = n] \in Download!Installer
                         /\ [r EXCEPT !.pc = "write", !.own = n].pc = "write"
                         /\ [r EXCEPT !.pc = "write", !.own = n].own = n
                         /\ [r EXCEPT !.pc = "write", !.own = n].name = r.name
                         /\ [r EXCEPT !.pc = "write", !.own = n].exit = r.exit
                BY DEF Download!Installer
            <3>2. PICK r : r = [installer[p] EXCEPT !.pc = "write", !.own = own]
                OBVIOUS
            <3>3. own \in Nat
                BY <2>2
            <3>4. /\ r \in Download!Installer /\ r.pc = "write" /\ r.own = own
                  /\ r.name = name /\ r.exit = installer[p].exit
                BY <3>1, <3>2, <3>3, RunsAreTyped
            <3>5. installer' = [installer EXCEPT ![p] = r]
                BY <2>1, <2>3, <3>2, RunsAreTyped
            <3>. QED BY <3>4, <3>5, RunsAreTyped
        <2>5. name \in Download!Names
            BY RunsAreTyped DEF Download!Installer
        <2>6. /\ entry' \in [Download!Names -> [final : 0..Len(content'),
                                               partial : 0..Len(content')]]
              /\ \A n \in Download!Names :
                    /\ entry'[n].final = entry[n].final
                    /\ n # name => entry'[n].partial = entry[n].partial
            BY <2>1, <2>2, <2>3, <2>5
        <2>7. DownloadTypes'
            BY <1>1, <2>3, <2>4, <2>6 DEF DownloadInv, DownloadTypes
        <2>8. PartialOwned'
            <3>1. SUFFICES ASSUME NEW n \in Download!Names, kills = 0, entry'[n].partial # 0
                           PROVE  \E q \in Procs :
                                      installer'[q].name = n /\ installer'[q].pc \in AtPartial
                BY <1>1 DEF PartialOwned
            <3>2. CASE n = name
                BY <2>4, <3>2 DEF AtPartial
            <3>3. CASE n # name
                <4>1. PICK q \in Procs : installer[q].name = n /\ installer[q].pc \in AtPartial
                    BY <2>6, <3>1, <3>3 DEF DownloadInv, PartialOwned
                <4>. QED BY <1>1, <2>4, <4>1 DEF AtPartial
            <3>. QED BY <3>2, <3>3
        <2>9. Vetted(p)'
            BY <1>1, <2>4 DEF DownloadInv, Vetted
        <2>10. Download!SeedIsWhole' /\ \A q \in Procs : Vetted(q)'
            BY <1>1, <2>4, <2>9, OthersVetted
        <2>11. ASSUME NEW n \in Download!Names, entry[n].final # 0
               PROVE  entry[n].final \in 1..Len(content) /\ entry[n].final # own
            BY <2>2, <2>11
        <2>12. Download!CacheIsLocked'
            BY <1>1, <2>3, <2>6, <2>11 DEF DownloadInv, Download!CacheIsLocked, Download!Locked
        <2>13. AloneSafe'
            <3>1. SUFFICES ASSUME alone
                           PROVE  AloneSafe'
                BY <1>1 DEF AloneSafe
            <3>2. \A q \in Procs : q # p => installer'[q].pc = "idle"
                BY <1>1, <2>4, <3>1, OnlyOne
            <3>3. \A n \in Download!Names : entry'[n].final # own
                BY <2>2, <2>6, <2>11
            <3>. QED BY <2>4, <3>2, <3>3 DEF AloneSafe
        <2>. QED BY <2>7, <2>8, <2>10, <2>12, <2>13 DEF DownloadInv
    <1>. QED BY <1>2, <1>3

LEMMA WriteKeepsDownload ==
    ASSUME DownloadInv, NEW p \in Procs, Download!Write(p) PROVE DownloadInv'
    <1>1. installer[p].pc = "write" /\ UNCHANGED <<lock, entry, seed, kills, alone>>
        BY DEF Download!Write, Download!At
    <1>2. PICK body \in {"locked", "short", "other"} :
             content' = [content EXCEPT ![installer[p].own] = body]
        BY DEF Download!Write
    <1>3. PICK pc \in {"verify", "clean"} : Download!Go(p, pc)
        BY DEF Download!Write
    <1>4. /\ installer' \in [Procs -> Download!Installer]
          /\ installer'[p].pc = pc /\ installer'[p].name = installer[p].name
          /\ installer'[p].exit = installer[p].exit
          /\ installer'[p].staging = installer[p].staging
          /\ \A q \in Procs : q # p => installer'[q] = installer[q]
        BY <1>3, RunsAreTyped, GoesTo
    <1>5. /\ content \in Seq({"locked", "short", "other"}) /\ Len(content) \in Nat
          /\ entry \in [Download!Names -> [final : 0..Len(content), partial : 0..Len(content)]]
        BY DEF DownloadInv, DownloadTypes
    <1>6. /\ content' \in Seq({"locked", "short", "other"}) /\ Len(content') = Len(content)
          /\ \A n \in 1..Len(content) : n # installer[p].own => content'[n] = content[n]
        <2>1. CASE installer[p].own \in 1..Len(content)
            BY <1>2, <1>5, <2>1, ExceptSeq
        <2>2. CASE installer[p].own \notin 1..Len(content)
            <3>1. DOMAIN content = 1..Len(content)
                BY <1>5
            <3>2. /\ DOMAIN content' = DOMAIN content
                  /\ \A n \in DOMAIN content : content'[n] = content[n]
                BY <1>2, <2>2, <3>1
            <3>3. content' = [n \in DOMAIN content |-> content'[n]]
                BY <1>2, <3>1
            <3>4. content = [n \in DOMAIN content |-> content[n]]
                BY <1>5
            <3>5. content' = content
                BY <3>2, <3>3, <3>4
            <3>. QED BY <1>5, <3>5
        <2>. QED BY <2>1, <2>2
    <1>7. DownloadTypes'
        BY <1>1, <1>4, <1>5, <1>6 DEF DownloadInv, DownloadTypes
    <1>8. PartialOwned'
        BY <1>1, <1>4 DEF DownloadInv, PartialOwned, AtPartial
    <1>9. Vetted(p)'
        BY <1>1, <1>4 DEF DownloadInv, Vetted
    <1>10. Download!SeedIsWhole' /\ \A q \in Procs : Vetted(q)'
        BY <1>1, <1>4, <1>9, OthersVetted
    <1>11. Download!CacheIsLocked'
        <2>1. SUFFICES ASSUME alone, NEW n \in Download!Names, entry[n].final # 0
                       PROVE  content'[entry[n].final] = "locked"
            BY <1>1 DEF Download!CacheIsLocked, Download!Locked
        <2>2. entry[n].final # installer[p].own
            BY <1>1, <2>1 DEF DownloadInv, AloneSafe
        <2>3. content[entry[n].final] = "locked" /\ entry[n].final \in 1..Len(content)
            BY <1>5, <2>1 DEF DownloadInv, Download!CacheIsLocked, Download!Locked
        <2>. QED BY <1>6, <2>2, <2>3
    <1>12. AloneSafe'
        <2>1. SUFFICES ASSUME alone
                       PROVE  AloneSafe'
            BY <1>1 DEF AloneSafe
        <2>2. \A q \in Procs : q # p => installer'[q].pc = "idle"
            BY <1>1, <1>4, <2>1, OnlyOne
        <2>. QED BY <1>4, <2>2 DEF AloneSafe
    <1>. QED BY <1>7, <1>8, <1>10, <1>11, <1>12 DEF DownloadInv

\* The partial file of a name gets its final name, or goes.
LEMMA PartialGoes ==
    ASSUME DownloadInv, NEW p \in Procs, installer' \in [Procs -> Download!Installer],
           \A q \in Procs : q # p => installer'[q] = installer[q],
           installer[p].pc \in AtPartial, installer'[p].pc \in {"idle", "look", "inspect"},
           installer'[p].exit # "ok" \/ installer'[p].exit = installer[p].exit,
           UNCHANGED <<lock, content, seed, kills, alone>>,
           NEW name, name = installer[p].name,
           entry' \in [Download!Names -> [final : 0..Len(content), partial : 0..Len(content)]],
           \A n \in Download!Names : n # name => entry'[n] = entry[n],
           entry'[name].partial = 0,
           alone /\ entry'[name].final # entry[name].final => Download!Locked(entry'[name].final)
    PROVE  DownloadInv'
    <1>1. DownloadTypes'
        BY DEF DownloadInv, DownloadTypes
    <1>2. PartialOwned'
        <2>1. SUFFICES ASSUME NEW n \in Download!Names, kills = 0, entry'[n].partial # 0
                       PROVE  \E q \in Procs :
                                      installer'[q].name = n /\ installer'[q].pc \in AtPartial
            BY DEF PartialOwned
        <2>2. n # name
            BY <2>1
        <2>3. PICK q \in Procs : installer[q].name = n /\ installer[q].pc \in AtPartial
            BY <2>1, <2>2 DEF DownloadInv, PartialOwned
        <2>. QED BY <2>2, <2>3
    <1>3. Vetted(p)'
        BY DEF DownloadInv, Vetted, AtPartial
    <1>4. Download!SeedIsWhole' /\ \A q \in Procs : Vetted(q)'
        BY <1>3, OthersVetted
    <1>5. Download!CacheIsLocked'
        BY DEF DownloadInv, Download!CacheIsLocked, Download!Locked
    <1>6. AloneSafe'
        <2>1. SUFFICES ASSUME alone
                       PROVE  AloneSafe'
            BY DEF AloneSafe
        <2>2. installer[p].pc # "idle"
            BY DEF AtPartial
        <2>3. \A q \in Procs : q # p => installer'[q].pc = "idle"
            BY <2>1, <2>2, OnlyOne
        <2>. QED BY <2>3 DEF AloneSafe
    <1>. QED BY <1>1, <1>2, <1>4, <1>5, <1>6 DEF DownloadInv

LEMMA RenameKeepsDownload ==
    ASSUME DownloadInv, NEW p \in Procs, Download!Rename(p) PROVE DownloadInv'
    <1>1. installer[p].pc = "rename" /\ UNCHANGED <<lock, content, seed, kills, alone>>
        BY DEF Download!Rename, Download!At
    <1>2. CASE Download!Partial(p) = 0
        BY <1>1, <1>2, GoKeepsDownload DEF AtPartial, Download!Rename
    <1>3. CASE Download!Partial(p) # 0
        <2>1. PICK name \in Download!Names : name = installer[p].name
            BY RunsAreTyped DEF Download!Installer
        <2>2. /\ entry' = [entry EXCEPT ![name] = [final |-> @.partial, partial |-> 0]]
              /\ Download!Have(p)
            BY <1>3, <2>1 DEF Download!Rename
        <2>3. /\ installer' \in [Procs -> Download!Installer]
              /\ installer'[p].pc \in {"look", "inspect"} /\ installer'[p].exit = installer[p].exit
              /\ \A q \in Procs : q # p => installer'[q] = installer[q]
            BY <2>2, RunsAreTyped, HasIt
        <2>4. entry \in [Download!Names -> [final : 0..Len(content), partial : 0..Len(content)]]
            BY DEF DownloadInv, DownloadTypes
        <2>5. /\ entry'[name] = [final |-> entry[name].partial, partial |-> 0]
              /\ \A n \in Download!Names : n # name => entry'[n] = entry[n]
              /\ Len(content) \in Nat
            BY <2>2, <2>4 DEF DownloadInv, DownloadTypes
        <2>6. entry' \in [Download!Names -> [final : 0..Len(content), partial : 0..Len(content)]]
            BY <2>2, <2>4, <2>5
        <2>7. alone => Download!Locked(entry'[name].final)
            BY <1>1, <1>3, <2>1, <2>5 DEF DownloadInv, AloneSafe, Download!Partial
        <2>8. installer[p].pc \in AtPartial
            BY <1>1 DEF AtPartial
        <2>9. entry'[name].partial = 0
            BY <2>5
        <2>. QED BY <1>1, <2>1, <2>3, <2>5, <2>6, <2>7, <2>8, <2>9, PartialGoes
    <1>. QED BY <1>2, <1>3

LEMMA CleanKeepsDownload ==
    ASSUME DownloadInv, NEW p \in Procs, Download!Clean(p) PROVE DownloadInv'
    <1>1. installer[p].pc = "clean" /\ UNCHANGED <<lock, content, seed, kills, alone>>
        BY DEF Download!Clean, Download!At
    <1>2. PICK name \in Download!Names : name = installer[p].name
        BY RunsAreTyped DEF Download!Installer
    <1>3. entry' = [entry EXCEPT ![name].partial = 0] /\ Download!End(p, "failed")
        BY <1>2 DEF Download!Clean
    <1>4. /\ installer' \in [Procs -> Download!Installer]
          /\ installer'[p].pc = "idle" /\ installer'[p].exit = "failed"
          /\ \A q \in Procs : q # p => installer'[q] = installer[q]
        BY <1>3, RunsAreTyped, EndsWith
    <1>5. /\ entry \in [Download!Names -> [final : 0..Len(content), partial : 0..Len(content)]]
          /\ Len(content) \in Nat
        BY DEF DownloadInv, DownloadTypes
    <1>6. /\ entry' \in [Download!Names -> [final : 0..Len(content), partial : 0..Len(content)]]
          /\ entry'[name].partial = 0 /\ entry'[name].final = entry[name].final
          /\ \A n \in Download!Names : n # name => entry'[n] = entry[n]
        BY <1>3, <1>5
    <1>7. installer[p].pc \in AtPartial
        BY <1>1 DEF AtPartial
    <1>. QED BY <1>1, <1>2, <1>4, <1>6, <1>7, PartialGoes

LEMMA DownloadKeepsInv ==
    DownloadInv /\ (Download!DownloadNext \/ UNCHANGED Download!downloadVars) => DownloadInv'
    <1>. SUFFICES ASSUME DownloadInv, Download!DownloadNext \/ UNCHANGED Download!downloadVars
                  PROVE  DownloadInv'
        OBVIOUS
    <1>1. ASSUME NEW p \in Procs, Download!Kill(p)
          PROVE  DownloadInv'
        <2>1. /\ installer[p].pc # "idle" /\ kills' = kills + 1 /\ Download!End(p, "killed")
              /\ UNCHANGED <<lock, entry, content, seed, alone>>
            BY <1>1 DEF Download!Kill, Download!At
        <2>. QED BY <2>1, RunsAreTyped, EndKeepsDownload
    <1>2. CASE UNCHANGED Download!downloadVars
        BY <1>2
        DEF Download!downloadVars, DownloadInv, DownloadTypes, PartialOwned, Vetted, AloneSafe,
            Download!SeedIsWhole, Download!CacheIsLocked, Download!Partial, Download!Locked
    <1>. QED
        BY <1>1, <1>2, StartKeepsDownload, LookKeepsDownload, OpenKeepsDownload,
           WriteKeepsDownload, VerifyKeepsDownload, RenameKeepsDownload, CleanKeepsDownload,
           ExtractKeepsDownload
        DEF Download!DownloadNext

LEMMA DownloadIsTold == DownloadInv => Download!DownloadTells
    <1>1. DownloadInv => Download!NothingPartial
        BY DEF DownloadInv, PartialOwned, AtPartial, Download!NothingPartial, Download!At
    <1>. QED BY <1>1 DEF DownloadInv, Download!DownloadTells
-----------------------------------------------------------------------------
(* The tree of the runtime *)

RootTypes ==
    /\ shipped \in Root!Versions /\ current \in 0..MaxVersion /\ common \subseteq Games
    /\ roots \in [Root!Versions -> Root!Tree] /\ prep \in [Procs -> Root!Prep] /\ bent \in BOOLEAN

\* A tree of the version v, unless Steam has replaced a file meanwhile.
Of(tree, v) == v \in Root!Versions /\ (bent \/ tree.as = v)

\* What a run knows of its staging directory, or of the root that it has found.
Builds(p) ==
    LET r == prep[p] IN
    /\ r.pc \in {"verify", "copy"} =>
           r.version \in Root!Versions /\ r.tree = Root!Nothing /\ ~r.only
    /\ r.pc \in {"read", "validate"} => r.tree = Root!Nothing
    /\ r.pc = "validate" => Root!There(r.version) /\ r.version \in Root!Versions
    /\ r.pc \in {"list", "anchor"} =>
           IF Root!Staged(p) THEN /\ r.tree.parts = {"directories", "files", "links"}
                                  /\ Of(r.tree, r.version) /\ ~r.only
                             ELSE Root!There(r.version) /\ r.version \in Root!Versions
    /\ r.pc = "rename" => r.tree.parts = Root!Parts /\ Of(r.tree, r.version)
    /\ r.pc = "select" \/ r.exit = "ok" => Root!There(r.version) /\ r.version \in Root!Versions

\* The directories that a run has made so far.
Made(p) == IF Root!Staged(p) THEN prep[p].tree.anchors ELSE roots[prep[p].version].anchors

AnchorsKept(p) ==
    LET r == prep[p] IN
    /\ r.pc # "idle" => r.began \subseteq common /\ r.exit = "none"
    /\ r.pc = "anchor" => r.began \subseteq r.left \cup Made(p)
    /\ r.pc = "rename" => r.began \subseteq r.tree.anchors
    /\ r.pc = "select" \/ r.exit = "ok" => r.began \subseteq roots[r.version].anchors

RootInv ==
    /\ RootTypes
    /\ \A v \in Root!Versions :
           roots[v].parts # {} => roots[v].parts = Root!Parts /\ Of(roots[v], v)
    /\ current # 0 => Root!There(current)
    /\ \A p \in Procs : Builds(p) /\ AnchorsKept(p)

LEMMA RootNumbers ==
    /\ MaxVersion \in Nat /\ 1 \in Root!Versions /\ 0 \notin Root!Versions
    /\ Root!Versions = (0..MaxVersion) \ {0} /\ 0 \in 0..MaxVersion
    BY PreparationAssumption DEF Root!DirectRootAssumption, Root!Versions

LEMMA NothingIsTree == Root!Nothing \in Root!Tree /\ Root!Nothing.parts = {}
    BY RootNumbers DEF Root!Nothing, Root!Tree

\* What a command becomes that begins, fails, is killed or is done.
LEMMA StillIsPrep ==
    ASSUME NEW pc \in {"idle", "read"}, NEW only \in BOOLEAN, NEW games \in SUBSET Games,
           NEW exit \in {"none", "failed"}
    PROVE  [Root!Still EXCEPT !.pc = pc, !.only = only, !.began = games, !.exit = exit]
               \in Root!Prep
    BY RootNumbers, NothingIsTree DEF Root!Still, Root!Prep

LEMMA RootStarts == Root!RootInit => RootInv
    <1>. SUFFICES ASSUME Root!RootInit PROVE RootInv
        OBVIOUS
    <1>1. Root!Still \in Root!Prep /\ Root!Still.pc = "idle" /\ Root!Still.exit = "none"
        BY RootNumbers, NothingIsTree DEF Root!Still, Root!Prep
    <1>2. prep \in [Procs -> Root!Prep]
        BY <1>1 DEF Root!RootInit
    <1>3. \A p \in Procs : Builds(p) /\ AnchorsKept(p)
        BY <1>1 DEF Root!RootInit, Builds, AnchorsKept
    <1>4. roots \in [Root!Versions -> Root!Tree] /\ \A v \in Root!Versions : roots[v].parts = {}
        BY NothingIsTree DEF Root!RootInit
    <1>. QED
        BY <1>2, <1>3, <1>4, RootNumbers DEF RootInv, RootTypes, Root!RootInit

-----------------------------------------------------------------------------
(* A step of one run *)

\* No root goes away, and none loses a directory.
RootsKept == \A v \in Root!Versions : Root!There(v) =>
    roots'[v].parts = roots[v].parts /\ roots[v].anchors \subseteq roots'[v].anchors

LEMMA OtherRuns ==
    ASSUME RootInv, NEW p \in Procs, prep'[p] = prep[p], RootsKept, bent => bent',
           common' = common
    PROVE  Builds(p)' /\ AnchorsKept(p)'
    <1>1. Builds(p) /\ AnchorsKept(p)
        BY DEF RootInv
    <1>2. \A v \in Root!Versions : Root!There(v) => Root!There(v)'
        BY DEF RootsKept, Root!There
    <1>3. Root!Staged(p)' <=> Root!Staged(p)
        BY DEF Root!Staged
    <1>4. \A tree, v : Of(tree, v) => Of(tree, v)'
        BY DEF Of
    <1>5. Builds(p)'
        BY <1>1, <1>2, <1>3, <1>4 DEF Builds
    <1>6. prep[p].pc = "anchor" => Made(p) \subseteq Made(p)'
        BY <1>1, <1>3 DEF Made, Builds, RootsKept
    <1>7. prep[p].pc = "select" \/ prep[p].exit = "ok" =>
              roots[prep[p].version].anchors \subseteq roots'[prep[p].version].anchors
        BY <1>1 DEF Builds, RootsKept
    <1>8. AnchorsKept(p)'
        BY <1>1, <1>6, <1>7 DEF AnchorsKept
    <1>. QED BY <1>5, <1>8

\* A step that leaves the roots alone.
LEMMA QuietStep ==
    ASSUME RootInv, NEW p \in Procs, prep' \in [Procs -> Root!Prep],
           \A q \in Procs : q # p => prep'[q] = prep[q],
           shipped' = shipped, roots' = roots, common' = common,
           current' = current \/ (current' \in Root!Versions /\ Root!There(current')),
           bent => bent', bent' \in BOOLEAN,
           Builds(p)', AnchorsKept(p)'
    PROVE  RootInv'
    <1>1. RootsKept
        BY DEF RootsKept
    <1>2. \A q \in Procs : Builds(q)' /\ AnchorsKept(q)'
        BY <1>1, OtherRuns
    <1>3. RootTypes'
        BY RootNumbers DEF RootInv, RootTypes
    <1>4. \A v \in Root!Versions :
              roots'[v].parts # {} => roots'[v].parts = Root!Parts /\ Of(roots[v], v)'
        BY DEF RootInv, Of
    <1>5. current' # 0 => Root!There(current)'
        BY DEF RootInv, Root!There
    <1>. QED BY <1>2, <1>3, <1>4, <1>5 DEF RootInv

\* A run that fails, or is killed.
LEMMA FailedStep ==
    ASSUME RootInv, NEW p \in Procs, UNCHANGED <<shipped, roots, current, common, bent>>,
           Root!Fail(p) \/ prep' = [prep EXCEPT ![p] = Root!Still]
    PROVE  RootInv'
    <1>1. PICK exit \in {"none", "failed"} :
             prep' = [prep EXCEPT ![p] = [Root!Still EXCEPT !.exit = exit]]
        BY DEF Root!Fail, Root!Still
    <1>2. /\ [Root!Still EXCEPT !.exit = exit] \in Root!Prep
          /\ [Root!Still EXCEPT !.exit = exit].pc = "idle"
          /\ [Root!Still EXCEPT !.exit = exit].exit = exit
        BY RootNumbers, NothingIsTree DEF Root!Still, Root!Prep
    <1>3. /\ prep' \in [Procs -> Root!Prep]
          /\ prep'[p].pc = "idle" /\ prep'[p].exit = exit
          /\ \A q \in Procs : q # p => prep'[q] = prep[q]
        BY <1>1, <1>2 DEF RootInv, RootTypes
    <1>4. Builds(p)' /\ AnchorsKept(p)'
        BY <1>3 DEF Builds, AnchorsKept
    <1>. QED BY <1>3, <1>4, QuietStep DEF RootInv, RootTypes

LEMMA BeginKeepsRoot ==
    ASSUME RootInv, NEW p \in Procs, NEW only \in BOOLEAN, Root!Begin(p, only) PROVE RootInv'
    <1>. DEFINE r == [Root!Still EXCEPT !.pc = "read", !.only = only, !.began = common]
    <1>1. prep' = [prep EXCEPT ![p] = r] /\ UNCHANGED <<shipped, roots, current, common, bent>>
        BY DEF Root!Begin
    <1>2. /\ r \in Root!Prep /\ r.pc = "read" /\ r.exit = "none" /\ r.began = common
          /\ r.tree = Root!Nothing
        BY RootNumbers, NothingIsTree DEF Root!Still, Root!Prep, RootInv, RootTypes
    <1>. HIDE DEF r
    <1>3. /\ prep' \in [Procs -> Root!Prep] /\ prep'[p] = r
          /\ \A q \in Procs : q # p => prep'[q] = prep[q]
        BY <1>1, <1>2 DEF RootInv, RootTypes
    <1>4. Builds(p)' /\ AnchorsKept(p)'
        BY <1>1, <1>2, <1>3 DEF Builds, AnchorsKept
    <1>. QED BY <1>1, <1>3, <1>4, QuietStep DEF RootInv, RootTypes

\* A run goes on to another step, of the version it has or of one that there is.
LEMMA RunGoes ==
    ASSUME RootInv, NEW p \in Procs, NEW v \in 0..MaxVersion,
           NEW pc \in {"validate", "verify", "copy", "list", "select"},
           prep' = [prep EXCEPT ![p].version = v, ![p].pc = pc]
    PROVE  /\ prep' \in [Procs -> Root!Prep]
           /\ prep'[p].version = v /\ prep'[p].pc = pc /\ prep'[p].tree = prep[p].tree
           /\ prep'[p].only = prep[p].only /\ prep'[p].left = prep[p].left
           /\ prep'[p].began = prep[p].began /\ prep'[p].exit = prep[p].exit
           /\ \A q \in Procs : q # p => prep'[q] = prep[q]
    <1>1. prep \in [Procs -> Root!Prep]
        BY DEF RootInv, RootTypes
    <1>. QED BY <1>1 DEF Root!Prep

LEMMA RunSame ==
    ASSUME RootInv, NEW p \in Procs, NEW pc \in {"validate", "verify", "copy", "list", "select"},
           Root!Go(p, pc)
    PROVE  /\ prep[p].version \in 0..MaxVersion
           /\ prep' = [prep EXCEPT ![p].version = prep[p].version, ![p].pc = pc]
    <1>1. prep \in [Procs -> Root!Prep] /\ prep' = [prep EXCEPT ![p].pc = pc]
        BY DEF RootInv, RootTypes, Root!Go
    <1>. QED BY <1>1 DEF Root!Prep

LEMMA SelectedKeepsRoot ==
    ASSUME RootInv, NEW p \in Procs, Root!Selected(p) PROVE RootInv'
    <1>1. /\ UNCHANGED <<shipped, roots, current, common, bent>>
          /\ prep[p].pc = "read" /\ prep[p].tree = Root!Nothing
          /\ prep[p].began \subseteq common /\ prep[p].exit = "none"
        BY DEF Root!Selected, Root!At, RootInv, Builds, AnchorsKept
    <1>2. CASE Root!Fail(p)
        BY <1>1, <1>2, FailedStep
    <1>3. CASE /\ Root!There(current)
               /\ prep' = [prep EXCEPT ![p].pc = "list", ![p].version = current]
        <2>1. current \in 0..MaxVersion /\ current \in Root!Versions
            BY <1>3, RootNumbers DEF RootInv, RootTypes, Root!There
        <2>2. prep' = [prep EXCEPT ![p].version = current, ![p].pc = "list"]
            BY <1>3 DEF RootInv, RootTypes, Root!Prep
        <2>3. /\ prep' \in [Procs -> Root!Prep]
              /\ prep'[p].version = current /\ prep'[p].pc = "list"
              /\ prep'[p].tree = prep[p].tree
              /\ prep'[p].began = prep[p].began /\ prep'[p].exit = prep[p].exit
              /\ \A q \in Procs : q # p => prep'[q] = prep[q]
            BY <2>1, <2>2, RunGoes
        <2>4. Builds(p)' /\ AnchorsKept(p)'
            BY <1>1, <1>3, <2>1, <2>3 DEF Builds, AnchorsKept, Root!Staged, Root!There
        <2>. QED BY <1>1, <2>3, <2>4, QuietStep DEF RootInv, RootTypes
    <1>. QED BY <1>2, <1>3 DEF Root!Selected

LEMMA ReadKeepsRoot ==
    ASSUME RootInv, NEW p \in Procs, Root!Read(p) PROVE RootInv'
    <1>. DEFINE pc == IF Root!There(shipped) THEN "validate" ELSE "verify"
    <1>1. /\ UNCHANGED <<shipped, roots, current, common, bent>>
          /\ prep[p].pc = "read" /\ prep[p].tree = Root!Nothing /\ ~prep[p].only
          /\ prep[p].began \subseteq common /\ prep[p].exit = "none"
          /\ prep' = [prep EXCEPT ![p].version = shipped, ![p].pc = pc]
        BY DEF Root!Read, Root!At, RootInv, Builds, AnchorsKept
    <1>2. shipped \in 0..MaxVersion /\ shipped \in Root!Versions
        BY RootNumbers DEF RootInv, RootTypes
    <1>3. /\ prep' \in [Procs -> Root!Prep]
          /\ prep'[p].version = shipped /\ prep'[p].pc = pc /\ prep'[p].tree = prep[p].tree
          /\ prep'[p].only = prep[p].only
          /\ prep'[p].began = prep[p].began /\ prep'[p].exit = prep[p].exit
          /\ \A q \in Procs : q # p => prep'[q] = prep[q]
        BY <1>1, <1>2, RunGoes
    <1>4. Builds(p)' /\ AnchorsKept(p)'
        BY <1>1, <1>2, <1>3 DEF Builds, AnchorsKept, Root!There
    <1>. QED BY <1>1, <1>3, <1>4, QuietStep DEF RootInv, RootTypes

LEMMA ValidateKeepsRoot ==
    ASSUME RootInv, NEW p \in Procs, Root!Validate(p) PROVE RootInv'
    <1>1. /\ UNCHANGED <<shipped, roots, current, common, bent>>
          /\ prep[p].pc = "validate" /\ Builds(p) /\ AnchorsKept(p)
          /\ Root!Fail(p) \/ Root!Go(p, "list")
        BY DEF Root!Validate, Root!At, RootInv
    <1>2. CASE Root!Fail(p)
        BY <1>1, <1>2, FailedStep
    <1>3. CASE Root!Go(p, "list")
        <2>1. /\ prep[p].version \in 0..MaxVersion
              /\ prep' = [prep EXCEPT ![p].version = prep[p].version, ![p].pc = "list"]
            BY <1>3, RunSame
        <2>2. /\ prep' \in [Procs -> Root!Prep]
              /\ prep'[p].version = prep[p].version /\ prep'[p].pc = "list"
              /\ prep'[p].tree = prep[p].tree
              /\ prep'[p].began = prep[p].began /\ prep'[p].exit = prep[p].exit
              /\ \A q \in Procs : q # p => prep'[q] = prep[q]
            BY <2>1, RunGoes
        <2>3. Builds(p)' /\ AnchorsKept(p)'
            BY <1>1, <2>2 DEF Builds, AnchorsKept, Root!Staged, Root!There
        <2>. QED BY <1>1, <2>2, <2>3, QuietStep DEF RootInv, RootTypes
    <1>. QED BY <1>1, <1>2, <1>3

LEMMA VerifyKeepsRoot ==
    ASSUME RootInv, NEW p \in Procs, Root!VerifySource(p) PROVE RootInv'
    <1>1. /\ UNCHANGED <<shipped, roots, current, common, bent>>
          /\ prep[p].pc = "verify" /\ Builds(p) /\ AnchorsKept(p)
          /\ Root!Fail(p) \/ Root!Go(p, "copy")
        BY DEF Root!VerifySource, Root!At, RootInv
    <1>2. CASE Root!Fail(p)
        BY <1>1, <1>2, FailedStep
    <1>3. CASE Root!Go(p, "copy")
        <2>1. /\ prep[p].version \in 0..MaxVersion
              /\ prep' = [prep EXCEPT ![p].version = prep[p].version, ![p].pc = "copy"]
            BY <1>3, RunSame
        <2>2. /\ prep' \in [Procs -> Root!Prep]
              /\ prep'[p].version = prep[p].version /\ prep'[p].pc = "copy"
              /\ prep'[p].tree = prep[p].tree /\ prep'[p].only = prep[p].only
              /\ prep'[p].began = prep[p].began /\ prep'[p].exit = prep[p].exit
              /\ \A q \in Procs : q # p => prep'[q] = prep[q]
            BY <2>1, RunGoes
        <2>3. Builds(p)' /\ AnchorsKept(p)'
            BY <1>1, <2>2 DEF Builds, AnchorsKept
        <2>. QED BY <1>1, <2>2, <2>3, QuietStep DEF RootInv, RootTypes
    <1>. QED BY <1>1, <1>2, <1>3

LEMMA CopyKeepsRoot ==
    ASSUME RootInv, NEW p \in Procs, Root!CopySource(p) PROVE RootInv'
    <1>1. /\ UNCHANGED <<shipped, roots, current, common>>
          /\ prep[p].pc = "copy" /\ Builds(p) /\ AnchorsKept(p)
        BY DEF Root!CopySource, Root!At, RootInv
    <1>2. CASE Root!Fail(p) /\ UNCHANGED bent
        BY <1>1, <1>2, FailedStep
    <1>3. CASE ~(Root!Fail(p) /\ UNCHANGED bent)
        <2>. DEFINE tree == [Root!Nothing EXCEPT
                               !.parts = {"directories", "files", "links"},
                               !.as = IF shipped = prep[p].version THEN shipped ELSE 0]
        <2>1. /\ bent' = (bent \/ shipped # prep[p].version)
              /\ prep' = [prep EXCEPT ![p].pc = "list", ![p].tree = tree]
            BY <1>3 DEF Root!CopySource
        <2>2. /\ tree \in Root!Tree /\ tree.parts = {"directories", "files", "links"}
              /\ tree.as = IF shipped = prep[p].version THEN shipped ELSE 0
            BY RootNumbers, NothingIsTree
            DEF Root!Nothing, Root!Tree, Root!Parts, RootInv, RootTypes
        <2>. HIDE DEF tree
        <2>3. prep \in [Procs -> Root!Prep]
            BY DEF RootInv, RootTypes
        <2>4. /\ prep' \in [Procs -> Root!Prep]
              /\ prep'[p].version = prep[p].version /\ prep'[p].pc = "list"
              /\ prep'[p].tree = tree /\ prep'[p].only = prep[p].only
              /\ prep'[p].began = prep[p].began /\ prep'[p].exit = prep[p].exit
              /\ \A q \in Procs : q # p => prep'[q] = prep[q]
            BY <2>1, <2>2, <2>3 DEF Root!Prep
        <2>5. tree # Root!Nothing
            BY <2>2, NothingIsTree
        <2>6. ~prep[p].only
            BY <1>1 DEF Builds
        <2>7. Builds(p)'
            <3>1. prep[p].version \in Root!Versions
                BY <1>1 DEF Builds
            <3>2. bent' \/ tree.as = prep[p].version
                BY <2>1, <2>2
            <3>3. /\ prep'[p].version \in Root!Versions
                  /\ bent' \/ prep'[p].tree.as = prep'[p].version
                BY <2>4, <3>1, <3>2
            <3>4. /\ prep'[p].pc = "list" /\ prep'[p].exit = "none"
                  /\ prep'[p].tree.parts = {"directories", "files", "links"}
                  /\ ~prep'[p].only /\ prep'[p].tree # Root!Nothing
                BY <1>1, <2>2, <2>4, <2>5, <2>6 DEF AnchorsKept
            <3>. QED BY <3>3, <3>4 DEF Builds, Root!Staged, Of
        <2>8. AnchorsKept(p)'
            BY <1>1, <2>4 DEF AnchorsKept
        <2>. QED BY <1>1, <2>1, <2>4, <2>7, <2>8, QuietStep DEF RootInv, RootTypes
    <1>. QED BY <1>2, <1>3

LEMMA ListKeepsRoot ==
    ASSUME RootInv, NEW p \in Procs, Root!List(p) PROVE RootInv'
    <1>1. /\ UNCHANGED <<shipped, roots, current, common, bent>>
          /\ prep[p].pc = "list" /\ Builds(p) /\ AnchorsKept(p)
          /\ prep' = [prep EXCEPT ![p].pc = "anchor", ![p].left = common]
          /\ prep \in [Procs -> Root!Prep] /\ common \subseteq Games
        BY DEF Root!List, Root!At, RootInv, RootTypes
    <1>2. /\ prep' \in [Procs -> Root!Prep]
          /\ prep'[p].version = prep[p].version /\ prep'[p].pc = "anchor"
          /\ prep'[p].tree = prep[p].tree /\ prep'[p].only = prep[p].only
          /\ prep'[p].left = common
          /\ prep'[p].began = prep[p].began /\ prep'[p].exit = prep[p].exit
          /\ \A q \in Procs : q # p => prep'[q] = prep[q]
        BY <1>1 DEF Root!Prep
    <1>3. Builds(p)'
        BY <1>1, <1>2 DEF Builds, Root!Staged, Of, Root!There
    <1>4. AnchorsKept(p)'
        BY <1>1, <1>2 DEF AnchorsKept
    <1>. QED BY <1>1, <1>2, <1>3, <1>4, QuietStep DEF RootInv, RootTypes

\* A directory is made in the staging directory, or in the root.
LEMMA AnchorKeepsRoot ==
    ASSUME RootInv, NEW p \in Procs, Root!Anchor(p) PROVE RootInv'
    <1>1. /\ UNCHANGED <<shipped, current, common, bent>>
          /\ prep[p].pc = "anchor" /\ Builds(p) /\ AnchorsKept(p)
          /\ prep \in [Procs -> Root!Prep] /\ roots \in [Root!Versions -> Root!Tree]
        BY DEF Root!Anchor, Root!At, RootInv, RootTypes
    <1>2. PICK game \in prep[p].left :
             IF game \notin common THEN Root!Fail(p) /\ UNCHANGED roots
             ELSE IF Root!Staged(p)
             THEN /\ prep' = [prep EXCEPT ![p].left = @ \ {game},
                                          ![p].tree.anchors = @ \cup {game}]
                  /\ UNCHANGED roots
             ELSE /\ prep' = [prep EXCEPT ![p].left = @ \ {game}]
                  /\ roots' = [roots EXCEPT ![prep[p].version].anchors = @ \cup {game}]
        BY DEF Root!Anchor
    <1>3. game \in Games
        BY <1>1, <1>2 DEF Root!Prep
    <1>4. CASE game \notin common
        BY <1>1, <1>2, <1>4, FailedStep
    <1>5. CASE game \in common /\ Root!Staged(p)
        <2>1. /\ prep' = [prep EXCEPT ![p].left = @ \ {game},
                                      ![p].tree.anchors = @ \cup {game}]
              /\ UNCHANGED roots
            BY <1>2, <1>5
        <2>2. ASSUME NEW r \in Root!Prep
              PROVE  [r EXCEPT !.left = @ \ {game}, !.tree.anchors = @ \cup {game}] \in Root!Prep
            <3>1. [r.tree EXCEPT !.anchors = @ \cup {game}] \in Root!Tree
                BY <1>3 DEF Root!Prep, Root!Tree
            <3>. QED BY <3>1 DEF Root!Prep
        <2>3. /\ prep' \in [Procs -> Root!Prep]
              /\ \A q \in Procs : q # p => prep'[q] = prep[q]
            BY <1>1, <2>1, <2>2
        <2>4. /\ prep'[p].version = prep[p].version /\ prep'[p].pc = "anchor"
              /\ prep'[p].only = prep[p].only /\ prep'[p].left = prep[p].left \ {game}
              /\ prep'[p].began = prep[p].began /\ prep'[p].exit = prep[p].exit
              /\ prep'[p].tree = [prep[p].tree EXCEPT !.anchors = @ \cup {game}]
            BY <1>1, <2>1 DEF Root!Prep
        <2>5. prep[p].tree \in Root!Tree
            BY <1>1 DEF Root!Prep
        <2>6. /\ prep'[p].tree.parts = prep[p].tree.parts
              /\ prep'[p].tree.as = prep[p].tree.as
              /\ prep'[p].tree.anchors = prep[p].tree.anchors \cup {game}
            BY <2>4, <2>5 DEF Root!Tree
        <2>7. prep[p].tree.parts = {"directories", "files", "links"}
            BY <1>1, <1>5 DEF Builds
        <2>8. prep'[p].tree # Root!Nothing
            BY <2>6, <2>7, NothingIsTree
        <2>9. Builds(p)'
            BY <1>1, <1>5, <2>4, <2>6, <2>7, <2>8 DEF Builds, Root!Staged, Of, AnchorsKept
        <2>10. AnchorsKept(p)'
            BY <1>1, <1>5, <2>4, <2>6, <2>8 DEF AnchorsKept, Made, Root!Staged
        <2>. QED BY <1>1, <2>1, <2>3, <2>9, <2>10, QuietStep DEF RootInv, RootTypes
    <1>6. CASE game \in common /\ ~Root!Staged(p)
        <2>. DEFINE v == prep[p].version
        <2>1. /\ prep' = [prep EXCEPT ![p].left = @ \ {game}]
              /\ roots' = [roots EXCEPT ![v].anchors = @ \cup {game}]
            BY <1>2, <1>6
        <2>2. v \in Root!Versions /\ Root!There(v)
            BY <1>1, <1>6 DEF Builds
        <2>3. ASSUME NEW r \in Root!Tree
              PROVE  /\ [r EXCEPT !.anchors = @ \cup {game}] \in Root!Tree
                     /\ [r EXCEPT !.anchors = @ \cup {game}].parts = r.parts
                     /\ [r EXCEPT !.anchors = @ \cup {game}].as = r.as
                     /\ [r EXCEPT !.anchors = @ \cup {game}].anchors = r.anchors \cup {game}
            BY <1>3 DEF Root!Tree
        <2>. HIDE DEF v
        <2>4. /\ roots'[v] = [roots[v] EXCEPT !.anchors = @ \cup {game}]
              /\ \A w \in Root!Versions : w # v => roots'[w] = roots[w]
              /\ DOMAIN roots' = Root!Versions
              /\ roots' = [w \in Root!Versions |-> roots'[w]]
            BY <1>1, <2>1, <2>2
        <2>5. /\ roots'[v] \in Root!Tree /\ roots'[v].parts = roots[v].parts
              /\ roots'[v].as = roots[v].as /\ roots'[v].anchors = roots[v].anchors \cup {game}
            BY <1>1, <2>2, <2>3, <2>4
        <2>6. roots' \in [Root!Versions -> Root!Tree]
            BY <1>1, <2>4, <2>5
        <2>7. RootsKept
            BY <2>4, <2>5 DEF RootsKept
        <2>8. /\ prep' \in [Procs -> Root!Prep]
              /\ prep'[p].version = v /\ prep'[p].pc = "anchor"
              /\ prep'[p].only = prep[p].only /\ prep'[p].left = prep[p].left \ {game}
              /\ prep'[p].began = prep[p].began /\ prep'[p].exit = prep[p].exit
              /\ prep'[p].tree = prep[p].tree
              /\ \A q \in Procs : q # p => prep'[q] = prep[q]
            BY <1>1, <2>1 DEF Root!Prep, v
        <2>9. v # 0 /\ roots'[v].parts # {}
            BY <2>2, <2>5 DEF Root!There
        <2>10. Builds(p)'
            <3>1. prep[p].tree = Root!Nothing /\ prep[p].exit = "none"
                BY <1>1, <1>6 DEF Root!Staged, AnchorsKept
            <3>. QED BY <2>2, <2>8, <2>9, <3>1, NothingIsTree DEF Builds, Root!Staged, Root!There
        <2>11. AnchorsKept(p)'
            BY <1>1, <1>6, <2>5, <2>8 DEF AnchorsKept, Made, Root!Staged, v
        <2>12. \A q \in Procs : Builds(q)' /\ AnchorsKept(q)'
            BY <1>1, <2>7, <2>8, <2>10, <2>11, OtherRuns
        <2>13. \A w \in Root!Versions :
                   roots'[w].parts # {} => roots'[w].parts = Root!Parts /\ Of(roots'[w], w)
            BY <2>4, <2>5, <2>2 DEF RootInv, Of
        <2>14. current # 0 => current \in Root!Versions /\ Root!There(current)
            BY RootNumbers DEF RootInv, RootTypes
        <2>15. current' # 0 => Root!There(current)'
            BY <1>1, <2>7, <2>14 DEF RootsKept, Root!There
        <2>. QED BY <1>1, <2>6, <2>8, <2>12, <2>13, <2>15 DEF RootInv, RootTypes, Of
    <1>. QED BY <1>4, <1>5, <1>6

\* A run that is done has named a root in which it has made every directory.
LEMMA DoneStep ==
    ASSUME RootInv, NEW p \in Procs, Root!Done(p), UNCHANGED <<shipped, roots, common, bent>>,
           Root!There(prep[p].version), prep[p].version \in Root!Versions,
           current' = current \/ current' = prep[p].version,
           prep[p].began \subseteq roots[prep[p].version].anchors
    PROVE  RootInv'
    <1>1. prep \in [Procs -> Root!Prep]
        BY DEF RootInv, RootTypes
    <1>2. /\ prep' \in [Procs -> Root!Prep]
          /\ prep'[p].version = prep[p].version /\ prep'[p].pc = "idle"
          /\ prep'[p].began = prep[p].began /\ prep'[p].exit = "ok"
          /\ \A q \in Procs : q # p => prep'[q] = prep[q]
        BY <1>1, NothingIsTree DEF Root!Done, Root!Prep
    <1>3. Builds(p)'
        BY <1>2 DEF Builds, Root!There
    <1>4. AnchorsKept(p)'
        BY <1>2 DEF AnchorsKept
    <1>. QED BY <1>2, <1>3, <1>4, QuietStep DEF RootInv, RootTypes

LEMMA AnchoredKeepsRoot ==
    ASSUME RootInv, NEW p \in Procs, Root!Anchored(p) PROVE RootInv'
    <1>1. /\ UNCHANGED <<shipped, roots, current, common, bent>>
          /\ prep[p].pc = "anchor" /\ prep[p].left = {} /\ Builds(p) /\ AnchorsKept(p)
          /\ prep \in [Procs -> Root!Prep]
        BY DEF Root!Anchored, Root!At, RootInv, RootTypes
    <1>2. prep[p].began \subseteq Made(p) /\ prep[p].exit = "none"
        BY <1>1 DEF AnchorsKept
    <1>3. CASE prep[p].only
        <2>1. ~Root!Staged(p)
            BY <1>1, <1>3 DEF Builds
        <2>2. /\ Root!There(prep[p].version) /\ prep[p].version \in Root!Versions
              /\ prep[p].began \subseteq roots[prep[p].version].anchors
            BY <1>1, <1>2, <2>1 DEF Builds, Made
        <2>3. Root!Done(p)
            BY <1>3 DEF Root!Anchored
        <2>. QED BY <1>1, <2>2, <2>3, DoneStep
    <1>4. CASE ~prep[p].only /\ Root!Staged(p)
        <2>1. prep' = [prep EXCEPT ![p].pc = "rename", ![p].tree.parts = @ \cup {"marker"}]
            BY <1>4 DEF Root!Anchored
        <2>2. /\ prep[p].tree.parts = {"directories", "files", "links"}
              /\ Of(prep[p].tree, prep[p].version) /\ prep[p].tree \in Root!Tree
              /\ prep[p].began \subseteq prep[p].tree.anchors
            BY <1>1, <1>2, <1>4 DEF Builds, Made, Root!Prep
        <2>3. ASSUME NEW r \in Root!Prep
              PROVE  [r EXCEPT !.pc = "rename", !.tree.parts = @ \cup {"marker"}] \in Root!Prep
            <3>1. [r.tree EXCEPT !.parts = @ \cup {"marker"}] \in Root!Tree
                BY DEF Root!Prep, Root!Tree, Root!Parts
            <3>. QED BY <3>1 DEF Root!Prep
        <2>4. /\ prep' \in [Procs -> Root!Prep]
              /\ \A q \in Procs : q # p => prep'[q] = prep[q]
            BY <1>1, <2>1, <2>3
        <2>5. /\ prep'[p].version = prep[p].version /\ prep'[p].pc = "rename"
              /\ prep'[p].began = prep[p].began /\ prep'[p].exit = prep[p].exit
              /\ prep'[p].tree = [prep[p].tree EXCEPT !.parts = @ \cup {"marker"}]
            BY <1>1, <2>1 DEF Root!Prep
        <2>6. /\ prep'[p].tree.parts = Root!Parts /\ prep'[p].tree.as = prep[p].tree.as
              /\ prep'[p].tree.anchors = prep[p].tree.anchors
            BY <2>2, <2>5 DEF Root!Tree, Root!Parts
        <2>7. Builds(p)'
            BY <1>1, <1>2, <2>2, <2>5, <2>6 DEF Builds, Of
        <2>8. AnchorsKept(p)'
            BY <1>1, <1>2, <2>2, <2>5, <2>6 DEF AnchorsKept
        <2>. QED BY <1>1, <2>4, <2>7, <2>8, QuietStep DEF RootInv, RootTypes
    <1>5. CASE ~prep[p].only /\ ~Root!Staged(p)
        <2>1. Root!Go(p, "select")
            BY <1>5 DEF Root!Anchored
        <2>2. /\ Root!There(prep[p].version) /\ prep[p].version \in Root!Versions
              /\ prep[p].began \subseteq roots[prep[p].version].anchors
            BY <1>1, <1>2, <1>5 DEF Builds, Made
        <2>3. /\ prep[p].version \in 0..MaxVersion
              /\ prep' = [prep EXCEPT ![p].version = prep[p].version, ![p].pc = "select"]
            BY <2>1, RunSame
        <2>4. /\ prep' \in [Procs -> Root!Prep]
              /\ prep'[p].version = prep[p].version /\ prep'[p].pc = "select"
              /\ prep'[p].began = prep[p].began /\ prep'[p].exit = prep[p].exit
              /\ \A q \in Procs : q # p => prep'[q] = prep[q]
            BY <2>3, RunGoes
        <2>5. Builds(p)'
            BY <1>1, <2>2, <2>4 DEF Builds, Root!There
        <2>6. AnchorsKept(p)'
            BY <1>1, <1>2, <2>2, <2>4 DEF AnchorsKept
        <2>. QED BY <1>1, <2>4, <2>5, <2>6, QuietStep DEF RootInv, RootTypes
    <1>. QED BY <1>3, <1>4, <1>5

LEMMA RenameKeepsRoot ==
    ASSUME RootInv, NEW p \in Procs, Root!Rename(p) PROVE RootInv'
    <1>. DEFINE v == prep[p].version
    <1>1. /\ UNCHANGED <<shipped, current, common, bent>>
          /\ prep[p].pc = "rename" /\ Builds(p) /\ AnchorsKept(p)
          /\ prep \in [Procs -> Root!Prep] /\ roots \in [Root!Versions -> Root!Tree]
        BY DEF Root!Rename, Root!At, RootInv, RootTypes
    <1>2. CASE Root!There(v)
        BY <1>1, <1>2, FailedStep DEF Root!Rename
    <1>3. CASE ~Root!There(v)
        <2>1. roots' = [roots EXCEPT ![v] = prep[p].tree] /\ Root!Go(p, "select")
            BY <1>3 DEF Root!Rename
        <2>2. /\ prep[p].tree.parts = Root!Parts /\ Of(prep[p].tree, v)
              /\ prep[p].began \subseteq prep[p].tree.anchors
              /\ prep[p].tree \in Root!Tree /\ v \in Root!Versions
            BY <1>1 DEF Builds, AnchorsKept, Of, Root!Prep
        <2>3. /\ prep[p].version \in 0..MaxVersion
              /\ prep' = [prep EXCEPT ![p].version = v, ![p].pc = "select"]
            BY <2>1, RunSame
        <2>4. /\ prep' \in [Procs -> Root!Prep]
              /\ prep'[p].version = v /\ prep'[p].pc = "select"
              /\ prep'[p].began = prep[p].began /\ prep'[p].exit = prep[p].exit
              /\ \A q \in Procs : q # p => prep'[q] = prep[q]
            BY <2>3, RunGoes
        <2>. HIDE DEF v
        <2>5. /\ roots'[v] = prep[p].tree /\ roots' \in [Root!Versions -> Root!Tree]
              /\ \A w \in Root!Versions : w # v => roots'[w] = roots[w]
            BY <1>1, <2>1, <2>2
        <2>6. RootsKept
            BY <1>3, <2>5 DEF RootsKept
        <2>7. v # 0 /\ roots'[v].parts # {}
            BY <2>2, <2>5, RootNumbers DEF Root!Parts
        <2>8. Builds(p)'
            BY <1>1, <2>2, <2>4, <2>7 DEF Builds, Root!There
        <2>9. AnchorsKept(p)'
            BY <1>1, <2>2, <2>4, <2>5 DEF AnchorsKept
        <2>10. \A q \in Procs : Builds(q)' /\ AnchorsKept(q)'
            BY <1>1, <2>4, <2>6, <2>8, <2>9, OtherRuns
        <2>11. \A w \in Root!Versions :
                   roots'[w].parts # {} => /\ roots'[w].parts = Root!Parts
                                           /\ bent' \/ roots'[w].as = w
            BY <1>1, <2>2, <2>5 DEF RootInv, Of
        <2>12. current # 0 => current \in Root!Versions /\ Root!There(current)
            BY RootNumbers DEF RootInv, RootTypes
        <2>13. current' # 0 => Root!There(current)'
            BY <1>1, <2>6, <2>12 DEF RootsKept, Root!There
        <2>. QED BY <1>1, <2>4, <2>5, <2>10, <2>11, <2>13 DEF RootInv, RootTypes, Of
    <1>. QED BY <1>2, <1>3

LEMMA SelectKeepsRoot ==
    ASSUME RootInv, NEW p \in Procs, Root!Select(p) PROVE RootInv'
    <1>1. Builds(p) /\ AnchorsKept(p) /\ prep[p].pc = "select"
        BY DEF RootInv, Root!Select, Root!At
    <1>2. /\ Root!There(prep[p].version) /\ prep[p].version \in Root!Versions
          /\ prep[p].began \subseteq roots[prep[p].version].anchors
        BY <1>1 DEF Builds, AnchorsKept
    <1>. QED BY <1>2, DoneStep DEF Root!Select

\* Steam installs a version, installs a game, or removes one.
LEMMA SteamKeepsRoot ==
    ASSUME RootInv, Root!Ship \/ Root!AddGame \/ Root!RemoveGame PROVE RootInv'
    <1>1. CASE Root!Ship
        <2>1. shipped' \in Root!Versions
            BY <1>1, RootNumbers DEF Root!Ship, RootInv, RootTypes, Root!Versions
        <2>. QED
            BY <1>1, <2>1
            DEF Root!Ship, RootInv, RootTypes, Builds, AnchorsKept, Made, Of, Root!There,
                Root!Staged
    <1>2. CASE Root!AddGame
        <2>1. common \subseteq common' /\ common' \subseteq Games
            BY <1>2 DEF Root!AddGame, RootInv, RootTypes
        <2>2. UNCHANGED <<shipped, roots, current, prep, bent>>
            BY <1>2 DEF Root!AddGame
        <2>3. \A p \in Procs : Builds(p)'
            BY <2>2 DEF RootInv, Builds, Of, Root!There, Root!Staged
        <2>4. \A p \in Procs : AnchorsKept(p)'
            BY <2>1, <2>2 DEF RootInv, AnchorsKept, Made, Root!Staged
        <2>. QED BY <2>1, <2>2, <2>3, <2>4 DEF RootInv, RootTypes, Of, Root!There
    <1>3. CASE Root!RemoveGame
        <2>1. PICK game \in common :
                 /\ common' = common \ {game}
                 /\ prep' = [p \in Procs |-> [prep[p] EXCEPT !.began = @ \ {game}]]
            BY <1>3 DEF Root!RemoveGame
        <2>2. UNCHANGED <<shipped, roots, current, bent>> /\ prep \in [Procs -> Root!Prep]
            BY <1>3 DEF Root!RemoveGame, RootInv, RootTypes
        <2>3. ASSUME NEW p \in Procs
              PROVE  /\ prep'[p] \in Root!Prep
                     /\ prep'[p].pc = prep[p].pc /\ prep'[p].version = prep[p].version
                     /\ prep'[p].tree = prep[p].tree /\ prep'[p].only = prep[p].only
                     /\ prep'[p].left = prep[p].left /\ prep'[p].exit = prep[p].exit
                     /\ prep'[p].began = prep[p].began \ {game}
            BY <2>1, <2>2 DEF Root!Prep
        <2>4. \A p \in Procs : Builds(p)'
            BY <2>2, <2>3 DEF RootInv, Builds, Of, Root!There, Root!Staged
        <2>5. ASSUME NEW p \in Procs
              PROVE  AnchorsKept(p)'
            <3>1. AnchorsKept(p)
                BY DEF RootInv
            <3>2. Made(p)' = Made(p)
                BY <2>2, <2>3 DEF Made, Root!Staged
            <3>. QED BY <2>1, <2>2, <2>3, <3>1, <3>2 DEF AnchorsKept
        <2>6. prep' \in [Procs -> Root!Prep]
            BY <2>1, <2>3
        <2>. QED BY <2>1, <2>2, <2>4, <2>5, <2>6 DEF RootInv, RootTypes, Of, Root!There
    <1>. QED BY <1>1, <1>2, <1>3

LEMMA RootKeepsInv == RootInv /\ (Root!RootNext \/ UNCHANGED Root!rootVars) => RootInv'
    <1>. SUFFICES ASSUME RootInv, Root!RootNext \/ UNCHANGED Root!rootVars
                  PROVE  RootInv'
        OBVIOUS
    <1>1. ASSUME NEW p \in Procs, Root!Killed(p)
          PROVE  RootInv'
        BY <1>1, FailedStep DEF Root!Killed
    <1>2. CASE UNCHANGED Root!rootVars
        BY <1>2
        DEF Root!rootVars, RootInv, RootTypes, Builds, AnchorsKept, Made, Of, Root!There,
            Root!Staged
    <1>. QED
        BY <1>1, <1>2, BeginKeepsRoot, SelectedKeepsRoot, ReadKeepsRoot, ValidateKeepsRoot,
           VerifyKeepsRoot, CopyKeepsRoot, ListKeepsRoot, AnchorKeepsRoot, AnchoredKeepsRoot,
           RenameKeepsRoot, SelectKeepsRoot, SteamKeepsRoot
        DEF Root!RootNext

LEMMA RootTells == RootInv => Root!RootServes
    <1>. SUFFICES ASSUME RootInv PROVE Root!RootServes
        OBVIOUS
    <1>1. Root!CurrentIsWhole
        BY RootNumbers DEF RootInv, RootTypes, Root!CurrentIsWhole, Root!There, Of
    <1>2. Root!EndIsAnchored
        BY DEF RootInv, AnchorsKept, Root!EndIsAnchored
    <1>. QED BY <1>1, <1>2 DEF Root!RootServes
-----------------------------------------------------------------------------
(* The cache of DXVK *)

\* Files that a run has copied, or that the manifest names.
Copied(files) ==
    /\ files \subseteq CacheNames \X (1..Cache!Mixed)
    /\ \A pair \in files : live[pair[1]] # 0 /\ (pair[2] = Cache!Mixed => mixed)

CacheInv ==
    /\ upsets \in 0..MaxSeedUpsets /\ source \in [CacheNames -> 0..(upsets + 1)]
    /\ live \in [CacheNames -> Nat] /\ seeder \in [Procs -> Cache!Seeder]
    /\ Cache!CacheSeeded /\ (manifest # None => Copied(manifest))
    /\ \A p \in Procs :
           /\ seeder[p].pc = "copy" => seeder[p].found # {} \/ seeder[p].records # {}
           /\ seeder[p].pc \in {"copy", "rename"} => Copied(seeder[p].records)
           /\ seeder[p].pc = "rename" => /\ seeder[p].name \in CacheNames
                                         /\ seeder[p].read \in 1..(upsets + 1)
           /\ seeder[p].pc = "validate" => manifest # None

\* A record to which a copied file is added.
LEMMA CopyKept ==
    ASSUME NEW p \in Procs, NEW pair \in CacheNames \X Nat, seeder \in [Procs -> Cache!Seeder],
           seeder' = [seeder EXCEPT ![p].pc = "copy", ![p].records = @ \cup {pair}]
    PROVE  /\ seeder' \in [Procs -> Cache!Seeder]
           /\ seeder'[p].pc = "copy" /\ seeder'[p].exit = seeder[p].exit
           /\ seeder'[p].records = seeder[p].records \cup {pair}
           /\ \A q \in Procs : q # p => seeder'[q] = seeder[q]
    <1>1. ASSUME NEW r \in Cache!Seeder
          PROVE  [r EXCEPT !.pc = "copy", !.records = @ \cup {pair}] \in Cache!Seeder
        BY DEF Cache!Seeder
    <1>2. seeder'[p] = [seeder[p] EXCEPT !.pc = "copy", !.records = @ \cup {pair}]
        OBVIOUS
    <1>3. seeder'[p] \in Cache!Seeder
        BY <1>1, <1>2
    <1>. QED BY <1>2, <1>3 DEF Cache!Seeder

LEMMA CacheStarts == Cache!SeedInit => CacheInv
    <1>. SUFFICES ASSUME Cache!SeedInit PROVE CacheInv
        OBVIOUS
    <1>1. MaxSeedUpsets \in Nat
        BY PreparationAssumption DEF Cache!DxvkSeedAssumption
    <1>2. seeder \in [Procs -> Cache!Seeder]
        BY DEF Cache!SeedInit, Cache!Seeder, Cache!Resting
    <1>3. \A p \in Procs : seeder[p].pc = "idle" /\ seeder[p].exit = "none"
        BY DEF Cache!SeedInit, Cache!Resting
    <1>4. source \in [CacheNames -> 0..(upsets + 1)]
        BY DEF Cache!SeedInit
    <1>. QED
        BY <1>1, <1>2, <1>3, <1>4 DEF Cache!SeedInit, CacheInv, Cache!CacheSeeded

LEMMA CacheKeepsInv == CacheInv /\ (Cache!SeedNext \/ UNCHANGED Cache!seedVars) => CacheInv'
    <1>. SUFFICES ASSUME CacheInv, Cache!SeedNext \/ UNCHANGED Cache!seedVars
                  PROVE  CacheInv'
        OBVIOUS
    <1>. USE DEF CacheInv, Cache!CacheSeeded, Copied
    <1>0. /\ MaxSeedUpsets \in Nat /\ Cache!Mixed = MaxSeedUpsets + 2
          /\ \A files \in SUBSET (CacheNames \X (1..Cache!Mixed)) : files # None
        BY PreparationAssumption DEF Cache!DxvkSeedAssumption, Cache!Mixed
    <1>1. ASSUME NEW p \in Procs, NEW exit \in {"none", "seeded", "reused", "failed"},
                 Cache!End(p, exit)
          PROVE  /\ seeder' \in [Procs -> Cache!Seeder]
                 /\ seeder'[p].pc = "idle" /\ seeder'[p].exit = exit
                 /\ \A q \in Procs : q # p => seeder'[q] = seeder[q]
        BY <1>1 DEF Cache!End, Cache!Resting, Cache!Seeder
    <1>2. ASSUME NEW p \in Procs, Cache!Begin(p)
          PROVE  CacheInv'
        <2>1. CASE manifest # None \/ Cache!There(live) # {} \/ stray
            <3>1. Cache!End(p, IF manifest # None /\ Cache!Sound THEN "reused" ELSE "failed")
                BY <1>2, <2>1 DEF Cache!Begin
            <3>. QED BY <1>1, <1>2, <3>1 DEF Cache!Begin
        <2>2. CASE /\ ~(manifest # None \/ Cache!There(live) # {} \/ stray)
                   /\ Cache!There(source) = {}
            BY <1>1, <1>2, <2>2 DEF Cache!Begin
        <2>3. CASE /\ ~(manifest # None \/ Cache!There(live) # {} \/ stray)
                   /\ Cache!There(source) # {}
            <3>1. seeder' = [seeder EXCEPT ![p] =
                      [Cache!Resting EXCEPT !.pc = "copy", !.found = Cache!There(source)]]
                BY <1>2, <2>3 DEF Cache!Begin
            <3>2. Cache!There(source) \subseteq CacheNames
                BY DEF Cache!There
            <3>3. /\ seeder' \in [Procs -> Cache!Seeder]
                  /\ seeder'[p].pc = "copy" /\ seeder'[p].exit = "none"
                  /\ seeder'[p].records = {} /\ seeder'[p].found # {}
                  /\ \A q \in Procs : q # p => seeder'[q] = seeder[q]
                BY <2>3, <3>1, <3>2 DEF Cache!Resting, Cache!Seeder
            <3>. QED BY <1>2, <3>3 DEF Cache!Begin
        <2>. QED BY <2>1, <2>2, <2>3
    <1>3. ASSUME NEW p \in Procs, Cache!Refused(p)
          PROVE  CacheInv'
        BY <1>1, <1>3 DEF Cache!Refused
    <1>4. ASSUME NEW p \in Procs, Cache!Copy(p)
          PROVE  CacheInv'
        <2>1. PICK name \in seeder[p].found :
                 \/ source[name] = 0 /\ Cache!End(p, "failed")
                 \/ /\ source[name] # 0
                    /\ seeder' = [seeder EXCEPT ![p].pc = "rename", ![p].name = name,
                                        ![p].found = @ \ {name}, ![p].read = source[name]]
            BY <1>4 DEF Cache!Copy
        <2>2. CASE Cache!End(p, "failed")
            BY <1>1, <1>4, <2>2 DEF Cache!Copy
        <2>3. CASE /\ source[name] # 0
                   /\ seeder' = [seeder EXCEPT ![p].pc = "rename", ![p].name = name,
                                        ![p].found = @ \ {name}, ![p].read = source[name]]
            <3>1. name \in CacheNames /\ source[name] \in 1..(upsets + 1) /\ upsets \in Nat
                BY <1>0, <2>3 DEF Cache!Seeder
            <3>2. /\ seeder' \in [Procs -> Cache!Seeder]
                  /\ seeder'[p].pc = "rename" /\ seeder'[p].exit = seeder[p].exit
                  /\ seeder'[p].records = seeder[p].records
                  /\ seeder'[p].name = name /\ seeder'[p].read = source[name]
                  /\ \A q \in Procs : q # p => seeder'[q] = seeder[q]
                BY <2>3, <3>1 DEF Cache!Seeder
            <3>. QED BY <1>4, <3>1, <3>2 DEF Cache!Copy
        <2>. QED BY <2>1, <2>2, <2>3
    <1>5. ASSUME NEW p \in Procs, Cache!Rename(p)
          PROVE  CacheInv'
        <2>. DEFINE name == seeder[p].name
                    changed == source[name] # seeder[p].read
                    copied == IF changed THEN Cache!Mixed ELSE seeder[p].read
        <2>0. seeder[p].pc = "rename" /\ UNCHANGED <<source, stray, manifest, upsets>>
            BY <1>5 DEF Cache!Rename
        <2>1. /\ name \in CacheNames /\ copied \in 1..Cache!Mixed
              /\ copied = Cache!Mixed => changed
            BY <1>0, <2>0
        <2>2. \/ Cache!End(p, "failed") /\ UNCHANGED <<live, mixed>>
              \/ /\ live' = [live EXCEPT ![name] = copied]
                 /\ mixed' = (mixed \/ changed)
                 /\ seeder' = [seeder EXCEPT ![p].pc = "copy",
                                             ![p].records = @ \cup {<<name, copied>>}]
            BY <1>5 DEF Cache!Rename
        <2>. HIDE DEF copied, changed, name
        <2>3. CASE Cache!End(p, "failed") /\ UNCHANGED <<live, mixed>>
            BY <1>1, <2>0, <2>3
        <2>4. CASE /\ live' = [live EXCEPT ![name] = copied]
                   /\ mixed' = (mixed \/ changed)
                   /\ seeder' = [seeder EXCEPT ![p].pc = "copy",
                                               ![p].records = @ \cup {<<name, copied>>}]
            <3>1. copied \in Nat /\ copied # 0
                BY <1>0, <2>1
            <3>2. live' \in [CacheNames -> Nat]
                BY <2>4, <3>1
            <3>3. /\ seeder' \in [Procs -> Cache!Seeder]
                  /\ seeder'[p].pc = "copy" /\ seeder'[p].exit = seeder[p].exit
                  /\ seeder'[p].records = seeder[p].records \cup {<<name, copied>>}
                  /\ \A q \in Procs : q # p => seeder'[q] = seeder[q]
                <4>1. <<name, copied>> \in CacheNames \X Nat
                    BY <2>1, <3>1
                <4>. QED BY <2>4, <4>1, CopyKept
            <3>4. ASSUME NEW files, Copied(files)
                  PROVE  Copied(files)'
                BY <2>4, <2>1, <3>1, <3>4
            <3>5. PICK files, n, c : files = seeder[p].records /\ n = name /\ c = copied
                OBVIOUS
            <3>6. Copied(files)'
                BY <2>0, <3>4, <3>5
            <3>7. n \in CacheNames /\ c \in 1..Cache!Mixed
                BY <2>1, <3>5
            <3>8. live'[n] # 0 /\ (c = Cache!Mixed => mixed')
                BY <2>1, <2>4, <3>1, <3>5
            <3>9. seeder'[p].records = files \cup {<<n, c>>}
                BY <3>3, <3>5
            <3>10. Copied(seeder[p].records)'
                BY <3>6, <3>7, <3>8, <3>9
            <3>. QED BY <2>0, <3>2, <3>3, <3>4, <3>10
        <2>. QED BY <2>2, <2>3, <2>4
    <1>6. ASSUME NEW p \in Procs, Cache!WriteManifest(p)
          PROVE  CacheInv'
        <2>1. /\ seeder' \in [Procs -> Cache!Seeder]
              /\ seeder'[p].pc = "validate" /\ seeder'[p].exit = seeder[p].exit
              /\ \A q \in Procs : q # p => seeder'[q] = seeder[q]
            BY <1>6 DEF Cache!WriteManifest, Cache!Seeder
        <2>2. manifest' = seeder[p].records /\ manifest' # {} /\ Copied(seeder[p].records)
            BY <1>6 DEF Cache!WriteManifest
        <2>3. manifest' # None
            BY <1>0, <2>2
        <2>. QED BY <1>6, <2>1, <2>2, <2>3 DEF Cache!WriteManifest
    <1>7. ASSUME NEW p \in Procs, Cache!Validate(p)
          PROVE  CacheInv'
        <2>1. Cache!End(p, IF Cache!Sound THEN "seeded" ELSE "failed") /\ manifest # None
            BY <1>7 DEF Cache!Validate
        <2>. QED BY <1>1, <1>7, <2>1 DEF Cache!Validate
    <1>8. ASSUME NEW p \in Procs, Cache!Killed(p)
          PROVE  CacheInv'
        <2>1. /\ seeder' \in [Procs -> Cache!Seeder]
              /\ seeder'[p].pc = "idle" /\ seeder'[p].exit = "none"
              /\ \A q \in Procs : q # p => seeder'[q] = seeder[q]
            BY <1>8 DEF Cache!Killed, Cache!Resting, Cache!Seeder
        <2>2. /\ upsets' \in 0..MaxSeedUpsets /\ source \in [CacheNames -> 0..(upsets' + 1)]
              /\ 1..(upsets + 1) \subseteq 1..(upsets' + 1)
            BY <1>0, <1>8 DEF Cache!Killed, Cache!Upset
        <2>. QED BY <1>8, <2>1, <2>2 DEF Cache!Killed
    <1>9. CASE Cache!SourceChanges
        <2>1. /\ upsets' \in 0..MaxSeedUpsets
              /\ 1..(upsets + 1) \subseteq 1..(upsets' + 1)
              /\ 0..(upsets + 1) \subseteq 0..(upsets' + 1)
              /\ upsets + 2 \in 0..(upsets' + 1)
            BY <1>0, <1>9 DEF Cache!SourceChanges, Cache!Upset
        <2>2. source' \in [CacheNames -> 0..(upsets' + 1)]
            BY <1>9, <2>1 DEF Cache!SourceChanges
        <2>. QED BY <1>9, <2>1, <2>2 DEF Cache!SourceChanges
    <1>10. CASE Cache!LiveChanges
        <2>1. /\ upsets' \in 0..MaxSeedUpsets
              /\ 1..(upsets + 1) \subseteq 1..(upsets' + 1)
              /\ 0..(upsets + 1) \subseteq 0..(upsets' + 1)
              /\ upsets + 2 \in Nat /\ upsets + 2 # 0
            BY <1>0, <1>10 DEF Cache!LiveChanges, Cache!Upset
        <2>2. PICK name \in CacheNames : live' = [live EXCEPT ![name] = upsets + 2]
            BY <1>10 DEF Cache!LiveChanges
        <2>3. live' \in [CacheNames -> Nat] /\ source \in [CacheNames -> 0..(upsets' + 1)]
            BY <2>1, <2>2
        <2>4. UNCHANGED <<source, stray, manifest, seeder, mixed>>
            BY <1>10 DEF Cache!LiveChanges
        <2>5. ASSUME NEW files, Copied(files)
              PROVE  Copied(files)'
            BY <2>1, <2>2, <2>4, <2>5
        <2>6. manifest # None => \A pair \in manifest : live'[pair[1]] # 0
            BY <2>5
        <2>. QED BY <2>1, <2>3, <2>4, <2>5, <2>6
    <1>11. CASE UNCHANGED Cache!seedVars
        BY <1>11 DEF Cache!seedVars
    <1>. QED
        BY <1>2, <1>3, <1>4, <1>5, <1>6, <1>7, <1>8, <1>9, <1>10, <1>11 DEF Cache!SeedNext
-----------------------------------------------------------------------------
(* The shared-memory files *)

CleanTypes ==
    /\ shm \in [ShmNames -> 0..MaxInode] /\ aged \subseteq Clean!Inodes
    /\ holds \in [Clean!Descriptors -> 0..MaxInode] /\ cleaner \in Clean!Cleaner
    /\ throughout \in [Clean!Inodes -> SUBSET Clean!Descriptors] /\ lost \subseteq Clean!Inodes

\* An old file that no readable descriptor has named all the time.
Unused(i) == i \in aged /\ throughout[i] = {}

CleanInv ==
    /\ CleanTypes /\ Clean!RemovesUnused
    /\ \A i \in Clean!Inodes : \A d \in throughout[i] : holds[d] = i /\ d[1] \notin hidden
    /\ cleaner.pc = "idle" => lost = {} /\ cleaner.scanned = {}
    /\ cleaner.pc = "scan" =>
           /\ \A old \in cleaner.listed : old[2] \in aged
           /\ \A i \in Clean!Inodes \ cleaner.opened :
                 \A d \in throughout[i] : d[1] \in cleaner.scanned => d \in cleaner.pending
    /\ cleaner.pc \in {"remove", "unlink"} => \A old \in cleaner.listed : Unused(old[2])
    /\ cleaner.pc = "unlink" =>
           /\ cleaner.name \in ShmNames
           /\ swapped \/ shm[cleaner.name] = 0 \/ Unused(shm[cleaner.name])

LEMMA InodeNumbers ==
    /\ 0 \in 0..MaxInode /\ Clean!Inodes \subseteq 0..MaxInode
    /\ (0..MaxInode) \ {0} \subseteq Clean!Inodes
    BY PreparationAssumption DEF Clean!TempCleanerAssumption, Clean!Inodes

\* Each descriptor belongs to a process.
LEMMA DescriptorOwned == \A d \in Clean!Descriptors : d[1] \in Procs
    BY DEF Clean!Descriptors

LEMMA CleanStarts == Clean!CleanInit => CleanInv
    <1>. SUFFICES ASSUME Clean!CleanInit PROVE CleanInv
        OBVIOUS
    <1>1. /\ shm \in [ShmNames -> 0..MaxInode] /\ aged \subseteq Clean!Inodes
          /\ holds \in [Clean!Descriptors -> 0..MaxInode]
        BY InodeNumbers DEF Clean!CleanInit, Clean!Inodes
    <1>2. cleaner \in Clean!Cleaner /\ cleaner.pc = "idle" /\ cleaner.scanned = {}
        BY DEF Clean!CleanInit, Clean!Cleaner
    <1>3. throughout = [i \in Clean!Inodes |-> {}] /\ lost = {}
        BY DEF Clean!CleanInit
    <1>. QED
        BY <1>1, <1>2, <1>3 DEF CleanInv, CleanTypes, Clean!RemovesUnused

LEMMA CleanKeepsInv == CleanInv /\ (Clean!CleanNext \/ UNCHANGED Clean!cleanVars) => CleanInv'
    <1>. SUFFICES ASSUME CleanInv, Clean!CleanNext \/ UNCHANGED Clean!cleanVars
                  PROVE  CleanInv'
        OBVIOUS
    <1>. USE InodeNumbers
         DEF CleanInv, CleanTypes, Clean!Cleaner, Clean!RemovesUnused, Unused, Clean!world
    <1>1. CASE Clean!List
        <2>. DEFINE L == {old \in ShmNames \X Clean!Inodes :
                            shm[old[1]] = old[2] /\ old[2] \in aged}
        <2>1. /\ cleaner' = [cleaner EXCEPT !.pc = "scan", !.listed = L]
              /\ L \subseteq ShmNames \X Clean!Inodes /\ \A old \in L : old[2] \in aged
            BY <1>1 DEF Clean!List
        <2>. HIDE DEF L
        <2>2. /\ cleaner' \in Clean!Cleaner /\ cleaner'.pc = "scan" /\ cleaner'.listed = L
              /\ cleaner'.scanned = cleaner.scanned
            BY <2>1
        <2>3. cleaner.pc = "idle" /\ lost = {}
            BY <1>1 DEF Clean!List
        <2>4. throughout' = [i \in Clean!Inodes |->
                                {d \in Clean!Descriptors : holds[d] = i /\ d[1] \notin hidden}]
            BY <1>1 DEF Clean!List
        <2>5. /\ throughout' \in [Clean!Inodes -> SUBSET Clean!Descriptors]
              /\ \A i \in Clean!Inodes : \A d \in throughout'[i] :
                    holds[d] = i /\ d[1] \notin hidden
            BY <2>4
        <2>6. cleaner.scanned = {}
            BY <2>3
        <2>7. UNCHANGED <<shm, aged, holds, hidden, swapped, lost>>
            BY <1>1 DEF Clean!List
        <2>. QED BY <2>1, <2>2, <2>3, <2>5, <2>6, <2>7
    <1>2. CASE Clean!Scan
        <2>1. PICK p \in Procs \ cleaner.scanned :
                 cleaner' = IF p \in hidden
                            THEN [cleaner EXCEPT !.pc = "end", !.exit = "failed"]
                            ELSE [cleaner EXCEPT !.scanned = @ \cup {p},
                                     !.pending = {d \in Clean!Of(p) : holds[d] # 0}]
            BY <1>2 DEF Clean!Scan
        <2>2. CASE p \in hidden
            BY <1>2, <2>1, <2>2 DEF Clean!Scan
        <2>3. CASE p \notin hidden
            <3>. DEFINE Held == {d \in Clean!Of(p) : holds[d] # 0}
            <3>1. /\ cleaner' = [cleaner EXCEPT !.scanned = @ \cup {p}, !.pending = Held]
                  /\ Held \subseteq Clean!Descriptors /\ cleaner.pc = "scan"
                  /\ \A d \in Clean!Descriptors : d[1] = p /\ holds[d] # 0 => d \in Held
                BY <1>2, <2>1, <2>3 DEF Clean!Scan, Clean!Of
            <3>. HIDE DEF Held
            <3>2. /\ cleaner' \in Clean!Cleaner /\ cleaner'.pc = "scan"
                  /\ cleaner'.scanned = cleaner.scanned \cup {p} /\ cleaner'.pending = Held
                  /\ cleaner'.opened = cleaner.opened /\ cleaner'.listed = cleaner.listed
                BY <3>1
            <3>3. cleaner.pending = {} /\ UNCHANGED <<shm, aged, holds, hidden, throughout, swapped, lost>>
                BY <1>2 DEF Clean!Scan
            <3>4. \A i \in Clean!Inodes \ cleaner.opened : \A d \in throughout[i] :
                     d[1] \in cleaner'.scanned => d \in Held
                <4>. SUFFICES ASSUME NEW i \in Clean!Inodes \ cleaner.opened, NEW d \in throughout[i],
                                     d[1] \in cleaner.scanned \cup {p}
                              PROVE  d \in Held
                    BY <3>2
                <4>1. d \in Clean!Descriptors /\ holds[d] = i /\ i # 0
                    BY DEF Clean!Inodes
                <4>2. d[1] \notin cleaner.scanned
                    BY <3>1, <3>3
                <4>. QED BY <4>1, <4>2, <3>1
            <3>5. \A old \in cleaner'.listed : old[2] \in aged
                BY <3>1, <3>2
            <3>6. CleanTypes'
                BY <3>2, <3>3
            <3>7. /\ Clean!RemovesUnused'
                  /\ \A i \in Clean!Inodes : \A d \in throughout'[i] :
                         holds'[d] = i /\ d[1] \notin hidden'
                BY <3>3
            <3>8. \A i \in Clean!Inodes \ cleaner'.opened : \A d \in throughout'[i] :
                     d[1] \in cleaner'.scanned => d \in cleaner'.pending
                BY <3>2, <3>3, <3>4
            <3>. QED BY ONLY <3>2, <3>3, <3>5, <3>6, <3>7, <3>8 DEF CleanInv
        <2>. QED BY <2>2, <2>3
    <1>0. CASE Clean!AskDescriptor
        <2>1. PICK d \in cleaner.pending :
                 cleaner' = [cleaner EXCEPT !.pending = @ \ {d},
                     !.opened = @ \cup (IF d[1] \in hidden THEN {} ELSE {holds[d]} \ {0})]
            BY <1>0 DEF Clean!AskDescriptor
        <2>a. (IF d[1] \in hidden THEN {} ELSE {holds[d]} \ {0}) \in SUBSET Clean!Inodes
            <3>1. d \in Clean!Descriptors
                BY <2>1
            <3>2. holds[d] \in 0..MaxInode
                BY <3>1
            <3>. QED BY <3>2, InodeNumbers
        <2>2. PICK more \in SUBSET Clean!Inodes :
                 /\ more = IF d[1] \in hidden THEN {} ELSE {holds[d]} \ {0}
                 /\ cleaner' = [cleaner EXCEPT !.pending = @ \ {d}, !.opened = @ \cup more]
            BY ONLY <2>1, <2>a
        <2>3. /\ cleaner' \in Clean!Cleaner /\ cleaner'.pc = cleaner.pc
              /\ cleaner'.scanned = cleaner.scanned /\ cleaner'.listed = cleaner.listed
              /\ cleaner'.pending = cleaner.pending \ {d}
              /\ cleaner'.opened = cleaner.opened \cup more
            <3>1. cleaner \in Clean!Cleaner
                OBVIOUS
            <3>. QED BY ONLY <2>2, <3>1 DEF Clean!Cleaner
        <2>4. cleaner.pc = "scan" /\ UNCHANGED <<shm, aged, holds, hidden, throughout, swapped, lost>>
            BY <1>0 DEF Clean!AskDescriptor
        <2>5. \A i \in Clean!Inodes \ cleaner'.opened : d \notin throughout[i]
            <3>. SUFFICES ASSUME NEW i \in Clean!Inodes \ cleaner'.opened, d \in throughout[i]
                          PROVE  FALSE
                OBVIOUS
            <3>1. holds[d] = i /\ d[1] \notin hidden
                OBVIOUS
            <3>2. i # 0 /\ i \notin more
                BY <2>3 DEF Clean!Inodes
            <3>. QED BY ONLY <2>2, <3>1, <3>2
        <2>. QED BY <2>3, <2>4, <2>5
    <1>3. CASE Clean!Scanned
        <2>1. /\ cleaner.pc = "scan" /\ cleaner.scanned = Procs /\ cleaner.pending = {}
              /\ UNCHANGED <<shm, aged, holds, hidden, throughout, swapped, lost>>
            BY <1>3 DEF Clean!Scanned
        <2>2. PICK L \in SUBSET cleaner.listed :
                 /\ \A old \in L : old[2] \notin cleaner.opened
                 /\ cleaner' = [cleaner EXCEPT !.pc = "remove", !.listed = L]
            BY <1>3 DEF Clean!Scanned
        <2>3. cleaner' \in Clean!Cleaner /\ cleaner'.pc = "remove" /\ cleaner'.listed = L
            BY <2>2
        <2>4. \A old \in L : Unused(old[2])
            <3>. SUFFICES ASSUME NEW old \in L PROVE Unused(old[2])
                OBVIOUS
            <3>1. old[2] \in aged /\ old[2] \in Clean!Inodes \ cleaner.opened
                BY <2>1, <2>2
            <3>2. \A d \in throughout[old[2]] : d \in Clean!Descriptors
                BY <3>1
            <3>. QED BY <2>1, <3>1, <3>2, DescriptorOwned
        <2>. QED BY <2>1, <2>3, <2>4
    <1>4. CASE Clean!Look
        <2>1. PICK old \in cleaner.listed :
                 cleaner' =
                    IF shm[old[1]] = 0 THEN [cleaner EXCEPT !.listed = @ \ {old}]
                    ELSE IF shm[old[1]] # old[2]
                    THEN [cleaner EXCEPT !.pc = "end", !.exit = "failed"]
                    ELSE [cleaner EXCEPT !.pc = "unlink", !.name = old[1], !.listed = @ \ {old}]
            BY <1>4 DEF Clean!Look
        <2>2. old[1] \in ShmNames /\ Unused(old[2]) /\ cleaner.pc = "remove"
            BY <1>4 DEF Clean!Look
        <2>3. CASE shm[old[1]] = 0
            BY <1>4, <2>1, <2>3 DEF Clean!Look
        <2>4. CASE shm[old[1]] # 0 /\ shm[old[1]] # old[2]
            BY <1>4, <2>1, <2>4 DEF Clean!Look
        <2>5. CASE shm[old[1]] # 0 /\ shm[old[1]] = old[2]
            <3>1. cleaner' = [cleaner EXCEPT !.pc = "unlink", !.name = old[1], !.listed = @ \ {old}]
                BY <2>1, <2>5
            <3>2. /\ cleaner' \in Clean!Cleaner /\ cleaner'.pc = "unlink" /\ cleaner'.name = old[1]
                  /\ cleaner'.listed \subseteq cleaner.listed
                BY <3>1, <2>2
            <3>. QED BY <1>4, <2>2, <2>5, <3>2 DEF Clean!Look
        <2>. QED BY <2>3, <2>4, <2>5
    <1>5. CASE Clean!Unlink
        <2>1. /\ cleaner' \in Clean!Cleaner /\ cleaner'.pc \in {"end", "remove"}
              /\ cleaner'.listed = cleaner.listed
            BY <1>5 DEF Clean!Unlink
        <2>2. shm' \in [ShmNames -> 0..MaxInode]
            BY <1>5 DEF Clean!Unlink
        <2>3. /\ lost' \subseteq Clean!Inodes
              /\ \A i \in lost' : swapped \/ Unused(i)
            BY <1>5 DEF Clean!Unlink
        <2>. QED BY <1>5, <2>1, <2>2, <2>3 DEF Clean!Unlink
    <1>6. CASE Clean!Cleaned
        BY <1>6 DEF Clean!Cleaned
    <1>7. CASE Clean!OpenFile \/ Clean!HandOver
        <2>1. PICK d \in Clean!Descriptors, i \in 0..MaxInode :
                 holds[d] = 0 /\ i # 0 /\ holds' = [holds EXCEPT ![d] = i]
            BY <1>7 DEF Clean!OpenFile, Clean!HandOver
        <2>2. UNCHANGED <<shm, aged, hidden, cleaner, throughout, swapped, lost>>
            BY <1>7 DEF Clean!OpenFile, Clean!HandOver
        <2>3. \A j \in Clean!Inodes : \A e \in throughout[j] : e # d
            BY <2>1 DEF Clean!Inodes
        <2>. QED BY <2>1, <2>2, <2>3
    <1>9. CASE Clean!CloseFile
        <2>1. PICK d \in Clean!Descriptors :
                 /\ holds' = [holds EXCEPT ![d] = 0]
                 /\ throughout' = [i \in Clean!Inodes |-> throughout[i] \ {d}]
            BY <1>9 DEF Clean!CloseFile
        <2>2. UNCHANGED <<shm, aged, hidden, cleaner, swapped, lost>>
            BY <1>9 DEF Clean!CloseFile
        <2>3. /\ throughout' \in [Clean!Inodes -> SUBSET Clean!Descriptors]
              /\ \A i \in Clean!Inodes : throughout'[i] \subseteq throughout[i] /\ d \notin throughout'[i]
            BY <2>1
        <2>4. \A i \in Clean!Inodes : \A e \in throughout'[i] : holds'[e] = i /\ e[1] \notin hidden
            BY <2>1, <2>3
        <2>. QED BY <2>1, <2>2, <2>3, <2>4
    <1>8. CASE Clean!Hide
        <2>1. PICK p \in Procs :
                 /\ hidden' = {p}
                 /\ throughout' = [i \in Clean!Inodes |-> throughout[i] \ Clean!Of(p)]
            BY <1>8 DEF Clean!Hide
        <2>2. UNCHANGED <<shm, aged, holds, cleaner, swapped, lost>>
            BY <1>8 DEF Clean!Hide
        <2>3. /\ throughout' \in [Clean!Inodes -> SUBSET Clean!Descriptors]
              /\ \A i \in Clean!Inodes :
                    /\ throughout'[i] \subseteq throughout[i]
                    /\ \A d \in throughout'[i] : d[1] # p
            BY <2>1 DEF Clean!Of
        <2>. QED BY <2>1, <2>2, <2>3
    <1>10. CASE Clean!RemoveName
        BY <1>10 DEF Clean!RemoveName
    <1>11. CASE Clean!MakeFile
        <2>1. PICK name \in ShmNames, d \in Clean!Descriptors, i \in Clean!Inodes :
                 /\ shm' = [shm EXCEPT ![name] = i]
                 /\ holds[d] = 0 /\ holds' = [holds EXCEPT ![d] = i]
                 /\ swapped' = (swapped \/ (cleaner.pc = "unlink" /\ cleaner.name = name))
            BY ONLY <1>11 DEF Clean!MakeFile
        <2>2. /\ shm' \in [ShmNames -> 0..MaxInode]
              /\ holds' \in [Clean!Descriptors -> 0..MaxInode]
            BY <2>1
        <2>3. \A j \in Clean!Inodes : \A e \in throughout[j] :
                 holds'[e] = j /\ e[1] \notin hidden
            BY <2>1 DEF Clean!Inodes
        <2>4. cleaner.pc = "unlink" =>
                  swapped' \/ shm'[cleaner.name] = 0 \/ Unused(shm'[cleaner.name])
            BY <2>1
        <2>5. \A j \in lost : swapped' \/ (j \in aged /\ throughout[j] = {})
            BY <2>1
        <2>. QED BY <1>11, <2>2, <2>3, <2>4, <2>5 DEF Clean!MakeFile
    <1>12. CASE UNCHANGED Clean!cleanVars
        BY <1>12 DEF Clean!cleanVars
    <1>. QED
        BY <1>0, <1>1, <1>2, <1>3, <1>4, <1>5, <1>6, <1>7, <1>8, <1>9, <1>10, <1>11, <1>12
        DEF Clean!CleanNext

-----------------------------------------------------------------------------
(* All five *)

\* The receipt of the packages tells what the setup has added
\* (scripts/setup-steam-stack.py dependencies); when all downloads have ended, and none of them
\* was killed, no partial file is left, and the seed is whole, killed or not
\* (scripts/bootstrap-steam-arm64-client.py); the tree that
\* launches use is a finished root of its version that has the games' directories
\* (scripts/prepare-runtime-direct-root.py); a cache that has a manifest is whole
\* (scripts/prepare-dxvk-state-cache.py); and no shared-memory file is removed that one descriptor,
\* which could be read, named from the list on (scripts/cleanup-steam-temp.py); one whose
\* descriptors moved or could not be read is.
THEOREM IsPreparedWell == PreparationSpec => []PreparedWell
    <1>. DEFINE I == /\ part = "dependencies" => DependencyInv
                     /\ part = "download" => DownloadInv
                     /\ part = "root" => RootInv
                     /\ part = "cache" => CacheInv
                     /\ part = "clean" => CleanInv
    <1>1. PreparationInit => I
        BY DependenciesStart, DownloadStarts, RootStarts, CacheStarts, CleanStarts
        DEF PreparationInit
    <1>2. I /\ [PreparationNext]_preparationVars => I'
        <2>1. SUFFICES ASSUME I, [PreparationNext]_preparationVars
                       PROVE  I'
            OBVIOUS
        <2>2. part' = part
            BY <2>1 DEF PreparationNext, preparationVars
        <2>3. part = "dependencies" => DependencyInv'
            BY <2>1, DependenciesKeepInv
            DEF PreparationNext, preparationVars, dependencies, Dependencies!dependencyVars
        <2>4. part = "download" => DownloadInv'
            BY <2>1, DownloadKeepsInv
            DEF PreparationNext, preparationVars, download, Download!downloadVars
        <2>5. part = "root" => RootInv'
            BY <2>1, RootKeepsInv DEF PreparationNext, preparationVars, root, Root!rootVars
        <2>6. part = "cache" => CacheInv'
            BY <2>1, CacheKeepsInv DEF PreparationNext, preparationVars, cache, Cache!seedVars
        <2>7. part = "clean" => CleanInv'
            BY <2>1, CleanKeepsInv DEF PreparationNext, preparationVars, clean, Clean!cleanVars
        <2>. QED BY <2>2, <2>3, <2>4, <2>5, <2>6, <2>7
    <1>3. I => PreparedWell
        BY DownloadIsTold, RootTells DEF PreparedWell, DependencyInv, CacheInv, CleanInv
    <1>. QED BY <1>1, <1>2, <1>3, PTL DEF PreparationSpec

-----------------------------------------------------------------------------
(* The foreground launcher *)

USE BoundAssumption, ModesAssumption
    DEF At, Goto, Value, Try, Finally, Steps, Controller, Child, outside

\* The steps after the property has been put back.
Restored == {"check", "expand", "settled", "still", "poll", "top", "result"}

\* The steps before the child is asked for.
Early == {"enable", "write", "mark", "settle", "launch"}

\* What a controller knows of the property and of its child at each step.
GuardInv(c) ==
  LET r == ctl[c] IN
  /\ r.pc = "enable" => ~r.changed
  /\ r.pc \in {"write", "mark"} \/ r.changed => r.original = "off"
  /\ r.pc \in {"display", "stop", "ended"} /\ r.changed => c \in cut
  /\ r.pc \in Restored => ~r.changed /\ r.known
  /\ r.pc \in {"restore", "reload"} => r.known
  /\ r.pc \in {"promote", "task"} /\ mode # "full" => ~r.changed /\ r.known
  /\ r.pc \in {"expand", "settled", "still"} => mode = "full"
  /\ r.pc \in {"poll", "top"} => mode # "full"
  /\ r.pc = "still" => r.ready
  /\ r.code = "ok" => r.known /\ ~r.changed /\ r.pc \in Finally \cup {"ended"}

\* What there is of a child and its probe, given the step of its controller.
KidInv(c) ==
  LET r == ctl[c] k == kid[c] IN
  /\ r.pc \in Early \/ (r.pc \in {"promote", "task"} /\ mode = "full") => k.at = "none"
  /\ k.at \in {"none", "asked"} => ~k.gate
  /\ k.result # "none" => k.at = "gone"
  /\ k.result = "ok" \/ r.code = "ok" => k.probe = "ok" /\ k.at = "gone"
  /\ k.gate => r.ready /\ r.known /\ ~r.changed /\ r.pc \in {"result", "ended"} \cup Finally
  /\ mode = "full" /\ k.at \in {"go", "bare", "held", "stopping"} => k.gate
  /\ r.pc = "ended" /\ k.gate /\ c \notin cut => k.at \notin {"gate", "go"}

\* Has to put the property back; has to ask for a reload.
Responsible(c) ==
  c \in cut \/ At(c, "mark") \/ (ctl[c].changed /\ ctl[c].pc \notin {"reload", "unload"})
Owes(c) == c \in cut \/ At(c, "mark") \/ ctl[c].changed

PropInv ==
  /\ found => prop /\ loaded /\ \A c \in Controllers : ctl[c].original # "off"
  /\ ~found /\ prop => \E c \in Controllers : Responsible(c)
  /\ ~found /\ loaded /\ ~asked => \E c \in Controllers : Owes(c)

LaunchInv == TypeOK /\ PropInv /\ \A c \in Controllers : GuardInv(c) /\ KidInv(c)

-----------------------------------------------------------------------------
(* The kinds of steps                                                      *)

\* A step of one controller or of its child is seen by no other.
Local(c) ==
  /\ UNCHANGED <<mode, found>>
  /\ cut \subseteq cut' /\ cut' \subseteq cut \cup {c}
  /\ \A d \in Controllers : d # c => ctl'[d] = ctl[d] /\ kid'[d] = kid[d]

\* Steps of the child and its probe.
KidStep(c) == ChildStep(c) \/ ProbeEnds(c) \/ ChildKilled(c)

\* Steps that end a controller, or send it to its finally.
CutStep(c) == Interrupt(c) \/ Kill(c) \/ Fail(c)

\* The other steps of a controller: those that end with a command or a check of its own, those
\* that concern the property, and those of its finally.
PlainStep(c) ==
  \/ ServiceProbe(c) \/ PromoteStart(c) \/ PromoteTask(c) \/ LaunchChild(c) \/ ValidateChild(c)
  \/ RestoreCheck(c) \/ ExpandStart(c) \/ ExpandSettled(c) \/ OpenGate(c) \/ Handoff(c)
  \/ BackOnTop(c) \/ ReadResult(c)
PropStep(c) ==
  EnableRead(c) \/ EnableWrite(c) \/ EnableMark(c) \/ RestoreWrite(c) \/ RestoreReload(c)
FinalStep(c) ==
  UndoProperty(c) \/ UndoReload(c) \/ UndoDisplay(c) \/ UndoFails(c) \/ StopChild(c)

OneStep(c) == KidStep(c) \/ CutStep(c) \/ PlainStep(c) \/ PropStep(c) \/ FinalStep(c)

LEMMA StepKinds == Next => AppReloads \/ \E c \in Controllers : OneStep(c)
BY DEF Next, OneStep, KidStep, CutStep, PlainStep, PropStep, FinalStep, ControllerStep

LEMMA LocalStep ==
  ASSUME TypeOK, NEW c \in Controllers, OneStep(c)
  PROVE  Local(c)
<1>0. ctl \in [Controllers -> Controller] /\ kid \in [Controllers -> Child]
  BY DEF TypeOK
<1>1. CASE KidStep(c)
  BY <1>0, <1>1 DEF KidStep, ChildStep, ProbeEnds, ChildKilled, ChildStarts, PassGate, ChildFails,
     StartProbe, InstallHandlers, StopProbe, Report, Kid, Beside, Fault, Local
<1>2. CASE CutStep(c)
  BY <1>0, <1>2 DEF CutStep, Interrupt, Kill, Fail, Unwind, Fault, Local
<1>3. CASE PlainStep(c)
  BY <1>0, <1>3 DEF PlainStep, ServiceProbe, PromoteStart, PromoteTask, LaunchChild,
     ValidateChild, RestoreCheck, ExpandStart, ExpandSettled, OpenGate, Handoff, BackOnTop,
     ReadResult, Local
<1>4. CASE PropStep(c)
  BY <1>0, <1>4 DEF PropStep, EnableRead, EnableWrite, EnableMark, RestoreWrite, RestoreReload,
     Local
<1>5. CASE FinalStep(c)
  BY <1>0, <1>5 DEF FinalStep, UndoProperty, UndoReload, UndoDisplay, UndoFails, StopChild, Local
<1>6. QED
  BY <1>1, <1>2, <1>3, <1>4, <1>5 DEF OneStep

-----------------------------------------------------------------------------
(* Types                                                                   *)

\* A controller that only goes on to another step.
LEMMA GotoType ==
  ASSUME ctl \in [Controllers -> Controller], NEW c \in Controllers, NEW s \in Steps,
         ctl' = [ctl EXCEPT ![c].pc = s]
  PROVE  /\ ctl' \in [Controllers -> Controller]
         /\ \A d \in Controllers : ctl'[d].ready = ctl[d].ready
<1>1. [ctl[c] EXCEPT !.pc = s] \in Controller
  OBVIOUS
<1>2. QED
  BY <1>1

\* A step of a controller that leaves the children alone.
LEMMA ControllerType ==
  ASSUME TypeOK, NEW c \in Controllers, Local(c), kid' = kid,
         ctl' \in [Controllers -> Controller], ctl[c].ready => ctl'[c].ready,
         UNCHANGED <<loaded, faults>>, prop' \in BOOLEAN, asked' \in BOOLEAN,
         window' \in {"normal", "small", "whole"}
  PROVE  TypeOK'
BY DEF TypeOK, Local

\* A step of a child that leaves its gate as it is.
LEMMA ChildType ==
  ASSUME TypeOK, NEW c \in Controllers, NEW k \in Child, kid' = [kid EXCEPT ![c] = k],
         k.gate = kid[c].gate, UNCHANGED <<mode, found, loaded, prop, asked, window, ctl, cut>>,
         faults' \in 0..MaxFaults
  PROVE  TypeOK'
BY DEF TypeOK

LEMMA TypeStep == LaunchInv /\ [Next]_vars => TypeOK'
<1> SUFFICES ASSUME LaunchInv, Next PROVE TypeOK'
  BY DEF LaunchInv, TypeOK, vars
<1>0. /\ TypeOK /\ \A c \in Controllers : GuardInv(c) /\ KidInv(c)
      /\ ctl \in [Controllers -> Controller] /\ kid \in [Controllers -> Child]
      /\ prop \in BOOLEAN /\ asked \in BOOLEAN /\ window \in {"normal", "small", "whole"}
      /\ faults \in 0..MaxFaults
  BY DEF LaunchInv, TypeOK
<1>1. CASE AppReloads
  BY <1>0, <1>1 DEF TypeOK, AppReloads
<1>2. ASSUME NEW c \in Controllers, KidStep(c) PROVE TypeOK'
  <2> DEFINE k == kid[c]
             With(x) == x \in Child /\ x.gate = k.gate
  <2>0. k \in Child
    BY <1>0
  <2>1. CASE ChildStarts(c) \/ PassGate(c) \/ ChildFails(c)
    <3>1. \A at \in {"gate", "go", "gone"} : With([k EXCEPT !.at = at])
      BY <2>0
    <3>2. QED
      BY <1>0, <2>1, <3>1, ChildType DEF ChildStarts, PassGate, ChildFails, Kid, Beside
  <2>2. CASE StartProbe(c)
    <3>1. With([k EXCEPT !.at = "bare", !.probe = "runs"])
      BY <2>0
    <3>2. QED
      BY <1>0, <2>2, <3>1, ChildType DEF StartProbe, Kid, Beside
  <2>3. CASE InstallHandlers(c) \/ StopProbe(c)
    <3>1. With([k EXCEPT !.at = "held"]) /\ With([k EXCEPT !.probe = "bad"])
      BY <2>0
    <3>2. QED
      BY <1>0, <2>3, <3>1, ChildType DEF InstallHandlers, StopProbe, Kid, Beside
  <2>4. CASE Report(c)
    <3>1. With([k EXCEPT !.at = "gone", !.result = IF k.at = "held" THEN k.probe ELSE "bad"])
      BY <2>0, <2>4 DEF Report
    <3>2. QED
      BY <1>0, <2>4, <3>1, ChildType DEF Report, Kid, Beside
  <2>5. CASE ProbeEnds(c)
    <3>1. \A how \in {"ok", "bad"} : With([k EXCEPT !.probe = how])
      BY <2>0
    <3>2. QED
      BY <1>0, <2>5, <3>1, ChildType DEF ProbeEnds, Kid, Beside
  <2>6. CASE ChildKilled(c)
    <3>1. With([k EXCEPT !.at = "gone"])
      BY <2>0
    <3>2. faults' \in 0..MaxFaults
      BY <1>0, <2>6 DEF ChildKilled, Fault
    <3>3. QED
      BY <1>0, <2>6, <3>1, <3>2, ChildType DEF ChildKilled, Kid, Fault
  <2>7. QED
    BY <1>2, <2>1, <2>2, <2>3, <2>4, <2>5, <2>6 DEF KidStep, ChildStep
<1>3. ASSUME NEW c \in Controllers, CutStep(c) PROVE TypeOK'
  BY <1>0, <1>3 DEF TypeOK, CutStep, Interrupt, Kill, Fail, Unwind, Fault
<1>4. ASSUME NEW c \in Controllers, PlainStep(c) PROVE TypeOK'
  <2>0. Local(c)
    BY <1>0, <1>4, LocalStep DEF OneStep
  <2>1. CASE PlainStep(c) /\ ~LaunchChild(c) /\ ~OpenGate(c)
    <3>1. /\ kid' = kid /\ UNCHANGED <<loaded, faults, prop, asked>>
          /\ window' \in {window, "small", "whole"}
      BY <2>1 DEF PlainStep, ServiceProbe, PromoteStart, PromoteTask, ValidateChild, RestoreCheck,
         ExpandStart, ExpandSettled, Handoff, BackOnTop, ReadResult
    <3>2. ctl' \in [Controllers -> Controller] /\ (ctl[c].ready => ctl'[c].ready)
      <4>1. CASE ServiceProbe(c) \/ PromoteStart(c) \/ PromoteTask(c)
        BY <1>0, <4>1 DEF ServiceProbe, PromoteStart, PromoteTask
      <4>2. CASE ValidateChild(c)
        <5>1. ctl[c] \in Controller
          BY <1>0
        <5>2. [ctl[c] EXCEPT !.known = TRUE, !.pc = "restore"] \in Controller
          BY <5>1
        <5>3. QED
          BY <1>0, <4>2, <5>2 DEF ValidateChild
      <4>3. CASE RestoreCheck(c)
        BY <1>0, <4>3, AfterRestore \in Steps, GotoType DEF RestoreCheck, AfterRestore
      <4>4. CASE ExpandStart(c) \/ Handoff(c) \/ BackOnTop(c)
        <5>1. PICK s \in Steps : ctl' = [ctl EXCEPT ![c].pc = s]
          BY <4>4 DEF ExpandStart, Handoff, BackOnTop
        <5>2. QED
          BY <1>0, <5>1, GotoType
      <4>5. CASE ExpandSettled(c)
        <5>1. ctl[c] \in Controller
          BY <1>0
        <5>2. [ctl[c] EXCEPT !.ready = TRUE, !.pc = "still"] \in Controller
          BY <5>1
        <5>3. QED
          BY <1>0, <4>5, <5>2 DEF ExpandSettled
      <4>6. CASE ReadResult(c)
        <5>1. ctl[c] \in Controller /\ kid[c].result \in {"none", "ok", "bad"}
          BY <1>0
        <5>2. [ctl[c] EXCEPT !.code = kid[c].result, !.pc = "undo"] \in Controller
          BY <5>1
        <5>3. QED
          BY <1>0, <4>6, <5>2 DEF ReadResult
      <4>7. QED
        BY <2>1, <4>1, <4>2, <4>3, <4>4, <4>5, <4>6 DEF PlainStep
    <3>3. QED
      BY <1>0, <2>0, <3>1, <3>2, ControllerType
  <2>2. CASE LaunchChild(c)
    <3>1. /\ ctl' \in [Controllers -> Controller]
          /\ \A d \in Controllers : ctl'[d].ready = ctl[d].ready
      BY <1>0, <2>2, "state" \in Steps, GotoType DEF LaunchChild
    <3>2. [kid[c] EXCEPT !.at = "asked"] \in Child
      BY <1>0
    <3>3. /\ kid' \in [Controllers -> Child]
          /\ \A d \in Controllers : kid'[d].gate = kid[d].gate
      BY <1>0, <2>2, <3>2 DEF LaunchChild
    <3>4. UNCHANGED <<outside, prop, asked, window, cut>>
      BY <2>2 DEF LaunchChild
    <3>5. QED
      BY <1>0, <3>1, <3>3, <3>4 DEF TypeOK
  <2>3. CASE OpenGate(c)
    <3>1. ctl' \in [Controllers -> Controller] /\ \A d \in Controllers : ctl'[d].ready = ctl[d].ready
      BY <1>0, <2>3, "result" \in Steps, GotoType DEF OpenGate
    <3>2. kid' \in [Controllers -> Child] /\ \A d \in Controllers : d # c => kid'[d] = kid[d]
      <4>1. [kid[c] EXCEPT !.gate = TRUE] \in Child
        BY <1>0
      <4>2. QED
        BY <1>0, <2>3, <4>1 DEF OpenGate
    <3>3. mode = "full" /\ ctl[c].ready /\ UNCHANGED <<outside, prop, asked, window, cut>>
      BY <1>0, <2>3 DEF OpenGate, GuardInv
    <3>4. QED
      BY <1>0, <3>1, <3>2, <3>3 DEF TypeOK
  <2>4. QED
    BY <1>4, <2>1, <2>2, <2>3
<1>5. ASSUME NEW c \in Controllers, PropStep(c) \/ UndoProperty(c) \/ UndoReload(c)
                                      \/ UndoDisplay(c) \/ UndoFails(c) PROVE TypeOK'
  <2>0. Local(c)
    BY <1>0, <1>5, LocalStep DEF OneStep, FinalStep
  <2>1. /\ kid' = kid /\ UNCHANGED <<loaded, faults>> /\ prop' \in BOOLEAN /\ asked' \in BOOLEAN
        /\ window' \in {"normal", "small", "whole"}
    BY <1>0, <1>5 DEF PropStep, EnableRead, EnableWrite, EnableMark, RestoreWrite, RestoreReload,
       PutBack, UndoProperty, UndoReload, UndoDisplay, UndoFails
  <2>2. ctl' \in [Controllers -> Controller] /\ (ctl[c].ready => ctl'[c].ready)
    <3>1. CASE EnableRead(c) \/ EnableWrite(c) \/ EnableMark(c)
      BY <1>0, <3>1 DEF EnableRead, EnableWrite, EnableMark
    <3>2. CASE RestoreWrite(c) \/ UndoProperty(c)
      <4>1. PICK s \in Steps : ctl' = [ctl EXCEPT ![c].pc = s]
        BY <3>2 DEF RestoreWrite, UndoProperty
      <4>2. QED
        BY <1>0, <4>1, GotoType
    <3>5. CASE RestoreReload(c) \/ UndoReload(c)
      <4>0. ctl[c] \in Controller
        BY <1>0
      <4>1. \A s \in {"check", "display"} :
              [ctl[c] EXCEPT !.changed = FALSE, !.pc = s] \in Controller
        BY <4>0
      <4>2. PICK s \in {"check", "display"} :
              ctl' = [ctl EXCEPT ![c] = [ctl[c] EXCEPT !.changed = FALSE, !.pc = s]]
        BY <1>0, <3>5 DEF RestoreReload, UndoReload
      <4>3. QED
        BY <1>0, <4>1, <4>2
    <3>3. CASE UndoDisplay(c) \/ UndoFails(c)
      BY <1>0, <3>3 DEF UndoDisplay, UndoFails
    <3>4. QED
      BY <1>5, <3>1, <3>2, <3>3, <3>5 DEF PropStep
  <2>3. QED
    BY <1>0, <2>0, <2>1, <2>2, ControllerType
<1>6. ASSUME NEW c \in Controllers, StopChild(c) PROVE TypeOK'
  <2>1. ctl' \in [Controllers -> Controller] /\ \A d \in Controllers : ctl'[d].ready = ctl[d].ready
    BY <1>0, <1>6, "ended" \in Steps, GotoType DEF StopChild
  <2>2. /\ kid' \in [Controllers -> Child]
        /\ \A d \in Controllers : kid'[d].gate = kid[d].gate
    <3>1. [kid[c] EXCEPT !.at = Terminated(kid[c].at)] \in Child
      BY <1>0 DEF Terminated
    <3>2. kid' = kid \/ kid' = [kid EXCEPT ![c] = [kid[c] EXCEPT !.at = Terminated(kid[c].at)]]
      BY <1>0, <1>6 DEF StopChild
    <3>3. [kid[c] EXCEPT !.at = Terminated(kid[c].at)].gate = kid[c].gate
      BY <1>0
    <3>4. CASE kid' = kid
      BY <1>0, <3>4
    <3>5. CASE kid' = [kid EXCEPT ![c] = [kid[c] EXCEPT !.at = Terminated(kid[c].at)]]
      <4> DEFINE k == [kid[c] EXCEPT !.at = Terminated(kid[c].at)]
      <4>1. k \in Child /\ k.gate = kid[c].gate /\ kid' = [kid EXCEPT ![c] = k]
        BY <3>1, <3>3, <3>5
      <4> HIDE DEF k
      <4>2. QED
        BY <1>0, <4>1
    <3>6. QED
      BY <3>2, <3>4, <3>5
  <2>3. UNCHANGED <<outside, prop, asked, window, cut>>
    BY <1>6 DEF StopChild
  <2>4. QED
    BY <1>0, <2>1, <2>2, <2>3 DEF TypeOK
<1>7. QED
  BY <1>1, <1>2, <1>3, <1>4, <1>5, <1>6, StepKinds DEF OneStep, FinalStep

-----------------------------------------------------------------------------
(* The controllers                                                         *)

\* What a controller knows stays so in its own steps ...
LEMMA GuardStep ==
  ASSUME TypeOK, NEW c \in Controllers, GuardInv(c), OneStep(c)
  PROVE  GuardInv(c)'
<1>0. ctl \in [Controllers -> Controller] /\ mode \in Modes
  BY DEF TypeOK
<1> USE DEF GuardInv, Restored
<1>1. CASE KidStep(c)
  BY <1>0, <1>1 DEF KidStep, ChildStep, ProbeEnds, ChildKilled, ChildStarts, PassGate, ChildFails,
     StartProbe, InstallHandlers, StopProbe, Report, Beside, Fault
<1>2. CASE CutStep(c)
  BY <1>0, <1>2 DEF CutStep, Interrupt, Kill, Fail, Unwind, Fault
<1>3. CASE PlainStep(c)
  <2>1. CASE ServiceProbe(c) \/ PromoteStart(c) \/ PromoteTask(c)
    BY <1>0, <2>1 DEF ServiceProbe, PromoteStart, PromoteTask
  <2>2. CASE LaunchChild(c) \/ ValidateChild(c) \/ RestoreCheck(c)
    BY <1>0, <2>2 DEF LaunchChild, ValidateChild, RestoreCheck, AfterRestore
  <2>3. CASE ExpandStart(c) \/ ExpandSettled(c) \/ OpenGate(c)
    BY <1>0, <2>3 DEF ExpandStart, ExpandSettled, OpenGate
  <2>4. CASE Handoff(c) \/ BackOnTop(c) \/ ReadResult(c)
    BY <1>0, <2>4 DEF Handoff, BackOnTop, ReadResult
  <2>5. QED
    BY <1>3, <2>1, <2>2, <2>3, <2>4 DEF PlainStep
<1>4. CASE PropStep(c)
  BY <1>0, <1>4 DEF PropStep, EnableRead, EnableWrite, EnableMark, RestoreWrite, RestoreReload
<1>5. CASE FinalStep(c)
  BY <1>0, <1>5 DEF FinalStep, UndoProperty, UndoReload, UndoDisplay, UndoFails, StopChild
<1>6. QED
  BY <1>1, <1>2, <1>3, <1>4, <1>5 DEF OneStep

\* ... and so does what there is of its child.
LEMMA KidInvStep ==
  ASSUME TypeOK, NEW c \in Controllers, GuardInv(c), KidInv(c), OneStep(c)
  PROVE  KidInv(c)'
<1>0. /\ ctl \in [Controllers -> Controller] /\ kid \in [Controllers -> Child]
      /\ mode \in Modes /\ (kid[c].gate => mode = "full")
  BY DEF TypeOK
<1> USE DEF KidInv, Early
<1>1. CASE KidStep(c)
  <2>0. UNCHANGED <<mode, ctl, cut>>
    BY <1>1 DEF KidStep, ChildStep, ProbeEnds, ChildKilled, ChildStarts, PassGate, ChildFails,
       StartProbe, InstallHandlers, StopProbe, Report, Beside, Fault
  <2>1. CASE ChildStarts(c) \/ PassGate(c) \/ ChildFails(c) \/ ChildKilled(c)
    BY <1>0, <2>0, <2>1 DEF ChildStarts, PassGate, ChildFails, ChildKilled, Stated, Kid
  <2>2. CASE StartProbe(c)
    <3>1. kid'[c] = [kid[c] EXCEPT !.at = "bare", !.probe = "runs"] /\ kid[c].at = "go"
      BY <1>0, <2>2 DEF StartProbe, Kid
    <3>2. kid[c] \in Child
      BY <1>0
    <3>3. QED
      BY <2>0, <3>1, <3>2
  <2>6. CASE InstallHandlers(c)
    <3>1. kid'[c] = [kid[c] EXCEPT !.at = "held"] /\ kid[c].at = "bare"
      BY <1>0, <2>6 DEF InstallHandlers, Kid
    <3>2. kid[c] \in Child
      BY <1>0
    <3>3. QED
      BY <2>0, <3>1, <3>2
  <2>5. CASE StopProbe(c) \/ ProbeEnds(c)
    <3>1. PICK how \in {"ok", "bad"} : kid'[c] = [kid[c] EXCEPT !.probe = how]
      BY <1>0, <2>5 DEF StopProbe, ProbeEnds, Kid
    <3>2. kid[c].probe = "runs" /\ kid[c] \in Child
      BY <1>0, <2>5 DEF StopProbe, ProbeEnds
    <3>3. QED
      BY <2>0, <3>1, <3>2
  <2>3. CASE Report(c)
    BY <1>0, <2>0, <2>3 DEF Report, Kid
  <2>4. QED
    BY <1>1, <2>1, <2>2, <2>3, <2>5, <2>6 DEF KidStep, ChildStep
<1>2. CASE CutStep(c)
  BY <1>0, <1>2 DEF CutStep, Interrupt, Kill, Fail, Unwind, Fault
<1>3. CASE PlainStep(c)
  <2>1. CASE ServiceProbe(c) \/ PromoteStart(c) \/ PromoteTask(c)
    BY <1>0, <2>1 DEF ServiceProbe, PromoteStart, PromoteTask
  <2>2. CASE LaunchChild(c)
    BY <1>0, <2>2 DEF LaunchChild
  <2>3. CASE ValidateChild(c) \/ RestoreCheck(c) \/ ExpandStart(c) \/ ExpandSettled(c)
    BY <1>0, <2>3 DEF ValidateChild, RestoreCheck, AfterRestore, ExpandStart, ExpandSettled
  <2>4. CASE OpenGate(c)
    BY <1>0, <2>4 DEF OpenGate, Stated, GuardInv, Restored
  <2>5. CASE Handoff(c) \/ BackOnTop(c)
    BY <1>0, <2>5 DEF Handoff, BackOnTop, GuardInv, Restored
  <2>6. CASE ReadResult(c)
    BY <1>0, <2>6 DEF ReadResult
  <2>7. QED
    BY <1>3, <2>1, <2>2, <2>3, <2>4, <2>5, <2>6 DEF PlainStep
<1>4. CASE PropStep(c)
  BY <1>0, <1>4 DEF PropStep, EnableRead, EnableWrite, EnableMark, RestoreWrite, RestoreReload
<1>5. CASE FinalStep(c)
  <2>1. CASE UndoProperty(c) \/ UndoReload(c) \/ UndoDisplay(c) \/ UndoFails(c)
    BY <1>0, <2>1 DEF UndoProperty, UndoReload, UndoDisplay, UndoFails
  <2>2. CASE StopChild(c)
    BY <1>0, <2>2 DEF StopChild, Terminated
  <2>3. QED
    BY <1>5, <2>1, <2>2 DEF FinalStep
<1>6. QED
  BY <1>1, <1>2, <1>3, <1>4, <1>5 DEF OneStep

LEMMA ControllersStep ==
  LaunchInv /\ [Next]_vars => \A c \in Controllers : GuardInv(c)' /\ KidInv(c)'
<1> SUFFICES ASSUME LaunchInv, [Next]_vars, NEW d \in Controllers
             PROVE  GuardInv(d)' /\ KidInv(d)'
  OBVIOUS
<1>0. TypeOK /\ \A c \in Controllers : GuardInv(c) /\ KidInv(c)
  BY DEF LaunchInv
<1>1. CASE AppReloads \/ UNCHANGED vars
  BY <1>0, <1>1 DEF AppReloads, vars, GuardInv, KidInv
<1>2. ASSUME NEW c \in Controllers, OneStep(c) PROVE GuardInv(d)' /\ KidInv(d)'
  <2>1. CASE c = d
    BY <1>0, <1>2, <2>1, GuardStep, KidInvStep
  <2>2. CASE c # d
    <3>1. UNCHANGED mode /\ ctl'[d] = ctl[d] /\ kid'[d] = kid[d] /\ (d \in cut' <=> d \in cut)
      BY <1>0, <1>2, <2>2, LocalStep DEF Local
    <3>2. QED
      BY <1>0, <3>1 DEF GuardInv, KidInv
  <2>3. QED
    BY <2>1, <2>2
<1>3. QED
  BY <1>1, <1>2, StepKinds

-----------------------------------------------------------------------------
(* The property                                                            *)

\* A step that writes neither the file nor the setting, by a controller that owes no less after
\* it than before, keeps PropInv.
LEMMA PropFrame ==
  ASSUME PropInv, TypeOK, NEW c \in Controllers, Local(c),
         prop' = prop, loaded' = loaded, ctl'[c].original = ctl[c].original,
         Responsible(c) => Responsible(c)',
         asked' \/ (Owes(c) => Owes(c)'), asked => asked'
  PROVE  PropInv'
<1>1. \A d \in Controllers : d # c => /\ Responsible(d) => Responsible(d)'
                                      /\ Owes(d) => Owes(d)'
                                      /\ ctl'[d].original = ctl[d].original
  BY DEF Local, Responsible, Owes
<1>2. QED
  BY <1>1 DEF PropInv, Local, TypeOK

LEMMA PropInvStep == LaunchInv /\ [Next]_vars => PropInv'
<1> SUFFICES ASSUME LaunchInv, [Next]_vars PROVE PropInv'
  OBVIOUS
<1>0. /\ TypeOK /\ PropInv /\ \A c \in Controllers : GuardInv(c)
      /\ ctl \in [Controllers -> Controller]
  BY DEF LaunchInv, TypeOK
<1>1. CASE AppReloads
  BY <1>0, <1>1 DEF AppReloads, PropInv, Responsible, Owes, TypeOK
<1>2. CASE UNCHANGED vars
  BY <1>0, <1>2 DEF vars, PropInv, Responsible, Owes
<1>3. ASSUME NEW c \in Controllers, OneStep(c) PROVE PropInv'
  <2>0. Local(c) /\ GuardInv(c)
    BY <1>0, <1>3, LocalStep
  <2> USE DEF Responsible, Owes
  <2>1. CASE KidStep(c)
    <3>1. UNCHANGED <<prop, loaded, asked, ctl, cut>>
      BY <2>1 DEF KidStep, ChildStep, ProbeEnds, ChildKilled, ChildStarts, PassGate, ChildFails,
         StartProbe, InstallHandlers, StopProbe, Report, Beside, Fault
    <3>2. QED
      BY <1>0, <2>0, <3>1, PropFrame
  <2>2. CASE CutStep(c)
    <3>1. UNCHANGED <<prop, loaded, asked>> /\ ctl'[c].original = ctl[c].original
      BY <1>0, <2>2 DEF CutStep, Interrupt, Kill, Fail, Unwind, Fault
    <3>2. Owes(c) => Owes(c)'
      BY <1>0, <2>2 DEF CutStep, Interrupt, Kill, Fail, Unwind, Fault
    <3>3. Responsible(c) => Responsible(c)'
      BY <1>0, <2>2 DEF CutStep, Interrupt, Kill, Fail, Unwind, Fault
    <3>4. QED
      BY <1>0, <2>0, <3>1, <3>2, <3>3, PropFrame
  <2>3. CASE PlainStep(c)
    <3>1. /\ UNCHANGED <<prop, loaded, asked, cut>> /\ ctl'[c].original = ctl[c].original
          /\ ctl'[c].changed = ctl[c].changed
          /\ ctl[c].pc # "mark" /\ ctl'[c].pc \notin {"reload", "unload"}
      BY <1>0, <2>3 DEF PlainStep, ServiceProbe, PromoteStart, PromoteTask, LaunchChild,
         ValidateChild, RestoreCheck, AfterRestore, ExpandStart, ExpandSettled, OpenGate, Handoff,
         BackOnTop, ReadResult
    <3>2. QED
      BY <1>0, <2>0, <3>1, PropFrame
  <2>4. CASE EnableRead(c)
    <3>1. found => prop /\ ctl'[c].original = "on"
      BY <1>0, <2>4 DEF EnableRead, PropInv
    <3>2. UNCHANGED <<prop, loaded, asked, cut>> /\ ctl'[c].changed = ctl[c].changed
      BY <1>0, <2>4 DEF EnableRead
    <3>3. Responsible(c) => Responsible(c)'
      BY <1>0, <2>4 DEF EnableRead
    <3>4. Owes(c) => Owes(c)'
      BY <1>0, <2>4 DEF EnableRead
    <3>5. \A d \in Controllers : d # c => /\ Responsible(d) => Responsible(d)'
                                          /\ Owes(d) => Owes(d)'
                                          /\ ctl'[d].original = ctl[d].original
      BY <2>0 DEF Local
    <3>6. QED
      BY <1>0, <2>0, <3>1, <3>2, <3>3, <3>4, <3>5 DEF PropInv, Local
  <2>5. CASE EnableWrite(c)
    <3>1. ~found
      BY <1>0, <2>0, <2>5 DEF EnableWrite, GuardInv, PropInv
    <3>2. UNCHANGED found /\ At(c, "mark")'
      BY <1>0, <2>5 DEF EnableWrite
    <3>3. QED
      BY <3>1, <3>2 DEF PropInv
  <2>6. CASE EnableMark(c)
    <3>1. /\ UNCHANGED <<prop, loaded, cut>> /\ asked' /\ ctl'[c].changed /\ ctl'[c].pc = "settle"
          /\ ctl'[c].original = ctl[c].original
      BY <1>0, <2>6 DEF EnableMark
    <3>2. QED
      BY <1>0, <2>0, <3>1, PropFrame
  <2>7. CASE RestoreReload(c) \/ UndoReload(c)
    <3>1. /\ UNCHANGED <<prop, loaded, cut>> /\ asked' /\ ctl'[c].original = ctl[c].original
          /\ ctl[c].pc \in {"reload", "unload"}
      BY <1>0, <2>7 DEF RestoreReload, UndoReload
    <3>2. QED
      BY <1>0, <2>0, <3>1, PropFrame
  <2>8. CASE RestoreWrite(c) \/ UndoProperty(c)
    <3>1. /\ UNCHANGED <<loaded, asked, cut>> /\ ctl'[c].original = ctl[c].original
          /\ ctl'[c].changed = ctl[c].changed /\ PutBack(c) /\ ctl[c].pc # "mark"
      BY <1>0, <2>8 DEF RestoreWrite, UndoProperty
    <3>2. CASE ctl[c].changed
      <4>1. ~found /\ ~prop'
        BY <1>0, <2>0, <3>1, <3>2 DEF PutBack, GuardInv, PropInv
      <4>2. QED
        BY <1>0, <2>0, <3>1, <3>2, <4>1 DEF PropInv, Local
    <3>3. CASE ~ctl[c].changed
      BY <1>0, <2>0, <3>1, <3>3, PropFrame DEF PutBack
    <3>4. QED
      BY <1>0, <3>2, <3>3
  <2>9. CASE UndoDisplay(c) \/ UndoFails(c) \/ StopChild(c)
    <3>1. /\ UNCHANGED <<prop, loaded, asked>> /\ ctl'[c].original = ctl[c].original
          /\ ctl'[c].changed = ctl[c].changed /\ cut \subseteq cut'
          /\ ctl[c].pc # "mark" /\ ctl'[c].pc \notin {"reload", "unload"}
      BY <1>0, <2>9 DEF UndoDisplay, UndoFails, StopChild
    <3>2. QED
      BY <1>0, <2>0, <3>1, PropFrame
  <2>10. QED
    BY <1>3, <2>1, <2>2, <2>3, <2>4, <2>5, <2>6, <2>7, <2>8, <2>9
       DEF OneStep, PropStep, FinalStep
<1>4. QED
  BY <1>1, <1>2, <1>3, StepKinds

-----------------------------------------------------------------------------
(* The theorems                                                            *)

LEMMA LaunchInit == Init => LaunchInv
<1> SUFFICES ASSUME Init PROVE LaunchInv
  OBVIOUS
<1>1. /\ mode \in Modes /\ found \in BOOLEAN /\ prop = found /\ asked = FALSE /\ loaded = found
      /\ window = "normal" /\ cut = {} /\ faults \in 0..MaxFaults
      /\ ctl \in [Controllers -> Controller] /\ kid \in [Controllers -> Child]
      /\ \A c \in Controllers :
           /\ ctl[c].pc \in {"enable", "ended"} /\ ctl[c].original = "unread" /\ ~ctl[c].changed
           /\ ctl[c].code = "none" /\ kid[c].at = "none" /\ ~kid[c].gate
           /\ kid[c].result = "none"
  BY DEF Init
<1>2. TypeOK
  BY <1>1 DEF TypeOK
<1>3. PropInv
  BY <1>1 DEF PropInv
<1>4. \A c \in Controllers : GuardInv(c) /\ KidInv(c)
  BY <1>1 DEF GuardInv, KidInv, Restored, Early
<1>5. QED
  BY <1>2, <1>3, <1>4 DEF LaunchInv

LEMMA LaunchInvariant == Spec => []LaunchInv
<1>1. LaunchInv /\ [Next]_vars => LaunchInv'
  BY TypeStep, ControllersStep, PropInvStep DEF LaunchInv
<1>2. QED
  BY <1>1, LaunchInit, PTL DEF Spec

\* However controllers overlap, fail or are interrupted: when all have ended and each could undo
\* what it did, the property, and what Termux knows of it, are as they were found
\* (PropertyRestored).
THEOREM PropertyIsRestored == Spec => []PropertyRestored
<1>1. LaunchInv => PropertyRestored
  <2> SUFFICES ASSUME LaunchInv, \A c \in Controllers : At(c, "ended"), cut = {}
               PROVE  prop = found /\ (~asked => loaded = found)
    BY DEF LaunchInv, PropertyRestored
  <2>1. \A c \in Controllers : ~ctl[c].changed /\ ctl[c].pc # "mark"
    BY DEF LaunchInv, GuardInv, TypeOK
  <2>2. QED
    BY <2>1 DEF LaunchInv, PropInv, Responsible, Owes, TypeOK
<1>2. QED
  BY <1>1, LaunchInvariant, PTL

\* Exit status 0 tells of the controller's own probe (ZeroIsPlayed).
THEOREM ZeroMeansPlayed == Spec => []ZeroIsPlayed
<1>1. LaunchInv => ZeroIsPlayed
  BY DEF LaunchInv, GuardInv, KidInv, ZeroIsPlayed
<1>2. QED
  BY <1>1, LaunchInvariant, PTL

\* A probe starts only where its controller has seen everything in place (StartsInPlace).
THEOREM ProbeStartsInPlace == Spec => StartsInPlace
<1> DEFINE Starts == \A c \in Controllers :
             kid[c].probe = "none" /\ kid'[c].probe = "runs" /\ mode = "full" =>
               /\ ctl[c].ready /\ ~ctl[c].changed
               /\ At(c, "ended") => c \in cut
<1>1. LaunchInv /\ [Next]_vars => Starts
  <2> SUFFICES ASSUME LaunchInv, [Next]_vars, NEW c \in Controllers,
                      kid[c].probe = "none", kid'[c].probe = "runs", mode = "full"
               PROVE  /\ ctl[c].ready /\ ~ctl[c].changed
                      /\ At(c, "ended") => c \in cut
    OBVIOUS
  <2>0. TypeOK /\ KidInv(c) /\ kid \in [Controllers -> Child]
    BY DEF LaunchInv, TypeOK
  <2>1. ~(UNCHANGED vars \/ AppReloads)
    BY DEF vars, AppReloads
  <2>2. PICK d \in Controllers : OneStep(d)
    BY <2>1, StepKinds
  <2>3. c = d
    BY <2>0, <2>2, LocalStep DEF Local
  <2>4. StartProbe(c)
    <3>1. CASE KidStep(c)
      <4>1. CASE ChildStarts(c) \/ PassGate(c) \/ ChildFails(c) \/ InstallHandlers(c)
                 \/ Report(c) \/ ChildKilled(c)
        <5>0. kid[c] \in Child
          BY <2>0
        <5>1. CASE Report(c)
          <6>1. kid'[c] = [kid[c] EXCEPT !.at = "gone",
                             !.result = IF kid[c].at = "held" THEN kid[c].probe ELSE "bad"]
            BY <2>0, <5>1 DEF Report, Kid
          <6>2. QED
            BY <5>0, <6>1
        <5>2. CASE ~Report(c)
          <6>1. PICK at : kid'[c] = [kid[c] EXCEPT !.at = at]
            BY <2>0, <4>1, <5>2 DEF ChildStarts, PassGate, ChildFails, InstallHandlers,
               ChildKilled, Kid
          <6>2. QED
            BY <5>0, <6>1
        <5>3. QED
          BY <5>1, <5>2
      <4>2. CASE StopProbe(c) \/ ProbeEnds(c)
        BY <4>2 DEF StopProbe, ProbeEnds
      <4>3. QED
        BY <3>1, <4>1, <4>2 DEF KidStep, ChildStep
    <3>2. CASE ~KidStep(c)
      <4>1. kid'[c].probe = kid[c].probe
        BY <2>0, <2>2, <2>3, <3>2 DEF OneStep, CutStep, Interrupt, Kill, Fail, Unwind, PlainStep,
           ServiceProbe, PromoteStart, PromoteTask, LaunchChild, ValidateChild, RestoreCheck,
           ExpandStart, ExpandSettled, OpenGate, Handoff, BackOnTop, ReadResult, PropStep,
           EnableRead, EnableWrite, EnableMark, RestoreWrite, RestoreReload, FinalStep,
           UndoProperty, UndoReload, UndoDisplay, UndoFails, StopChild
      <4>2. QED
        BY <4>1
    <3>3. QED
      BY <3>1, <3>2
  <2>5. kid[c].at = "go"
    BY <2>4 DEF StartProbe
  <2>6. QED
    BY <2>0, <2>5 DEF KidInv
<1>2. QED
  BY <1>1, LaunchInvariant, PTL DEF Spec, StartsInPlace

\* A probe is played where, and reported as, its own controller has seen it (ProbeIsOwn).
THEOREM ProbesAreOwn == Spec => ProbeIsOwn
BY ZeroMeansPlayed, ProbeStartsInPlace, PTL DEF ProbeIsOwn
===============================================================================
