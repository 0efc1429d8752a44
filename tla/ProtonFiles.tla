----------------------------- MODULE ProtonFiles -----------------------------
(* The two tools that change files of Proton and of a game:                                *)
(*   scripts/prepare-proton-direct-wine.py makes Proton's executables name another loader  *)
(*     (prepare), tells whether they do (check) and puts the originals back (restore);     *)
(*   scripts/prepare-no-mans-sky-proton.py builds a second Proton beside the first one and *)
(*     puts three libraries into the game (prepare), and tells whether it did (check).     *)
(* Several commands run at once, are killed anywhere, and Steam, which owns the files,     *)
(* updates them when it runs.  The registry part of the first tool is in SettingsEdit.     *)
EXTENDS Naturals, FiniteSets

CONSTANTS
    Procs,          \* commands that may run at once
    Targets,        \* executables: 1..Targets of TARGET_RELATIVES
    Reviewed,       \* "patched" or "original": what LOADER_CHAIN_SHA256 is the digest of
    MaxRuns,        \* commands begun
    MaxUpdates,     \* times Steam writes Proton or the game
    None

VARIABLES
    version,    \* of Proton, as Steam installed it last
    exe,        \* the executables: of which version, and patched or not
    backups,    \* backups/proton-direct-wine/*.original, named by the target and its digest
    state,      \* state.json beside them: a record per target, or None
    nms,        \* what the second tool has made, and what it has in hand
    steam,      \* "off" or "on"
    proc,       \* the commands
    runs, updates,
    torn        \* written by Steam while a command was about to replace it

vars == <<version, exe, backups, state, nms, steam, proc, runs, updates, torn>>

Exes == 1..Targets
Versions == 1..(MaxUpdates + 1)
Dlls == {"xinput1_4", "xinput9_1_0"}

Exe == [of : Versions, is : {"original", "patched"}]
Original(v) == [of |-> v, is |-> "original"]
\* of: what is in the backup; patched: the version of the file that was patched; seen: whether
\* the identities of the target, the backup and the loader are those of the files that are
\* there.  They are of the file whose digest was compared before ("same"), or of another one,
\* which somebody put there between the two ("other"): the code cannot tell these apart.
Record == [of : Exe, patched : Versions, seen : {"no", "same", "other"}]
Records == [Exes -> Record \cup {None}]

\* What the constants must be; the modules that give them their values assume it.
ProtonFilesAssumption ==
    /\ Targets \in Nat \ {0} /\ MaxRuns \in Nat /\ MaxUpdates \in Nat
    /\ Reviewed \in {"patched", "original"}
    /\ None \notin Procs /\ None \notin Record /\ None \notin Exe

Idle == [on |-> FALSE]
Active == {p \in Procs : proc[p].on}

\* A file that is replaced has another inode and time of change: no record has seen it.
Unseen(records, ts) ==
    [t \in Exes |-> IF t \in ts /\ records[t] # None
                    THEN [records[t] EXCEPT !.seen = "no"] ELSE records[t]]

\* Somebody wrote the executables ts (or, with ts = {}, something else): no record of them is
\* current, and no command but p is alone.
Wrote(p, ts, mine) ==
    [q \in Procs |->
        IF q = p THEN mine
        ELSE IF ~proc[q].on THEN proc[q]
        ELSE [proc[q] EXCEPT !.late = TRUE, !.records = Unseen(@, ts)]]

Ends(p) == proc' = [proc EXCEPT ![p] = Idle]
Steps(p, at) == proc' = [proc EXCEPT ![p].at = at]

Init ==
    /\ version = 1
    /\ exe = [t \in Exes |-> [of |-> 1, is |-> "original"]]
    /\ backups = {} /\ state = [t \in Exes |-> None]
    /\ \E old \in {"none", "legacy"} :
           nms = [tool |-> old, toolBackup |-> FALSE, candidate |-> FALSE, openvr |-> "stock",
                  openvrBackup |-> "none", openvrNew |-> FALSE, owned |-> "stock",
                  xinput |-> {}, xinputNew |-> {}]
    /\ steam = "off"
    /\ proc = [p \in Procs |-> Idle]
    /\ runs = 0 /\ updates = 0 /\ torn = {}

Commands == {<<"wine", v>> : v \in {"prepare", "check", "restore"}}
            \cup {<<"nms", v>> : v \in {"prepare", "check"}}

\* main(): the second tool is run by hand, one command of it at a time.
Begin(p) ==
    /\ ~proc[p].on /\ runs < MaxRuns
    /\ \E c \in Commands :
           /\ c[1] = "nms" => \A q \in Active : proc[q].tool # "nms"
           /\ proc' = [proc EXCEPT ![p] =
                  [on |-> TRUE, tool |-> c[1], verb |-> c[2],
                   at |-> IF c[1] = "wine" THEN "state" ELSE IF c[2] = "prepare" THEN "running" ELSE "check",
                   t |-> 1, read |-> None, staged |-> None, records |-> state, late |-> FALSE]]
    /\ runs' = runs + 1
    /\ UNCHANGED <<version, exe, backups, state, nms, steam, updates, torn>>

-----------------------------------------------------------------------------
(* prepare-proton-direct-wine.py *)

At(p, tool, at) == p \in Active /\ proc[p].tool = tool /\ proc[p].at = at
Mine(p) == proc[p].records[proc[p].t]
Target(p) == exe[proc[p].t]

ReadState(p) ==
    /\ At(p, "wine", "state")
    /\ proc' = [proc EXCEPT ![p].records = state, ![p].at = proc[p].verb]
    /\ UNCHANGED <<version, exe, backups, state, nms, steam, runs, updates, torn>>

\* cached_record_matches: nothing has been written since the identities were taken.
Cached(p) == Mine(p) # None /\ Mine(p).seen # "no"

\* validate_existing_record: the file is the one that was patched, its original is kept.
Valid(p) ==
    /\ Mine(p) # None
    /\ Target(p) = [of |-> Mine(p).patched, is |-> "patched"]
    /\ <<proc[p].t, Mine(p).of>> \in backups

Next1(p) == proc[p].t + 1
\* On to the next target, or to the end; with the records the command holds now.
Goes(p, records) ==
    [proc[p] EXCEPT !.records = records, !.read = None, !.staged = None,
                    !.at = IF proc[p].t = Targets THEN "end" ELSE proc[p].verb,
                    !.t = IF proc[p].t = Targets THEN @ ELSE Next1(p)]

PrepareTarget(p) ==
    /\ At(p, "wine", "prepare")
    /\ proc' = [proc EXCEPT ![p] =
           IF Cached(p) THEN Goes(p, proc[p].records)
           ELSE IF Target(p).is = "original" THEN [proc[p] EXCEPT !.at = "digest"]
           ELSE IF Valid(p) THEN [proc[p] EXCEPT !.at = "identify"]
           ELSE Idle]
    /\ UNCHANGED <<version, exe, backups, state, nms, steam, runs, updates, torn>>

\* The target is read again for the digest that names its backup: it may have been patched.
Digest(p) ==
    /\ At(p, "wine", "digest")
    /\ proc' = [proc EXCEPT ![p].read = Target(p), ![p].at = "backup"]
    /\ UNCHANGED <<version, exe, backups, state, nms, steam, runs, updates, torn>>

InstallBackupBug(p) ==
    /\ At(p, "wine", "backup")
    /\ IF (\E e \in Exe : <<proc[p].t, e>> \in backups) THEN UNCHANGED backups /\ Steps(p, "stage")
       ELSE backups' = backups \cup {<<proc[p].t, proc[p].read>>} /\ Steps(p, "stage")
    /\ UNCHANGED <<version, exe, state, nms, steam, runs, updates, torn>>

\* install_backup compares the digest of what it has copied with the one that was computed.
InstallBackup(p) ==
    /\ At(p, "wine", "backup")
    /\ IF <<proc[p].t, proc[p].read>> \in backups \/ Target(p) = proc[p].read
       THEN backups' = backups \cup {<<proc[p].t, proc[p].read>>} /\ Steps(p, "stage")
       ELSE UNCHANGED backups /\ Ends(p)
    /\ UNCHANGED <<version, exe, state, nms, steam, runs, updates, torn>>

\* The target is read once more.
Stage(p) ==
    /\ At(p, "wine", "stage")
    /\ proc' = [proc EXCEPT ![p].staged = [Target(p) EXCEPT !.is = "patched"], ![p].at = "install"]
    /\ UNCHANGED <<version, exe, backups, state, nms, steam, runs, updates, torn>>

Install(p) ==
    /\ At(p, "wine", "install")
    /\ LET t == proc[p].t IN
       /\ exe' = [exe EXCEPT ![t] = proc[p].staged]
       /\ state' = Unseen(state, {t})
       /\ proc' = Wrote(p, {t}, [proc[p] EXCEPT !.at = "verify", !.records = Unseen(@, {t})])
    /\ UNCHANGED <<version, backups, nms, steam, runs, updates, torn>>

\* The digest of what is there is that of what was put there.
VerifyInstalled(p) ==
    /\ At(p, "wine", "verify")
    /\ IF Target(p) = proc[p].staged THEN Steps(p, "identify") ELSE Ends(p)
    /\ UNCHANGED <<version, exe, backups, state, nms, steam, runs, updates, torn>>

\* The identities are taken after the digest was compared, of whatever is there by then.
Identified(p, m) ==
    [m EXCEPT !.seen = IF Target(p) = [of |-> m.patched, is |-> "patched"] THEN "same" ELSE "other"]

\* A target that was found prepared is done; the record of one that was patched is written.
RecordIdentities(p) ==
    /\ At(p, "wine", "identify")
    /\ LET t == proc[p].t IN
       proc' = [proc EXCEPT ![p] =
           IF proc[p].staged = None
           THEN Goes(p, [proc[p].records EXCEPT ![t] = Identified(p, Mine(p))])
           ELSE [proc[p] EXCEPT !.at = "record",
                     !.records[t] = Identified(p, [of |-> proc[p].read,
                                                   patched |-> proc[p].staged.of, seen |-> "no"])]]
    /\ UNCHANGED <<version, exe, backups, state, nms, steam, runs, updates, torn>>

\* state.json is written with every record this command knows of.
WriteRecord(p) ==
    /\ At(p, "wine", "record")
    /\ state' = proc[p].records
    /\ proc' = Wrote(p, {}, Goes(p, proc[p].records))
    /\ UNCHANGED <<version, exe, backups, nms, steam, runs, updates, torn>>

CheckTarget(p) ==
    /\ At(p, "wine", "check")
    /\ proc' = [proc EXCEPT ![p] =
           IF Target(p).is = "patched" /\ Valid(p) THEN Goes(p, proc[p].records) ELSE Idle]
    /\ UNCHANGED <<version, exe, backups, state, nms, steam, runs, updates, torn>>

RestoreTargetBug(p) ==
    /\ At(p, "wine", "restore")
    /\ LET m == Mine(p) IN
       proc' = [proc EXCEPT ![p] =
           IF m = None \/ Target(p) = m.of THEN Goes(p, proc[p].records)
           ELSE IF Target(p) = [of |-> m.patched, is |-> "patched"]
                   /\ <<proc[p].t, m.of>> \in backups
                THEN [proc[p] EXCEPT !.at = "putback"] ELSE Idle]
    /\ UNCHANGED <<version, exe, backups, state, nms, steam, runs, updates, torn>>

RestoreTarget(p) ==
    /\ At(p, "wine", "restore")
    /\ LET m == Mine(p) IN
       proc' = [proc EXCEPT ![p] =
           IF m = None
           THEN IF Target(p).is = "original" THEN Goes(p, proc[p].records) ELSE Idle
           ELSE IF Target(p) = m.of
           THEN IF m.of.is = "original" THEN Goes(p, proc[p].records) ELSE Idle
           ELSE IF Target(p) = [of |-> m.patched, is |-> "patched"]
                   /\ <<proc[p].t, m.of>> \in backups
                THEN [proc[p] EXCEPT !.at = "putback"] ELSE Idle]
    /\ UNCHANGED <<version, exe, backups, state, nms, steam, runs, updates, torn>>

\* What is in the backup is put back, and read: it may not be an original.
PutBack(p) ==
    /\ At(p, "wine", "putback")
    /\ LET t == proc[p].t
           back == Mine(p).of
       IN  /\ exe' = [exe EXCEPT ![t] = back]
           /\ state' = Unseen(state, {t})
           /\ proc' = Wrote(p, {t}, IF back.is = "original"
                                    THEN Goes(p, Unseen(proc[p].records, {t})) ELSE Idle)
    /\ UNCHANGED <<version, backups, nms, steam, runs, updates, torn>>

\* prepare writes the records once more, with what it has seen; the others write nothing.
EndWine(p) ==
    /\ At(p, "wine", "end")
    /\ IF proc[p].verb = "prepare"
       THEN state' = proc[p].records /\ proc' = Wrote(p, {}, Idle)
       ELSE UNCHANGED state /\ Ends(p)
    /\ UNCHANGED <<version, exe, backups, nms, steam, runs, updates, torn>>

-----------------------------------------------------------------------------
(* prepare-no-mans-sky-proton.py *)

\* validate_source: the version that was reviewed, with the reviewed loaders.
SourceReviewed == version = 1 /\ \A t \in Exes : exe[t] = [of |-> 1, is |-> Reviewed]

\* validate_tool, validate_legacy_tool: digests of the copies, the marker and the manifest.
Contained == nms.tool = "good"
Legacy == nms.tool = "legacy"
\* validate_game_openvr, validate_game_xinput.
GameOpenvr == nms.openvr = "stub" /\ nms.openvrBackup = "stock"
GameXInput == nms.xinput = Dlls

CheckNms(p) ==
    /\ At(p, "nms", "check")
    /\ IF SourceReviewed /\ Contained /\ nms.candidate /\ GameOpenvr /\ GameXInput
       THEN Steps(p, "end") ELSE Ends(p)
    /\ UNCHANGED <<version, exe, backups, state, nms, steam, runs, updates, torn>>

NotRunning(p) ==
    /\ At(p, "nms", "running")
    /\ IF steam = "on" THEN Ends(p) ELSE Steps(p, "source")
    /\ UNCHANGED <<version, exe, backups, state, nms, steam, runs, updates, torn>>

\* A tool of the reviewed kind is left alone; one of schema 3 is upgraded.
ValidateSource(p) ==
    /\ At(p, "nms", "source")
    /\ IF ~SourceReviewed THEN Ends(p)
       ELSE Steps(p, IF Contained THEN "candidate" ELSE "build")
    /\ UNCHANGED <<version, exe, backups, state, nms, steam, runs, updates, torn>>

\* validate_tool refuses a copy of what Steam has changed meanwhile.
BuildStage(p) ==
    /\ At(p, "nms", "build")
    /\ IF ~SourceReviewed \/ (Legacy /\ nms.toolBackup) THEN Ends(p)
       ELSE Steps(p, IF Legacy THEN "setaside" ELSE "installtool")
    /\ UNCHANGED <<version, exe, backups, state, nms, steam, runs, updates, torn>>

\* What the second tool changes and the step it is at: nothing else moves.
Makes(p, changed, at) ==
    /\ nms' = changed
    /\ proc' = Wrote(p, {}, [proc[p] EXCEPT !.at = at])
    /\ UNCHANGED <<version, exe, backups, state, steam, runs, updates, torn>>

SetToolAside(p) ==
    /\ At(p, "nms", "setaside")
    /\ Makes(p, [nms EXCEPT !.tool = "none", !.toolBackup = TRUE], "upgradetool")

UpgradeTool(p) ==
    /\ At(p, "nms", "upgradetool")
    /\ Makes(p, [nms EXCEPT !.tool = "good"], "droptool")

DropTool(p) ==
    /\ At(p, "nms", "droptool")
    /\ Makes(p, [nms EXCEPT !.toolBackup = FALSE], "candidate")

InstallTool(p) ==
    /\ At(p, "nms", "installtool")
    /\ Makes(p, [nms EXCEPT !.tool = "good"], "candidate")

\* The second of two renames fails: the first is taken back, and the command ends.
RenameFails(p) ==
    /\ \/ /\ At(p, "nms", "upgradetool")
          /\ nms' = [nms EXCEPT !.tool = "legacy", !.toolBackup = FALSE]
       \/ /\ At(p, "nms", "putopenvr")
          /\ nms' = [nms EXCEPT !.openvr = nms.openvrBackup, !.openvrBackup = "none"]
    /\ proc' = Wrote(p, {}, Idle)
    /\ UNCHANGED <<version, exe, backups, state, steam, runs, updates, torn>>

PrepareCandidate(p) ==
    /\ At(p, "nms", "candidate")
    /\ Makes(p, [nms EXCEPT !.candidate = TRUE], "openvr")

PrepareOpenvr(p) ==
    /\ At(p, "nms", "openvr")
    /\ IF nms.openvrBackup # "none"
       THEN IF GameOpenvr THEN Steps(p, "xinput") ELSE Ends(p)
       ELSE IF nms.openvr = "stock" /\ ~nms.openvrNew THEN Steps(p, "copyopenvr") ELSE Ends(p)
    /\ UNCHANGED <<version, exe, backups, state, nms, steam, runs, updates, torn>>

CopyOpenvr(p) ==
    /\ At(p, "nms", "copyopenvr")
    /\ Makes(p, [nms EXCEPT !.openvrNew = TRUE], "keepopenvr")

KeepOpenvr(p) ==
    /\ At(p, "nms", "keepopenvr")
    /\ Makes(p, [nms EXCEPT !.openvrBackup = nms.openvr, !.openvr = "none"], "putopenvr")

PutOpenvr(p) ==
    /\ At(p, "nms", "putopenvr")
    /\ Makes(p, [nms EXCEPT !.openvr = "stub", !.openvrNew = FALSE], "seeopenvr")

SeeOpenvr(p) ==
    /\ At(p, "nms", "seeopenvr")
    /\ IF GameOpenvr THEN Steps(p, "xinput") ELSE Ends(p)
    /\ UNCHANGED <<version, exe, backups, state, nms, steam, runs, updates, torn>>

\* The two libraries, one after the other, each by a temporary file of a fixed name.
CopyXInput(p) ==
    /\ At(p, "nms", "xinput")
    /\ LET missing == Dlls \ nms.xinput
           d == IF "xinput1_4" \in missing THEN "xinput1_4" ELSE "xinput9_1_0"
       IN  IF missing = {} THEN Steps(p, "end") /\ UNCHANGED nms
           ELSE IF d \in nms.xinputNew THEN Ends(p) /\ UNCHANGED nms
           ELSE /\ nms' = [nms EXCEPT !.xinputNew = @ \cup {d}]
                /\ proc' = Wrote(p, {}, [proc[p] EXCEPT !.at = "putxinput"])
    /\ UNCHANGED <<version, exe, backups, state, steam, runs, updates, torn>>

PutXInput(p) ==
    /\ At(p, "nms", "putxinput")
    /\ LET missing == Dlls \ nms.xinput
           d == IF "xinput1_4" \in missing THEN "xinput1_4" ELSE "xinput9_1_0"
       IN  Makes(p, [nms EXCEPT !.xinput = @ \cup {d}, !.xinputNew = @ \ {d}], "xinput")

EndNms(p) ==
    /\ At(p, "nms", "end") /\ Ends(p)
    /\ UNCHANGED <<version, exe, backups, state, nms, steam, runs, updates, torn>>

-----------------------------------------------------------------------------
(* A signal or an error at any place, and Steam, which owns Proton and the game. *)

Fails(p) ==
    /\ p \in Active /\ Ends(p)
    /\ UNCHANGED <<version, exe, backups, state, nms, steam, runs, updates, torn>>

SteamStarts ==
    /\ steam = "off" /\ steam' = "on"
    /\ UNCHANGED <<version, exe, backups, state, nms, proc, runs, updates, torn>>

SteamStops ==
    /\ steam = "on" /\ steam' = "off"
    /\ UNCHANGED <<version, exe, backups, state, nms, proc, runs, updates, torn>>

InHand(tool, ats) == {p \in Active : proc[p].tool = tool /\ proc[p].at \in ats}

UpdateProton ==
    /\ steam = "on" /\ updates < MaxUpdates /\ updates' = updates + 1
    /\ version' = version + 1
    /\ exe' = [t \in Exes |-> [of |-> version + 1, is |-> "original"]]
    /\ state' = Unseen(state, Exes)
    /\ proc' = Wrote(None, Exes, Idle)
    /\ torn' = (torn \ Exes) \cup {proc[p].t : p \in InHand("wine", {"backup", "stage", "install", "putback"})}
    /\ UNCHANGED <<backups, nms, steam, runs>>

\* The files are verified (the same library again) or the game is updated (another one).
UpdateGame ==
    /\ steam = "on" /\ updates < MaxUpdates /\ updates' = updates + 1
    /\ \E dll \in {"stock", "other"} : nms' = [nms EXCEPT !.openvr = dll, !.owned = dll]
    /\ proc' = Wrote(None, {}, Idle)
    /\ torn' = (torn \ {0}) \cup IF InHand("nms", {"copyopenvr", "keepopenvr", "putopenvr"}) = {} THEN {} ELSE {0}
    /\ UNCHANGED <<version, exe, backups, state, steam, runs>>

\* The runtime that holds the loader is installed again, under the same name.
ReplaceLoader ==
    /\ \E t \in Exes : state[t] # None /\ state[t].seen # "no"
    /\ state' = Unseen(state, Exes)
    /\ proc' = Wrote(None, Exes, Idle)
    /\ UNCHANGED <<version, exe, backups, nms, steam, runs, updates, torn>>

-----------------------------------------------------------------------------

Wine(p) ==
    \/ ReadState(p) \/ PrepareTarget(p) \/ Digest(p) \/ InstallBackup(p) \/ Stage(p)
    \/ Install(p) \/ VerifyInstalled(p) \/ RecordIdentities(p) \/ WriteRecord(p) \/ CheckTarget(p) \/ RestoreTarget(p) \/ PutBack(p) \/ EndWine(p)

Nms(p) ==
    \/ CheckNms(p) \/ NotRunning(p) \/ ValidateSource(p) \/ BuildStage(p)
    \/ SetToolAside(p) \/ UpgradeTool(p) \/ DropTool(p) \/ InstallTool(p) \/ RenameFails(p)
    \/ PrepareCandidate(p)
    \/ PrepareOpenvr(p) \/ CopyOpenvr(p) \/ KeepOpenvr(p) \/ PutOpenvr(p) \/ SeeOpenvr(p)
    \/ CopyXInput(p) \/ PutXInput(p) \/ EndNms(p)

Steam == SteamStarts \/ SteamStops \/ UpdateProton \/ UpdateGame \/ ReplaceLoader

Next == (\E p \in Procs : Begin(p) \/ Wine(p) \/ Nms(p) \/ Fails(p)) \/ Steam

Spec == Init /\ [][Next]_vars

-----------------------------------------------------------------------------
(* Properties *)

\* The variables have their types.
TypeOK ==
    /\ version \in Versions /\ exe \in [Exes -> Exe] /\ backups \subseteq Exes \X Exe
    /\ state \in Records /\ \A p \in Active : proc[p].records \in Records /\ proc[p].t \in Exes
    /\ nms.tool \in {"none", "legacy", "good"} /\ nms.xinput \subseteq Dlls /\ nms.xinputNew \subseteq Dlls
    /\ steam \in {"on", "off"} /\ torn \subseteq 0..Targets

\* What Steam installed last can be had again: an executable that is not as Steam wrote it has
\* its original in a backup of that version, and the game's own OpenVR library lies in its
\* place or beside it; for the files Steam did not write while a command had them in hand
\* (install_backup before the rename; the rename of the library before that of its stand-in).
\* With the types.
OriginalsKept ==
    /\ TypeOK
    /\ \A t \in Exes : t \notin torn =>
           exe[t] = Original(version) \/ <<t, Original(version)>> \in backups
    /\ 0 \notin torn => nms.owned \in {nms.openvr, nms.openvrBackup}

\* Patched as its record says, with what was there before in the backup.
Prepared(t, m) ==
    m # None /\ exe[t] = [of |-> m.patched, is |-> "patched"] /\ <<t, m.of>> \in backups

\* A command that ends well, and beside which nobody wrote, has done all it says: every
\* executable is patched, recorded and has what was there before kept (prepare, check), or is
\* an original again (restore); the second Proton and the three libraries are in place.  The
\* records that let prepare pass over a file unread are not believed longer than the file they
\* were made of is there; except those whose identities were taken of another file than the
\* one that had been compared, which EndsPrepared is about.
WholeIfEnds(p) ==
    ~proc[p].late =>
        /\ EndWine(p) /\ proc[p].verb = "prepare" =>
               \A t \in Exes : state'[t] # None /\ (state'[t].seen # "other" => Prepared(t, state'[t]))
        /\ EndWine(p) /\ proc[p].verb = "check" => \A t \in Exes : Prepared(t, state[t])
        /\ EndWine(p) /\ proc[p].verb = "restore" => \A t \in Exes : exe[t].is = "original"
        /\ EndNms(p) => Contained /\ nms.candidate /\ GameOpenvr /\ GameXInput
EndIsWhole == [][\A p \in Active : WholeIfEnds(p)]_vars

\* "Unchanged device/inode/size/time/mode/owner metadata avoids re-reading large binaries; any
\* change falls back to full ELF and SHA-256 validation ... without turning a stale stamp into
\* trust" (PRODUCTIZATION_RESEARCH.md:111-114): a prepare that ends well, and beside which
\* nobody wrote, leaves every executable patched.  What Steam writes between the comparison of
\* the digest and the identities is stamped as if it had been compared, and passed over after.
EndsPrepared ==
    [][\A p \in Active : EndWine(p) /\ proc[p].verb = "prepare" /\ ~proc[p].late =>
           \A t \in Exes : exe[t].is = "patched"]_vars

=============================================================================
