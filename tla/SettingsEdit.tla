---------------------------- MODULE SettingsEdit ----------------------------
(* The tools that change a settings file of a game or of Steam where it lies:              *)
(* scripts/configure-*.py and the registry part of scripts/prepare-proton-direct-wine.py.  *)
(* Each reads the whole file, changes its own part of it and replaces the file by rename.   *)
(* Meanwhile another tool may do the same, and the owner of the file (Wine, the game,       *)
(* Steam), which read it when it started, writes it back when it ends.                      *)
(*                                                                                          *)
(* A tool is a sequence of steps, the calls of its main() and apply function in their       *)
(* order, which the actions below carry out.  A file is one value per tool, standing for    *)
(* the settings that tool changes, and a number for everything else.                        *)
EXTENDS Naturals, FiniteSets, Sequences

CONSTANTS
    Procs,          \* commands that may run at once
    Values,         \* what a command may be asked to set: a profile, a size, a compatibility tool
    None,           \* no such setting in the file
    Other,          \* what the user, the game or the store set
    MaxRuns,        \* commands begun
    MaxSessions,    \* times the owner starts
    NoRender, Unsaid   \* a rendering that is refused; a setting nothing is said of

\* What the constants must be; the modules that give them their values assume it.
SettingsEditAssumption ==
    /\ MaxRuns \in Nat /\ MaxSessions \in Nat /\ Values # {}
    /\ {None, Other, NoRender, Unsaid} \cap Values = {}
    /\ None \notin [original : Values \cup {None, Other}, configured : Values]
    /\ Cardinality({None, Other, NoRender, Unsaid}) = 4

VARIABLES
    place,      \* the file, chosen once
    file,       \* what it holds
    backups,    \* the contents in backup files
    record,     \* state.json of the tools that can restore: per tool
    proc,       \* the commands
    owner,      \* the program the file belongs to
    runs, sessions,
    stands      \* what the last unhindered command put there

vars == <<place, file, backups, record, proc, owner, runs, sessions, stands>>

-----------------------------------------------------------------------------
(* The files and the tools that change them. *)

Places ==
    [ tombraider  |-> {"performance", "background"},     \* 203160/pfx/user.reg
      gtaiv       |-> {"desktop", "socialclub"},         \* 12210/pfx/user.reg
      system      |-> {"folder", "timeout"},             \* 12210/pfx/system.reg
      superflight |-> {"superflight"},                   \* 732430/pfx/user.reg
      nms         |-> {"background", "mouse"},           \* 275850/pfx/user.reg
      graphics    |-> {"nms"},                           \* TKGRAPHICSSETTINGS.MXML
      config      |-> {"mapping"},                       \* config/config.vdf
      executable  |-> {"topology"} ]                     \* TombRaider.exe

Tools == UNION {Places[p] : p \in DOMAIN Places}
Recording == {"background", "mouse"}
Reversible == Recording \cup {"desktop", "socialclub", "topology"}

\* One value for the tools with a single one: the folder, the timeout, the patch.
Single == {"folder", "timeout", "superflight", "socialclub", "topology"}
Asked(tool) == IF tool \in Single THEN {CHOOSE v \in Values : TRUE} ELSE Values
Verbs(tool) == {"set"} \cup (IF tool \in Reversible THEN {"undo"} ELSE {})

Setting == Values \cup {None, Other}
Settings == [Places[place] -> Setting]
Content == [set : Settings, saved : 0..MaxSessions]

-----------------------------------------------------------------------------
(* What a tool makes of the value it finds. *)

\* Exactly one section with exactly one value of each name, or it refuses.
RenderPerformance(old, verb, v) == IF old = None THEN NoRender ELSE v
RenderSuperflight(old, verb, v) == IF old = None THEN NoRender ELSE v
RenderGraphics(old, verb, v) == IF old = None THEN NoRender ELSE v

\* Adds what is missing and takes nothing else for it.
RenderFolder(old, verb, v) == IF old \in {None, v} THEN v ELSE NoRender
RenderTimeout(old, verb, v) == IF old \in {None, v} THEN v ELSE NoRender

\* enable_value writes over whatever is there; disable_value removes only what it would have
\* written.
EnableValue(old, v) == v
DisableValue(old, v) == IF old \in {None, v} THEN None ELSE NoRender
RenderDesktop(old, verb, v) == IF verb = "set" THEN EnableValue(old, v) ELSE DisableValue(old, v)
RenderSocialClub(old, verb, v) == IF verb = "set" THEN EnableValue(old, v) ELSE DisableValue(old, v)

RenderMapping(old, verb, v) == v

\* The executable of the store (Other), the patched one, or one nobody knows (None).
RenderTopology(old, verb, v) ==
    IF old = None THEN NoRender ELSE IF verb = "set" THEN v ELSE Other

\* The colour must be there; the override of the mouse need not.
RenderBackground(old, verb, v, kept) ==
    IF old = None THEN NoRender ELSE IF verb = "set" THEN v ELSE kept.original
RenderMouse(old, verb, v, kept) == IF verb = "set" THEN v ELSE kept.original

\* kept: the state.json the tool goes by, if it is one that records.
Render(tool, old, verb, v, kept) ==
    CASE tool = "performance" -> RenderPerformance(old, verb, v)
      [] tool = "superflight" -> RenderSuperflight(old, verb, v)
      [] tool = "nms" -> RenderGraphics(old, verb, v)
      [] tool = "folder" -> RenderFolder(old, verb, v)
      [] tool = "timeout" -> RenderTimeout(old, verb, v)
      [] tool = "desktop" -> RenderDesktop(old, verb, v)
      [] tool = "socialclub" -> RenderSocialClub(old, verb, v)
      [] tool = "mapping" -> RenderMapping(old, verb, v)
      [] tool = "topology" -> RenderTopology(old, verb, v)
      [] tool = "background" -> RenderBackground(old, verb, v, kept)
      [] tool = "mouse" -> RenderMouse(old, verb, v, kept)

-----------------------------------------------------------------------------
(* The steps of the tools.                                                                  *)
(*   look            read and render, and say what is pending                               *)
(*   running         refuse while the owner runs                                            *)
(*   read            read and render                                                        *)
(*   validated       what was read is what the caller named                                 *)
(*   recheck         the file is the one that was read                                      *)
(*   copy, compare   copy the file into a backup; compare that with what was read           *)
(*   keep            write what was read into a backup                                      *)
(*   exists          check state.json, if there is one                                      *)
(*   record          make it, if there was none                                             *)
(*   recorded        check it: it must be there                                             *)
(*   decide          nothing to do, or a value nobody knows                                 *)
(*   reread          compare the file with what was read                                    *)
(*   replace         rename the new file over the old                                       *)
(*   confirm         read it again                                                          *)

MainPerformance == <<"look", "running">>
ApplyPerformance == <<"read", "copy", "compare", "replace", "confirm">>

MainSuperflight == <<"look", "running">>
ApplySuperflight == <<"read", "copy", "compare", "replace", "confirm">>

MainFolder == <<"look", "running">>
ApplyFolder == <<"read", "copy", "compare", "replace", "confirm">>

MainDesktopBug == <<"look">>
MainDesktop == <<"look", "running">>
ApplyDesktop == <<"read", "copy", "compare", "replace", "confirm">>

MainSocialClub == <<"look", "running">>
ApplySocialClub == <<"read", "copy", "compare", "replace", "confirm">>

\* Its caller names the digest of the file it has validated.
MainTimeout == <<"running">>
ApplyTimeout == <<"read", "validated", "copy", "compare", "replace", "confirm">>

MainTopology == <<"look", "running">>
ApplyTopology == <<"read", "copy", "compare", "reread", "replace", "confirm">>

\* No look at processes, and no look at the result.
MainGraphics == <<"read">>
ApplyGraphics == <<"recheck", "keep", "replace">>

MainMapping == <<"running", "read">>
ApplyMapping == <<"recheck", "copy", "compare", "replace", "confirm">>

\* The file is read before the processes are looked for.
ConfigureBackground == <<"read", "exists", "copy", "record", "decide", "running", "replace", "confirm">>
RestoreBackground == <<"read", "recorded", "decide", "running", "replace">>
ConfigureMouse == <<"read", "exists", "copy", "record", "decide", "running", "replace", "confirm">>
RestoreMouse == <<"read", "recorded", "decide", "running", "replace">>

Steps(tool, verb) ==
    CASE tool = "performance" -> MainPerformance \o ApplyPerformance
      [] tool = "superflight" -> MainSuperflight \o ApplySuperflight
      [] tool = "nms" -> MainGraphics \o ApplyGraphics
      [] tool = "folder" -> MainFolder \o ApplyFolder
      [] tool = "timeout" -> MainTimeout \o ApplyTimeout
      [] tool = "desktop" -> MainDesktop \o ApplyDesktop
      [] tool = "socialclub" -> MainSocialClub \o ApplySocialClub
      [] tool = "mapping" -> MainMapping \o ApplyMapping
      [] tool = "topology" -> MainTopology \o ApplyTopology
      [] tool = "background" -> IF verb = "set" THEN ConfigureBackground ELSE RestoreBackground
      [] tool = "mouse" -> IF verb = "set" THEN ConfigureMouse ELSE RestoreMouse

\* The phases of the owner that the tool's look at /proc can tell.  Before Steam runs its
\* launcher does, whom nobody looks for; the game that writes its graphics settings, and the
\* store that updates the executable, are not looked for at all.
Phases == {"starting", "running", "closing"}
RunningPerformance == Phases
RunningSuperflight == Phases
RunningFolder == Phases
RunningPrefix == Phases
RunningDesktop == Phases
RunningMapping == {"running", "closing"}
RunningTopology == {}
Sees(tool) ==
    CASE tool = "performance" -> RunningPerformance
      [] tool = "superflight" -> RunningSuperflight
      [] tool = "folder" -> RunningFolder
      [] tool \in {"desktop", "socialclub", "timeout"} -> RunningDesktop
      [] tool = "mapping" -> RunningMapping
      [] tool = "topology" -> RunningTopology
      [] tool = "nms" -> {}
      [] tool \in Recording -> RunningPrefix

-----------------------------------------------------------------------------
(* State *)

Idle == [on |-> FALSE]
Off == [phase |-> "off"]

Init ==
    /\ place \in DOMAIN Places
    /\ file \in [set : [Places[place] -> {None, Other}], saved : {0}]
    /\ backups = {} /\ record = [t \in Recording |-> None]
    /\ proc = [p \in Procs |-> Idle] /\ owner = Off
    /\ runs = 0 /\ sessions = 0
    /\ stands = [t \in Places[place] |-> Unsaid]

Active == {p \in Procs : proc[p].on}
At(p, step) == /\ p \in Active
               /\ Steps(proc[p].tool, proc[p].verb)[proc[p].at] = step
AtEnd(p) == proc[p].at = Len(Steps(proc[p].tool, proc[p].verb))

Rendered(p, content) ==
    LET t == proc[p].tool
    IN  Render(t, content.set[t], proc[p].verb, proc[p].value, proc[p].kept)

Ends(p) == proc' = [proc EXCEPT ![p] = Idle]
Goes(p) == IF AtEnd(p) THEN Ends(p) ELSE proc' = [proc EXCEPT ![p].at = @ + 1]
\* on, with what the step has found out
GoesWith(p, changed) == proc' = [proc EXCEPT ![p] = [changed EXCEPT !.at = @ + 1]]

\* late: somebody has written the file since this command last looked at it.
\* raced: the owner has read the file, or is about to write it, where this command could not
\* see it: since its look at the processes, or in a phase it does not look for.
Noticed(written, moved) ==
    [p \in Procs |-> IF ~proc[p].on THEN proc[p]
                     ELSE [proc[p] EXCEPT !.late = @ \/ written, !.raced = @ \/ moved]]

Begin(p) ==
    /\ ~proc[p].on /\ runs < MaxRuns
    /\ \E t \in Places[place] : \E verb \in Verbs(t), v \in Asked(t) :
           proc' = [proc EXCEPT ![p] =
               [on |-> TRUE, tool |-> t, verb |-> verb, value |-> v, at |-> 1,
                expected |-> file, read |-> file, backup |-> file, kept |-> None,
                late |-> FALSE, raced |-> owner.phase \notin {"off"} \cup Sees(t)]]
    /\ runs' = runs + 1
    /\ UNCHANGED <<place, file, backups, record, owner, sessions, stands>>

-----------------------------------------------------------------------------
(* The steps *)

Look(p) ==
    /\ At(p, "look")
    /\ IF Render(proc[p].tool, file.set[proc[p].tool], "set", proc[p].value, None) = NoRender
       THEN Ends(p) ELSE Goes(p)
    /\ UNCHANGED <<place, file, backups, record, owner, runs, sessions, stands>>

Running(p) ==
    /\ At(p, "running")
    /\ IF owner.phase \in Sees(proc[p].tool)
       THEN Ends(p) ELSE GoesWith(p, [proc[p] EXCEPT !.raced = owner.phase # "off"])
    /\ UNCHANGED <<place, file, backups, record, owner, runs, sessions, stands>>

\* The digest on the command line is that of the file when the command was typed.
Validated(p) ==
    /\ At(p, "validated")
    /\ IF proc[p].read = proc[p].expected THEN Goes(p) ELSE Ends(p)
    /\ UNCHANGED <<place, file, backups, record, owner, runs, sessions, stands>>

\* A restoration of what nobody recorded is refused by the step after this one.
Read(p) ==
    /\ At(p, "read")
    /\ LET now == file
           t == proc[p].tool
       IN  IF t \in Recording
           THEN IF t = "background" /\ now.set[t] = None THEN Ends(p)
                ELSE GoesWith(p, [proc[p] EXCEPT !.read = now, !.late = FALSE])
           ELSE IF Rendered(p, now) \in {NoRender, now.set[t]} THEN Ends(p)
                ELSE GoesWith(p, [proc[p] EXCEPT !.read = now, !.late = FALSE])
    /\ UNCHANGED <<place, file, backups, record, owner, runs, sessions, stands>>

\* Device, inode, size and time of change.
Recheck(p) ==
    /\ At(p, "recheck")
    /\ IF proc[p].late THEN Ends(p) ELSE Goes(p)
    /\ UNCHANGED <<place, file, backups, record, owner, runs, sessions, stands>>

\* A record that is there is read and must be one of the same value.
Exists(p) ==
    /\ At(p, "exists")
    /\ LET r == record[proc[p].tool] IN
       IF r # None /\ r.configured # proc[p].value THEN Ends(p)
       ELSE GoesWith(p, [proc[p] EXCEPT !.kept = r])
    /\ UNCHANGED <<place, file, backups, record, owner, runs, sessions, stands>>

\* A tool that records copies only where it has found no record.
Copy(p) ==
    /\ At(p, "copy")
    /\ IF proc[p].tool \in Recording
       THEN /\ IF proc[p].kept = None THEN backups' = backups \cup {file}
               ELSE UNCHANGED backups
            /\ Goes(p)
       ELSE /\ backups' = backups \cup {file}
            /\ GoesWith(p, [proc[p] EXCEPT !.backup = file, !.late = FALSE])
    /\ UNCHANGED <<place, file, record, owner, runs, sessions, stands>>

Compare(p) ==
    /\ At(p, "compare")
    /\ IF proc[p].backup = proc[p].read THEN Goes(p) ELSE Ends(p)
    /\ UNCHANGED <<place, file, backups, record, owner, runs, sessions, stands>>

Keep(p) ==
    /\ At(p, "keep") /\ backups' = backups \cup {proc[p].read} /\ Goes(p)
    /\ UNCHANGED <<place, file, record, owner, runs, sessions, stands>>

Reread(p) ==
    /\ At(p, "reread")
    /\ IF file = proc[p].read THEN GoesWith(p, [proc[p] EXCEPT !.late = FALSE]) ELSE Ends(p)
    /\ UNCHANGED <<place, file, backups, record, owner, runs, sessions, stands>>

\* It is written where none was found, over one that another command has written since.
Record(p) ==
    /\ At(p, "record")
    /\ LET t == proc[p].tool
           new == [original |-> proc[p].read.set[t], configured |-> proc[p].value]
       IN  IF proc[p].kept = None
           THEN /\ record' = [record EXCEPT ![t] = new]
                /\ GoesWith(p, [proc[p] EXCEPT !.kept = new])
           ELSE UNCHANGED record /\ Goes(p)
    /\ UNCHANGED <<place, file, backups, owner, runs, sessions, stands>>

Recorded(p) ==
    /\ At(p, "recorded")
    /\ LET r == record[proc[p].tool] IN
       IF r # None /\ r.configured = proc[p].value
       THEN GoesWith(p, [proc[p] EXCEPT !.kept = r]) ELSE Ends(p)
    /\ UNCHANGED <<place, file, backups, record, owner, runs, sessions, stands>>

Decide(p) ==
    /\ At(p, "decide")
    /\ LET t == proc[p].tool
           now == proc[p].read.set[t]
           r == proc[p].kept
           from == IF proc[p].verb = "set" THEN r.original ELSE r.configured
           to == IF proc[p].verb = "set" THEN r.configured ELSE r.original
       IN  IF now # to /\ now = from THEN Goes(p) ELSE Ends(p)
    /\ UNCHANGED <<place, file, backups, record, owner, runs, sessions, stands>>

\* The whole file is replaced by what was read, with the tool's own setting changed.
Replace(p) ==
    /\ At(p, "replace")
    /\ LET t == proc[p].tool
           new == [proc[p].read EXCEPT !.set[t] = Rendered(p, proc[p].read)]
       IN  /\ file' = new
           /\ stands' = [s \in Places[place] |->
                  IF s = t THEN IF proc[p].raced THEN Unsaid ELSE new.set[t]
                  ELSE IF proc[p].late THEN Unsaid ELSE stands[s]]
           /\ proc' = [q \in Procs |->
                  IF q = p THEN IF AtEnd(p) THEN Idle
                                ELSE [proc[p] EXCEPT !.at = @ + 1, !.read = new]
                  ELSE Noticed(TRUE, FALSE)[q]]
    /\ UNCHANGED <<place, backups, record, owner, runs, sessions>>

Confirm(p) ==
    /\ At(p, "confirm") /\ Ends(p)
    /\ UNCHANGED <<place, file, backups, record, owner, runs, sessions, stands>>

\* A signal, a full disk: what is on the disk stays.
Fails(p) ==
    /\ p \in Active /\ Ends(p)
    /\ UNCHANGED <<place, file, backups, record, owner, runs, sessions, stands>>

-----------------------------------------------------------------------------
(* The owner: it reads the file once, changes what it likes and writes everything back. *)

OwnerStarts ==
    /\ owner.phase = "off" /\ sessions < MaxSessions
    /\ owner' = [phase |-> "starting"] /\ sessions' = sessions + 1
    /\ proc' = Noticed(FALSE, TRUE)
    /\ UNCHANGED <<place, file, backups, record, runs, stands>>

OwnerLoads ==
    /\ owner.phase = "starting"
    /\ owner' = [phase |-> "running", memory |-> file, changed |-> {}]
    /\ proc' = Noticed(FALSE, TRUE)
    /\ UNCHANGED <<place, file, backups, record, runs, sessions, stands>>

OwnerChanges ==
    /\ owner.phase = "running"
    /\ \/ owner.memory.saved # sessions /\ owner' = [owner EXCEPT !.memory.saved = sessions]
       \/ \E t \in Places[place], v \in {None, Other} :
              /\ t \notin owner.changed /\ owner.memory.set[t] # v
              /\ owner' = [owner EXCEPT !.memory.set[t] = v, !.changed = @ \cup {t}]
    /\ UNCHANGED <<place, file, backups, record, proc, runs, sessions, stands>>

OwnerCloses ==
    /\ owner.phase = "running" /\ owner' = [owner EXCEPT !.phase = "closing"]
    /\ proc' = Noticed(FALSE, TRUE)
    /\ UNCHANGED <<place, file, backups, record, runs, sessions, stands>>

OwnerWrites ==
    /\ owner.phase = "closing" /\ owner' = Off
    /\ file' = owner.memory
    /\ stands' = [t \in Places[place] |-> IF t \in owner.changed THEN Unsaid ELSE stands[t]]
    /\ proc' = Noticed(TRUE, TRUE)
    /\ UNCHANGED <<place, backups, record, runs, sessions>>

-----------------------------------------------------------------------------

Tool(p) ==
    \/ Begin(p) \/ Look(p) \/ Running(p) \/ Validated(p) \/ Read(p) \/ Recheck(p)
    \/ Exists(p) \/ Copy(p) \/ Compare(p) \/ Keep(p) \/ Reread(p) \/ Record(p) \/ Recorded(p)
    \/ Decide(p) \/ Replace(p) \/ Confirm(p) \/ Fails(p)

Owner == OwnerStarts \/ OwnerLoads \/ OwnerChanges \/ OwnerCloses \/ OwnerWrites

Next == (\E p \in Procs : Tool(p)) \/ Owner

Spec == Init /\ [][Next]_vars

-----------------------------------------------------------------------------
(* Properties *)

\* The variables have their types.
TypeOK ==
    /\ place \in DOMAIN Places
    /\ file \in Content /\ backups \subseteq Content
    /\ \A t \in Recording : record[t] = None \/ record[t] \in [original : Setting, configured : Values]
    /\ \A p \in Active : /\ proc[p].read \in Content /\ proc[p].tool \in Places[place]
                         /\ proc[p].at \in 1..Len(Steps(proc[p].tool, proc[p].verb))
    /\ stands \in [Places[place] -> Setting \cup {Unsaid}]

\* A command that replaces a file nobody has written since it last looked changes only its
\* own setting, and what it replaces can be had again: the whole file lies in a backup, or
\* the setting is the one recorded, or the one the tool itself had put there (the backups of
\* the configure scripts, state.json of the Proton preparation).  This goes as long as
\* state.json is the one the command has read or made: the tools that record take no lock, and
\* one that found none writes its own over whatever is there by then.
Keeps(p) ==
    LET t == proc[p].tool IN
    ~proc[p].late =>
        /\ file' = [file EXCEPT !.set[t] = file'.set[t]]
        /\ IF t \in Recording
           THEN record[t] = proc[p].kept =>
                    file.set[t] \in {record[t].original, record[t].configured}
           ELSE file \in backups
EditsAreKept == [][\A p \in Active : Replace(p) => Keeps(p)]_vars

\* What a command has set stands, unless its owner, another command of that setting or one
\* whose reading is out of date says otherwise: an owner that was running when the command
\* looked for it cannot come and write back what it had read before (the process checks).
\* With the types.
EditStands == TypeOK /\ \A t \in Places[place] : stands[t] # Unsaid => file.set[t] = stands[t]

=============================================================================
