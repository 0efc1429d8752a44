------------------------------ MODULE TempCleaner ------------------------------
(***************************************************************************)
(* The removal of Steam's old shared-memory files                          *)
(* (scripts/cleanup-steam-temp.py --apply): the files that are old enough  *)
(* are listed, the descriptors of every process are listed and then asked  *)
(* one by one what they are open on, and each listed file that none of     *)
(* them named is looked at once more and removed.                          *)
(*                                                                         *)
(* Processes open, duplicate, inherit, hand over and close files, end,     *)
(* become unreadable, and make new files meanwhile.                        *)
(*                                                                         *)
(* The operators called ...Bug each hold the definition after them with    *)
(* one mistake, for mutation runs.                                         *)
(***************************************************************************)
EXTENDS Naturals, FiniteSets

CONSTANTS
    Holders,        \* processes
    ShmNames,       \* names of shared-memory files
    MaxNumber,      \* bound: descriptors of a process have the numbers 1..MaxNumber
    MaxInode        \* bound: files

VARIABLES
    shm,            \* the inode of each name, 0 for none
    aged,           \* inodes that are old enough, closed or not
    holds,          \* the inode that each descriptor is open on, 0 for none
    hidden,         \* processes whose descriptors cannot be read
    cleaner,
    throughout,     \* per inode, the readable descriptors that name it since the list was made
    swapped,        \* has a name been given to another file between the last look and the removal?
    lost            \* inodes that the cleaner has removed

cleanVars == <<shm, aged, holds, hidden, cleaner, throughout, swapped, lost>>

------------------------------------------------------------------------------
(* Data *)

TempCleanerAssumption == MaxInode \in Nat /\ MaxNumber \in Nat

Inodes == 1..MaxInode

Descriptors == Holders \X (1..MaxNumber)

Of(p) == {d \in Descriptors : d[1] = p}

\* listed: the files that are eligible; scanned: processes whose descriptors were listed;
\* pending: those of the last of them that were not asked yet; opened: what was found open;
\* name: the file that is being removed.
Cleaner == [pc : {"idle", "scan", "remove", "unlink", "end"}, listed : SUBSET (ShmNames \X Inodes),
            scanned : SUBSET Holders, pending : SUBSET Descriptors, opened : SUBSET Inodes,
            name : ShmNames \cup {0}, exit : {"none", "ok", "failed"}]

Used == {shm[name] : name \in ShmNames} \cup {holds[d] : d \in Descriptors} \cup lost \cup aged

CleanInit ==
    /\ shm \in [ShmNames -> 0..MaxInode]
    /\ \A n, m \in ShmNames : n # m /\ shm[n] # 0 => shm[n] # shm[m]
    /\ aged \in SUBSET {shm[name] : name \in ShmNames} /\ 0 \notin aged
    /\ holds \in [Descriptors -> {shm[name] : name \in ShmNames} \cup {0}]
    /\ hidden \in SUBSET Holders /\ Cardinality(hidden) <= 1
    /\ cleaner = [pc |-> "idle", listed |-> {}, scanned |-> {}, pending |-> {}, opened |-> {},
                  name |-> 0, exit |-> "none"]
    /\ throughout = [i \in Inodes |-> {}]
    /\ swapped = FALSE /\ lost = {}

world == <<shm, aged, holds, hidden>>

------------------------------------------------------------------------------
(* clean *)

\* eligible_files: names of the pattern whose files have the mode, owner and age.
List ==
    /\ cleaner.pc = "idle"
    /\ cleaner' = [cleaner EXCEPT !.pc = "scan",
          !.listed = {entry \in ShmNames \X Inodes : shm[entry[1]] = entry[2] /\ entry[2] \in aged}]
    /\ throughout' = [i \in Inodes |-> {d \in Descriptors : holds[d] = i /\ d[1] \notin hidden}]
    /\ UNCHANGED <<world, swapped, lost>>

\* A process that cannot be read is passed over.
ScanBug ==
    /\ cleaner.pc = "scan" /\ cleaner.pending = {}
    /\ \E p \in Holders \ cleaner.scanned :
          cleaner' = [cleaner EXCEPT !.scanned = @ \cup {p},
                !.pending = IF p \in hidden THEN {} ELSE {d \in Of(p) : holds[d] # 0}]
    /\ UNCHANGED <<world, throughout, swapped, lost>>

\* scan_open_inodes, one process after another: its descriptors are listed; a process that cannot
\* be read, and goes on, ends the removal.
Scan ==
    /\ cleaner.pc = "scan" /\ cleaner.pending = {}
    /\ \E p \in Holders \ cleaner.scanned :
          cleaner' = IF p \in hidden THEN [cleaner EXCEPT !.pc = "end", !.exit = "failed"]
                     ELSE [cleaner EXCEPT !.scanned = @ \cup {p},
                                          !.pending = {d \in Of(p) : holds[d] # 0}]
    /\ UNCHANGED <<world, throughout, swapped, lost>>

\* Each of them is asked what it is open on by now; one that is gone, or cannot be read any more,
\* is passed over in silence.
AskDescriptor ==
    /\ cleaner.pc = "scan"
    /\ \E d \in cleaner.pending :
          cleaner' = [cleaner EXCEPT !.pending = @ \ {d},
                !.opened = @ \cup (IF d[1] \in hidden THEN {} ELSE {holds[d]} \ {0})]
    /\ UNCHANGED <<world, throughout, swapped, lost>>

Scanned ==
    /\ cleaner.pc = "scan" /\ cleaner.scanned = Holders /\ cleaner.pending = {}
    /\ cleaner' = [cleaner EXCEPT !.pc = "remove",
          !.listed = {entry \in @ : entry[2] \notin cleaner.opened}]
    /\ UNCHANGED <<world, throughout, swapped, lost>>

\* The second look: a file that is gone is passed over, one that is another ends the removal.
Look ==
    /\ cleaner.pc = "remove"
    /\ \E entry \in cleaner.listed :
          cleaner' =
             IF shm[entry[1]] = 0 THEN [cleaner EXCEPT !.listed = @ \ {entry}]
             ELSE IF shm[entry[1]] # entry[2] THEN [cleaner EXCEPT !.pc = "end", !.exit = "failed"]
             ELSE [cleaner EXCEPT !.pc = "unlink", !.name = entry[1], !.listed = @ \ {entry}]
    /\ UNCHANGED <<world, throughout, swapped, lost>>

\* By its name.
Unlink ==
    /\ cleaner.pc = "unlink"
    /\ lost' = lost \cup ({shm[cleaner.name]} \ {0})
    /\ shm' = [shm EXCEPT ![cleaner.name] = 0]
    /\ cleaner' = IF shm[cleaner.name] = 0 THEN [cleaner EXCEPT !.pc = "end", !.exit = "failed"]
                  ELSE [cleaner EXCEPT !.pc = "remove"]
    /\ UNCHANGED <<aged, holds, hidden, throughout, swapped>>

Cleaned ==
    /\ cleaner.pc = "remove" /\ cleaner.listed = {}
    /\ cleaner' = [cleaner EXCEPT !.pc = "end", !.exit = "ok"]
    /\ UNCHANGED <<world, throughout, swapped, lost>>

------------------------------------------------------------------------------
(* Steam's processes *)

OpenFile ==
    /\ \E d \in Descriptors, name \in ShmNames :
          /\ holds[d] = 0 /\ shm[name] # 0
          /\ holds' = [holds EXCEPT ![d] = shm[name]]
    /\ UNCHANGED <<shm, aged, hidden, cleaner, throughout, swapped, lost>>

\* dup, fork, or a message that carries a descriptor.
HandOver ==
    /\ \E d, e \in Descriptors :
          /\ holds[d] # 0 /\ holds[e] = 0
          /\ holds' = [holds EXCEPT ![e] = holds[d]]
    /\ UNCHANGED <<shm, aged, hidden, cleaner, throughout, swapped, lost>>

CloseFile ==
    /\ \E d \in Descriptors :
          /\ holds[d] # 0
          /\ holds' = [holds EXCEPT ![d] = 0]
          /\ throughout' = [i \in Inodes |-> throughout[i] \ {d}]
    /\ UNCHANGED <<shm, aged, hidden, cleaner, swapped, lost>>

\* A process, in the middle of the scan, makes its descriptors unreadable for others (one at a time
\* is, as at the beginning).
Hide ==
    /\ hidden = {} /\ cleaner.pc = "scan"
    /\ \E p \in Holders :
          /\ hidden' = {p}
          /\ throughout' = [i \in Inodes |-> throughout[i] \ Of(p)]
    /\ UNCHANGED <<shm, aged, holds, cleaner, swapped, lost>>

\* Steam removes a name, or makes a new file under one that is free.
RemoveName ==
    /\ \E name \in ShmNames : shm[name] # 0 /\ shm' = [shm EXCEPT ![name] = 0]
    /\ UNCHANGED <<aged, holds, hidden, cleaner, throughout, swapped, lost>>

MakeFile ==
    /\ \E name \in ShmNames, d \in Descriptors, i \in Inodes \ Used :
          /\ shm[name] = 0 /\ holds[d] = 0
          /\ shm' = [shm EXCEPT ![name] = i]
          /\ holds' = [holds EXCEPT ![d] = i]
          /\ swapped' = (swapped \/ (cleaner.pc = "unlink" /\ cleaner.name = name))
    /\ UNCHANGED <<aged, hidden, cleaner, throughout, lost>>

CleanNext ==
    \/ List \/ Scan \/ AskDescriptor \/ Scanned \/ Look \/ Unlink \/ Cleaned
    \/ OpenFile \/ HandOver \/ CloseFile \/ Hide \/ RemoveName \/ MakeFile

CleanSpec == CleanInit /\ [][CleanNext]_cleanVars

------------------------------------------------------------------------------
(* Properties *)

\* What is removed was old, and no descriptor that could be read named it all the time since the
\* list was made, though other descriptors are opened, duplicated and closed during the scan;
\* unless a new file got the name between the last look and the removal.  A file in use may well
\* be removed (RemovesClosed): one that is only opened after its list or its process was read,
\* that goes to another number or process meanwhile, or whose process cannot be read any more.
RemovesUnused == \A i \in lost : swapped \/ (i \in aged /\ throughout[i] = {})

\* "Remove only closed, aged, exact-name Steam shared-memory files": what the tool says of itself,
\* of the moment at which it removes a name.
RemovesClosed ==
    [][\A i \in lost' \ lost : i \in aged /\ \A d \in Descriptors : holds[d] # i]_cleanVars

===============================================================================
