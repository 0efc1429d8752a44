------------------------------- MODULE DxvkSeed -------------------------------
(***************************************************************************)
(* The state cache of DXVK in internal storage                             *)
(* (scripts/prepare-dxvk-state-cache.py prepare): each file of the cache   *)
(* in the game's prefix is copied and renamed, and then a manifest of them *)
(* is written; a cache that has a manifest is used as it is, and one       *)
(* without is refused unless it is empty.                                  *)
(*                                                                         *)
(* A lock is held by one run at a time; runs are killed; games write the   *)
(* cache of the prefix and, once a run has ended well, the internal one.   *)
(*                                                                         *)
(* The operators called ...Bug each hold the definition after them with    *)
(* one mistake, for mutation runs.                                         *)
(***************************************************************************)
EXTENDS Naturals, FiniteSets

CONSTANTS
    Seeders, CacheNames,
    None,
    MaxFaults       \* bound: runs that are killed, files that others write or remove

VARIABLES
    source,         \* the files in the prefix: the version of each, 0 for none
    live,           \* those in internal storage; 1..: a version, Mixed: parts of two
    stray,          \* are there temporary files of killed runs?
    manifest,       \* seed.json: the files it names, with what they held
    seeder,         \* the runs
    mixed,          \* has a file changed while it was copied?
    upsets

seedVars == <<source, live, stray, manifest, seeder, mixed, upsets>>

------------------------------------------------------------------------------
(* Data *)

\* records: what the run has copied; found: what it has to copy.
Seeder == [pc : {"idle", "copy", "rename", "write", "validate"}, records : SUBSET (CacheNames \X Nat),
           found : SUBSET CacheNames, name : CacheNames \cup {None}, read : Nat,
           exit : {"none", "seeded", "reused", "failed"}]

Resting == [pc |-> "idle", records |-> {}, found |-> {}, name |-> None, read |-> 0, exit |-> "none"]

Mixed == MaxFaults + 2

DxvkSeedAssumption ==
    MaxFaults \in Nat /\ \A files \in SUBSET (CacheNames \X (1..Mixed)) : files # None

SeedInit ==
    /\ source \in [CacheNames -> {0, 1}]
    /\ live = [name \in CacheNames |-> 0]
    /\ stray = FALSE /\ manifest = None
    /\ seeder = [p \in Seeders |-> Resting]
    /\ mixed = FALSE /\ upsets = 0

There(files) == {name \in CacheNames : files[name] # 0}

\* flock(LOCK_EX | LOCK_NB): who does not get the lock fails.
Locked == \E p \in Seeders : seeder[p].pc # "idle"

End(p, exit) == seeder' = [seeder EXCEPT ![p] = [Resting EXCEPT !.exit = exit]]

\* validate_live: from one file to so many, and nothing else.
Sound == There(live) # {} /\ ~stray

------------------------------------------------------------------------------
(* prepare *)

\* Files without a manifest are taken for a cache.
BeginBug(p) ==
    /\ ~Locked
    /\ IF manifest # None \/ There(live) # {} \/ stray
       THEN End(p, IF Sound THEN "reused" ELSE "failed")
       ELSE IF There(source) = {} THEN End(p, "failed")
       ELSE seeder' = [seeder EXCEPT ![p] = [Resting EXCEPT !.pc = "copy", !.found = There(source)]]
    /\ UNCHANGED <<source, live, stray, manifest, mixed, upsets>>

Begin(p) ==
    /\ ~Locked
    /\ IF manifest # None \/ There(live) # {} \/ stray
       THEN End(p, IF manifest # None /\ Sound THEN "reused" ELSE "failed")
       ELSE IF There(source) = {} THEN End(p, "failed")
       ELSE seeder' = [seeder EXCEPT ![p] = [Resting EXCEPT !.pc = "copy", !.found = There(source)]]
    /\ UNCHANGED <<source, live, stray, manifest, mixed, upsets>>

Refused(p) ==
    /\ Locked /\ seeder[p].pc = "idle"
    /\ End(p, "failed")
    /\ UNCHANGED <<source, live, stray, manifest, mixed, upsets>>

\* The next file is checked and opened; a file that is gone or not sound ends the run.
Copy(p) ==
    /\ seeder[p].pc = "copy" /\ seeder[p].found # {}
    /\ \E name \in seeder[p].found :
          \/ source[name] = 0 /\ End(p, "failed")
          \/ /\ source[name] # 0
             /\ seeder' = [seeder EXCEPT ![p].pc = "rename", ![p].name = name,
                                         ![p].found = @ \ {name}, ![p].read = source[name]]
    /\ UNCHANGED <<source, live, stray, manifest, mixed, upsets>>

\* A file that changed while it was copied is refused only if its size is another.
Rename(p) ==
    /\ seeder[p].pc = "rename"
    /\ LET name == seeder[p].name
           changed == source[name] # seeder[p].read
           copied == IF changed THEN Mixed ELSE seeder[p].read
       IN \/ changed /\ End(p, "failed") /\ UNCHANGED <<live, mixed>>
          \/ /\ live' = [live EXCEPT ![name] = copied]
             /\ mixed' = (mixed \/ changed)
             /\ seeder' = [seeder EXCEPT ![p].pc = "copy", ![p].records = @ \cup {<<name, copied>>}]
    /\ UNCHANGED <<source, stray, manifest, upsets>>

WriteManifest(p) ==
    /\ seeder[p].pc = "copy" /\ seeder[p].found = {}
    /\ manifest' = seeder[p].records
    /\ seeder' = [seeder EXCEPT ![p].pc = "validate"]
    /\ UNCHANGED <<source, live, stray, mixed, upsets>>

Validate(p) ==
    /\ seeder[p].pc = "validate"
    /\ End(p, IF Sound THEN "seeded" ELSE "failed")
    /\ UNCHANGED <<source, live, stray, manifest, mixed, upsets>>

------------------------------------------------------------------------------
(* The rest *)

Upset == upsets < MaxFaults /\ upsets' = upsets + 1

\* Between the creation of a temporary file and its rename, that file stays.
Killed(p) ==
    /\ Upset /\ seeder[p].pc # "idle"
    /\ stray' = (stray \/ seeder[p].pc = "rename")
    /\ seeder' = [seeder EXCEPT ![p] = Resting]
    /\ UNCHANGED <<source, live, manifest, mixed>>

\* A game that was started without the internal cache.
SourceChanges ==
    /\ Upset
    /\ \E name \in CacheNames : source' = [source EXCEPT ![name] = upsets + 2]
    /\ UNCHANGED <<live, stray, manifest, seeder, mixed>>

\* A game writes the internal cache when a run has ended well for it.
LiveChanges ==
    /\ Upset /\ \E p \in Seeders : seeder[p].exit \in {"seeded", "reused"}
    /\ \E name \in CacheNames : live' = [live EXCEPT ![name] = upsets + 2]
    /\ UNCHANGED <<source, stray, manifest, seeder, mixed>>

SeedNext ==
    \/ \E p \in Seeders :
          \/ Begin(p) \/ Refused(p) \/ Copy(p) \/ Rename(p) \/ WriteManifest(p) \/ Validate(p)
          \/ Killed(p)
    \/ SourceChanges \/ LiveChanges

------------------------------------------------------------------------------
(* Properties *)

\* The manifest is written over a whole cache: it names at least one file, each of them is
\* there, and it holds one version unless it changed in the copying; and a run ends well only
\* with a manifest, whatever killed runs have left.
CacheSeeded ==
    /\ manifest # None =>
          /\ manifest # {}
          /\ \A entry \in manifest : live[entry[1]] # 0 /\ (entry[2] = Mixed => mixed)
    /\ \A p \in Seeders : seeder[p].exit \in {"seeded", "reused"} => manifest # None

===============================================================================
