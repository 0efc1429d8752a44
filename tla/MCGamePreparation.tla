-------------------------- MODULE MCGamePreparation --------------------------
(* What is prepared before a game is started: the settings files (SettingsEdit), the files  *)
(* of Proton and of the game (ProtonFiles), the packages of Termux (DependencySetup), the   *)
(* seed of the client (SeedDownload), the tree of the runtime (DirectRoot), the internal    *)
(* cache of DXVK (DxvkSeed) and the shared-memory files of old sessions (TempCleaner).      *)
(* None of them touches the files of another, so that a behaviour is one of one of them.    *)
EXTENDS Naturals, TLC

CONSTANTS Procs, Values, None, Other, NoRender, Unsaid, MaxSessions, MaxEdits,
          Targets, Reviewed, MaxRuns, MaxUpdates,
          FirstPackage, OtherPackages, MaxTurns,
          MaxFiles, MaxKills,
          Games, MaxVersion,
          CacheNames, MaxSeedUpsets,
          ShmNames, MaxNumber, MaxInode

VARIABLES
    part,
    place, file, record, owner, sessions, stands,               \* SettingsEdit
    version, exe, state, nms, steam, updates, torn,             \* ProtonFiles
    backups, proc, runs,                                        \* each of these two
    present, profile, transaction, receipt, setup, first, added, dropped, turns,
    lock, entry, content, seed, installer, kills, alone,        \* SeedDownload
    shipped, roots, current, common, prep, bent, culls,         \* DirectRoot
    source, live, stray, manifest, seeder, mixed, upsets,       \* DxvkSeed
    shm, aged, holds, hidden, cleaner, throughout, swapped, lost    \* TempCleaner

\* The profile has two groups; the packages of the first one bring the others within reach.
Groups == <<{FirstPackage}, OtherPackages>>

Settings == INSTANCE SettingsEdit WITH MaxRuns <- MaxEdits
Proton == INSTANCE ProtonFiles
Dependencies == INSTANCE DependencySetup
Download == INSTANCE SeedDownload WITH Installers <- Procs
Root == INSTANCE DirectRoot WITH Preparers <- Procs
Cache == INSTANCE DxvkSeed WITH Seeders <- Procs, MaxFaults <- MaxSeedUpsets
Clean == INSTANCE TempCleaner WITH Holders <- Procs

ASSUME PreparationAssumption ==
    /\ Settings!SettingsEditAssumption /\ Proton!ProtonFilesAssumption
    /\ Dependencies!DependencySetupAssumption /\ Download!SeedDownloadAssumption
    /\ Root!DirectRootAssumption /\ Cache!DxvkSeedAssumption /\ Clean!TempCleanerAssumption

onlySettings == <<place, file, record, owner, sessions, stands>>
onlyProton == <<version, exe, state, nms, steam, updates, torn>>
both == <<backups, proc, runs>>
dependencies == <<present, profile, transaction, receipt, setup, first, added, dropped, turns>>
download == <<lock, entry, content, seed, installer, kills, alone>>
root == <<shipped, roots, current, common, prep, bent, culls>>
cache == <<source, live, stray, manifest, seeder, mixed, upsets>>
clean == <<shm, aged, holds, hidden, cleaner, throughout, swapped, lost>>
preparationVars ==
    <<part, onlySettings, onlyProton, both, dependencies, download, root, cache, clean>>

NoProton ==
    /\ version = None /\ exe = None /\ state = None /\ nms = None /\ steam = None
    /\ updates = None /\ torn = None
NoSettings ==
    /\ place = None /\ file = None /\ record = None /\ owner = None /\ sessions = None
    /\ stands = None
NoBoth == backups = None /\ proc = None /\ runs = None
NoDependencies ==
    /\ present = None /\ profile = None /\ transaction = None /\ receipt = None /\ setup = None
    /\ first = None /\ added = None /\ dropped = None /\ turns = None
NoDownload ==
    /\ lock = None /\ entry = None /\ content = None /\ seed = None /\ installer = None
    /\ kills = None /\ alone = None
NoRoot ==
    /\ shipped = None /\ roots = None /\ current = None /\ common = None /\ prep = None
    /\ bent = None /\ culls = None

NoCache ==
    /\ source = None /\ live = None /\ stray = None /\ manifest = None /\ seeder = None
    /\ mixed = None /\ upsets = None
NoClean ==
    /\ shm = None /\ aged = None /\ holds = None /\ hidden = None /\ cleaner = None
    /\ throughout = None /\ swapped = None /\ lost = None

PreparationInit ==
    /\ part \in {"settings", "proton", "dependencies", "download", "root", "cache", "clean"}
    /\ IF part = "settings" THEN Settings!Init ELSE NoSettings
    /\ IF part = "proton" THEN Proton!Init ELSE NoProton
    /\ IF part \in {"settings", "proton"} THEN TRUE ELSE NoBoth
    /\ IF part = "dependencies" THEN Dependencies!DependencyInit ELSE NoDependencies
    /\ IF part = "download" THEN Download!DownloadInit ELSE NoDownload
    /\ IF part = "root" THEN Root!RootInit ELSE NoRoot
    /\ IF part = "cache" THEN Cache!SeedInit ELSE NoCache
    /\ IF part = "clean" THEN Clean!CleanInit ELSE NoClean

PreparationNext ==
    /\ UNCHANGED part
    /\ \/ /\ part = "settings" /\ Settings!Next
          /\ UNCHANGED <<onlyProton, dependencies, download, root, cache, clean>>
       \/ /\ part = "proton" /\ Proton!Next
          /\ UNCHANGED <<onlySettings, dependencies, download, root, cache, clean>>
       \/ /\ part = "dependencies" /\ Dependencies!DependencyNext
          /\ UNCHANGED <<onlySettings, onlyProton, both, download, root, cache, clean>>
       \/ /\ part = "download" /\ Download!DownloadNext
          /\ UNCHANGED <<onlySettings, onlyProton, both, dependencies, root, cache, clean>>
       \/ /\ part = "root" /\ Root!RootNext
          /\ UNCHANGED <<onlySettings, onlyProton, both, dependencies, download, cache, clean>>
       \/ /\ part = "cache" /\ Cache!SeedNext
          /\ UNCHANGED <<onlySettings, onlyProton, both, dependencies, download, root, clean>>
       \/ /\ part = "clean" /\ Clean!CleanNext
          /\ UNCHANGED <<onlySettings, onlyProton, both, dependencies, download, root, cache>>

PreparationSpec == PreparationInit /\ [][PreparationNext]_preparationVars

Symmetry == Permutations(Procs)

\* SettingsEdit!EditStands: what a command has set stands, unless somebody entitled says
\* otherwise.
EditStands == part = "settings" => Settings!EditStands

\* ProtonFiles!OriginalsKept: what Steam installed last can be had again.
OriginalsKept == part = "proton" => Proton!OriginalsKept

\* SettingsEdit!EditsAreKept and ProtonFiles!EndIsWhole: what a command replaces can be had
\* again, it changes only its own setting; and a command that ends well has done all it says,
\* but for an executable that Steam wrote between the digest and the identities (EndsPrepared).
EndIsWhole ==
    [][/\ part = "settings" => \A p \in Settings!Active : Settings!Replace(p) => Settings!Keeps(p)
       /\ part = "proton" => \A p \in Proton!Active : Proton!WholeIfEnds(p)]_preparationVars

\* DependencySetup!DependenciesTold, SeedDownload!DownloadTells, DirectRoot!RootServes,
\* DxvkSeed!CacheSeeded, TempCleaner!RemovesUnused: the receipt tells what the setup has added;
\* downloads that are not killed leave no partial file, and the seed is whole; the tree that
\* launches use is whole and has the games' directories; a cache with a manifest is whole; no old
\* file is removed that one readable descriptor has named since the list was made.
PreparedWell ==
    /\ part = "dependencies" => Dependencies!DependenciesTold
    /\ part = "download" => Download!DownloadTells
    /\ part = "root" => Root!RootServes
    /\ part = "cache" => Cache!CacheSeeded
    /\ part = "clean" => Clean!RemovesUnused
=============================================================================
