---------------------------- MODULE RuntimeInstall ----------------------------
(***************************************************************************)
(* The five locked runtime installers, scripts/install-{proot,glibc,       *)
(* turnip,tgcompat,debian}-runtime.py.  Each verifies its inputs against a *)
(* lock file, builds or unpacks into a staging directory of a random name, *)
(* writes a receipt there, renames the directory into place and validates  *)
(* it.  They differ in four traits, given by the operators below: the      *)
(* model chooses one of the five at the start.                             *)
(*                                                                         *)
(* Runs of the installer may be concurrent, of different lock files, and   *)
(* fail or be killed at every step.                                        *)
(*                                                                         *)
(* The operators called ...Bug each hold the definition after them with    *)
(* one mistake, for mutation runs.                                         *)
(***************************************************************************)
EXTENDS Naturals

CONSTANTS
    InstallerProcs, \* processes that run the installer, again and again
    Versions,       \* what lock files pin
    FixedPath,      \* a path that does not name a version
    Missing,        \* nothing there
    Spoilt,         \* an archive that no lock file pins
    MaxInstallFaults    \* bound: failed steps and kills

VARIABLES
    kind,           \* the installer
    meddling,       \* may inputs change in use, and installations be edited or removed?
    dest,           \* the installations
    current,        \* the selector: a symbolic link to an installation
    cache,          \* the archives kept
    holder,         \* the process that has the installer's flock
    progress, version, stage,   \* per process
    installFaults

installVars == <<kind, meddling, dest, current, cache, holder, progress, version, stage,
                installFaults>>

------------------------------------------------------------------------------
(* Data *)

Kinds == {"proot", "glibc", "turnip", "tgcompat", "debian"}

\* Installers that hold a flock on a file of theirs.
Locked == kind \in {"proot", "glibc", "debian"}

\* Those that name the installation after its version and select one.
Selected == kind \in {"glibc", "tgcompat"}

\* Those that keep the archive they install from.
Cached == kind \in {"glibc", "turnip", "debian"}

\* Those that copy into the cache from a file they were given.
Copies == kind \in {"glibc", "debian"}

Paths == Versions \cup {FixedPath}

Path(v) == IF Selected THEN v ELSE FixedPath

\* The lock of glibc names the same file, whatever it pins.
Slot(v) == IF kind = "glibc" THEN FixedPath ELSE v

\* whole: everything the lock asks for, and the receipt; edited: changed since.
Trees == [version : Versions, whole : BOOLEAN, edited : BOOLEAN]

ASSUME RuntimeInstallAssumption ==
    /\ FixedPath \notin Versions
    /\ Missing \notin Versions \cup {FixedPath} \cup InstallerProcs \cup Trees
    /\ Spoilt \notin Versions \cup {Missing}
    /\ MaxInstallFaults \in Nat

Fresh(v) == [version |-> v, whole |-> TRUE, edited |-> FALSE]

Partial(v) == [version |-> v, whole |-> FALSE, edited |-> FALSE]

InstallerSteps == {"idle", "acquire", "cache", "fetch", "look", "build", "stage", "rename",
          "validate", "select", "finish", "fail"}

\* validate_install of the process's lock file.
Valid(p) ==
    LET tree == dest[Path(version[p])] IN
    /\ tree # Missing
    /\ tree = Fresh(version[p])
    /\ Copies => cache[Slot(version[p])] = version[p]

InitialInstall ==
    /\ kind \in Kinds /\ meddling \in BOOLEAN
    /\ dest = [x \in Paths |-> Missing]
    /\ current = Missing
    /\ cache = [x \in Paths |-> Missing]
    /\ holder = Missing
    /\ progress = [p \in InstallerProcs |-> "idle"]
    /\ version \in [InstallerProcs -> Versions]
    /\ stage = [p \in InstallerProcs |-> Missing]
    /\ installFaults = 0

InstallerAt(p, step) == progress[p] = step

InstallerGoto(p, step) == progress' = [progress EXCEPT ![p] = step]

------------------------------------------------------------------------------
(* Steps of an installer *)

\* A new run, with some lock file; its staging name is new.
BeginInstall(p) ==
    /\ InstallerAt(p, "idle")
    /\ \E v \in Versions : version' = [version EXCEPT ![p] = v]
    /\ stage' = [stage EXCEPT ![p] = Missing]
    /\ InstallerGoto(p, IF Locked THEN "acquire" ELSE IF Cached THEN "cache" ELSE "look")
    /\ UNCHANGED <<kind, meddling, dest, current, cache, holder, installFaults>>

Acquire(p) ==
    /\ InstallerAt(p, "acquire")
    /\ holder = Missing
    /\ holder' = p
    /\ InstallerGoto(p, IF Cached THEN "cache" ELSE "look")
    /\ UNCHANGED <<kind, meddling, dest, current, cache, version, stage, installFaults>>

\* An archive in the cache is verified, and not fetched again.
LookInCache(p) ==
    /\ InstallerAt(p, "cache")
    /\ LET archive == cache[Slot(version[p])] IN
       InstallerGoto(p, IF archive = Missing THEN "fetch"
               ELSE IF archive = version[p] THEN "look" ELSE "fail")
    /\ UNCHANGED <<kind, meddling, dest, current, cache, holder, version, stage, installFaults>>

\* Written under its own name; a run that is killed leaves a part of it.
FetchBug(p) ==
    /\ InstallerAt(p, "fetch")
    /\ \/ /\ cache' = [cache EXCEPT ![Slot(version[p])] = version[p]]
          /\ InstallerGoto(p, "look") /\ UNCHANGED <<installFaults, holder>>
       \/ /\ installFaults < MaxInstallFaults /\ installFaults' = installFaults + 1
          /\ cache' = [cache EXCEPT ![Slot(version[p])] = Spoilt]
          /\ InstallerGoto(p, "idle") /\ holder' = Missing
    /\ UNCHANGED <<kind, meddling, dest, current, version, stage>>

\* Downloaded or copied under a random name, then renamed.  A download is verified
\* before that; a copied file was verified before it was copied.
Fetch(p) ==
    /\ InstallerAt(p, "fetch")
    /\ \/ /\ cache' = [cache EXCEPT ![Slot(version[p])] = version[p]]
          /\ InstallerGoto(p, "look")
       \/ /\ meddling /\ Copies
          /\ cache' = [cache EXCEPT ![Slot(version[p])] = Spoilt]
          /\ InstallerGoto(p, IF kind = "debian" THEN "fail" ELSE "look")
    /\ UNCHANGED <<kind, meddling, dest, current, holder, version, stage, installFaults>>

\* An installation is taken on trust.
LookAtPathBug(p) ==
    /\ InstallerAt(p, "look")
    /\ InstallerGoto(p, IF dest[Path(version[p])] = Missing THEN "build"
               ELSE IF Selected THEN "select" ELSE "finish")
    /\ UNCHANGED <<kind, meddling, dest, current, cache, holder, version, stage, installFaults>>

LookAtPath(p) ==
    /\ InstallerAt(p, "look")
    /\ InstallerGoto(p, IF dest[Path(version[p])] = Missing THEN "build" ELSE "validate")
    /\ UNCHANGED <<kind, meddling, dest, current, cache, holder, version, stage, installFaults>>

Build(p) ==
    /\ InstallerAt(p, "build")
    /\ stage' = [stage EXCEPT ![p] = Partial(version[p])]
    /\ InstallerGoto(p, "stage")
    /\ UNCHANGED <<kind, meddling, dest, current, cache, holder, version, installFaults>>

\* The staged tree is checked and gets its receipt; what was built from a spoilt
\* archive does not pass.
Stage(p) ==
    /\ InstallerAt(p, "stage")
    /\ IF Cached => cache[Slot(version[p])] = version[p]
       THEN stage' = [stage EXCEPT ![p] = Fresh(version[p])] /\ InstallerGoto(p, "rename")
       ELSE InstallerGoto(p, "fail") /\ UNCHANGED stage
    /\ UNCHANGED <<kind, meddling, dest, current, cache, holder, version, installFaults>>

\* rename does not replace a directory that has something in it.
RenameBug(p) ==
    /\ InstallerAt(p, "rename")
    /\ dest' = [dest EXCEPT ![Path(version[p])] = stage[p]]
    /\ stage' = [stage EXCEPT ![p] = Missing]
    /\ InstallerGoto(p, "validate")
    /\ UNCHANGED <<kind, meddling, current, cache, holder, version, installFaults>>

Rename(p) ==
    /\ InstallerAt(p, "rename")
    /\ IF dest[Path(version[p])] = Missing
       THEN /\ dest' = [dest EXCEPT ![Path(version[p])] = stage[p]]
            /\ stage' = [stage EXCEPT ![p] = Missing]
            /\ InstallerGoto(p, "validate")
       ELSE InstallerGoto(p, "fail") /\ UNCHANGED <<dest, stage>>
    /\ UNCHANGED <<kind, meddling, current, cache, holder, version, installFaults>>

Validate(p) ==
    /\ InstallerAt(p, "validate")
    /\ InstallerGoto(p, IF ~Valid(p) THEN "fail" ELSE IF Selected THEN "select" ELSE "finish")
    /\ UNCHANGED <<kind, meddling, dest, current, cache, holder, version, stage, installFaults>>

Dangling == current # Missing /\ dest[current] = Missing

\* update_selector refuses to replace a link to what is not there any more.
Select(p) ==
    /\ InstallerAt(p, "select")
    /\ IF Dangling THEN InstallerGoto(p, "fail") /\ UNCHANGED current
       ELSE InstallerGoto(p, "finish") /\ current' = Path(version[p])
    /\ UNCHANGED <<kind, meddling, dest, cache, holder, version, stage, installFaults>>

Release(p) == holder' = IF holder = p THEN Missing ELSE holder

Finish(p) ==
    /\ InstallerAt(p, "finish")
    /\ InstallerGoto(p, "idle")
    /\ Release(p)
    /\ UNCHANGED <<kind, meddling, dest, current, cache, version, stage, installFaults>>

\* The Turnip installer does not remove what it staged.
FailInstall(p) ==
    /\ InstallerAt(p, "fail")
    /\ InstallerGoto(p, "idle")
    /\ stage' = IF kind = "turnip" THEN stage ELSE [stage EXCEPT ![p] = Missing]
    /\ Release(p)
    /\ UNCHANGED <<kind, meddling, dest, current, cache, version, installFaults>>

------------------------------------------------------------------------------
(* Faults, and the owner *)

\* A command, a read or a write of the step fails.
Break(p) ==
    /\ progress[p] \notin {"idle", "acquire", "finish", "fail"}
    /\ installFaults < MaxInstallFaults
    /\ installFaults' = installFaults + 1
    /\ InstallerGoto(p, "fail")
    /\ UNCHANGED <<kind, meddling, dest, current, cache, holder, version, stage>>

\* The kernel releases the flock; a staging directory stays.
KillInstaller(p) ==
    /\ progress[p] # "idle"
    /\ installFaults < MaxInstallFaults
    /\ installFaults' = installFaults + 1
    /\ InstallerGoto(p, "idle")
    /\ Release(p)
    /\ UNCHANGED <<kind, meddling, dest, current, cache, version, stage>>

\* apt in the container, a debugger in the source tree, ...
Edit(x) ==
    /\ meddling
    /\ dest[x] # Missing
    /\ dest' = [dest EXCEPT ![x] = [version |-> dest[x].version, whole |-> dest[x].whole,
                                    edited |-> TRUE]]
    /\ UNCHANGED <<kind, meddling, current, cache, holder, progress, version, stage, installFaults>>

\* The owner makes room for an installer that refused, when none runs.
Remove(x) ==
    /\ meddling
    /\ \A p \in InstallerProcs : progress[p] = "idle"
    /\ dest[x] # Missing
    /\ dest' = [dest EXCEPT ![x] = Missing]
    /\ UNCHANGED <<kind, meddling, current, cache, holder, progress, version, stage, installFaults>>

InstallerStep(p) ==
    \/ Acquire(p) \/ LookInCache(p) \/ Fetch(p) \/ LookAtPath(p) \/ Build(p) \/ Stage(p)
    \/ Rename(p) \/ Validate(p) \/ Select(p) \/ Finish(p) \/ FailInstall(p)

InstallNext ==
    \/ \E p \in InstallerProcs : BeginInstall(p) \/ InstallerStep(p) \/ Break(p) \/ KillInstaller(p)
    \/ \E x \in Paths : Edit(x) \/ Remove(x)

InstallSpec == InitialInstall /\ [][InstallNext]_installVars

\* A process that runs is scheduled, and runs are made again.
InstallFairSpec ==
    /\ InstallSpec
    /\ \A p \in InstallerProcs : WF_installVars(InstallerStep(p)) /\ WF_installVars(BeginInstall(p))

------------------------------------------------------------------------------
(* Properties *)

InstallTypeOK ==
    /\ kind \in Kinds /\ meddling \in BOOLEAN
    /\ dest \in [Paths -> Trees \cup {Missing}]
    /\ current \in Versions \cup {Missing}
    /\ cache \in [Paths -> Versions \cup {Spoilt, Missing}]
    /\ holder \in InstallerProcs \cup {Missing}
    /\ progress \in [InstallerProcs -> InstallerSteps]
    /\ version \in [InstallerProcs -> Versions]
    /\ stage \in [InstallerProcs -> Trees \cup {Missing}]
    /\ installFaults \in 0..MaxInstallFaults

\* The installers with a flock never build what another run has put in place
\* meanwhile: a build of half an hour is not thrown away at the rename.
BuiltOnce ==
    \A p \in InstallerProcs : Locked /\ progress[p] \in {"build", "stage", "rename"} =>
        dest[Path(version[p])] = Missing

\* A run that reports success leaves its own version installed, whole; and, where
\* runs exclude each other, selected.
ReadyIsInstalled ==
    \A p \in InstallerProcs : InstallerAt(p, "finish") =>
        /\ dest[Path(version[p])] # Missing
        /\ dest[Path(version[p])].version = version[p] /\ dest[Path(version[p])].whole
        /\ Locked /\ Selected => current = version[p]

\* Only the Turnip installer leaves a staging directory behind when it fails; and a
\* run that succeeds leaves none.
StagingRemoved ==
    [][\A p \in InstallerProcs :
           /\ progress[p] \in {"finish", "fail"} /\ progress'[p] = "idle"
           /\ installFaults' = installFaults
           => stage'[p] = Missing \/ (kind = "turnip" /\ progress[p] = "fail")]_installVars

\* The installers implement the promise of RuntimeStore.
Store == INSTANCE RuntimeStore WITH None <- Missing, Whole <- {Fresh(v) : v \in Versions}

ImplementsStore == Store!Spec

\* An installation or an archive of another version is in the way: installers refuse, and
\* leave it to the owner to remove it.
InTheWay(v) ==
    \/ dest[Path(v)] # Missing /\ dest[Path(v)].version # v
    \/ cache[Slot(v)] \in Versions \ {v}

\* With nobody meddling, no failure and no kill, wherever it strikes, and no run of another
\* lock file, keeps later runs of one lock file from installing it.
Installs ==
    ~meddling => \A v \in Versions :
        <>[][\A p \in InstallerProcs : BeginInstall(p) => version'[p] = v]_installVars
            => <>[](InTheWay(v) \/ (dest[Path(v)] = Fresh(v) /\ (Selected => current = v)))

==============================================================================
