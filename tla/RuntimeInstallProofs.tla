------------------------- MODULE RuntimeInstallProofs -------------------------
(***************************************************************************)
(* Proofs about the runtime installers, for any number of processes and    *)
(* lock files.  The inductive invariant Ind says who may be where while    *)
(* the flock is held, what a staging directory holds at each step, and     *)
(* what a run that has validated its installation still relies on.         *)
(***************************************************************************)
EXTENDS RuntimeInstall, TLAPS

\* Past the flock, a process holds it.
HolderInv ==
    \A p \in InstallerProcs : Locked /\ progress[p] \notin {"idle", "acquire"} => holder = p

\* What is about to be renamed is whole, and of the run's version; before and after
\* the staging a run has no staging directory.
StageInv ==
    \A p \in InstallerProcs :
        /\ InstallerAt(p, "rename") => stage[p] = Fresh(version[p])
        /\ progress[p] \notin {"idle", "stage", "rename", "fail"} => stage[p] = Missing

DestInv == \A x \in Paths : dest[x] # Missing => dest[x].whole

\* What a run has validated stays: nothing but its owner removes an installation,
\* and he only does with no run at work.
ValidInv ==
    \A p \in InstallerProcs :
        /\ InstallerAt(p, "select") => Selected
        /\ progress[p] \in {"select", "finish"} =>
              /\ dest[Path(version[p])] # Missing
              /\ dest[Path(version[p])].version = version[p]

CurrentInv ==
    \A p \in InstallerProcs : InstallerAt(p, "finish") /\ Locked /\ Selected => current = version[p]

Ind == InstallTypeOK /\ HolderInv /\ StageInv /\ DestInv /\ ValidInv /\ CurrentInv /\ BuiltOnce

USE RuntimeInstallAssumption

-------------------------------------------------------------------------------

\* A path is one of Paths, whatever the installer.
LEMMA PathInPaths == \A v \in Versions : Path(v) \in Paths /\ Slot(v) \in Paths
  BY DEF Path, Slot, Paths

LEMMA FreshIsTree ==
  \A v \in Versions : Fresh(v) \in Trees /\ Fresh(v).whole /\ Fresh(v).version = v
  BY DEF Fresh, Trees

\* The initial states satisfy the invariant: nothing is installed and nobody runs.
LEMMA InitInd == InitialInstall => Ind
<1> SUFFICES ASSUME InitialInstall PROVE Ind
  OBVIOUS
<1>1. InstallTypeOK
  BY DEF InitialInstall, InstallTypeOK, Kinds, Paths, InstallerSteps
<1>2. \A p \in InstallerProcs : progress[p] = "idle"
  BY DEF InitialInstall
<1>3. HolderInv /\ StageInv /\ ValidInv /\ CurrentInv /\ BuiltOnce
  BY <1>2 DEF HolderInv, StageInv, ValidInv, CurrentInv, BuiltOnce, InstallerAt
<1>4. DestInv
  BY DEF InitialInstall, DestInv
<1> QED
  BY <1>1, <1>3, <1>4 DEF Ind

\* What a step of p does to the steps of the others: nothing.
LEMMA OthersStay ==
    ASSUME InstallTypeOK, NEW p \in InstallerProcs, NEW step \in InstallerSteps,
      InstallerGoto(p, step)
    PROVE  /\ progress' \in [InstallerProcs -> InstallerSteps]
           /\ progress'[p] = step
           /\ \A q \in InstallerProcs \ {p} : progress'[q] = progress[q]
  BY DEF InstallTypeOK, InstallerGoto

\* Steps that change nothing but where p is, and lead neither past the flock nor to
\* a place with a claim of its own.
LEMMA MoveOn ==
    ASSUME Ind, NEW p \in InstallerProcs, NEW step \in {"cache", "fetch", "look", "build",
                                                     "validate", "fail"},
           progress[p] \notin {"idle", "acquire"}, InstallerGoto(p, step),
           step = "build" => dest[Path(version[p])] = Missing,
           step = "fail" \/ progress[p] \notin {"stage", "rename", "fail"},
           UNCHANGED <<kind, meddling, dest, current, holder, version, stage>>,
           cache' \in [Paths -> Versions \cup {Spoilt, Missing}],
             installFaults' \in 0..MaxInstallFaults
    PROVE  Ind'
<1>1. /\ progress' \in [InstallerProcs -> InstallerSteps] /\ progress'[p] = step
      /\ \A q \in InstallerProcs \ {p} : progress'[q] = progress[q]
  BY OthersStay DEF Ind, InstallerSteps
<1>2. InstallTypeOK'
  BY <1>1 DEF Ind, InstallTypeOK
<1>3. HolderInv'
  BY <1>1 DEF Ind, HolderInv, Locked
<1>4. StageInv' /\ CurrentInv'
  BY <1>1 DEF Ind, StageInv, CurrentInv, InstallerAt, Fresh, Locked, Selected
<1>5. DestInv'
  BY DEF Ind, DestInv
<1>6. ValidInv' /\ BuiltOnce'
  BY <1>1 DEF Ind, ValidInv, BuiltOnce, InstallerAt, Path, Locked, Selected
<1> QED
  BY <1>2, <1>3, <1>4, <1>5, <1>6 DEF Ind

LEMMA BeginInd == ASSUME Ind, NEW p \in InstallerProcs, BeginInstall(p) PROVE Ind'
<1>1. PICK step \in {"acquire", "cache", "look"} :
         InstallerGoto(p, step) /\ (Locked => step = "acquire")
  BY DEF BeginInstall
<1>2. /\ progress' \in [InstallerProcs -> InstallerSteps] /\ progress'[p] = step
      /\ \A q \in InstallerProcs \ {p} : progress'[q] = progress[q]
  BY <1>1, OthersStay DEF Ind, InstallerSteps
<1>3. /\ version' \in [InstallerProcs -> Versions]
      /\ stage' \in [InstallerProcs -> Trees \cup {Missing}]
      /\ stage'[p] = Missing
      /\ \A q \in InstallerProcs \ {p} : version'[q] = version[q] /\ stage'[q] = stage[q]
  BY DEF BeginInstall, Ind, InstallTypeOK
<1>4. InstallTypeOK'
  BY <1>2, <1>3 DEF Ind, InstallTypeOK, BeginInstall
<1>5. HolderInv'
  BY <1>1, <1>2 DEF Ind, HolderInv, Locked, BeginInstall
<1>6. StageInv' /\ CurrentInv'
  BY <1>2, <1>3, ZenonT(60) DEF Ind, StageInv, CurrentInv, InstallerAt, Fresh, Locked, Selected,
     BeginInstall
<1>7. DestInv'
  BY DEF Ind, DestInv, BeginInstall
<1>8. ValidInv' /\ BuiltOnce'
  BY <1>2, <1>3 DEF Ind, ValidInv, BuiltOnce, InstallerAt, Path, Locked, Selected, BeginInstall
<1> QED
  BY <1>4, <1>5, <1>6, <1>7, <1>8 DEF Ind

LEMMA AcquireInd == ASSUME Ind, NEW p \in InstallerProcs, Acquire(p) PROVE Ind'
<1>1. PICK step \in {"cache", "look"} : InstallerGoto(p, step)
  BY DEF Acquire
<1>2. /\ progress' \in [InstallerProcs -> InstallerSteps] /\ progress'[p] = step
      /\ \A q \in InstallerProcs \ {p} : progress'[q] = progress[q]
  BY <1>1, OthersStay DEF Ind, InstallerSteps
<1>3. InstallTypeOK'
  BY <1>2 DEF Ind, InstallTypeOK, Acquire
<1>4. HolderInv'
  BY <1>2 DEF Ind, HolderInv, Locked, Acquire
<1>5. StageInv' /\ CurrentInv'
  BY <1>2 DEF Ind, StageInv, CurrentInv, InstallerAt, Fresh, Locked, Selected, Acquire
<1>6. DestInv'
  BY DEF Ind, DestInv, Acquire
<1>7. ValidInv' /\ BuiltOnce'
  BY <1>2 DEF Ind, ValidInv, BuiltOnce, InstallerAt, Path, Locked, Selected, Acquire
<1> QED
  BY <1>3, <1>4, <1>5, <1>6, <1>7 DEF Ind

LEMMA LookInCacheInd == ASSUME Ind, NEW p \in InstallerProcs, LookInCache(p) PROVE Ind'
<1>1. PICK step \in {"fetch", "look", "fail"} : InstallerGoto(p, step)
  BY DEF LookInCache
<1> QED
  BY <1>1, MoveOn DEF LookInCache, Ind, InstallTypeOK, InstallerAt

LEMMA FetchInd == ASSUME Ind, NEW p \in InstallerProcs, Fetch(p) PROVE Ind'
<1>1. PICK step \in {"look", "fail"} : InstallerGoto(p, step)
  BY DEF Fetch
<1>2. cache' \in [Paths -> Versions \cup {Spoilt, Missing}]
  BY PathInPaths DEF Fetch, Ind, InstallTypeOK
<1> QED
  BY <1>1, <1>2, MoveOn DEF Fetch, Ind, InstallTypeOK, InstallerAt

LEMMA LookInd == ASSUME Ind, NEW p \in InstallerProcs, LookAtPath(p) PROVE Ind'
<1>1. PICK step \in {"build", "validate"} :
         InstallerGoto(p, step) /\ (step = "build" => dest[Path(version[p])] = Missing)
  BY DEF LookAtPath
<1> QED
  BY <1>1, MoveOn DEF LookAtPath, Ind, InstallTypeOK, InstallerAt

LEMMA BreakInd == ASSUME Ind, NEW p \in InstallerProcs, Break(p) PROVE Ind'
<1>1. installFaults' \in 0..MaxInstallFaults
  BY DEF Break, Ind, InstallTypeOK
<1> QED
  BY <1>1, MoveOn DEF Break, Ind, InstallTypeOK

LEMMA BuildInd == ASSUME Ind, NEW p \in InstallerProcs, Build(p) PROVE Ind'
<1>1. /\ progress' \in [InstallerProcs -> InstallerSteps] /\ progress'[p] = "stage"
      /\ progress[p] = "build"
      /\ \A q \in InstallerProcs \ {p} : progress'[q] = progress[q]
  BY OthersStay DEF Ind, InstallerSteps, Build, InstallerAt
<1>2. /\ stage' \in [InstallerProcs -> Trees \cup {Missing}]
      /\ \A q \in InstallerProcs \ {p} : stage'[q] = stage[q]
  BY DEF Build, Ind, InstallTypeOK, Partial, Trees
<1>3. InstallTypeOK'
  BY <1>1, <1>2 DEF Ind, InstallTypeOK, Build
<1>4. HolderInv'
  BY <1>1 DEF Ind, HolderInv, Locked, Build
<1>5. StageInv' /\ CurrentInv'
  BY <1>1, <1>2 DEF Ind, StageInv, CurrentInv, InstallerAt, Fresh, Locked, Selected, Build
<1>6. DestInv'
  BY DEF Ind, DestInv, Build
<1>7. ValidInv' /\ BuiltOnce'
  BY <1>1 DEF Ind, ValidInv, BuiltOnce, InstallerAt, Path, Locked, Selected, Build
<1> QED
  BY <1>3, <1>4, <1>5, <1>6, <1>7 DEF Ind

LEMMA StageInd == ASSUME Ind, NEW p \in InstallerProcs, Stage(p) PROVE Ind'
<1>1. CASE InstallerGoto(p, "fail") /\ UNCHANGED stage
  BY <1>1, MoveOn DEF Stage, Ind, InstallTypeOK, InstallerAt
<1>2. CASE stage' = [stage EXCEPT ![p] = Fresh(version[p])] /\ InstallerGoto(p, "rename")
  <2>1. /\ progress' \in [InstallerProcs -> InstallerSteps] /\ progress'[p] = "rename"
        /\ progress[p] = "stage"
        /\ \A q \in InstallerProcs \ {p} : progress'[q] = progress[q]
    BY <1>2, OthersStay DEF Ind, InstallerSteps, Stage, InstallerAt
  <2>2. /\ stage' \in [InstallerProcs -> Trees \cup {Missing}] /\ stage'[p] = Fresh(version[p])
        /\ \A q \in InstallerProcs \ {p} : stage'[q] = stage[q]
    BY <1>2, FreshIsTree DEF Ind, InstallTypeOK
  <2>3. InstallTypeOK'
    BY <2>1, <2>2 DEF Ind, InstallTypeOK, Stage
  <2>4. HolderInv'
    BY <2>1 DEF Ind, HolderInv, Locked, Stage
  <2>5. StageInv' /\ CurrentInv'
    BY <2>1, <2>2 DEF Ind, StageInv, CurrentInv, InstallerAt, Fresh, Locked, Selected, Stage
  <2>6. DestInv'
    BY DEF Ind, DestInv, Stage
  <2>7. ValidInv' /\ BuiltOnce'
    BY <2>1 DEF Ind, ValidInv, BuiltOnce, InstallerAt, Path, Locked, Selected, Stage
  <2> QED
    BY <2>3, <2>4, <2>5, <2>6, <2>7 DEF Ind
<1> QED
  BY <1>1, <1>2 DEF Stage

\* The only step that puts an installation in place: it disturbs no other run, since
\* those that build the same path under a flock are kept out by it, and those that
\* have validated found their path taken.
LEMMA RenameInd == ASSUME Ind, NEW p \in InstallerProcs, Rename(p) PROVE Ind'
<1>1. CASE InstallerGoto(p, "fail") /\ UNCHANGED <<dest, stage>>
  BY <1>1, MoveOn DEF Rename, Ind, InstallTypeOK, InstallerAt
<1>2. CASE /\ dest[Path(version[p])] = Missing
           /\ dest' = [dest EXCEPT ![Path(version[p])] = stage[p]]
           /\ stage' = [stage EXCEPT ![p] = Missing]
           /\ InstallerGoto(p, "validate")
  <2> DEFINE here == Path(version[p])
  <2>1. /\ progress' \in [InstallerProcs -> InstallerSteps] /\ progress'[p] = "validate"
        /\ progress[p] = "rename"
        /\ \A q \in InstallerProcs \ {p} : progress'[q] = progress[q]
    BY <1>2, OthersStay DEF Ind, InstallerSteps, Rename, InstallerAt
  <2>2. here \in Paths /\ stage[p] = Fresh(version[p]) /\ stage[p] \in Trees /\ stage[p].whole
    BY <2>1, PathInPaths, FreshIsTree DEF Ind, InstallTypeOK, StageInv, InstallerAt
  <2>3. /\ dest' \in [Paths -> Trees \cup {Missing}] /\ dest'[here] = stage[p]
        /\ dest[here] = Missing
        /\ \A x \in Paths \ {here} : dest'[x] = dest[x]
    BY <1>2, <2>2 DEF Ind, InstallTypeOK
  <2>4. /\ stage' \in [InstallerProcs -> Trees \cup {Missing}]
        /\ stage'[p] = Missing
        /\ \A q \in InstallerProcs \ {p} : stage'[q] = stage[q]
    BY <1>2 DEF Ind, InstallTypeOK
  <2>5. InstallTypeOK'
    BY <2>1, <2>3, <2>4 DEF Ind, InstallTypeOK, Rename
  <2>6. HolderInv'
    BY <2>1 DEF Ind, HolderInv, Locked, Rename
  <2>7. StageInv' /\ CurrentInv'
    BY <2>1, <2>4 DEF Ind, StageInv, CurrentInv, InstallerAt, Fresh, Locked, Selected, Rename
  <2>8. DestInv'
    BY <2>2, <2>3 DEF Ind, DestInv
  <2>9. ValidInv'
    <3> SUFFICES ASSUME NEW q \in InstallerProcs
                 PROVE  /\ InstallerAt(q, "select")' => Selected'
                        /\ progress'[q] \in {"select", "finish"} =>
                             /\ dest'[Path(version[q])'] # Missing
                             /\ dest'[Path(version[q])'].version = version'[q]
      BY DEF ValidInv
    <3>1. version' = version /\ Path(version[q])' = Path(version[q]) /\ Path(version[q]) \in Paths
      BY PathInPaths DEF Rename, Path, Selected, Ind, InstallTypeOK
    <3> QED
      BY <2>1, <2>3, <3>1 DEF Ind, ValidInv, InstallerAt, Selected, Rename
  <2>10. BuiltOnce'
    <3> SUFFICES ASSUME NEW q \in InstallerProcs, Locked',
                        progress'[q] \in {"build", "stage", "rename"}
                 PROVE  FALSE
      BY DEF BuiltOnce
    <3>1. q # p /\ Locked /\ progress[q] \in {"build", "stage", "rename"}
      BY <2>1 DEF Locked, Rename
    <3>2. holder = q /\ holder = p
      BY <2>1, <3>1 DEF Ind, HolderInv
    <3> QED
      BY <3>1, <3>2
  <2> QED
    BY <2>5, <2>6, <2>7, <2>8, <2>9, <2>10 DEF Ind
<1> QED
  BY <1>1, <1>2 DEF Rename

LEMMA ValidateInd == ASSUME Ind, NEW p \in InstallerProcs, Validate(p) PROVE Ind'
<1>1. CASE InstallerGoto(p, "fail")
  BY <1>1, MoveOn DEF Validate, Ind, InstallTypeOK, InstallerAt
<1>2. CASE Valid(p) /\ InstallerGoto(p, IF Selected THEN "select" ELSE "finish")
  <2> DEFINE step == IF Selected THEN "select" ELSE "finish"
  <2>1. /\ progress' \in [InstallerProcs -> InstallerSteps] /\ progress'[p] = step
        /\ progress[p] = "validate"
        /\ \A q \in InstallerProcs \ {p} : progress'[q] = progress[q]
    BY <1>2, OthersStay DEF Ind, InstallerSteps, Validate, InstallerAt
  <2>2. dest[Path(version[p])] # Missing /\ dest[Path(version[p])].version = version[p]
    BY <1>2 DEF Valid, Fresh
  <2>3. InstallTypeOK'
    BY <2>1 DEF Ind, InstallTypeOK, Validate
  <2>4. HolderInv'
    BY <2>1 DEF Ind, HolderInv, Locked, Validate
  <2>5. StageInv' /\ CurrentInv'
    BY <2>1 DEF Ind, StageInv, CurrentInv, InstallerAt, Fresh, Locked, Selected, Validate
  <2>6. DestInv'
    BY DEF Ind, DestInv, Validate
  <2>7. ValidInv' /\ BuiltOnce'
    BY <2>1, <2>2 DEF Ind, ValidInv, BuiltOnce, InstallerAt, Path, Locked, Selected, Validate
  <2> QED
    BY <2>3, <2>4, <2>5, <2>6, <2>7 DEF Ind
<1> QED
  BY <1>1, <1>2 DEF Validate

LEMMA SelectInd == ASSUME Ind, NEW p \in InstallerProcs, Select(p) PROVE Ind'
<1>1. CASE InstallerGoto(p, "fail") /\ UNCHANGED current
  BY <1>1, MoveOn DEF Select, Ind, InstallTypeOK, InstallerAt
<1>2. CASE InstallerGoto(p, "finish") /\ current' = Path(version[p])
  <2>1. /\ progress' \in [InstallerProcs -> InstallerSteps] /\ progress'[p] = "finish"
        /\ progress[p] = "select"
        /\ \A q \in InstallerProcs \ {p} : progress'[q] = progress[q]
    BY <1>2, OthersStay DEF Ind, InstallerSteps, Select, InstallerAt
  <2>2. Selected /\ current' = version[p]
    BY <1>2, <2>1 DEF Ind, ValidInv, InstallerAt, Path
  <2>3. InstallTypeOK'
    BY <2>1, <2>2 DEF Ind, InstallTypeOK, Select
  <2>4. HolderInv' /\ StageInv'
    BY <2>1 DEF Ind, HolderInv, StageInv, InstallerAt, Fresh, Locked, Select
  <2>5. CurrentInv'
    BY <2>1, <2>2 DEF Ind, HolderInv, CurrentInv, InstallerAt, Locked, Selected, Select
  <2>6. DestInv'
    BY DEF Ind, DestInv, Select
  <2>7. ValidInv' /\ BuiltOnce'
    BY <2>1 DEF Ind, ValidInv, BuiltOnce, InstallerAt, Path, Locked, Selected, Select
  <2> QED
    BY <2>3, <2>4, <2>5, <2>6, <2>7 DEF Ind
<1> QED
  BY <1>1, <1>2 DEF Select

\* A run that ends, however it ends, keeps nobody else from anything.
LEMMA EndInd ==
    ASSUME Ind, NEW p \in InstallerProcs, InstallerGoto(p, "idle"), Release(p),
           UNCHANGED <<kind, meddling, dest, current, cache, version>>,
           stage' = stage \/ stage' = [stage EXCEPT ![p] = Missing],
             installFaults' \in 0..MaxInstallFaults
    PROVE  Ind'
<1>1. /\ progress' \in [InstallerProcs -> InstallerSteps] /\ progress'[p] = "idle"
      /\ \A q \in InstallerProcs \ {p} : progress'[q] = progress[q]
  BY OthersStay DEF Ind, InstallerSteps
<1>2. /\ stage' \in [InstallerProcs -> Trees \cup {Missing}]
      /\ \A q \in InstallerProcs \ {p} : stage'[q] = stage[q]
  BY DEF Ind, InstallTypeOK
<1>3. InstallTypeOK'
  BY <1>1, <1>2 DEF Ind, InstallTypeOK, Release
<1>4. HolderInv'
  BY <1>1 DEF Ind, HolderInv, Locked, Release
<1>5. StageInv' /\ CurrentInv'
  BY <1>1, <1>2 DEF Ind, StageInv, CurrentInv, InstallerAt, Fresh, Locked, Selected
<1>6. DestInv'
  BY DEF Ind, DestInv
<1>7. ValidInv' /\ BuiltOnce'
  BY <1>1 DEF Ind, ValidInv, BuiltOnce, InstallerAt, Path, Locked, Selected
<1> QED
  BY <1>3, <1>4, <1>5, <1>6, <1>7 DEF Ind

LEMMA EndsInd ==
    ASSUME Ind, NEW p \in InstallerProcs, Finish(p) \/ FailInstall(p) \/ KillInstaller(p) PROVE Ind'
<1>1. installFaults' \in 0..MaxInstallFaults
  BY DEF Finish, FailInstall, KillInstaller, Ind, InstallTypeOK
<1> QED
  BY <1>1, EndInd DEF Finish, FailInstall, KillInstaller

\* An edit leaves an installation where it is, of the version it was.
LEMMA EditInd == ASSUME Ind, NEW x \in Paths, Edit(x) PROVE Ind'
<1>1. /\ dest' \in [Paths -> Trees \cup {Missing}] /\ dest[x] # Missing /\ dest'[x] \in Trees
      /\ dest'[x].version = dest[x].version /\ dest'[x].whole = dest[x].whole
      /\ \A y \in Paths \ {x} : dest'[y] = dest[y]
  BY DEF Edit, Ind, InstallTypeOK, Trees
<1>2. dest'[x] # Missing
  BY <1>1
<1>3. InstallTypeOK'
  BY <1>1 DEF Ind, InstallTypeOK, Edit
<1>4. HolderInv' /\ StageInv' /\ CurrentInv'
  BY DEF Ind, HolderInv, StageInv, CurrentInv, InstallerAt, Fresh, Locked, Selected, Edit
<1>5. DestInv'
  BY <1>1 DEF Ind, DestInv
<1>6. \A q \in InstallerProcs : Path(version[q]) \in Paths /\ Path(version[q])' = Path(version[q])
  BY PathInPaths DEF Ind, InstallTypeOK, Edit, Path, Selected
<1>7. ValidInv'
  BY <1>1, <1>2, <1>6 DEF Ind, ValidInv, InstallerAt, Selected, Edit
<1>8. BuiltOnce'
  BY <1>1, <1>6 DEF Ind, BuiltOnce, Locked, Edit
<1> QED
  BY <1>3, <1>4, <1>5, <1>7, <1>8 DEF Ind

LEMMA RemoveInd == ASSUME Ind, NEW x \in Paths, Remove(x) PROVE Ind'
<1>1. /\ dest' \in [Paths -> Trees \cup {Missing}]
      /\ \A y \in Paths : dest'[y] = dest[y] \/ dest'[y] = Missing
  BY DEF Remove, Ind, InstallTypeOK
<1>2. \A q \in InstallerProcs : progress'[q] = "idle"
  BY DEF Remove
<1>3. InstallTypeOK'
  BY <1>1 DEF Ind, InstallTypeOK, Remove
<1>4. HolderInv' /\ StageInv' /\ CurrentInv' /\ ValidInv' /\ BuiltOnce'
  BY <1>2 DEF HolderInv, StageInv, CurrentInv, ValidInv, BuiltOnce, InstallerAt
<1>5. DestInv'
  BY <1>1 DEF Ind, DestInv
<1> QED
  BY <1>3, <1>4, <1>5 DEF Ind

LEMMA NextInd == Ind /\ [InstallNext]_installVars => Ind'
<1> SUFFICES ASSUME Ind, [InstallNext]_installVars PROVE Ind'
  OBVIOUS
<1>1. CASE UNCHANGED installVars
  BY <1>1 DEF installVars, Ind, InstallTypeOK, HolderInv, StageInv, DestInv, ValidInv,
     CurrentInv, BuiltOnce,
              InstallerAt, Fresh, Path, Locked, Selected
<1>2. ASSUME NEW p \in InstallerProcs,
             BeginInstall(p) \/ InstallerStep(p) \/ Break(p) \/ KillInstaller(p)
      PROVE Ind'
  BY <1>2, BeginInd, AcquireInd, LookInCacheInd, FetchInd, LookInd, BuildInd, StageInd,
     RenameInd, ValidateInd, SelectInd, EndsInd, BreakInd DEF InstallerStep
<1>3. ASSUME NEW x \in Paths, Edit(x) \/ Remove(x) PROVE Ind'
  BY <1>3, EditInd, RemoveInd
<1> QED
  BY <1>1, <1>2, <1>3 DEF InstallNext

LEMMA Invariance == InstallSpec => []Ind
  BY InitInd, NextInd, PTL DEF InstallSpec

-------------------------------------------------------------------------------

\* Whatever the installers do, each variable keeps its type (all of the installers).
THEOREM InstallTypeCorrect == InstallSpec => []InstallTypeOK
<1>1. Ind => InstallTypeOK
  BY DEF Ind
<1> QED
  BY <1>1, Invariance, PTL

\* An installer with a flock that builds will find its place free (the flock of the
\* PRoot, glibc and Debian installers, and the look they take after it).
THEOREM NeverBuiltTwice == InstallSpec => []BuiltOnce
<1>1. Ind => BuiltOnce
  BY DEF Ind
<1> QED
  BY <1>1, Invariance, PTL

\* Success means that the run's own version is there, whole, and selected
\* (validate_install and update_selector).
THEOREM SuccessMeansInstalled == InstallSpec => []ReadyIsInstalled
<1>1. Ind => ReadyIsInstalled
  <2> SUFFICES ASSUME Ind, NEW p \in InstallerProcs, InstallerAt(p, "finish")
               PROVE  /\ dest[Path(version[p])] # Missing
                      /\ dest[Path(version[p])].version = version[p]
                      /\ dest[Path(version[p])].whole
                      /\ Locked /\ Selected => current = version[p]
    BY DEF ReadyIsInstalled
  <2>1. dest[Path(version[p])] # Missing /\ dest[Path(version[p])].version = version[p]
    BY DEF Ind, ValidInv, InstallerAt
  <2>2. dest[Path(version[p])].whole
    BY <2>1, PathInPaths DEF Ind, DestInv, InstallTypeOK
  <2>3. Locked /\ Selected => current = version[p]
    BY DEF Ind, CurrentInv
  <2> QED
    BY <2>1, <2>2, <2>3
<1> QED
  BY <1>1, Invariance, PTL

\* No staging directory outlives a run that ends by itself, but a failed one of the
\* Turnip installer (the finally blocks and handlers around the staging).
THEOREM StagingAlwaysRemoved == InstallSpec => StagingRemoved
<1> DEFINE Removed == \A p \in InstallerProcs :
        /\ progress[p] \in {"finish", "fail"} /\ progress'[p] = "idle"
        /\ installFaults' = installFaults
        => stage'[p] = Missing \/ (kind = "turnip" /\ progress[p] = "fail")
<1>1. Ind /\ [InstallNext]_installVars => [Removed]_installVars
  <2> SUFFICES ASSUME Ind, InstallNext, NEW p \in InstallerProcs,
                      progress[p] \in {"finish", "fail"},
                      progress'[p] = "idle", installFaults' = installFaults
               PROVE  stage'[p] = Missing \/ (kind = "turnip" /\ progress[p] = "fail")
    OBVIOUS
  <2>1. /\ progress \in [InstallerProcs -> InstallerSteps]
        /\ stage \in [InstallerProcs -> Trees \cup {Missing}]
        /\ installFaults \in Nat
    BY DEF Ind, InstallTypeOK
  <2>2. CASE Finish(p)
    BY <2>2 DEF Finish, Ind, StageInv, InstallerAt
  <2>3. CASE FailInstall(p)
    BY <2>1, <2>3 DEF FailInstall, InstallerAt
  <2>4. Finish(p) \/ FailInstall(p)
    <3>1. ASSUME NEW q \in InstallerProcs, q # p,
            BeginInstall(q) \/ InstallerStep(q) \/ Break(q) \/ KillInstaller(q)
          PROVE  FALSE
      BY <2>1, <3>1 DEF BeginInstall, InstallerStep, Acquire, LookInCache, Fetch, LookAtPath,
         Build, Stage, Rename,
         Validate, Select, Finish, FailInstall, Break, KillInstaller, InstallerGoto
    <3>2. ASSUME NEW x \in Paths, Edit(x) \/ Remove(x) PROVE FALSE
      BY <3>2 DEF Edit, Remove
    <3>3. ~BeginInstall(p) /\ ~Break(p) /\ ~KillInstaller(p)
      BY <2>1 DEF BeginInstall, Break, KillInstaller, InstallerAt
    <3>4. InstallerStep(p) => Finish(p) \/ FailInstall(p)
      BY <2>1 DEF InstallerStep, Acquire, LookInCache, Fetch, LookAtPath, Build, Stage, Rename,
         Validate,
         Select, InstallerAt
    <3> QED
      BY <3>1, <3>2, <3>3, <3>4 DEF InstallNext
  <2> QED
    BY <2>2, <2>3, <2>4
<1> QED
  BY <1>1, Invariance, PTL DEF InstallSpec, StagingRemoved

\* Every step of an installer is one of RuntimeStore's, or changes neither what is
\* installed nor what is selected (the rename and update_selector of each installer).
THEOREM InstallersImplementStore == InstallSpec => ImplementsStore
<1>1. InitialInstall => Store!Init
  BY DEF InitialInstall, Store!Init
<1>2. Ind /\ [InstallNext]_installVars => [Store!Next]_(Store!store)
  <2> SUFFICES ASSUME Ind, [InstallNext]_installVars
               PROVE  Store!Next \/ UNCHANGED <<dest, current>>
    BY DEF Store!store
  <2>1. CASE UNCHANGED installVars
    BY <2>1 DEF installVars
  <2>2. ASSUME NEW p \in InstallerProcs, Rename(p) PROVE Store!Next \/ UNCHANGED <<dest, current>>
    <3>1. CASE dest[Path(version[p])] = Missing
      <4>1. Path(version[p]) \in Paths /\ stage[p] \in {Fresh(v) : v \in Versions}
        BY <2>2, PathInPaths DEF Rename, Ind, StageInv, InstallTypeOK
      <4>2. Store!Install(Path(version[p]))
        BY <2>2, <3>1, <4>1 DEF Rename, Store!Install
      <4> QED
        BY <4>1, <4>2 DEF Store!Next
    <3> QED
      BY <2>2, <3>1 DEF Rename
  <2>3. ASSUME NEW p \in InstallerProcs, Select(p) PROVE Store!Next \/ UNCHANGED <<dest, current>>
    <3>1. Path(version[p]) \in Paths /\ dest[Path(version[p])] # Missing
      BY <2>3, PathInPaths DEF Select, Ind, ValidInv, InstallTypeOK, InstallerAt
    <3> QED
      BY <2>3, <3>1 DEF Select, Store!Select, Store!Next
  <2>4. ASSUME NEW x \in Paths, Edit(x) PROVE Store!Next
    BY <2>4 DEF Edit, Store!Edit, Store!Next
  <2>5. ASSUME NEW x \in Paths, Remove(x) PROVE Store!Next
    BY <2>5 DEF Remove, Store!Remove, Store!Next
  <2>6. ASSUME NEW p \in InstallerProcs,
               \/ BeginInstall(p) \/ Acquire(p) \/ LookInCache(p) \/ Fetch(p) \/ LookAtPath(p)
               \/ Build(p)
               \/ Stage(p) \/ Validate(p) \/ Finish(p) \/ FailInstall(p) \/ Break(p)
               \/ KillInstaller(p)
        PROVE  UNCHANGED <<dest, current>>
    BY <2>6 DEF BeginInstall, Acquire, LookInCache, Fetch, LookAtPath, Build, Stage, Validate,
       Finish, FailInstall,
                Break, KillInstaller
  <2> QED
    BY <2>1, <2>2, <2>3, <2>4, <2>5, <2>6 DEF InstallNext, InstallerStep
<1> QED
  BY <1>1, <1>2, Invariance, PTL DEF InstallSpec, ImplementsStore, Store!Spec

===============================================================================
