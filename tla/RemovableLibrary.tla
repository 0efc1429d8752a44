------------------------- MODULE RemovableLibrary -------------------------
(***************************************************************************)
(* bin/steam-arm64-removable-library.py: a Steam library split between     *)
(* internal storage (control data) and a removable card (payloads and      *)
(* staging).  Three things have to agree: the configuration file, the      *)
(* links that show the split library outside PRoot, and what Steam has     *)
(* mounted.  A command changes the links first and the configuration last, *)
(* it may be killed or fail between any two file-system calls, and it      *)
(* looks for a running Steam once, at its beginning.  One command runs at  *)
(* a time; Steam is started and stopped, and cards are pulled, at any      *)
(* moment.                                                                 *)
(*                                                                         *)
(* One game is staged on the card Home.  Contents of its files are told    *)
(* apart only as the ones of the registered manifest and others.           *)
(***************************************************************************)
EXTENDS Integers, FiniteSets

CONSTANTS
  Cards,      \* removable cards, each with an own and a public payload root
  Home,       \* the card with the game
  NoCard,     \* the card of a library that is not configured
  Files,      \* the files of the game, all of one size
  MaxFaults,  \* bound on kills and failing calls
  MaxWrites    \* bound on what Steam writes to each of its two files

ASSUME CardsAssumption == Home \in Cards /\ NoCard \notin Cards
ASSUME BoundsAssumption == MaxFaults \in Nat /\ MaxWrites \in Nat

VARIABLES
  half,       \* which half of the helper a behaviour exercises
  inserted,   \* the cards that are present
  kind,       \* what is at the place of each link
  goes,       \* where the link to the payload points
  config,     \* removable-library.json
  stage,      \* the files under staging/<appid> on Home
  game,       \* the files of the installed game on Home
  at,         \* the payload root on Home that holds the game
  manifestBy,     \* appmanifest_<appid>.acf: who installs the game
  recordAge,  \* how often Steam has rewritten it
  ours,       \* whether libraryfolders.vdf lists the library
  launch,     \* the launcher and Steam
  view,       \* the configuration that Steam was given mounts for
  raced,      \* a launch and a command have overlapped unseen
  op, arg,    \* the command that runs, and its card
  pc,         \* its next step
  want,       \* the configuration it is going to write
  was,        \* the links it found
  done,       \* the links it has replaced
  over,       \* commit: the files found in both trees
  age,        \* the age of the file it has read and will replace
  broke,      \* the payload root a command that was cut short was setting up, since then
  faults

libVars == <<inserted, kind, goes, config, stage, game, at, manifestBy, recordAge, ours>>
steamVars == <<launch, view, raced>>
cmdVars == <<op, arg, pc, want, was, done, over, age, broke, faults>>
libraryVars == <<half, libVars, steamVars, cmdVars>>

\* A behaviour either sets up the library, with no game on it, or stages and
\* commits a game in a library that is set up.  The two halves meet in the
\* staging bind, which both contain; their product adds no step to either.
Ops == IF half = "layout"
         THEN {"prepare", "set", "register", "empty", "disable"}
         ELSE {"enable", "empty", "disable", "commit", "finalize"}

\* layout_paths names nine paths; the links among them, in the order in which
\* they are installed.  compatdata is treated as downloading is.
Links == 1..3
PayloadLink == 2

\* The two payload roots of a card: external_common below the source, and the
\* public one that set-payload-common selects.
Places == [card: Cards, pay: {"own", "public"}]
Nowhere == [card |-> NoCard, pay |-> "own"]
Own(c) == [card |-> c, pay |-> "own"]

\* config_bytes: the source, the payload and the staging bind with its files.
Configs == [place: Places \cup {Nowhere}, bound: BOOLEAN, files: SUBSET Files]
Unset == [place |-> Nowhere, bound |-> FALSE, files |-> {}]
Config(p, b, fs) == [place |-> p, bound |-> b, files |-> fs]

Names(tree) == {f \in Files : tree[f] # "none"}

\* inspect_exact_directory_link, for each link.
Right(l, p) == kind[l] = "link" /\ (l = PayloadLink => goes = p)

\* validate_external_parent, and validate_payload_common for a public root: they
\* are below /storage/<UUID> of a card that is in.
Available(p) == p.card \in inserted

\* inspect_library_mountpoint, for all the links that lead out of it.
Shown(p) == \A l \in Links : Right(l, p)

\* validate_layout: everything is there and every link is the one expected.
Usable(c) == Available(c.place) /\ Shown(c.place)

\* The first loop of install_native_library_view, which examines every link
\* before any is touched: a link may be absent, an empty directory of an older
\* version, the one wanted, or the one the configuration in force asks for.
Acceptable(p) ==
  kind[PayloadLink] = "link" => goes \in {p, config.place}

\* prepare_layout: the configuration of the same card is kept, any other card
\* starts with its own payload root and no staging bind.
Prepared(c) == IF config.place.card = c THEN config ELSE Config(Own(c), FALSE, {})

\* set_payload_common.
Selected == Config([config.place EXCEPT !.pay = "public"], config.bound, config.files)

LibraryInit ==
  /\ \/ /\ half = "layout"
        /\ kind \in {[l \in Links |-> k] : k \in {"none", "dir"}}
        /\ goes = Nowhere /\ config = Unset
        /\ stage = [f \in Files |-> "none"] /\ game = [f \in Files |-> "none"]
     \/ /\ half = "game"
        /\ kind = [l \in Links |-> "link"]
        /\ goes \in {p \in Places : p.card = Home} /\ config = Config(goes, FALSE, {})
        /\ stage \in [Files -> {"none", "good"}]
        /\ game \in [Files -> {"none", "good", "other"}]
  /\ inserted = Cards
  /\ at = "own" /\ manifestBy = "steam" /\ recordAge = 0
  /\ ours = FALSE
  /\ launch = "off" /\ view = Unset /\ raced = FALSE
  /\ op = "prepare" /\ arg = Home /\ pc = "idle" /\ want = Unset
  /\ was = [l \in Links |-> "none"] /\ done = {} /\ over = {} /\ age = 0
  /\ broke = {} /\ faults = 0

-----------------------------------------------------------------------------
(* The command.                                                            *)

\* The command returns or dies; what it knew is forgotten.
Forget ==
  /\ pc' = "idle" /\ op' = "prepare" /\ arg' = Home /\ want' = Unset
  /\ was' = [l \in Links |-> "none"] /\ done' = {} /\ over' = {} /\ age' = 0

\* A command ends, or raises before it has changed anything; either way 0 or 2
\* is its exit status and nothing is undone.
Leave == Forget /\ broke' = broke /\ faults' = faults /\ UNCHANGED <<libVars, steamVars>>

Continue(next) == pc' = next /\ UNCHANGED <<op, arg, faults>>

\* main: prepare looks for processes at once, the others load the layout first.
BeginCommand(o, c) ==
  /\ pc = "idle" /\ (o # "prepare" => c = Home)
  /\ op' = o /\ arg' = c /\ pc' = (IF o = "prepare" THEN "scan" ELSE "load")
  /\ raced' = (raced \/ launch = "reading")
  /\ UNCHANGED <<libVars, launch, view, want, was, done, over, age, broke, faults>>

\* load_layout.
LoadLayout ==
  /\ pc = "load"
  /\ IF config # Unset /\ Usable(config)
       THEN /\ Continue("scan")
            /\ UNCHANGED <<libVars, steamVars, want, was, done, over, age, broke>>
       ELSE Leave

\* Mutant: the processes are looked for and not heeded.
FindRunningBug ==
  /\ pc = "scan"
  /\ Continue(CASE op \in {"prepare", "set"} -> "plan"
                [] op \in {"register", "finalize"} -> "read"
                [] op = "commit" -> "check"
                [] OTHER -> "bind")
  /\ UNCHANGED <<libVars, steamVars, want, was, done, over, age, broke>>

\* find_running_processes: a launcher that has not started Steam yet is not
\* one of the processes looked for.
FindRunning ==
  /\ pc = "scan"
  /\ IF launch = "up"
       THEN Leave
       ELSE /\ Continue(CASE op \in {"prepare", "set"} -> "plan"
                          [] op \in {"register", "finalize"} -> "read"
                          [] op = "commit" -> "check"
                          [] OTHER -> "bind")
            /\ UNCHANGED <<libVars, steamVars, want, was, done, over, age, broke>>

\* A refusal by a check on what this model does not hold: arguments, owners,
\* permissions, free space, manifests that differ, a file system without
\* posix_fallocate.
Refuse == pc \in {"load", "scan", "plan", "bind", "check", "read"} /\ Leave

Target == IF op = "prepare" THEN Prepared(arg) ELSE Selected

\* Mutant: the configuration is written before the links.
PlanViewBug ==
  /\ pc = "plan"
  /\ IF Available(Target.place) /\ Acceptable(Target.place)
       THEN /\ want' = Target /\ was' = kind /\ broke' = {} /\ Continue("link")
            /\ config' = Target
            /\ UNCHANGED <<inserted, kind, goes, stage, game, at, manifestBy, recordAge,
                           ours, steamVars, done, over, age>>
       ELSE Leave

\* prepare_layout and set_payload_common up to install_native_library_view and
\* its first loop.
PlanView ==
  /\ pc = "plan"
  /\ IF Available(Target.place) /\ Acceptable(Target.place)
       THEN /\ want' = Target /\ was' = kind /\ broke' = {} /\ Continue("link")
            /\ UNCHANGED <<libVars, steamVars, done, over, age>>
       ELSE Leave

Wrong == {l \in Links : ~Right(l, want.place)}
First(S) == CHOOSE l \in S : \A m \in S : l <= m
Last(S) == CHOOSE l \in S : \A m \in S : l >= m

\* The second loop: os.replace moves a legacy directory into the backup, or
\* unlink removes the link to the previous payload ...
ClearPlace ==
  /\ pc = "link" /\ Wrong # {}
  /\ LET l == First(Wrong) IN
       kind[l] # "none" /\ kind' = [kind EXCEPT ![l] = "none"]
  /\ Continue("link")
  /\ UNCHANGED <<inserted, goes, config, stage, game, at, manifestBy, recordAge, ours,
                 steamVars, want, was, done, over, age, broke>>

\* ... and symlink_to makes the new one.
MakeLink ==
  /\ pc = "link" /\ Wrong # {}
  /\ LET l == First(Wrong) IN
       /\ kind[l] = "none" /\ kind' = [kind EXCEPT ![l] = "link"]
       /\ goes' = IF l = PayloadLink THEN want.place ELSE goes
       /\ done' = done \cup {l}
  /\ Continue("link")
  /\ UNCHANGED <<inserted, config, stage, game, at, manifestBy, recordAge, ours,
                 steamVars, want, was, over, age, broke>>

ViewInstalled ==
  /\ pc = "link" /\ Wrong = {}
  /\ Continue("validate")
  /\ UNCHANGED <<libVars, steamVars, want, was, done, over, age, broke>>

\* A call of the second loop fails: the links that were finished are undone in
\* reverse; the one at which it failed is not.
FailLink ==
  /\ pc = "link" /\ Wrong # {} /\ faults < MaxFaults
  /\ faults' = faults + 1 /\ pc' = "undo"
  /\ UNCHANGED <<libVars, steamVars, op, arg, want, was, done, over, age, broke>>

UndoLink ==
  /\ pc = "undo" /\ done # {}
  /\ LET l == Last(done) IN
       /\ kind' = [kind EXCEPT ![l] = was[l]]
       /\ goes' = IF l = PayloadLink /\ was[l] = "link" THEN config.place ELSE goes
       /\ done' = done \ {l}
  /\ Continue("undo")
  /\ UNCHANGED <<inserted, config, stage, game, at, manifestBy, recordAge, ours,
                 steamVars, want, was, over, age, broke>>

\* What is left when a prepare or a set-payload-common was cut short is what the next command meets.
CutShort == IF op \in {"prepare", "set"} /\ pc \in {"link", "undo", "validate", "write"}
              THEN {want.place} ELSE broke

UndoneView ==
  /\ pc = "undo" /\ done = {}
  /\ Forget /\ broke' = CutShort /\ UNCHANGED <<faults, libVars, steamVars>>

\* validate_layout after the links: the card may be gone by now.
Revalidate ==
  /\ pc = "validate"
  /\ IF Usable(want)
       THEN /\ Continue("write")
            /\ UNCHANGED <<libVars, steamVars, want, was, done, over, age, broke>>
       ELSE /\ Forget /\ broke' = CutShort /\ UNCHANGED <<faults, libVars, steamVars>>

\* write_config and atomic_replace; the reload after it changes nothing.
WriteConfig ==
  /\ pc = "write"
  /\ config' = want
  /\ Forget /\ broke' = {} /\ faults' = faults
  /\ UNCHANGED <<inserted, kind, goes, stage, game, at, manifestBy, recordAge, ours,
                 steamVars>>

\* enable_staging_bind registers what is staged, enable_empty_staging_bind an
\* empty tree, disable_staging_bind none.
EnableBind ==
  /\ pc = "bind" /\ op = "enable"
  /\ Names(stage) # {} /\ Home = config.place.card
  /\ want' = Config(config.place, TRUE, Names(stage))
  /\ Continue("write") /\ UNCHANGED <<libVars, steamVars, was, done, over, age, broke>>

EnableEmptyBind ==
  /\ pc = "bind" /\ op = "empty"
  /\ Names(stage) = {} /\ Home = config.place.card /\ ~config.bound
  /\ want' = Config(config.place, TRUE, {})
  /\ Continue("write") /\ UNCHANGED <<libVars, steamVars, was, done, over, age, broke>>

DisableBind ==
  /\ pc = "bind" /\ op = "disable"
  /\ config.bound
  /\ want' = Config(config.place, FALSE, {})
  /\ Continue("write") /\ UNCHANGED <<libVars, steamVars, was, done, over, age, broke>>

\* The game is where the commands look for it: below external_common.
InReach == config.bound /\ config.place = [card |-> Home, pay |-> at]

\* parse_staging_manifest: the manifest with the registered digest, whose records
\* are the files that were registered.
Registered(fs) == config.bound /\ fs = config.files

\* Mutant: a file in both trees is taken to be the same.
SameDigestBug(f) == stage[f] # "none" /\ game[f] # "none"

\* sha256_regular_file of both copies of a file that is in both trees.
SameDigest(f) == stage[f] = "good" /\ game[f] = "good"

\* commit_staging up to its first change: the inventory is the registered one,
\* and of a file in both trees both copies have the registered digest.
CommitCheck ==
  /\ pc = "check"
  /\ LET both == Names(stage) \cap Names(game) IN
       IF /\ InReach /\ Registered(Names(stage))
          /\ \A f \in both : SameDigest(f)
         THEN /\ over' = both /\ Continue("move")
              /\ UNCHANGED <<libVars, steamVars, want, was, done, age, broke>>
         ELSE Leave

\* One file of the moving loop.
CommitFile(f) ==
  /\ pc = "move" /\ Home \in inserted /\ stage[f] # "none"
  /\ IF f \in over
       THEN stage' = [stage EXCEPT ![f] = "none"] /\ game' = game /\ Continue("move")
       ELSE IF game[f] = "none"
         THEN /\ game' = [game EXCEPT ![f] = stage[f]]
              /\ stage' = [stage EXCEPT ![f] = "none"] /\ Continue("move")
         ELSE stage' = stage /\ game' = game /\ Continue("moved")
  /\ UNCHANGED <<inserted, kind, goes, config, at, manifestBy, recordAge, ours,
                 steamVars, want, was, done, over, age, broke>>

\* The end of commit_staging; the verifications after the loop change nothing.
CommitEnd == pc \in {"move", "moved"} /\ (pc = "moved" \/ Names(stage) = {} \/ Home \notin inserted)
             /\ Leave

\* parse_depot_content_manifest: the sizes that the depots of the build ask for
\* add up to the size of the installed tree.
Complete == Names(game) = Files

\* top_level_vdf_fields and the values that finalize_staging_manifest allows: the
\* record is of an update that Steam has not finished.
Awaiting == manifestBy = "steam"

\* finalize_staging_manifest and register_library read a file of Steam's ...
ReadRecord ==
  /\ pc = "read" /\ op = "finalize"
  /\ IF InReach /\ Home \in inserted /\ Names(stage) = {} /\ Complete /\ Awaiting
       THEN /\ age' = recordAge /\ Continue("compare")
            /\ UNCHANGED <<libVars, steamVars, want, was, done, over, broke>>
       ELSE Leave

ReadList ==
  /\ pc = "read" /\ op = "register"
  /\ IF ~ours
       THEN /\ Continue("compare")
            /\ UNCHANGED <<libVars, steamVars, want, was, done, over, age, broke>>
       ELSE Leave

\* ... copy it, compare it with what they read (how often Steam has rewritten
\* libraryfolders.vdf is not kept: it may have) ...
Compare ==
  /\ pc = "compare"
  /\ \/ /\ op = "finalize" => age = recordAge
        /\ Continue("replace")
        /\ UNCHANGED <<libVars, steamVars, want, was, done, over, age, broke>>
     \/ (op = "finalize" => age # recordAge) /\ Leave

\* ... and replace it by an edited copy of what they read.
Replace ==
  /\ pc = "replace"
  /\ manifestBy' = (IF op = "finalize" THEN "helper" ELSE manifestBy)
  /\ ours' = (ours \/ op = "register")
  /\ Forget /\ broke' = broke /\ faults' = faults
  /\ UNCHANGED <<inserted, kind, goes, config, stage, game, at, recordAge, steamVars>>

\* The command is killed, or a call that nothing undoes fails.
Kill ==
  /\ pc # "idle" /\ faults < MaxFaults
  /\ Forget /\ broke' = CutShort /\ faults' = faults + 1
  /\ UNCHANGED <<libVars, steamVars>>

-----------------------------------------------------------------------------
(* Steam, its launcher and the owner.                                      *)

\* bin/steam-arm asks for mount-info, which prints nothing but "disabled" or a
\* layout that load_layout accepts ...
LaunchReads ==
  /\ launch = "off" /\ (config = Unset \/ Usable(config))
  /\ launch' = "reading" /\ view' = config /\ raced' = (raced \/ pc # "idle")
  /\ UNCHANGED <<libVars, cmdVars>>

\* ... then, in a second process, for the staging binds, and starts Steam.
LaunchStarts ==
  /\ launch = "reading"
  /\ IF view = Unset \/ Usable(config)
       THEN /\ launch' = "up"
            /\ view' = IF view = Unset THEN view
                       ELSE Config(view.place, config.bound, config.files)
       ELSE launch' = "off" /\ view' = Unset
  /\ UNCHANGED <<libVars, raced, cmdVars>>

SteamStops ==
  /\ launch # "off" /\ launch' = "off" /\ view' = Unset
  /\ UNCHANGED <<libVars, raced, cmdVars>>

\* Steam downloads a file of an update into its staging tree, whole or in part.
SteamStages(f) ==
  /\ half = "game" /\ launch = "up" /\ view.bound /\ view.place.card = Home /\ Home \in inserted
  /\ manifestBy = "steam" /\ stage[f] = "none"
  /\ \E v \in {"good", "other"} : stage' = [stage EXCEPT ![f] = v]
  /\ UNCHANGED <<inserted, kind, goes, config, game, at, manifestBy, recordAge, ours,
                 steamVars, cmdVars>>

\* Steam copies a staged file to the game and has not removed it yet.
SteamCopies(f) ==
  /\ launch = "up" /\ view.place = [card |-> Home, pay |-> at] /\ Home \in inserted
  /\ manifestBy = "steam" /\ stage[f] = "good"
  /\ game' = [game EXCEPT ![f] = "good"]
  /\ UNCHANGED <<inserted, kind, goes, config, stage, at, manifestBy, recordAge, ours,
                 steamVars, cmdVars>>

\* Steam begins an update: its record says so, what is installed is not what
\* the new manifest names, and a file of the old version goes.
SteamStartsUpdate(f) ==
  /\ half = "game" /\ launch = "up" /\ recordAge < MaxWrites
  /\ manifestBy' = "steam" /\ recordAge' = recordAge + 1
  /\ game' = [g \in Files |-> IF g = f \/ game[g] = "none" THEN "none" ELSE "other"]
  /\ UNCHANGED <<inserted, kind, goes, config, stage, at, ours, steamVars,
                 cmdVars>>

\* A card is pulled, at most MaxFaults times with the other faults, or put back;
\* nothing of a staged game is on any other card than Home.
Pull(c) ==
  /\ c \in inserted /\ faults < MaxFaults /\ (half = "game" => c = Home)
  /\ inserted' = inserted \ {c} /\ faults' = faults + 1
  /\ UNCHANGED <<kind, goes, config, stage, game, at, manifestBy, recordAge, ours,
                 steamVars, op, arg, pc, want, was, done, over, age, broke>>

PutBack(c) ==
  /\ c \notin inserted /\ inserted' = inserted \cup {c}
  /\ UNCHANGED <<kind, goes, config, stage, game, at, manifestBy, recordAge, ours,
                 steamVars, cmdVars>>

\* The owner moves the game to the public payload root.
MoveGame ==
  /\ half = "game" /\ pc = "idle" /\ launch = "off" /\ Home \in inserted
  /\ at = "own" /\ at' = "public"
  /\ UNCHANGED <<inserted, kind, goes, config, stage, game, manifestBy, recordAge, ours,
                 steamVars, cmdVars>>

-----------------------------------------------------------------------------
CommandStep ==
  \/ LoadLayout \/ FindRunning \/ Refuse \/ PlanView \/ ClearPlace \/ MakeLink
  \/ ViewInstalled \/ FailLink \/ UndoLink \/ UndoneView \/ Revalidate \/ WriteConfig
  \/ EnableBind \/ EnableEmptyBind \/ DisableBind \/ CommitCheck
  \/ (\E f \in Files : CommitFile(f)) \/ CommitEnd
  \/ ReadRecord \/ ReadList \/ Compare \/ Replace

Steam ==
  \/ LaunchReads \/ LaunchStarts \/ SteamStops
  \/ \E f \in Files : SteamStages(f) \/ SteamCopies(f) \/ SteamStartsUpdate(f)

Advance ==
  \/ \E o \in Ops, c \in Cards : BeginCommand(o, c)
  \/ CommandStep \/ Kill \/ Steam \/ MoveGame
  \/ \E c \in Cards : Pull(c) \/ PutBack(c)

LibraryNext == Advance /\ half' = half

LibrarySpec == LibraryInit /\ [][LibraryNext]_libraryVars

-----------------------------------------------------------------------------
\* Every variable keeps to its values; in particular no file of the helper's
\* ever gets a content or a state that no part of the code writes.
LibraryTypeOK ==
  /\ half \in {"layout", "game"} /\ inserted \subseteq Cards
  /\ kind \in [Links -> {"none", "dir", "link"}] /\ goes \in Places \cup {Nowhere}
  /\ config \in Configs /\ view \in Configs /\ want \in Configs
  /\ stage \in [Files -> {"none", "good", "other"}]
  /\ game \in [Files -> {"none", "good", "other"}]
  /\ at \in {"own", "public"} /\ manifestBy \in {"steam", "helper"} /\ ours \in BOOLEAN
  /\ recordAge \in 0..MaxWrites /\ age \in 0..MaxWrites
  /\ launch \in {"off", "reading", "up"} /\ raced \in BOOLEAN
  /\ op \in {"prepare", "set", "register", "enable", "empty", "disable", "commit",
             "finalize"}
  /\ arg \in Cards
  /\ pc \in {"idle", "load", "scan", "plan", "link", "undo", "validate", "write", "bind",
             "check", "move", "moved", "read", "compare", "replace"}
  /\ was \in [Links -> {"none", "dir", "link"}] /\ done \subseteq Links
  /\ over \subseteq Files /\ broke \subseteq Places \cup {Nowhere} /\ faults \in 0..MaxFaults

\* While Steam runs, the configuration and the links are those it was given
\* mounts for, however commands were killed or failed before it was started;
\* unless a launch and a command overlapped at a moment when neither could see
\* the other (find_running_processes and mount-info are each read once).  With the types.
OneView ==
  /\ LibraryTypeOK
  /\ launch = "up" /\ view # Unset /\ ~raced =>
       view = config /\ \A l \in Links : Right(l, view.place)

\* A game that finalize-staging has recorded as installed is there with all its
\* files: not one is left in the staging tree by a commit that was killed, was
\* refused, or was never made.
InstalledIsWhole == manifestBy = "helper" /\ ~raced => Names(game) = Files

\* The payload link leads to the public root p already, and the configuration in force does not
\* say so: set-payload-common was cut short between MakeLink and WriteConfig.
Ahead(p) == kind[PayloadLink] = "link" /\ goes = p /\ p.pay = "public" /\ config.place # p

\* A kill or failure in prepare, wherever it strikes, leaves links that the same prepare
\* accepts.  One in set-payload-common leaves links that the prepare of its card accepts, with
\* one exception: once its payload link is made and before its configuration is written, no
\* command accepts the link (Ahead), and nothing short of removing it by hand helps.
PrepareResumable ==
  \A p \in broke : pc = "idle" => Acceptable(Prepared(p.card).place) \/ Ahead(p)

\* Nothing that was begun and broken off is taken for done, and the links that it leaves are
\* accepted by the next prepare except in the one place that PrepareResumable names.
NothingHalfDone == InstalledIsWhole /\ PrepareResumable

\* No step of a command, and no kill, takes away the last copy of a file with
\* the registered content: commit moves a file or removes a duplicate that it
\* has compared.  What a commit that was cut short has not moved stays where it
\* is; a second commit refuses it, as the inventory is no longer the registered
\* one (CommitCheck), until the tree is registered anew with enable-staging-bind.
Copies(f) == {t \in {stage[f], game[f]} : t = "good"}
GameKept ==
  [][recordAge' # recordAge \/ raced
       \/ \A f \in Files : Copies(f) # {} => Copies(f)' # {}]_libraryVars
===========================================================================
