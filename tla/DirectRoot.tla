------------------------------ MODULE DirectRoot ------------------------------
(***************************************************************************)
(* The tree of Valve's runtime that pressure-vessel uses without copying   *)
(* (scripts/prepare-runtime-direct-root.py): a root per version, named by  *)
(* the hash of the version's list of files, built in a staging directory   *)
(* and renamed; empty directories in it on which the games are mounted;    *)
(* and the link "current" to the root that launches use.                   *)
(*                                                                         *)
(* Several runs go on at once, each with or without                        *)
(* --refresh-mount-anchors-only; Steam updates the runtime and installs    *)
(* and removes games; a run may be killed.                                 *)
(*                                                                         *)
(* The operators called ...Bug each hold the definition after them with    *)
(* one mistake, for mutation runs.                                         *)
(***************************************************************************)
EXTENDS Naturals, FiniteSets

CONSTANTS
    Preparers, Games,
    MaxVersion,     \* bound: versions of the runtime
    MaxKills        \* bound: runs that are killed

VARIABLES
    shipped,        \* the version that Steam has installed
    roots,          \* the destinations
    current,        \* what the link names, 0 for no link
    common,         \* the games that are installed
    prep,           \* the runs
    bent,           \* has Steam replaced a file between its verification and its copy?
    culls           \* runs that were killed

rootVars == <<shipped, roots, current, common, prep, bent, culls>>

------------------------------------------------------------------------------
(* Data *)

DirectRootAssumption == MaxVersion \in Nat \ {0} /\ MaxKills \in Nat

Versions == 1..MaxVersion

Parts == {"directories", "files", "links", "marker"}

\* parts: which of its parts a tree has; as: the version its files are of, 0 for several.
Tree == [parts : SUBSET Parts, as : 0..MaxVersion, anchors : SUBSET Games]

Nothing == [parts |-> {}, as |-> 0, anchors |-> {}]

\* tree: the staging directory; left: games whose directories are still to be made; began: games
\* that were installed all the time since the run began.
Prep == [pc : {"idle", "read", "validate", "verify", "copy", "list", "anchor", "rename", "select"},
         only : BOOLEAN, version : 0..MaxVersion, tree : Tree, left : SUBSET Games,
         began : SUBSET Games, exit : {"none", "ok", "failed"}]

Still == [pc |-> "idle", only |-> FALSE, version |-> 0, tree |-> Nothing, left |-> {},
          began |-> {}, exit |-> "none"]

RootInit ==
    /\ shipped = 1
    /\ roots = [v \in Versions |-> Nothing]
    /\ current = 0
    /\ common \in SUBSET Games
    /\ prep = [p \in Preparers |-> Still]
    /\ bent = FALSE /\ culls = 0

At(p, pc) == prep[p].pc = pc

Go(p, pc) == prep' = [prep EXCEPT ![p].pc = pc]

\* The staging directory is removed in any case; its name is the run's own.
Fail(p) == prep' = [prep EXCEPT ![p] = [Still EXCEPT !.exit = "failed"]]

Done(p) == prep' = [prep EXCEPT ![p].pc = "idle", ![p].exit = "ok", ![p].tree = Nothing]

There(v) == v # 0 /\ roots[v].parts # {}

------------------------------------------------------------------------------
(* The command *)

Begin(p, only) ==
    /\ At(p, "idle")
    /\ prep' = [prep EXCEPT ![p] = [Still EXCEPT !.pc = "read", !.only = only, !.began = common]]
    /\ UNCHANGED <<shipped, roots, current, common, bent, culls>>

\* selected_runtime_root: the link names a marked root.
Selected(p) ==
    /\ At(p, "read") /\ prep[p].only
    /\ IF There(current) /\ "marker" \in roots[current].parts
       THEN prep' = [prep EXCEPT ![p].pc = "list", ![p].version = current]
       ELSE Fail(p)
    /\ UNCHANGED <<shipped, roots, current, common, bent, culls>>

\* The name of the root comes from the list of files of the version that is there now.
Read(p) ==
    /\ At(p, "read") /\ ~prep[p].only
    /\ prep' = [prep EXCEPT ![p].version = shipped,
                            ![p].pc = IF There(shipped) THEN "validate" ELSE "verify"]
    /\ UNCHANGED <<shipped, roots, current, common, bent, culls>>

\* The marker, three critical files, the merged links and the lock file of a root that exists.
Validate(p) ==
    /\ At(p, "validate")
    /\ IF Parts \subseteq roots[prep[p].version].parts THEN Go(p, "list") ELSE Fail(p)
    /\ UNCHANGED <<shipped, roots, current, common, bent, culls>>

\* source_file: size and hash of each file are those of the list.
VerifySource(p) ==
    /\ At(p, "verify")
    /\ \/ shipped = prep[p].version /\ Go(p, "copy")
       \/ Fail(p)
    /\ UNCHANGED <<shipped, roots, current, common, bent, culls>>

\* build_sysroot: directories, files, links.
CopySource(p) ==
    /\ At(p, "copy")
    /\ \/ Fail(p) /\ UNCHANGED bent
       \/ /\ bent' = (bent \/ shipped # prep[p].version)
          /\ prep' = [prep EXCEPT ![p].pc = "list",
                ![p].tree = [Nothing EXCEPT
                   !.parts = {"directories", "files", "links"},
                   !.as = IF shipped = prep[p].version THEN shipped ELSE 0]]
    /\ UNCHANGED <<shipped, roots, current, common, culls>>

\* Is the tree of the run still its staging directory?
Staged(p) == prep[p].tree # Nothing

\* refresh_mount_anchors lists the games, then makes their directories in the tree.
List(p) ==
    /\ At(p, "list")
    /\ prep' = [prep EXCEPT ![p].pc = "anchor", ![p].left = common]
    /\ UNCHANGED <<shipped, roots, current, common, bent, culls>>

\* A game that was removed since the list was made stops the run.
Anchor(p) ==
    /\ At(p, "anchor")
    /\ \E game \in prep[p].left :
          IF game \notin common THEN Fail(p) /\ UNCHANGED roots
          ELSE IF Staged(p)
          THEN /\ prep' = [prep EXCEPT ![p].left = @ \ {game},
                                       ![p].tree.anchors = @ \cup {game}]
               /\ UNCHANGED roots
          ELSE /\ prep' = [prep EXCEPT ![p].left = @ \ {game}]
               /\ roots' = [roots EXCEPT ![prep[p].version].anchors = @ \cup {game}]
    /\ UNCHANGED <<shipped, current, common, bent, culls>>

Anchored(p) ==
    /\ At(p, "anchor") /\ prep[p].left = {}
    /\ IF prep[p].only THEN Done(p)
       ELSE IF Staged(p)
       THEN prep' = [prep EXCEPT ![p].pc = "rename", ![p].tree.parts = @ \cup {"marker"}]
       ELSE Go(p, "select")
    /\ UNCHANGED <<shipped, roots, current, common, bent, culls>>

\* The root is put in place though another run has done it before.
RenameBug(p) ==
    /\ At(p, "rename")
    /\ roots' = [roots EXCEPT ![prep[p].version] = prep[p].tree]
    /\ Go(p, "select")
    /\ UNCHANGED <<shipped, current, common, bent, culls>>

\* os.replace: a root that another run has put there meanwhile is not replaced.
Rename(p) ==
    /\ At(p, "rename")
    /\ IF There(prep[p].version) THEN Fail(p) /\ UNCHANGED roots
       ELSE /\ roots' = [roots EXCEPT ![prep[p].version] = prep[p].tree]
            /\ Go(p, "select")
    /\ UNCHANGED <<shipped, current, common, bent, culls>>

\* select_current: a new link replaces the old one.
Select(p) ==
    /\ At(p, "select")
    /\ current' = prep[p].version
    /\ Done(p)
    /\ UNCHANGED <<shipped, roots, common, bent, culls>>

Killed(p) ==
    /\ culls < MaxKills /\ ~At(p, "idle")
    /\ culls' = culls + 1
    /\ prep' = [prep EXCEPT ![p] = Still]
    /\ UNCHANGED <<shipped, roots, current, common, bent>>

------------------------------------------------------------------------------
(* Steam *)

Ship ==
    /\ shipped < MaxVersion
    /\ shipped' = shipped + 1
    /\ UNCHANGED <<roots, current, common, prep, bent, culls>>

AddGame ==
    /\ \E game \in Games \ common : common' = common \cup {game}
    /\ UNCHANGED <<shipped, roots, current, prep, bent, culls>>

RemoveGame ==
    /\ \E game \in common :
          /\ common' = common \ {game}
          /\ prep' = [p \in Preparers |-> [prep[p] EXCEPT !.began = @ \ {game}]]
    /\ UNCHANGED <<shipped, roots, current, bent, culls>>

RootNext ==
    \/ \E p \in Preparers :
          \/ \E only \in BOOLEAN : Begin(p, only)
          \/ Selected(p) \/ Read(p) \/ Validate(p) \/ VerifySource(p) \/ CopySource(p)
          \/ List(p) \/ Anchor(p) \/ Anchored(p) \/ Rename(p) \/ Select(p) \/ Killed(p)
    \/ Ship \/ AddGame \/ RemoveGame

RootSpec == RootInit /\ [][RootNext]_rootVars

------------------------------------------------------------------------------
(* Properties *)

\* What launches use is a finished root of the version that its name says, whichever runs put
\* roots in place, choose between them and are killed; unless Steam has replaced a file between
\* its verification and its copy.
CurrentIsWhole ==
    current # 0 => /\ Parts \subseteq roots[current].parts
                   /\ bent \/ roots[current].as = current

\* A run that ends well leaves, in the root it has named, a directory for every game that was
\* installed from its beginning on, those another run has made included: nobody takes an
\* anchor away.
EndIsAnchored ==
    \A p \in Preparers :
        prep[p].exit = "ok" => prep[p].began \subseteq roots[prep[p].version].anchors

RootServes == CurrentIsWhole /\ EndIsAnchored

===============================================================================
