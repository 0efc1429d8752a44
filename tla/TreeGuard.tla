------------------------------ MODULE TreeGuard ------------------------------
(***************************************************************************)
(* The affinity guard of GTA IV (scripts/set-gtaiv-affinity.py --watch):   *)
(* poll after poll it looks for the processes of the application, gives    *)
(* each the processors of its role, reports once when all of the roles     *)
(* have been in place for a while, and leaves when the tree has been gone  *)
(* for a while.                                                            *)
(*                                                                         *)
(* The tree is built and ended by Proton and by the game's own launcher    *)
(* between any two steps of the guard; a number of a process that has      *)
(* ended may be that of another one at the next step.                      *)
(*                                                                         *)
(* The operators called ...Bug each hold the definition after them with    *)
(* one mistake, for mutation runs.                                         *)
(***************************************************************************)
EXTENDS FiniteSetsExt, Naturals

CONSTANTS
    Helpers,        \* roles beside the game: wine, service, tracer
    MaxPid,         \* bound: processes have the numbers 1..MaxPid
    MaxStarts,      \* bound: processes that are started
    MaxUpsets,      \* bound: masks set by others, windows hidden, groups left
    StablePolls,    \* polls in stable_seconds
    IdlePolls       \* polls in exit_idle_seconds

VARIABLES
    tree,           \* the processes
    shown,          \* is the window of the application visible?
    watch,          \* the guard
    starts, upsets

treeVars == <<tree, shown, watch, starts, upsets>>

------------------------------------------------------------------------------
(* Data *)

TreeGuardAssumption ==
    /\ MaxPid \in Nat \ {0} /\ MaxStarts \in Nat /\ MaxUpsets \in Nat
    /\ StablePolls \in Nat \ {0} /\ IdlePolls \in Nat \ {0}

Pids == 1..MaxPid

\* classify_process; MASKS gives each a set of processors.
Roles == {"game"} \cup Helpers

Process == [role : Roles \cup {"none"}, mask : Roles \cup {"own"}, top : BOOLEAN]

NoProcess == [role |-> "none", mask |-> "own", top |-> TRUE]

\* found: the roles that the scan of this poll has seen, by number; left: those not yet placed;
\* idle, stable: polls since idle_since and stable_since, 0 for None.
\* whole, empty: the polls in a row, up to this one, that have found every role and the window,
\* and no process at all.
Watch == [pc : {"scan", "place", "again", "settle", "end"},
          found : [Pids -> Roles \cup {"none"}], left : SUBSET Pids, ready : BOOLEAN,
          seen : SUBSET {"app", "game"}, idle : 0..IdlePolls, stable : 0..StablePolls,
          reported : BOOLEAN, exit : {"none", "gone", "failed"},
          whole : 0..(StablePolls + 1), empty : 0..(IdlePolls + 1)]

TreeInit ==
    /\ tree = [p \in Pids |-> NoProcess]
    /\ shown = FALSE
    /\ watch = [pc |-> "scan", found |-> [p \in Pids |-> "none"], left |-> {}, ready |-> FALSE,
                seen |-> {}, idle |-> 0, stable |-> 0, reported |-> FALSE, exit |-> "none",
                whole |-> 0, empty |-> 0]
    /\ starts = 0 /\ upsets = 0

There(p) == tree[p].role # "none"

Found(role) == {p \in Pids : watch.found[p] = role}

Surrender == watch' = [watch EXCEPT !.pc = "end", !.exit = "failed"]

\* A count that stays at its bound.
Counted(n, bound) == IF n < bound THEN n + 1 ELSE n

------------------------------------------------------------------------------
(* The guard: one poll *)

\* The idle time begins anew with each poll.
ScanBug ==
    /\ watch.pc = "scan"
    /\ LET found == [p \in Pids |-> tree[p].role]
           nothing == \A p \in Pids : ~There(p)
           leaves == nothing /\ "app" \in watch.seen /\ watch.idle >= IdlePolls
       IN IF Cardinality({p \in Pids : found[p] = "game"}) > 1 THEN Surrender
          ELSE watch' = [watch EXCEPT
             !.pc = IF leaves THEN "end" ELSE "place",
             !.exit = IF leaves THEN "gone" ELSE @,
             !.found = found, !.left = {p \in Pids : There(p)},
             !.ready = {found[p] : p \in Pids} \ {"none"} = Roles,
             !.seen = IF nothing THEN @ ELSE @ \cup {"app"},
             !.idle = IF nothing /\ "app" \in watch.seen THEN 1 ELSE 0,
             !.empty = IF nothing THEN Counted(@, IdlePolls + 1) ELSE 0]
    /\ UNCHANGED <<tree, shown, starts, upsets>>

\* More than one game ends the guard; a tree that was seen and is gone, after the idle time.
Scan ==
    /\ watch.pc = "scan"
    /\ LET found == [p \in Pids |-> tree[p].role]
           nothing == \A p \in Pids : ~There(p)
           leaves == nothing /\ "app" \in watch.seen /\ watch.idle >= IdlePolls
       IN IF Cardinality({p \in Pids : found[p] = "game"}) > 1 THEN Surrender
          ELSE watch' = [watch EXCEPT
             !.pc = IF leaves THEN "end" ELSE "place",
             !.exit = IF leaves THEN "gone" ELSE @,
             !.found = found, !.left = {p \in Pids : There(p)},
             !.ready = {found[p] : p \in Pids} \ {"none"} = Roles,
             !.seen = IF nothing THEN @ ELSE @ \cup {"app"},
             !.idle = IF ~nothing THEN 0
                      ELSE IF "app" \in watch.seen THEN Counted(@, IdlePolls) ELSE @,
             !.empty = IF nothing THEN Counted(@, IdlePolls + 1) ELSE 0]
    /\ UNCHANGED <<tree, shown, starts, upsets>>

Turn == Min(watch.left)

Placed(ready) == [watch EXCEPT !.pc = "place", !.left = @ \ {Turn}, !.ready = @ /\ ready]

\* A process that has ended is tried again for as long as it does not come back.
PlaceBug ==
    /\ watch.pc = "place" /\ watch.left # {}
    /\ IF ~There(Turn) THEN UNCHANGED <<watch, tree>>
       ELSE IF ~tree[Turn].top THEN Surrender /\ UNCHANGED tree
       ELSE IF tree[Turn].mask = watch.found[Turn] THEN watch' = Placed(TRUE) /\ UNCHANGED tree
       ELSE /\ tree' = [tree EXCEPT ![Turn].mask = watch.found[Turn]]
            /\ watch' = [watch EXCEPT !.pc = "again"]
    /\ UNCHANGED <<shown, starts, upsets>>

\* validate_top_app and ensure_affinity, up to taskset; a process that has ended is no failure,
\* and the number may be another one's by now.
Place ==
    /\ watch.pc = "place" /\ watch.left # {}
    /\ IF ~There(Turn) THEN watch' = Placed(FALSE) /\ UNCHANGED tree
       ELSE IF ~tree[Turn].top THEN Surrender /\ UNCHANGED tree
       ELSE IF tree[Turn].mask = watch.found[Turn] THEN watch' = Placed(TRUE) /\ UNCHANGED tree
       ELSE /\ tree' = [tree EXCEPT ![Turn].mask = watch.found[Turn]]
            /\ watch' = [watch EXCEPT !.pc = "again"]
    /\ UNCHANGED <<shown, starts, upsets>>

\* The masks are read again after taskset.
Again ==
    /\ watch.pc = "again"
    /\ watch' = Placed(There(Turn) /\ tree[Turn].mask = watch.found[Turn])
    /\ UNCHANGED <<tree, shown, starts, upsets>>

\* Between the last of them and the window: the game has been seen.
Sighted ==
    /\ watch.pc = "place" /\ watch.left = {}
    /\ watch' = [watch EXCEPT !.pc = "settle",
                              !.seen = IF Found("game") = {} THEN @ ELSE @ \cup {"game"}]
    /\ UNCHANGED <<tree, shown, starts, upsets>>

InView == "game" \in watch.seen /\ shown

\* The interval is not begun again.
UnsettledBug == [watch EXCEPT !.pc = "scan", !.whole = 0]

\* The poll found something missing.
Unsettled == [watch EXCEPT !.pc = "scan", !.stable = 0, !.whole = 0]

\* The report reads the game's threads once more: a game that has just ended ends the guard.
Settling ==
    /\ watch.pc = "settle"
    /\ IF ~(watch.ready /\ InView) THEN watch' = Unsettled
       ELSE IF watch.stable < StablePolls \/ watch.reported
       THEN watch' = [watch EXCEPT !.pc = "scan", !.stable = Counted(@, StablePolls),
                                   !.whole = Counted(@, StablePolls + 1)]
       ELSE IF ~There(Min(Found("game"))) THEN Surrender
       ELSE watch' = [watch EXCEPT !.pc = "scan", !.reported = TRUE,
                                   !.whole = Counted(@, StablePolls + 1)]
    /\ UNCHANGED <<tree, shown, starts, upsets>>

\* The deadline; taskset that fails for a process that is there.
Exceed ==
    /\ watch.pc \in {"scan", "place"}
    /\ Surrender
    /\ UNCHANGED <<tree, shown, starts, upsets>>

------------------------------------------------------------------------------
(* The tree *)

\* A process has the mask of the one that starts it; Proton's launcher may start a second game.
Begin ==
    /\ starts < MaxStarts
    /\ \E p \in Pids, role \in Roles, mask \in {"own"} \cup {tree[q].mask : q \in Pids} :
          /\ ~There(p)
          /\ tree' = [tree EXCEPT ![p] = [role |-> role, mask |-> mask, top |-> TRUE]]
    /\ starts' = starts + 1
    /\ UNCHANGED <<shown, watch, upsets>>

End ==
    /\ \E p \in Pids :
          /\ There(p)
          /\ tree' = [tree EXCEPT ![p] = NoProcess]
          /\ shown' = (shown /\ tree[p].role # "game")
    /\ UNCHANGED <<watch, starts, upsets>>

Show ==
    /\ ~shown /\ \E p \in Pids : tree[p].role = "game"
    /\ shown' = TRUE
    /\ UNCHANGED <<tree, watch, starts, upsets>>

\* A thread sets its own mask, Android moves the application to the background, the window hides.
Upset ==
    /\ upsets < MaxUpsets
    /\ upsets' = upsets + 1
    /\ \/ \E p \in Pids : There(p) /\ tree' = [tree EXCEPT ![p].mask = "own"] /\ UNCHANGED shown
       \/ \E p \in Pids : There(p) /\ tree' = [tree EXCEPT ![p].top = FALSE] /\ UNCHANGED shown
       \/ shown /\ shown' = FALSE /\ UNCHANGED tree
    /\ UNCHANGED <<watch, starts>>

------------------------------------------------------------------------------

WatchSteps == Scan \/ Place \/ Again \/ Sighted \/ Settling

TreeNext == WatchSteps \/ Exceed \/ Begin \/ End \/ Show \/ Upset

\* The guard goes on; nothing is asked of the tree.
TreeSpec == TreeInit /\ [][TreeNext]_treeVars /\ WF_treeVars(WatchSteps)

------------------------------------------------------------------------------
(* Properties *)

\* What the guard reports has been whole, with its window, in every poll of the interval; and it
\* leaves only a tree that it has found gone in every poll of the idle time.
TellsRight ==
    /\ ~watch.reported /\ watch'.reported => watch.whole >= StablePolls
    /\ watch.exit = "none" /\ watch'.exit = "gone" =>
          /\ "app" \in watch.seen /\ watch.empty >= IdlePolls
          /\ \A p \in Pids : ~There(p)

TreeTold == [][TellsRight]_treeVars

\* A tree that is there to stay, with its window, is reported, or the guard fails; one that is
\* gone for good ends the guard.
TreeStays == shown /\ \A role \in Roles : \E p \in Pids : tree[p].role = role
TreeGone == "app" \in watch.seen /\ \A p \in Pids : ~There(p)

TreeWatched ==
    /\ <>[]TreeStays => <>(watch.reported \/ watch.exit # "none")
    /\ <>[]TreeGone => <>(watch.exit # "none")

==============================================================================
