----------------------------- MODULE RuntimeStore -----------------------------
(***************************************************************************)
(* What the runtime installers promise of the directory they install to:   *)
(* an installation appears whole, in one step, where nothing was; no       *)
(* installer changes or replaces one; and the selector only moves to an    *)
(* installation that is there.  Their owner may edit or remove them.       *)
(***************************************************************************)
CONSTANTS
    Paths,      \* where an installation may be
    None,       \* no installation
    Whole       \* what an installer may put there

VARIABLES dest, current

store == <<dest, current>>

Init == dest = [x \in Paths |-> None] /\ current = None

Install(x) ==
    /\ dest[x] = None
    /\ \E tree \in Whole : dest' = [dest EXCEPT ![x] = tree]
    /\ UNCHANGED current

Select(x) == dest[x] # None /\ current' = x /\ UNCHANGED dest

Edit(x) ==
    /\ dest[x] # None
    /\ dest' = [dest EXCEPT ![x] = [version |-> dest[x].version, whole |-> dest[x].whole,
                                    edited |-> TRUE]]
    /\ UNCHANGED current

Remove(x) == dest' = [dest EXCEPT ![x] = None] /\ UNCHANGED current

Next == \E x \in Paths : Install(x) \/ Select(x) \/ Edit(x) \/ Remove(x)

Spec == Init /\ [][Next]_store

==============================================================================
