---------------------------- MODULE SeedLifecycle ----------------------------
(***************************************************************************)
(* What setup-steam-stack.py promises about the seed, with no transaction, *)
(* no receipt file and no crash in sight: at most one seed is installed;   *)
(* it appears whole, and it leaves only by becoming, in the same step, the *)
(* content of a rollback archive that held nothing.                        *)
(***************************************************************************)
CONSTANTS Seeds, Archives, None

VARIABLES
    installed,  \* the seed in use, or None
    archive     \* what each rollback archive holds

vars == <<installed, archive>>

Init ==
    /\ installed = None
    /\ archive = [q \in Archives |-> None]

\* A prepared seed comes into use.
Install(s) ==
    /\ installed = None
    /\ installed' = s
    /\ UNCHANGED archive

\* A rollback takes the seed out of use and keeps it.
Retire(q) ==
    /\ installed # None
    /\ archive[q] = None
    /\ archive' = [archive EXCEPT ![q] = installed]
    /\ installed' = None

Next ==
    \/ \E s \in Seeds : Install(s)
    \/ \E q \in Archives : Retire(q)

Spec == Init /\ [][Next]_vars
==============================================================================
