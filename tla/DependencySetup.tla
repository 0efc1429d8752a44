---------------------------- MODULE DependencySetup ----------------------------
(***************************************************************************)
(* The packages of Termux (scripts/setup-steam-stack.py dependencies       *)
(* --install): what is missing at first is noted in a transaction, the     *)
(* groups are installed one by one, and a receipt tells in the end what    *)
(* the setup has added.                                                    *)
(*                                                                         *)
(* The command may be killed at any step and run again; the user installs  *)
(* and removes packages, and updates the project with another profile.     *)
(*                                                                         *)
(* The operators called ...Bug each hold the definition after them with    *)
(* one mistake, for mutation runs.                                         *)
(***************************************************************************)
EXTENDS Naturals, Sequences, SequencesExt

CONSTANTS
    Groups,         \* the packages of the profile: a sequence of sets
    None,
    MaxTurns        \* bound: kills, and acts of the user

VARIABLES
    present,        \* the packages that are installed
    profile,        \* the hash of the profile
    transaction, receipt,
    setup,          \* the command
    first,          \* what was missing when the transaction was begun, by its report
    added,          \* what the package manager has installed for the setup
    dropped,        \* what the user has removed
    turns

dependencyVars == <<present, profile, transaction, receipt, setup, first, added, dropped, turns>>

------------------------------------------------------------------------------
(* Data *)

Packages == UNION ToSet(Groups)

\* initial: initial_missing; sha: the hash of the profile that was read.
Setup == [pc : {"idle", "look", "note", "install", "confirm", "report", "receipt", "drop"},
          group : 1..Len(Groups), initial : SUBSET Packages, sha : {1, 2},
          exit : {"none", "installed", "ready", "failed"}]

\* groups: the number of groups that are done.
Transactions == [sha : {1, 2}, initial : SUBSET Packages, groups : 0..Len(Groups)]
Receipts == [sha : {1, 2}, initial : SUBSET Packages]

DependencySetupAssumption ==
    /\ Groups # <<>> /\ MaxTurns \in Nat
    /\ \A some \in SUBSET Packages : some # None
    /\ None \notin Transactions \cup Receipts

Rest == [pc |-> "idle", group |-> 1, initial |-> {}, sha |-> 1, exit |-> "none"]

DependencyInit ==
    /\ present \in SUBSET Packages
    /\ profile = 1
    /\ transaction = None /\ receipt = None
    /\ setup = Rest
    /\ first = None /\ added = {} /\ dropped = {}
    /\ turns = 0

Missing == Packages \ present

GroupMissing == Groups[setup.group] \ present

End(exit) == setup' = [Rest EXCEPT !.exit = exit]

onlySetup == <<present, profile, transaction, receipt, first, added, dropped, turns>>

------------------------------------------------------------------------------
(* install_dependencies *)

Run ==
    /\ setup.pc = "idle"
    /\ setup' = [Rest EXCEPT !.pc = "look", !.sha = profile]
    /\ UNCHANGED onlySetup

Receipted ==
    /\ setup.pc = "look" /\ receipt # None
    /\ End(IF receipt.sha = setup.sha /\ Missing = {} THEN "ready" ELSE "failed")
    /\ UNCHANGED onlySetup

\* What is missing now is taken for what was missing at first.
ResumeBug ==
    /\ setup.pc = "look" /\ receipt = None /\ transaction # None
    /\ IF transaction.sha # setup.sha THEN End("failed")
       ELSE setup' = [setup EXCEPT !.pc = "install", !.initial = Missing]
    /\ UNCHANGED onlySetup

\* A transaction of another profile requires recovery; one of this profile is resumed with what
\* was missing when it was begun.
Resume ==
    /\ setup.pc = "look" /\ receipt = None /\ transaction # None
    /\ IF transaction.sha # setup.sha THEN End("failed")
       ELSE setup' = [setup EXCEPT !.pc = "install", !.initial = transaction.initial]
    /\ UNCHANGED onlySetup

Report ==
    /\ setup.pc = "look" /\ receipt = None /\ transaction = None
    /\ setup' = [setup EXCEPT !.pc = "note", !.initial = Missing]
    /\ UNCHANGED onlySetup

\* The transaction is replaced atomically, here with no group done, and after each group.
Note(groups) ==
    transaction' = [sha |-> setup.sha, initial |-> setup.initial, groups |-> groups]

Begin ==
    /\ setup.pc = "note"
    /\ Note(0)
    /\ first' = setup.initial
    /\ setup' = [setup EXCEPT !.pc = "install"]
    /\ UNCHANGED <<present, profile, receipt, added, dropped, turns>>

\* The package manager installs what it can, whatever it says in the end.
Install ==
    /\ setup.pc = "install"
    /\ \E done \in SUBSET GroupMissing :
          /\ present' = present \cup done
          /\ added' = added \cup done
    /\ \/ setup' = [setup EXCEPT !.pc = "confirm"]
       \/ GroupMissing # {} /\ End("failed")
    /\ UNCHANGED <<profile, transaction, receipt, first, dropped, turns>>

Confirm ==
    /\ setup.pc = "confirm"
    /\ IF GroupMissing # {} THEN End("failed") /\ UNCHANGED transaction
       ELSE /\ Note(setup.group)
            /\ setup' = IF setup.group < Len(Groups)
                        THEN [setup EXCEPT !.pc = "install", !.group = @ + 1]
                        ELSE [setup EXCEPT !.pc = "report"]
    /\ UNCHANGED <<present, profile, receipt, first, added, dropped, turns>>

Converged ==
    /\ setup.pc = "report"
    /\ IF Missing = {} THEN setup' = [setup EXCEPT !.pc = "receipt"] ELSE End("failed")
    /\ UNCHANGED onlySetup

WriteReceipt ==
    /\ setup.pc = "receipt"
    /\ receipt' = [sha |-> setup.sha, initial |-> setup.initial]
    /\ setup' = [setup EXCEPT !.pc = "drop"]
    /\ UNCHANGED <<present, profile, transaction, first, added, dropped, turns>>

Drop ==
    /\ setup.pc = "drop"
    /\ transaction' = None
    /\ End("installed")
    /\ UNCHANGED <<present, profile, receipt, first, added, dropped, turns>>

------------------------------------------------------------------------------
(* The rest *)

Turn == turns < MaxTurns /\ turns' = turns + 1

Killed ==
    /\ Turn /\ setup.pc # "idle"
    /\ setup' = Rest
    /\ UNCHANGED <<present, profile, transaction, receipt, first, added, dropped>>

UserInstalls ==
    /\ Turn
    /\ \E package \in Missing : present' = present \cup {package}
    /\ UNCHANGED <<profile, transaction, receipt, setup, first, added, dropped>>

UserRemoves ==
    /\ Turn
    /\ \E package \in present :
          present' = present \ {package} /\ dropped' = dropped \cup {package}
    /\ UNCHANGED <<profile, transaction, receipt, setup, first, added>>

Update ==
    /\ Turn /\ profile = 1 /\ profile' = 2
    /\ UNCHANGED <<present, transaction, receipt, setup, first, added, dropped>>

DependencyNext ==
    \/ Run \/ Receipted \/ Resume \/ Report \/ Begin \/ Install \/ Confirm \/ Converged
    \/ WriteReceipt \/ Drop
    \/ Killed \/ UserInstalls \/ UserRemoves \/ Update

DependencySpec == DependencyInit /\ [][DependencyNext]_dependencyVars

------------------------------------------------------------------------------
(* Properties *)

\* What the receipt, or the transaction before it, gives as missing at first is what was missing
\* before the first run, however often the command was killed and run again after it had
\* installed a part; so that the packages that the setup added are among them, but for those
\* that the user removed while it ran.
ReceiptTellsAdded ==
    /\ transaction # None => transaction.initial = first
    /\ receipt # None => receipt.initial = first
    /\ added \subseteq (IF first = None THEN {} ELSE first) \cup dropped

\* Nothing is receipted that was not installed, group by group.
ReceiptTellsInstalled ==
    receipt # None => Packages \subseteq present \cup dropped

DependenciesTold == ReceiptTellsAdded /\ ReceiptTellsInstalled

===============================================================================
