------------------------ MODULE MCPreparationAndLibrary ------------------------
(* What is there before a game is started: the files MCGamePreparation prepares, and the     *)
(* removable library (RemovableLibrary).  Neither touches what the other one does, so that a  *)
(* behaviour is one of either, while the other stays as it began.                             *)
EXTENDS MCGamePreparation, RemovableLibrary

\* The library before anything is set up on a card.
LibraryUnused ==
    LibraryInit /\ half = "layout" /\ kind = [l \in Links |-> "none"]

NothingPrepared ==
    /\ NoSettings /\ NoProton /\ NoBoth /\ NoDependencies /\ NoDownload /\ NoRoot /\ NoCache
    /\ NoClean

BeforehandInit ==
    \/ PreparationInit /\ LibraryUnused
    \/ part = "library" /\ NothingPrepared /\ LibraryInit

BeforehandNext ==
    \/ PreparationNext /\ UNCHANGED libraryVars
    \/ part = "library" /\ LibraryNext /\ UNCHANGED preparationVars

BeforehandSpec == BeforehandInit /\ [][BeforehandNext]_<<preparationVars, libraryVars>>

\* Commands are alike, and so are the files of a game.
BeforehandSymmetry == Permutations(Procs) \cup Permutations(Files)
================================================================================
