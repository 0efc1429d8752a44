---------------------------- MODULE MCBesideTheGame ----------------------------
(* What runs beside a game: the helpers of MCGameHelpers, and what holds processes and threads *)
(* during a pass (GameHold).  Their games are others, so that a behaviour is one of either,    *)
(* while the other stays as it began.                                                         *)
EXTENDS MCGameHelpers, GameHold

\* One of the initial states of GameHold.
NoHold == Init /\ mode = "cef" /\ live = {}

NoHelper ==
    /\ NoFex /\ NoRaider /\ NoTree /\ NoTool /\ NoTimer /\ NoLog /\ NoNoisy

BesideInit ==
    \/ HelpersInit /\ NoHold
    \/ part = "hold" /\ NoHelper /\ Init

BesideHelpers == part = "hold" /\ UNCHANGED helpersVars

BesideNext ==
    \/ HelpersNext /\ UNCHANGED vars
    \/ BesideHelpers /\ Next

\* The fairness of HelpersSpec and of FairSpec.
BesideSpec ==
    /\ BesideInit /\ [][BesideNext]_<<helpersVars, vars>>
    /\ WF_helpersVars(Goes /\ UNCHANGED vars)
    /\ WF_vars(BesideHelpers /\ HolderStep)

\* GameHold!HolderEnds: whatever is sent to it and whatever its targets do, the helper ends.
HoldEnds == part = "hold" => HolderEnds
================================================================================
