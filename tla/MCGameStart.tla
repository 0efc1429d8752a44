------------------------------ MODULE MCGameStart ------------------------------
(* A game is started: the scripts around it (DirectLaunch), and the dispatch of a request      *)
(* from Steam's container to the server (DirectDispatch).  Each stands for the other in one    *)
(* action of its own, so that a behaviour is one of either, while the other stays as it began. *)
EXTENDS DirectDispatch, DirectLaunch

VARIABLE part

\* No server and no client yet; no script, and no probe to come.
NoDispatch == DispatchInit /\ \A c \in Clients : cli[c].sound
NoLaunch == Init /\ ~gated

StartInit ==
    \/ part = "dispatch" /\ DispatchInit /\ NoLaunch
    \/ part = "launch" /\ NoDispatch /\ Init

BesideLaunch == part = "dispatch" /\ UNCHANGED <<part, vars>>
BesideDispatch == part = "launch" /\ UNCHANGED <<part, dispatchVars>>

StartNext ==
    \/ BesideLaunch /\ DispatchNext
    \/ BesideDispatch /\ Next

\* The fairness of DispatchFairSpec and of FairSpec.
StartSpec ==
    /\ StartInit /\ [][StartNext]_<<part, dispatchVars, vars>>
    /\ \A s \in Servers :
          /\ WF_dispatchVars(BesideLaunch /\ Serve(s))
          /\ WF_dispatchVars(BesideLaunch /\ RunChild(s))
    /\ \A c \in Clients : WF_dispatchVars(BesideLaunch /\ Send(c))
    /\ WF_vars(BesideDispatch /\ ProbeStep) /\ WF_vars(BesideDispatch /\ LaunchStep)
    /\ WF_vars(BesideDispatch /\ (ServerGate \/ ServerStart))
    /\ WF_vars(BesideDispatch /\ GameEnds)
================================================================================
