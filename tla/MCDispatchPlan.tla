---------------------------- MODULE MCDispatchPlan ----------------------------
(***************************************************************************)
(* One request to a server of scripts/pressure-vessel-direct-dispatch.py,  *)
(* in any mode and with any of the settings that DispatchPlan tries; shown *)
(* is what the game then finds in its environment.                         *)
(***************************************************************************)
EXTENDS DispatchPlan

VARIABLES mode, settings, served, shown

vars == <<mode, settings, served, shown>>

MCInit ==
    /\ mode \in Modes
    /\ settings \in Selections
    /\ served = FALSE
    /\ shown = {}

\* serve receives the request and executes its plan, unless the plan is refused.
Serve ==
    LET preset == <<"preset", "720p-high">> \in settings
        plan == Planned(Request(mode, settings, EnvNames, Asks(mode, preset), {}))
    IN /\ ~served
       /\ served' = TRUE
       /\ shown' = IF plan.ok THEN UNION {{<<n, w>> : w \in plan.env[n]} : n \in EnvNames} ELSE {}
       /\ UNCHANGED <<mode, settings>>

MCSpec == MCInit /\ [][Serve]_vars

\* What a profile switches on reaches the game that carries its name: the full checks of
\* self-modifying code under the name smc-full, as the test of the profiles has it.
ProfileReaches == <<"STEAM_ARM64_FEX_PROFILE", "smc-full">> \in shown => SmcFull \in shown

===============================================================================
