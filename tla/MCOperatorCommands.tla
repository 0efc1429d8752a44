-------------------------- MODULE MCOperatorCommands --------------------------
(* The scripts an operator runs: the overlay of DXVK (DxvkOverlay), the installers of the     *)
(* runtimes (RuntimeInstall) and a series of benchmarks (BenchmarkSeries).  None touches the   *)
(* files of another, so that a behaviour is one of one of them, while the others stay as they  *)
(* began.                                                                                     *)
EXTENDS DxvkOverlay, RuntimeInstall, BenchmarkSeries

VARIABLE part

commandVars == <<part, overlayVars, installVars, seriesVars>>

\* With and without a fixed ceiling, a warmup, and a comparison: of nothing, of one of two
\* recorded passes, of both, of the only one, and of a pass that there is not.
Considered ==
  {[backend |-> "direct", fixed |-> TRUE, warmups |-> 0, list |-> {}],
   [backend |-> "direct", fixed |-> FALSE, warmups |-> 0, list |-> {1}],
   [backend |-> "direct", fixed |-> TRUE, warmups |-> 0, list |-> {1, 2}],
   [backend |-> "direct", fixed |-> TRUE, warmups |-> 1, list |-> {1}],
   [backend |-> "direct", fixed |-> TRUE, warmups |-> 1, list |-> {2}],
   [backend |-> "proot", fixed |-> FALSE, warmups |-> 1, list |-> {}]}

\* One of the initial states of each module.
NoInstall ==
    /\ InitialInstall /\ kind = "proot" /\ meddling
    /\ version = [p \in InstallerProcs |-> CHOOSE v \in Versions : TRUE]
NoSeries == InitialSeries /\ backend = "proot"

CommandsInit ==
    /\ part \in {"overlay", "runtime", "series"}
    /\ InitialOverlay
    /\ IF part = "runtime" THEN InitialInstall ELSE NoInstall
    /\ IF part = "series" THEN InitialSeries ELSE NoSeries

BesideOverlay == part = "overlay" /\ UNCHANGED <<part, installVars, seriesVars>>
BesideRuntime == part = "runtime" /\ UNCHANGED <<part, overlayVars, seriesVars>>
BesideSeries == part = "series" /\ UNCHANGED <<part, overlayVars, installVars>>

CommandsNext ==
    \/ BesideOverlay /\ OverlayNext
    \/ BesideRuntime /\ InstallNext
    \/ BesideSeries /\ SeriesNext

\* The fairness of OverlayFairSpec, InstallFairSpec and SeriesFairSpec.
CommandsSpec ==
    /\ CommandsInit /\ [][CommandsNext]_commandVars
    /\ WF_commandVars(BesideOverlay /\ OpStep)
    /\ SF_commandVars(BesideOverlay /\ BeginOp("restore", NoFile))
    /\ \A p \in InstallerProcs :
          /\ WF_commandVars(BesideRuntime /\ InstallerStep(p))
          /\ WF_commandVars(BesideRuntime /\ BeginInstall(p))
    /\ WF_commandVars(BesideSeries /\ pc # "running" /\ ControllerStep)

\* BenchmarkSeries!SeriesEnds: a series ends, or waits for ever for a launch that does not.
SeriesComesToEnd == part = "series" => SeriesEnds
================================================================================
