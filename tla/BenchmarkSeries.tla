--------------------------- MODULE BenchmarkSeries ---------------------------
(***************************************************************************)
(* run-tombraider-native-benchmark.py: a series of warmup and recorded     *)
(* passes, each with a cooldown, one launch of the game, and the search    *)
(* for what the launch has left: one new result and one new log of the     *)
(* affinity guard, in directories that every launch of the game writes to. *)
(* A game may outlive its launcher and write late, somebody else may play  *)
(* meanwhile, and a write of series.json or a print may fail.  A signal    *)
(* that ends the controller is no step: nothing handles it, and it leaves  *)
(* series.json as it is in the state where it comes.  The helpers of a     *)
(* held pass are GameHold's.                                               *)
(***************************************************************************)
EXTENDS Naturals, Sequences

CONSTANTS
  Total,          \* passes
  Arguments,      \* the arguments considered
  Stable,         \* ready samples in a row that end a cooldown
  MaxPolls,       \* samples until the cooldown times out
  Margin,         \* start_temperature_margin_c
  Fixed,          \* start_temperature_ceiling_c, where it is given
  Top,            \* the highest temperature; one more is a throttled or blind sample
  MaxStrangers,   \* bound on launches of the game by others
  MaxWriteFaults       \* bound on writes and prints that fail

ASSUME PassesAssumption == Total \in Nat \ {0}
ASSUME ArgumentsAssumption ==
  Arguments \subseteq [backend: {"direct", "proot"}, fixed: BOOLEAN,
                       warmups: 0..(Total - 1), list: SUBSET (1..Total)]
ASSUME CooldownAssumption == Stable \in Nat \ {0} /\ MaxPolls \in Nat /\ Margin \in Nat
ASSUME HeatAssumption == Top \in Nat /\ Fixed \in 0..Top
ASSUME BoundsAssumption == MaxStrangers \in Nat /\ MaxWriteFaults \in Nat

VARIABLES
  backend, fixed, warmups, list, \* rigid: the arguments
  pc,
  status, phase, runs,  \* the series in memory; the pass is Len(runs) + 1
  disk,                 \* series.json
  code,                 \* the exit status: 3 while there is none
  ceiling,              \* temperature_ceiling; Top + 1 for None
  polls, stable,        \* of wait_for_benchmark_ready
  samples,              \* history: the last samples of this cooldown
  oldResults, oldLogs,  \* result_before, guard_before
  result, log, exit,    \* what the pass has found, and the status of its launch
  playing,              \* the launches whose game runs
  wrote,                \* the launches whose game has written its result
  logged, guarded,      \* the launches with an affinity log, and with a ready one
  strangers, writeFaults

args == <<backend, fixed, warmups, list>>
series == <<status, phase, runs, disk, code>>
cooling == <<ceiling, polls, stable, samples>>
search == <<oldResults, oldLogs, result, log, exit>>
games == <<playing, wrote, logged, guarded, strangers>>
seriesVars == <<args, pc, series, cooling, search, games, writeFaults>>

Pass == Len(runs) + 1
NoLaunch == 0

\* The launches: those of the passes by number, then those of strangers.
Launches == 1..(Total + MaxStrangers)

Recorded(i) == i > warmups

\* use_cef_hold and its like: in the recorded passes listed.  A helper for all passes is
\* no comparison, and together with a list it is one that lists them all.
Held(i) == Recorded(i) /\ i - warmups \in list

\* aggregate_cef_hold_conditions and its like: a comparison has both conditions.
Comparable(rs) ==
  list # {} => \A held \in BOOLEAN :
    \E k \in 1..Len(rs) : Recorded(k) /\ Held(k) = held

Record == [status |-> status, phase |-> phase, runs |-> runs]

\* main refuses a list without the direct backend, and one with a pass that is not there.
\* The four experiments differ in nothing that is told apart here.
Admitted(a) == (a.list # {} => a.backend = "direct") /\ a.list \subseteq 1..(Total - a.warmups)

InitialSeries ==
  /\ \E a \in Arguments :
       /\ Admitted(a)
       /\ backend = a.backend /\ fixed = a.fixed /\ warmups = a.warmups /\ list = a.list
  /\ pc = "begin" /\ status = "initializing" /\ phase = "initializing" /\ runs = <<>>
  /\ disk = [status |-> "none", phase |-> "none", runs |-> <<>>] /\ code = 3
  /\ ceiling = (IF fixed THEN Fixed ELSE Top + 1)
  /\ polls = 0 /\ stable = 0 /\ samples = <<>>
  /\ oldResults = {} /\ oldLogs = {} /\ result = NoLaunch /\ log = NoLaunch /\ exit = "zero"
  /\ playing = {} /\ wrote = {} /\ logged = {} /\ guarded = {}
  /\ strangers = 0 /\ writeFaults = 0

-----------------------------------------------------------------------------
(* series.json                                                             *)

\* The handler of main: the series in memory is failed, and saved once more.
Raise == pc' = "failed" /\ status' = "failed" /\ phase' = "failed"

\* A phase is set and the series saved with the runs rs; the write may fail.
Save(st, ph, rs, next) ==
  \/ /\ status' = st /\ phase' = ph /\ runs' = rs /\ pc' = next
     /\ disk' = [status |-> st, phase |-> ph, runs |-> rs]
     /\ writeFaults' = writeFaults
  \/ /\ writeFaults < MaxWriteFaults /\ writeFaults' = writeFaults + 1
     /\ Raise /\ runs' = rs /\ disk' = disk

OutOfTime == polls = MaxPolls

\* A check of the controller does not hold, or a command of its own fails.
Fail ==
  /\ \/ pc \in {"preflight", "running", "results", "logs", "outcome"}
     \/ pc = "sample" /\ (ceiling > Top \/ OutOfTime)
     \/ pc = "sum" /\ ~Comparable(runs)
  /\ Raise
  /\ UNCHANGED <<args, runs, disk, code, cooling, search, games, writeFaults>>

\* The series is never on disk if main gives up before it has made its directory.
Refuse ==
  /\ pc = "begin" /\ pc' = "end" /\ code' = 1
  /\ UNCHANGED <<args, status, phase, runs, disk, cooling, search, games, writeFaults>>

BeginSeries ==
  /\ pc = "begin" /\ Save("initializing", "initializing", <<>>, "preflight")
  /\ UNCHANGED <<args, code, cooling, search, games>>

\* The profile and topology checks or the primer, the one Steam process, the display.
Preflight ==
  /\ pc = "preflight" /\ pc' = "pass"
  /\ UNCHANGED <<args, series, cooling, search, games, writeFaults>>

\* The last write and the exit status of a failed series.
RecordFailure ==
  /\ pc = "failed" /\ pc' = "end" /\ code' = 1
  /\ \/ disk' = Record /\ writeFaults' = writeFaults
     \/ writeFaults < MaxWriteFaults /\ writeFaults' = writeFaults + 1 /\ disk' = disk
  /\ UNCHANGED <<args, status, phase, runs, cooling, search, games>>

-----------------------------------------------------------------------------
(* The cooldown.                                                           *)

BeginPass ==
  /\ pc = "pass" /\ Len(runs) < Total
  /\ Save("running", IF ceiling > Top THEN "preflight" ELSE "cooldown", runs, "sample")
  /\ UNCHANGED <<args, code, cooling, search, games>>

\* system_snapshot, for the hottest zone; the last value stands for a throttled CPU or GPU
\* and for zones that cannot be read.
Snapshots == 0..(Top + 1)

\* require_unthrottled and maximum_temperature_millidegrees set the ceiling of the series.
FirstSample ==
  /\ pc = "sample" /\ ceiling > Top
  /\ \E heat \in Snapshots \ {Top + 1} :
       /\ ceiling' = (IF heat + Margin > Top THEN Top ELSE heat + Margin)
       /\ samples' = <<heat>>
  /\ pc' = "look"
  /\ UNCHANGED <<args, series, polls, stable, search, games, writeFaults>>

\* benchmark_readiness_issues: neither throttled nor above the ceiling.
Cool(heat) == heat <= ceiling

Counted(heat) == IF Cool(heat) THEN stable + 1 ELSE 0

\* Mutant: the time since the last sample is compared with the timeout.
ElapsedBug == 0

Elapsed == polls + 1

\* wait_for_benchmark_ready; Fail is its timeout.
CoolSample ==
  /\ pc = "sample" /\ ceiling <= Top /\ ~OutOfTime
  /\ \E heat \in Snapshots :
       /\ samples' = (IF Len(samples) < Stable THEN Append(samples, heat)
                      ELSE Append(Tail(samples), heat))
       /\ stable' = Counted(heat)
       /\ pc' = (IF Counted(heat) >= Stable THEN "look" ELSE "sample")
  /\ polls' = Elapsed /\ ceiling' = ceiling
  /\ UNCHANGED <<args, series, search, games, writeFaults>>

-----------------------------------------------------------------------------
(* The launch, and what it has left.                                       *)

\* Mutant: what was there before is not looked at.
LookBug ==
  /\ pc = "look" /\ pc' = "launch"
  /\ oldResults' = {} /\ oldLogs' = logged
  /\ UNCHANGED <<args, series, cooling, result, log, exit, games, writeFaults>>

\* file_state of the results and of the logs of the guard.
Look ==
  /\ pc = "look" /\ pc' = "launch"
  /\ oldResults' = wrote /\ oldLogs' = logged
  /\ UNCHANGED <<args, series, cooling, result, log, exit, games, writeFaults>>

\* The phase is saved, then the launch command is started.
StartLaunch ==
  /\ pc = "launch" /\ Save("running", "launching_or_running", runs, "running")
  /\ playing' = (IF pc' = "running" THEN playing \cup {Pass} ELSE playing)
  /\ polls' = 0 /\ stable' = 0 /\ samples' = <<>> /\ ceiling' = ceiling
  /\ UNCHANGED <<args, code, search, wrote, logged, guarded, strangers>>

\* The launch command ends: with 0, with the abort of PulseAudio after the result, or
\* otherwise.  Without the direct backend only 0 is no failure.  Its game may live on.
LaunchEnds ==
  /\ pc = "running"
  /\ exit' \in IF backend = "direct" THEN {"zero", "abort", "other"} ELSE {"zero"}
  /\ Save("running", "validating_result", runs, "results")
  /\ UNCHANGED <<args, code, cooling, oldResults, oldLogs, result, log, games>>

\* new_regular_files and affinity_log_is_ready for the logs of the guard.
Ready == (logged \ oldLogs) \cap guarded

\* new_regular_files; Fail is what parse_benchmark_result and
\* validate_benchmark_quality_settings do not like in the one result.
FindResult ==
  /\ pc = "results"
  /\ \E l \in Launches : wrote \ oldResults = {l} /\ result' = l
  /\ pc' = "logs"
  /\ UNCHANGED <<args, series, cooling, oldResults, oldLogs, log, exit, games, writeFaults>>

\* Exactly one of the new logs is ready.
FindLog ==
  /\ pc = "logs"
  /\ \E l \in Launches : Ready = {l} /\ log' = l
  /\ pc' = "outcome"
  /\ UNCHANGED <<args, series, cooling, oldResults, oldLogs, result, exit, games, writeFaults>>

\* Mutant: the abort is excused although the game lives.
ExcusedBug == exit \in {"zero", "abort"}

\* validate_post_result_pulse_abort: only that abort is excused, and only without a game.
Excused == exit = "zero" \/ (exit = "abort" /\ playing = {})

\* The copies, the last snapshot, and the run.
Accept ==
  /\ pc = "outcome" /\ Excused
  /\ Save("running", "result_accepted",
          Append(runs, [result |-> result, log |-> log, aborted |-> exit = "abort"]),
          "pass")
  /\ result' = NoLaunch /\ log' = NoLaunch /\ exit' = "zero" /\ oldResults' = {} /\ oldLogs' = {}
  /\ UNCHANGED <<args, code, cooling, games>>

\* aggregate_results, and the comparison if there is one; Fail is its refusal.
Aggregate ==
  /\ pc = "pass" /\ Len(runs) = Total /\ pc' = "sum"
  /\ UNCHANGED <<args, series, cooling, search, games, writeFaults>>

\* Mutant: the comparison is not asked for both of its conditions.
CompleteBug ==
  /\ pc = "sum"
  /\ Save("complete", "complete", runs, "print")
  /\ UNCHANGED <<args, code, cooling, search, games>>

Complete ==
  /\ pc = "sum" /\ Comparable(runs)
  /\ Save("complete", "complete", runs, "print")
  /\ UNCHANGED <<args, code, cooling, search, games>>

\* A print that fails makes a failed series of the complete one.
PrintAverage ==
  /\ pc = "print"
  /\ \/ pc' = "end" /\ code' = 0 /\ UNCHANGED <<status, phase, writeFaults>>
     \/ writeFaults < MaxWriteFaults /\ writeFaults' = writeFaults + 1 /\ Raise /\ code' = code
  /\ UNCHANGED <<args, runs, disk, cooling, search, games>>

ControllerStep ==
  Refuse \/ BeginSeries \/ Preflight \/ BeginPass \/ FirstSample \/ CoolSample \/ Look
    \/ StartLaunch \/ FindResult \/ FindLog \/ Accept \/ Aggregate \/ Complete \/ PrintAverage \/ Fail
    \/ RecordFailure

-----------------------------------------------------------------------------
(* The games.                                                              *)

\* They matter until the series is decided.
Outside ==
  pc \notin {"sum", "print", "failed", "end"}
    /\ UNCHANGED <<args, pc, series, cooling, search, writeFaults>>

\* Somebody else starts the game.
StrangerPlays ==
  /\ strangers < MaxStrangers /\ strangers' = strangers + 1
  /\ playing' = playing \cup {Total + strangers'}
  /\ Outside /\ UNCHANGED <<wrote, logged, guarded>>

\* The guard of a launch opens its log, and finds every thread in its place.
GuardLogs(l) ==
  /\ l \in playing /\ l \notin logged
  /\ logged' = logged \cup {l}
  /\ Outside /\ UNCHANGED <<playing, wrote, guarded, strangers>>

GuardReady(l) ==
  /\ l \in playing /\ l \in logged /\ l \notin guarded
  /\ guarded' = guarded \cup {l}
  /\ Outside /\ UNCHANGED <<playing, wrote, logged, strangers>>

\* A game writes its result.
Writes(l) ==
  /\ l \in playing /\ l \notin wrote
  /\ wrote' = wrote \cup {l}
  /\ Outside /\ UNCHANGED <<playing, logged, guarded, strangers>>

PlayEnds(l) ==
  /\ l \in playing /\ playing' = playing \ {l}
  /\ Outside /\ UNCHANGED <<wrote, logged, guarded, strangers>>

SeriesNext ==
  \/ ControllerStep \/ LaunchEnds \/ StrangerPlays
  \/ \E l \in Launches : GuardLogs(l) \/ GuardReady(l) \/ Writes(l) \/ PlayEnds(l)

SeriesSpec == InitialSeries /\ [][SeriesNext]_seriesVars

\* The controller is a process that is scheduled.  It waits for the launch command without a
\* deadline, and so does the command for a request of Steam that need not come: nothing says
\* that a launch ends, well or not.
SeriesFairSpec == SeriesSpec /\ WF_seriesVars(pc # "running" /\ ControllerStep)

-----------------------------------------------------------------------------
(* Properties.                                                             *)

PassRecord == [result: Launches, log: Launches, aborted: BOOLEAN]
SeriesStatuses == {"none", "initializing", "running", "complete", "failed"}

\* The variables have their types; what was found before a launch is still there.
SeriesTypeOK ==
  /\ backend \in {"direct", "proot"} /\ fixed \in BOOLEAN
  /\ warmups \in 0..(Total - 1) /\ list \subseteq 1..(Total - warmups)
  /\ status \in SeriesStatuses /\ code \in {0, 1, 3} /\ exit \in {"zero", "abort", "other"}
  /\ runs \in Seq(PassRecord) /\ Len(runs) <= Total
  /\ ceiling \in 0..(Top + 1) /\ polls \in 0..MaxPolls /\ stable \in 0..Stable
  /\ oldResults \subseteq wrote /\ oldLogs \subseteq logged
  /\ result \in {NoLaunch} \cup Launches /\ log \in {NoLaunch} \cup Launches
  /\ playing \subseteq Launches /\ wrote \subseteq Launches
  /\ guarded \subseteq logged /\ logged \subseteq Launches
  /\ strangers \in 0..MaxStrangers /\ writeFaults \in 0..MaxWriteFaults

\* No result and no log is counted for two passes; and while nobody else plays, a pass is
\* given its own result and its own ready log, even when games outlive their launchers and
\* write late (new_regular_files).
AcceptedIsOwn ==
  /\ \A i, j \in 1..Len(runs) :
       i # j => runs[i].result # runs[j].result /\ runs[i].log # runs[j].log
  /\ \A i \in 1..Len(runs) :
       /\ runs[i].result \in wrote /\ runs[i].log \in guarded
       /\ strangers = 0 => runs[i].result = i /\ runs[i].log = i

\* A pass is launched only out of a cooldown whose last samples were all ready, one after
\* the other; only the first pass of a series without a fixed ceiling has none.
LaunchedCool ==
  pc = "launch" =>
    \/ Len(samples) = Stable /\ \A k \in 1..Stable : Cool(samples[k])
    \/ ~fixed /\ runs = <<>> /\ Len(samples) = 1

\* After a launch that ended with the excused abort, the next game of the series runs alone:
\* the game that aborted cannot disturb it (validate_post_result_pulse_abort).
AloneAfterAbort ==
  \A i \in 1..Len(runs) :
    runs[i].aborted /\ i + 1 = Pass /\ strangers = 0 => playing \subseteq {Pass}

\* A pass that counts is its own, and was played on a device that had cooled down, alone.  With
\* the types.
PassesCount == SeriesTypeOK /\ AcceptedIsOwn /\ LaunchedCool /\ AloneAfterAbort

\* series.json tells the truth: it is complete only with every pass and, for a comparison,
\* with both conditions; exit status 0 means that it is complete, and 1 that it is not, unless
\* the write that should say so has failed too.
FileTells ==
  /\ disk.status = "complete" => Len(disk.runs) = Total /\ Comparable(disk.runs)
  /\ code = 0 => disk.status = "complete"
  /\ code = 1 /\ disk.status = "complete" => writeFaults >= 2

\* A series comes to an end, or waits for ever for a launch that does not: nothing else, the
\* cooldowns on a device that never cools least of all, goes on without end.
SeriesEnds == <>(pc = "end") \/ <>[](pc = "running")
=============================================================================
