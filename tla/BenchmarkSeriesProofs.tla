------------------------ MODULE BenchmarkSeriesProofs ------------------------
(***************************************************************************)
(* The safety properties of BenchmarkSeries for any number of passes, any  *)
(* arguments, temperatures and limits, and any number of strangers and of  *)
(* failing writes.  They follow from SeriesInv, which says at each step of *)
(* the controller what the cooldown has seen, what is old, and which games *)
(* there can be.                                                           *)
(***************************************************************************)
EXTENDS BenchmarkSeries, TLAPS

\* A pass is in the cooldown, launched, or being judged.
Judging == {"results", "logs", "outcome"}
Out == {"running"} \cup Judging
Cooling == {"sample", "look", "launch"}
Before == {"begin", "preflight", "pass"} \cup Cooling
Pcs == Before \cup Out \cup {"sum", "print", "failed", "end"}

\* How many runs there are at each step.
CountInv ==
  /\ pc \in Pcs
  /\ pc \in Cooling \cup Out => Len(runs) < Total
  /\ pc \in {"sum", "print"} => Len(runs) = Total
  /\ pc = "begin" => runs = <<>>

\* The last samples of a cooldown that counted were cool.
CoolTail ==
  /\ stable <= Len(samples)
  /\ \A k \in 1..Len(samples) : k + stable > Len(samples) => Cool(samples[k])

Cooled ==
  \/ Len(samples) = Stable /\ \A k \in 1..Stable : Cool(samples[k])
  \/ ~fixed /\ runs = <<>> /\ Len(samples) = 1

\* What a cooldown has seen at each step; without a ceiling there was none yet.
CoolInv ==
  /\ samples \in Seq(Snapshots) /\ Len(samples) <= Stable
  /\ pc \in {"begin", "preflight", "pass"} \cup Out => stable = 0 /\ samples = <<>>
  /\ pc = "sample" => stable < Stable /\ CoolTail
  /\ pc \in {"look", "launch"} => Cooled
  /\ ceiling > Top => ~fixed /\ runs = <<>>
  /\ pc \in {"look", "launch"} \cup Out => ceiling <= Top

\* Whatever has been counted is old; what the pass has found is new.
SearchInv ==
  /\ pc \in {"launch"} \cup Out =>
       \A i \in 1..Len(runs) : runs[i].result \in oldResults /\ runs[i].log \in oldLogs
  /\ pc \in {"logs", "outcome"} => result \in wrote \ oldResults
  /\ pc = "outcome" => log \in Ready

\* While nobody else plays, there are only games of the passes launched so far.
MineInv ==
  strangers = 0 =>
    /\ pc \in Before => playing \cup wrote \cup logged \subseteq 1..Len(runs)
    /\ pc \in Out => playing \cup wrote \cup logged \subseteq 1..Pass
    /\ pc \in {"logs", "outcome"} => result = Pass
    /\ pc = "outcome" => log = Pass

\* What series.json says at each step.
FileInv ==
  /\ disk.status = "complete" => pc \in {"print", "failed", "end"}
  /\ pc = "print" => disk.status = "complete"
  /\ pc = "failed" => status = "failed" /\ (disk.status = "complete" => writeFaults >= 1)
  /\ code # 3 => pc = "end"

SeriesInv ==
  /\ SeriesTypeOK /\ CountInv /\ CoolInv /\ SearchInv /\ MineInv /\ FileInv
  /\ AcceptedIsOwn /\ AloneAfterAbort /\ FileTells

USE PassesAssumption, CooldownAssumption, HeatAssumption, BoundsAssumption
  DEF args, series, cooling, search, games, Pass, NoLaunch, Launches, Judging, Out, Cooling,
      Before, Pcs

-----------------------------------------------------------------------------
(* The steps: those of a game leave the controller alone.                  *)

GameStep ==
  \/ StrangerPlays
  \/ \E l \in Launches : GuardLogs(l) \/ GuardReady(l) \/ Writes(l) \/ PlayEnds(l)

LEMMA TypeStep == SeriesInv /\ [SeriesNext]_seriesVars => SeriesTypeOK'
<1> SUFFICES ASSUME SeriesInv, [SeriesNext]_seriesVars PROVE SeriesTypeOK'
  OBVIOUS
<1>0. SeriesTypeOK /\ CountInv /\ CoolInv /\ SearchInv
  BY DEF SeriesInv
<1>1. CASE Refuse \/ Preflight \/ Look \/ Aggregate \/ UNCHANGED seriesVars
  BY <1>0, <1>1 DEF SeriesTypeOK, Refuse, Preflight, Look, Aggregate, seriesVars
<1>2. CASE BeginSeries
  <2>1. /\ status' \in SeriesStatuses /\ runs' = <<>>
        /\ writeFaults' \in {writeFaults, writeFaults + 1}
        /\ (writeFaults' = writeFaults \/ writeFaults < MaxWriteFaults)
        /\ UNCHANGED <<args, code, cooling, search, games>>
    BY <1>2 DEF BeginSeries, Save, Raise, SeriesStatuses
  <2>2. <<>> \in Seq(PassRecord) /\ Len(<<>>) <= Total
    OBVIOUS
  <2>3. runs' \in Seq(PassRecord) /\ Len(runs') <= Total
    BY <2>1, <2>2
  <2>4. QED
    BY <1>0, <2>1, <2>3 DEF SeriesTypeOK
<1>3. CASE BeginPass
  BY <1>0, <1>3 DEF SeriesTypeOK, BeginPass, Save, Raise, SeriesStatuses
<1>4. CASE FirstSample
  BY <1>0, <1>4 DEF SeriesTypeOK, FirstSample, Snapshots
<1>5. CASE CoolSample
  BY <1>0, <1>5 DEF SeriesTypeOK, CoolSample, Snapshots, OutOfTime, Elapsed, Counted, CoolInv
<1>6. CASE StartLaunch
  <2>1. /\ status' \in SeriesStatuses /\ runs' = runs
        /\ (writeFaults' = writeFaults \/ writeFaults < MaxWriteFaults)
        /\ writeFaults' \in {writeFaults, writeFaults + 1} /\ playing' \subseteq playing \cup {Pass}
        /\ polls' = 0 /\ stable' = 0 /\ ceiling' = ceiling
        /\ UNCHANGED <<args, code, search, wrote, logged, guarded, strangers>>
    BY <1>6 DEF StartLaunch, Save, Raise, SeriesStatuses
  <2>2. Pass \in Launches
    BY <1>0, <1>6 DEF SeriesTypeOK, CountInv, StartLaunch
  <2>3. QED
    BY <1>0, <2>1, <2>2 DEF SeriesTypeOK
<1>7. CASE LaunchEnds
  BY <1>0, <1>7 DEF SeriesTypeOK, LaunchEnds, Save, Raise, SeriesStatuses
<1>8. CASE FindResult \/ FindLog
  BY <1>0, <1>8 DEF SeriesTypeOK, FindResult, FindLog
<1>9. CASE Accept
  <2>1. [result |-> result, log |-> log, aborted |-> exit = "abort"] \in PassRecord
    BY <1>0, <1>9 DEF Accept, SearchInv, SeriesTypeOK, PassRecord, Ready
  <2>2. runs' \in Seq(PassRecord) /\ Len(runs') <= Total
    BY <1>0, <1>9, <2>1 DEF Accept, Save, SeriesTypeOK, CountInv
  <2>3. QED
    BY <1>0, <1>9, <2>2 DEF SeriesTypeOK, Accept, Save, Raise, SeriesStatuses
<1>10. CASE Complete
  BY <1>0, <1>10 DEF SeriesTypeOK, Complete, Save, Raise, SeriesStatuses
<1>11. CASE PrintAverage \/ RecordFailure
  <2>1. /\ status' \in {status, "failed"} /\ code' \in {0, 1, code}
        /\ writeFaults' \in {writeFaults, writeFaults + 1}
        /\ (writeFaults' = writeFaults \/ writeFaults < MaxWriteFaults)
        /\ UNCHANGED <<args, runs, cooling, search, games>>
    BY <1>11 DEF PrintAverage, RecordFailure, Raise
  <2>2. QED
    BY <1>0, <2>1 DEF SeriesTypeOK, SeriesStatuses
<1>12. CASE Fail
  BY <1>0, <1>12 DEF SeriesTypeOK, Fail, Raise, SeriesStatuses
<1>13. CASE StrangerPlays
  BY <1>0, <1>13 DEF SeriesTypeOK, StrangerPlays, Outside
<1>14. ASSUME NEW l \in Launches, GuardLogs(l) \/ GuardReady(l) \/ Writes(l) \/ PlayEnds(l)
       PROVE  SeriesTypeOK'
  BY <1>0, <1>14 DEF SeriesTypeOK, GuardLogs, GuardReady, Writes, PlayEnds, Outside
<1>15. QED
  BY <1>1, <1>2, <1>3, <1>4, <1>5, <1>6, <1>7, <1>8, <1>9, <1>10, <1>11, <1>12, <1>13, <1>14
     DEF SeriesNext, ControllerStep

LEMMA CountStep == SeriesInv /\ [SeriesNext]_seriesVars => CountInv'
<1> SUFFICES ASSUME SeriesInv, [SeriesNext]_seriesVars PROVE CountInv'
  OBVIOUS
<1>0. SeriesTypeOK /\ CountInv
  BY DEF SeriesInv
<1> USE DEF CountInv
<1>1. CASE BeginSeries \/ BeginPass \/ StartLaunch \/ LaunchEnds \/ Complete
  BY <1>0, <1>1
    DEF BeginSeries, BeginPass, StartLaunch, LaunchEnds, Complete, Save, Raise, SeriesTypeOK
<1>2. CASE Accept
  <2>1. Len(runs') = Len(runs) + 1 /\ pc' \in {"pass", "failed"}
    BY <1>0, <1>2 DEF Accept, Save, Raise, SeriesTypeOK
  <2>2. QED
    BY <1>0, <1>2, <2>1 DEF Accept
<1>3. CASE Refuse \/ Preflight \/ FirstSample \/ Look \/ FindResult \/ FindLog \/ Aggregate
  BY <1>0, <1>3 DEF Refuse, Preflight, FirstSample, Look, FindResult, FindLog, Aggregate
<1>4. CASE CoolSample \/ PrintAverage \/ RecordFailure \/ Fail
  BY <1>0, <1>4 DEF CoolSample, PrintAverage, RecordFailure, Fail, Raise
<1>5. CASE GameStep \/ UNCHANGED seriesVars
  BY <1>0, <1>5 DEF GameStep, StrangerPlays, GuardLogs, GuardReady, Writes, PlayEnds, Outside,
     seriesVars
<1>6. QED
  BY <1>1, <1>2, <1>3, <1>4, <1>5 DEF SeriesNext, ControllerStep, GameStep

-----------------------------------------------------------------------------
(* The cooldown                                                            *)

LEMMA CoolStep == SeriesInv /\ [SeriesNext]_seriesVars => CoolInv'
<1> SUFFICES ASSUME SeriesInv, [SeriesNext]_seriesVars PROVE CoolInv'
  OBVIOUS
<1>0. SeriesTypeOK /\ CountInv /\ CoolInv
  BY DEF SeriesInv
<1> USE DEF CoolInv, CoolTail, Cooled
<1>1. CASE BeginSeries
  BY <1>0, <1>1 DEF BeginSeries, Save, Raise, SeriesTypeOK, Cool
<1>2. CASE BeginPass
  BY <1>0, <1>2 DEF BeginPass, Save, Raise, Cool
<1>3. CASE FirstSample
  <2>1. PICK heat \in 0..Top : samples' = <<heat>>
                               /\ ceiling' = IF heat + Margin > Top THEN Top ELSE heat + Margin
    BY <1>3 DEF FirstSample, Snapshots
  <2>2. samples' \in Seq(Snapshots) /\ Len(samples') = 1 /\ ceiling' <= Top
    BY <2>1 DEF Snapshots
  <2>3. QED
    BY <1>0, <1>3, <2>2 DEF FirstSample
<1>4. CASE CoolSample
  <2>1. PICK heat \in Snapshots :
          /\ samples' = (IF Len(samples) < Stable THEN Append(samples, heat)
                         ELSE Append(Tail(samples), heat))
          /\ stable' = Counted(heat)
          /\ pc' = (IF Counted(heat) >= Stable THEN "look" ELSE "sample")
    BY <1>4 DEF CoolSample
  <2> DEFINE n == Len(samples)
             Longer == /\ Len(samples') = n + 1 /\ n < Stable
                       /\ \A k \in 1..n : samples'[k] = samples[k]
             Shifted == /\ Len(samples') = n /\ n = Stable
                        /\ \A k \in 1..n : k < n => samples'[k] = samples[k + 1]
  <2>2. /\ n \in Nat /\ samples' \in Seq(Snapshots) /\ Len(samples') <= Stable
        /\ samples'[Len(samples')] = heat /\ (Longer \/ Shifted)
    <3>0. n \in Nat /\ n <= Stable /\ samples \in Seq(Snapshots)
      BY <1>0
    <3>1. CASE n < Stable
      BY <2>1, <3>0, <3>1
    <3>2. CASE n = Stable
      <4>1. samples # <<>> /\ samples' = Append(Tail(samples), heat)
        BY <2>1, <3>0, <3>2
      <4>2. /\ Tail(samples) \in Seq(Snapshots) /\ Len(Tail(samples)) = n - 1
            /\ \A k \in 1..(n - 1) : Tail(samples)[k] = samples[k + 1]
        BY <3>0, <4>1
      <4>3. /\ samples' \in Seq(Snapshots) /\ Len(samples') = n /\ samples'[n] = heat
            /\ \A k \in 1..(n - 1) : samples'[k] = Tail(samples)[k]
        BY <2>1, <3>0, <3>2, <4>1, <4>2
      <4>4. \A k \in 1..n : k < n => samples'[k] = samples[k + 1]
        BY <3>0, <4>2, <4>3
      <4>5. QED
        BY <3>0, <3>2, <4>3, <4>4
    <3>3. QED
      BY <3>0, <3>1, <3>2
  <2>3. stable \in Nat /\ stable < Stable /\ UNCHANGED <<ceiling, runs, fixed>> /\ CoolTail
    BY <1>0, <1>4 DEF CoolSample, SeriesTypeOK
  <2>4. CoolTail'
    <3>1. CASE Cool(heat)
      <4>1. stable' = stable + 1
        BY <2>1, <3>1 DEF Counted
      <4>2. ASSUME NEW k \in 1..Len(samples'), k + stable' > Len(samples')
            PROVE  samples'[k] <= ceiling
        <5>1. CASE k = Len(samples')
          BY <2>2, <3>1, <5>1 DEF Cool
        <5>2. CASE k < Len(samples') /\ Longer
          <6>1. k \in 1..n /\ k + stable > n /\ samples'[k] = samples[k]
            BY <2>2, <2>3, <4>1, <4>2, <5>2
          <6>2. QED
            BY <2>3, <6>1 DEF Cool
        <5>3. CASE k < Len(samples') /\ Shifted
          <6>1. k + 1 \in 1..n /\ (k + 1) + stable > n /\ samples'[k] = samples[k + 1]
            BY <2>2, <2>3, <4>1, <4>2, <5>3
          <6>2. QED
            BY <2>3, <6>1 DEF Cool
        <5>4. QED
          BY <2>2, <5>1, <5>2, <5>3
      <4>3. QED
        BY <1>0, <2>2, <2>3, <4>1, <4>2 DEF Cool
    <3>2. CASE ~Cool(heat)
      BY <1>0, <2>1, <2>2, <3>2 DEF Counted
    <3>3. QED
      BY <3>1, <3>2
  <2>5. stable' <= Stable /\ (pc' = "sample" => stable' < Stable)
    BY <2>1, <2>3 DEF Counted
  <2>6. CASE pc' = "look"
    <3>1. stable' = Stable
      BY <2>1, <2>3, <2>5, <2>6 DEF Counted
    <3>2. Len(samples') = Stable
      BY <2>2, <2>4, <3>1
    <3>3. Cooled'
      BY <2>4, <3>1, <3>2
    <3>4. ceiling <= Top
      BY <1>4 DEF CoolSample
    <3>5. QED
      BY <1>0, <2>2, <2>3, <2>6, <3>3, <3>4
  <2>7. CASE pc' = "sample"
    BY <1>0, <2>2, <2>3, <2>4, <2>5, <2>7
  <2>8. QED
    BY <2>1, <2>6, <2>7
<1>5. CASE StartLaunch
  BY <1>0, <1>5 DEF StartLaunch, Save, Raise, SeriesTypeOK
<1>6. CASE LaunchEnds
  BY <1>0, <1>6 DEF LaunchEnds, Save, Raise
<1>7. CASE Accept
  <2>1. ceiling \in Nat /\ ceiling <= Top
    BY <1>0, <1>7 DEF Accept, SeriesTypeOK
  <2>2. /\ pc' \in {"pass", "failed"} /\ stable = 0 /\ samples = <<>>
        /\ UNCHANGED <<ceiling, stable, samples>>
    BY <1>0, <1>7 DEF Accept, Save, Raise
  <2>3. QED
    BY <1>0, <2>1, <2>2
<1>8. CASE Complete \/ Preflight \/ Look \/ Aggregate
  BY <1>0, <1>8 DEF Complete, Save, Raise, Preflight, Look, Aggregate, Cool
<1>9. CASE Refuse \/ FindResult \/ FindLog \/ PrintAverage \/ RecordFailure \/ Fail
  BY <1>0, <1>9 DEF Refuse, FindResult, FindLog, PrintAverage, RecordFailure, Fail, Raise
<1>10. CASE GameStep \/ UNCHANGED seriesVars
  <2>1. UNCHANGED <<pc, runs, ceiling, stable, samples, fixed>>
    BY <1>10 DEF GameStep, StrangerPlays, GuardLogs, GuardReady, Writes, PlayEnds, Outside,
       seriesVars
  <2>2. QED
    BY <1>0, <2>1 DEF Cool
<1>11. QED
  BY <1>1, <1>2, <1>3, <1>4, <1>5, <1>6, <1>7, <1>8, <1>9, <1>10 DEF SeriesNext, ControllerStep,
     GameStep

-----------------------------------------------------------------------------
(* What a pass has found                                                   *)

LEMMA SearchStep == SeriesInv /\ [SeriesNext]_seriesVars => SearchInv'
<1> SUFFICES ASSUME SeriesInv, [SeriesNext]_seriesVars PROVE SearchInv'
  OBVIOUS
<1>0. SeriesTypeOK /\ SearchInv /\ AcceptedIsOwn
  BY DEF SeriesInv
<1> USE DEF SearchInv, Ready
<1>1. CASE BeginSeries \/ BeginPass \/ Complete
  BY <1>0, <1>1 DEF BeginSeries, BeginPass, Complete, Save, Raise
<1>2. CASE StartLaunch
  BY <1>0, <1>2 DEF StartLaunch, Save, Raise
<1>3. CASE LaunchEnds
  BY <1>0, <1>3 DEF LaunchEnds, Save, Raise
<1>4. CASE Accept
  BY <1>0, <1>4 DEF Accept, Save, Raise
<1>5. CASE Look
  BY <1>0, <1>5 DEF Look, AcceptedIsOwn, SeriesTypeOK
<1>6. CASE FindResult
  BY <1>0, <1>6 DEF FindResult
<1>7. CASE FindLog
  BY <1>0, <1>7 DEF FindLog
<1>8. CASE Refuse \/ Preflight \/ FirstSample \/ CoolSample \/ Aggregate
  BY <1>0, <1>8 DEF Refuse, Preflight, FirstSample, CoolSample, Aggregate
<1>9. CASE PrintAverage \/ RecordFailure \/ Fail
  BY <1>0, <1>9 DEF PrintAverage, RecordFailure, Fail, Raise
<1>10. CASE GameStep \/ UNCHANGED seriesVars
  <2>1. /\ UNCHANGED <<pc, runs, oldResults, oldLogs, result, log>>
        /\ wrote \subseteq wrote' /\ logged \subseteq logged' /\ guarded \subseteq guarded'
    BY <1>10 DEF GameStep, StrangerPlays, GuardLogs, GuardReady, Writes, PlayEnds, Outside,
       seriesVars
  <2>2. QED
    BY <1>0, <2>1
<1>11. QED
  BY <1>1, <1>2, <1>3, <1>4, <1>5, <1>6, <1>7, <1>8, <1>9, <1>10 DEF SeriesNext, ControllerStep,
     GameStep

LEMMA MineStep == SeriesInv /\ [SeriesNext]_seriesVars => MineInv'
<1> SUFFICES ASSUME SeriesInv, [SeriesNext]_seriesVars PROVE MineInv'
  OBVIOUS
<1>0. SeriesTypeOK /\ CountInv /\ SearchInv /\ MineInv /\ AcceptedIsOwn
  BY DEF SeriesInv
<1>n. Len(runs) \in Nat /\ 1..Len(runs) \subseteq 1..(Len(runs) + 1)
  BY <1>0 DEF SeriesTypeOK
<1>o. ASSUME strangers = 0, pc \in {"launch"} \cup Out
      PROVE  1..Len(runs) \subseteq oldResults /\ 1..Len(runs) \subseteq oldLogs
  BY <1>0, <1>o DEF SearchInv, AcceptedIsOwn
<1> USE DEF MineInv
<1>1. CASE BeginSeries
  <2>1. runs' = <<>> /\ pc' \in {"preflight", "failed"} /\ UNCHANGED games
    BY <1>1 DEF BeginSeries, Save, Raise
  <2>2. pc = "begin" /\ runs = <<>>
    BY <1>0, <1>1 DEF BeginSeries, CountInv
  <2>3. QED
    BY <1>0, <1>n, <2>1, <2>2
<1>2. CASE BeginPass \/ Complete
  BY <1>0, <1>2 DEF BeginPass, Complete, Save, Raise
<1>3. CASE StartLaunch
  BY <1>0, <1>n, <1>3 DEF StartLaunch, Save, Raise
<1>4. CASE LaunchEnds
  BY <1>0, <1>4 DEF LaunchEnds, Save, Raise
<1>5. CASE Accept
  <2>1. Len(runs') = Len(runs) + 1 /\ pc' \in {"pass", "failed"} /\ UNCHANGED games
    BY <1>0, <1>5 DEF Accept, Save, Raise, SeriesTypeOK
  <2>2. strangers = 0 => playing \cup wrote \cup logged \subseteq 1..(Len(runs) + 1)
    BY <1>0, <1>5 DEF Accept
  <2>3. strangers' = 0 => playing' \cup wrote' \cup logged' \subseteq 1..Len(runs')
    BY <2>1, <2>2
  <2>4. pc' \in Before \cup {"failed"} /\ pc' \notin Out
    BY <2>1
  <2>5. QED
    BY <2>3, <2>4
<1>6. CASE FindResult
  <2>1. PICK l \in Launches : wrote \ oldResults = {l} /\ result' = l
    BY <1>6 DEF FindResult
  <2>2. ASSUME strangers = 0 PROVE l = Pass
    BY <1>0, <1>6, <1>o, <1>n, <2>1, <2>2 DEF FindResult
  <2>3. QED
    BY <1>0, <1>6, <2>1, <2>2 DEF FindResult
<1>7. CASE FindLog
  <2>1. PICK l \in Launches : Ready = {l} /\ log' = l
    BY <1>7 DEF FindLog
  <2>2. ASSUME strangers = 0 PROVE l = Pass
    BY <1>0, <1>7, <1>o, <1>n, <2>1, <2>2 DEF FindLog, Ready
  <2>3. QED
    BY <1>0, <1>7, <2>1, <2>2 DEF FindLog
<1>8. CASE Refuse \/ Preflight \/ FirstSample \/ CoolSample \/ Look \/ Aggregate
  BY <1>0, <1>8 DEF Refuse, Preflight, FirstSample, CoolSample, Look, Aggregate
<1>9. CASE PrintAverage \/ RecordFailure \/ Fail
  BY <1>0, <1>9 DEF PrintAverage, RecordFailure, Fail, Raise
<1>10. CASE StrangerPlays
  BY <1>0, <1>10 DEF StrangerPlays, SeriesTypeOK
<1>11. ASSUME NEW l \in Launches, GuardLogs(l) \/ GuardReady(l) \/ Writes(l) \/ PlayEnds(l)
       PROVE  MineInv'
  <2>1. /\ UNCHANGED <<pc, runs, result, log, strangers>>
        /\ playing' \cup wrote' \cup logged' \subseteq playing \cup wrote \cup logged
    BY <1>11 DEF GuardLogs, GuardReady, Writes, PlayEnds, Outside
  <2>2. QED
    BY <1>0, <2>1
<1>12. CASE UNCHANGED seriesVars
  BY <1>0, <1>12 DEF seriesVars
<1>13. QED
  BY <1>1, <1>2, <1>3, <1>4, <1>5, <1>6, <1>7, <1>8, <1>9, <1>10, <1>11, <1>12
     DEF SeriesNext, ControllerStep

LEMMA OwnStep == SeriesInv /\ [SeriesNext]_seriesVars => AcceptedIsOwn' /\ AloneAfterAbort'
<1> SUFFICES ASSUME SeriesInv, [SeriesNext]_seriesVars PROVE AcceptedIsOwn' /\ AloneAfterAbort'
  OBVIOUS
<1>0. SeriesTypeOK /\ SearchInv /\ MineInv /\ AcceptedIsOwn /\ AloneAfterAbort /\ CountInv
  BY DEF SeriesInv
<1>n. Len(runs) \in Nat
  BY <1>0 DEF SeriesTypeOK
<1>u. ASSUME UNCHANGED runs, wrote \subseteq wrote', guarded \subseteq guarded',
             strangers' = 0 => strangers = 0 /\ playing' \subseteq playing
      PROVE  AcceptedIsOwn' /\ AloneAfterAbort'
  BY <1>0, <1>u DEF AcceptedIsOwn, AloneAfterAbort
<1>1. CASE BeginSeries
  <2>1. runs' = <<>> /\ UNCHANGED games
    BY <1>1 DEF BeginSeries, Save, Raise
  <2>2. QED
    BY <2>1 DEF AcceptedIsOwn, AloneAfterAbort
<1>2. CASE StartLaunch
  <2>1. UNCHANGED <<runs, wrote, guarded, strangers>> /\ playing' \subseteq playing \cup {Pass}
    BY <1>2 DEF StartLaunch, Save
  <2>2. AcceptedIsOwn'
    BY <1>0, <2>1 DEF AcceptedIsOwn
  <2>3. AloneAfterAbort'
    BY <1>0, <2>1 DEF AloneAfterAbort
  <2>4. QED
    BY <2>2, <2>3
<1>3. CASE Accept
  <2> DEFINE r == [result |-> result, log |-> log, aborted |-> exit = "abort"]
             n == Len(runs)
  <2>1. runs' = Append(runs, r) /\ UNCHANGED games /\ Excused /\ pc = "outcome"
    BY <1>3 DEF Accept, Save
  <2>2. /\ Len(runs') = n + 1 /\ \A i \in 1..n : runs'[i] = runs[i]
        /\ runs'[n + 1].result = result /\ runs'[n + 1].log = log
        /\ runs'[n + 1].aborted = (exit = "abort")
    BY <1>0, <2>1 DEF SeriesTypeOK
  <2>3. /\ result \in wrote /\ log \in guarded
        /\ \A i \in 1..n : runs[i].result # result /\ runs[i].log # log
        /\ strangers = 0 => result = n + 1 /\ log = n + 1
    BY <1>0, <2>1 DEF SearchInv, Ready, MineInv
  <2>4. AcceptedIsOwn'
    <3>1. \A i \in 1..Len(runs') : i \in 1..n \/ i = n + 1
      BY <1>n, <2>2
    <3>2. \A i, j \in 1..Len(runs') :
            i # j => runs'[i].result # runs'[j].result /\ runs'[i].log # runs'[j].log
      BY <1>0, <1>n, <2>2, <2>3, <3>1 DEF AcceptedIsOwn
    <3>3. \A i \in 1..Len(runs') :
            /\ runs'[i].result \in wrote' /\ runs'[i].log \in guarded'
            /\ strangers' = 0 => runs'[i].result = i /\ runs'[i].log = i
      BY <1>0, <1>n, <2>1, <2>2, <2>3, <3>1 DEF AcceptedIsOwn
    <3>4. QED
      BY <3>2, <3>3 DEF AcceptedIsOwn
  <2>5. AloneAfterAbort'
    <3>1. exit = "abort" => playing' = {}
      BY <2>1 DEF Excused
    <3>2. \A i \in 1..Len(runs') : i + 1 = Len(runs') + 1 => i = n + 1
      BY <1>n, <2>2
    <3>3. QED
      BY <2>2, <3>1, <3>2 DEF AloneAfterAbort
  <2>6. QED
    BY <2>4, <2>5
<1>4. CASE BeginPass \/ LaunchEnds \/ Complete
  BY <1>4, <1>u DEF BeginPass, LaunchEnds, Complete, Save
<1>5. CASE Refuse \/ Preflight \/ FirstSample \/ CoolSample \/ Look \/ FindResult \/ FindLog
  BY <1>5, <1>u DEF Refuse, Preflight, FirstSample, CoolSample, Look, FindResult, FindLog
<1>6. CASE Aggregate \/ PrintAverage \/ RecordFailure \/ Fail \/ UNCHANGED seriesVars
  BY <1>6, <1>u DEF Aggregate, PrintAverage, RecordFailure, Fail, seriesVars
<1>7. CASE StrangerPlays
  BY <1>0, <1>7, <1>u DEF StrangerPlays, Outside, SeriesTypeOK
<1>8. ASSUME NEW l \in Launches, GuardLogs(l) \/ GuardReady(l) \/ Writes(l) \/ PlayEnds(l)
      PROVE  AcceptedIsOwn' /\ AloneAfterAbort'
  BY <1>8, <1>u DEF GuardLogs, GuardReady, Writes, PlayEnds, Outside
<1>9. QED
  BY <1>1, <1>2, <1>3, <1>4, <1>5, <1>6, <1>7, <1>8 DEF SeriesNext, ControllerStep

-----------------------------------------------------------------------------
(* series.json                                                             *)

LEMMA FileStep == SeriesInv /\ [SeriesNext]_seriesVars => FileInv' /\ FileTells'
<1> SUFFICES ASSUME SeriesInv, [SeriesNext]_seriesVars PROVE FileInv' /\ FileTells'
  OBVIOUS
<1>0. SeriesTypeOK /\ CountInv /\ FileInv /\ FileTells
  BY DEF SeriesInv
<1>c. \A rs : Comparable(rs) /\ UNCHANGED args => Comparable(rs)'
  BY DEF Comparable, Recorded, Held
<1>d. UNCHANGED <<disk, args>> => (Comparable(disk.runs) => Comparable(disk.runs)')
  BY DEF Comparable, Recorded, Held
<1> USE DEF FileInv, FileTells
<1>1. CASE BeginSeries \/ BeginPass \/ StartLaunch \/ LaunchEnds \/ Accept
  <2>1. /\ disk.status # "complete" /\ code = 3 /\ UNCHANGED <<args, code>>
        /\ disk'.status # "complete" /\ pc' # "print"
        /\ pc' = "failed" => status' = "failed"
    BY <1>0, <1>1 DEF BeginSeries, BeginPass, StartLaunch, LaunchEnds, Accept, Save, Raise
  <2>2. QED
    BY <2>1
<1>2. CASE Complete
  <2>1. disk.status # "complete" /\ code = 3 /\ UNCHANGED <<args, code>> /\ Comparable(runs)
    BY <1>0, <1>2 DEF Complete
  <2>2. CASE pc' = "print" /\ disk' = [status |-> "complete", phase |-> "complete", runs |-> runs]
    BY <1>0, <1>2, <1>c, <2>1, <2>2 DEF Complete, CountInv, Comparable, Recorded, Held
  <2>3. CASE pc' = "failed" /\ status' = "failed" /\ disk' = disk
    BY <2>1, <2>3
  <2>4. QED
    BY <1>2, <2>2, <2>3 DEF Complete, Save, Raise
<1>3. CASE PrintAverage
  BY <1>0, <1>3, <1>d DEF PrintAverage, Raise, SeriesTypeOK
<1>4. CASE RecordFailure
  BY <1>0, <1>4, <1>d DEF RecordFailure, Record, SeriesTypeOK
<1>5. CASE Refuse
  BY <1>0, <1>5, <1>d DEF Refuse
<1>6. CASE Preflight \/ FirstSample \/ CoolSample \/ Look \/ FindResult \/ FindLog \/ Aggregate
  <2>1. /\ disk.status # "complete" /\ code = 3 /\ UNCHANGED <<disk, code>>
        /\ pc' \notin {"print", "failed", "end"}
    BY <1>0, <1>6
       DEF Preflight, FirstSample, CoolSample, Look, FindResult, FindLog, Aggregate
  <2>2. QED
    BY <2>1
<1>7. CASE Fail
  BY <1>0, <1>7, <1>d DEF Fail, Raise
<1>8. CASE GameStep \/ UNCHANGED seriesVars
  <2>1. UNCHANGED <<args, pc, status, disk, code, writeFaults>>
    BY <1>8 DEF GameStep, StrangerPlays, GuardLogs, GuardReady, Writes, PlayEnds, Outside,
       seriesVars
  <2>2. QED
    BY <1>0, <1>d, <2>1
<1>9. QED
  BY <1>1, <1>2, <1>3, <1>4, <1>5, <1>6, <1>7, <1>8 DEF SeriesNext, ControllerStep, GameStep

-----------------------------------------------------------------------------
(* The theorems                                                            *)

LEMMA SeriesInit == InitialSeries => SeriesInv
<1> SUFFICES ASSUME InitialSeries PROVE SeriesInv
  OBVIOUS
<1>1. SeriesTypeOK
  BY ArgumentsAssumption DEF InitialSeries, Admitted, SeriesTypeOK, SeriesStatuses
<1>2. CountInv /\ CoolInv /\ SearchInv /\ MineInv
  BY DEF InitialSeries, CountInv, CoolInv, CoolTail, Cooled, SearchInv, MineInv, Ready
<1>3. FileInv /\ AcceptedIsOwn /\ AloneAfterAbort /\ FileTells
  BY DEF InitialSeries, FileInv, AcceptedIsOwn, AloneAfterAbort, FileTells
<1>4. QED
  BY <1>1, <1>2, <1>3 DEF SeriesInv

LEMMA SeriesInvariant == SeriesSpec => []SeriesInv
<1>1. SeriesInv /\ [SeriesNext]_seriesVars => SeriesInv'
  BY TypeStep, CountStep, CoolStep, SearchStep, MineStep, OwnStep, FileStep DEF SeriesInv
<1>2. QED
  BY <1>1, SeriesInit, PTL DEF SeriesSpec

\* The variables of a series have their types, whatever fails and whoever plays (TypeOK).
THEOREM SeriesTypeCorrect == SeriesSpec => []SeriesTypeOK
<1>1. SeriesInv => SeriesTypeOK
  BY DEF SeriesInv
<1>2. QED
  BY <1>1, SeriesInvariant, PTL

\* A pass that counts is its own, was launched out of a cooldown that ended cool, and is not
\* disturbed by one that aborted before it (PassesCount).
THEOREM PassesAreOwn == SeriesSpec => []PassesCount
<1>1. SeriesInv => PassesCount
  BY DEF SeriesInv, PassesCount, CoolInv, Cooled, LaunchedCool
<1>2. QED
  BY <1>1, SeriesInvariant, PTL

\* series.json is complete only with every pass and both conditions, and the exit status agrees
\* with it unless two writes or prints have failed (FileTells).
THEOREM SeriesFileTells == SeriesSpec => []FileTells
<1>1. SeriesInv => FileTells
  BY DEF SeriesInv
<1>2. QED
  BY <1>1, SeriesInvariant, PTL
=============================================================================
