------------------------ MODULE HoldAndHelpersProofs ------------------------
(***************************************************************************)
(* Proofs about what runs next to a game and to Steam (MCGameHelpers), and *)
(* about the helpers of a measured pass (GameHold).                        *)
(*                                                                         *)
(* The first, each for any number of games, processes, sessions, kills and *)
(* lines, from an inductive invariant of its own: what the gate of the     *)
(* code caches is about to verify, what the guards have counted, what the  *)
(* timer and the sinks have taken, which logs of Steam are its own.        *)
(*                                                                         *)
(* GameHold, for every set of targets, any number of signals, and any      *)
(* number of births, deaths, escapes and failures: its properties follow   *)
(* from HoldInv, whose centre is HeldInv: whatever is held and was not     *)
(* born so is on record, with its own mask, and is either still to be      *)
(* undone or accounted for by a failing exit status.                       *)
(***************************************************************************)
EXTENDS GameHold, MCGameHelpers, SequenceTheorems, FiniteSetTheorems, WellFoundedInduction, TLAPS

(* The gate of the code caches *)

FexTyped ==
    /\ recorded \in SUBSET Maps /\ new \in SUBSET Maps /\ ready \in SUBSET Maps
    /\ caches \in Fex!Caches /\ refresh \in Fex!Manifests /\ results \in Seq(Fex!Results)
    /\ gate \in Fex!Gate

\* Nothing is compiled, and nothing else begins, in a candidate that is not complete.
CandidateMade ==
    /\ root # "made" =>
          ready = {} /\ results = <<>> /\ app # "compile" /\ gate.pc \in {"idle", "copy"}
    /\ gate.pc = "copy" => root # "made"

\* A map is aggregated once, and none that a manifest names is lost.
MapsAreOnce == new \cap ready = {} /\ refresh.maps \subseteq new \cup ready

\* What the gate is about to verify was compiled from what is aggregated, which is more than
\* before.
GateIsRight ==
    /\ gate.pc \notin {"compile", "verify"} => gate.status = "none"
    /\ gate.pc = "compile" => (gate.status = "none" <=> app = "compile")
    /\ gate.pc = "verify" => app # "compile"
    /\ gate.pc = "verify" \/ (gate.pc = "compile" /\ gate.status = "ok") =>
          /\ caches = [maps |-> ready, whole |-> TRUE]
          /\ results # <<>> => ready # results[Len(results)].ready

\* A compiler of a refresh has something to learn, or has learned it.
CompilerLearns ==
    app = "compile" /\ results # <<>> => new \cup ready # results[Len(results)].ready

ResultsStay == \A i \in 1..Len(results) : results[i].ready \subseteq ready

FexInv ==
    /\ FexTyped /\ CandidateMade /\ MapsAreOnce /\ GateIsRight /\ CompilerLearns /\ ResultsStay
    /\ Fex!CachesTell

LEMMA FexBegins == Fex!Init => FexInv
<1> SUFFICES ASSUME Fex!Init PROVE FexInv
  OBVIOUS
<1>1. /\ recorded = {} /\ new = {} /\ ready = {} /\ results = <<>> /\ app = "none"
      /\ caches = [maps |-> {}, whole |-> TRUE]
      /\ refresh = [generation |-> 0, previous |-> <<>>, maps |-> {}]
      /\ gate = [pc |-> "idle", todo |-> {}, status |-> "none"]
  BY DEF Fex!Init, Fex!Idle
<1>2. MaxHistory \in Nat
  BY HelpersAssumption DEF Fex!FexCacheAssumption
<1>3. /\ gate.pc = "idle" /\ gate.status = "none" /\ refresh.maps = {} /\ Len(<<>>) = 0
      /\ Len(results) = 0
  BY <1>1
<1>4. FexTyped
  <2>1. caches \in Fex!Caches
    <3>1. TRUE \in BOOLEAN
      OBVIOUS
    <3>2. QED
      BY <3>1, <1>1 DEF Fex!Caches
  <2>2. refresh \in Fex!Manifests
    BY <1>1, <1>2, <<>> \in Seq(Fex!Results), 0 \in 0..(MaxHistory + 2) DEF Fex!Manifests
  <2>3. gate \in Fex!Gate
    BY <1>1 DEF Fex!Gate
  <2>4. results \in Seq(Fex!Results)
    BY <1>1
  <2>5. QED
    BY <2>1, <2>2, <2>3, <2>4, <1>1 DEF FexTyped
<1>5. CandidateMade /\ MapsAreOnce /\ GateIsRight /\ CompilerLearns /\ ResultsStay
  BY <1>1, <1>3 DEF CandidateMade, MapsAreOnce, GateIsRight, CompilerLearns, ResultsStay
<1>6. Fex!CachesTell
  BY <1>1, <1>3
     DEF Fex!CachesTell, Fex!GenerationsTell, Fex!VerifiedCovers, Fex!CompilesTheManifest
<1>7. QED
  BY <1>4, <1>5, <1>6 DEF FexInv

\* What there is before a step.
LEMMA FexFields ==
    ASSUME FexInv
    PROVE  /\ recorded \in SUBSET Maps /\ new \in SUBSET Maps /\ ready \in SUBSET Maps
           /\ caches \in Fex!Caches /\ refresh \in Fex!Manifests /\ results \in Seq(Fex!Results)
           /\ gate \in Fex!Gate /\ gate.todo \in SUBSET Maps
           /\ Len(results) \in Nat /\ (results # <<>> => Len(results) \in 1..Len(results))
           /\ Fex!Idle \in Fex!Gate /\ Fex!Idle.pc = "idle" /\ Fex!Idle.status = "none"
<1>1. FexTyped
  BY DEF FexInv
<1>2. gate.todo \in SUBSET Maps
  BY <1>1 DEF FexTyped, Fex!Gate
<1>3. Len(results) \in Nat /\ (results # <<>> => Len(results) \in 1..Len(results))
  BY <1>1 DEF FexTyped
<1>4. Fex!Idle \in Fex!Gate /\ Fex!Idle.pc = "idle" /\ Fex!Idle.status = "none"
  BY DEF Fex!Idle, Fex!Gate
<1>5. QED
  BY <1>1, <1>2, <1>3, <1>4 DEF FexTyped

\* Results that no step touches tell what they told.
LEMMA ResultsHeld ==
    ASSUME FexInv, FexTyped', results' = results, ready \subseteq ready',
           CandidateMade', MapsAreOnce', GateIsRight', CompilerLearns',
           app' = "compile" /\ results # <<>> => new' \subseteq refresh'.maps
    PROVE  FexInv'
<1>1. ResultsStay' /\ Fex!GenerationsTell' /\ Fex!VerifiedCovers'
  <2>1. ResultsStay'
    BY DEF FexInv, ResultsStay
  <2>2. Fex!GenerationsTell'
    BY DEF FexInv, Fex!CachesTell, Fex!GenerationsTell
  <2>3. Fex!VerifiedCovers'
    BY DEF FexInv, Fex!CachesTell, Fex!VerifiedCovers
  <2>4. QED
    BY <2>1, <2>2, <2>3
<1>2. Fex!CompilesTheManifest'
  BY DEF Fex!CompilesTheManifest
<1>3. QED
  BY <1>1, <1>2 DEF FexInv, Fex!CachesTell

\* The gate, idle, or on its way to the compiler.
LEMMA GatePrepares ==
    ASSUME FexInv, Fex!Prepare
    PROVE  FexInv'
<1>1. /\ gate.pc = "idle" /\ results = <<>>
      /\ UNCHANGED <<recorded, new, ready, caches, refresh, results, app>>
  BY DEF Fex!Prepare
<1>2. /\ CandidateMade /\ MapsAreOnce /\ GateIsRight /\ CompilerLearns /\ Fex!CachesTell
      /\ gate.status = "none"
  BY <1>1 DEF FexInv, GateIsRight
<1>3. CASE /\ root = "absent" /\ root' = "partial"
           /\ gate' = [gate EXCEPT !.pc = "copy", !.todo = recorded]
  <2>1. gate' \in Fex!Gate /\ gate'.pc = "copy" /\ gate'.status = "none"
    BY <1>2, <1>3, FexFields DEF Fex!Gate
  <2>2. FexTyped'
    BY <2>1, <1>1, FexFields DEF FexTyped
  <2>3. CandidateMade' /\ MapsAreOnce' /\ GateIsRight' /\ CompilerLearns'
    BY <2>1, <1>1, <1>2, <1>3 DEF CandidateMade, MapsAreOnce, GateIsRight, CompilerLearns
  <2>4. QED
    BY <2>2, <2>3, <1>1, ResultsHeld
<1>4. CASE root = "made" /\ root' = root /\ gate' = [gate EXCEPT !.pc = "launch"]
  <2>1. gate' \in Fex!Gate /\ gate'.pc = "launch" /\ gate'.status = "none"
    BY <1>2, <1>4, FexFields DEF Fex!Gate
  <2>2. FexTyped'
    BY <2>1, <1>1, FexFields DEF FexTyped
  <2>3. CandidateMade' /\ MapsAreOnce' /\ GateIsRight' /\ CompilerLearns'
    BY <2>1, <1>1, <1>2, <1>4 DEF CandidateMade, MapsAreOnce, GateIsRight, CompilerLearns
  <2>4. QED
    BY <2>2, <2>3, <1>1, ResultsHeld
<1>5. QED
  BY <1>3, <1>4 DEF Fex!Prepare, Fex!MayReuse

LEMMA MapCopied ==
    ASSUME FexInv, Fex!CopyMap
    PROVE  FexInv'
<1>1. PICK map \in gate.todo :
         /\ new' = new \cup {map} /\ gate' = [gate EXCEPT !.todo = @ \ {map}]
         /\ gate.pc = "copy" /\ UNCHANGED <<recorded, root, ready, caches, refresh, results, app>>
  BY DEF Fex!CopyMap
<1>2. /\ CandidateMade /\ MapsAreOnce /\ GateIsRight /\ CompilerLearns
      /\ gate.status = "none" /\ root # "made" /\ ready = {} /\ results = <<>> /\ app # "compile"
  BY <1>1 DEF FexInv, GateIsRight, CandidateMade
<1>3. PICK rest \in SUBSET Maps : gate' = [gate EXCEPT !.todo = rest]
  BY <1>1, FexFields
<1>4. gate' \in Fex!Gate /\ gate'.pc = "copy" /\ gate'.status = "none"
  BY <1>1, <1>2, <1>3, FexFields DEF Fex!Gate
<1>5. FexTyped'
  BY <1>1, <1>4, FexFields DEF FexTyped
<1>6. CandidateMade' /\ MapsAreOnce' /\ GateIsRight' /\ CompilerLearns'
  BY <1>1, <1>2, <1>4 DEF CandidateMade, MapsAreOnce, GateIsRight, CompilerLearns
<1>7. QED
  BY <1>1, <1>2, <1>5, <1>6, ResultsHeld

LEMMA PrepareWritten ==
    ASSUME FexInv, Fex!WritePrepare
    PROVE  FexInv'
<1>1. /\ gate.pc = "copy" /\ root' = "made" /\ gate' = [gate EXCEPT !.pc = "launch"]
      /\ UNCHANGED <<recorded, new, ready, caches, refresh, results, app>>
  BY DEF Fex!WritePrepare
<1>2. /\ MapsAreOnce /\ CompilerLearns /\ gate.status = "none" /\ results = <<>>
      /\ app # "compile"
  BY <1>1 DEF FexInv, GateIsRight, CandidateMade
<1>3. gate' \in Fex!Gate /\ gate'.pc = "launch" /\ gate'.status = "none"
  BY <1>1, <1>2, FexFields DEF Fex!Gate
<1>4. FexTyped'
  BY <1>1, <1>3, FexFields DEF FexTyped
<1>5. CandidateMade' /\ MapsAreOnce' /\ GateIsRight' /\ CompilerLearns'
  BY <1>1, <1>2, <1>3 DEF CandidateMade, MapsAreOnce, GateIsRight, CompilerLearns
<1>6. QED
  BY <1>1, <1>2, <1>4, <1>5, ResultsHeld

\* A manifest that is written while the compiler of a killed gate goes on names what that one
\* has still to consume.
LEMMA RefreshWritten ==
    ASSUME FexInv, Fex!Refresh
    PROVE  FexInv'
<1>1. /\ gate.pc = "idle" /\ results # <<>> /\ gate' = [gate EXCEPT !.pc = "launch"]
      /\ refresh' = [generation |-> results[Len(results)].generation + 1,
                     previous |-> Fex!Present, maps |-> new]
      /\ UNCHANGED <<recorded, root, new, ready, caches, results, app>>
  BY DEF Fex!Refresh, Fex!Last
<1>2. /\ MapsAreOnce /\ CompilerLearns /\ gate.status = "none" /\ root = "made"
  BY <1>1 DEF FexInv, GateIsRight, CandidateMade
<1>3. gate' \in Fex!Gate /\ gate'.pc = "launch" /\ gate'.status = "none"
  BY <1>1, <1>2, FexFields DEF Fex!Gate
<1>4. refresh' \in Fex!Manifests /\ refresh'.maps = new
  <2>1. results[Len(results)] \in Fex!Results /\ MaxHistory \in Nat
    BY <1>1, FexFields, HelpersAssumption DEF Fex!FexCacheAssumption
  <2>2. PICK next : next = results[Len(results)].generation + 1
    OBVIOUS
  <2>3. next \in 0..(MaxHistory + 2)
    BY <2>1, <2>2 DEF Fex!Results
  <2>4. Fex!Present \in Seq(Fex!Results)
    BY FexFields, <1>1, SubSeqProperties DEF Fex!Present
  <2>5. QED
    BY <2>2, <2>3, <2>4, <1>1, FexFields DEF Fex!Manifests
<1>5. FexTyped'
  BY <1>1, <1>3, <1>4, FexFields DEF FexTyped
<1>6. CandidateMade' /\ MapsAreOnce' /\ GateIsRight' /\ CompilerLearns'
  BY <1>1, <1>2, <1>3, <1>4 DEF CandidateMade, MapsAreOnce, GateIsRight, CompilerLearns
<1>7. QED
  BY <1>1, <1>4, <1>5, <1>6, ResultsHeld

\* A gate that ends, or is ended.
LEMMA GateEnded ==
    ASSUME FexInv, gate' = Fex!Idle,
           UNCHANGED <<recorded, root, new, ready, caches, refresh, results, app>>
    PROVE  FexInv'
<1>1. gate' \in Fex!Gate /\ gate'.pc = "idle" /\ gate'.status = "none"
  BY FexFields
<1>2. FexTyped'
  BY <1>1, FexFields DEF FexTyped
<1>3. CandidateMade' /\ MapsAreOnce' /\ GateIsRight' /\ CompilerLearns'
  BY <1>1 DEF FexInv, CandidateMade, MapsAreOnce, GateIsRight, CompilerLearns
<1>4. app' = "compile" /\ results # <<>> => new' \subseteq refresh'.maps
  BY DEF FexInv, Fex!CachesTell, Fex!CompilesTheManifest
<1>5. QED
  BY <1>2, <1>3, <1>4, ResultsHeld

LEMMA GateLaunches ==
    ASSUME FexInv, Fex!Launch
    PROVE  FexInv'
<1>1. /\ gate.pc = "launch" /\ gate' = [gate EXCEPT !.pc = "asked"]
      /\ UNCHANGED <<recorded, root, new, ready, caches, refresh, results, app>>
  BY DEF Fex!Launch, Fex!candidate
<1>2. gate.status = "none" /\ root = "made"
  BY <1>1 DEF FexInv, GateIsRight, CandidateMade
<1>3. gate' \in Fex!Gate /\ gate'.pc = "asked" /\ gate'.status = "none"
  BY <1>1, <1>2, FexFields DEF Fex!Gate
<1>4. FexTyped'
  BY <1>1, <1>3, FexFields DEF FexTyped
<1>5. CandidateMade' /\ MapsAreOnce' /\ GateIsRight' /\ CompilerLearns'
  BY <1>1, <1>2, <1>3 DEF FexInv, CandidateMade, MapsAreOnce, GateIsRight, CompilerLearns
<1>6. app' = "compile" /\ results # <<>> => new' \subseteq refresh'.maps
  BY <1>1 DEF FexInv, Fex!CachesTell, Fex!CompilesTheManifest
<1>7. QED
  BY <1>1, <1>4, <1>5, <1>6, ResultsHeld

LEMMA RequestServed ==
    ASSUME FexInv, Fex!Serve
    PROVE  FexInv'
<1>1. gate.pc = "asked" /\ UNCHANGED <<recorded, root, new, ready, caches, refresh, results>>
  BY DEF Fex!Serve, Fex!candidate
<1>2. /\ MapsAreOnce /\ ResultsStay /\ gate.status = "none" /\ root = "made"
  BY <1>1 DEF FexInv, GateIsRight, CandidateMade
<1>3. CASE app = "none" /\ Fex!MayCompile
  <2>1. app' = "compile" /\ gate' = [gate EXCEPT !.pc = "compile"]
    BY <1>3 DEF Fex!Serve
  <2>2. gate' \in Fex!Gate /\ gate'.pc = "compile" /\ gate'.status = "none"
    BY <2>1, <1>2, FexFields DEF Fex!Gate
  <2>3. new # {} /\ (results # <<>> => refresh.maps = new)
    BY <1>3 DEF Fex!MayCompile, Fex!Compilable, Fex!RefreshMatches
  <2>4. results # <<>> => new \cup ready # results[Len(results)].ready
    BY <2>3, <1>2, FexFields DEF MapsAreOnce, ResultsStay
  <2>5. FexTyped'
    BY <2>2, <1>1, FexFields DEF FexTyped
  <2>6. CandidateMade' /\ MapsAreOnce' /\ GateIsRight' /\ CompilerLearns'
    BY <2>1, <2>2, <2>4, <1>1, <1>2 DEF CandidateMade, MapsAreOnce, GateIsRight, CompilerLearns
  <2>7. QED
    BY <2>3, <2>5, <2>6, <1>1, ResultsHeld
<1>4. CASE ~(app = "none" /\ Fex!MayCompile)
  <2>1. gate' = Fex!Idle /\ app' = app
    BY <1>4 DEF Fex!Serve, Fex!EndGate
  <2>2. QED
    BY <2>1, <1>1, GateEnded
<1>5. QED
  BY <1>3, <1>4

(* The compiler *)

LEMMA MapAggregated ==
    ASSUME FexInv, Fex!Aggregate
    PROVE  FexInv'
<1>1. PICK map \in new : new' = new \ {map} /\ ready' = ready \cup {map}
  BY DEF Fex!Aggregate
<1>2. app = "compile" /\ UNCHANGED <<recorded, root, caches, refresh, results, gate, app>>
  BY DEF Fex!Aggregate
<1>3. /\ CandidateMade /\ MapsAreOnce /\ GateIsRight /\ CompilerLearns
      /\ results # <<>> => new \subseteq refresh.maps
  BY <1>2 DEF FexInv, Fex!CachesTell, Fex!CompilesTheManifest
<1>4. new' \cup ready' = new \cup ready /\ new' \cap ready' = {} /\ ready \subseteq ready'
  BY <1>1, <1>3 DEF MapsAreOnce
<1>5. FexTyped'
  BY <1>1, <1>2, FexFields DEF FexTyped
<1>6. CandidateMade' /\ MapsAreOnce' /\ GateIsRight' /\ CompilerLearns'
  BY <1>2, <1>3, <1>4 DEF CandidateMade, MapsAreOnce, GateIsRight, CompilerLearns
<1>7. QED
  BY <1>1, <1>2, <1>3, <1>4, <1>5, <1>6, ResultsHeld

\* The compiler that ends tells its gate, and no other.
LEMMA CompilerDone ==
    ASSUME FexInv, app = "compile", NEW outcome \in {"ok", "bad"}, Fex!CompilerEnds(outcome),
           UNCHANGED <<recorded, root, new, ready, refresh, results>>, caches' \in Fex!Caches,
           outcome = "ok" => new = {} /\ caches' = [maps |-> ready, whole |-> TRUE]
    PROVE  FexInv'
<1>1. /\ app' = "none"
      /\ gate' = IF gate.pc = "compile" THEN [gate EXCEPT !.status = outcome] ELSE gate
  BY DEF Fex!CompilerEnds
<1>2. /\ CandidateMade /\ MapsAreOnce /\ GateIsRight /\ CompilerLearns
  BY DEF FexInv
<1>3. gate' \in Fex!Gate /\ gate'.pc = gate.pc
  BY <1>1, FexFields DEF Fex!Gate
<1>4. gate'.status = IF gate.pc = "compile" THEN outcome ELSE gate.status
  BY <1>1, FexFields DEF Fex!Gate
<1>5. FexTyped'
  BY <1>3, FexFields DEF FexTyped
<1>6. GateIsRight'
  BY <1>1, <1>2, <1>3, <1>4 DEF GateIsRight, CompilerLearns
<1>7. CandidateMade' /\ MapsAreOnce' /\ CompilerLearns'
  BY <1>1, <1>2, <1>3 DEF CandidateMade, MapsAreOnce, CompilerLearns
<1>8. QED
  BY <1>1, <1>5, <1>6, <1>7, ResultsHeld

LEMMA CompilerGenerates ==
    ASSUME FexInv, Fex!Generate
    PROVE  FexInv'
<1>1. caches' = [maps |-> ready, whole |-> TRUE] /\ TRUE \in BOOLEAN
  BY DEF Fex!Generate
<1>2. caches' \in Fex!Caches
  BY <1>1, FexFields DEF Fex!Caches
<1>3. QED
  BY <1>1, <1>2, CompilerDone DEF Fex!Generate

LEMMA CompilerFails ==
    ASSUME FexInv, Fex!CompileFails
    PROVE  FexInv'
<1>1. caches' \in {caches, [maps |-> ready, whole |-> FALSE]} /\ FALSE \in BOOLEAN
  BY DEF Fex!CompileFails
<1>2. [maps |-> ready, whole |-> FALSE] \in Fex!Caches
  BY <1>1, FexFields DEF Fex!Caches
<1>3. QED
  BY <1>1, <1>2, FexFields, CompilerDone DEF Fex!CompileFails

\* The gate goes on to verify what its own compiler has compiled.
LEMMA GateHears ==
    ASSUME FexInv, Fex!Compiled
    PROVE  FexInv'
<1>1. /\ gate.pc = "compile" /\ gate.status # "none"
      /\ UNCHANGED <<recorded, root, new, ready, caches, refresh, results, app>>
  BY DEF Fex!Compiled, Fex!candidate
<1>2. CASE gate.status = "ok"
  <2>1. gate' = [gate EXCEPT !.pc = "verify"]
    BY <1>2 DEF Fex!Compiled
  <2>2. gate' \in Fex!Gate /\ gate'.pc = "verify" /\ gate'.status = gate.status
    BY <2>1, FexFields DEF Fex!Gate
  <2>3. FexTyped'
    BY <2>2, <1>1, FexFields DEF FexTyped
  <2>4. CandidateMade' /\ MapsAreOnce' /\ GateIsRight' /\ CompilerLearns'
    BY <2>2, <1>1, <1>2 DEF FexInv, CandidateMade, MapsAreOnce, GateIsRight, CompilerLearns
  <2>5. app' # "compile"
    BY <1>1 DEF FexInv, GateIsRight
  <2>6. QED
    BY <2>3, <2>4, <2>5, <1>1, ResultsHeld
<1>3. CASE gate.status # "ok"
  <2>1. gate' = Fex!Idle
    BY <1>3 DEF Fex!Compiled, Fex!EndGate
  <2>2. QED
    BY <2>1, <1>1, GateEnded
<1>4. QED
  BY <1>2, <1>3

(* The game *)

LEMMA GameIsApp ==
    ASSUME FexInv, app # "compile", app' # "compile",
           UNCHANGED <<root, ready, caches, refresh, results, gate>>,
           recorded' \in SUBSET Maps, new' \in SUBSET Maps, new \subseteq new', new' \cap ready = {}
    PROVE  FexInv'
<1>1. FexTyped'
  BY FexFields DEF FexTyped
<1>2. CandidateMade' /\ MapsAreOnce' /\ GateIsRight' /\ CompilerLearns'
  BY DEF FexInv, CandidateMade, MapsAreOnce, GateIsRight, CompilerLearns
<1>3. QED
  BY <1>1, <1>2, ResultsHeld

LEMMA GamePlays ==
    ASSUME FexInv, Fex!StartGame \/ Fex!Record \/ Fex!EndGame
    PROVE  FexInv'
<1>1. new \cap ready = {}
  BY DEF FexInv, MapsAreOnce
<1>2. UNCHANGED <<root, ready, caches, refresh, results, gate>>
  BY DEF Fex!StartGame, Fex!Record, Fex!EndGame, Fex!candidate
<1>3. CASE Fex!StartGame \/ Fex!EndGame
  <2>1. app # "compile" /\ app' # "compile" /\ UNCHANGED <<recorded, new>>
    BY <1>3 DEF Fex!StartGame, Fex!EndGame, Fex!candidate
  <2>2. QED
    BY <2>1, <1>1, <1>2, FexFields, GameIsApp
<1>4. CASE Fex!Record
  <2>1. PICK map \in Maps \ (recorded \cup new \cup ready) :
           \/ app = "on" /\ recorded' = recorded \cup {map} /\ UNCHANGED new
           \/ app = "compiled" /\ new' = new \cup {map} /\ UNCHANGED recorded
    BY <1>4 DEF Fex!Record
  <2>2. app # "compile" /\ app' # "compile"
    BY <2>1, <1>4 DEF Fex!Record
  <2>3. QED
    BY <2>1, <2>2, <1>1, <1>2, FexFields, GameIsApp
<1>5. QED
  BY <1>3, <1>4

(* verify *)

\* The result that follows: a generation more, from more maps, with the manifest in its history.
LEMMA ResultFollows ==
    ASSUME FexInv, gate.pc = "verify", Fex!MayVerify, NEW result,
           result = [generation |-> IF results = <<>> THEN 1 ELSE refresh.generation,
                     ready |-> ready, caches |-> caches,
                     history |-> IF results = <<>> THEN <<>> ELSE Fex!NextHistory],
           NEW n, n = Len(results)
    PROVE  /\ result \in Fex!Results /\ result.generation = n + 1 /\ Len(result.history) = n
           /\ result.ready = ready /\ result.caches = [maps |-> ready, whole |-> TRUE]
           /\ \A k \in 1..n : /\ result.history[k].generation = k + 1
                              /\ result.history[k].maps \subseteq ready
                              /\ results[k].ready \subseteq ready /\ results[k].ready # ready
<1>1. PICK generation, history :
         /\ generation = (IF results = <<>> THEN 1 ELSE refresh.generation)
         /\ history = (IF results = <<>> THEN <<>> ELSE Fex!NextHistory)
  OBVIOUS
<1>2. /\ result = [generation |-> generation, ready |-> ready, caches |-> caches,
                   history |-> history]
      /\ MaxHistory \in Nat
  BY <1>1, HelpersAssumption DEF Fex!FexCacheAssumption
<1>3. /\ GateIsRight /\ MapsAreOnce /\ ResultsStay /\ Fex!GenerationsTell /\ Fex!VerifiedCovers
      /\ caches = [maps |-> ready, whole |-> TRUE]
      /\ results # <<>> => ready # results[Len(results)].ready
  BY DEF FexInv, GateIsRight, Fex!CachesTell
<1>4. /\ new = {} /\ refresh.maps \subseteq ready
      /\ results # <<>> => /\ refresh.generation = results[Len(results)].generation + 1
                           /\ Len(results[Len(results)].history) < MaxHistory
  BY <1>3 DEF Fex!MayVerify, Fex!Last, MapsAreOnce
<1>5. /\ generation \in 1..(MaxHistory + 1) /\ generation = n + 1
      /\ history \in Seq(Fex!Entries) /\ Len(history) = n
      /\ \A k \in 1..n : history[k].generation = k + 1 /\ history[k].maps \subseteq ready
  <2>1. CASE results = <<>>
    <3>1. n = 0 /\ generation = 1 /\ history = <<>>
      BY <2>1, <1>1
    <3>2. QED
      BY <3>1, <1>2
  <2>2. CASE results # <<>>
    <3>1. PICK last, before : last = results[n] /\ before = last.history
      OBVIOUS
    <3>2. n \in 1..n /\ n \in Nat /\ last \in Fex!Results
      BY <2>2, <3>1, FexFields
    <3>3. before \in Seq(Fex!Entries)
      BY <3>1, <3>2 DEF Fex!Results
    <3>4. /\ last.generation = n /\ Len(before) = n - 1 /\ last.ready \subseteq ready
          /\ \A k \in 1..(n - 1) : /\ before[k].generation = k + 1
                                   /\ before[k].maps \subseteq last.ready
      BY <3>1, <3>2, <1>3 DEF Fex!GenerationsTell, Fex!VerifiedCovers, ResultsStay
    <3>5. refresh.generation = n + 1 /\ n + 1 \in 2..(MaxHistory + 1)
      BY <2>2, <3>1, <3>2, <3>4, <1>2, <1>4
    <3>6. PICK entry : entry = [generation |-> refresh.generation, maps |-> refresh.maps]
      OBVIOUS
    <3>7. entry \in Fex!Entries /\ entry.generation = n + 1 /\ entry.maps \subseteq ready
      BY <3>5, <3>6, <1>4, FexFields DEF Fex!Entries
    <3>8. history = Append(before, entry)
      BY <2>2, <3>1, <3>6, <1>1 DEF Fex!NextHistory, Fex!Last
    <3>9. /\ history \in Seq(Fex!Entries) /\ Len(history) = n /\ history[n] = entry
          /\ \A k \in 1..(n - 1) : history[k] = before[k]
      BY <3>2, <3>3, <3>4, <3>7, <3>8, AppendProperties
    <3>10. ASSUME NEW k \in 1..n
           PROVE  history[k].generation = k + 1 /\ history[k].maps \subseteq ready
      <4>1. CASE k = n
        BY <4>1, <3>7, <3>9
      <4>2. CASE k \in 1..(n - 1)
        BY <4>2, <3>4, <3>9
      <4>3. QED
        BY <4>1, <4>2, <3>2
    <3>11. generation = n + 1
      BY <2>2, <3>5, <1>1
    <3>12. QED
      BY <3>5, <3>9, <3>10, <3>11, <3>2
  <2>3. QED
    BY <2>1, <2>2
<1>6. ASSUME NEW k \in 1..n PROVE results[k].ready \subseteq ready /\ results[k].ready # ready
  <2>1. results # <<>> /\ n \in 1..n /\ n \in Nat
    BY FexFields
  <2>2. /\ results[k].ready \subseteq ready /\ results[n].ready \subseteq ready
        /\ results[n].ready # ready
    BY <2>1, <1>3 DEF ResultsStay
  <2>3. CASE k = n
    BY <2>2, <2>3
  <2>4. CASE k \in 1..(n - 1)
    BY <2>1, <2>2, <2>4, <1>3 DEF Fex!GenerationsTell
  <2>5. QED
    BY <2>1, <2>3, <2>4
<1>7. result \in Fex!Results
  BY <1>2, <1>5, FexFields DEF Fex!Results
<1>8. QED
  BY <1>2, <1>3, <1>5, <1>6, <1>7

LEMMA GateVerifies ==
    ASSUME FexInv, Fex!Verify
    PROVE  FexInv'
<1>1. /\ gate.pc = "verify" /\ gate' = Fex!Idle
      /\ UNCHANGED <<recorded, root, new, ready, caches, refresh, app>>
  BY DEF Fex!Verify, Fex!EndGate
<1>2. CASE ~Fex!MayVerify
  BY <1>1, <1>2, GateEnded DEF Fex!Verify
<1>3. CASE Fex!MayVerify
  <2>1. PICK result :
           /\ result = [generation |-> IF results = <<>> THEN 1 ELSE refresh.generation,
                        ready |-> ready, caches |-> caches,
                        history |-> IF results = <<>> THEN <<>> ELSE Fex!NextHistory]
           /\ results' = Append(results, result)
    BY <1>3 DEF Fex!Verify
  <2>2. PICK n : n = Len(results)
    OBVIOUS
  <2>3. /\ result \in Fex!Results /\ result.generation = n + 1 /\ Len(result.history) = n
        /\ result.ready = ready /\ result.caches = [maps |-> ready, whole |-> TRUE]
        /\ \A k \in 1..n : /\ result.history[k].generation = k + 1
                           /\ result.history[k].maps \subseteq ready
                           /\ results[k].ready \subseteq ready /\ results[k].ready # ready
    BY <2>1, <2>2, <1>1, <1>3, ResultFollows
  <2>4. /\ results' \in Seq(Fex!Results) /\ Len(results') = n + 1 /\ results'[n + 1] = result
        /\ n \in Nat /\ \A i \in 1..n : results'[i] = results[i]
    BY <2>1, <2>2, <2>3, FexFields, AppendProperties
  <2>5. gate' \in Fex!Gate /\ gate'.pc = "idle" /\ gate'.status = "none"
    BY <1>1, FexFields
  <2>6. /\ CandidateMade /\ MapsAreOnce /\ GateIsRight /\ ResultsStay
        /\ Fex!GenerationsTell /\ Fex!VerifiedCovers
    BY DEF FexInv, Fex!CachesTell
  <2>7. app # "compile" /\ root = "made"
    BY <2>6, <1>1 DEF GateIsRight, CandidateMade
  <2>8. FexTyped'
    BY <2>4, <2>5, <1>1, FexFields DEF FexTyped
  <2>9. CandidateMade' /\ MapsAreOnce' /\ GateIsRight' /\ CompilerLearns'
    BY <2>5, <2>6, <2>7, <1>1 DEF CandidateMade, MapsAreOnce, GateIsRight, CompilerLearns
  <2>10. ResultsStay'
    BY <2>2, <2>3, <2>4, <2>6, <1>1 DEF ResultsStay
  <2>11. Fex!GenerationsTell'
    <3>1. ASSUME NEW i \in 1..Len(results')
          PROVE  /\ results'[i].generation = i /\ Len(results'[i].history) = i - 1
                 /\ \A k \in 1..(i - 1) : /\ results'[i].history[k].generation = k + 1
                                          /\ results'[k].ready \subseteq results'[i].ready
                                          /\ results'[k].ready # results'[i].ready
      <4>1. CASE i \in 1..n
        <5>1. 1..(i - 1) \subseteq 1..n
          BY <4>1, <2>4
        <5>2. QED
          BY <4>1, <5>1, <2>2, <2>4, <2>6 DEF Fex!GenerationsTell
      <4>2. CASE i = n + 1
        <5>1. i - 1 = n
          BY <4>2, <2>4
        <5>2. QED
          BY <4>2, <5>1, <2>3, <2>4
      <4>3. QED
        BY <4>1, <4>2, <2>4
    <3>2. QED
      BY <3>1 DEF Fex!GenerationsTell
  <2>12. Fex!VerifiedCovers'
    <3>1. ASSUME NEW i \in 1..Len(results')
          PROVE  /\ results'[i].caches = [maps |-> results'[i].ready, whole |-> TRUE]
                 /\ \A k \in 1..Len(results'[i].history) :
                       results'[i].history[k].maps \subseteq results'[i].ready
      <4>1. CASE i \in 1..n
        BY <4>1, <2>2, <2>4, <2>6 DEF Fex!VerifiedCovers
      <4>2. CASE i = n + 1
        BY <4>2, <2>3, <2>4
      <4>3. QED
        BY <4>1, <4>2, <2>4
    <3>2. QED
      BY <3>1 DEF Fex!VerifiedCovers
  <2>13. QED
    BY <2>7, <2>8, <2>9, <2>10, <2>11, <2>12, <1>1
       DEF FexInv, Fex!CachesTell, Fex!CompilesTheManifest
<1>4. QED
  BY <1>2, <1>3

LEMMA FexSteps == FexInv /\ (Fex!Next \/ UNCHANGED fexVars) => FexInv'
<1> SUFFICES ASSUME FexInv, Fex!Next \/ UNCHANGED fexVars PROVE FexInv'
  OBVIOUS
<1>1. CASE Fex!GateKilled \/ Fex!Decline
  BY <1>1, GateEnded DEF Fex!GateKilled, Fex!Decline, Fex!EndGate, Fex!candidate
<1>2. CASE UNCHANGED fexVars
  <2>1. FexTyped' /\ CandidateMade' /\ MapsAreOnce' /\ GateIsRight' /\ CompilerLearns'
    BY <1>2
       DEF FexInv, FexTyped, CandidateMade, MapsAreOnce, GateIsRight, CompilerLearns, fexVars
  <2>2. QED
    BY <2>1, <1>2, ResultsHeld DEF FexInv, Fex!CachesTell, Fex!CompilesTheManifest, fexVars
<1>3. CASE Fex!GateSteps
  BY <1>3, MapCopied, PrepareWritten, GateLaunches, GateHears, GateVerifies DEF Fex!GateSteps
<1>4. CASE Fex!CompilerSteps \/ Fex!CompileFails
  BY <1>4, MapAggregated, CompilerGenerates, CompilerFails DEF Fex!CompilerSteps
<1>5. QED
  BY <1>1, <1>2, <1>3, <1>4, GatePrepares, RefreshWritten, RequestServed, GamePlays DEF Fex!Next

-------------------------------------------------------------------------------

(* The guard of Tomb Raider's processors *)

RaiderTyped ==
    /\ played \in Raider!Game /\ others \in Raider!Others /\ guard \in Raider!Guard
    /\ counts \in Seq({"good", "bad"})
    /\ Len(counts) <= IF played.phase = "probe" THEN played.id ELSE played.id + 1
    /\ Raider!Alive => played.mask["main"] # "absent" /\ played.id > 0
    /\ guard.tracked <= played.id

\* The first game has not yet counted its processors.
Early == played.id = 0 \/ (played.id = 1 /\ played.phase = "probe")

\* Until then the log holds nothing that the guard has not seen, and the guard waits.
GuardWaits ==
    /\ Early =>
          /\ Len(counts) \in {0, guard.offset} /\ ~guard.topology
          /\ guard.pc \in {"look", "topology", "end"}
    /\ guard.pc \in {"converge", "verify", "others", "settle", "final"} => guard.topology
    /\ played.disturbed => played.id > 1

\* The interval is no longer than the polls that have found the game.
IntervalCounts ==
    /\ Raider!Watched => IF guard.pc = "look" THEN played.polls >= guard.since
                         ELSE guard.pc = "end" \/ played.polls > guard.since
    /\ guard.pc = "final" => guard.since = Stable

RaiderInv == RaiderTyped /\ GuardWaits /\ IntervalCounts

LEMMA RaiderBounds ==
    /\ MaxGames \in Nat /\ Stable \in Nat \ {0}
    /\ 0 \in 0..MaxGames /\ 0 \in 0..Stable
BY HelpersAssumption DEF Raider!AffinityGuardAssumption

LEMMA RaiderBegins == Raider!Init => RaiderInv
<1> SUFFICES ASSUME Raider!Init PROVE RaiderInv
  OBVIOUS
<1>1. counts \in Seq({"good", "bad"}) /\ Len(counts) \in {0, 1}
  <2>1. counts = <<>> \/ counts = <<"good">>
    BY DEF Raider!Init
  <2>2. CASE counts = <<>>
    BY <2>2
  <2>3. CASE counts = <<"good">>
    BY <2>3
  <2>4. QED
    BY <2>1, <2>2, <2>3
<1>2. /\ played \in Raider!Game /\ ~Raider!Alive /\ played.id = 0 /\ ~played.disturbed
      /\ played.phase = "none"
  BY RaiderBounds DEF Raider!Init, Raider!NoGame, Raider!Game, Raider!Threads, Raider!Masks,
                      Raider!Alive
<1>3. /\ guard \in Raider!Guard /\ guard.pc = "look" /\ guard.tracked = 0 /\ ~guard.topology
      /\ guard.offset = Len(counts) /\ guard.since = 0
  BY <1>1, RaiderBounds DEF Raider!Init, Raider!Started, Raider!Guard
<1>4. others \in Raider!Others
  <2>1. others \in [{"helper", "server"} -> {"absent", "wrong"}]
    BY ONLY Raider!Init DEF Raider!Init
  <2>2. QED
    BY <2>1 DEF Raider!Others
<1>5. RaiderTyped
  <2>1. Len(counts) <= IF played.phase = "probe" THEN played.id ELSE played.id + 1
    BY <1>1, <1>2
  <2>2. guard.tracked <= played.id
    BY <1>2, <1>3
  <2>3. Raider!Alive => played.mask["main"] # "absent" /\ played.id > 0
    BY <1>2
  <2>4. QED
    BY <1>1, <1>2, <1>3, <1>4, <2>1, <2>2, <2>3 DEF RaiderTyped
<1>6. QED
  BY <1>1, <1>2, <1>3, <1>5 DEF RaiderInv, Early, GuardWaits, IntervalCounts, Raider!Watched

\* What a step of the guard makes of its own variables.
LEMMA LookKinds ==
    ASSUME RaiderInv, Raider!Look
    PROVE  /\ guard' \in Raider!Guard /\ played' \in Raider!Game /\ UNCHANGED <<counts, others>>
           /\ guard'.offset = guard.offset /\ guard'.topology = guard.topology
           /\ played'.id = played.id /\ played'.phase = played.phase /\ played'.mask = played.mask
           /\ played'.disturbed = played.disturbed
           /\ \/ /\ ~Raider!Alive /\ played' = played
                 /\ guard'.pc = "look" /\ guard'.tracked = 0 /\ guard'.since = 0
              \/ /\ Raider!Alive /\ guard'.tracked = played.id
                 /\ guard'.pc = IF guard.topology THEN "converge" ELSE "topology"
                 /\ guard'.since = IF guard.tracked = played.id THEN guard.since ELSE 0
                 /\ played'.polls > guard'.since
<1> USE RaiderBounds
<1>t. /\ guard \in Raider!Guard /\ played \in Raider!Game /\ guard.pc = "look"
      /\ UNCHANGED <<counts, others>>
  BY DEF RaiderInv, RaiderTyped, Raider!Look
<1>p. Raider!Alive /\ guard.tracked = played.id => played.polls >= guard.since
  BY <1>t DEF RaiderInv, IntervalCounts, Raider!Watched
<1>1. CASE ~Raider!Alive
  <2>1. guard' = [guard EXCEPT !.pc = "look", !.tracked = 0, !.since = 0] /\ played' = played
    BY <1>1 DEF Raider!Look, Raider!Forget
  <2>2. QED
    BY <2>1, <1>1, <1>t DEF Raider!Guard
<1>2. CASE Raider!Alive
  <2>1. PICK step : /\ step = (IF guard.topology THEN "converge" ELSE "topology")
                    /\ guard' = [Raider!Follow EXCEPT !.pc = step]
    BY <1>2 DEF Raider!Look
  <2>2. PICK polls : /\ polls = (IF played.polls <= Stable THEN played.polls + 1 ELSE played.polls)
                     /\ played' = [played EXCEPT !.polls = polls]
    BY <1>2 DEF Raider!Look
  <2>3. polls \in 0..(Stable + 1) /\ \A n \in 0..Stable : played.polls >= n => polls > n
    BY <2>2, <1>t DEF Raider!Game
  <2>4. /\ played' \in Raider!Game /\ played'.polls = polls
        /\ played'.id = played.id /\ played'.phase = played.phase /\ played'.mask = played.mask
        /\ played'.disturbed = played.disturbed
    BY <2>2, <2>3, <1>t DEF Raider!Game
  <2>5. CASE guard.tracked = played.id
    <3>1. guard' = [guard EXCEPT !.pc = step]
      BY <2>1, <2>5 DEF Raider!Follow
    <3>2. guard.since \in 0..Stable
      BY <1>t DEF Raider!Guard
    <3>3. QED
      BY <3>1, <3>2, <2>1, <2>3, <2>4, <2>5, <1>t, <1>p, <1>2 DEF Raider!Guard
  <2>6. CASE guard.tracked # played.id
    <3>1. guard' = [[guard EXCEPT !.tracked = played.id, !.since = 0] EXCEPT !.pc = step]
      BY <2>1, <2>6 DEF Raider!Follow
    <3>2. played.id \in 0..MaxGames /\ 0 \in 0..Stable /\ played.polls >= 0
      BY <1>t DEF Raider!Game
    <3>3. QED
      BY <3>1, <3>2, <2>1, <2>3, <2>4, <2>6, <1>t, <1>2 DEF Raider!Guard
  <2>7. QED
    BY <2>5, <2>6
<1>3. QED
  BY <1>1, <1>2

LEMMA TopologyKinds ==
    ASSUME RaiderInv, Raider!Topology
    PROVE  /\ guard' \in Raider!Guard /\ UNCHANGED <<played, counts, others>>
           /\ \/ /\ guard'.pc = "look" /\ guard'.tracked = 0 /\ guard'.since = 0
                 /\ guard'.topology = guard.topology /\ guard'.offset = guard.offset
                 /\ ~Raider!Watched
              \/ /\ guard'.pc = "look" /\ Len(counts) = Raider!Offset
                 /\ guard'.tracked = guard.tracked /\ guard'.since = guard.since
                 /\ guard'.topology = guard.topology /\ guard'.offset = Len(counts)
                 /\ Raider!Watched
              \/ /\ guard'.pc = "end" /\ guard'.tracked = guard.tracked
                 /\ guard'.topology = guard.topology /\ guard'.offset = guard.offset
              \/ /\ guard'.pc = "converge" /\ guard'.topology /\ Len(counts) # Raider!Offset
                 /\ guard'.tracked = guard.tracked /\ guard'.since = guard.since
<1> USE RaiderBounds
<1>t. /\ guard \in Raider!Guard /\ guard.pc = "topology" /\ counts \in Seq({"good", "bad"})
      /\ UNCHANGED <<played, counts, others>> /\ Len(counts) <= MaxGames + 1
  BY DEF RaiderInv, RaiderTyped, Raider!Topology, Raider!Game
<1>o. Raider!Offset \in 0..Len(counts) /\ Len(counts) \in Nat
  BY <1>t DEF Raider!Offset, Raider!Guard
<1>1. CASE ~Raider!Watched
  <2>1. guard' = [guard EXCEPT !.pc = "look", !.tracked = 0, !.since = 0]
    BY <1>1 DEF Raider!Topology, Raider!Forget
  <2>2. QED
    BY <2>1, <1>1, <1>t DEF Raider!Guard
<1>2. CASE Raider!Watched /\ Len(counts) = Raider!Offset
  <2>1. guard' = [guard EXCEPT !.pc = "look", !.offset = Len(counts)]
    BY <1>2 DEF Raider!Topology
  <2>2. Len(counts) \in 0..(MaxGames + 1)
    BY <1>t, <1>o
  <2>3. guard' \in Raider!Guard
    BY <2>1, <2>2, <1>t DEF Raider!Guard
  <2>4. QED
    BY <2>1, <2>3, <1>2, <1>t DEF Raider!Guard
<1>3. CASE Raider!Watched /\ Len(counts) # Raider!Offset /\ counts[Raider!Offset + 1] = "bad"
  <2>1. guard' = [guard EXCEPT !.pc = "end", !.exit = "failed"]
    BY <1>3 DEF Raider!Topology, Raider!Fail
  <2>2. QED
    BY <2>1, <1>t DEF Raider!Guard
<1>4. CASE Raider!Watched /\ Len(counts) # Raider!Offset /\ counts[Raider!Offset + 1] # "bad"
  <2>1. PICK n : /\ n = Raider!Offset + 1
                 /\ guard' = [guard EXCEPT !.pc = "converge", !.topology = TRUE, !.offset = n]
    BY <1>4 DEF Raider!Topology
  <2>2. n \in 0..(MaxGames + 1)
    BY <2>1, <1>4, <1>o, <1>t
  <2>3. QED
    BY <2>1, <2>2, <1>4, <1>t DEF Raider!Guard
<1>5. QED
  BY <1>1, <1>2, <1>3, <1>4

\* The masks may be those of a game that probes, if the guard believes that none does.
LEMMA ConvergeKinds ==
    ASSUME RaiderInv, Raider!Converge
    PROVE  /\ guard' \in Raider!Guard /\ played' \in Raider!Game /\ UNCHANGED <<counts, others>>
           /\ guard'.topology = guard.topology /\ guard'.offset = guard.offset
           /\ played'.id = played.id /\ played'.phase = played.phase /\ played'.polls = played.polls
           /\ played.mask["main"] # "absent" => played'.mask["main"] # "absent"
           /\ played'.disturbed => played.disturbed \/ played.phase = "probe"
           /\ \/ /\ guard'.pc = "look" /\ guard'.tracked = 0 /\ guard'.since = 0
                 /\ ~Raider!Watched
              \/ /\ guard'.pc \in {"others", "verify"}
                 /\ guard'.tracked = guard.tracked /\ guard'.since = guard.since
<1> USE RaiderBounds
<1>t. /\ guard \in Raider!Guard /\ played \in Raider!Game /\ guard.pc = "converge"
      /\ UNCHANGED <<counts, others>>
  BY DEF RaiderInv, RaiderTyped, Raider!Converge
<1>1. CASE ~Raider!Watched
  <2>1. guard' = [guard EXCEPT !.pc = "look", !.tracked = 0, !.since = 0] /\ played' = played
    BY <1>1 DEF Raider!Converge, Raider!Forget
  <2>2. guard' \in Raider!Guard
    BY <2>1, <1>t DEF Raider!Guard
  <2>3. QED
    BY <2>1, <2>2, <1>1, <1>t DEF Raider!Guard
<1>2. CASE Raider!Watched /\ Raider!InPlace(Raider!HasNet)
  <2>1. PICK net \in BOOLEAN, fit \in SUBSET {"game", "others"} :
          guard' = [guard EXCEPT !.pc = "others", !.isolate = net, !.ready = fit]
    <3>1. PICK fit : /\ fit = (IF Raider!HasNet THEN {"game"} ELSE {})
                       /\ guard' = [guard EXCEPT !.pc = "others", !.isolate = Raider!HasNet,
                                                 !.ready = fit]
      BY <1>2 DEF Raider!Converge
    <3>2. Raider!HasNet \in BOOLEAN /\ fit \in SUBSET {"game", "others"}
      BY <3>1 DEF Raider!HasNet
    <3>3. QED
      BY <3>1, <3>2
  <2>2. played' = played
    BY <1>2 DEF Raider!Converge
  <2>3. guard' \in Raider!Guard
    BY <2>1, <1>t DEF Raider!Guard
  <2>4. QED
    BY <2>1, <2>2, <2>3, <1>t DEF Raider!Guard
<1>3. CASE Raider!Watched /\ ~Raider!InPlace(Raider!HasNet)
  <2>1. PICK net \in BOOLEAN :
          guard' = [guard EXCEPT !.pc = "verify", !.isolate = net, !.ready = {}]
    <3>1. Raider!HasNet \in BOOLEAN
      BY DEF Raider!HasNet
    <3>2. QED
      BY <3>1, <1>3 DEF Raider!Converge
  <2>2. guard' \in Raider!Guard
    BY <2>1, <1>t DEF Raider!Guard
  <2>3. PICK mask \in [Raider!Threads -> Raider!Masks], disturbed \in BOOLEAN :
          /\ mask = [t \in Raider!Threads |-> IF played.mask[t] = "absent" THEN "absent"
                                              ELSE Raider!Expected(t, Raider!HasNet)]
          /\ disturbed => played.disturbed \/ played.phase = "probe"
          /\ played' = [played EXCEPT !.mask = mask, !.disturbed = disturbed]
    <3>1. PICK mask, disturbed :
          /\ mask = [t \in Raider!Threads |-> IF played.mask[t] = "absent" THEN "absent"
                                              ELSE Raider!Expected(t, Raider!HasNet)]
          /\ disturbed = (played.disturbed \/ played.phase = "probe")
          /\ played' = [played EXCEPT !.mask = mask, !.disturbed = disturbed]
      BY <1>3 DEF Raider!Converge
    <3>2. disturbed \in BOOLEAN
      BY <3>1
    <3>3. mask \in [Raider!Threads -> Raider!Masks]
      BY <3>1, <1>t DEF Raider!Expected, Raider!Game, Raider!Masks
    <3>4. QED
      BY <3>1, <3>2, <3>3
  <2>4. played.mask["main"] # "absent" => mask["main"] # "absent"
    BY <2>3 DEF Raider!Expected, Raider!Threads
  <2>5. played' \in Raider!Game
    BY <2>3, <2>4, <1>t DEF Raider!Game
  <2>6. /\ played'.id = played.id /\ played'.phase = played.phase
        /\ played'.polls = played.polls /\ played'.mask = mask
    BY <2>3, <1>t DEF Raider!Game
  <2>7. played'.disturbed = disturbed
    BY <2>3, <1>t DEF Raider!Game
  <2>8. /\ guard'.pc = "verify" /\ guard'.tracked = guard.tracked /\ guard'.since = guard.since
        /\ guard'.topology = guard.topology /\ guard'.offset = guard.offset
    BY <2>1, <1>t DEF Raider!Guard
  <2>9. played'.disturbed => played.disturbed \/ played.phase = "probe"
    BY <2>3, <2>7
  <2>10. QED
    BY <2>2, <2>4, <2>5, <2>6, <2>8, <2>9, <1>t
<1>4. QED
  BY <1>1, <1>2, <1>3

\* The other steps of the guard leave the game alone.
LEMMA PollKinds ==
    ASSUME RaiderInv,
           Raider!Verify \/ Raider!Align \/ Raider!Settle \/ Raider!Final \/ Raider!GiveUp
    PROVE  /\ guard' \in Raider!Guard /\ others' \in Raider!Others /\ UNCHANGED <<played, counts>>
           /\ guard'.topology = guard.topology /\ guard'.offset = guard.offset
           /\ \/ /\ guard'.pc = "look" /\ guard'.tracked = 0 /\ guard'.since = 0
                 /\ guard.pc = "verify" /\ ~Raider!Watched
              \/ /\ guard'.tracked = guard.tracked
                 /\ \/ /\ guard.pc = "settle" /\ guard'.pc = "look"
                       /\ guard'.since \in {0, guard.since + 1}
                    \/ /\ guard.pc = "settle" /\ guard'.pc = "final" /\ guard.since = Stable
                       /\ guard'.since = guard.since
                    \/ /\ guard'.since = guard.since /\ guard'.pc = "end"
                    \/ /\ guard'.since = guard.since /\ guard.pc \in {"verify", "others"}
                       /\ guard'.pc \in {"others", "settle"}
<1> USE RaiderBounds
<1>t. /\ guard \in Raider!Guard /\ UNCHANGED <<played, counts>> /\ others \in Raider!Others
  BY DEF RaiderInv, RaiderTyped, Raider!Verify, Raider!Align, Raider!Settle, Raider!Final,
         Raider!GiveUp
<1>f. CASE Raider!Fail /\ UNCHANGED others
  BY <1>f, <1>t DEF Raider!Fail, Raider!Guard
<1>1. CASE Raider!Verify
  <2>1. CASE ~Raider!Watched
    <3>1. guard' = [guard EXCEPT !.pc = "look", !.tracked = 0, !.since = 0] /\ others' = others
      BY <1>1, <2>1 DEF Raider!Verify, Raider!Forget
    <3>2. QED
      BY <3>1, <2>1, <1>t, <1>1 DEF Raider!Guard, Raider!Verify
  <2>2. CASE Raider!Watched
    <3>1. PICK fit \in SUBSET {"game", "others"} :
            guard' = [guard EXCEPT !.pc = "others", !.ready = fit]
      BY <1>1, <2>2 DEF Raider!Verify
    <3>2. QED
      BY <3>1, <1>t, <1>1 DEF Raider!Guard, Raider!Verify
  <2>3. QED
    BY <2>1, <2>2
<1>2. CASE Raider!Align
  <2>1. PICK fit : /\ fit \in {guard.ready, guard.ready \cup {"others"}}
                     /\ guard' = [guard EXCEPT !.pc = "settle", !.ready = fit]
    BY <1>2 DEF Raider!Align
  <2>2. fit \in SUBSET {"game", "others"}
    BY <2>1, <1>t DEF Raider!Guard
  <2>3. others' \in Raider!Others /\ guard.pc = "others"
    BY <1>2, <1>t DEF Raider!Align, Raider!Others
  <2>4. QED
    BY <2>1, <2>2, <2>3, <1>t DEF Raider!Guard
<1>3. CASE Raider!Settle
  <2>1. guard.pc = "settle" /\ others' = others /\ guard.since \in 0..Stable
    BY <1>3, <1>t DEF Raider!Settle, Raider!Guard
  <2>2. CASE guard' = [guard EXCEPT !.pc = "look", !.since = 0]
    BY <2>1, <2>2, <1>t DEF Raider!Guard
  <2>3. CASE guard.since >= Stable /\ guard' = [guard EXCEPT !.pc = "final"]
    BY <2>1, <2>3, <1>t DEF Raider!Guard
  <2>4. CASE guard.since < Stable /\ guard' = [guard EXCEPT !.pc = "look", !.since = @ + 1]
    <3>1. PICK since : /\ since = guard.since + 1
                      /\ guard' = [guard EXCEPT !.pc = "look", !.since = since]
      BY <2>4
    <3>2. since \in 0..Stable
      BY <3>1, <2>1, <2>4
    <3>3. QED
      BY <3>1, <3>2, <2>1, <1>t DEF Raider!Guard
  <2>5. guard.since >= Stable \/ guard.since < Stable
    BY <2>1
  <2>6. QED
    BY <2>2, <2>3, <2>4, <2>5, <1>3 DEF Raider!Settle, Raider!Step
<1>4. CASE Raider!Final /\ ~Raider!Fail
  <2>1. guard' = [guard EXCEPT !.pc = "end", !.exit = "ready"] /\ others' = others
    BY <1>4 DEF Raider!Final
  <2>2. QED
    BY <2>1, <1>t DEF Raider!Guard
<1>5. QED
  BY <1>f, <1>1, <1>2, <1>3, <1>4 DEF Raider!Final, Raider!GiveUp

\* Another game or another count, each at its own step; most of them leave the guard alone.
LEMMA GameKinds ==
    ASSUME RaiderInv,
           \/ Raider!StartGame \/ Raider!Count \/ Raider!Connect \/ Raider!EndGame
           \/ Raider!ShowWindow \/ Raider!Change
    PROVE  /\ guard' = guard /\ played' \in Raider!Game /\ others' \in Raider!Others
           /\ \/ /\ ~Raider!Alive /\ played'.id = played.id + 1 /\ played'.phase = "probe"
                 /\ ~played'.disturbed /\ counts' \in {counts, <<>>}
                 /\ played'.mask["main"] # "absent"
              \/ /\ played.phase = "probe" /\ played'.phase = "counted" /\ played'.id = played.id
                 /\ played'.disturbed = played.disturbed /\ played'.polls = played.polls
                 /\ played'.mask = played.mask
                 /\ \E count \in {"good", "bad"} : counts' = Append(counts, count)
              \/ /\ Raider!Alive /\ counts' = counts /\ played'.id = played.id
                 /\ \/ played'.phase = "none" /\ ~played'.disturbed
                    \/ /\ \/ played'.phase = played.phase
                          \/ played.phase = "counted" /\ played'.phase = "play"
                       /\ played'.disturbed = played.disturbed /\ played'.polls = played.polls
                       /\ played.mask["main"] # "absent" => played'.mask["main"] # "absent"
              \/ UNCHANGED <<played, counts>>
<1> USE RaiderBounds
<1>t. /\ played \in Raider!Game /\ others \in Raider!Others
  BY DEF RaiderInv, RaiderTyped
<1>1. CASE Raider!StartGame
  <2>1. played' = [id |-> played.id + 1, phase |-> "probe", disturbed |-> FALSE, polls |-> 0,
                   mask |-> [[t \in Raider!Threads |-> "absent"] EXCEPT !["main"] = "own"]]
    BY <1>1 DEF Raider!StartGame, Raider!NoGame
  <2>2. played.id + 1 \in 0..MaxGames
    BY <1>1, <1>t DEF Raider!StartGame, Raider!Game
  <2>3. played' \in Raider!Game /\ played'.mask["main"] # "absent"
    BY <2>1, <2>2 DEF Raider!Game, Raider!Threads, Raider!Masks
  <2>4. played'.id = played.id + 1 /\ played'.phase = "probe" /\ played'.disturbed = FALSE
    BY <2>1
  <2>5. /\ ~Raider!Alive /\ counts' \in {counts, <<>>} /\ guard' = guard /\ others' = others
    BY <1>1 DEF Raider!StartGame
  <2>6. QED
    BY <2>3, <2>4, <2>5, <1>t
<1>2. CASE Raider!Count
  BY <1>2, <1>t DEF Raider!Count, Raider!Game
<1>3. CASE Raider!Connect
  <2>1. PICK mask : /\ mask = [played.mask EXCEPT !["net"] = played.mask["main"]]
                    /\ played' = [played EXCEPT !.phase = "play", !.mask = mask]
    BY <1>3 DEF Raider!Connect
  <2>2. mask \in [Raider!Threads -> Raider!Masks] /\ mask["main"] = played.mask["main"]
    BY <2>1, <1>t DEF Raider!Game, Raider!Threads
  <2>3. QED
    BY <2>1, <2>2, <1>3, <1>t DEF Raider!Connect, Raider!Game, Raider!Alive
<1>4. CASE Raider!EndGame
  BY <1>4, <1>t DEF Raider!EndGame, Raider!NoGame, Raider!Game, Raider!Masks, Raider!Threads
<1>5. CASE Raider!ShowWindow
  BY <1>5, <1>t DEF Raider!ShowWindow
<1>6. CASE Raider!Change
  <2>1. guard' = guard /\ counts' = counts
    BY <1>6 DEF Raider!Change
  <2>2. CASE others' # others
    BY <2>1, <2>2, <1>6, <1>t DEF Raider!Change, Raider!Others
  <2>3. CASE others' = others /\ played' # played
    <3>1. PICK t \in Raider!Threads : played' = [played EXCEPT !.mask[t] = "own"] /\ Raider!Alive
      BY <2>3, <1>6 DEF Raider!Change
    <3>2. PICK mask : /\ mask = [played.mask EXCEPT ![t] = "own"]
                     /\ played' = [played EXCEPT !.mask = mask]
      BY <3>1
    <3>3. /\ mask \in [Raider!Threads -> Raider!Masks]
          /\ played.mask["main"] # "absent" => mask["main"] # "absent"
      BY <3>2, <1>t DEF Raider!Game, Raider!Masks, Raider!Threads
    <3>4. QED
      BY <3>1, <3>2, <3>3, <2>1, <2>3, <1>t DEF Raider!Game
  <2>4. QED
    BY <2>1, <2>2, <2>3, <1>t
<1>7. QED
  BY <1>1, <1>2, <1>3, <1>4, <1>5, <1>6

\* The game that the guard follows, and every poll of it.
LEMMA RaiderSteps == RaiderInv /\ [Raider!Next]_raiderVars => RaiderInv'
<1> SUFFICES ASSUME RaiderInv, [Raider!Next]_raiderVars PROVE RaiderInv'
  OBVIOUS
<1> USE RaiderBounds
<1>t. RaiderTyped /\ GuardWaits /\ IntervalCounts
  BY DEF RaiderInv
<1>n. /\ played.id \in Nat /\ guard.offset \in Nat /\ guard.tracked \in Nat
      /\ guard.since \in 0..Stable
      /\ played.polls \in Nat /\ counts \in Seq({"good", "bad"}) /\ Len(counts) \in Nat
  BY <1>t DEF RaiderTyped, Raider!Game, Raider!Guard
<1>1. CASE Raider!Look
  <2>1. RaiderTyped'
    BY <1>1, <1>t, <1>n, LookKinds DEF RaiderTyped, Raider!Alive
  <2>2. GuardWaits'
    BY <1>1, <1>t, <1>n, LookKinds DEF GuardWaits, Early
  <2>3. IntervalCounts'
    BY <1>1, <1>t, <1>n, LookKinds DEF IntervalCounts, Raider!Watched, Raider!Alive, RaiderTyped
  <2>4. QED
    BY <2>1, <2>2, <2>3 DEF RaiderInv
<1>2. CASE Raider!Topology
  <2>1. RaiderTyped'
    BY <1>2, <1>t, <1>n, TopologyKinds DEF RaiderTyped, Raider!Alive
  <2>2. GuardWaits'
    BY <1>2, <1>t, <1>n, TopologyKinds DEF GuardWaits, Early, Raider!Offset
  <2>3. IntervalCounts'
    BY <1>2, <1>t, <1>n, TopologyKinds
       DEF IntervalCounts, Raider!Watched, Raider!Alive, RaiderTyped, Raider!Topology
  <2>4. QED
    BY <2>1, <2>2, <2>3 DEF RaiderInv
<1>3. CASE Raider!Converge
  <2>0. guard.pc = "converge"
    BY <1>3 DEF Raider!Converge
  <2>1. RaiderTyped'
    BY <1>3, <1>t, <1>n, ConvergeKinds DEF RaiderTyped, Raider!Alive
  <2>2. GuardWaits'
    BY <1>3, <2>0, <1>t, <1>n, ConvergeKinds DEF GuardWaits, Early, RaiderTyped, Raider!Alive
  <2>3. IntervalCounts'
    BY <1>3, <2>0, <1>t, <1>n, ConvergeKinds
       DEF IntervalCounts, Raider!Watched, Raider!Alive, RaiderTyped
  <2>4. QED
    BY <2>1, <2>2, <2>3 DEF RaiderInv
<1>4. CASE Raider!Verify \/ Raider!Align \/ Raider!Settle \/ Raider!Final \/ Raider!GiveUp
  <2>1. RaiderTyped'
    BY <1>4, <1>t, <1>n, PollKinds DEF RaiderTyped, Raider!Alive
  <2>2. GuardWaits'
    BY <1>4, <1>t, <1>n, PollKinds DEF GuardWaits, Early
  <2>3. IntervalCounts'
    BY <1>4, <1>t, <1>n, PollKinds DEF IntervalCounts, Raider!Watched, Raider!Alive, RaiderTyped
  <2>4. QED
    BY <2>1, <2>2, <2>3 DEF RaiderInv
<1>5. CASE \/ Raider!StartGame \/ Raider!Count \/ Raider!Connect \/ Raider!EndGame
           \/ Raider!ShowWindow \/ Raider!Change
  <2>0. /\ counts' \in Seq({"good", "bad"}) /\ Len(counts') \in Nat
        /\ counts' = <<>> => Len(counts') = 0
        /\ (\E count \in {"good", "bad"} : counts' = Append(counts, count))
              => Len(counts') = Len(counts) + 1
    <3>1. \/ counts' = counts \/ counts' = <<>>
          \/ \E count \in {"good", "bad"} : counts' = Append(counts, count)
      BY <1>5, GameKinds
    <3>2. CASE counts' = counts
      <4>1. \A count \in {"good", "bad"} : Len(Append(counts, count)) = Len(counts) + 1
        BY <1>n
      <4>2. QED
        BY <3>2, <4>1, <1>n
    <3>3. CASE counts' = <<>>
      <4>1. \A count \in {"good", "bad"} : Append(counts, count) # <<>>
        BY <1>n
      <4>2. QED
        BY <3>3, <4>1
    <3>4. CASE \E count \in {"good", "bad"} : counts' = Append(counts, count)
      <4>1. PICK count \in {"good", "bad"} : counts' = Append(counts, count)
        BY <3>4
      <4>2. counts' \in Seq({"good", "bad"}) /\ Len(counts') = Len(counts) + 1
        BY <4>1, <1>n
      <4>3. counts' # <<>>
        BY <4>2, <1>n
      <4>4. QED
        BY <4>2, <4>3, <1>n
    <3>5. QED
      BY <3>1, <3>2, <3>3, <3>4
  <2>1. RaiderTyped'
    BY <1>5, <2>0, <1>t, <1>n, GameKinds DEF RaiderTyped, Raider!Alive
  <2>2. GuardWaits'
    BY <1>5, <2>0, <1>t, <1>n, GameKinds DEF GuardWaits, Early, RaiderTyped, Raider!Alive
  <2>3. IntervalCounts'
    BY <1>5, <1>t, <1>n, GameKinds DEF IntervalCounts, Raider!Watched, Raider!Alive, RaiderTyped
  <2>4. QED
    BY <2>1, <2>2, <2>3 DEF RaiderInv
<1>6. CASE UNCHANGED raiderVars
  BY <1>6 DEF raiderVars, RaiderInv, RaiderTyped, Early, GuardWaits, IntervalCounts,
              Raider!Watched, Raider!Alive
<1>7. QED
  BY <1>1, <1>2, <1>3, <1>4, <1>5, <1>6 DEF Raider!Next, Raider!GuardSteps

\* The report.
LEMMA RaiderActs == RaiderInv /\ [Raider!Next]_raiderVars => Raider!ReadyStep
<1> SUFFICES ASSUME RaiderInv, [Raider!Next]_raiderVars, guard.exit = "none", guard'.exit = "ready"
             PROVE  /\ Raider!Watched /\ played.polls > Stable /\ guard.topology
                    /\ played.mask = [main |-> "target", net |-> "net"]
  BY DEF Raider!ReadyStep
<1>t. /\ guard \in Raider!Guard /\ played \in Raider!Game
      /\ Raider!Alive => played.mask["main"] # "absent"
  BY DEF RaiderInv, RaiderTyped
<1>1. Raider!Final /\ ~Raider!Fail
  <2>f. ~Raider!Fail
    BY <1>t DEF Raider!Fail, Raider!Guard
  <2>1. CASE Raider!Look
    BY <2>1, <1>t DEF Raider!Look, Raider!Follow, Raider!Forget, Raider!Guard
  <2>2. CASE Raider!Topology
    BY <2>2, <2>f, <1>t DEF Raider!Topology, Raider!Forget, Raider!Guard
  <2>3. CASE Raider!Converge
    BY <2>3, <1>t DEF Raider!Converge, Raider!Forget, Raider!Guard
  <2>4. CASE Raider!Verify
    BY <2>4, <1>t DEF Raider!Verify, Raider!Forget, Raider!Guard
  <2>5. CASE Raider!Align
    BY <2>5, <1>t DEF Raider!Align, Raider!Guard
  <2>6. CASE Raider!Settle
    BY <2>6, <1>t DEF Raider!Settle, Raider!Step, Raider!Guard
  <2>7. CASE UNCHANGED guard
    BY <2>7
  <2>8. QED
    BY <2>f, <2>1, <2>2, <2>3, <2>4, <2>5, <2>6, <2>7
       DEF Raider!Next, Raider!GuardSteps, Raider!GiveUp, raiderVars, Raider!StartGame,
           Raider!Count, Raider!Connect, Raider!EndGame, Raider!ShowWindow, Raider!Change
<1>2. Raider!Watched /\ Raider!HasNet /\ Raider!InPlace(TRUE) /\ guard.pc = "final"
  BY <1>1 DEF Raider!Final
<1>3. played.polls > Stable /\ guard.topology
  BY <1>2 DEF RaiderInv, IntervalCounts, GuardWaits
<1>4. played.mask["main"] = "target" /\ played.mask["net"] = "net"
  BY <1>2, <1>t DEF Raider!HasNet, Raider!InPlace, Raider!Expected, Raider!Threads, Raider!Watched
<1>5. played.mask = [main |-> "target", net |-> "net"]
  BY <1>4, <1>t DEF Raider!Game, Raider!Threads
<1>6. QED
  BY <1>2, <1>3, <1>5

-------------------------------------------------------------------------------

(* The guard of a tree of processes *)

TreeTyped ==
    /\ tree \in [Tree!Pids -> [role : Tree!Roles \cup {"none"}, top : BOOLEAN,
                               mask : Tree!Roles \cup {"own", "none"}]]
    /\ watch \in Tree!Watch

\* What the guard has counted as an interval was one.
TreeInv == TreeTyped /\ watch.stable <= watch.whole /\ watch.idle <= watch.empty

LEMMA TreeBegins == Tree!TreeInit => TreeInv
<1> SUFFICES ASSUME Tree!TreeInit PROVE TreeInv
  OBVIOUS
<1>1. /\ StablePolls \in Nat \ {0} /\ IdlePolls \in Nat \ {0}
  BY HelpersAssumption DEF Tree!TreeGuardAssumption
<1>2. watch \in Tree!Watch
  BY <1>1 DEF Tree!TreeInit, Tree!Watch, Tree!Roles
<1>3. QED
  BY <1>1, <1>2 DEF TreeInv, TreeTyped, Tree!TreeInit, Tree!NoProcess, Tree!Roles

LEMMA TreeBounds == StablePolls \in Nat \ {0} /\ IdlePolls \in Nat \ {0}
BY HelpersAssumption DEF Tree!TreeGuardAssumption

\* What a scan that finds no second game leads to.
LEMMA ScanTells ==
    ASSUME TreeInv, Tree!Scan, ~Tree!Surrender
    PROVE  /\ watch' \in Tree!Watch
           /\ watch'.stable <= watch'.whole /\ watch'.idle <= watch'.empty
           /\ watch'.reported = watch.reported
           /\ watch.exit = "none" /\ watch'.exit = "gone" =>
                 /\ "app" \in watch.seen /\ watch.empty >= IdlePolls
                 /\ \A p \in Tree!Pids : ~Tree!There(p)
<1>n. StablePolls \in Nat \ {0} /\ IdlePolls \in Nat \ {0}
  BY TreeBounds
<1>t. /\ watch \in Tree!Watch /\ watch.stable <= watch.whole /\ watch.idle <= watch.empty
      /\ \A p \in Tree!Pids : tree[p].role \in Tree!Roles \cup {"none"}
  BY DEF TreeInv, TreeTyped
<1>w. /\ watch.idle \in 0..IdlePolls /\ watch.empty \in 0..(IdlePolls + 1)
      /\ watch.exit \in {"none", "gone", "failed"} /\ watch.seen \in SUBSET {"app", "game"}
  BY <1>t DEF Tree!Watch
<1> DEFINE nothing == \A p \in Tree!Pids : ~Tree!There(p)
           leaves == nothing /\ "app" \in watch.seen /\ watch.idle >= IdlePolls
<1> DEFINE step == IF leaves THEN "end" ELSE "place"
           exit == IF leaves THEN "gone" ELSE watch.exit
           found == [p \in Tree!Pids |-> tree[p].role]
           left == {p \in Tree!Pids : Tree!There(p)}
           fit == {found[p] : p \in Tree!Pids} \ {"none"} = Tree!Roles
           seen == IF nothing THEN watch.seen ELSE watch.seen \cup {"app"}
           idle == IF ~nothing THEN 0
                   ELSE IF "app" \in watch.seen THEN Tree!Counted(watch.idle, IdlePolls)
                   ELSE watch.idle
           empty == IF nothing THEN Tree!Counted(watch.empty, IdlePolls + 1) ELSE 0
<1>1. watch' = [watch EXCEPT !.pc = step, !.exit = exit, !.found = found, !.left = left,
                             !.ready = fit, !.seen = seen, !.idle = idle, !.empty = empty]
  BY ONLY Tree!Scan, ~Tree!Surrender DEF Tree!Scan
<1>2. fit \in BOOLEAN
  OBVIOUS
<1>3. found \in [Tree!Pids -> Tree!Roles \cup {"none"}]
  BY <1>t
<1>4. /\ step \in {"place", "end"} /\ exit \in {"none", "gone", "failed"}
      /\ left \in SUBSET Tree!Pids
      /\ seen \in SUBSET {"app", "game"}
  BY <1>w
<1>5. /\ idle \in 0..IdlePolls /\ empty \in 0..(IdlePolls + 1) /\ idle <= empty
  BY <1>w, <1>n, <1>t DEF Tree!Counted
<1>7. exit = "gone" /\ watch.exit = "none" => leaves
  OBVIOUS
<1> HIDE DEF step, exit, found, left, fit, seen, idle, empty
<1>v. watch' \in Tree!Watch
  BY <1>1, <1>2, <1>3, <1>4, <1>5, <1>t DEF Tree!Watch
<1>6. /\ watch'.stable = watch.stable /\ watch'.whole = watch.whole
      /\ watch'.idle = idle /\ watch'.empty = empty /\ watch'.reported = watch.reported
      /\ watch'.exit = exit
  BY <1>1, <1>v, <1>t DEF Tree!Watch
<1>8. leaves => watch.empty >= IdlePolls
  BY <1>w, <1>t, <1>n
<1>9. QED
  BY <1>5, <1>6, <1>7, <1>8, <1>v, <1>t

LEMMA SettlingTells ==
    ASSUME TreeInv, Tree!Settling, ~Tree!Surrender
    PROVE  /\ watch' \in Tree!Watch
           /\ watch'.stable <= watch'.whole /\ watch'.idle <= watch'.empty
           /\ watch'.exit = watch.exit
           /\ ~watch.reported /\ watch'.reported => watch.whole >= StablePolls
<1>n. StablePolls \in Nat \ {0} /\ IdlePolls \in Nat \ {0}
  BY TreeBounds
<1>t. watch \in Tree!Watch /\ watch.stable <= watch.whole /\ watch.idle <= watch.empty
  BY DEF TreeInv, TreeTyped
<1>w. /\ watch.stable \in 0..StablePolls /\ watch.whole \in 0..(StablePolls + 1)
      /\ watch.reported \in BOOLEAN
  BY <1>t DEF Tree!Watch
<1>1. CASE watch' = Tree!Unsettled
  <2>1. watch' = [watch EXCEPT !.pc = "scan", !.stable = 0, !.whole = 0]
    BY <1>1 DEF Tree!Unsettled
  <2>2. 0 \in 0..StablePolls /\ 0 \in 0..(StablePolls + 1)
    BY <1>n
  <2>3. watch' \in Tree!Watch
    BY <2>1, <2>2, <1>t DEF Tree!Watch
  <2>4. QED
    BY <2>1, <2>3, <1>n, <1>t, <1>w DEF Tree!Watch
<1>2. CASE watch' = [watch EXCEPT !.pc = "scan", !.stable = Tree!Counted(@, StablePolls),
                                  !.whole = Tree!Counted(@, StablePolls + 1)]
  <2>1. PICK stable, whole :
          /\ stable = Tree!Counted(watch.stable, StablePolls)
          /\ whole = Tree!Counted(watch.whole, StablePolls + 1)
          /\ watch' = [watch EXCEPT !.pc = "scan", !.stable = stable, !.whole = whole]
    BY <1>2
  <2>2. stable \in 0..StablePolls /\ whole \in 0..(StablePolls + 1) /\ stable <= whole
    BY <2>1, <1>n, <1>t, <1>w DEF Tree!Counted
  <2>3. QED
    BY <2>1, <2>2, <1>t, <1>w DEF Tree!Watch
<1>3. CASE /\ watch.stable >= StablePolls
           /\ watch' = [watch EXCEPT !.pc = "scan", !.reported = TRUE,
                                     !.whole = Tree!Counted(@, StablePolls + 1)]
  <2>1. PICK whole :
          /\ whole = Tree!Counted(watch.whole, StablePolls + 1)
          /\ watch' = [watch EXCEPT !.pc = "scan", !.reported = TRUE, !.whole = whole]
    BY <1>3
  <2>2. whole \in 0..(StablePolls + 1) /\ watch.stable <= whole
    BY <2>1, <1>n, <1>t, <1>w DEF Tree!Counted
  <2>3. watch' \in Tree!Watch
    BY <2>1, <2>2, <1>t DEF Tree!Watch
  <2>4. QED
    BY <2>1, <2>2, <2>3, <1>3, <1>n, <1>t, <1>w DEF Tree!Watch
<1>4. QED
  <2>1. watch.stable < StablePolls \/ watch.stable >= StablePolls
    BY <1>w, <1>n
  <2>2. QED
    BY <1>1, <1>2, <1>3, <2>1 DEF Tree!Settling

\* The step of a process or of the window leaves the guard alone; the others are the guard's.
LEMMA TreeKinds ==
    ASSUME [Tree!TreeNext]_treeVars
    PROVE  \/ Tree!Surrender /\ (Tree!Place \/ UNCHANGED tree)
           \/ (Tree!Scan \/ Tree!Settling) /\ ~Tree!Surrender /\ UNCHANGED tree
           \/ (Tree!Place /\ ~Tree!Surrender) \/ Tree!Again \/ Tree!Sighted
           \/ (Tree!Begin \/ Tree!End \/ Tree!Upset) /\ UNCHANGED watch
           \/ UNCHANGED <<tree, watch>>
<1>1. CASE Tree!TreeNext
  BY <1>1 DEF Tree!TreeNext, Tree!WatchSteps, Tree!Exceed, Tree!Begin, Tree!End, Tree!Show,
              Tree!Upset, Tree!Scan, Tree!Settling, Tree!Place
<1>2. CASE UNCHANGED treeVars
  BY <1>2 DEF treeVars
<1>3. QED
  BY <1>1, <1>2

\* The guard's count of an interval is never longer than the interval was.
LEMMA TreeGuardSteps ==
    ASSUME TreeInv, [Tree!TreeNext]_treeVars
    PROVE  /\ watch' \in Tree!Watch
           /\ watch'.stable <= watch'.whole /\ watch'.idle <= watch'.empty
           /\ Tree!TellsRight
<1>t. watch \in Tree!Watch /\ watch.stable <= watch.whole /\ watch.idle <= watch.empty
  BY DEF TreeInv, TreeTyped
<1>1. CASE Tree!Surrender
  BY <1>1, <1>t DEF Tree!Surrender, Tree!Watch, Tree!TellsRight
<1>2. CASE Tree!Scan /\ ~Tree!Surrender
  BY <1>2, ScanTells DEF Tree!TellsRight
<1>3. CASE Tree!Settling /\ ~Tree!Surrender
  BY <1>3, SettlingTells, <1>t DEF Tree!TellsRight, Tree!Watch
<1>4. CASE (Tree!Place /\ ~Tree!Surrender) \/ Tree!Again
  <2>1. PICK fit : \/ fit \in BOOLEAN /\ watch' = Tree!Placed(fit)
                   \/ watch' = [watch EXCEPT !.pc = "again"]
    BY <1>4 DEF Tree!Place, Tree!Again, Tree!There
  <2>2. CASE fit \in BOOLEAN /\ watch' = Tree!Placed(fit)
    BY <2>2, <1>t DEF Tree!Placed, Tree!Watch, Tree!TellsRight
  <2>3. CASE watch' = [watch EXCEPT !.pc = "again"]
    BY <2>3, <1>t DEF Tree!Watch, Tree!TellsRight
  <2>4. QED
    BY <2>1, <2>2, <2>3
<1>5. CASE Tree!Sighted
  BY <1>5, <1>t DEF Tree!Sighted, Tree!Watch, Tree!TellsRight
<1>6. CASE UNCHANGED watch
  BY <1>6, <1>t DEF Tree!TellsRight, Tree!Watch
<1>7. QED
  BY <1>1, <1>2, <1>3, <1>4, <1>5, <1>6, TreeKinds

\* A process keeps its type.
LEMMA TreeProcesses == TreeInv /\ [Tree!TreeNext]_treeVars => TreeTyped'
<1> SUFFICES ASSUME TreeInv, [Tree!TreeNext]_treeVars PROVE TreeTyped'
  OBVIOUS
<1> DEFINE P == [role : Tree!Roles \cup {"none"}, top : BOOLEAN,
                 mask : Tree!Roles \cup {"own", "none"}]
<1>t. tree \in [Tree!Pids -> P] /\ watch.found \in [Tree!Pids -> Tree!Roles \cup {"none"}]
  BY DEF TreeInv, TreeTyped, Tree!Watch
<1>6. tree' \in [Tree!Pids -> P]
  <2>1. CASE Tree!Place
    <3>1. Tree!Turn \in Tree!Pids => watch.found[Tree!Turn] \in Tree!Roles \cup {"own", "none"}
      BY <1>t
    <3>2. tree' = tree \/ tree' = [tree EXCEPT ![Tree!Turn].mask = watch.found[Tree!Turn]]
      BY <2>1 DEF Tree!Place
    <3>3. QED
      BY <3>1, <3>2, <1>t
  <2>2. CASE Tree!Begin
    <3>1. PICK p \in Tree!Pids, role \in Tree!Roles,
               mask \in {"own"} \cup {tree[q].mask : q \in Tree!Pids} :
             tree' = [tree EXCEPT ![p] = [role |-> role, mask |-> mask, top |-> TRUE]]
      BY <2>2 DEF Tree!Begin
    <3>2. mask \in Tree!Roles \cup {"own", "none"}
      BY <1>t
    <3>3. QED
      BY <3>1, <3>2, <1>t
  <2>3. CASE Tree!End
    BY <2>3, <1>t DEF Tree!End, Tree!NoProcess
  <2>4. CASE Tree!Upset
    <3>1. \/ UNCHANGED tree
          \/ \E p \in Tree!Pids : tree' = [tree EXCEPT ![p].mask = "own"]
          \/ \E p \in Tree!Pids : tree' = [tree EXCEPT ![p].top = FALSE]
      BY <2>4 DEF Tree!Upset
    <3>2. ASSUME NEW p \in Tree!Pids, tree' = [tree EXCEPT ![p].mask = "own"]
          PROVE  tree' \in [Tree!Pids -> P]
      <4>1. [tree[p] EXCEPT !.mask = "own"] \in P
        BY <1>t
      <4>2. QED
        BY <4>1, <3>2, <1>t
    <3>3. ASSUME NEW p \in Tree!Pids, tree' = [tree EXCEPT ![p].top = FALSE]
          PROVE  tree' \in [Tree!Pids -> P]
      <4>1. FALSE \in BOOLEAN
        OBVIOUS
      <4>2. [tree[p] EXCEPT !.top = FALSE] \in P
        BY <4>1, <1>t
      <4>3. QED
        BY <4>2, <3>3, <1>t
    <3>4. QED
      BY <3>1, <3>2, <3>3, <1>t
  <2>5. CASE UNCHANGED tree
    BY <2>5, <1>t
  <2>6. QED
    BY <2>1, <2>2, <2>3, <2>4, <2>5, TreeKinds DEF Tree!Again, Tree!Sighted
<1>7. QED
  BY <1>6, TreeGuardSteps DEF TreeTyped

LEMMA TreeSteps == TreeInv /\ [Tree!TreeNext]_treeVars => TreeInv'
BY TreeGuardSteps, TreeProcesses DEF TreeInv

-------------------------------------------------------------------------------

(* The tools that look at a game once *)

ToolTyped ==
    /\ threads \in [Mask!Tids -> Mask!Thread] /\ tool \in Mask!Tool /\ turns \in Nat
    /\ \A t \in Mask!Tids : threads[t].net => threads[t].mask # "absent"
    /\ tool.pc # "end" => tool.exit = "none"

Misplaced == {t \in Mask!Lives : threads[t].mask # Mask!Wanted(t)}

\* While a tool reads the masks of a game whose threads leave them alone, one that is out of
\* place was read, or is still to be read, or there is none.
ReadingTells ==
    tool.pc = "read" /\ tool.quiet =>
       tool.wrong \/ tool.left \cap Misplaced # {} \/ Misplaced = {}

\* The network threads that were read are there.
NetsAreThere == tool.quiet => \A t \in tool.nets : threads[t].net

ToolInv == ToolTyped /\ ReadingTells /\ NetsAreThere /\ Mask!ToolTells

\* The least of the numbers that a tool goes through is one of them.
LEMMA LeastIsOne ==
    ASSUME NEW S, S \subseteq Nat, S # {}
    PROVE  Mask!Min(S) \in S
<1>1. PICK x \in S : \A y \in S : ~(<<y, x>> \in OpToRel(<, Nat))
  BY NatLessThanWellFounded, WFMin
<1>2. \A y \in S : x <= y
  <2> SUFFICES ASSUME NEW y \in S PROVE x <= y
    OBVIOUS
  <2>1. ~(y < x)
    BY <1>1 DEF OpToRel
  <2>2. QED
    BY <2>1
<1>3. QED
  BY <1>1, <1>2 DEF Mask!Min

LEMMA ToolBegins == Mask!ToolInit => ToolInv
<1> SUFFICES ASSUME Mask!ToolInit PROVE ToolInv
  OBVIOUS
<1>1. PICK alive \in SUBSET Mask!Tids, net \in Mask!Tids,
           mask \in [Mask!Tids -> {"own", "target", "net"}] :
        threads = [t \in Mask!Tids |-> IF t \in alive THEN [mask |-> mask[t], net |-> t = net]
                                       ELSE Mask!Absent]
  BY DEF Mask!ToolInit
<1>2. /\ threads \in [Mask!Tids -> Mask!Thread]
      /\ \A t \in Mask!Tids : threads[t].net => threads[t].mask # "absent"
  BY <1>1 DEF Mask!Thread, Mask!Absent
<1>3. tool \in Mask!Tool /\ tool.pc = "find" /\ tool.nets = {} /\ tool.exit = "none"
  BY DEF Mask!ToolInit, Mask!Tool
<1>4. QED
  BY <1>2, <1>3
     DEF Mask!ToolInit, ToolInv, ToolTyped, ReadingTells, NetsAreThere, Mask!ToolTells

\* What the tool itself does to the game and to its own variables.
LEMMA ToolTypedStep == ToolInv /\ [Mask!ToolNext]_toolVars => ToolTyped'
<1> SUFFICES ASSUME ToolInv, [Mask!ToolNext]_toolVars PROVE ToolTyped'
  OBVIOUS
<1>t. /\ threads \in [Mask!Tids -> Mask!Thread] /\ tool \in Mask!Tool /\ turns \in Nat
      /\ \A t \in Mask!Tids : threads[t].net => threads[t].mask # "absent"
  BY DEF ToolInv, ToolTyped
<1>e. tool.pc # "end" => tool.exit = "none"
  BY DEF ToolInv, ToolTyped
<1>l. Mask!Lives \in SUBSET Mask!Tids
  BY DEF Mask!Lives
<1>s. tool.left # {} => Mask!Min(tool.left) \in tool.left /\ Mask!Min(tool.left) \in Mask!Tids
  BY <1>t, LeastIsOne, HelpersAssumption DEF Mask!Tool, Mask!Tids, Mask!MaskToolAssumption
<1>1. tool' \in Mask!Tool
  <2>1. CASE Mask!Find
    BY <2>1, <1>t, <1>l DEF Mask!Find, Mask!Quit, Mask!Tool
  <2>2. CASE Mask!Taskset
    BY <2>2, <1>t DEF Mask!Taskset, Mask!Quit, Mask!Tool
  <2>3. CASE Mask!AllSet
    BY <2>3, <1>t DEF Mask!AllSet, Mask!Tool
  <2>4. CASE Mask!SetNet
    BY <2>4, <1>t DEF Mask!SetNet, Mask!Quit, Mask!Tool
  <2>5. CASE Mask!List
    BY <2>5, <1>t, <1>l DEF Mask!List, Mask!Quit, Mask!Tool
  <2>6. CASE Mask!Read
    <3>1. PICK left, wrong, nets :
            /\ left = tool.left \ {Mask!Min(tool.left)}
            /\ wrong = (tool.wrong \/ Mask!ReadMask(Mask!Min(tool.left)))
            /\ nets \in {tool.nets, tool.nets \cup {Mask!Min(tool.left)}}
            /\ tool' = [tool EXCEPT !.left = left, !.wrong = wrong, !.nets = nets]
      BY <2>6 DEF Mask!Read
    <3>2. left \in SUBSET Mask!Tids /\ wrong \in BOOLEAN /\ nets \in SUBSET Mask!Tids
      BY <3>1, <1>t, <1>s, <2>6 DEF Mask!Tool, Mask!Read
    <3>3. QED
      BY <3>1, <3>2, <1>t DEF Mask!Tool
  <2>7. CASE Mask!Tell
    BY <2>7, <1>t DEF Mask!Tell, Mask!Quit, Mask!Tool
  <2>8. CASE Mask!OwnMask \/ Mask!EndThread
    BY <2>8, <1>t DEF Mask!OwnMask, Mask!EndThread, Mask!Tool
  <2>9. CASE UNCHANGED tool
    BY <2>9, <1>t
  <2>10. QED
    BY <2>1, <2>2, <2>3, <2>4, <2>5, <2>6, <2>7, <2>8, <2>9
       DEF Mask!ToolNext, Mask!Spawn, toolVars
<1>2. /\ threads' \in [Mask!Tids -> Mask!Thread]
      /\ \A t \in Mask!Tids : threads'[t].net => threads'[t].mask # "absent"
  <2>1. CASE Mask!Taskset
    BY <2>1, <1>t, <1>s DEF Mask!Taskset, Mask!Thread
  <2>2. CASE Mask!SetNet
    BY <2>2, <1>t DEF Mask!SetNet, Mask!Thread
  <2>3. CASE Mask!Spawn
    BY <2>3, <1>t DEF Mask!Spawn, Mask!Thread, Mask!Lives
  <2>4. CASE Mask!OwnMask
    BY <2>4, <1>t DEF Mask!OwnMask, Mask!Thread, Mask!Lives
  <2>5. CASE Mask!EndThread
    BY <2>5, <1>t DEF Mask!EndThread, Mask!Thread, Mask!Absent, Mask!Lives
  <2>6. CASE UNCHANGED threads
    BY <2>6, <1>t
  <2>7. QED
    BY <2>1, <2>2, <2>3, <2>4, <2>5, <2>6
       DEF Mask!ToolNext, Mask!Find, Mask!AllSet, Mask!List, Mask!Read, Mask!Tell, toolVars
<1>3. turns' \in Nat
  BY <1>t DEF Mask!ToolNext, Mask!Find, Mask!Taskset, Mask!AllSet, Mask!SetNet, Mask!List,
              Mask!Read, Mask!Tell, Mask!Spawn, Mask!OwnMask, Mask!EndThread, toolVars
<1>4. tool'.pc # "end" => tool'.exit = "none"
  BY <1>t, <1>e
     DEF Mask!ToolNext, Mask!Find, Mask!Taskset, Mask!AllSet, Mask!SetNet, Mask!List, Mask!Read,
         Mask!Tell, Mask!Spawn, Mask!OwnMask, Mask!EndThread, Mask!Quit, Mask!Tool, toolVars
<1>5. QED
  BY <1>1, <1>2, <1>3, <1>4 DEF ToolTyped

\* A thread that is started is out of place only if another one is.
LEMMA SpawnInherits ==
    ASSUME ToolInv, Mask!Spawn
    PROVE  /\ tool' = tool
           /\ Misplaced \subseteq Misplaced'
           /\ Misplaced = {} => Misplaced' = {}
           /\ \A t \in Mask!Tids : threads[t].net => threads'[t].net
<1>t. /\ threads \in [Mask!Tids -> Mask!Thread]
      /\ \A t \in Mask!Tids : threads[t].net => threads[t].mask # "absent"
  BY DEF ToolInv, ToolTyped
<1>1. PICK parent \in Mask!Lives, t \in Mask!Tids \ Mask!Lives :
        /\ ~threads[parent].net
        /\ threads' = [threads EXCEPT ![t] = [mask |-> threads[parent].mask, net |-> FALSE]]
  BY DEF Mask!Spawn
<1>2. /\ \A u \in Mask!Tids \ {t} : threads'[u] = threads[u]
      /\ threads'[t] = [mask |-> threads[parent].mask, net |-> FALSE]
      /\ tool' = tool /\ t \in Mask!Tids /\ threads[t].mask = "absent"
  BY <1>1, <1>t DEF Mask!Spawn, Mask!Lives
<1>3. Misplaced \subseteq Misplaced'
  BY <1>2 DEF Misplaced, Mask!Lives, Mask!Wanted
<1>4. Misplaced = {} => Misplaced' = {}
  BY <1>1, <1>2 DEF Misplaced, Mask!Lives, Mask!Wanted
<1>5. QED
  BY <1>2, <1>3, <1>4, <1>t

\* A tool that tells that all is in place has read every thread that could be out of place.
LEMMA ToolSteps == ToolInv /\ [Mask!ToolNext]_toolVars => ToolInv'
<1> SUFFICES ASSUME ToolInv, [Mask!ToolNext]_toolVars PROVE ToolInv'
  OBVIOUS
<1>t. /\ threads \in [Mask!Tids -> Mask!Thread] /\ tool \in Mask!Tool
      /\ ReadingTells /\ NetsAreThere /\ Mask!ToolTells
  BY DEF ToolInv, ToolTyped
<1>q. ToolTyped'
  BY ToolTypedStep
<1>m. Mask!ToolTells <=> (tool.exit = "ok" /\ tool.quiet =>
        /\ Misplaced = {}
        /\ tool.name \in Mask!Isolating => \E t \in Mask!Lives : threads[t].net)
  BY DEF Mask!ToolTells, Misplaced
<1>s. tool.left # {} => Mask!Min(tool.left) \in tool.left /\ Mask!Min(tool.left) \in Mask!Tids
  BY <1>t, LeastIsOne, HelpersAssumption DEF Mask!Tool, Mask!Tids, Mask!MaskToolAssumption
<1>e. tool.pc # "end" => tool.exit = "none"
  BY DEF ToolInv, ToolTyped
<1>b. /\ tool.quiet \in BOOLEAN /\ tool.wrong \in BOOLEAN /\ tool.nets \in SUBSET Mask!Tids
      /\ tool.left \in SUBSET Mask!Tids
  BY <1>t DEF Mask!Tool
<1>n. ReadingTells' /\ NetsAreThere' /\ Mask!ToolTells'
  <2>1. CASE \/ Mask!Find \/ Mask!Taskset \/ Mask!AllSet \/ Mask!SetNet
    <3>1. /\ tool'.quiet = tool.quiet /\ tool'.nets = tool.nets
          /\ tool'.exit \in {"none", "failed"} /\ tool'.pc # "read"
      BY <2>1, <1>t, <1>e DEF Mask!Find, Mask!Taskset, Mask!AllSet, Mask!SetNet, Mask!Quit,
                                     Mask!Tool
    <3>2. \A t \in Mask!Tids : threads'[t].net = threads[t].net
      BY <2>1, <1>t DEF Mask!Find, Mask!Taskset, Mask!AllSet, Mask!SetNet, Mask!Thread
    <3>3. QED
      BY <3>1, <3>2, <1>t, <1>b DEF ReadingTells, NetsAreThere, Mask!ToolTells
  <2>2. CASE Mask!List
    <3>1. /\ tool'.quiet = tool.quiet /\ tool'.nets = tool.nets /\ threads' = threads
          /\ tool'.exit \in {"none", "failed"} /\ tool'.wrong = tool.wrong /\ tool'.name = tool.name
          /\ tool'.pc = "read" => tool'.left = Mask!Lives
      BY <2>2, <1>t, <1>e DEF Mask!List, Mask!Quit, Mask!Tool
    <3>2. Misplaced' = Misplaced /\ Misplaced \subseteq Mask!Lives
      BY <3>1 DEF Misplaced, Mask!Lives, Mask!Wanted
    <3>3. QED
      BY <3>1, <3>2, <1>t DEF ReadingTells, NetsAreThere, Mask!ToolTells
  <2>3. CASE Mask!Read
    <3> DEFINE t == Mask!Min(tool.left)
    <3>1. /\ tool.pc = "read" /\ tool'.pc = "read" /\ tool'.left = tool.left \ {t}
          /\ tool'.wrong = (tool.wrong \/ Mask!ReadMask(t))
          /\ tool'.nets = (IF threads[t].net THEN tool.nets \cup {t} ELSE tool.nets)
          /\ tool'.quiet = tool.quiet /\ tool'.exit = tool.exit /\ tool'.name = tool.name
          /\ threads' = threads
      BY <2>3, <1>t DEF Mask!Read, Mask!Tool
    <3>2. Misplaced' = Misplaced
      BY <3>1 DEF Misplaced, Mask!Lives, Mask!Wanted
    <3>3. t \in Misplaced => Mask!ReadMask(t)
      BY DEF Misplaced, Mask!ReadMask
    <3> HIDE DEF t
    <3>4. ReadingTells'
      BY <3>1, <3>2, <3>3, <1>t, <1>b DEF ReadingTells
    <3>5. NetsAreThere'
      BY <3>1, <1>t DEF NetsAreThere
    <3>6. Mask!ToolTells'
      BY <3>1, <1>e DEF Mask!ToolTells
    <3>7. QED
      BY <3>4, <3>5, <3>6
  <2>4. CASE Mask!Tell
    <3>1. /\ tool.pc = "read" /\ tool.left = {} /\ tool'.pc = "end" /\ threads' = threads
          /\ tool'.quiet = tool.quiet /\ tool'.nets = tool.nets /\ tool'.name = tool.name
          /\ tool'.exit = "ok" => ~tool.wrong
          /\ tool'.exit = "ok" =>
                tool.name \notin Mask!Isolating \/ Mask!Cardinality(tool.nets) = 1
      BY <2>4, <1>t DEF Mask!Tell, Mask!Quit, Mask!Tool
    <3>2. Mask!Cardinality({}) = 0
      BY FS_EmptySet DEF Mask!Cardinality
    <3>3. tool.quiet => \A t \in tool.nets : t \in Mask!Lives /\ threads[t].net
      BY <1>t, <1>b DEF NetsAreThere, Mask!Lives, ToolInv, ToolTyped
    <3>4. tool'.exit = "ok" /\ tool'.quiet => Misplaced = {}
      <4>1. tool.quiet => tool.wrong \/ tool.left \cap Misplaced # {} \/ Misplaced = {}
        BY <3>1, <1>t DEF ReadingTells
      <4>2. tool.left \cap Misplaced = {}
        BY <3>1
      <4>3. tool'.exit = "ok" => ~tool.wrong
        BY <3>1
      <4>4. QED
        BY <4>1, <4>2, <4>3, <3>1
    <3>5. Misplaced' = Misplaced /\ Mask!Lives' = Mask!Lives
      BY <3>1 DEF Misplaced, Mask!Lives, Mask!Wanted
    <3>6. tool'.exit = "ok" /\ tool'.quiet /\ tool'.name \in Mask!Isolating
            => \E t \in Mask!Lives : threads[t].net
      <4>1. tool'.exit = "ok" /\ tool.name \in Mask!Isolating => Mask!Cardinality(tool.nets) = 1
        BY <3>1
      <4>2. Mask!Cardinality(tool.nets) = 1 => tool.nets # {}
        BY <3>2
      <4>3. QED
        BY <4>1, <4>2, <3>1, <3>3
    <3>7. Mask!ToolTells'
      BY <3>1, <3>4, <3>5, <3>6 DEF Mask!ToolTells, Misplaced
    <3>8. QED
      BY <3>1, <3>7, <1>t DEF ReadingTells, NetsAreThere
  <2>5. CASE Mask!Spawn
    <3>1. /\ tool' = tool /\ Misplaced \subseteq Misplaced' /\ (Misplaced = {} => Misplaced' = {})
          /\ \A t \in Mask!Tids : threads[t].net => threads'[t].net
      BY <2>5, SpawnInherits
    <3>2. ReadingTells'
      BY <3>1, <1>t DEF ReadingTells
    <3>3. NetsAreThere'
      BY <3>1, <1>t, <1>b DEF NetsAreThere
    <3>4. (\E t \in Mask!Lives : threads[t].net) => \E t \in Mask!Lives' : threads'[t].net
      BY <3>1, <1>q DEF Mask!Lives, ToolTyped
    <3>5. Mask!ToolTells'
      BY <3>1, <3>4, <1>t, <1>m DEF Mask!ToolTells, Misplaced
    <3>6. QED
      BY <3>2, <3>3, <3>5
  <2>6. CASE Mask!OwnMask \/ Mask!EndThread
    <3>1. tool'.quiet = FALSE
      BY <2>6, <1>t DEF Mask!OwnMask, Mask!EndThread, Mask!Tool
    <3>2. QED
      BY <3>1 DEF ReadingTells, NetsAreThere, Mask!ToolTells
  <2>7. CASE UNCHANGED toolVars
    BY <2>7, <1>t
       DEF toolVars, ReadingTells, NetsAreThere, Mask!ToolTells, Misplaced, Mask!Lives, Mask!Wanted
  <2>8. QED
    BY <2>1, <2>2, <2>3, <2>4, <2>5, <2>6, <2>7 DEF Mask!ToolNext
<1>z. QED
  BY <1>q, <1>n DEF ToolInv

-------------------------------------------------------------------------------

(* The timer of a launch *)

\* The lines of a log are numbers that do not fall.
Climbs(lines) ==
    /\ lines \in Seq(Nat)
    /\ \A i \in 1..Len(lines) : lines[i] > 0
    /\ \A i, j \in 1..Len(lines) : i <= j => lines[i] <= lines[j]

TimerTyped == console \in Seq(Nat) /\ target \in BOOLEAN /\ timer \in Time!Timer

\* The session is that of a line that was read.
SessionRead ==
    /\ timer.read <= Len(compat)
    /\ timer.pc = "compat" => timer.read <= timer.end - timer.torn /\ timer.end <= Len(compat)
    /\ timer.session = 0 \/ \E k \in 1..timer.read : timer.session = compat[k]

\* The attempts that were made: all superseded, by sessions that follow each other.
AttemptsMade(made) ==
    /\ \A i \in 1..Len(made) : \A stage \in Time!Stages : made[i].events[stage] \in {0, i}
    /\ \A i \in 2..Len(made) : made[i - 1].session < made[i].session
    /\ \A i \in 1..(Len(made) - 1) : made[i].status = "superseded"

\* ... and the one that goes on.
AttemptGoesOn ==
    timer.pc # "end" =>
        /\ timer.status = "timeout" /\ timer.streak = timer.since
        /\ \A stage \in Time!Stages : timer.events[stage] \in {0, Len(timer.attempts) + 1}
        /\ \A i \in 1..Len(timer.attempts) :
              timer.attempts[i].status = "superseded" /\ timer.attempts[i].session < timer.session

TimerInv ==
    /\ TimerTyped /\ Climbs(compat) /\ SessionRead /\ AttemptsMade(timer.attempts) /\ AttemptGoesOn
    /\ timer.status = "complete" => timer.streak > StablePolls

LEMMA TimerBegins == Time!TimerInit => TimerInv
<1> SUFFICES ASSUME Time!TimerInit PROVE TimerInv
  OBVIOUS
<1>0. StablePolls \in Nat \ {0}
  BY HelpersAssumption DEF Time!LaunchTimerAssumption
<1>1. /\ compat = <<>> /\ console = <<>> /\ target \in BOOLEAN
      /\ timer = [pc |-> "open", read |-> 0, end |-> 0, torn |-> 0, heard |-> 0, session |-> 0,
                  launch |-> 0, events |-> Time!NoEvents, attempts |-> <<>>, sampled |-> FALSE,
                  since |-> 0, status |-> "timeout", streak |-> 0]
  BY DEF Time!TimerInit
<1>2. /\ Time!NoEvents \in [Time!Stages -> Nat] /\ <<>> \in Seq(Time!Attempt) /\ <<>> \in Seq(Nat)
      /\ \A stage \in Time!Stages : Time!NoEvents[stage] = 0
  BY DEF Time!NoEvents
<1>3. /\ timer.pc = "open" /\ timer.read = 0 /\ timer.session = 0 /\ timer.attempts = <<>>
      /\ timer.events = Time!NoEvents /\ timer.since = 0 /\ timer.streak = 0
      /\ timer.status = "timeout"
  BY <1>1
<1>4. timer \in Time!Timer
  <2>1. FALSE \in BOOLEAN /\ 0 \in 0..StablePolls
    BY <1>0
  <2>2. QED
    BY <1>1, <1>2, <2>1 DEF Time!Timer
<1>5. TimerTyped
  BY <1>1, <1>2, <1>4 DEF TimerTyped
<1>6. Climbs(compat) /\ SessionRead
  BY <1>1, <1>2, <1>3 DEF Climbs, SessionRead
<1>7. AttemptsMade(timer.attempts) /\ AttemptGoesOn
  BY <1>2, <1>3 DEF AttemptsMade, AttemptGoesOn
<1>8. QED
  BY <1>3, <1>5, <1>6, <1>7 DEF TimerInv

\* What there is before a step.
LEMMA TimerFields ==
    ASSUME TimerInv
    PROVE  /\ StablePolls \in Nat \ {0} /\ timer \in Time!Timer
           /\ timer.read \in Nat /\ timer.end \in Nat /\ timer.torn \in {0, 1}
           /\ timer.session \in Nat /\ timer.launch \in Nat /\ timer.since \in 0..StablePolls
           /\ timer.streak \in Nat /\ timer.attempts \in Seq(Time!Attempt)
           /\ Len(timer.attempts) \in Nat /\ Len(compat) \in Nat
           /\ timer.events \in [Time!Stages -> Nat]
           /\ \A i \in 1..Len(timer.attempts) : timer.attempts[i].session \in Nat
<1>1. StablePolls \in Nat \ {0}
  BY HelpersAssumption DEF Time!LaunchTimerAssumption
<1>2. timer \in Time!Timer /\ compat \in Seq(Nat)
  BY DEF TimerInv, TimerTyped, Climbs
<1>3. /\ timer.read \in Nat /\ timer.end \in Nat /\ timer.torn \in {0, 1}
      /\ timer.session \in Nat /\ timer.launch \in Nat /\ timer.since \in 0..StablePolls
      /\ timer.streak \in Nat /\ timer.attempts \in Seq(Time!Attempt)
      /\ timer.events \in [Time!Stages -> Nat]
  BY <1>2 DEF Time!Timer
<1>4. \A i \in 1..Len(timer.attempts) : timer.attempts[i] \in Time!Attempt
  BY <1>3
<1>5. \A i \in 1..Len(timer.attempts) : timer.attempts[i].session \in Nat
  BY <1>4 DEF Time!Attempt
<1>6. Len(timer.attempts) \in Nat /\ Len(compat) \in Nat
  BY <1>2, <1>3
<1>7. QED
  BY <1>1, <1>2, <1>3, <1>5, <1>6

\* A step of a poll that neither closes the attempt nor learns of a session.
LEMMA PollGoesOn ==
    ASSUME TimerInv, timer.pc # "end", timer' \in Time!Timer, UNCHANGED <<compat, console>>,
           target' \in BOOLEAN, timer'.pc # "end", timer'.streak = timer'.since,
           timer'.attempts = timer.attempts, timer'.session = timer.session,
           timer'.status = timer.status, timer'.read \in timer.read..Len(compat),
           timer'.pc = "compat" =>
              timer'.read <= timer'.end - timer'.torn /\ timer'.end <= Len(compat),
           \A stage \in Time!Stages : timer'.events[stage] \in {0, Len(timer.attempts) + 1}
    PROVE  TimerInv'
<1>1. TimerTyped' /\ Climbs(compat)'
  BY DEF TimerInv, TimerTyped
<1>2. SessionRead'
  <2>1. timer.read \in Nat /\ Len(compat) \in Nat
    BY TimerFields
  <2>2. 1..timer.read \subseteq 1..timer'.read /\ timer'.read <= Len(compat)
    BY <2>1
  <2>3. QED
    BY <2>2 DEF TimerInv, SessionRead
<1>3. AttemptsMade(timer.attempts)'
  BY DEF TimerInv
<1>4. AttemptGoesOn' /\ timer'.status = "timeout"
  BY DEF TimerInv, AttemptGoesOn
<1>5. QED
  BY <1>1, <1>2, <1>3, <1>4 DEF TimerInv

\* The attempt that is closed follows those before it.
LEMMA AttemptCloses ==
    ASSUME TimerInv, timer.pc # "end", NEW outcome \in {"superseded", "complete", "timeout"}
    PROVE  \A made, n :
               made = Time!Recorded(outcome) /\ n = Len(timer.attempts)
               => /\ made \in Seq(Time!Attempt) /\ Len(made) = n + 1 /\ AttemptsMade(made)
                  /\ \A i \in 1..n : made[i] = timer.attempts[i]
                  /\ made[n + 1].status = outcome /\ made[n + 1].session = timer.session
<1> SUFFICES ASSUME NEW made, NEW n, made = Time!Recorded(outcome), n = Len(timer.attempts)
             PROVE  /\ made \in Seq(Time!Attempt) /\ Len(made) = n + 1 /\ AttemptsMade(made)
                    /\ \A i \in 1..n : made[i] = timer.attempts[i]
                    /\ made[n + 1].status = outcome /\ made[n + 1].session = timer.session
  OBVIOUS
<1>1. PICK new1 : new1 = [status |-> outcome, session |-> timer.session,
                          launch |-> timer.launch, events |-> timer.events]
  OBVIOUS
<1>2. made = Append(timer.attempts, new1) /\ n = Len(timer.attempts)
  BY <1>1 DEF Time!Recorded
<1>3. new1 \in Time!Attempt
  BY <1>1, TimerFields DEF Time!Attempt
<1>4. /\ made \in Seq(Time!Attempt) /\ Len(made) = n + 1 /\ made[n + 1] = new1 /\ n \in Nat
      /\ \A i \in 1..n : made[i] = timer.attempts[i]
  BY <1>2, <1>3, TimerFields, AppendProperties
<1>5. AttemptsMade(made)
  <2>1. /\ AttemptsMade(timer.attempts)
        /\ \A stage \in Time!Stages : timer.events[stage] \in {0, n + 1}
        /\ \A i \in 1..n : /\ timer.attempts[i].status = "superseded"
                           /\ timer.attempts[i].session < timer.session
    BY <1>2 DEF TimerInv, AttemptGoesOn
  <2>2. ASSUME NEW i \in 1..Len(made), NEW stage \in Time!Stages
        PROVE  made[i].events[stage] \in {0, i}
    <3>1. CASE i \in 1..n
      BY <3>1, <2>1, <1>2, <1>4 DEF AttemptsMade
    <3>2. CASE i = n + 1
      BY <3>2, <2>1, <1>1, <1>4
    <3>3. QED
      BY <3>1, <3>2, <1>4
  <2>3. ASSUME NEW i \in 2..Len(made) PROVE made[i - 1].session < made[i].session
    <3>1. CASE i \in 2..n
      <4>1. /\ i \in 1..n /\ i - 1 \in 1..n
            /\ timer.attempts[i - 1].session < timer.attempts[i].session
        BY <3>1, <2>1, <1>2, <1>4 DEF AttemptsMade
      <4>2. QED
        BY <4>1, <1>4
    <3>2. CASE i = n + 1
      <4>1. i - 1 = n /\ n \in 1..n
        BY <3>2, <1>4
      <4>2. QED
        BY <4>1, <3>2, <2>1, <1>1, <1>4
    <3>3. QED
      BY <3>1, <3>2, <1>4
  <2>4. \A i \in 1..(Len(made) - 1) : made[i].status = "superseded"
    BY <2>1, <1>4
  <2>5. QED
    BY <2>2, <2>3, <2>4 DEF AttemptsMade
<1>6. QED
  BY <1>1, <1>4, <1>5

LEMMA CompatOpens == TimerInv /\ Time!OpenCompat => TimerInv'
<1> SUFFICES ASSUME TimerInv, Time!OpenCompat PROVE TimerInv'
  OBVIOUS
<1>1. PICK torn \in {0, 1} :
         /\ torn <= Len(compat) - timer.read
         /\ timer' = [timer EXCEPT !.pc = "compat", !.end = Len(compat), !.torn = torn]
  BY DEF Time!OpenCompat
<1>2. timer.pc = "open" /\ UNCHANGED <<compat, console, target>>
  BY DEF Time!OpenCompat, Time!game
<1>3. PICK end \in Nat : end = Len(compat)
  BY TimerFields
<1>4. timer' = [timer EXCEPT !.pc = "compat", !.end = end, !.torn = torn]
  BY <1>1, <1>3
<1>5. timer' \in Time!Timer
  BY <1>4, TimerFields DEF Time!Timer
<1>6. /\ timer'.pc = "compat" /\ timer'.end = end /\ timer'.torn = torn
      /\ timer'.read = timer.read /\ timer'.streak = timer.streak /\ timer'.since = timer.since
      /\ timer'.attempts = timer.attempts /\ timer'.session = timer.session
      /\ timer'.status = timer.status /\ timer'.events = timer.events
  BY <1>4, TimerFields DEF Time!Timer
<1>7. /\ timer.streak = timer.since /\ timer.read <= Len(compat) /\ target \in BOOLEAN
      /\ \A stage \in Time!Stages : timer.events[stage] \in {0, Len(timer.attempts) + 1}
  BY <1>2 DEF TimerInv, TimerTyped, AttemptGoesOn, SessionRead
<1>8. /\ timer'.read \in timer.read..Len(compat)
      /\ timer'.read <= timer'.end - timer'.torn /\ timer'.end <= Len(compat)
  BY <1>1, <1>3, <1>6, <1>7, TimerFields
<1>9. QED
  BY <1>2, <1>5, <1>6, <1>7, <1>8, PollGoesOn

LEMMA CompatIsRead == TimerInv /\ Time!CompatRead => TimerInv'
<1> SUFFICES ASSUME TimerInv, Time!CompatRead PROVE TimerInv'
  OBVIOUS
<1>1. /\ timer.pc = "compat" /\ timer.read = timer.end - timer.torn
      /\ timer' = [timer EXCEPT !.pc = "console", !.read = timer.end]
      /\ UNCHANGED <<compat, console, target>>
  BY DEF Time!CompatRead, Time!game
<1>2. PICK end \in Nat : end = timer.end
  BY TimerFields
<1>3. timer' = [timer EXCEPT !.pc = "console", !.read = end]
  BY <1>1, <1>2
<1>4. timer' \in Time!Timer
  BY <1>3, TimerFields DEF Time!Timer
<1>5. /\ timer'.pc = "console" /\ timer'.read = end
      /\ timer'.streak = timer.streak /\ timer'.since = timer.since
      /\ timer'.attempts = timer.attempts /\ timer'.session = timer.session
      /\ timer'.status = timer.status /\ timer'.events = timer.events
  BY <1>3, TimerFields DEF Time!Timer
<1>6. /\ timer.streak = timer.since /\ timer.end <= Len(compat) /\ target \in BOOLEAN
      /\ \A stage \in Time!Stages : timer.events[stage] \in {0, Len(timer.attempts) + 1}
  BY <1>1 DEF TimerInv, TimerTyped, AttemptGoesOn, SessionRead
<1>7. timer'.read \in timer.read..Len(compat)
  BY <1>1, <1>2, <1>5, <1>6, TimerFields
<1>8. QED
  BY <1>1, <1>4, <1>5, <1>6, <1>7, PollGoesOn

LEMMA ConsoleRead == TimerInv /\ Time!ReadConsole => TimerInv'
<1> SUFFICES ASSUME TimerInv, Time!ReadConsole PROVE TimerInv'
  OBVIOUS
<1>1. timer.pc = "console" /\ UNCHANGED <<compat, console, target>>
  BY DEF Time!ReadConsole, Time!game
<1>2. console \in Seq(Nat) /\ target \in BOOLEAN /\ timer.heard \in Nat
  BY DEF TimerInv, TimerTyped, Time!Timer
<1>3. PICK from, begun, heard, step :
         /\ from = Time!From(console, timer.heard) /\ heard = Len(console)
         /\ begun = (IF timer.launch = 0 /\ from < Len(console) THEN console[from + 1]
                      ELSE timer.launch)
         /\ step = (IF begun = 0 THEN "open" ELSE "sample")
         /\ timer' = [timer EXCEPT !.heard = heard, !.launch = begun, !.pc = step]
  BY DEF Time!ReadConsole
<1>4. heard \in Nat /\ begun \in Nat /\ step \in {"open", "sample"}
  <2>1. from \in Nat /\ heard \in Nat
    BY <1>2, <1>3 DEF Time!From
  <2>2. from < Len(console) => console[from + 1] \in Nat
    BY <2>1, <1>2
  <2>3. begun \in Nat
    BY <2>2, <1>3, TimerFields
  <2>4. QED
    BY <2>1, <2>3, <1>3
<1>5. timer' \in Time!Timer
  <2>1. timer' = [timer EXCEPT !.heard = heard, !.launch = begun, !.pc = step]
    BY <1>3
  <2>2. timer \in Time!Timer
    BY TimerFields
  <2>3. QED
    BY ONLY <2>1, <2>2, <1>4 DEF Time!Timer
<1>6. /\ timer'.pc = step /\ timer'.read = timer.read
      /\ timer'.streak = timer.streak /\ timer'.since = timer.since
      /\ timer'.attempts = timer.attempts /\ timer'.session = timer.session
      /\ timer'.status = timer.status /\ timer'.events = timer.events
  <2>1. timer' = [timer EXCEPT !.heard = heard, !.launch = begun, !.pc = step]
    BY <1>3
  <2>2. timer \in Time!Timer
    BY TimerFields
  <2>3. QED
    BY ONLY <2>1, <2>2 DEF Time!Timer
<1>7. /\ timer.streak = timer.since /\ timer.read <= Len(compat)
      /\ \A stage \in Time!Stages : timer.events[stage] \in {0, Len(timer.attempts) + 1}
  BY <1>1 DEF TimerInv, AttemptGoesOn, SessionRead
<1>8. timer'.read \in timer.read..Len(compat)
  BY <1>6, <1>7, TimerFields
<1>9. QED
  BY <1>1, <1>2, <1>4, <1>5, <1>6, <1>7, <1>8, PollGoesOn

LEMMA ProcessesSampled == TimerInv /\ Time!Sample => TimerInv'
<1> SUFFICES ASSUME TimerInv, Time!Sample PROVE TimerInv'
  OBVIOUS
<1>1. timer.pc = "sample" /\ UNCHANGED <<compat, console, target>>
  BY DEF Time!Sample
<1>2. PICK stages \in SUBSET Time!Stages :
         timer' = [timer EXCEPT !.pc = "window", !.events = Time!Seen(stages), !.sampled = target]
  BY DEF Time!Sample
<1>3. /\ timer.streak = timer.since /\ timer.read <= Len(compat) /\ target \in BOOLEAN
      /\ \A stage \in Time!Stages : timer.events[stage] \in {0, Len(timer.attempts) + 1}
  BY <1>1 DEF TimerInv, TimerTyped, AttemptGoesOn, SessionRead
<1>4. PICK events : events = Time!Seen(stages)
  OBVIOUS
<1>5. /\ events \in [Time!Stages -> Nat]
      /\ \A stage \in Time!Stages : events[stage] \in {0, Len(timer.attempts) + 1}
  BY <1>3, <1>4, TimerFields DEF Time!Seen, Time!Number
<1>6. PICK sampled \in BOOLEAN : sampled = target
  BY <1>3
<1>7. timer' = [timer EXCEPT !.pc = "window", !.events = events, !.sampled = sampled]
  BY <1>2, <1>4, <1>6
<1>8. timer' \in Time!Timer
  BY <1>5, <1>7, TimerFields DEF Time!Timer
<1>9. /\ timer'.pc = "window" /\ timer'.read = timer.read
      /\ timer'.streak = timer.streak /\ timer'.since = timer.since
      /\ timer'.attempts = timer.attempts /\ timer'.session = timer.session
      /\ timer'.status = timer.status /\ timer'.events = events
  BY <1>7, TimerFields DEF Time!Timer
<1>10. timer'.read \in timer.read..Len(compat)
  BY <1>3, <1>9, TimerFields
<1>11. QED
  BY <1>1, <1>3, <1>5, <1>8, <1>9, <1>10, PollGoesOn

\* A line of the session that goes on, or of another: then the attempt is closed.
LEMMA LineRead == TimerInv /\ Time!ReadCompat => TimerInv'
<1> SUFFICES ASSUME TimerInv, Time!ReadCompat PROVE TimerInv'
  OBVIOUS
<1>1. /\ timer.pc = "compat" /\ timer.read < timer.end - timer.torn
      /\ UNCHANGED <<compat, console, target>>
  BY DEF Time!ReadCompat, Time!game
<1>2. PICK line, n, read : line = compat[read] /\ n = Len(timer.attempts) /\ read = timer.read + 1
  OBVIOUS
<1>3. timer' = IF timer.session \notin {0, line} THEN Time!Retried(line)
               ELSE [timer EXCEPT !.session = line, !.read = read]
  BY <1>2 DEF Time!ReadCompat
<1>4. /\ timer.end <= Len(compat) /\ Climbs(compat) /\ TimerTyped
      /\ timer.session = 0 \/ \E k \in 1..timer.read : timer.session = compat[k]
      /\ timer.status = "timeout" /\ timer.streak = timer.since /\ AttemptsMade(timer.attempts)
      /\ \A stage \in Time!Stages : timer.events[stage] \in {0, n + 1}
      /\ \A i \in 1..n : /\ timer.attempts[i].status = "superseded"
                         /\ timer.attempts[i].session < timer.session
  BY <1>1, <1>2 DEF TimerInv, SessionRead, AttemptGoesOn
<1>5. read \in 1..Len(compat) /\ read \in Nat /\ n \in Nat /\ read <= timer.end - timer.torn
  BY <1>1, <1>2, <1>4, TimerFields
<1>6. line \in Nat /\ line > 0 /\ timer.session <= line
  <2>1. line \in Nat /\ line > 0
    BY <1>2, <1>4, <1>5 DEF Climbs
  <2>2. ASSUME NEW k \in 1..timer.read, timer.session = compat[k] PROVE timer.session <= line
    <3>1. k \in 1..Len(compat) /\ k <= read
      BY <1>2, <1>5, TimerFields
    <3>2. QED
      BY <3>1, <2>2, <1>2, <1>4, <1>5 DEF Climbs
  <2>3. QED
    BY <2>1, <2>2, <1>4
<1>7. SessionRead' /\ Climbs(compat)'
      <=> /\ timer'.read <= Len(compat)
          /\ timer'.pc = "compat" =>
                timer'.read <= timer'.end - timer'.torn /\ timer'.end <= Len(compat)
          /\ timer'.session = 0 \/ \E k \in 1..timer'.read : timer'.session = compat[k]
  BY <1>1, <1>4 DEF SessionRead
<1>8. CASE timer.session \in {0, line}
  <2>1. timer' = [timer EXCEPT !.session = line, !.read = read]
    BY <1>3, <1>8
  <2>2. timer' \in Time!Timer
    BY <2>1, <1>5, <1>6, TimerFields DEF Time!Timer
  <2>3. /\ timer'.pc = "compat" /\ timer'.read = read /\ timer'.session = line
        /\ timer'.end = timer.end /\ timer'.torn = timer.torn
        /\ timer'.streak = timer.streak /\ timer'.since = timer.since
        /\ timer'.attempts = timer.attempts
        /\ timer'.status = timer.status /\ timer'.events = timer.events
    BY <2>1, <1>1, TimerFields DEF Time!Timer
  <2>4. TimerTyped'
    BY <2>2, <1>1, <1>4 DEF TimerTyped
  <2>5. SessionRead' /\ Climbs(compat)'
    <3>1. read \in 1..read
      BY <1>5
    <3>2. QED
      BY <3>1, <2>3, <1>2, <1>4, <1>5, <1>7
  <2>6. \A i \in 1..n : timer.attempts[i].session < line
    <3>1. ASSUME NEW i \in 1..n PROVE timer.attempts[i].session < line
      <4>1. /\ timer.attempts[i].session < timer.session
            /\ timer.attempts[i].session \in Nat /\ timer.session \in Nat
        BY <1>2, <1>4, TimerFields
      <4>2. QED
        BY <4>1, <1>6
    <3>2. QED
      BY <3>1
  <2>7. AttemptGoesOn'
    BY <2>3, <2>6, <1>2, <1>4 DEF AttemptGoesOn
  <2>8. QED
    BY <2>3, <2>4, <2>5, <2>7, <1>4 DEF TimerInv
<1>9. CASE timer.session \notin {0, line}
  <2>1. PICK made : made = Time!Recorded("superseded")
    OBVIOUS
  <2>2. /\ made \in Seq(Time!Attempt) /\ Len(made) = n + 1 /\ AttemptsMade(made)
        /\ \A i \in 1..n : made[i] = timer.attempts[i]
        /\ made[n + 1].status = "superseded" /\ made[n + 1].session = timer.session
    <3>1. PICK outcome \in {"superseded", "complete", "timeout"} : outcome = "superseded"
      OBVIOUS
    <3>2. /\ made = Time!Recorded(outcome) /\ n = Len(timer.attempts)
          /\ timer.pc # "end" /\ TimerInv
      BY <1>1, <1>2, <2>1, <3>1
    <3>3. \A m, k : m = Time!Recorded(outcome) /\ k = Len(timer.attempts)
               => /\ m \in Seq(Time!Attempt) /\ Len(m) = k + 1 /\ AttemptsMade(m)
                  /\ \A i \in 1..k : m[i] = timer.attempts[i]
                  /\ m[k + 1].status = outcome /\ m[k + 1].session = timer.session
      BY ONLY <3>1, <3>2, AttemptCloses, Zenon
    <3>4. QED
      BY <3>1, <3>2, <3>3
  <2>3. timer' = [timer EXCEPT !.attempts = made, !.session = line, !.launch = 0,
                               !.events = Time!NoEvents, !.since = 0, !.streak = 0, !.read = read]
    BY <2>1, <1>2, <1>3, <1>9 DEF Time!Retried
  <2>4. /\ Time!NoEvents \in [Time!Stages -> Nat] /\ 0 \in 0..StablePolls
        /\ \A stage \in Time!Stages : Time!NoEvents[stage] = 0
    BY TimerFields DEF Time!NoEvents
  <2>5. timer' \in Time!Timer
    BY <2>2, <2>3, <2>4, <1>5, <1>6, TimerFields DEF Time!Timer
  <2>6. /\ timer'.pc = "compat" /\ timer'.read = read /\ timer'.session = line
        /\ timer'.end = timer.end /\ timer'.torn = timer.torn
        /\ timer'.streak = 0 /\ timer'.since = 0 /\ timer'.attempts = made
        /\ timer'.status = timer.status /\ timer'.events = Time!NoEvents
    BY <2>3, <1>1, TimerFields DEF Time!Timer
  <2>7. TimerTyped'
    BY <2>5, <1>1, <1>4 DEF TimerTyped
  <2>8. SessionRead' /\ Climbs(compat)'
    <3>1. read \in 1..read
      BY <1>5
    <3>2. QED
      BY <3>1, <2>6, <1>2, <1>4, <1>5, <1>7
  <2>9. ASSUME NEW i \in 1..Len(made)
        PROVE  made[i].status = "superseded" /\ made[i].session < line
    <3>1. timer.session < line
      BY <1>6, <1>9, TimerFields
    <3>2. CASE i = n + 1
      BY <3>1, <3>2, <2>2
    <3>3. CASE i \in 1..n
      <4>1. /\ made[i] = timer.attempts[i] /\ timer.attempts[i].session \in Nat
            /\ timer.attempts[i].session < timer.session /\ timer.session \in Nat
            /\ timer.attempts[i].status = "superseded"
        BY <3>3, <2>2, <1>2, <1>4, TimerFields
      <4>2. QED
        BY <4>1, <3>1, <1>6
    <3>4. QED
      BY <3>2, <3>3, <2>2, <1>5
  <2>10. AttemptGoesOn'
    BY <2>4, <2>6, <2>9, <1>4 DEF AttemptGoesOn
  <2>11. QED
    BY <2>2, <2>6, <2>7, <2>8, <2>10, <1>4 DEF TimerInv
<1>10. QED
  BY <1>8, <1>9

\* The end of a measurement: its last attempt is closed, or there was none.
LEMMA MeasurementEnds ==
    ASSUME TimerInv, timer.pc # "end", UNCHANGED <<compat, console, target>>,
           NEW outcome \in {"complete", "timeout"}, NEW made, NEW streak \in Nat,
           made \in {timer.attempts, Time!Recorded(outcome)},
           outcome = "complete" => streak > StablePolls,
           timer' = [timer EXCEPT !.pc = "end", !.status = outcome, !.streak = streak,
                                  !.attempts = made]
    PROVE  TimerInv'
<1>1. made \in Seq(Time!Attempt) /\ AttemptsMade(made)
  <2>1. timer.attempts \in Seq(Time!Attempt) /\ AttemptsMade(timer.attempts)
    BY TimerFields DEF TimerInv
  <2>2. CASE made = Time!Recorded(outcome)
    BY <2>2, AttemptCloses
  <2>3. QED
    BY <2>1, <2>2
<1>2. timer' \in Time!Timer
  BY <1>1, TimerFields DEF Time!Timer
<1>3. /\ timer'.pc = "end" /\ timer'.read = timer.read /\ timer'.session = timer.session
      /\ timer'.attempts = made /\ timer'.status = outcome /\ timer'.streak = streak
  BY TimerFields DEF Time!Timer
<1>4. TimerTyped' /\ Climbs(compat)'
  BY <1>2 DEF TimerInv, TimerTyped
<1>5. SessionRead'
  BY <1>3 DEF TimerInv, SessionRead
<1>6. AttemptGoesOn'
  BY <1>3 DEF AttemptGoesOn
<1>7. QED
  BY <1>1, <1>3, <1>4, <1>5, <1>6 DEF TimerInv

LEMMA WindowLookedAt == TimerInv /\ Time!Window => TimerInv'
<1> SUFFICES ASSUME TimerInv, Time!Window PROVE TimerInv'
  OBVIOUS
<1>1. timer.pc = "window" /\ UNCHANGED <<compat, console, target>>
  BY DEF Time!Window, Time!game
<1>2. /\ timer.streak = timer.since /\ timer.read <= Len(compat) /\ target \in BOOLEAN
      /\ \A stage \in Time!Stages : timer.events[stage] \in {0, Len(timer.attempts) + 1}
  BY <1>1 DEF TimerInv, TimerTyped, AttemptGoesOn, SessionRead
<1>3. ASSUME NEW since \in 0..StablePolls, NEW streak \in Nat, streak = since,
             timer' = [timer EXCEPT !.pc = "open", !.since = since, !.streak = streak]
      PROVE  TimerInv'
  <2>1. timer' \in Time!Timer
    BY <1>3, TimerFields DEF Time!Timer
  <2>2. /\ timer'.pc = "open" /\ timer'.read = timer.read
        /\ timer'.streak = streak /\ timer'.since = since
        /\ timer'.attempts = timer.attempts /\ timer'.session = timer.session
        /\ timer'.status = timer.status /\ timer'.events = timer.events
    BY <1>3, TimerFields DEF Time!Timer
  <2>3. timer'.read \in timer.read..Len(compat)
    BY <2>2, <1>2, TimerFields
  <2>4. QED
    BY <2>1, <2>2, <2>3, <1>1, <1>2, <1>3, PollGoesOn
<1>4. CASE ~(timer.sampled /\ visible)
  <2>1. timer' = [timer EXCEPT !.pc = "open", !.since = 0, !.streak = 0]
    BY <1>4 DEF Time!Window
  <2>2. 0 \in 0..StablePolls /\ 0 \in Nat
    BY TimerFields
  <2>3. QED
    BY <2>1, <2>2, <1>3
<1>5. CASE timer.sampled /\ visible /\ timer.since < StablePolls
  <2>1. PICK since, streak : since = timer.since + 1 /\ streak = timer.streak + 1
    OBVIOUS
  <2>2. since \in 0..StablePolls /\ streak \in Nat /\ streak = since
    BY <2>1, <1>2, <1>5, TimerFields
  <2>3. timer' = [timer EXCEPT !.pc = "open", !.since = since, !.streak = streak]
    BY <2>1, <1>5 DEF Time!Window
  <2>4. QED
    BY <2>2, <2>3, <1>3
<1>6. CASE timer.sampled /\ visible /\ ~(timer.since < StablePolls)
  <2>1. PICK made, streak : made = Time!Recorded("complete") /\ streak = timer.streak + 1
    OBVIOUS
  <2>2. streak \in Nat /\ streak > StablePolls
    BY <2>1, <1>2, <1>6, TimerFields
  <2>3. timer' = [timer EXCEPT !.pc = "end", !.status = "complete", !.streak = streak,
                               !.attempts = made]
    BY <2>1, <1>6 DEF Time!Window
  <2>4. QED
    BY <2>1, <2>2, <2>3, <1>1, MeasurementEnds
<1>7. QED
  BY <1>4, <1>5, <1>6

LEMMA DeadlinePasses == TimerInv /\ Time!Deadline => TimerInv'
<1> SUFFICES ASSUME TimerInv, Time!Deadline PROVE TimerInv'
  OBVIOUS
<1>1. timer.pc = "open" /\ UNCHANGED <<compat, console, target>>
  BY DEF Time!Deadline, Time!game
<1>2. timer.status = "timeout"
  BY <1>1 DEF TimerInv, AttemptGoesOn
<1>3. PICK made : /\ made \in {timer.attempts, Time!Recorded("timeout")}
                  /\ timer' = [timer EXCEPT !.pc = "end", !.attempts = made]
  BY DEF Time!Deadline
<1>4. timer' = [timer EXCEPT !.pc = "end", !.status = "timeout", !.streak = timer.streak,
                             !.attempts = made]
  BY <1>2, <1>3, TimerFields DEF Time!Timer
<1>5. QED
  BY <1>1, <1>3, <1>4, TimerFields, MeasurementEnds

\* A session that starts is not before those in the log.
LEMMA SessionStarts == TimerInv /\ Time!StartSession => TimerInv'
<1> SUFFICES ASSUME TimerInv, Time!StartSession PROVE TimerInv'
  OBVIOUS
<1>1. PICK line : /\ line >= Time!LastOf(compat) /\ line > 0 /\ line \in Nat
                  /\ compat' = Append(compat, line)
  <2>1. Time!LastOf(compat) \in Nat
    BY DEF TimerInv, Climbs, Time!LastOf
  <2>2. PICK later \in {0, 1} : /\ Time!LastOf(compat) + later > 0
                                /\ compat' = Append(compat, Time!LastOf(compat) + later)
    BY DEF Time!StartSession
  <2>3. QED
    BY <2>1, <2>2
<1>2. UNCHANGED <<console, target, timer>> /\ Climbs(compat) /\ Len(compat) \in Nat
  BY TimerFields DEF Time!StartSession, TimerInv
<1>3. /\ compat' \in Seq(Nat) /\ Len(compat') = Len(compat) + 1 /\ compat'[Len(compat) + 1] = line
      /\ \A i \in 1..Len(compat) : compat'[i] = compat[i] /\ compat[i] \in Nat
  BY <1>1, <1>2, AppendProperties DEF Climbs
<1>4. \A i \in 1..Len(compat) : compat[i] <= line
  <2>1. ASSUME NEW i \in 1..Len(compat) PROVE compat[i] <= line
    <3>1. compat # <<>> /\ Len(compat) \in 1..Len(compat) /\ i <= Len(compat)
      BY <1>2
    <3>2. compat[i] <= compat[Len(compat)] /\ Time!LastOf(compat) = compat[Len(compat)]
      BY <3>1, <1>2 DEF Climbs, Time!LastOf
    <3>3. QED
      BY <3>1, <3>2, <1>1, <1>3
  <2>2. QED
    BY <2>1
<1>5. Climbs(compat)'
  <2>1. \A i \in 1..Len(compat') : compat'[i] > 0
    BY <1>1, <1>2, <1>3 DEF Climbs
  <2>2. \A i, j \in 1..Len(compat') : i <= j => compat'[i] <= compat'[j]
    <3>1. ASSUME NEW i \in 1..Len(compat'), NEW j \in 1..Len(compat'), i <= j
          PROVE  compat'[i] <= compat'[j]
      <4>1. CASE j \in 1..Len(compat)
        <5>1. i \in 1..Len(compat)
          BY <4>1, <3>1, <1>2
        <5>2. QED
          BY <5>1, <4>1, <3>1, <1>2, <1>3 DEF Climbs
      <4>2. CASE j = Len(compat) + 1
        BY <4>2, <3>1, <1>1, <1>2, <1>3, <1>4
      <4>3. QED
        BY <4>1, <4>2, <1>2, <1>3
    <3>2. QED
      BY <3>1
  <2>3. QED
    BY <2>1, <2>2, <1>3 DEF Climbs
<1>6. SessionRead'
  <2>1. timer.read <= Len(compat) /\ timer.read \in Nat
    BY TimerFields DEF TimerInv, SessionRead
  <2>2. \A k \in 1..timer.read : compat'[k] = compat[k]
    BY <2>1, <1>2, <1>3
  <2>3. QED
    <3>1. SessionRead
      BY DEF TimerInv
    <3>2. timer.read <= Len(compat') /\ (timer.end <= Len(compat) => timer.end <= Len(compat'))
      BY <2>1, <1>2, <1>3, TimerFields
    <3>3. QED
      BY <3>1, <3>2, <2>2, <1>2 DEF SessionRead
<1>7. TimerTyped' /\ AttemptsMade(timer.attempts)' /\ AttemptGoesOn'
  BY <1>2 DEF TimerInv, TimerTyped, AttemptGoesOn
<1>8. QED
  BY <1>2, <1>5, <1>6, <1>7 DEF TimerInv

\* The game does what the timer only looks at.
LEMMA GameGoesBeside ==
    ASSUME TimerInv, UNCHANGED <<compat, timer>>, target' \in BOOLEAN, console' \in Seq(Nat)
    PROVE  TimerInv'
BY DEF TimerInv, TimerTyped, SessionRead, AttemptGoesOn

LEMMA TimerSteps == TimerInv /\ (Time!TimerNext \/ UNCHANGED timerVars) => TimerInv'
<1> SUFFICES ASSUME TimerInv, Time!TimerNext \/ UNCHANGED timerVars PROVE TimerInv'
  OBVIOUS
<1>1. target \in BOOLEAN /\ console \in Seq(Nat)
  BY DEF TimerInv, TimerTyped
<1>2. CASE Time!AddProcess
  <2>1. Time!LastOf(compat) \in Nat
    BY DEF TimerInv, Climbs, Time!LastOf
  <2>2. console' \in Seq(Nat) /\ UNCHANGED <<compat, target, timer>>
    BY <2>1, <1>1, <1>2 DEF Time!AddProcess
  <2>3. QED
    BY <2>2, <1>1, GameGoesBeside
<1>3. CASE Time!StartTarget \/ Time!Show \/ Time!LogDxvk \/ UNCHANGED timerVars
  <2>1. UNCHANGED <<compat, console, timer>> /\ target' \in BOOLEAN
    BY <1>1, <1>3 DEF Time!StartTarget, Time!Show, Time!LogDxvk, timerVars
  <2>2. QED
    BY <2>1, <1>1, GameGoesBeside
<1>4. CASE Time!Flip
  <2>1. UNCHANGED <<compat, timer>> /\ target' \in BOOLEAN
    BY <1>1, <1>4 DEF Time!Flip
  <2>2. console' = <<>> \/ console' = console
    BY <1>4 DEF Time!Flip
  <2>3. console' \in Seq(Nat)
    BY <2>2, <1>1, <<>> \in Seq(Nat)
  <2>4. QED
    BY <2>1, <2>3, GameGoesBeside
<1>5. QED
  BY <1>2, <1>3, <1>4, CompatOpens, LineRead, CompatIsRead, ConsoleRead, ProcessesSampled,
     WindowLookedAt, DeadlinePasses, SessionStarts DEF Time!TimerNext

LEMMA TimerIsRight == TimerInv => Time!TimerTells
<1> SUFFICES ASSUME TimerInv PROVE Time!TimerTells
  OBVIOUS
<1>1. AttemptsMade(timer.attempts) /\ Len(timer.attempts) \in Nat
  BY TimerFields DEF TimerInv
<1>2. ASSUME NEW i \in 1..Len(timer.attempts)
      PROVE  /\ \A stage \in Time!Stages : timer.attempts[i].events[stage] \in {0, i}
             /\ timer.attempts[i].status # "superseded" => i = Len(timer.attempts)
             /\ i > 1 => timer.attempts[i - 1].session < timer.attempts[i].session
  BY <1>1 DEF AttemptsMade
<1>3. QED
  BY <1>2 DEF Time!TimerTells, TimerInv

-------------------------------------------------------------------------------

(* The bounded log of the session *)

Outlets == {"stdout", "log"}

LogTyped ==
    /\ printed \in Nat /\ drained \in Nat /\ drained <= printed /\ closed \in BOOLEAN
    /\ sink \in [Outlets -> Log!Sink] /\ file \in [Outlets -> Seq(Nat)]
    /\ stream \in [pc : {"open", "read", "feed", "mark", "end"}, data : Seq(Nat), turn : 1..3]

Feeding == stream.pc \in {"feed", "mark"}

FreshSink == [payload |-> 0, truncated |-> FALSE, failed |-> FALSE, there |-> TRUE]

\* The bytes at hand are the last that were taken.
AtHand ==
    /\ stream.pc = "open" =>
          drained = 0 /\ \A s \in Outlets : file[s] = <<>> /\ sink[s] = FreshSink
    /\ Feeding =>
          /\ stream.turn \in 1..2 /\ Len(stream.data) <= drained
          /\ \A i \in 1..Len(stream.data) :
                stream.data[i] = drained - Len(stream.data) + i
    /\ stream.pc = "end" => closed /\ drained = printed

\* The bytes that a sink has been given: those at hand as well, once its turn is over.
Given(s) ==
    IF Feeding /\ (s = "log" \/ stream.turn = 1) THEN drained - Len(stream.data) ELSE drained

Marking(s) == stream.pc = "mark" /\ s = Log!Sinks[stream.turn]

\* A sink that goes on holds the bytes that it was given, and no other; at the marker, as many as
\* fit, which are not all.
Keeps(s) ==
    ~Log!WritesNoMore(s) =>
       /\ Len(file[s]) = sink[s].payload /\ sink[s].payload <= Log!PayloadLimit
       /\ \A i \in 1..Len(file[s]) : file[s][i] = i
       /\ ~Marking(s) => sink[s].payload = Given(s)
       /\ Marking(s) => sink[s].payload = Log!PayloadLimit /\ drained > Log!PayloadLimit

\* One with its marker is full, and something is missing from it.
Marked(s) ==
    sink[s].truncated /\ ~sink[s].failed => Len(file[s]) = Cap /\ drained > Log!PayloadLimit

\* Whatever a sink holds are the first bytes, in their order, and then those of the marker.
FirstBytes(f) ==
    /\ Len(f) <= Cap
    /\ \A i \in 1..Len(f) : f[i] \in {0, i}
    /\ \A i, j \in 1..Len(f) : i < j /\ f[i] = 0 => f[j] = 0

SinkInv(s) ==
    Keeps(s) /\ Marked(s) /\ FirstBytes(file[s]) /\ (Marking(s) => ~Log!WritesNoMore(s))

LogInv == LogTyped /\ AtHand /\ \A s \in Outlets : SinkInv(s)

LEMMA LogBounds ==
    /\ Cap \in Nat /\ MarkerSize \in Nat \ {0} /\ ReadSize \in Nat
    /\ Log!PayloadLimit \in Nat \ {0} /\ Log!PayloadLimit + MarkerSize = Cap
<1>1. Cap \in Nat /\ MarkerSize \in 1..(Cap - 1) /\ ReadSize \in Nat
  BY HelpersAssumption DEF Log!SessionLogAssumption
<1>2. QED
  BY <1>1 DEF Log!PayloadLimit

LEMMA LogBegins == Log!LogInit => LogInv
<1> SUFFICES ASSUME Log!LogInit PROVE LogInv
  OBVIOUS
<1>1. /\ printed = 0 /\ closed = FALSE /\ drained = 0
      /\ sink = [s \in Outlets |-> FreshSink] /\ file = [s \in Outlets |-> <<>>]
      /\ stream = [pc |-> "open", data |-> <<>>, turn |-> 1]
  BY DEF Log!LogInit, Outlets, FreshSink
<1>2. FreshSink \in Log!Sink /\ <<>> \in Seq(Nat)
  BY DEF FreshSink, Log!Sink
<1>3. LogTyped
  <2>1. /\ sink \in [Outlets -> Log!Sink] /\ file \in [Outlets -> Seq(Nat)]
        /\ stream \in [pc : {"open", "read", "feed", "mark", "end"}, data : Seq(Nat), turn : 1..3]
    <3>1. stream \in [pc : {"open", "read", "feed", "mark", "end"}, data : Seq(Nat), turn : 1..3]
      BY <1>1, <1>2
    <3>2. sink \in [Outlets -> Log!Sink]
      BY <1>1, <1>2
    <3>3. file \in [Outlets -> Seq(Nat)]
      BY <1>1, <1>2
    <3>4. QED
      BY <1>1, <3>1, <3>2, <3>3
  <2>2. printed = 0 /\ drained = 0 /\ 0 <= 0 /\ 0 \in Nat /\ closed \in BOOLEAN
    <3>1. printed = 0 /\ drained = 0 /\ 0 <= 0
      BY <1>1
    <3>2. closed \in BOOLEAN
      BY <1>1
    <3>3. QED
      BY <3>1, <3>2
  <2>3. QED
    BY <2>1, <2>2 DEF LogTyped
<1>4. AtHand
  BY <1>1 DEF AtHand, Feeding
<1>5. ASSUME NEW s \in Outlets PROVE SinkInv(s)
  <2>1. sink[s] = FreshSink /\ file[s] = <<>> /\ ~Feeding /\ ~Marking(s)
    BY <1>1 DEF Feeding, Marking
  <2>2. QED
    BY <1>1, <2>1, LogBounds DEF SinkInv, Keeps, Marked, FirstBytes, Given, FreshSink
<1>6. QED
  BY <1>3, <1>4, <1>5 DEF LogInv

\* Bytes that follow those of a sink, and a marker that follows them.
LEMMA BytesFollow ==
    ASSUME NEW f \in Seq(Nat), \A i \in 1..Len(f) : f[i] = i, NEW b \in Seq(Nat),
           \A i \in 1..Len(b) : b[i] = Len(f) + i
    PROVE  /\ f \o b \in Seq(Nat) /\ Len(f \o b) = Len(f) + Len(b)
           /\ \A i \in 1..Len(f \o b) : (f \o b)[i] = i
           /\ Len(f) + Len(b) <= Cap => FirstBytes(f \o b)
<1>1. f \o b \in Seq(Nat) /\ Len(f \o b) = Len(f) + Len(b)
  BY ConcatProperties
<1>2. ASSUME NEW i \in 1..Len(f \o b) PROVE (f \o b)[i] = i
  <2>1. /\ Len(f) \in Nat /\ Len(b) \in Nat /\ i \in 1..(Len(f) + Len(b))
        /\ (f \o b)[i] = IF i <= Len(f) THEN f[i] ELSE b[i - Len(f)]
    BY <1>1, ConcatProperties
  <2>2. CASE i <= Len(f)
    BY <2>1, <2>2
  <2>3. CASE ~(i <= Len(f))
    <3>1. i - Len(f) \in 1..Len(b)
      BY <2>1, <2>3
    <3>2. QED
      BY <2>1, <2>3, <3>1
  <2>4. QED
    BY <2>2, <2>3
<1>3. QED
  BY <1>1, <1>2 DEF FirstBytes

LEMMA MarkerFollows ==
    ASSUME NEW f \in Seq(Nat), \A i \in 1..Len(f) : f[i] = i, NEW b \in Seq(Nat),
           \A i \in 1..Len(b) : b[i] = 0
    PROVE  /\ f \o b \in Seq(Nat) /\ Len(f \o b) = Len(f) + Len(b)
           /\ Len(f) + Len(b) <= Cap => FirstBytes(f \o b)
<1>1. f \o b \in Seq(Nat) /\ Len(f \o b) = Len(f) + Len(b)
  BY ConcatProperties
<1>2. ASSUME NEW i \in 1..Len(f \o b) PROVE (f \o b)[i] = IF i <= Len(f) THEN i ELSE 0
  <2>1. /\ Len(f) \in Nat /\ Len(b) \in Nat /\ i \in 1..(Len(f) + Len(b))
        /\ (f \o b)[i] = IF i <= Len(f) THEN f[i] ELSE b[i - Len(f)]
    BY <1>1, ConcatProperties
  <2>2. CASE i <= Len(f)
    BY <2>1, <2>2
  <2>3. CASE ~(i <= Len(f))
    <3>1. i - Len(f) \in 1..Len(b)
      BY <2>1, <2>3
    <3>2. QED
      BY <2>1, <2>3, <3>1
  <2>4. QED
    BY <2>2, <2>3
<1>3. QED
  BY <1>1, <1>2 DEF FirstBytes

LEMMA Beginning ==
    ASSUME NEW b \in Seq(Nat), NEW n \in 0..Len(b)
    PROVE  /\ SubSeq(b, 1, n) \in Seq(Nat) /\ Len(SubSeq(b, 1, n)) = n
           /\ \A i \in 1..n : SubSeq(b, 1, n)[i] = b[i]
BY SubSeqProperties

\* A sink that a step leaves alone.
LEMMA SinkStays ==
    ASSUME LogInv, NEW s \in Outlets, UNCHANGED <<file[s], sink[s]>>,
           drained' \in Nat, drained <= drained',
           Log!WritesNoMore(s) \/ Given(s)' = Given(s), ~Marking(s), ~Marking(s)'
    PROVE  SinkInv(s)'
<1>1. SinkInv(s) /\ drained \in Nat
  BY DEF LogInv, LogTyped
<1>2. Log!WritesNoMore(s)' <=> Log!WritesNoMore(s)
  BY DEF Log!WritesNoMore
<1>3. Keeps(s)'
  BY <1>1, <1>2 DEF SinkInv, Keeps
<1>4. Marked(s)'
  BY <1>1, LogBounds DEF SinkInv, Marked
<1>5. FirstBytes(file[s])'
  BY <1>1 DEF SinkInv, FirstBytes
<1>6. QED
  BY <1>3, <1>4, <1>5 DEF SinkInv

\* Steam prints, or the guard opens its log, reads, or ends: no sink gets anything.
LEMMA OutsideSteps ==
    ASSUME LogInv, Log!PrintByte \/ Log!Close \/ Log!EndOfPipe \/ UNCHANGED logVars
    PROVE  LogInv'
<1>t. LogTyped /\ AtHand
  BY DEF LogInv
<1>1. UNCHANGED <<drained, sink, file>>
  BY DEF Log!PrintByte, Log!Close, Log!EndOfPipe, logVars
<1>2. \/ stream' = stream
      \/ /\ stream.pc = "read" /\ drained = printed /\ closed /\ UNCHANGED <<printed, closed>>
         /\ stream' = [stream EXCEPT !.pc = "end"]
  BY DEF Log!PrintByte, Log!Close, Log!EndOfPipe, logVars
<1>3. /\ printed' \in Nat /\ drained <= printed' /\ closed' \in BOOLEAN
      /\ stream.pc = "end" => closed' /\ drained = printed'
  <2>1. printed \in Nat /\ drained \in Nat /\ drained <= printed /\ closed \in BOOLEAN
    BY <1>t DEF LogTyped
  <2>2. stream.pc = "end" => closed /\ drained = printed
    BY <1>t DEF AtHand
  <2>3. CASE Log!PrintByte
    BY <2>1, <2>2, <2>3 DEF Log!PrintByte
  <2>4. CASE Log!Close
    BY <2>1, <2>2, <2>4 DEF Log!Close
  <2>5. CASE Log!EndOfPipe \/ UNCHANGED logVars
    BY <2>1, <2>2, <2>5 DEF Log!EndOfPipe, logVars
  <2>6. QED
    BY <2>3, <2>4, <2>5
<1>4. CASE stream' = stream
  <2>1. LogTyped' /\ AtHand'
    BY <1>t, <1>1, <1>3, <1>4 DEF LogTyped, AtHand, Feeding
  <2>2. ASSUME NEW s \in Outlets PROVE SinkInv(s)'
    <3>1. SinkInv(s)
      BY DEF LogInv
    <3>2. QED
      BY <3>1, <1>1, <1>4
         DEF SinkInv, Keeps, Marked, FirstBytes, Marking, Given, Feeding, Log!WritesNoMore
  <2>3. QED
    BY <2>1, <2>2 DEF LogInv
<1>5. CASE stream' = [stream EXCEPT !.pc = "end"] /\ stream' # stream
  <2>1. stream.pc = "read" /\ stream'.pc = "end"
    BY <1>2, <1>5, <1>t DEF LogTyped
  <2>2. LogTyped'
    BY <1>t, <1>1, <1>3, <1>5 DEF LogTyped
  <2>3. AtHand'
    BY <1>1, <1>2, <1>5, <2>1 DEF AtHand, Feeding
  <2>4. ASSUME NEW s \in Outlets PROVE SinkInv(s)'
    BY <1>1, <1>t, <2>1, SinkStays DEF Given, Feeding, Marking, LogTyped
  <2>5. QED
    BY <2>2, <2>3, <2>4 DEF LogInv
<1>6. QED
  BY <1>2, <1>4, <1>5

LEMMA LogOpens == LogInv /\ Log!OpenLog => LogInv'
<1> SUFFICES ASSUME LogInv, Log!OpenLog PROVE LogInv'
  OBVIOUS
<1>t. LogTyped /\ AtHand
  BY DEF LogInv
<1>1. PICK there \in BOOLEAN : sink' = [sink EXCEPT !["log"].there = there]
  BY DEF Log!OpenLog
<1>2. /\ stream.pc = "open" /\ stream' = [stream EXCEPT !.pc = "read"]
      /\ UNCHANGED <<printed, closed, drained, file>>
  BY DEF Log!OpenLog
<1>3. drained = 0 /\ \A s \in Outlets : file[s] = <<>> /\ sink[s] = FreshSink
  BY <1>2, <1>t DEF AtHand
<1>4. \A s \in Outlets : /\ sink'[s] \in Log!Sink /\ sink'[s].payload = 0
                        /\ ~sink'[s].truncated /\ ~sink'[s].failed
  BY <1>1, <1>3, <1>t DEF LogTyped, Outlets, FreshSink, Log!Sink
<1>5. stream'.pc = "read"
  BY <1>2, <1>t DEF LogTyped
<1>6. LogTyped'
  BY <1>1, <1>2, <1>4, <1>t DEF LogTyped, Outlets
<1>7. AtHand'
  BY <1>5 DEF AtHand, Feeding
<1>8. ASSUME NEW s \in Outlets PROVE SinkInv(s)'
  <2>1. file'[s] = <<>> /\ drained' = 0 /\ Len(<<>>) = 0
    BY <1>2, <1>3
  <2>2. QED
    BY <2>1, <1>4, <1>5, LogBounds DEF SinkInv, Keeps, Marked, FirstBytes, Given, Feeding, Marking
<1>9. QED
  BY <1>6, <1>7, <1>8 DEF LogInv

LEMMA PipeRead == LogInv /\ Log!ReadPipe => LogInv'
<1> SUFFICES ASSUME LogInv, Log!ReadPipe PROVE LogInv'
  OBVIOUS
<1>t. LogTyped /\ AtHand
  BY DEF LogInv
<1>1. PICK n \in 1..ReadSize :
         /\ drained + n <= printed
         /\ stream' = [pc |-> "feed", data |-> [i \in 1..n |-> drained + i], turn |-> 1]
         /\ drained' = drained + n
  BY DEF Log!ReadPipe
<1>2. /\ stream.pc = "read" /\ UNCHANGED <<printed, closed, sink, file>>
      /\ drained \in Nat /\ n \in Nat
  BY <1>t, LogBounds DEF Log!ReadPipe, LogTyped
<1>3. PICK data : data = [i \in 1..n |-> drained + i]
  OBVIOUS
<1>4. data \in Seq(Nat) /\ Len(data) = n /\ \A i \in 1..n : data[i] = drained + i
  BY <1>2, <1>3
<1>5. stream'.pc = "feed" /\ stream'.data = data /\ stream'.turn = 1
  BY <1>1, <1>3
<1>6. LogTyped'
  BY <1>1, <1>2, <1>3, <1>4, <1>t DEF LogTyped
<1>7. AtHand'
  BY <1>1, <1>2, <1>4, <1>5 DEF AtHand, Feeding
<1>8. ASSUME NEW s \in Outlets PROVE SinkInv(s)'
  <2>1. Given(s)' = Given(s)
    BY <1>1, <1>2, <1>4, <1>5 DEF Given, Feeding
  <2>2. QED
    BY <2>1, <1>1, <1>2, <1>5, SinkStays DEF Marking
<1>9. QED
  BY <1>6, <1>7, <1>8 DEF LogInv

\* The turn goes to the other sink, or to the pipe: what both have been given stays.
LEMMA TurnGoes ==
    ASSUME LogInv, stream.pc \in {"feed", "mark"}, UNCHANGED <<printed, closed, drained>>,
           stream' = Log!Turned, NEW s \in Outlets, s = Log!Sinks[stream.turn],
           file' \in [Outlets -> Seq(Nat)], sink' \in [Outlets -> Log!Sink],
           \A o \in Outlets \ {s} : UNCHANGED <<file[o], sink[o]>>
    PROVE  /\ LogTyped' /\ AtHand' /\ \A o \in Outlets \ {s} : SinkInv(o)'
           /\ Given(s)' = drained /\ ~Marking(s)'
<1>t. LogTyped /\ AtHand
  BY DEF LogInv
<1>1. /\ (stream.turn = 1 /\ s = "stdout") \/ (stream.turn = 2 /\ s = "log")
      /\ stream.turn \in 1..2
  <2>1. stream.turn = 1 \/ stream.turn = 2
    BY <1>t DEF AtHand, Feeding
  <2>2. stream.turn = 1 => s = "stdout"
    BY DEF Log!Sinks
  <2>3. stream.turn = 2 => s = "log"
    BY DEF Log!Sinks
  <2>4. stream.turn \in 1..2
    BY <2>1
  <2>5. QED
    BY <2>1, <2>2, <2>3, <2>4
<1>2. PICK step, turn : /\ step = (IF stream.turn = 2 THEN "read" ELSE "feed")
                        /\ turn = stream.turn + 1
                        /\ stream' = [stream EXCEPT !.turn = turn, !.pc = step]
  BY DEF Log!Turned, Log!Sinks
<1>3. step \in {"read", "feed"} /\ turn \in 1..3
  BY <1>1, <1>2
<1>4. /\ stream'.pc = step /\ stream'.turn = turn /\ stream'.data = stream.data
      /\ stream' \in [pc : {"open", "read", "feed", "mark", "end"}, data : Seq(Nat), turn : 1..3]
  BY <1>2, <1>3, <1>t DEF LogTyped
<1>5. LogTyped'
  BY <1>4, <1>t DEF LogTyped
<1>6. AtHand'
  BY <1>1, <1>2, <1>3, <1>4, <1>t DEF AtHand, Feeding
<1>7. Given(s)' = drained /\ ~Marking(s)'
  BY <1>1, <1>2, <1>3, <1>4 DEF Given, Feeding, Marking
<1>8. ASSUME NEW o \in Outlets \ {s} PROVE SinkInv(o)'
  <2>1. (o = "log" /\ stream.turn = 1) \/ (o = "stdout" /\ stream.turn = 2)
    BY <1>1 DEF Outlets
  <2>2. Given(o)' = Given(o)
    BY <2>1, <1>2, <1>3, <1>4 DEF Given, Feeding
  <2>3. ~Marking(o) /\ ~Marking(o)'
    BY <2>1, <1>3, <1>4 DEF Marking, Log!Sinks
  <2>4. QED
    BY <2>2, <2>3, <1>t, SinkStays DEF LogTyped
<1>9. QED
  BY <1>5, <1>6, <1>7, <1>8

LEMMA TurnPasses == LogInv /\ Log!Pass => LogInv'
<1> SUFFICES ASSUME LogInv, Log!Pass PROVE LogInv'
  OBVIOUS
<1>t. LogTyped /\ AtHand
  BY DEF LogInv
<1>1. PICK s \in Outlets : s = Log!Sinks[stream.turn]
  <2>1. stream.turn = 1 \/ stream.turn = 2
    BY <1>t DEF AtHand, Feeding, Log!Pass
  <2>2. QED
    BY <2>1 DEF Log!Sinks, Outlets
<1>2. /\ stream.pc = "feed" /\ Log!WritesNoMore(s) /\ stream' = Log!Turned
      /\ UNCHANGED <<printed, closed, drained, sink, file>>
  BY <1>1 DEF Log!Pass
<1>3. /\ LogTyped' /\ AtHand' /\ (\A o \in Outlets \ {s} : SinkInv(o)') /\ ~Marking(s)'
  BY <1>1, <1>2, <1>t, TurnGoes DEF LogTyped
<1>4. SinkInv(s)'
  BY <1>2, <1>3, <1>t, SinkStays DEF Marking, LogTyped
<1>5. QED
  BY <1>3, <1>4 DEF LogInv


\* A sink that fails keeps the beginning of what it was to be given.
LEMMA SinkFails ==
    ASSUME LogInv, stream.pc \in {"feed", "mark"}, UNCHANGED <<printed, closed, drained>>,
           stream' = Log!Turned, NEW s \in Outlets, s = Log!Sinks[stream.turn],
           NEW c, file[s] \o c \in Seq(Nat), FirstBytes(file[s] \o c),
           file' = [file EXCEPT ![s] = @ \o c], sink' = [sink EXCEPT ![s].failed = TRUE]
    PROVE  LogInv'
<1>t. LogTyped
  BY DEF LogInv
<1>1. file' \in [Outlets -> Seq(Nat)] /\ file'[s] = file[s] \o c
  BY <1>t DEF LogTyped
<1>2. sink' \in [Outlets -> Log!Sink] /\ sink'[s].failed
  <2>1. sink \in [Outlets -> Log!Sink] /\ sink[s] \in Log!Sink
    BY <1>t DEF LogTyped
  <2>2. PICK failing : failing = [sink[s] EXCEPT !.failed = TRUE]
    OBVIOUS
  <2>3. failing \in Log!Sink /\ failing.failed
    BY <2>1, <2>2 DEF Log!Sink
  <2>4. sink' = [sink EXCEPT ![s] = failing]
    BY <2>2
  <2>5. QED
    BY <2>1, <2>3, <2>4
<1>3. \A o \in Outlets \ {s} : UNCHANGED <<file[o], sink[o]>>
  BY <1>t DEF LogTyped
<1>4. LogTyped' /\ AtHand' /\ (\A o \in Outlets \ {s} : SinkInv(o)') /\ ~Marking(s)'
  BY <1>1, <1>2, <1>3, TurnGoes
<1>5. SinkInv(s)'
  <2>1. Keeps(s)' /\ Marked(s)'
    BY <1>2 DEF Keeps, Marked, Log!WritesNoMore
  <2>2. FirstBytes(file[s])'
    BY <1>1
  <2>3. QED
    BY <2>1, <2>2, <1>4 DEF SinkInv
<1>6. QED
  BY <1>4, <1>5 DEF LogInv

\* What still fits goes to the sink, and then the turn passes, or the marker comes.
LEMMA PrefixFed == LogInv /\ Log!FeedPrefix => LogInv'
<1> SUFFICES ASSUME LogInv, Log!FeedPrefix PROVE LogInv'
  OBVIOUS
<1>t. LogTyped /\ AtHand
  BY DEF LogInv
<1>0. stream.pc = "feed" /\ stream.turn \in 1..2 /\ UNCHANGED <<printed, closed, drained>>
  BY <1>t DEF AtHand, Feeding, Log!FeedPrefix
<1>1. PICK s \in Outlets : s = Log!Sinks[stream.turn]
  <2>1. stream.turn = 1 \/ stream.turn = 2
    BY <1>0
  <2>2. QED
    BY <2>1 DEF Log!Sinks, Outlets
<1>2. ~Log!WritesNoMore(s)
  BY <1>1 DEF Log!FeedPrefix
<1>3. PICK f, b, data, p :
         f = file[s] /\ b = Log!Prefix(s) /\ data = stream.data /\ p = sink[s].payload
  OBVIOUS
<1>4. /\ f \in Seq(Nat) /\ data \in Seq(Nat) /\ p \in Nat /\ drained \in Nat
      /\ sink[s] \in Log!Sink
  BY <1>3, <1>t DEF LogTyped, Log!Sink
<1>5. /\ Len(f) = p /\ p <= Log!PayloadLimit /\ \A i \in 1..Len(f) : f[i] = i
      /\ p = drained - Len(data) /\ ~sink[s].truncated
  <2>1. Keeps(s) /\ ~Marking(s)
    BY <1>0 DEF LogInv, SinkInv, Marking
  <2>2. s = "log" \/ stream.turn = 1
    BY <1>0, <1>1 DEF Log!Sinks
  <2>3. QED
    BY <2>1, <2>2, <1>0, <1>2, <1>3 DEF Keeps, Given, Feeding, Log!WritesNoMore
<1>6. \A i \in 1..Len(data) : data[i] = p + i
  BY <1>0, <1>3, <1>5, <1>t DEF AtHand, Feeding
<1>7. /\ b \in Seq(Nat) /\ Len(b) <= Len(data) /\ p + Len(b) <= Log!PayloadLimit
      /\ Len(b) < Len(data) => p + Len(b) = Log!PayloadLimit
      /\ \A i \in 1..Len(b) : b[i] = Len(f) + i
  <2>1. PICK m : m = IF Log!PayloadLimit - p < Len(data) THEN Log!PayloadLimit - p ELSE Len(data)
    OBVIOUS
  <2>2. /\ m \in 0..Len(data) /\ p + m <= Log!PayloadLimit
        /\ m < Len(data) => p + m = Log!PayloadLimit
    <3>1. Len(data) \in Nat
      BY <1>4
    <3>2. QED
      BY <3>1, <2>1, <1>4, <1>5, LogBounds
  <2>3. b = SubSeq(data, 1, m)
    BY <1>3, <2>1 DEF Log!Prefix, Log!Remaining
  <2>4. QED
    <3>1. b \in Seq(Nat) /\ Len(b) = m /\ \A i \in 1..m : b[i] = data[i]
      BY <2>2, <2>3, <1>4, Beginning
    <3>2. \A i \in 1..Len(b) : b[i] = p + i
      <4>1. Len(data) \in Nat /\ 1..m \subseteq 1..Len(data)
        BY <2>2, <1>4
      <4>2. QED
        BY <4>1, <3>1, <1>6
    <3>3. QED
      BY <3>1, <3>2, <2>2, <1>5
<1>8. ASSUME file' = [file EXCEPT ![s] = @ \o b],
             sink' = [sink EXCEPT ![s].payload = @ + Len(b)],
             stream' = IF Len(data) > Len(b) THEN [stream EXCEPT !.pc = "mark"] ELSE Log!Turned
      PROVE  LogInv'
  <2>1. /\ f \o b \in Seq(Nat) /\ Len(f \o b) = p + Len(b) /\ FirstBytes(f \o b)
        /\ \A i \in 1..Len(f \o b) : (f \o b)[i] = i
    <3>1. /\ f \o b \in Seq(Nat) /\ Len(f \o b) = Len(f) + Len(b)
          /\ \A i \in 1..Len(f \o b) : (f \o b)[i] = i
          /\ Len(f) + Len(b) <= Cap => FirstBytes(f \o b)
      BY <1>4, <1>5, <1>7, BytesFollow
    <3>2. Len(f) + Len(b) <= Cap
      BY <1>4, <1>5, <1>7, LogBounds
    <3>3. QED
      BY <3>1, <3>2, <1>5
  <2>2. file' \in [Outlets -> Seq(Nat)] /\ file'[s] = f \o b
    BY <2>1, <1>3, <1>8, <1>t DEF LogTyped
  <2>3. /\ sink' \in [Outlets -> Log!Sink] /\ sink'[s].payload = p + Len(b)
        /\ sink'[s].truncated = sink[s].truncated /\ sink'[s].failed = sink[s].failed
        /\ sink'[s].there = sink[s].there
    <3>1. PICK q \in Nat : q = p + Len(b)
      BY <1>4, <1>7
    <3>2. sink' = [sink EXCEPT ![s].payload = q]
      BY <3>1, <1>3, <1>8
    <3>3. QED
      BY <3>1, <3>2, <1>4, <1>t DEF LogTyped, Log!Sink
  <2>4. \A o \in Outlets \ {s} : UNCHANGED <<file[o], sink[o]>>
    BY <1>8, <1>t DEF LogTyped
  <2>5. ~Log!WritesNoMore(s)' /\ ~sink'[s].truncated
    BY <2>3, <1>2 DEF Log!WritesNoMore
  <2>6. CASE Len(data) > Len(b)
    <3>1. stream' = [stream EXCEPT !.pc = "mark"]
      BY <1>8, <2>6
    <3>2. /\ stream'.pc = "mark" /\ stream'.turn = stream.turn /\ stream'.data = data
          /\ LogTyped'
      BY <3>1, <2>2, <2>3, <1>0, <1>3, <1>t DEF LogTyped
    <3>3. AtHand'
      BY <3>2, <1>0, <1>3, <1>t DEF AtHand, Feeding
    <3>4. p + Len(b) = Log!PayloadLimit /\ drained > Log!PayloadLimit
      BY <2>6, <1>4, <1>5, <1>7
    <3>5. SinkInv(s)'
      <4>1. Keeps(s)'
        BY <2>1, <2>2, <2>3, <3>2, <3>4, <1>0, <1>1 DEF Keeps, Marking
      <4>2. Marked(s)' /\ FirstBytes(file[s])'
        BY <2>1, <2>2, <2>5 DEF Marked
      <4>3. QED
        BY <4>1, <4>2, <2>5 DEF SinkInv
    <3>6. ASSUME NEW o \in Outlets \ {s} PROVE SinkInv(o)'
      <4>1. ~Marking(o) /\ ~Marking(o)' /\ Given(o)' = Given(o)
        BY <3>2, <1>0, <1>1, <1>3 DEF Marking, Given, Feeding
      <4>2. QED
        BY <4>1, <2>4, <1>0, <1>4, SinkStays
    <3>7. QED
      BY <3>2, <3>3, <3>5, <3>6 DEF LogInv
  <2>7. CASE ~(Len(data) > Len(b))
    <3>1. stream' = Log!Turned
      BY <1>8, <2>7
    <3>2. /\ LogTyped' /\ AtHand' /\ (\A o \in Outlets \ {s} : SinkInv(o)')
          /\ Given(s)' = drained /\ ~Marking(s)'
      BY <3>1, <2>2, <2>3, <2>4, <1>0, <1>1, TurnGoes
    <3>3. p + Len(b) = drained
      <4>1. Len(b) \in Nat /\ Len(data) \in Nat
        BY <1>4, <1>7
      <4>2. Len(b) = Len(data)
        BY <4>1, <2>7, <1>7
      <4>3. QED
        BY <4>1, <4>2, <1>4, <1>5
    <3>4. SinkInv(s)'
      <4>1. Keeps(s)'
        BY <2>1, <2>2, <2>3, <3>2, <3>3, <1>7 DEF Keeps
      <4>2. Marked(s)' /\ FirstBytes(file[s])'
        BY <2>1, <2>2, <2>5 DEF Marked
      <4>3. QED
        BY <4>1, <4>2, <3>2 DEF SinkInv
    <3>5. QED
      BY <3>2, <3>4 DEF LogInv
  <2>8. QED
    BY <2>6, <2>7
<1>9. ASSUME NEW n \in 0..(Len(b) - 1), file' = [file EXCEPT ![s] = @ \o SubSeq(b, 1, n)],
             sink' = [sink EXCEPT ![s].failed = TRUE], stream' = Log!Turned
      PROVE  LogInv'
  <2>1. PICK c : c = SubSeq(b, 1, n)
    OBVIOUS
  <2>2. c \in Seq(Nat) /\ Len(c) = n /\ \A i \in 1..Len(c) : c[i] = Len(f) + i
    <3>1. n \in 0..Len(b)
      BY <1>7, <1>9, Len(b) \in Nat
    <3>2. c \in Seq(Nat) /\ Len(c) = n /\ \A i \in 1..n : c[i] = b[i]
      BY <3>1, <2>1, <1>7, Beginning
    <3>3. 1..n \subseteq 1..Len(b)
      BY <3>1, <1>7, Len(b) \in Nat
    <3>4. QED
      BY <3>2, <3>3, <1>7
  <2>3. f \o c \in Seq(Nat) /\ FirstBytes(f \o c)
    <3>1. f \o c \in Seq(Nat) /\ (Len(f) + Len(c) <= Cap => FirstBytes(f \o c))
      BY <2>2, <1>4, <1>5, BytesFollow
    <3>2. Len(f) + Len(c) <= Cap
      BY <2>2, <1>4, <1>5, <1>7, LogBounds
    <3>3. QED
      BY <3>1, <3>2
  <2>4. QED
    BY <2>1, <2>3, <1>0, <1>1, <1>3, <1>9, SinkFails
<1>10. QED
  <2>1. \/ /\ stream' = IF Len(data) > Len(b) THEN [stream EXCEPT !.pc = "mark"] ELSE Log!Turned
           /\ sink' = [sink EXCEPT ![s].payload = @ + Len(b)]
           /\ file' = [file EXCEPT ![s] = @ \o b]
        \/ /\ sink' = [sink EXCEPT ![s].failed = TRUE] /\ stream' = Log!Turned
           /\ \E n \in 0..(Len(b) - 1) : file' = [file EXCEPT ![s] = @ \o SubSeq(b, 1, n)]
    BY <1>1, <1>3 DEF Log!FeedPrefix, Log!Written, Log!Fail
  <2>2. QED
    BY <2>1, <1>8, <1>9

\* The marker, whole or in part, ends what a sink is given.
LEMMA MarkerFed == LogInv /\ Log!FeedMarker => LogInv'
<1> SUFFICES ASSUME LogInv, Log!FeedMarker PROVE LogInv'
  OBVIOUS
<1>t. LogTyped /\ AtHand
  BY DEF LogInv
<1>0. /\ stream.pc = "mark" /\ stream.turn \in 1..2 /\ UNCHANGED <<printed, closed, drained>>
      /\ stream' = Log!Turned
  BY <1>t DEF AtHand, Feeding, Log!FeedMarker
<1>1. PICK s \in Outlets : s = Log!Sinks[stream.turn]
  <2>1. stream.turn = 1 \/ stream.turn = 2
    BY <1>0
  <2>2. QED
    BY <2>1 DEF Log!Sinks, Outlets
<1>2. PICK f, b : f = file[s] /\ b = [i \in 1..MarkerSize |-> 0]
  OBVIOUS
<1>3. b \in Seq(Nat) /\ Len(b) = MarkerSize /\ \A i \in 1..Len(b) : b[i] = 0
  BY <1>2, LogBounds
<1>4. f \in Seq(Nat) /\ sink[s] \in Log!Sink /\ drained \in Nat
  BY <1>2, <1>t DEF LogTyped
<1>5. /\ Len(f) = Log!PayloadLimit /\ drained > Log!PayloadLimit
      /\ \A i \in 1..Len(f) : f[i] = i
  BY <1>0, <1>1, <1>2 DEF LogInv, SinkInv, Keeps, Marking
<1>6. ASSUME file' = [file EXCEPT ![s] = @ \o b], sink' = [sink EXCEPT ![s].truncated = TRUE]
      PROVE  LogInv'
  <2>1. f \o b \in Seq(Nat) /\ Len(f \o b) = Cap /\ FirstBytes(f \o b)
    BY <1>3, <1>4, <1>5, LogBounds, MarkerFollows
  <2>2. file' \in [Outlets -> Seq(Nat)] /\ file'[s] = f \o b
    BY <2>1, <1>2, <1>6, <1>t DEF LogTyped
  <2>3. sink' \in [Outlets -> Log!Sink] /\ sink'[s].truncated
    BY <1>4, <1>6, <1>t DEF LogTyped, Log!Sink
  <2>4. \A o \in Outlets \ {s} : UNCHANGED <<file[o], sink[o]>>
    BY <1>6, <1>t DEF LogTyped
  <2>5. LogTyped' /\ AtHand' /\ (\A o \in Outlets \ {s} : SinkInv(o)') /\ ~Marking(s)'
    BY <2>2, <2>3, <2>4, <1>0, <1>1, TurnGoes
  <2>6. SinkInv(s)'
    BY <2>1, <2>2, <2>3, <2>5, <1>0, <1>5 DEF SinkInv, Keeps, Marked, Log!WritesNoMore
  <2>7. QED
    BY <2>5, <2>6 DEF LogInv
<1>7. ASSUME NEW n \in 0..(Len(b) - 1), file' = [file EXCEPT ![s] = @ \o SubSeq(b, 1, n)],
             sink' = [sink EXCEPT ![s].failed = TRUE]
      PROVE  LogInv'
  <2>1. PICK c : c = SubSeq(b, 1, n)
    OBVIOUS
  <2>2. c \in Seq(Nat) /\ Len(c) = n /\ \A i \in 1..Len(c) : c[i] = 0
    BY <2>1, <1>3, Beginning
  <2>3. f \o c \in Seq(Nat) /\ FirstBytes(f \o c)
    BY <2>2, <1>3, <1>4, <1>5, LogBounds, MarkerFollows
  <2>4. QED
    BY <2>1, <2>3, <1>0, <1>1, <1>2, <1>7, SinkFails
<1>8. QED
  <2>1. \/ sink' = [sink EXCEPT ![s].truncated = TRUE] /\ file' = [file EXCEPT ![s] = @ \o b]
        \/ /\ sink' = [sink EXCEPT ![s].failed = TRUE]
           /\ \E n \in 0..(Len(b) - 1) : file' = [file EXCEPT ![s] = @ \o SubSeq(b, 1, n)]
    BY <1>1, <1>2 DEF Log!FeedMarker, Log!Written, Log!Fail
  <2>2. QED
    BY <2>1, <1>6, <1>7

LEMMA LogSteps == LogInv /\ (Log!LogNext \/ UNCHANGED logVars) => LogInv'
BY OutsideSteps, LogOpens, PipeRead, TurnPasses, PrefixFed, MarkerFed
   DEF Log!LogNext, Log!StreamSteps

LEMMA OutputIsKept == LogInv => Log!OutputKept
<1> SUFFICES ASSUME LogInv, NEW s \in Outlets
             PROVE  /\ FirstBytes(file[s])
                    /\ stream.pc = "end" /\ sink[s].there /\ ~sink[s].failed =>
                          IF printed <= Log!PayloadLimit THEN Len(file[s]) = printed
                          ELSE Len(file[s]) = Cap
  BY DEF Log!OutputKept, FirstBytes, Outlets
<1>1. SinkInv(s) /\ LogTyped /\ AtHand
  BY DEF LogInv
<1>2. ASSUME stream.pc = "end", sink[s].there, ~sink[s].failed
      PROVE  IF printed <= Log!PayloadLimit THEN Len(file[s]) = printed ELSE Len(file[s]) = Cap
  <2>1. drained = printed /\ drained \in Nat /\ ~Feeding /\ ~Marking(s) /\ Given(s) = drained
    BY <1>1, <1>2 DEF AtHand, Feeding, Marking, Given, LogTyped
  <2>2. CASE sink[s].truncated
    BY <2>1, <2>2, <1>1, <1>2, LogBounds DEF SinkInv, Marked
  <2>3. CASE ~sink[s].truncated
    BY <2>1, <2>3, <1>1, <1>2, LogBounds DEF SinkInv, Keeps, Log!WritesNoMore
  <2>4. QED
    BY <2>2, <2>3
<1>3. QED
  BY <1>1, <1>2 DEF SinkInv

-------------------------------------------------------------------------------

(* The logs of the web helper *)

NoisyTyped ==
    /\ path \in [Noisy!Paths -> Noisy!States] /\ running \in BOOLEAN
    /\ opened \in [Noisy!Paths -> {"null", "unexpected", "file", "lost", "closed"}]
    /\ launcher \in [Launchers -> Noisy!Launcher]
    /\ cleared \in BOOLEAN /\ misled \in BOOLEAN

\* Behind a launcher that goes from path to path, the links stay, unless Steam removes one.
LinksStay(l) ==
    l.pc \in {"install", "boot"} /\ ~l.stale =>
       \A entry \in Noisy!Paths \ l.todo : path[entry] = "null"

\* A launcher that boots Steam has looked at every path.
AllVisited(l) == l.pc = "boot" => l.todo = {}

\* No Steam has made a log of its own behind the back of a launcher that was not misled.
OwnLogsTold(l) ==
    l.pc = "install" \/ (l.pc \in {"space", "inspect"} /\ ~l.told) =>
       \A entry \in Noisy!Paths : opened[entry] = "file" => misled

\* What Steam has open as a file is at its path.
Named == \A entry \in Noisy!Paths : opened[entry] = "file" => path[entry] = "file"

LauncherInv == \A p \in Launchers :
    LinksStay(launcher[p]) /\ AllVisited(launcher[p]) /\ OwnLogsTold(launcher[p])

NoisyInv ==
    /\ NoisyTyped /\ LauncherInv /\ Named
    /\ ~running => \A entry \in Noisy!Paths : opened[entry] = "closed"
    /\ Noisy!LogsSilent

LEMMA NoisyBegins == Noisy!NoisyInit => NoisyInv
<1> SUFFICES ASSUME Noisy!NoisyInit PROVE NoisyInv
  OBVIOUS
<1>1. \A p \in Launchers : launcher[p].pc = "idle"
  BY DEF Noisy!NoisyInit, Noisy!Rest
<1>2. launcher \in [Launchers -> Noisy!Launcher]
  BY DEF Noisy!NoisyInit, Noisy!Rest, Noisy!Launcher
<1>3. NoisyTyped
  BY <1>2 DEF NoisyTyped, Noisy!NoisyInit, Noisy!Opened, Noisy!States
<1>4. ~running => \A entry \in Noisy!Paths : opened[entry] = "closed"
  BY DEF Noisy!NoisyInit
<1>5. \A entry \in Noisy!Paths : opened[entry] # "lost"
  BY DEF Noisy!NoisyInit, Noisy!Opened
<1>6. cleared = running
  BY DEF Noisy!NoisyInit
<1>7. LauncherInv
  BY <1>1 DEF LauncherInv, LinksStay, AllVisited, OwnLogsTold
<1>8. Named
  <2> SUFFICES ASSUME NEW entry \in Noisy!Paths, opened[entry] = "file"
               PROVE  path[entry] = "file"
    BY DEF Named
  <2>1. running /\ path[entry] # "missing" /\ opened[entry] = Noisy!Opened(path[entry])
    BY DEF Noisy!NoisyInit
  <2>2. QED
    BY <2>1 DEF Noisy!NoisyInit, Noisy!Opened, Noisy!States
<1>9. QED
  BY <1>3, <1>4, <1>5, <1>6, <1>7, <1>8 DEF NoisyInv, Noisy!LogsSilent

\* What a launcher may become, whatever it does to the paths.
LEMMA LauncherKept ==
    ASSUME NEW l \in Noisy!Launcher
    PROVE  /\ \A told \in BOOLEAN :
                 [Noisy!Rest EXCEPT !.pc = "space", !.told = told] \in Noisy!Launcher
           /\ \A step \in {"inspect", "boot"} : [l EXCEPT !.pc = step] \in Noisy!Launcher
           /\ \A exit \in {"refused", "ready"} :
                 [Noisy!Rest EXCEPT !.exit = exit] \in Noisy!Launcher
           /\ \A rest \in SUBSET Noisy!Paths :
                 /\ [l EXCEPT !.pc = "install", !.todo = rest] \in Noisy!Launcher
                 /\ [l EXCEPT !.todo = rest] \in Noisy!Launcher
BY DEF Noisy!Launcher, Noisy!Rest

\* A launcher that ends has nothing left to keep.
LEMMA LauncherRests ==
    ASSUME NoisyTyped, NEW p \in Launchers, NEW exit \in {"refused", "ready"}, Noisy!End(p, exit)
    PROVE  /\ launcher' \in [Launchers -> Noisy!Launcher]
           /\ \A q \in Launchers \ {p} : launcher'[q] = launcher[q]
           /\ launcher'[p].pc = "idle"
<1>1. PICK r : r = [Noisy!Rest EXCEPT !.exit = exit] /\ launcher' = [launcher EXCEPT ![p] = r]
  BY DEF Noisy!End
<1>2. r \in Noisy!Launcher /\ r.pc = "idle"
  BY <1>1, LauncherKept DEF Noisy!Rest, NoisyTyped
<1>3. QED
  BY <1>1, <1>2 DEF NoisyTyped

\* A launcher goes on, with the paths as they are.
LEMMA LauncherGoes ==
    ASSUME NoisyInv, NEW p \in Launchers,
           Noisy!Ask(p) \/ Noisy!Space(p) \/ Noisy!Inspect(p) \/ Noisy!Ready(p)
    PROVE  /\ UNCHANGED <<path, opened, running, cleared, misled>>
           /\ launcher' \in [Launchers -> Noisy!Launcher] /\ LauncherInv'
<1>t. /\ NoisyTyped /\ launcher \in [Launchers -> Noisy!Launcher] /\ launcher[p] \in Noisy!Launcher
      /\ LauncherInv /\ launcher[p].told \in BOOLEAN
  BY DEF NoisyInv, NoisyTyped, Noisy!Launcher
<1>n. Named
  BY DEF NoisyInv
<1>u. UNCHANGED <<path, opened, running, cleared, misled>>
  BY DEF Noisy!Ask, Noisy!Space, Noisy!Inspect, Noisy!Ready, Noisy!steamVars
<1>r. ASSUME NEW r \in Noisy!Launcher, launcher' = [launcher EXCEPT ![p] = r],
             LinksStay(r), AllVisited(r), OwnLogsTold(r)
      PROVE  launcher' \in [Launchers -> Noisy!Launcher] /\ LauncherInv'
  <2>1. launcher' \in [Launchers -> Noisy!Launcher]
    BY <1>r, <1>t
  <2>2. \A q \in Launchers : launcher'[q] = IF q = p THEN r ELSE launcher[q]
    BY <1>r, <1>t
  <2>3. QED
    BY <2>1, <2>2, <1>r, <1>u, <1>t DEF LauncherInv, LinksStay, AllVisited, OwnLogsTold
<1>e. ASSUME NEW exit \in {"refused", "ready"}, Noisy!End(p, exit)
      PROVE  launcher' \in [Launchers -> Noisy!Launcher] /\ LauncherInv'
  BY <1>e, <1>u, <1>t, LauncherRests DEF LauncherInv, LinksStay, AllVisited, OwnLogsTold
<1>1. CASE Noisy!Ask(p)
  <2>1. PICK r : /\ r = [Noisy!Rest EXCEPT !.pc = "space", !.told = running]
                 /\ launcher' = [launcher EXCEPT ![p] = r]
    BY <1>1 DEF Noisy!Ask
  <2>2. r \in Noisy!Launcher /\ r.pc = "space" /\ r.told = running
    BY <2>1, <1>t, LauncherKept DEF Noisy!Rest, NoisyTyped
  <2>3. LinksStay(r) /\ AllVisited(r) /\ OwnLogsTold(r)
    BY <2>2 DEF LinksStay, AllVisited, OwnLogsTold, NoisyInv
  <2>4. QED
    BY <2>1, <2>2, <2>3, <1>r, <1>u
<1>2. CASE Noisy!Space(p)
  <2>1. CASE Noisy!End(p, "refused")
    BY <2>1, <1>e, <1>u
  <2>2. CASE Noisy!Go(p, "inspect")
    <3>1. PICK r : /\ r = [launcher[p] EXCEPT !.pc = "inspect"]
                   /\ launcher' = [launcher EXCEPT ![p] = r]
      BY <2>2, <1>t DEF Noisy!Go
    <3>2. r \in Noisy!Launcher /\ r.pc = "inspect" /\ r.told = launcher[p].told
      <4>1. r \in Noisy!Launcher
        BY <3>1, <1>t, LauncherKept
      <4>2. QED
        BY <4>1, <3>1, <1>t DEF Noisy!Launcher
    <3>3. LinksStay(r) /\ AllVisited(r) /\ OwnLogsTold(r)
      BY <3>2, <1>t, <1>2 DEF LinksStay, AllVisited, OwnLogsTold, LauncherInv, Noisy!Space
    <3>4. QED
      BY <3>1, <3>2, <3>3, <1>r, <1>u
  <2>3. QED
    BY <2>1, <2>2, <1>2 DEF Noisy!Space
<1>3. CASE Noisy!Inspect(p)
  <2>1. CASE Noisy!End(p, "refused")
    BY <2>1, <1>e, <1>u
  <2>2. CASE /\ ~(launcher[p].told /\ Noisy!Incorrect # {})
             /\ launcher' = [launcher EXCEPT ![p].pc = "install", ![p].todo = Noisy!Paths]
    <3>1. PICK r : /\ r = [launcher[p] EXCEPT !.pc = "install", !.todo = Noisy!Paths]
                   /\ launcher' = [launcher EXCEPT ![p] = r]
      BY <2>2, <1>t
    <3>2. launcher[p].told => \A entry \in Noisy!Paths : opened[entry] # "file"
      BY <2>2, <1>n DEF Noisy!Incorrect, Named
    <3>3. /\ r \in Noisy!Launcher /\ r.pc = "install" /\ r.told = launcher[p].told
          /\ r.todo = Noisy!Paths
      <4>1. r \in Noisy!Launcher
        BY <3>1, <1>t, LauncherKept
      <4>2. QED
        BY <4>1, <3>1, <1>t DEF Noisy!Launcher
    <3>4. LinksStay(r)
      BY <3>3 DEF LinksStay
    <3>5. AllVisited(r) /\ OwnLogsTold(r)
      BY <3>2, <3>3, <1>t, <1>3 DEF AllVisited, OwnLogsTold, LauncherInv, Noisy!Inspect
    <3>6. QED
      BY <3>1, <3>3, <3>4, <3>5, <1>r, <1>u
  <2>3. QED
    BY <2>1, <2>2, <1>3 DEF Noisy!Inspect
<1>4. CASE Noisy!Ready(p)
  <2>1. PICK r : /\ r = [launcher[p] EXCEPT !.pc = "boot"]
                 /\ launcher' = [launcher EXCEPT ![p] = r]
    BY <1>4, <1>t DEF Noisy!Ready, Noisy!Go
  <2>r. r \in Noisy!Launcher
    BY <2>1, <1>t, LauncherKept
  <2>2. /\ r.pc = "boot" /\ r.todo = launcher[p].todo
        /\ r.stale = launcher[p].stale /\ launcher[p].todo = {} /\ launcher[p].pc = "install"
    BY <2>1, <1>4, <1>t DEF Noisy!Launcher, Noisy!Ready
  <2>3. LinksStay(r) /\ AllVisited(r) /\ OwnLogsTold(r)
    BY <2>2, <1>t DEF LinksStay, AllVisited, OwnLogsTold, LauncherInv
  <2>4. QED
    BY <2>1, <2>r, <2>3, <1>r, <1>u
<1>5. QED
  BY <1>1, <1>2, <1>3, <1>4

\* A link takes the place of a log: of one that Steam has open only if a launcher was misled.
LEMMA LinkInstalled ==
    ASSUME NoisyInv, NEW p \in Launchers, Noisy!Install(p)
    PROVE  NoisyInv'
<1>t. /\ NoisyTyped /\ launcher \in [Launchers -> Noisy!Launcher] /\ launcher[p] \in Noisy!Launcher
      /\ LauncherInv /\ path \in [Noisy!Paths -> Noisy!States]
      /\ opened \in [Noisy!Paths -> {"null", "unexpected", "file", "lost", "closed"}]
  BY DEF NoisyInv, NoisyTyped
<1>u. UNCHANGED <<running, cleared, misled>> /\ launcher[p].pc = "install"
  BY DEF Noisy!Install
<1>1. PICK entry \in launcher[p].todo :
         IF path[entry] = "unexpected" THEN Noisy!End(p, "refused") /\ UNCHANGED <<path, opened>>
         ELSE /\ path' = [path EXCEPT ![entry] = "null"]
              /\ opened' = [opened EXCEPT ![entry] =
                               IF @ = "file" /\ path[entry] = "file" THEN "lost" ELSE @]
              /\ launcher' = [launcher EXCEPT ![p].todo = @ \ {entry}]
  BY DEF Noisy!Install
<1>2. CASE path[entry] = "unexpected"
  <2>1. LauncherInv' /\ launcher' \in [Launchers -> Noisy!Launcher]
    BY <1>1, <1>2, <1>t, <1>u, LauncherRests DEF LauncherInv, LinksStay, AllVisited, OwnLogsTold
  <2>2. QED
    BY <1>1, <1>2, <1>u, <2>1 DEF NoisyInv, NoisyTyped, Noisy!LogsSilent, Named
<1>3. CASE path[entry] # "unexpected"
  <2>1. PICK r : /\ r = [launcher[p] EXCEPT !.todo = launcher[p].todo \ {entry}]
                 /\ launcher' = [launcher EXCEPT ![p] = r]
    BY <1>1, <1>3, <1>t
  <2>2. launcher[p].todo \ {entry} \in SUBSET Noisy!Paths /\ entry \in Noisy!Paths
    BY <1>1, <1>t DEF Noisy!Launcher
  <2>3. /\ r \in Noisy!Launcher /\ r.pc = "install" /\ r.told = launcher[p].told
        /\ r.stale = launcher[p].stale /\ r.todo = launcher[p].todo \ {entry}
    <3>1. r \in Noisy!Launcher
      BY <2>1, <2>2, <1>t, LauncherKept
    <3>2. QED
      BY <3>1, <2>1, <1>u, <1>t DEF Noisy!Launcher
  <2>4. /\ launcher' \in [Launchers -> Noisy!Launcher]
        /\ \A q \in Launchers : launcher'[q] = IF q = p THEN r ELSE launcher[q]
    BY <2>1, <2>3, <1>t
  <2>5. /\ path' \in [Noisy!Paths -> Noisy!States] /\ path'[entry] = "null"
        /\ \A other \in Noisy!Paths \ {entry} : path'[other] = path[other]
    BY <1>1, <1>3, <1>t, <2>2 DEF Noisy!States
  <2>6. /\ opened' \in [Noisy!Paths -> {"null", "unexpected", "file", "lost", "closed"}]
        /\ \A other \in Noisy!Paths \ {entry} : opened'[other] = opened[other]
        /\ opened'[entry] = opened[entry] \/ (opened[entry] = "file" /\ opened'[entry] = "lost")
        /\ opened'[entry] # "file"
    BY <1>1, <1>3, <1>t, <2>2 DEF NoisyInv, Named
  <2>7. opened[entry] = "file" => misled
    BY <1>1, <1>t, <1>u, <2>2 DEF LauncherInv, OwnLogsTold
  <2>8. LauncherInv'
    <3> SUFFICES ASSUME NEW q \in Launchers
                 PROVE  /\ LinksStay(launcher[q])' /\ AllVisited(launcher[q])'
                        /\ OwnLogsTold(launcher[q])'
      BY DEF LauncherInv
    <3>1. LinksStay(launcher[q]) /\ AllVisited(launcher[q]) /\ OwnLogsTold(launcher[q])
      BY <1>t DEF LauncherInv
    <3>2. LinksStay(launcher[p]) /\ AllVisited(launcher[p]) /\ OwnLogsTold(launcher[p])
      BY <1>t DEF LauncherInv
    <3>3. LinksStay(launcher[q])'
      BY <3>1, <3>2, <2>3, <2>4, <2>5, <1>u DEF LinksStay
    <3>4. AllVisited(launcher[q])'
      BY <3>1, <3>2, <2>3, <2>4, <1>u, <1>1 DEF AllVisited
    <3>5. OwnLogsTold(launcher[q])'
      BY <3>1, <3>2, <2>3, <2>4, <2>6, <1>u DEF OwnLogsTold
    <3>6. QED
      BY <3>3, <3>4, <3>5
  <2>9. NoisyTyped'
    BY <2>4, <2>5, <2>6, <1>u, <1>t DEF NoisyTyped
  <2>10. Noisy!LogsSilent'
    BY <2>6, <2>7, <1>u, <2>2 DEF NoisyInv, Noisy!LogsSilent
  <2>11. ~running' => \A other \in Noisy!Paths : opened'[other] = "closed"
    BY <2>6, <1>u, <2>2 DEF NoisyInv
  <2>12. Named'
    BY <2>5, <2>6, <2>2 DEF NoisyInv, Named
  <2>13. QED
    BY <2>8, <2>9, <2>10, <2>11, <2>12 DEF NoisyInv
<1>4. QED
  BY <1>2, <1>3

\* Steam opens the links of the launcher that starts it, or those that it has removed before.
LEMMA SteamBoots ==
    ASSUME NoisyInv, NEW p \in Launchers, Noisy!Boot(p)
    PROVE  NoisyInv'
<1>t. /\ NoisyTyped /\ LauncherInv /\ path \in [Noisy!Paths -> Noisy!States]
  BY DEF NoisyInv, NoisyTyped
<1>e. /\ launcher' \in [Launchers -> Noisy!Launcher] /\ launcher'[p].pc = "idle"
      /\ \A q \in Launchers \ {p} : launcher'[q] = launcher[q]
  BY <1>t, LauncherRests DEF Noisy!Boot
<1>1. CASE running \/ boots = MaxStarts
  <2>1. UNCHANGED <<path, opened, running, cleared, misled>>
    BY <1>1 DEF Noisy!Boot, Noisy!steamVars
  <2>2. QED
    BY <2>1, <1>e, <1>t
       DEF NoisyInv, NoisyTyped, Noisy!LogsSilent, Named, LauncherInv, LinksStay, AllVisited,
           OwnLogsTold
<1>2. CASE ~running /\ boots # MaxStarts
  <2>1. /\ running' = TRUE /\ path' = [entry \in Noisy!Paths |-> Noisy!Opened(path[entry])]
        /\ opened' = [entry \in Noisy!Paths |-> Noisy!Opened(path[entry])]
        /\ cleared' = launcher[p].stale
        /\ misled' = (misled \/ (launcher[p].stale /\ \E q \in Launchers \ {p} : Noisy!Believes(q)))
        /\ launcher[p].pc = "boot"
    BY <1>2 DEF Noisy!Boot
  <2>2. \A entry \in Noisy!Paths :
           /\ path'[entry] \in Noisy!States
           /\ path[entry] = "null" => path'[entry] = "null"
           /\ opened'[entry] \in {"null", "unexpected", "file"}
           /\ path[entry] = "null" => opened'[entry] = "null"
           /\ opened'[entry] = "file" => path'[entry] = "file"
    BY <2>1, <1>t DEF Noisy!Opened, Noisy!States
  <2>3. ~launcher[p].stale => \A entry \in Noisy!Paths : path[entry] = "null"
    BY <2>1, <1>t DEF LauncherInv, LinksStay, AllVisited
  <2>4. launcher[p].stale \in BOOLEAN /\ misled' \in BOOLEAN
    BY <1>t, <2>1 DEF NoisyTyped, Noisy!Launcher
  <2>5. NoisyTyped'
    <3>1. /\ path' \in [Noisy!Paths -> Noisy!States]
          /\ opened' \in [Noisy!Paths -> {"null", "unexpected", "file", "lost", "closed"}]
      BY <2>1, <2>2
    <3>2. running' \in BOOLEAN /\ cleared' \in BOOLEAN /\ misled' \in BOOLEAN
      BY <2>1, <2>4
    <3>3. QED
      BY <3>1, <3>2, <1>e DEF NoisyTyped
  <2>6. \A q \in Launchers \ {p} : Noisy!Believes(q) /\ launcher[p].stale => misled'
    BY <2>1
  <2>7. LauncherInv'
    <3> SUFFICES ASSUME NEW q \in Launchers
                 PROVE  /\ LinksStay(launcher[q])' /\ AllVisited(launcher[q])'
                        /\ OwnLogsTold(launcher[q])'
      BY DEF LauncherInv
    <3>1. CASE q = p
      BY <3>1, <1>e DEF LinksStay, AllVisited, OwnLogsTold
    <3>2. CASE q # p
      <4>1. LinksStay(launcher[q]) /\ AllVisited(launcher[q]) /\ launcher'[q] = launcher[q]
        BY <3>2, <1>t, <1>e DEF LauncherInv
      <4>l. LinksStay(launcher[q])'
        BY <4>1, <2>2 DEF LinksStay
      <4>2. AllVisited(launcher[q])'
        BY <4>1 DEF AllVisited
      <4>3. OwnLogsTold(launcher[q])'
        BY <4>1, <2>2, <2>3, <2>4, <2>6, <3>2 DEF OwnLogsTold, Noisy!Believes
      <4>4. QED
        BY <4>l, <4>2, <4>3
    <3>3. QED
      BY <3>1, <3>2
  <2>8. Noisy!LogsSilent'
    BY <2>1, <2>2, <2>3, <2>4 DEF Noisy!LogsSilent
  <2>9. Named'
    BY <2>2 DEF Named
  <2>10. QED
    BY <2>1, <2>5, <2>7, <2>8, <2>9 DEF NoisyInv
<1>3. QED
  BY <1>1, <1>2

\* Steam makes a log of its own: a launcher that takes it for not running is misled from then on.
LEMMA CacheCleared ==
    ASSUME NoisyInv, Noisy!ClearCache
    PROVE  NoisyInv'
<1>t. /\ NoisyTyped /\ LauncherInv /\ path \in [Noisy!Paths -> Noisy!States]
      /\ launcher \in [Launchers -> Noisy!Launcher] /\ misled \in BOOLEAN
      /\ opened \in [Noisy!Paths -> {"null", "unexpected", "file", "lost", "closed"}]
  BY DEF NoisyInv, NoisyTyped
<1>1. /\ running /\ running' = running /\ cleared' = TRUE
      /\ path' = [path EXCEPT !["chrome_debug.log"] = "file"]
      /\ opened' = [opened EXCEPT !["chrome_debug.log"] = "file"]
      /\ misled' = (misled \/ \E p \in Launchers : Noisy!Believes(p))
      /\ launcher' = [p \in Launchers |-> [launcher[p] EXCEPT !.stale = launcher[p].pc # "idle"]]
  BY DEF Noisy!ClearCache
<1>2. ASSUME NEW q \in Launchers
      PROVE  /\ launcher'[q] \in Noisy!Launcher /\ launcher'[q].pc = launcher[q].pc
             /\ launcher'[q].told = launcher[q].told /\ launcher'[q].todo = launcher[q].todo
             /\ launcher[q].pc # "idle" => launcher'[q].stale
  <2>1. PICK stale \in BOOLEAN : /\ stale = (launcher[q].pc # "idle")
                                /\ launcher'[q] = [launcher[q] EXCEPT !.stale = stale]
    BY <1>1
  <2>2. launcher'[q] \in Noisy!Launcher
    BY <2>1, <1>t DEF Noisy!Launcher
  <2>3. QED
    BY <2>1, <2>2, <1>t DEF Noisy!Launcher
<1>3. launcher' \in [Launchers -> Noisy!Launcher]
  BY <1>1, <1>2
<1>4. /\ path' \in [Noisy!Paths -> Noisy!States]
      /\ opened' \in [Noisy!Paths -> {"null", "unexpected", "file", "lost", "closed"}]
      /\ \A entry \in Noisy!Paths : opened'[entry] = "lost" => opened[entry] = "lost"
  BY <1>1, <1>t DEF Noisy!States
<1>5. /\ misled' \in BOOLEAN /\ (misled => misled')
      /\ \A q \in Launchers : Noisy!Believes(q) => misled'
  BY <1>1, <1>t
<1>6. LauncherInv'
  <2> SUFFICES ASSUME NEW q \in Launchers
               PROVE  /\ LinksStay(launcher[q])' /\ AllVisited(launcher[q])'
                      /\ OwnLogsTold(launcher[q])'
    BY DEF LauncherInv
  <2>1. LinksStay(launcher[q])'
    BY <1>2 DEF LinksStay
  <2>2. AllVisited(launcher[q])'
    BY <1>2, <1>t DEF AllVisited, LauncherInv
  <2>3. OwnLogsTold(launcher[q])'
    BY <1>2, <1>5 DEF OwnLogsTold, Noisy!Believes
  <2>4. QED
    BY <2>1, <2>2, <2>3
<1>7. NoisyTyped'
  BY <1>1, <1>3, <1>4, <1>5, <1>t DEF NoisyTyped
<1>8. Noisy!LogsSilent'
  BY <1>1, <1>4, <1>5 DEF Noisy!LogsSilent, NoisyInv
<1>9. Named'
  BY <1>1, <1>t DEF Named, NoisyInv
<1>10. QED
  BY <1>1, <1>6, <1>7, <1>8, <1>9 DEF NoisyInv

LEMMA NoisySteps == NoisyInv /\ [Noisy!NoisyNext]_noisyVars => NoisyInv'
<1> SUFFICES ASSUME NoisyInv, [Noisy!NoisyNext]_noisyVars PROVE NoisyInv'
  OBVIOUS
<1>1. ASSUME NEW p \in Launchers,
             Noisy!Ask(p) \/ Noisy!Space(p) \/ Noisy!Inspect(p) \/ Noisy!Ready(p)
      PROVE  NoisyInv'
  <2>1. /\ UNCHANGED <<path, opened, running, cleared, misled>>
        /\ launcher' \in [Launchers -> Noisy!Launcher] /\ LauncherInv'
    BY <1>1, LauncherGoes
  <2>2. QED
    BY <2>1 DEF NoisyInv, NoisyTyped, Noisy!LogsSilent, Named
<1>2. CASE Noisy!EndSteam
  BY <1>2 DEF Noisy!EndSteam, NoisyInv, NoisyTyped, Noisy!LogsSilent, LauncherInv, LinksStay,
              AllVisited, OwnLogsTold, Named
<1>3. CASE UNCHANGED noisyVars
  BY <1>3 DEF noisyVars, NoisyInv, NoisyTyped, Noisy!LogsSilent, LauncherInv, LinksStay,
              AllVisited, OwnLogsTold, Named
<1>4. QED
  BY <1>1, <1>2, <1>3, LinkInstalled, SteamBoots, CacheCleared DEF Noisy!NoisyNext

-------------------------------------------------------------------------------
(* All of them, one of which a behaviour is about *)

HelpersInv ==
    /\ part = "fex" => FexInv
    /\ part = "raider" => RaiderInv
    /\ part = "tree" => TreeInv
    /\ part = "tool" => ToolInv
    /\ part = "timer" => TimerInv
    /\ part = "log" => LogInv
    /\ part = "noisy" => NoisyInv

\* HelpersInv is inductive: what a helper does touches nothing of the others.
LEMMA HelpersHold == HelpersSpec => []HelpersInv
<1>1. HelpersInit => HelpersInv
  BY FexBegins, RaiderBegins, TreeBegins, ToolBegins, TimerBegins, LogBegins, NoisyBegins
     DEF HelpersInit, HelpersInv
<1>2. HelpersInv /\ [HelpersNext]_helpersVars => HelpersInv'
  <2> SUFFICES ASSUME HelpersInv, [HelpersNext]_helpersVars PROVE HelpersInv'
    OBVIOUS
  <2>1. CASE BesideFex /\ Fex!Next
    <3>1. part = "fex" /\ part' = "fex"
      BY <2>1 DEF BesideFex
    <3>2. QED
      BY <2>1, <3>1, FexSteps DEF HelpersInv
  <2>2. CASE BesideRaider /\ Raider!Next
    <3>1. part = "raider" /\ part' = "raider"
      BY <2>2 DEF BesideRaider
    <3>2. QED
      BY <2>2, <3>1, RaiderSteps DEF HelpersInv
  <2>3. CASE BesideTree /\ Tree!TreeNext
    <3>1. part = "tree" /\ part' = "tree"
      BY <2>3 DEF BesideTree
    <3>2. QED
      BY <2>3, <3>1, TreeSteps DEF HelpersInv
  <2>4. CASE BesideTool /\ Mask!ToolNext
    <3>1. part = "tool" /\ part' = "tool"
      BY <2>4 DEF BesideTool
    <3>2. QED
      BY <2>4, <3>1, ToolSteps DEF HelpersInv
  <2>5. CASE BesideTimer /\ Time!TimerNext
    <3>1. part = "timer" /\ part' = "timer"
      BY <2>5 DEF BesideTimer
    <3>2. QED
      BY <2>5, <3>1, TimerSteps DEF HelpersInv
  <2>6. CASE BesideLog /\ Log!LogNext
    <3>1. part = "log" /\ part' = "log"
      BY <2>6 DEF BesideLog
    <3>2. QED
      BY <2>6, <3>1, LogSteps DEF HelpersInv
  <2>7. CASE BesideNoisy /\ Noisy!NoisyNext
    <3>1. part = "noisy" /\ part' = "noisy"
      BY <2>7 DEF BesideNoisy
    <3>2. QED
      BY <2>7, <3>1, NoisySteps DEF HelpersInv
  <2>8. CASE UNCHANGED helpersVars
    <3>1. /\ part' = part /\ UNCHANGED fexVars /\ UNCHANGED raiderVars /\ UNCHANGED treeVars
          /\ UNCHANGED toolVars /\ UNCHANGED timerVars /\ UNCHANGED logVars
          /\ UNCHANGED noisyVars
      BY <2>8 DEF helpersVars
    <3>2. QED
      BY <3>1, FexSteps, RaiderSteps, TreeSteps, ToolSteps, TimerSteps, LogSteps, NoisySteps
         DEF HelpersInv
  <2>9. QED
    BY <2>1, <2>2, <2>3, <2>4, <2>5, <2>6, <2>7, <2>8 DEF HelpersNext
<1>3. QED
  BY <1>1, <1>2, PTL DEF HelpersSpec

\* Generations, their histories and the caches agree about the maps, however often the gate or
\* its compiler is killed, and whatever a game records meanwhile (FexCache!CachesTell).
THEOREM CachesAreTold == HelpersSpec => []CachesTell
<1>1. HelpersInv => CachesTell
  BY DEF HelpersInv, FexInv, CachesTell
<1>2. QED
  BY HelpersHold, <1>1, PTL

\* Threads that an affinity tool says are in place are, for any number of threads
\* (MaskTool!ToolTells).
THEOREM ToolIsRight == HelpersSpec => []ToolTells
<1>1. HelpersInv => ToolTells
  BY DEF HelpersInv, ToolInv, ToolTells
<1>2. QED
  BY HelpersHold, <1>1, PTL

\* The timer reports each stage for the attempt it was seen in, a sink of the session's log
\* holds what was printed first, up to its cap, and the noisy logs of Steam stay silent and whole
\* (LaunchTimer!TimerTells, SessionLog!OutputKept, NoisyLogs!LogsSilent).
THEOREM LogsAreRight == HelpersSpec => []LogsTell
<1>1. HelpersInv => LogsTell
  BY TimerIsRight, OutputIsKept DEF HelpersInv, NoisyInv, LogsTell
<1>2. QED
  BY HelpersHold, <1>1, PTL

\* The guards keep their hands off a game that probes, report only what they have set up and
\* found in every poll of an interval, and end only when the tree is gone (GuardsTell).
THEOREM GuardsAreRight == HelpersSpec => GuardsTell
<1>1. HelpersInv => (part = "raider" => Raider!FirstProbeUndisturbed)
  BY DEF HelpersInv, RaiderInv, GuardWaits, Raider!FirstProbeUndisturbed
<1>2. HelpersInv /\ [HelpersNext]_helpersVars => (part = "raider" => Raider!ReadyStep)
  <2> SUFFICES ASSUME HelpersInv, [HelpersNext]_helpersVars, part = "raider"
               PROVE  Raider!ReadyStep
    OBVIOUS
  <2>1. RaiderInv
    BY DEF HelpersInv
  <2>2. [Raider!Next]_raiderVars
    BY DEF HelpersNext, helpersVars, BesideFex, BesideRaider, BesideTree, BesideTool, BesideTimer,
           BesideLog, BesideNoisy
  <2>3. QED
    BY <2>1, <2>2, RaiderActs
<1>3. HelpersInv /\ [HelpersNext]_helpersVars => (part = "tree" => Tree!TellsRight)
  <2> SUFFICES ASSUME HelpersInv, [HelpersNext]_helpersVars, part = "tree"
               PROVE  Tree!TellsRight
    OBVIOUS
  <2>1. TreeInv
    BY DEF HelpersInv
  <2>2. [Tree!TreeNext]_treeVars
    BY DEF HelpersNext, helpersVars, BesideFex, BesideRaider, BesideTree, BesideTool, BesideTimer,
           BesideLog, BesideNoisy
  <2>3. QED
    BY <2>1, <2>2, TreeGuardSteps
<1>4. QED
  BY HelpersHold, <1>1, <1>2, <1>3, PTL DEF HelpersSpec, GuardsTell

-------------------------------------------------------------------------------
(* The helpers of a measured pass *)

\* What the helper has before it has found its targets, and at each step after.
StepInv ==
    /\ pc \in {"find", "await", "take"} =>
           taken = {} /\ held = {} /\ inherited = {} /\ active = {} /\ todo = {}
    /\ pc = "act" => todo \cup taken # {}
    /\ pc \in {"mark", "verify"} => taken # {}
    /\ pc = "hold" => active # {}

\* The service helper has set its flag once it is past it.
ServiceInv ==
    /\ pc = "mark" => mode = "service"
    /\ mode = "service" => (pc = "act" => todo # {}) /\ (pc \in {"verify", "hold"} => isolated)

\* What the CEF and the service helper have still to visit is on record, and the same.
TodoInv ==
    pc = "act" /\ mode # "x11" => todo \subseteq taken /\ \A t \in todo : t \in live => Same(t)

\* A number on record is that of a target that lives or has lived.
TicksInv == \A t \in taken : ticks[t] <= born[t]

\* The isolation mask is on record as a target's own only for one that was born with it.
AsHeldInv == \A t \in asHeld : Same(t) => t \in inherited

HeldInv ==
    \A t \in held \ inherited :
        /\ Same(t) /\ t \notin asHeld
        /\ pc = "undo" => t \in todo \/ status = "bad"
        /\ pc = "ended" => status = "bad"

\* The targets of the line "active", or before it those on record, were not born isolated.
ActiveInv ==
    /\ active \subseteq taken
    /\ \A t \in active : Same(t) => t \notin inherited
    /\ active = {} => \A t \in taken : Same(t) => t \notin inherited
    /\ active = {} /\ pc = "act" => \A t \in todo : t \notin inherited

\* What an accepted pass was accepted for does not change any more.
AcceptedInv ==
    /\ exited => game = "gone"
    /\ control = "accepted" =>
           pc = "ended" /\ status = "ok" /\ exited /\ active # {} /\ active \subseteq undone

HoldInv ==
    /\ TypeOK /\ StepInv /\ ServiceInv /\ TodoInv /\ TicksInv
    /\ AsHeldInv /\ HeldInv /\ ActiveInv /\ AcceptedInv

USE GameHoldAssumption
  DEF proc, note, log, outside, helper, Same, Trying, Goto

-------------------------------------------------------------------------------
(* The kinds of steps: those of the controller and the game leave the helper and its   *)
(* targets alone, and every exception of the try and of the finally does the same.     *)

Quiet == UNCHANGED <<mode, proc, helper>>

Raised == pc \in Trying /\ Unwind /\ UNCHANGED <<mode, proc>>

Broken == pc = "undo" /\ Break /\ UNCHANGED <<mode, proc>>

TargetStep(t) ==
    Act(t) \/ Undo(t) \/ Skip(t) \/ Vanishes(t) \/ Dies(t) \/ Born(t) \/ Escapes(t)

Kinds ==
    \/ Raised \/ Broken \/ Quiet
    \/ Find \/ GameSeen \/ Take \/ Mark \/ Visited \/ Verify \/ Again \/ GameOver \/ Exit
    \/ \E t \in Targets : TargetStep(t)

LEMMA StepKinds == TypeOK /\ [Next]_vars => Kinds
<1> SUFFICES ASSUME TypeOK, [Next]_vars PROVE Kinds
  OBVIOUS
<1>1. ASSUME StopRequested, UNCHANGED <<mode, proc>> PROVE Raised \/ Broken \/ Quiet
  BY <1>1 DEF StopRequested, Raised, Broken, Quiet
<1>2. CASE HolderStep
  <2>1. ASSUME NEW t \in Targets, Visit(t) PROVE Kinds
    BY <2>1 DEF Visit, ActLost, Raise, Raised, Kinds, TargetStep
  <2>2. CASE NothingToTake \/ VerifyFails \/ GiveUp \/ TimedOut
    BY <2>2 DEF NothingToTake, VerifyFails, GiveUp, TimedOut, Waiting, Raise, Raised, Kinds
  <2>3. QED
    BY <1>2, <2>1, <2>2 DEF HolderStep, Kinds
<1>3. CASE Trouble
  BY <1>3 DEF Trouble, Raised, Kinds
<1>4. CASE Signal \/ Terminate
  BY <1>1, <1>4 DEF Signal, Terminate, Kinds
<1>5. CASE LaunchEnds \/ Reap \/ Abandon \/ GameStarts \/ GameEnds \/ UNCHANGED vars
  BY <1>5 DEF LaunchEnds, Reap, Abandon, GameStarts, GameEnds, vars, Quiet, Kinds
<1>6. ASSUME NEW t \in Targets, Vanishes(t) \/ Dies(t) \/ Born(t) \/ Escapes(t) PROVE Kinds
  BY <1>6 DEF Kinds, TargetStep
<1>7. QED
  BY <1>2, <1>3, <1>4, <1>5, <1>6 DEF Next

\* What each step of the helper has stays so: a failing helper goes to its finally.
LEMMA StepInvStep == HoldInv /\ [Next]_vars => StepInv'
<1> SUFFICES ASSUME HoldInv, Kinds PROVE StepInv'
  BY StepKinds DEF HoldInv
<1>0. StepInv /\ TodoInv /\ TypeOK
  BY DEF HoldInv
<1>1. CASE Raised
  BY <1>0, <1>1 DEF StepInv, TodoInv, TypeOK, Raised, Unwind, ToUndo
<1>2. CASE Broken
  BY <1>0, <1>2 DEF StepInv, TodoInv, TypeOK, Broken, Break
<1>3. CASE Quiet
  BY <1>0, <1>3 DEF StepInv, TodoInv, TypeOK, Quiet
<1>4. CASE Find
  BY <1>0, <1>4 DEF StepInv, TodoInv, TypeOK, Find
<1>5. CASE GameSeen
  BY <1>0, <1>5 DEF StepInv, TodoInv, TypeOK, GameSeen
<1>6. CASE Take
  BY <1>0, <1>6 DEF StepInv, TodoInv, TypeOK, Take, CanTake
<1>7. CASE Mark
  BY <1>0, <1>7 DEF StepInv, TodoInv, TypeOK, Mark
<1>8. CASE Visited
  BY <1>0, <1>8 DEF StepInv, TodoInv, TypeOK, Visited, SayActive
<1>9. CASE Verify
  BY <1>0, <1>9 DEF StepInv, TodoInv, TypeOK, Verify, AllHeld, SayActive
<1>10. CASE Again
  BY <1>0, <1>10 DEF StepInv, TodoInv, TypeOK, Again
<1>11. CASE GameOver
  BY <1>0, <1>11 DEF StepInv, TodoInv, TypeOK, GameOver, ToUndo
<1>12. CASE Exit
  BY <1>0, <1>12 DEF StepInv, TodoInv, TypeOK, Exit, Undone
<1>13. ASSUME NEW t \in Targets, TargetStep(t) PROVE StepInv'
  <2>1. CASE Act(t)
    BY <1>0, <2>1 DEF StepInv, TodoInv, TypeOK, Act, Lost
  <2>2. CASE Undo(t)
    BY <1>0, <2>2 DEF StepInv, TodoInv, TypeOK, Undo
  <2>3. CASE Skip(t)
    BY <1>0, <2>3 DEF StepInv, TodoInv, TypeOK, Skip
  <2>4. CASE Vanishes(t)
    BY <1>0, <2>4 DEF StepInv, TodoInv, TypeOK, Vanishes, Break
  <2>5. CASE Dies(t)
    BY <1>0, <2>5 DEF StepInv, TodoInv, TypeOK, Dies, Change
  <2>6. CASE Born(t)
    BY <1>0, <2>6 DEF StepInv, TodoInv, TypeOK, Born, Change
  <2>7. CASE Escapes(t)
    BY <1>0, <2>7 DEF StepInv, TodoInv, TypeOK, Escapes, Change
  <2>8. QED
    BY <1>13, <2>1, <2>2, <2>3, <2>4, <2>5, <2>6, <2>7 DEF TargetStep
<1>14. QED
  BY <1>1, <1>2, <1>3, <1>4, <1>5, <1>6, <1>7, <1>8, <1>9, <1>10, <1>11, <1>12, <1>13 DEF Kinds

\* The service helper is past its flag when it holds.
LEMMA ServiceInvStep == HoldInv /\ [Next]_vars => ServiceInv'
<1> SUFFICES ASSUME HoldInv, Kinds PROVE ServiceInv'
  BY StepKinds DEF HoldInv
<1>0. ServiceInv /\ StepInv /\ TypeOK
  BY DEF HoldInv
<1>1. CASE Raised
  BY <1>0, <1>1 DEF ServiceInv, StepInv, TypeOK, Raised, Unwind, ToUndo
<1>2. CASE Broken
  BY <1>0, <1>2 DEF ServiceInv, StepInv, TypeOK, Broken, Break
<1>3. CASE Quiet
  BY <1>0, <1>3 DEF ServiceInv, StepInv, TypeOK, Quiet
<1>4. CASE Find
  BY <1>0, <1>4 DEF ServiceInv, StepInv, TypeOK, Find
<1>5. CASE GameSeen
  BY <1>0, <1>5 DEF ServiceInv, StepInv, TypeOK, GameSeen
<1>6. CASE Take
  BY <1>0, <1>6 DEF ServiceInv, StepInv, TypeOK, Take, CanTake
<1>7. CASE Mark
  BY <1>0, <1>7 DEF ServiceInv, StepInv, TypeOK, Mark
<1>8. CASE Visited
  BY <1>0, <1>8 DEF ServiceInv, StepInv, TypeOK, Visited, SayActive
<1>9. CASE Verify
  BY <1>0, <1>9 DEF ServiceInv, StepInv, TypeOK, Verify, AllHeld, SayActive
<1>10. CASE Again
  BY <1>0, <1>10 DEF ServiceInv, StepInv, TypeOK, Again
<1>11. CASE GameOver
  BY <1>0, <1>11 DEF ServiceInv, StepInv, TypeOK, GameOver, ToUndo
<1>12. CASE Exit
  BY <1>0, <1>12 DEF ServiceInv, StepInv, TypeOK, Exit, Undone
<1>13. ASSUME NEW t \in Targets, TargetStep(t) PROVE ServiceInv'
  <2>1. CASE Act(t)
    BY <1>0, <2>1 DEF ServiceInv, StepInv, TypeOK, Act, Lost
  <2>2. CASE Undo(t)
    BY <1>0, <2>2 DEF ServiceInv, StepInv, TypeOK, Undo
  <2>3. CASE Skip(t)
    BY <1>0, <2>3 DEF ServiceInv, StepInv, TypeOK, Skip
  <2>4. CASE Vanishes(t)
    BY <1>0, <2>4 DEF ServiceInv, StepInv, TypeOK, Vanishes, Break
  <2>5. CASE Dies(t)
    BY <1>0, <2>5 DEF ServiceInv, StepInv, TypeOK, Dies, Change
  <2>6. CASE Born(t)
    BY <1>0, <2>6 DEF ServiceInv, StepInv, TypeOK, Born, Change
  <2>7. CASE Escapes(t)
    BY <1>0, <2>7 DEF ServiceInv, StepInv, TypeOK, Escapes, Change
  <2>8. QED
    BY <1>13, <2>1, <2>2, <2>3, <2>4, <2>5, <2>6, <2>7 DEF TargetStep
<1>14. QED
  BY <1>1, <1>2, <1>3, <1>4, <1>5, <1>6, <1>7, <1>8, <1>9, <1>10, <1>11, <1>12, <1>13 DEF Kinds

\* Between taking the targets and visiting the last of them no number is given again.
LEMMA TodoInvStep == HoldInv /\ [Next]_vars => TodoInv'
<1> SUFFICES ASSUME HoldInv, Kinds PROVE TodoInv'
  BY StepKinds DEF HoldInv
<1>0. TodoInv /\ TypeOK /\ StepInv
  BY DEF HoldInv
<1>1. CASE Raised
  BY <1>0, <1>1 DEF TodoInv, TypeOK, StepInv, Raised, Unwind, ToUndo
<1>2. CASE Broken
  BY <1>0, <1>2 DEF TodoInv, TypeOK, StepInv, Broken, Break
<1>3. CASE Quiet
  BY <1>0, <1>3 DEF TodoInv, TypeOK, StepInv, Quiet
<1>4. CASE Find
  BY <1>0, <1>4 DEF TodoInv, TypeOK, StepInv, Find
<1>5. CASE GameSeen
  BY <1>0, <1>5 DEF TodoInv, TypeOK, StepInv, GameSeen
<1>6. CASE Take
  BY <1>0, <1>6 DEF TodoInv, TypeOK, StepInv, Take, CanTake
<1>7. CASE Mark
  BY <1>0, <1>7 DEF TodoInv, TypeOK, StepInv, Mark
<1>8. CASE Visited
  BY <1>0, <1>8 DEF TodoInv, TypeOK, StepInv, Visited, SayActive
<1>9. CASE Verify
  BY <1>0, <1>9 DEF TodoInv, TypeOK, StepInv, Verify, AllHeld, SayActive
<1>10. CASE Again
  BY <1>0, <1>10 DEF TodoInv, TypeOK, StepInv, Again
<1>11. CASE GameOver
  BY <1>0, <1>11 DEF TodoInv, TypeOK, StepInv, GameOver, ToUndo
<1>12. CASE Exit
  BY <1>0, <1>12 DEF TodoInv, TypeOK, StepInv, Exit, Undone
<1>13. ASSUME NEW t \in Targets, TargetStep(t) PROVE TodoInv'
  <2>1. CASE Act(t)
    BY <1>0, <2>1 DEF TodoInv, TypeOK, StepInv, Act, Lost
  <2>2. CASE Undo(t)
    BY <1>0, <2>2 DEF TodoInv, TypeOK, StepInv, Undo
  <2>3. CASE Skip(t)
    BY <1>0, <2>3 DEF TodoInv, TypeOK, StepInv, Skip
  <2>4. CASE Vanishes(t)
    BY <1>0, <2>4 DEF TodoInv, TypeOK, StepInv, Vanishes, Break
  <2>5. CASE Dies(t)
    BY <1>0, <2>5 DEF TodoInv, TypeOK, StepInv, Dies, Change
  <2>6. CASE Born(t)
    BY <1>0, <2>6 DEF TodoInv, TypeOK, StepInv, Born, Change
  <2>7. CASE Escapes(t)
    BY <1>0, <2>7 DEF TodoInv, TypeOK, StepInv, Escapes, Change
  <2>8. QED
    BY <1>13, <2>1, <2>2, <2>3, <2>4, <2>5, <2>6, <2>7 DEF TargetStep
<1>14. QED
  BY <1>1, <1>2, <1>3, <1>4, <1>5, <1>6, <1>7, <1>8, <1>9, <1>10, <1>11, <1>12, <1>13 DEF Kinds

\* A number is recorded as it is, and every later use of it has a later birth.
LEMMA TicksInvStep == HoldInv /\ [Next]_vars => TicksInv'
<1> SUFFICES ASSUME HoldInv, Kinds PROVE TicksInv'
  BY StepKinds DEF HoldInv
<1>0. TicksInv /\ TypeOK
  BY DEF HoldInv
<1>1. CASE Raised
  BY <1>0, <1>1 DEF TicksInv, TypeOK, Raised, Unwind, ToUndo
<1>2. CASE Broken
  BY <1>0, <1>2 DEF TicksInv, TypeOK, Broken, Break
<1>3. CASE Quiet
  BY <1>0, <1>3 DEF TicksInv, TypeOK, Quiet
<1>4. CASE Find
  BY <1>0, <1>4 DEF TicksInv, TypeOK, Find
<1>5. CASE GameSeen
  BY <1>0, <1>5 DEF TicksInv, TypeOK, GameSeen
<1>6. CASE Take
  BY <1>0, <1>6 DEF TicksInv, TypeOK, Take, CanTake
<1>7. CASE Mark
  BY <1>0, <1>7 DEF TicksInv, TypeOK, Mark
<1>8. CASE Visited
  BY <1>0, <1>8 DEF TicksInv, TypeOK, Visited, SayActive
<1>9. CASE Verify
  BY <1>0, <1>9 DEF TicksInv, TypeOK, Verify, AllHeld, SayActive
<1>10. CASE Again
  BY <1>0, <1>10 DEF TicksInv, TypeOK, Again
<1>11. CASE GameOver
  BY <1>0, <1>11 DEF TicksInv, TypeOK, GameOver, ToUndo
<1>12. CASE Exit
  BY <1>0, <1>12 DEF TicksInv, TypeOK, Exit, Undone
<1>13. ASSUME NEW t \in Targets, TargetStep(t) PROVE TicksInv'
  <2>1. CASE Act(t)
    BY <1>0, <2>1 DEF TicksInv, TypeOK, Act, Lost
  <2>2. CASE Undo(t)
    BY <1>0, <2>2 DEF TicksInv, TypeOK, Undo
  <2>3. CASE Skip(t)
    BY <1>0, <2>3 DEF TicksInv, TypeOK, Skip
  <2>4. CASE Vanishes(t)
    BY <1>0, <2>4 DEF TicksInv, TypeOK, Vanishes, Break
  <2>5. CASE Dies(t)
    BY <1>0, <2>5 DEF TicksInv, TypeOK, Dies, Change
  <2>6. CASE Born(t)
    BY <1>0, <2>6 DEF TicksInv, TypeOK, Born, Change
  <2>7. CASE Escapes(t)
    BY <1>0, <2>7 DEF TicksInv, TypeOK, Escapes, Change
  <2>8. QED
    BY <1>13, <2>1, <2>2, <2>3, <2>4, <2>5, <2>6, <2>7 DEF TargetStep
<1>14. QED
  BY <1>1, <1>2, <1>3, <1>4, <1>5, <1>6, <1>7, <1>8, <1>9, <1>10, <1>11, <1>12, <1>13 DEF Kinds

\* A target is recorded as held only if it was held when it was first visited, and then it was born so.
LEMMA AsHeldInvStep == HoldInv /\ [Next]_vars => AsHeldInv'
<1> SUFFICES ASSUME HoldInv, Kinds PROVE AsHeldInv'
  BY StepKinds DEF HoldInv
<1>0. AsHeldInv /\ TypeOK /\ TicksInv /\ HeldInv /\ StepInv
  BY DEF HoldInv
<1>1. CASE Raised
  BY <1>0, <1>1 DEF AsHeldInv, TypeOK, TicksInv, HeldInv, StepInv, Raised, Unwind, ToUndo
<1>2. CASE Broken
  BY <1>0, <1>2 DEF AsHeldInv, TypeOK, TicksInv, HeldInv, StepInv, Broken, Break
<1>3. CASE Quiet
  BY <1>0, <1>3 DEF AsHeldInv, TypeOK, TicksInv, HeldInv, StepInv, Quiet
<1>4. CASE Find
  BY <1>0, <1>4 DEF AsHeldInv, TypeOK, TicksInv, HeldInv, StepInv, Find
<1>5. CASE GameSeen
  BY <1>0, <1>5 DEF AsHeldInv, TypeOK, TicksInv, HeldInv, StepInv, GameSeen
<1>6. CASE Take
  BY <1>0, <1>6 DEF AsHeldInv, TypeOK, TicksInv, HeldInv, StepInv, Take, CanTake
<1>7. CASE Mark
  BY <1>0, <1>7 DEF AsHeldInv, TypeOK, TicksInv, HeldInv, StepInv, Mark
<1>8. CASE Visited
  BY <1>0, <1>8 DEF AsHeldInv, TypeOK, TicksInv, HeldInv, StepInv, Visited, SayActive
<1>9. CASE Verify
  BY <1>0, <1>9 DEF AsHeldInv, TypeOK, TicksInv, HeldInv, StepInv, Verify, AllHeld, SayActive
<1>10. CASE Again
  BY <1>0, <1>10 DEF AsHeldInv, TypeOK, TicksInv, HeldInv, StepInv, Again
<1>11. CASE GameOver
  BY <1>0, <1>11 DEF AsHeldInv, TypeOK, TicksInv, HeldInv, StepInv, GameOver, ToUndo
<1>12. CASE Exit
  BY <1>0, <1>12 DEF AsHeldInv, TypeOK, TicksInv, HeldInv, StepInv, Exit, Undone
<1>13. ASSUME NEW t \in Targets, TargetStep(t) PROVE AsHeldInv'
  <2>1. CASE Act(t)
    BY <1>0, <2>1 DEF AsHeldInv, TypeOK, TicksInv, HeldInv, StepInv, Act, Lost
  <2>2. CASE Undo(t)
    BY <1>0, <2>2 DEF AsHeldInv, TypeOK, TicksInv, HeldInv, StepInv, Undo
  <2>3. CASE Skip(t)
    BY <1>0, <2>3 DEF AsHeldInv, TypeOK, TicksInv, HeldInv, StepInv, Skip
  <2>4. CASE Vanishes(t)
    BY <1>0, <2>4 DEF AsHeldInv, TypeOK, TicksInv, HeldInv, StepInv, Vanishes, Break
  <2>5. CASE Dies(t)
    BY <1>0, <2>5 DEF AsHeldInv, TypeOK, TicksInv, HeldInv, StepInv, Dies, Change
  <2>6. CASE Born(t)
    BY <1>0, <2>6 DEF AsHeldInv, TypeOK, TicksInv, HeldInv, StepInv, Born, Change
  <2>7. CASE Escapes(t)
    BY <1>0, <2>7 DEF AsHeldInv, TypeOK, TicksInv, HeldInv, StepInv, Escapes, Change
  <2>8. QED
    BY <1>13, <2>1, <2>2, <2>3, <2>4, <2>5, <2>6, <2>7 DEF TargetStep
<1>14. QED
  BY <1>1, <1>2, <1>3, <1>4, <1>5, <1>6, <1>7, <1>8, <1>9, <1>10, <1>11, <1>12, <1>13 DEF Kinds

\* The helper holds what is on record, and an exception makes the exit status a failure.
LEMMA HeldInvStep == HoldInv /\ [Next]_vars => HeldInv'
<1> SUFFICES ASSUME HoldInv, Kinds PROVE HeldInv'
  BY StepKinds DEF HoldInv
<1>0. HeldInv /\ AsHeldInv /\ TypeOK /\ StepInv /\ TodoInv /\ ServiceInv /\ TicksInv
  BY DEF HoldInv
<1>1. CASE Raised
  BY <1>0, <1>1 DEF HeldInv, AsHeldInv, TypeOK, StepInv, TodoInv, ServiceInv, TicksInv,
     Raised, Unwind, ToUndo
<1>2. CASE Broken
  BY <1>0, <1>2 DEF HeldInv, AsHeldInv, TypeOK, StepInv, TodoInv, ServiceInv, TicksInv,
     Broken, Break
<1>3. CASE Quiet
  BY <1>0, <1>3 DEF HeldInv, AsHeldInv, TypeOK, StepInv, TodoInv, ServiceInv, TicksInv, Quiet
<1>4. CASE Find
  BY <1>0, <1>4 DEF HeldInv, AsHeldInv, TypeOK, StepInv, TodoInv, ServiceInv, TicksInv, Find
<1>5. CASE GameSeen
  BY <1>0, <1>5 DEF HeldInv, AsHeldInv, TypeOK, StepInv, TodoInv, ServiceInv, TicksInv, GameSeen
<1>6. CASE Take
  BY <1>0, <1>6 DEF HeldInv, AsHeldInv, TypeOK, StepInv, TodoInv, ServiceInv, TicksInv,
     Take, CanTake
<1>7. CASE Mark
  BY <1>0, <1>7 DEF HeldInv, AsHeldInv, TypeOK, StepInv, TodoInv, ServiceInv, TicksInv, Mark
<1>8. CASE Visited
  BY <1>0, <1>8 DEF HeldInv, AsHeldInv, TypeOK, StepInv, TodoInv, ServiceInv, TicksInv,
     Visited, SayActive
<1>9. CASE Verify
  BY <1>0, <1>9 DEF HeldInv, AsHeldInv, TypeOK, StepInv, TodoInv, ServiceInv, TicksInv,
     Verify, AllHeld, SayActive
<1>10. CASE Again
  BY <1>0, <1>10 DEF HeldInv, AsHeldInv, TypeOK, StepInv, TodoInv, ServiceInv, TicksInv, Again
<1>11. CASE GameOver
  BY <1>0, <1>11 DEF HeldInv, AsHeldInv, TypeOK, StepInv, TodoInv, ServiceInv, TicksInv,
     GameOver, ToUndo
<1>12. CASE Exit
  BY <1>0, <1>12 DEF HeldInv, AsHeldInv, TypeOK, StepInv, TodoInv, ServiceInv, TicksInv,
     Exit, Undone
<1>13. ASSUME NEW t \in Targets, TargetStep(t) PROVE HeldInv'
  <2>1. CASE Act(t)
    BY <1>0, <2>1 DEF HeldInv, AsHeldInv, TypeOK, StepInv, TodoInv, ServiceInv, TicksInv,
       Act, Lost
  <2>2. CASE Undo(t)
    BY <1>0, <2>2 DEF HeldInv, AsHeldInv, TypeOK, StepInv, TodoInv, ServiceInv, TicksInv, Undo
  <2>3. CASE Skip(t)
    BY <1>0, <2>3 DEF HeldInv, AsHeldInv, TypeOK, StepInv, TodoInv, ServiceInv, TicksInv, Skip
  <2>4. CASE Vanishes(t)
    BY <1>0, <2>4 DEF HeldInv, AsHeldInv, TypeOK, StepInv, TodoInv, ServiceInv, TicksInv,
       Vanishes, Break
  <2>5. CASE Dies(t)
    BY <1>0, <2>5 DEF HeldInv, AsHeldInv, TypeOK, StepInv, TodoInv, ServiceInv, TicksInv,
       Dies, Change
  <2>6. CASE Born(t)
    BY <1>0, <2>6 DEF HeldInv, AsHeldInv, TypeOK, StepInv, TodoInv, ServiceInv, TicksInv,
       Born, Change
  <2>7. CASE Escapes(t)
    BY <1>0, <2>7 DEF HeldInv, AsHeldInv, TypeOK, StepInv, TodoInv, ServiceInv, TicksInv,
       Escapes, Change
  <2>8. QED
    BY <1>13, <2>1, <2>2, <2>3, <2>4, <2>5, <2>6, <2>7 DEF TargetStep
<1>14. QED
  BY <1>1, <1>2, <1>3, <1>4, <1>5, <1>6, <1>7, <1>8, <1>9, <1>10, <1>11, <1>12, <1>13 DEF Kinds

\* Nothing is held before the first visit, so the first pass finds nothing born isolated.
LEMMA ActiveInvStep == HoldInv /\ [Next]_vars => ActiveInv'
<1> SUFFICES ASSUME HoldInv, Kinds PROVE ActiveInv'
  BY StepKinds DEF HoldInv
<1>0. ActiveInv /\ TypeOK /\ StepInv /\ TicksInv /\ TodoInv
  BY DEF HoldInv
<1>1. CASE Raised
  BY <1>0, <1>1 DEF ActiveInv, TypeOK, StepInv, TicksInv, TodoInv, Raised, Unwind, ToUndo
<1>2. CASE Broken
  BY <1>0, <1>2 DEF ActiveInv, TypeOK, StepInv, TicksInv, TodoInv, Broken, Break
<1>3. CASE Quiet
  BY <1>0, <1>3 DEF ActiveInv, TypeOK, StepInv, TicksInv, TodoInv, Quiet
<1>4. CASE Find
  BY <1>0, <1>4 DEF ActiveInv, TypeOK, StepInv, TicksInv, TodoInv, Find
<1>5. CASE GameSeen
  BY <1>0, <1>5 DEF ActiveInv, TypeOK, StepInv, TicksInv, TodoInv, GameSeen
<1>6. CASE Take
  BY <1>0, <1>6 DEF ActiveInv, TypeOK, StepInv, TicksInv, TodoInv, Take, CanTake
<1>7. CASE Mark
  BY <1>0, <1>7 DEF ActiveInv, TypeOK, StepInv, TicksInv, TodoInv, Mark
<1>8. CASE Visited
  BY <1>0, <1>8 DEF ActiveInv, TypeOK, StepInv, TicksInv, TodoInv, Visited, SayActive
<1>9. CASE Verify
  BY <1>0, <1>9 DEF ActiveInv, TypeOK, StepInv, TicksInv, TodoInv, Verify, AllHeld, SayActive
<1>10. CASE Again
  BY <1>0, <1>10 DEF ActiveInv, TypeOK, StepInv, TicksInv, TodoInv, Again
<1>11. CASE GameOver
  BY <1>0, <1>11 DEF ActiveInv, TypeOK, StepInv, TicksInv, TodoInv, GameOver, ToUndo
<1>12. CASE Exit
  BY <1>0, <1>12 DEF ActiveInv, TypeOK, StepInv, TicksInv, TodoInv, Exit, Undone
<1>13. ASSUME NEW t \in Targets, TargetStep(t) PROVE ActiveInv'
  <2>1. CASE Act(t)
    <3>1. active' = active /\ inherited' = inherited /\ live' = live /\ born' = born
      BY <2>1 DEF Act
    <3>2. \A u \in taken' : Same(u)' => Same(u) \/ u = t
      BY <1>0, <2>1, <3>1 DEF Act, TypeOK
    <3>3. \A u \in active : Same(u)' /\ u # t => u \notin inherited
      BY <1>0, <2>1, <3>2 DEF ActiveInv
    <3>4. t \in active /\ Same(t)' => t \notin inherited
      BY <1>0, <2>1, <3>1 DEF Act, Lost, ActiveInv, TodoInv
    <3>5. active = {} => t \notin inherited
      BY <1>0, <2>1 DEF Act, ActiveInv
    <3>6. active = {} => todo' \subseteq todo /\ \A u \in todo : u \notin inherited
      BY <1>0, <2>1 DEF Act, ActiveInv
    <3>7. taken \subseteq taken'
      BY <2>1 DEF Act
    <3>8. active' \subseteq taken' /\ \A u \in active' : Same(u)' => u \notin inherited'
      BY <1>0, <3>1, <3>3, <3>4, <3>7 DEF ActiveInv
    <3>9. active' = {} => \A u \in taken' : Same(u)' => u \notin inherited'
      BY <1>0, <3>1, <3>2, <3>5 DEF ActiveInv
    <3>10. QED
      BY <3>1, <3>6, <3>8, <3>9 DEF ActiveInv
  <2>2. CASE Undo(t)
    BY <1>0, <2>2 DEF ActiveInv, TypeOK, StepInv, TicksInv, TodoInv, Undo
  <2>3. CASE Skip(t)
    BY <1>0, <2>3 DEF ActiveInv, TypeOK, StepInv, TicksInv, TodoInv, Skip
  <2>4. CASE Vanishes(t)
    BY <1>0, <2>4 DEF ActiveInv, TypeOK, StepInv, TicksInv, TodoInv, Vanishes, Break
  <2>5. CASE Dies(t)
    BY <1>0, <2>5 DEF ActiveInv, TypeOK, StepInv, TicksInv, TodoInv, Dies, Change
  <2>6. CASE Born(t)
    BY <1>0, <2>6 DEF ActiveInv, TypeOK, StepInv, TicksInv, TodoInv, Born, Change
  <2>7. CASE Escapes(t)
    BY <1>0, <2>7 DEF ActiveInv, TypeOK, StepInv, TicksInv, TodoInv, Escapes, Change
  <2>8. QED
    BY <1>13, <2>1, <2>2, <2>3, <2>4, <2>5, <2>6, <2>7 DEF TargetStep
<1>14. QED
  BY <1>1, <1>2, <1>3, <1>4, <1>5, <1>6, <1>7, <1>8, <1>9, <1>10, <1>11, <1>12, <1>13 DEF Kinds

\* Every step keeps the types.
LEMMA TypeOKStep == HoldInv /\ [Next]_vars => TypeOK'
<1> SUFFICES ASSUME HoldInv, [Next]_vars PROVE TypeOK'
  OBVIOUS
<1>0. TypeOK /\ StepInv /\ ServiceInv
  BY DEF HoldInv
<1>1. CASE Find
  BY <1>0, <1>1 DEF TypeOK, StepInv, ServiceInv, Find
<1>2. CASE GameSeen
  BY <1>0, <1>2 DEF TypeOK, StepInv, ServiceInv, GameSeen
<1>3. CASE Take
  BY <1>0, <1>3 DEF TypeOK, StepInv, ServiceInv, Take, CanTake
<1>4. CASE NothingToTake
  BY <1>0, <1>4 DEF TypeOK, StepInv, ServiceInv, NothingToTake, Raise, Unwind, ToUndo
<1>5. CASE Mark
  BY <1>0, <1>5 DEF TypeOK, StepInv, ServiceInv, Mark
<1>6. CASE Visited
  BY <1>0, <1>6 DEF TypeOK, StepInv, ServiceInv, Visited, SayActive
<1>7. CASE Verify
  BY <1>0, <1>7 DEF TypeOK, StepInv, ServiceInv, Verify, SayActive
<1>8. CASE VerifyFails
  BY <1>0, <1>8 DEF TypeOK, StepInv, ServiceInv, VerifyFails, Raise, Unwind, ToUndo
<1>9. CASE GiveUp
  BY <1>0, <1>9 DEF TypeOK, StepInv, ServiceInv, GiveUp, Raise, Unwind, ToUndo
<1>10. CASE Again
  BY <1>0, <1>10 DEF TypeOK, StepInv, ServiceInv, Again
<1>11. CASE GameOver
  BY <1>0, <1>11 DEF TypeOK, StepInv, ServiceInv, GameOver, ToUndo
<1>12. CASE TimedOut
  BY <1>0, <1>12 DEF TypeOK, StepInv, ServiceInv, TimedOut, Raise, Unwind, ToUndo, Waiting
<1>13. CASE Exit
  BY <1>0, <1>13 DEF TypeOK, StepInv, ServiceInv, Exit
<1>14. CASE Trouble
  BY <1>0, <1>14 DEF TypeOK, StepInv, ServiceInv, Trouble, Unwind, ToUndo
<1>15. CASE Signal
  BY <1>0, <1>15 DEF TypeOK, StepInv, ServiceInv, Signal, StopRequested, Unwind, Break, ToUndo
<1>16. CASE LaunchEnds
  BY <1>0, <1>16 DEF TypeOK, StepInv, ServiceInv, LaunchEnds
<1>17. CASE Reap
  BY <1>0, <1>17 DEF TypeOK, StepInv, ServiceInv, Reap, Accepts, LogParses
<1>18. CASE Terminate
  BY <1>0, <1>18 DEF TypeOK, StepInv, ServiceInv, Terminate, StopRequested, Unwind, Break,
     ToUndo
<1>19. CASE Abandon
  BY <1>0, <1>19 DEF TypeOK, StepInv, ServiceInv, Abandon
<1>20. CASE GameStarts
  BY <1>0, <1>20 DEF TypeOK, StepInv, ServiceInv, GameStarts
<1>21. CASE GameEnds
  BY <1>0, <1>21 DEF TypeOK, StepInv, ServiceInv, GameEnds
<1>22. ASSUME NEW t \in Targets, ActLost(t) PROVE TypeOK'
  BY <1>0, <1>22 DEF TypeOK, StepInv, ServiceInv, ActLost, Raise, Unwind, ToUndo
<1>23. ASSUME NEW t \in Targets, Act(t) PROVE TypeOK'
  <2>1. pc' \in Trying /\ todo' \subseteq Targets /\ held' \subseteq live
    BY <1>0, <1>23 DEF TypeOK, Act, Lost
  <2>2. /\ taken' \subseteq Targets /\ taken \subseteq taken' /\ asHeld' \subseteq taken'
        /\ ticks' \in [Targets -> Nat]
    BY <1>0, <1>23 DEF TypeOK, Act
  <2>3. /\ live' = live /\ inherited' = inherited /\ born' = born
        /\ status' = status /\ isolated' = isolated
        /\ UNCHANGED <<outside, log, changes>>
    BY <1>23 DEF Act
  <2>4. QED
    BY <1>0, <2>1, <2>2, <2>3 DEF TypeOK
<1>24. ASSUME NEW t \in Targets, Undo(t) PROVE TypeOK'
  BY <1>0, <1>24 DEF TypeOK, StepInv, ServiceInv, Undo
<1>25. ASSUME NEW t \in Targets, Skip(t) PROVE TypeOK'
  BY <1>0, <1>25 DEF TypeOK, StepInv, ServiceInv, Skip
<1>26. ASSUME NEW t \in Targets, Vanishes(t) PROVE TypeOK'
  BY <1>0, <1>26 DEF TypeOK, StepInv, ServiceInv, Vanishes, Break
<1>27. ASSUME NEW t \in Targets, Dies(t) PROVE TypeOK'
  BY <1>0, <1>27 DEF TypeOK, StepInv, ServiceInv, Dies, Change
<1>28. ASSUME NEW t \in Targets, Born(t) PROVE TypeOK'
  BY <1>0, <1>28 DEF TypeOK, StepInv, ServiceInv, Born, Change
<1>29. ASSUME NEW t \in Targets, Escapes(t) PROVE TypeOK'
  BY <1>0, <1>29 DEF TypeOK, StepInv, ServiceInv, Escapes, Change
<1>30. CASE UNCHANGED vars
  BY <1>0, <1>30 DEF TypeOK, StepInv, ServiceInv, vars
<1>31. QED
  BY <1>1, <1>2, <1>3, <1>4, <1>5, <1>6, <1>7, <1>8, <1>9, <1>10, <1>11, <1>12, <1>13,
     <1>14, <1>15, <1>16, <1>17, <1>18, <1>19, <1>20, <1>21, <1>22, <1>23, <1>24, <1>25,
     <1>26, <1>27, <1>28, <1>29, <1>30 DEF Next, HolderStep, Visit

\* An accepted pass has an ended helper, whose log and status nobody changes any more.
LEMMA AcceptedInvStep == HoldInv /\ [Next]_vars => AcceptedInv'
<1> SUFFICES ASSUME HoldInv, [Next]_vars PROVE AcceptedInv'
  OBVIOUS
<1>0. AcceptedInv /\ TypeOK
  BY DEF HoldInv
<1>1. CASE Find
  BY <1>0, <1>1 DEF AcceptedInv, TypeOK, Find
<1>2. CASE GameSeen
  BY <1>0, <1>2 DEF AcceptedInv, TypeOK, GameSeen
<1>3. CASE Take
  BY <1>0, <1>3 DEF AcceptedInv, TypeOK, Take, CanTake
<1>4. CASE NothingToTake
  BY <1>0, <1>4 DEF AcceptedInv, TypeOK, NothingToTake, Raise, Unwind, ToUndo
<1>5. CASE Mark
  BY <1>0, <1>5 DEF AcceptedInv, TypeOK, Mark
<1>6. CASE Visited
  BY <1>0, <1>6 DEF AcceptedInv, TypeOK, Visited, SayActive
<1>7. CASE Verify
  BY <1>0, <1>7 DEF AcceptedInv, TypeOK, Verify, SayActive
<1>8. CASE VerifyFails
  BY <1>0, <1>8 DEF AcceptedInv, TypeOK, VerifyFails, Raise, Unwind, ToUndo
<1>9. CASE GiveUp
  BY <1>0, <1>9 DEF AcceptedInv, TypeOK, GiveUp, Raise, Unwind, ToUndo
<1>10. CASE Again
  BY <1>0, <1>10 DEF AcceptedInv, TypeOK, Again
<1>11. CASE GameOver
  BY <1>0, <1>11 DEF AcceptedInv, TypeOK, GameOver, ToUndo
<1>12. CASE TimedOut
  BY <1>0, <1>12 DEF AcceptedInv, TypeOK, TimedOut, Raise, Unwind, ToUndo, Waiting
<1>13. CASE Exit
  BY <1>0, <1>13 DEF AcceptedInv, TypeOK, Exit
<1>14. CASE Trouble
  BY <1>0, <1>14 DEF AcceptedInv, TypeOK, Trouble, Unwind, ToUndo
<1>15. CASE Signal
  BY <1>0, <1>15 DEF AcceptedInv, TypeOK, Signal, StopRequested, Unwind, Break, ToUndo
<1>16. CASE LaunchEnds
  BY <1>0, <1>16 DEF AcceptedInv, TypeOK, LaunchEnds
<1>17. CASE Reap
  BY <1>0, <1>17 DEF AcceptedInv, TypeOK, Reap, Accepts, LogParses
<1>18. CASE Terminate
  BY <1>0, <1>18 DEF AcceptedInv, TypeOK, Terminate, StopRequested, Unwind, Break, ToUndo
<1>19. CASE Abandon
  BY <1>0, <1>19 DEF AcceptedInv, TypeOK, Abandon
<1>20. CASE GameStarts
  BY <1>0, <1>20 DEF AcceptedInv, TypeOK, GameStarts
<1>21. CASE GameEnds
  BY <1>0, <1>21 DEF AcceptedInv, TypeOK, GameEnds
<1>22. ASSUME NEW t \in Targets, ActLost(t) PROVE AcceptedInv'
  BY <1>0, <1>22 DEF AcceptedInv, TypeOK, ActLost, Raise, Unwind, ToUndo
<1>23. ASSUME NEW t \in Targets, Act(t) PROVE AcceptedInv'
  BY <1>0, <1>23 DEF AcceptedInv, TypeOK, Act
<1>24. ASSUME NEW t \in Targets, Undo(t) PROVE AcceptedInv'
  BY <1>0, <1>24 DEF AcceptedInv, TypeOK, Undo
<1>25. ASSUME NEW t \in Targets, Skip(t) PROVE AcceptedInv'
  BY <1>0, <1>25 DEF AcceptedInv, TypeOK, Skip
<1>26. ASSUME NEW t \in Targets, Vanishes(t) PROVE AcceptedInv'
  BY <1>0, <1>26 DEF AcceptedInv, TypeOK, Vanishes, Break
<1>27. ASSUME NEW t \in Targets, Dies(t) PROVE AcceptedInv'
  BY <1>0, <1>27 DEF AcceptedInv, TypeOK, Dies, Change
<1>28. ASSUME NEW t \in Targets, Born(t) PROVE AcceptedInv'
  BY <1>0, <1>28 DEF AcceptedInv, TypeOK, Born, Change
<1>29. ASSUME NEW t \in Targets, Escapes(t) PROVE AcceptedInv'
  BY <1>0, <1>29 DEF AcceptedInv, TypeOK, Escapes, Change
<1>30. CASE UNCHANGED vars
  BY <1>0, <1>30 DEF AcceptedInv, TypeOK, vars
<1>31. QED
  BY <1>1, <1>2, <1>3, <1>4, <1>5, <1>6, <1>7, <1>8, <1>9, <1>10, <1>11, <1>12, <1>13,
     <1>14, <1>15, <1>16, <1>17, <1>18, <1>19, <1>20, <1>21, <1>22, <1>23, <1>24, <1>25,
     <1>26, <1>27, <1>28, <1>29, <1>30 DEF Next, HolderStep, Visit

\* HoldInv is inductive.
LEMMA HoldInvariant == Spec => []HoldInv
<1>1. Init => HoldInv
  <2> SUFFICES ASSUME Init PROVE HoldInv
    OBVIOUS
  <2>1. TypeOK
    <3>1. 0 \in 0..MaxSignals /\ 0 \in 0..MaxChanges
      OBVIOUS
    <3>2. born \in [Targets -> Nat] /\ ticks \in [Targets -> Nat]
      BY DEF Init
    <3>3. QED
      BY <3>1, <3>2 DEF Init, TypeOK
  <2>2. StepInv /\ ServiceInv /\ TodoInv /\ TicksInv
    BY DEF Init, StepInv, ServiceInv, TodoInv, TicksInv
  <2>3. AsHeldInv /\ HeldInv /\ ActiveInv /\ AcceptedInv
    BY DEF Init, AsHeldInv, HeldInv, ActiveInv, AcceptedInv
  <2>4. QED
    BY <2>1, <2>2, <2>3 DEF HoldInv
<1>2. HoldInv /\ [Next]_vars => HoldInv'
  BY TypeOKStep, StepInvStep, ServiceInvStep, TodoInvStep, TicksInvStep, AsHeldInvStep,
     HeldInvStep, ActiveInvStep, AcceptedInvStep DEF HoldInv
<1>3. QED
  BY <1>1, <1>2, PTL DEF Spec

-------------------------------------------------------------------------------

\* The variables of a pass keep their types, whichever helper it has.
THEOREM HoldTypeCorrect == Spec => []TypeOK
<1>1. HoldInv => TypeOK
  BY DEF HoldInv
<1>2. QED
  BY HoldInvariant, <1>1, PTL

\* A helper that exits with 0 has left nothing stopped and nothing pinned, but for threads
\* that were born so.
THEOREM SuccessHoldsNothing == Spec => []OkLeavesNothingHeld
<1>1. HoldInv => OkLeavesNothingHeld
  BY DEF HoldInv, HeldInv, OkLeavesNothingHeld
<1>2. QED
  BY HoldInvariant, <1>1, PTL

\* The controller accepts only passes that were held to the end of the game, and undone.
THEOREM AcceptedWasHeld == Spec => []AcceptedPassWasHeld
<1>1. HoldInv => AcceptedPassWasHeld
  BY DEF HoldInv, HeldInv, ActiveInv, AcceptedInv, AcceptedPassWasHeld
<1>2. QED
  BY HoldInvariant, <1>1, PTL

\* A helper's exit status and the controller's acceptance tell what became of the targets
\* (HoldTells).
THEOREM HoldTellsTrue == Spec => []HoldTells
<1>1. OkLeavesNothingHeld /\ AcceptedPassWasHeld => HoldTells
  BY DEF HoldTells
<1>2. QED
  BY <1>1, SuccessHoldsNothing, AcceptedWasHeld, PTL
==============================================================================
