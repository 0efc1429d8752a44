------------------------------- MODULE FexCache -------------------------------
(***************************************************************************)
(* The offline code cache of Tomb Raider: the maps of executed code a game *)
(* records, the tool that copies them into a candidate directory, counts   *)
(* its generations and accepts what was compiled                           *)
(* (scripts/prepare-tombraider-fex-offline-cache.py), the gate that runs   *)
(* the tool around a compilation                                           *)
(* (scripts/start-tombraider-fex-offline-compile.sh), and the dispatcher,  *)
(* which lets the compiler or a game at the candidate                      *)
(* (scripts/pressure-vessel-direct-dispatch.py).                           *)
(*                                                                         *)
(* There is no lock: a game may run, and record, at any step of the gate.  *)
(* Steam runs the compiler and the game as the same app, so only one of    *)
(* them runs.  The compiler itself is external.                            *)
(*                                                                         *)
(* The operators called ...Bug each hold the definition after them with    *)
(* one mistake, for mutation runs.                                         *)
(***************************************************************************)
EXTENDS Naturals, Sequences, FiniteSets, SequencesExt

CONSTANTS
    Maps,           \* the code maps there can be
    MaxMaps,        \* at most so many are compiled at once (128)
    MaxHistory,     \* at most so many refreshes are accepted (64)
    MaxFaults       \* bound: processes killed

VARIABLES
    recorded,       \* the maps of games that recorded for the first compilation
    root,           \* the candidate directory
    prepared,       \* the maps prepare.json names
    new, ready,     \* codemap/new and codemap/ready, the maps aggregated there
    caches,         \* what cache/ was compiled from
    refresh,        \* refresh.json
    results,        \* every result.json there was, the present one last
    gate,           \* the gate's process
    app,            \* what Steam runs
    faults

candidate == <<root, prepared, new, ready, caches, refresh, results>>
vars == <<recorded, candidate, gate, app, faults>>

------------------------------------------------------------------------------
(* Data *)

FexCacheAssumption ==
    /\ IsFiniteSet(Maps)
    /\ MaxMaps \in Nat \ {0} /\ MaxHistory \in Nat \ {0} /\ MaxFaults \in Nat

\* whole: every header is that of a complete cache.
Caches == [maps : SUBSET Maps, whole : BOOLEAN]

\* An entry of refresh_history.
Entries == [generation : 2..(MaxHistory + 1), maps : SUBSET Maps]

Results == [generation : 1..(MaxHistory + 1), ready : SUBSET Maps, caches : Caches, history : Seq(Entries)]

\* previous: the result whose digest the manifest holds, in a sequence for "none yet".
Manifests == [generation : 0..(MaxHistory + 2), previous : Seq(Results), maps : SUBSET Maps]

\* status: that of the launcher; todo: the maps prepare has not yet copied.
Gate == [pc : {"idle", "copy", "launch", "asked", "compile", "verify"}, todo : SUBSET Maps,
         status : {"none", "ok", "bad"}]

Idle == [pc |-> "idle", todo |-> {}, status |-> "none"]

Present == SubSeq(results, Len(results), Len(results))

Init ==
    /\ recorded = {}
    /\ root = "absent" /\ prepared = {}
    /\ new = {} /\ ready = {} /\ caches = [maps |-> {}, whole |-> TRUE]
    /\ refresh = [generation |-> 0, previous |-> <<>>, maps |-> {}]
    /\ results = <<>>
    /\ gate = Idle
    /\ app = "none"
    /\ faults = 0

EndGate == gate' = Idle

------------------------------------------------------------------------------
(* The gate: prepare, the first time *)

Compilable(maps) == maps # {} /\ Cardinality(maps) <= MaxMaps

MayReuse ==
    /\ root = "made" /\ results = <<>> /\ refresh.generation = 0
    /\ ready = {} /\ caches.maps = {}
    /\ new = recorded /\ prepared = recorded

\* The tool lists the maps and makes the candidate, with no prepare.json in it yet.
Prepare ==
    /\ gate.pc = "idle" /\ results = <<>>
    /\ Compilable(recorded)
    /\ \/ root = "absent"
          /\ root' = "partial"
          /\ gate' = [gate EXCEPT !.pc = "copy", !.todo = recorded]
       \/ MayReuse
          /\ gate' = [gate EXCEPT !.pc = "launch"]
          /\ UNCHANGED root
    /\ UNCHANGED <<recorded, prepared, new, ready, caches, refresh, results, app, faults>>

CopyMap ==
    /\ gate.pc = "copy"
    /\ \E map \in gate.todo :
        /\ new' = new \cup {map}
        /\ gate' = [gate EXCEPT !.todo = @ \ {map}]
    /\ UNCHANGED <<recorded, root, prepared, ready, caches, refresh, results, app, faults>>

\* The manifest names the maps of the listing.
WritePrepare ==
    /\ gate.pc = "copy" /\ gate.todo = {}
    /\ root' = "made" /\ prepared' = new
    /\ gate' = [gate EXCEPT !.pc = "launch"]
    /\ UNCHANGED <<recorded, new, ready, caches, refresh, results, app, faults>>

(* refresh, from then on *)

Refresh ==
    /\ gate.pc = "idle" /\ results # <<>>
    /\ ready # {} /\ caches.maps # {}
    /\ Compilable(new)
    /\ refresh' = [generation |-> Last(results).generation + 1, previous |-> Present,
                   maps |-> new]
    /\ gate' = [gate EXCEPT !.pc = "launch"]
    /\ UNCHANGED <<recorded, root, prepared, new, ready, caches, results, app, faults>>

------------------------------------------------------------------------------
(* The compilation *)

\* The manifest is about the present result and the maps that are there.
RefreshMatches ==
    /\ refresh.previous = Present
    /\ refresh.generation = Last(results).generation + 1
    /\ refresh.maps = new

\* What a run of the compiler may find (validated_fex_offline_root, before_compile).
MayCompile ==
    /\ Compilable(new)
    /\ IF ready # {} \/ caches.maps # {}
       THEN /\ ready # {} /\ caches.maps # {} /\ caches.whole
            /\ results # <<>>
            /\ RefreshMatches
       ELSE results = <<>>

\* The launcher starts a server, and asks Steam.
Launch ==
    /\ gate.pc = "launch"
    /\ gate' = [gate EXCEPT !.pc = "asked"]
    /\ UNCHANGED <<recorded, candidate, app, faults>>

\* Steam's request reaches the server, which accepts without a timeout.  Steam starts nothing
\* while a game or another compiler runs.
Serve ==
    /\ gate.pc = "asked" /\ app = "none"
    /\ IF MayCompile
       THEN app' = "compile" /\ gate' = [gate EXCEPT !.pc = "compile"]
       ELSE EndGate /\ UNCHANGED app
    /\ UNCHANGED <<recorded, candidate, faults>>

\* Steam has not acknowledged in time: the launcher ends its server, wherever that one is, and
\* fails; a compiler that runs goes on without them.
Decline ==
    /\ gate.pc \in {"asked", "compile"}
    /\ EndGate
    /\ UNCHANGED <<recorded, candidate, app, faults>>

Aggregate ==
    /\ app = "compile"
    /\ \E map \in new :
        /\ new' = new \ {map}
        /\ ready' = ready \cup {map}
    /\ UNCHANGED <<recorded, root, prepared, caches, refresh, results, gate, app, faults>>

\* The gate waits for its own compiler: one it does not wait for is of a gate that has ended.
CompilerEnds(status) ==
    /\ app' = "none"
    /\ gate' = IF gate.pc = "compile" THEN [gate EXCEPT !.status = status] ELSE gate

Generate ==
    /\ app = "compile" /\ new = {}
    /\ caches' = [maps |-> ready, whole |-> TRUE]
    /\ CompilerEnds("ok")
    /\ UNCHANGED <<recorded, root, prepared, new, ready, refresh, results, faults>>

\* Any step of the compiler may be its last; a cache it was writing may be torn.
CompileFails ==
    /\ app = "compile" /\ faults < MaxFaults
    /\ \/ UNCHANGED caches
       \/ new = {} /\ caches' = [maps |-> ready, whole |-> FALSE]
    /\ CompilerEnds("bad")
    /\ faults' = faults + 1
    /\ UNCHANGED <<recorded, root, prepared, new, ready, refresh, results>>

WaitBug ==
    /\ gate.pc = "compile" /\ gate.status = "ok"
    /\ gate' = [gate EXCEPT !.pc = "verify"]
    /\ UNCHANGED <<recorded, candidate, app, faults>>

CompiledBug ==
    /\ gate.pc = "compile" /\ gate.status # "none"
    /\ gate' = [gate EXCEPT !.pc = "verify"]
    /\ UNCHANGED <<recorded, candidate, app, faults>>

Compiled ==
    /\ gate.pc = "compile" /\ gate.status # "none"
    /\ IF gate.status = "ok" THEN gate' = [gate EXCEPT !.pc = "verify"] ELSE EndGate
    /\ UNCHANGED <<recorded, candidate, app, faults>>

------------------------------------------------------------------------------
(* verify *)

NextHistory == Append(Last(results).history,
                      [generation |-> refresh.generation, maps |-> refresh.maps])

MayVerify ==
    /\ new = {} /\ ready # {} /\ caches.maps # {} /\ caches.whole
    /\ results # <<>> =>
          /\ refresh.previous = Present
          /\ refresh.generation = Last(results).generation + 1
          /\ Len(Last(results).history) < MaxHistory

Verify ==
    /\ gate.pc = "verify"
    /\ IF MayVerify
       THEN results' = Append(results,
                [generation |-> IF results = <<>> THEN 1 ELSE refresh.generation,
                 ready |-> ready, caches |-> caches,
                 history |-> IF results = <<>> THEN <<>> ELSE NextHistory])
       ELSE UNCHANGED results
    /\ EndGate
    /\ UNCHANGED <<recorded, root, prepared, new, ready, caches, refresh, app, faults>>

GateKilled ==
    /\ gate.pc # "idle" /\ faults < MaxFaults
    /\ EndGate
    /\ faults' = faults + 1
    /\ UNCHANGED <<recorded, candidate, app>>

------------------------------------------------------------------------------
(* The game *)

\* What a game may be given (validated_fex_compiled_cache).
MayPlay ==
    /\ root # "absent" /\ Cardinality(new) <= MaxMaps
    /\ ready # {} /\ caches.maps # {} /\ caches.whole
    /\ results # <<>>

\* STEAM_ARM64_DIRECT_FEX_CODE_CACHE: "on" records for prepare, "compiled" uses the caches and
\* records for refresh.
StartGame ==
    /\ app = "none"
    /\ \/ app' = "on"
       \/ MayPlay /\ app' = "compiled"
    /\ UNCHANGED <<recorded, candidate, gate, faults>>

\* A map has a name of its own, and comes whenever the game runs new code.
Record ==
    /\ \E map \in Maps \ (recorded \cup new \cup ready) :
        \/ app = "on" /\ recorded' = recorded \cup {map} /\ UNCHANGED new
        \/ app = "compiled" /\ new' = new \cup {map} /\ UNCHANGED recorded
    /\ UNCHANGED <<root, prepared, ready, caches, refresh, results, gate, app, faults>>

EndGame ==
    /\ app \in {"on", "compiled"}
    /\ app' = "none"
    /\ UNCHANGED <<recorded, candidate, gate, faults>>

------------------------------------------------------------------------------

GateSteps == CopyMap \/ WritePrepare \/ Launch \/ Compiled \/ Verify

CompilerSteps == Aggregate \/ Generate

Next ==
    \/ Prepare \/ Refresh \/ GateSteps \/ Serve \/ Decline
    \/ CompilerSteps \/ CompileFails \/ GateKilled
    \/ StartGame \/ Record \/ EndGame

\* The gate and its tool go on.  Nobody is obliged to play or to start the gate, a game may last,
\* Steam may never make the request, and nothing limits the time of the compiler.
Fairness == WF_vars(GateSteps)

Spec == Init /\ [][Next]_vars /\ Fairness

------------------------------------------------------------------------------
(* Properties *)

\* What result.json counts, across kills, refused launches and games in between: the
\* generations come one by one, each with one entry of the history more, and each has learned
\* from maps the one before had not seen (verify run twice, or after a refresh whose
\* compilation never ran, makes none).
GenerationsTell ==
    \A i \in 1..Len(results) :
        /\ results[i].generation = i /\ Len(results[i].history) = i - 1
        /\ \A k \in 1..(i - 1) :
              /\ results[i].history[k].generation = k + 1
              /\ results[k].ready \subseteq results[i].ready
              /\ results[k].ready # results[i].ready

\* What verify accepts was compiled from every map aggregated by then, those of the manifests
\* it writes into the history included: a compilation that was cut is not accepted in its
\* place, not even when its maps were all consumed.
VerifiedCovers ==
    \A i \in 1..Len(results) :
        /\ results[i].caches = [maps |-> results[i].ready, whole |-> TRUE]
        /\ \A k \in 1..Len(results[i].history) :
              results[i].history[k].maps \subseteq results[i].ready

\* The compiler of a refresh finds no map that the manifest does not name, though a game may
\* record some between refresh and the launch, and another gate may write its own manifest
\* while the compiler of a killed one goes on.
CompilesTheManifest ==
    app = "compile" /\ results # <<>> => new \subseteq refresh.maps

\* The generations, their histories and the caches agree about the maps.
CachesTell == GenerationsTell /\ VerifiedCovers /\ CompilesTheManifest

\* The two waits of the gate that have no deadline: its server's for the request, and its own for
\* the compiler.
Waits == gate.pc = "asked" \/ (gate.pc = "compile" /\ app = "compile")

\* A gate that was started ends, unless it comes to wait for a request that Steam never makes or
\* for a compiler that runs and does not end: however the compiler ends, the gate notices.
GateEnds == []<>(gate.pc = "idle") \/ <>[]Waits

===============================================================================
