------------------------------- MODULE MaskTool -------------------------------
(***************************************************************************)
(* The affinity tools that look at a game once                             *)
(* (scripts/set-superflight-affinity.py, set-tombraider-affinity.py with   *)
(* and without --check, set-gtaiv-affinity.py --check): they find the      *)
(* game, set the masks of its threads with taskset -a, unless they only    *)
(* check, and read the masks thread by thread.                             *)
(*                                                                         *)
(* The game starts threads, which have the mask of the thread that starts  *)
(* them, between any two steps.                                            *)
(*                                                                         *)
(* The operators called ...Bug each hold the definition after them with    *)
(* one mistake, for mutation runs.                                         *)
(***************************************************************************)
EXTENDS FiniteSetsExt, Naturals

CONSTANTS
    MaxThread,      \* bound: threads have the numbers 1..MaxThread
    MaxTurns        \* bound: threads that set their mask, or end, of themselves

VARIABLES
    threads,        \* the threads of the game
    tool,
    turns

toolVars == <<threads, tool, turns>>

------------------------------------------------------------------------------
(* Data *)

MaskToolAssumption == MaxThread \in Nat \ {0} /\ MaxTurns \in Nat

Tids == 1..MaxThread

\* own: any other mask; target: the processors of the game; net: CPU 1, for a network thread.
Thread == [mask : {"absent", "own", "target", "net"}, net : BOOLEAN]

Absent == [mask |-> "absent", net |-> FALSE]

Tools == {"superflight", "superflight --check", "raider", "raider --raknet-cpu1",
          "raider --check --raknet-cpu1", "gtaiv --check"}

Checks == {"superflight --check", "raider --check --raknet-cpu1", "gtaiv --check"}

Isolating == {"raider --raknet-cpu1", "raider --check --raknet-cpu1"}

\* left: threads that taskset, or the reading, has listed and not come to; wrong: a mask that was
\* read is not the expected one; nets: network threads that were read; quiet: no thread has set
\* its mask or ended since the tool began.
Tool == [name : Tools, pc : {"find", "set", "net", "list", "read", "end"}, left : SUBSET Tids,
         nets : SUBSET Tids, wrong : BOOLEAN, quiet : BOOLEAN, exit : {"none", "ok", "failed"}]

\* A game with some threads, one of them for the network or none.
ToolInit ==
    /\ \E alive \in SUBSET Tids, net \in Tids, mask \in [Tids -> {"own", "target", "net"}] :
          /\ alive # {}
          /\ threads = [t \in Tids |-> IF t \in alive THEN [mask |-> mask[t], net |-> t = net]
                                       ELSE Absent]
    /\ \E name \in Tools :
          tool = [name |-> name, pc |-> "find", left |-> {}, nets |-> {}, wrong |-> FALSE,
                  quiet |-> TRUE, exit |-> "none"]
    /\ turns = 0

Lives == {t \in Tids : threads[t].mask # "absent"}

Quit(exit) == tool' = [tool EXCEPT !.pc = "end", !.exit = exit]

\* The mask that the tool wants a thread to have.
Wanted(t) == IF tool.name \in Isolating /\ threads[t].net THEN "net" ELSE "target"

------------------------------------------------------------------------------
(* The tool *)

\* One verified process, in Android's foreground group where that is asked for, on the eight
\* processors that were measured.
Find ==
    /\ tool.pc = "find"
    /\ \/ Quit("failed")
       \/ /\ Lives # {}
          /\ tool' = IF tool.name \in Checks THEN [tool EXCEPT !.pc = "list"]
                     ELSE [tool EXCEPT !.pc = "set", !.left = Lives]
    /\ UNCHANGED <<threads, turns>>

\* taskset -a goes through the threads that it has listed.
Taskset ==
    /\ tool.pc = "set" /\ tool.left # {}
    /\ LET t == Min(tool.left) IN
       IF t \in Lives
       THEN /\ threads' = [threads EXCEPT ![t].mask = "target"]
            /\ tool' = [tool EXCEPT !.left = @ \ {t}]
       ELSE Quit("failed") /\ UNCHANGED threads
    /\ UNCHANGED turns

AllSet ==
    /\ tool.pc = "set" /\ tool.left = {}
    /\ tool' = [tool EXCEPT !.pc = IF tool.name \in Isolating THEN "net" ELSE "list"]
    /\ UNCHANGED <<threads, turns>>

\* The network thread, if there is one and no other.
SetNet ==
    /\ tool.pc = "net"
    /\ LET nets == {t \in Lives : threads[t].net} IN
       IF Cardinality(nets) = 1
       THEN /\ threads' = [t \in Tids |-> IF t \in nets THEN [threads[t] EXCEPT !.mask = "net"]
                                          ELSE threads[t]]
            /\ tool' = [tool EXCEPT !.pc = "list"]
       ELSE Quit("failed") /\ UNCHANGED threads
    /\ UNCHANGED turns

\* read_threads: a game without threads has ended.
List ==
    /\ tool.pc = "list"
    /\ IF Lives = {} THEN Quit("failed")
       ELSE tool' = [tool EXCEPT !.pc = "read", !.left = Lives]
    /\ UNCHANGED <<threads, turns>>

\* Any of the masks that a tool sets will do.
ReadMaskBug(t) == t \in Lives /\ threads[t].mask \notin {"target", "net"}

\* A thread that has ended meanwhile is passed over.
ReadMask(t) == t \in Lives /\ threads[t].mask # Wanted(t)

Read ==
    /\ tool.pc = "read" /\ tool.left # {}
    /\ LET t == Min(tool.left) IN
       tool' = [tool EXCEPT !.left = @ \ {t}, !.wrong = @ \/ ReadMask(t),
                            !.nets = IF threads[t].net THEN @ \cup {t} ELSE @]
    /\ UNCHANGED <<threads, turns>>

Tell ==
    /\ tool.pc = "read" /\ tool.left = {}
    /\ Quit(IF tool.wrong \/ (tool.name \in Isolating /\ Cardinality(tool.nets) # 1)
            THEN "failed" ELSE "ok")
    /\ UNCHANGED <<threads, turns>>

------------------------------------------------------------------------------
(* The game *)

\* A thread of the game starts another one.
Spawn ==
    /\ \E parent \in Lives, t \in Tids \ Lives :
          /\ ~threads[parent].net
          /\ threads' = [threads EXCEPT ![t] = [mask |-> threads[parent].mask, net |-> FALSE]]
    /\ UNCHANGED <<tool, turns>>

OwnMask ==
    /\ turns < MaxTurns
    /\ \E t \in Lives : threads' = [threads EXCEPT ![t].mask = "own"]
    /\ turns' = turns + 1
    /\ tool' = [tool EXCEPT !.quiet = FALSE]

EndThread ==
    /\ turns < MaxTurns
    /\ \E t \in Lives : threads' = [threads EXCEPT ![t] = Absent]
    /\ turns' = turns + 1
    /\ tool' = [tool EXCEPT !.quiet = FALSE]

ToolNext ==
    \/ Find \/ Taskset \/ AllSet \/ SetNet \/ List \/ Read \/ Tell
    \/ Spawn \/ OwnMask \/ EndThread

ToolSpec == ToolInit /\ [][ToolNext]_toolVars

------------------------------------------------------------------------------
(* Properties *)

\* When a tool says that all threads are in place, they are, those that were started while
\* taskset went through the others, or after it was read, as well; unless a thread has set its
\* own mask, or has ended and left one behind that was never listed.
ToolTells ==
    tool.exit = "ok" /\ tool.quiet =>
        /\ \A t \in Lives : threads[t].mask = Wanted(t)
        /\ tool.name \in Isolating => \E t \in Lives : threads[t].net

==============================================================================
