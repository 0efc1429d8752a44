---------------------------- MODULE DirectDispatch ----------------------------
(***************************************************************************)
(* scripts/pressure-vessel-direct-dispatch.py: `serve` binds the dispatch  *)
(* socket, accepts one client, runs the client's container payload in a    *)
(* child process outside PRoot and answers with its exit status; the       *)
(* client is what Pressure Vessel executes in place of bwrap.              *)
(*                                                                         *)
(* Servers are runs of `serve`, Clients are runs of the client.  Either    *)
(* may be killed at any point; a signal ends the server without its        *)
(* `finally` blocks, so its socket file stays behind.                      *)
(*                                                                         *)
(* The operators called ...Bug each hold the definition after them with    *)
(* one mistake, for mutation runs.                                         *)
(***************************************************************************)
EXTENDS RemapDescriptors, DispatchPlan

CONSTANTS
    Servers,    \* runs of `serve`, started by the launch script
    Clients,    \* runs of the client, started by Steam
    None        \* no client, no socket file

VARIABLES
    path,       \* the socket file: the server that bound it, dead or alive
    srv,        \* the servers
    queue,      \* per server: connected clients it has not accepted
    cli,        \* the clients
    child,      \* per server: the loader child
    pipe        \* per server: who holds the write end of the ready pipe

dispatchVars == <<path, srv, queue, cli, child, pipe>>

------------------------------------------------------------------------------
(* Data *)

\* Exit statuses: 0, and 125, which stands for every other one as well.
ExitStatuses == {0, 125}

\* What /proc/<child>/status said of the child; traced: or could not be read.
Tracers == {"untraced", "traced"}

ASSUME DirectDispatchAssumption ==
    /\ None \notin Servers /\ None \notin Clients
    /\ None \notin ExitStatuses /\ None \notin Tracers

ServerSteps == {"new", "look", "unlink", "bind", "listen", "accept", "receive", "plan",
                "fork", "inspect", "release", "wait", "respond", "close", "remove", "dead"}

Dispatcher == [pc : ServerSteps, client : Clients \cup {None},
               plan : {None, "selected", "other"}, tracer : Tracers \cup {None},
               status : ExitStatuses, killed : BOOLEAN]

\* code is what the child exited with, or would have; table: what it found its descriptors to
\* be, and whether they are what the client asked for.
Child == [pc : {"none", "inherit", "read", "pin", "running", "gone"}, code : ExitStatuses,
          table : {"none", "asked", "other"}]

\* sound: the request passes validate_request.
Client == [pc : {"new", "connected", "sent", "done"}, sound : BOOLEAN,
           result : ExitStatuses \cup {None}]

DispatchInit ==
    /\ path = None
    /\ srv = [s \in Servers |-> [pc |-> "new", client |-> None, plan |-> None, tracer |-> None,
                                 status |-> 125, killed |-> FALSE]]
    /\ queue = [s \in Servers |-> {}]
    /\ cli \in [Clients -> {[pc |-> "new", sound |-> b, result |-> None] : b \in BOOLEAN}]
    /\ child = [s \in Servers |-> [pc |-> "none", code |-> 125, table |-> "none"]]
    /\ pipe = [s \in Servers |-> {}]

At(s, step) == srv[s].pc = step

Goto(s, step) == srv' = [srv EXCEPT ![s].pc = step]

Up(s) == srv[s].pc \notin {"new", "dead"}

\* The clients a server still owes something when its sockets are closed.
Hanging(s) == {c \in (queue[s] \cup {srv[s].client}) \ {None} : cli[c].pc # "done"}

\* Until it ends or executes the payload, the child has copies of the server's sockets.
Held(s) == child[s].pc \in {"inherit", "read", "pin"}

\* Their reads end: 125, "incomplete dispatch response" or a reset.
Reset(s) ==
    /\ cli' = [c \in Clients |-> IF c \in Hanging(s)
                                 THEN [cli[c] EXCEPT !.pc = "done", !.result = 125]
                                 ELSE cli[c]]
    /\ queue' = [queue EXCEPT ![s] = {}]

------------------------------------------------------------------------------
(* serve *)

Start(s) ==
    /\ At(s, "new")
    /\ Goto(s, "look")
    /\ UNCHANGED <<path, queue, cli, child, pipe>>

Look(s) ==
    /\ At(s, "look")
    /\ Goto(s, IF path = None THEN "bind" ELSE "unlink")
    /\ UNCHANGED <<path, queue, cli, child, pipe>>

\* The unlink fails when another server has removed the file meanwhile.
Unlink(s) ==
    /\ At(s, "unlink")
    /\ path' = None
    /\ Goto(s, IF path = None THEN "dead" ELSE "bind")
    /\ UNCHANGED <<queue, cli, child, pipe>>

Bind(s) ==
    /\ At(s, "bind")
    /\ IF path = None
       THEN path' = s /\ Goto(s, "listen")
       ELSE Goto(s, "close") /\ UNCHANGED path
    /\ UNCHANGED <<queue, cli, child, pipe>>

Listen(s) ==
    /\ At(s, "listen")
    /\ Goto(s, "accept")
    /\ UNCHANGED <<path, queue, cli, child, pipe>>

Accept(s) ==
    /\ At(s, "accept")
    /\ \E c \in queue[s] :
          /\ srv' = [srv EXCEPT ![s].pc = "receive", ![s].client = c]
          /\ queue' = [queue EXCEPT ![s] = queue[s] \ {c}]
    /\ UNCHANGED <<path, cli, child, pipe>>

\* A request whose descriptors are truncated raises as well.
Truncated == "truncated" \in Passings

\* recvmsg returns the whole request, or the end of a client that died; a request
\* that is not sound raises, and is not answered.
Receive(s) ==
    /\ At(s, "receive")
    /\ LET c == srv[s].client IN
       /\ cli[c].pc \in {"sent", "done"}
       /\ \/ Goto(s, IF cli[c].pc = "sent" /\ cli[c].sound THEN "plan" ELSE "close")
          \/ Truncated /\ Goto(s, "close")
    /\ UNCHANGED <<path, queue, cli, child, pipe>>

\* The start gate, which may not open, and the reconstruction of the command, which refuses or
\* gives a plan: DispatchPlan.
Plan(s) ==
    /\ At(s, "plan")
    /\ \/ Goto(s, "close")
       \/ \E outcome \in Outcomes \ {"refused"} :
             srv' = [srv EXCEPT ![s].pc = "fork", ![s].plan = outcome]
    /\ UNCHANGED <<path, queue, cli, child, pipe>>

\* os.pipe and os.fork: both processes hold both ends of the pipe.
Fork(s) ==
    /\ At(s, "fork")
    /\ Goto(s, "inspect")
    /\ \E code \in ExitStatuses :
          child' = [child EXCEPT ![s] = [pc |-> "inherit", code |-> code, table |-> "none"]]
    /\ pipe' = [pipe EXCEPT ![s] = {"server", "child"}]
    /\ UNCHANGED <<path, queue, cli>>

\* tracer_pid, while the child is held.
Inspect(s) ==
    /\ At(s, "inspect")
    /\ \E tracer \in Tracers :
          srv' = [srv EXCEPT ![s].pc = "release", ![s].tracer = tracer]
    /\ UNCHANGED <<path, queue, cli, child, pipe>>

\* The byte is written whatever the tracer; the child's read returns it.
Release(s) ==
    /\ At(s, "release")
    /\ Goto(s, "wait")
    /\ pipe' = [pipe EXCEPT ![s] = {"released"}]
    /\ UNCHANGED <<path, queue, cli, child>>

Wait(s) ==
    /\ At(s, "wait")
    /\ child[s].pc = "gone"
    /\ srv' = [srv EXCEPT ![s].pc = "respond",
                          ![s].status = IF srv[s].tracer = "untraced" THEN child[s].code
                                        ELSE 125]
    /\ UNCHANGED <<path, queue, cli, child, pipe>>

\* Sending to a client that died raises.
Respond(s) ==
    /\ At(s, "respond")
    /\ LET c == srv[s].client IN
       /\ Goto(s, "close")
       /\ cli' = IF cli[c].pc = "done" THEN cli
                 ELSE [cli EXCEPT ![c].pc = "done", ![c].result = srv[s].status]
    /\ UNCHANGED <<path, queue, child, pipe>>

\* Leaving `with connection` and listener.close().
Close(s) ==
    /\ At(s, "close")
    /\ Goto(s, "remove")
    /\ Reset(s)
    /\ UNCHANGED <<path, child, pipe>>

\* The finally block removes the socket at the path, whoever bound it.
RemoveSocket(s) ==
    /\ At(s, "remove")
    /\ path' = None
    /\ Goto(s, "dead")
    /\ UNCHANGED <<queue, cli, child, pipe>>

\* A signal: the socket file stays, and the sockets with a child that holds them.
Kill(s) ==
    /\ Up(s)
    /\ srv' = [srv EXCEPT ![s].pc = "dead", ![s].killed = TRUE]
    /\ IF Held(s) THEN UNCHANGED <<cli, queue>> ELSE Reset(s)
    /\ pipe' = [pipe EXCEPT ![s] = pipe[s] \ {"server"}]
    /\ UNCHANGED <<path, child>>

------------------------------------------------------------------------------
(* The loader child *)

\* The child keeps its copy of the write end.
ChildInheritBug(s) ==
    /\ child[s].pc = "inherit"
    /\ child' = [child EXCEPT ![s].pc = "read"]
    /\ UNCHANGED <<path, srv, queue, cli, pipe>>

ChildInherit(s) ==
    /\ child[s].pc = "inherit"
    /\ child' = [child EXCEPT ![s].pc = "read"]
    /\ pipe' = [pipe EXCEPT ![s] = pipe[s] \ {"child"}]
    /\ UNCHANGED <<path, srv, queue, cli>>

\* The end of a child that has copies of a dead server's sockets is their end.
Ends(s) == IF At(s, "dead") THEN Reset(s) ELSE UNCHANGED <<cli, queue>>

\* One byte, or the end of a pipe that nobody can write to any more; then the descriptors get
\* their numbers.
ChildRead(s) ==
    /\ child[s].pc = "read"
    /\ \/ /\ "released" \in pipe[s]
          /\ \E passing \in Passings \ {"truncated"} :
                IF passing = "full"
                THEN child' = [child EXCEPT ![s] = [@ EXCEPT !.pc = "gone", !.code = 125]]
                     /\ Ends(s)
                ELSE child' = [child EXCEPT ![s] = [@ EXCEPT !.pc = "pin", !.table = passing]]
                     /\ UNCHANGED <<cli, queue>>
       \/ /\ pipe[s] = {}
          /\ child' = [child EXCEPT ![s].pc = "gone"]
          /\ Ends(s)
    /\ UNCHANGED <<path, srv, pipe>>

\* sched_setaffinity until it has enough processors, and execve; at the deadline, or when
\* either fails, 125.
ChildPin(s) ==
    /\ child[s].pc = "pin"
    /\ \/ child' = [child EXCEPT ![s].pc = "running"]
       \/ child' = [child EXCEPT ![s] = [@ EXCEPT !.pc = "gone", !.code = 125]]
    /\ Ends(s)
    /\ UNCHANGED <<path, srv, pipe>>

\* The payload runs until it ends; the server's death does not end it.
ChildExit(s) ==
    /\ child[s].pc = "running"
    /\ child' = [child EXCEPT ![s].pc = "gone"]
    /\ UNCHANGED <<path, srv, queue, cli, pipe>>

------------------------------------------------------------------------------
(* client *)

Listened ==
    path # None /\ (srv[path].pc \notin {"listen", "remove", "dead"} \/ Held(path))

\* connect fails unless somebody has the listening socket that was bound.
Connect(c) ==
    /\ cli[c].pc = "new"
    /\ \/ /\ Listened
          /\ cli' = [cli EXCEPT ![c].pc = "connected"]
          /\ queue' = [queue EXCEPT ![path] = queue[path] \cup {c}]
       \/ /\ ~Listened
          /\ cli' = [cli EXCEPT ![c].pc = "done", ![c].result = 125]
          /\ UNCHANGED queue
    /\ UNCHANGED <<path, srv, child, pipe>>

Send(c) ==
    /\ cli[c].pc = "connected"
    /\ cli' = [cli EXCEPT ![c].pc = "sent"]
    /\ UNCHANGED <<path, srv, queue, child, pipe>>

\* Steam ends its own child.
ClientKilled(c) ==
    /\ cli[c].pc \in {"connected", "sent"}
    /\ cli' = [cli EXCEPT ![c].pc = "done", ![c].result = None]
    /\ UNCHANGED <<path, srv, queue, child, pipe>>

Serve(s) ==
    \/ Look(s) \/ Unlink(s) \/ Bind(s) \/ Listen(s) \/ Accept(s) \/ Receive(s) \/ Plan(s)
    \/ Fork(s) \/ Inspect(s) \/ Release(s) \/ Wait(s) \/ Respond(s) \/ Close(s) \/ RemoveSocket(s)

RunChild(s) == ChildInherit(s) \/ ChildRead(s) \/ ChildPin(s) \/ ChildExit(s)

DispatchNext ==
    \/ \E s \in Servers : Start(s) \/ Serve(s) \/ Kill(s) \/ RunChild(s)
    \/ \E c \in Clients : Connect(c) \/ Send(c) \/ ClientKilled(c)

DispatchSpec == DispatchInit /\ [][DispatchNext]_dispatchVars

\* The processes that are there are scheduled, and games end.
DispatchFairSpec ==
    /\ DispatchSpec
    /\ \A s \in Servers : WF_dispatchVars(Serve(s)) /\ WF_dispatchVars(RunChild(s))
    /\ \A c \in Clients : WF_dispatchVars(Send(c))

------------------------------------------------------------------------------
(* Properties *)

\* The variables have their types.
DispatchTypeOK ==
    /\ path \in Servers \cup {None}
    /\ srv \in [Servers -> Dispatcher]
    /\ queue \in [Servers -> SUBSET Clients]
    /\ cli \in [Clients -> Client]
    /\ child \in [Servers -> Child]
    /\ pipe \in [Servers -> SUBSET {"server", "child", "released"}]

\* "direct Runtime smoke: PASS": a client that reports success has had its own,
\* valid, request run to its end, untraced, on the descriptors it names, with the operator's
\* settings (AsSelected, with the one exception that Overruled names) and with status 0.
PassIsReal ==
    \A c \in Clients : cli[c].result = 0 =>
        /\ cli[c].sound
        /\ \E s \in Servers :
              /\ srv[s].client = c /\ srv[s].plan = "selected" /\ srv[s].tracer = "untraced"
              /\ child[s].pc = "gone" /\ child[s].code = 0 /\ child[s].table = "asked"

\* A payload runs for one client, that of its server, which has sent a valid
\* request, and on the descriptors that it names; and never before the server has
\* looked for a tracer, nor on settings that are not the operator's, but for Overruled.
RunsForItsClient ==
    \A s \in Servers : child[s].pc = "running" =>
        /\ srv[s].client # None /\ cli[srv[s].client].sound
        /\ srv[s].tracer # None /\ child[s].table = "asked" /\ srv[s].plan = "selected"
        /\ \A other \in Servers \ {s} : srv[other].client # srv[s].client

\* What a client is told of its payload is true, and each payload is its client's own.  With the
\* types.
ServedRight == DispatchTypeOK /\ PassIsReal /\ RunsForItsClient

\* A child held at the pipe does not stay there for ever: it runs, or ends when
\* the server that would have released it is gone.
HeldChildEnds ==
    \A s \in Servers : Held(s) ~> (child[s].pc \in {"running", "gone"})

\* No client waits for ever: it is answered, or its connection ends.
ClientEnds == \A c \in Clients : (cli[c].pc = "sent") ~> (cli[c].pc = "done")

\* A server that is started and meets no other one gets to listen, also after one that was
\* killed and has left its socket file.
GetsToListen ==
    \A s \in Servers :
        At(s, "look") ~> \/ At(s, "accept") \/ srv[s].killed
                         \/ \E other \in Servers \ {s} : Up(other)

\* No child, no client and no server waits for another one that has died.
NobodyWaits == HeldChildEnds /\ ClientEnds /\ GetsToListen

==============================================================================
