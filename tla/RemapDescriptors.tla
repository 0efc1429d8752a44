--------------------------- MODULE RemapDescriptors ---------------------------
(***************************************************************************)
(* The file descriptors of a dispatched request, in                        *)
(* scripts/pressure-vessel-direct-dispatch.py, as functions of descriptor  *)
(* tables: the client sends copies of those its command line names, the    *)
(* server receives them under numbers of its own, and the child gives them *)
(* back their first numbers (remap_descriptors) before it executes the     *)
(* payload, which finds them by number.  The two sets of numbers overlap   *)
(* as they like.                                                           *)
(*                                                                         *)
(* The operators called ...Bug each hold the definition after them with    *)
(* one mistake, for mutation runs.                                         *)
(***************************************************************************)
EXTENDS Naturals, SequencesExt

CONSTANTS
    MaxFd,      \* bound: the process may open descriptors 0..MaxFd
    Floor,      \* 64 in the code: duplicates are put above
    MaxSent,    \* bound: descriptors in a request, MAX_FDS in the code
    Standard,   \* descriptors of the server that its children inherit
    Closed      \* a descriptor that is not open

ASSUME RemapAssumption ==
    /\ MaxFd \in Nat /\ Floor \in Nat /\ MaxSent \in Nat
    /\ Standard \subseteq 0..MaxFd

Fds == 0..MaxFd

\* An open file, the client's or the server's at a number; keep: not close-on-exec.
Entry(owner, fd, keep) == [owner |-> owner, fd |-> fd, keep |-> keep]

\* fd_numbers of a request: what the client's command line names, sorted.
Requests == {SetToSortSeq(S, <) : S \in {S \in SUBSET Fds : Cardinality(S) <= MaxSent}}

\* What a server may have open: sockets and files of its own.
Tables == {[fd \in Fds |-> IF fd \in Standard THEN Entry("server", fd, TRUE)
                           ELSE IF fd \in own THEN Entry("server", fd, FALSE)
                           ELSE Closed] : own \in SUBSET Fds}

\* A file gets the least number that is free from a given one on; without one, no more do.
Install(opened, least, entry) ==
    LET free == {fd \in Fds : fd >= least /\ opened.table[fd] = Closed} IN
    IF opened.full \/ free = {} THEN [opened EXCEPT !.full = TRUE]
    ELSE [opened EXCEPT !.table[Min(free)] = entry, !.fds = Append(@, Min(free))]

\* recvmsg.
Received(numbers, table) ==
    FoldLeft(LAMBDA opened, n : Install(opened, 0, Entry("client", n, FALSE)),
             [table |-> table, fds |-> <<>>, full |-> FALSE], numbers)

\* The targets are forgotten.
AboveBug(numbers, received) == Max({Floor} \cup ToSet(received)) + 1

\* No duplicate is on the number of a source or of a target.
Above(numbers, received) == Max({Floor} \cup ToSet(received) \cup ToSet(numbers)) + 1

\* F_DUPFD_CLOEXEC for each of them.
Duplicated(numbers, received) ==
    FoldLeft(LAMBDA opened, fd : Install(opened, Above(numbers, received.fds),
                                         [opened.table[fd] EXCEPT !.keep = FALSE]),
             [received EXCEPT !.fds = <<>>], received.fds)

\* The sources are closed, dup2 puts the duplicates in place, to be inherited, and they are
\* closed; execve closes what is not kept.
Payload(numbers, received, duplicated) ==
    LET sources == [fd \in Fds |-> IF fd \in ToSet(received.fds) THEN Closed
                                   ELSE duplicated.table[fd]]
        placed == FoldLeft(LAMBDA table, i : [table EXCEPT ![numbers[i]] =
                               IF table[duplicated.fds[i]] = Closed THEN Closed
                               ELSE [table[duplicated.fds[i]] EXCEPT !.keep = TRUE]],
                           sources, [i \in 1..Len(numbers) |-> i])
    IN [fd \in Fds |-> IF fd \in ToSet(duplicated.fds) \/ placed[fd] = Closed
                          \/ ~placed[fd].keep
                       THEN Closed ELSE placed[fd]]

\* What the command line says: the client's files under the client's numbers, the standard
\* descriptors where none of those are, and nothing else open.
Asked(numbers) ==
    [fd \in Fds |-> IF fd \in ToSet(numbers) THEN Entry("client", fd, TRUE)
                    ELSE IF fd \in Standard THEN Entry("server", fd, TRUE) ELSE Closed]

\* truncated: the server refuses the request; full: the child ends before the payload.
Passing(numbers, table) ==
    LET received == Received(numbers, table)
        duplicated == Duplicated(numbers, received)
    IN IF received.full THEN "truncated"
       ELSE IF duplicated.full THEN "full"
       ELSE IF Payload(numbers, received, duplicated) = Asked(numbers) THEN "asked"
       ELSE "other"

Passings == {Passing(numbers, table) : numbers \in Requests, table \in Tables}

==============================================================================
