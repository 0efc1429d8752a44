------------------------------ MODULE SessionLog ------------------------------
(***************************************************************************)
(* The bounded log of a Steam session (bin/steam-arm64-session-guard.py    *)
(* stream): all that Steam prints is read from a pipe and written to       *)
(* stdout and to the log file of the session, to each up to a cap, where a *)
(* marker ends it; a sink that fails is written no more, and the pipe is   *)
(* read to its end whatever becomes of the sinks, so that Steam never      *)
(* waits for its log.                                                      *)
(*                                                                         *)
(* Bytes are numbered as they are printed; those of the marker are 0.      *)
(*                                                                         *)
(* The operators called ...Bug each hold the definition after them with    *)
(* one mistake, for mutation runs.                                         *)
(***************************************************************************)
EXTENDS Naturals, Sequences

CONSTANTS
    Cap,            \* bytes that each sink may get
    MarkerSize,     \* bytes of the marker
    PipeSize,       \* bytes that the pipe holds
    ReadSize,       \* READ_SIZE
    MaxPrinted      \* bound: bytes that Steam prints

VARIABLES
    printed,        \* bytes that Steam has printed
    closed,         \* has Steam closed its end?
    taken,          \* bytes that the guard has read
    sink,           \* the sinks
    file,           \* what has arrived in each of them
    stream          \* the guard

logVars == <<printed, closed, taken, sink, file, stream>>

------------------------------------------------------------------------------
(* Data *)

SessionLogAssumption ==
    /\ Cap \in Nat /\ MarkerSize \in 1..(Cap - 1)
    /\ PipeSize \in Nat \ {0} /\ ReadSize \in Nat \ {0} /\ MaxPrinted \in Nat

Sinks == <<"stdout", "log">>

\* payload: payload_written; there: is there such a sink at all?
Sink == [payload : Nat, truncated : BOOLEAN, failed : BOOLEAN, there : BOOLEAN]

PayloadLimit == Cap - MarkerSize

LogInit ==
    /\ printed = 0 /\ closed = FALSE /\ taken = 0
    /\ sink = [s \in {"stdout", "log"} |->
                 [payload |-> 0, truncated |-> FALSE, failed |-> FALSE, there |-> TRUE]]
    /\ file = [s \in {"stdout", "log"} |-> <<>>]
    /\ stream = [pc |-> "open", data |-> <<>>, turn |-> 1]

\* What of the bytes that are to be written arrives: all, or a beginning before an error.
Written(s, bytes, whole) ==
    IF whole THEN file' = [file EXCEPT ![s] = @ \o bytes]
    ELSE \E n \in 0..(Len(bytes) - 1) : file' = [file EXCEPT ![s] = @ \o SubSeq(bytes, 1, n)]

------------------------------------------------------------------------------
(* Steam *)

PrintByte ==
    /\ ~closed /\ printed < MaxPrinted /\ printed - taken < PipeSize
    /\ printed' = printed + 1
    /\ UNCHANGED <<closed, taken, sink, file, stream>>

Close ==
    /\ ~closed /\ closed' = TRUE
    /\ UNCHANGED <<printed, taken, sink, file, stream>>

------------------------------------------------------------------------------
(* stream_output *)

\* open_canonical_log: a log that is a link, or has another name, is not written.
OpenLog ==
    /\ stream.pc = "open"
    /\ \E there \in BOOLEAN : sink' = [sink EXCEPT !["log"].there = there]
    /\ stream' = [stream EXCEPT !.pc = "read"]
    /\ UNCHANGED <<printed, closed, taken, file>>

ReadPipe ==
    /\ stream.pc = "read" /\ taken < printed
    /\ \E n \in 1..ReadSize :
          /\ taken + n <= printed
          /\ stream' = [pc |-> "feed", data |-> [i \in 1..n |-> taken + i], turn |-> 1]
          /\ taken' = taken + n
    /\ UNCHANGED <<printed, closed, sink, file>>

EndOfPipe ==
    /\ stream.pc = "read" /\ taken = printed /\ closed
    /\ stream' = [stream EXCEPT !.pc = "end"]
    /\ UNCHANGED <<printed, closed, taken, sink, file>>

Turned == [stream EXCEPT !.turn = @ + 1, !.pc = IF stream.turn = Len(Sinks) THEN "read" ELSE "feed"]

WritesNoMore(s) == sink[s].failed \/ sink[s].truncated \/ ~sink[s].there

\* A sink that fails ends the guard.
PassBug ==
    /\ stream.pc = "feed" /\ WritesNoMore(Sinks[stream.turn])
    /\ stream' = IF sink[Sinks[stream.turn]].failed THEN [stream EXCEPT !.pc = "end"] ELSE Turned
    /\ UNCHANGED <<printed, closed, taken, sink, file>>

Pass ==
    /\ stream.pc = "feed" /\ WritesNoMore(Sinks[stream.turn])
    /\ stream' = Turned
    /\ UNCHANGED <<printed, closed, taken, sink, file>>

\* The cap is of the payload alone.
RemainingBug(s) == Cap - sink[s].payload

Remaining(s) == PayloadLimit - sink[s].payload

Prefix(s) ==
    SubSeq(stream.data, 1, IF Remaining(s) < Len(stream.data) THEN Remaining(s) ELSE Len(stream.data))

Fail(s) == sink' = [sink EXCEPT ![s].failed = TRUE]

\* CappedSink.feed: what still fits, then the marker when that is not all.
FeedPrefix ==
    /\ stream.pc = "feed" /\ ~WritesNoMore(Sinks[stream.turn])
    /\ LET s == Sinks[stream.turn]
           rest == Len(stream.data) > Len(Prefix(s))
       IN \/ /\ Written(s, Prefix(s), TRUE)
             /\ sink' = [sink EXCEPT ![s].payload = @ + Len(Prefix(s))]
             /\ stream' = IF rest THEN [stream EXCEPT !.pc = "mark"] ELSE Turned
          \/ /\ Prefix(s) # <<>>
             /\ Written(s, Prefix(s), FALSE) /\ Fail(s)
             /\ stream' = Turned
    /\ UNCHANGED <<printed, closed, taken>>

FeedMarker ==
    /\ stream.pc = "mark"
    /\ LET s == Sinks[stream.turn]
           marker == [i \in 1..MarkerSize |-> 0]
       IN \/ Written(s, marker, TRUE) /\ sink' = [sink EXCEPT ![s].truncated = TRUE]
          \/ Written(s, marker, FALSE) /\ Fail(s)
    /\ stream' = Turned
    /\ UNCHANGED <<printed, closed, taken>>

StreamSteps == OpenLog \/ ReadPipe \/ EndOfPipe \/ Pass \/ FeedPrefix \/ FeedMarker

LogNext == PrintByte \/ Close \/ StreamSteps

------------------------------------------------------------------------------
(* Properties *)

\* Each sink holds what Steam has printed first, without a gap and never more than the cap,
\* then at most one marker; a sink that has not failed holds all of it, or as much as fits and
\* a whole marker: whatever fails, in whichever write, and however the output is cut into reads.
OutputKept ==
    \A s \in {"stdout", "log"} :
       /\ Len(file[s]) <= Cap
       /\ \A i \in 1..Len(file[s]) : file[s][i] \in {0, i}
       /\ \A i, j \in 1..Len(file[s]) : i < j /\ file[s][i] = 0 => file[s][j] = 0
       /\ stream.pc = "end" /\ sink[s].there /\ ~sink[s].failed =>
             IF printed <= PayloadLimit THEN Len(file[s]) = printed ELSE Len(file[s]) = Cap

\* Steam is never kept from printing: the pipe is emptied.
Emptied == taken = printed

===============================================================================
