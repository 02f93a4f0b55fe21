-------------------------------- MODULE Rio --------------------------------
(***************************************************************************)
(* The robust I/O package of csapp.c: buffered and unbuffered reads that   *)
(* hide short counts, and a write that goes on until everything is out.    *)
(* A stream is a sequence of elements, one of them the end of a line; the  *)
(* `rio' of a reader holds its rio_t and the frame of the call it is in.   *)
(*                                                                         *)
(* Fill and Put are single calls of read and write, which transfer any     *)
(* part of what they could; an interrupted one (EINTR) changes nothing and *)
(* is repeated.  The copy out of the reader's own buffer is of the same    *)
(* step, since nobody else sees that buffer.                               *)
(***************************************************************************)
EXTENDS Integers, Sequences, SequencesExt

CONSTANTS
    NL,          \* the element that ends a line
    RioBuf,      \* RIO_BUFSIZE
    PipeCap      \* elements a connection holds in either direction (kernel)

ASSUME RioAssumption == RioBuf \in Nat \ {0} /\ PipeCap \in Nat \ {0}

Buffered == {"readnb", "readlineb"}

(* rio_readinitb: no call, nothing read ahead. *)
ReadInitB == [op |-> "none", n |-> 0, got |-> <<>>, unread |-> <<>>, eof |-> FALSE]

First(k, s) == SubSeq(s, 1, k)
Rest(k, s) == SubSeq(s, k + 1, Len(s))
Least(a, b) == IF a <= b THEN a ELSE b

-----------------------------------------------------------------------------
(* The calls *)

(* rio_readlineb keeps a place for the terminating zero. *)
Room(rio) == (IF rio.op = "readlineb" THEN rio.n - 1 ELSE rio.n) - Len(rio.got)

(* How much of s the call takes: rio_readlineb stops behind the end of a line. *)
Takes(rio, s) ==
    LET most == Least(Room(rio), Len(s))
        at == SelectInSeq(s, LAMBDA e : e = NL)
    IN  IF rio.op = "readlineb" /\ at \in 1 .. most THEN at ELSE most

(* rio_read: min(n, rio_cnt) elements from the reader's buffer. *)
Fed(rio) ==
    LET k == Takes(rio, rio.unread)
    IN  [rio EXCEPT !.got = @ \o First(k, rio.unread), !.unread = Rest(k, rio.unread)]

Begun(rio, op, n) ==
    LET frame == [op |-> op, n |-> n, got |-> <<>>, unread |-> rio.unread, eof |-> FALSE]
    IN  IF op \in Buffered THEN Fed(frame) ELSE frame

Complete(rio) ==
    \/ Room(rio) = 0
    \/ rio.op = "readlineb" /\ rio.got # <<>> /\ rio.got[Len(rio.got)] = NL

Returned(rio) == rio.op # "none" /\ (Complete(rio) \/ rio.eof)
Reads(rio) == rio.op # "none" /\ ~Returned(rio)

(* mutant: rio_read throws away what the call does not take *)
AfterLossy(rio, chunk) ==
    IF rio.op \in Buffered THEN [Fed([rio EXCEPT !.unread = chunk]) EXCEPT !.unread = <<>>]
    ELSE [rio EXCEPT !.got = @ \o chunk]

(* A read of k elements: into the reader's buffer, or to the caller. *)
After(rio, chunk) ==
    IF rio.op \in Buffered THEN Fed([rio EXCEPT !.unread = chunk])
    ELSE [rio EXCEPT !.got = @ \o chunk]

Asks(rio) == IF rio.op \in Buffered THEN RioBuf ELSE Room(rio)

(* What a read may deliver from the pipe: any first part of it. *)
Chunks(rio, pipe) == {First(k, pipe) : k \in 1 .. Least(Asks(rio), Len(pipe))}

AtEof(rio) == [rio EXCEPT !.eof = TRUE]

(* What a write may take of todo into the pipe. *)
Accepts(todo, pipe) == 1 .. Least(Len(todo), PipeCap - Len(pipe))

-----------------------------------------------------------------------------
(* What the package promises of a call on a stream, whatever the counts of   *)
(* the single reads: the next n elements, or the next line if it is shorter  *)
(* than n, and at the end of the stream what there is.                       *)
KeepsPromise(rio, stream) ==
    LET line == rio.op = "readlineb"
        got == rio.got
    IN  /\ IsPrefix(got, stream)
        /\ line => \A j \in 1 .. Len(got) - 1 : got[j] # NL
        /\ \/ Len(got) = rio.n - (IF line THEN 1 ELSE 0)
           \/ line /\ got # <<>> /\ got[Len(got)] = NL
           \/ rio.eof /\ got = stream

=============================================================================
