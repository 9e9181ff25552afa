------------------------------ MODULE Websock -------------------------------
(***************************************************************************)
(* The receive queue of the console's socket (websock.js in novnc-rfb.js): *)
(* one array with a read and a write position, emptied, compacted or       *)
(* reallocated only when a message comes in, read by handlers that put     *)
(* back what they took when the rest has not arrived.                      *)
(*                                                                         *)
(* A unit is what a handler waits for at once; the array holds, for each   *)
(* unit, its rank in the stream the server wrote.                          *)
(***************************************************************************)
EXTENDS Integers, Sequences

CONSTANTS
    BufferSize,    \* _rQbufferSize at the start, 4 MiB in the code
    Headroom,      \* the factor of _expandCompactRQ, 8 in the code
    MaxGrow        \* MAX_RQ_GROW_SIZE, 40 MiB in the code

ASSUME BufferAssumption ==
    /\ BufferSize \in Nat \ {0} /\ Headroom \in Nat \ {0}
    /\ MaxGrow \in Nat /\ BufferSize <= MaxGrow

VARIABLES
    rQ,             \* Websock._rQ
    rQi,            \* Websock._rQi: the next unit to read
    rQlen,          \* Websock._rQlen: the end of what was received
    rQbufferSize,   \* Websock._rQbufferSize
    overrun,        \* _expandCompactRQ has thrown: a message was dropped
    arrived,        \* history variable: units received
    taken           \* history variable: units read and not put back

queue == <<rQ, rQi, rQlen, rQbufferSize, overrun, arrived, taken>>

Slots == 0 .. MaxGrow - 1
NoUnit == 0

QueueInit ==
    /\ rQ = [i \in Slots |-> NoUnit]
    /\ rQi = 0 /\ rQlen = 0
    /\ rQbufferSize = BufferSize
    /\ overrun = FALSE
    /\ arrived = 0 /\ taken = 0

Avail == rQlen - rQi

\* rQwait: whether num units have yet to come.
RQwait(num) == Avail < num

\* rQpeek8, rQpeekBytes: the k-th unread unit.
Peek(k) == rQ[rQi + k - 1]

\* rQshift8 .. rQshiftBytes, rQskipBytes.
RQshift(n) ==
    /\ rQi' = rQi + n
    /\ taken' = taken + n
    /\ UNCHANGED <<rQ, rQlen, rQbufferSize, overrun, arrived>>

\* The branch of rQwait that puts back what the handler has read.
RQgoback(n) ==
    /\ rQi >= n
    /\ rQi' = rQi - n
    /\ taken' = taken - n
    /\ UNCHANGED <<rQ, rQlen, rQbufferSize, overrun, arrived>>

-----------------------------------------------------------------------------
\* _recvMessage.

MaxOf(a, b) == IF a >= b THEN a ELSE b
MinOf(a, b) == IF a <= b THEN a ELSE b

\* The array with n units of the stream written from slot at on.
Written(buffer, at, n) ==
    [s \in Slots |-> IF at <= s /\ s < at + n THEN arrived + 1 + s - at ELSE buffer[s]]

\* Faulty: copies from the start of the array instead of the unread part.
CompactedFromStart(from, len, fresh) ==
    [s \in Slots |-> IF fresh /\ s >= len - from THEN NoUnit ELSE rQ[s]]

\* The unread units from .. len - 1 moved to the start: in a new array, or in
\* the old one, whose other slots keep what they held.
Compacted(from, len, fresh) ==
    [s \in Slots |-> IF s < len - from THEN rQ[from + s]
                     ELSE IF fresh THEN NoUnit ELSE rQ[s]]

\* The sizes _expandCompactRQ computes for a message of n units.
Required(n, unread) == (unread + n) * Headroom
Resizes(n, unread) == rQbufferSize < Required(n, unread)
Grown(n, unread) ==
    IF Resizes(n, unread) THEN MaxOf(2 * rQbufferSize, Required(n, unread))
    ELSE rQbufferSize

\* Faulty: does not look whether there is room.
FitsUnchecked(from, len, n) ==
    /\ len + n <= MaxGrow
    /\ rQ' = Written(rQ, len, n)
    /\ rQi' = from
    /\ rQlen' = len + n
    /\ arrived' = arrived + n
    /\ UNCHANGED <<rQbufferSize, overrun, taken>>

\* The message fits behind what is there.
Fits(from, len, n) ==
    /\ n <= rQbufferSize - len
    /\ rQ' = Written(rQ, len, n)
    /\ rQi' = from
    /\ rQlen' = len + n
    /\ arrived' = arrived + n
    /\ UNCHANGED <<rQbufferSize, overrun, taken>>

\* It does not, and room is made for it.
ExpandCompact(from, len, n) ==
    LET unread == len - from
        size == MinOf(Grown(n, unread), MaxGrow)
    IN /\ n > rQbufferSize - len
       /\ Grown(n, unread) <= MaxGrow \/ MaxGrow - unread >= n
       /\ rQ' = Written(Compacted(from, len, Resizes(n, unread)), unread, n)
       /\ rQi' = 0
       /\ rQlen' = unread + n
       /\ rQbufferSize' = size
       /\ arrived' = arrived + n
       /\ UNCHANGED <<overrun, taken>>

\* There is no room to be made: the exception leaves the handler of the event,
\* and the message is gone, with the size raised for an array that was not.
\* What comes after is not modelled: the stream has a hole.
Overrun(from, len, n) ==
    LET unread == len - from
    IN /\ n > rQbufferSize - len
       /\ Grown(n, unread) > MaxGrow /\ MaxGrow - unread < n
       /\ overrun' = TRUE
       /\ rQbufferSize' = MaxGrow
       /\ rQi' = from /\ rQlen' = len
       /\ UNCHANGED <<rQ, arrived, taken>>

\* An empty queue starts again at slot 0.
RecvMessage(n) ==
    LET from == IF rQlen = rQi THEN 0 ELSE rQi
        len  == IF rQlen = rQi THEN 0 ELSE rQlen
    IN Fits(from, len, n) \/ ExpandCompact(from, len, n) \/ Overrun(from, len, n)

-----------------------------------------------------------------------------
QueueTypeOK ==
    /\ rQ \in [Slots -> Nat]
    /\ rQi \in Nat /\ rQlen \in Nat /\ rQi <= rQlen
    /\ rQbufferSize \in 1 .. MaxGrow /\ rQlen <= rQbufferSize
    /\ overrun \in BOOLEAN
    /\ arrived \in Nat /\ taken \in Nat

\* However the network cuts the stream, and wherever the queue was compacted
\* or reallocated in between, what is unread is exactly what has arrived and
\* was not taken, in the order it was written.
StreamKept ==
    /\ taken + Avail = arrived
    /\ \A k \in 1 .. Avail : Peek(k) = taken + k

=============================================================================
