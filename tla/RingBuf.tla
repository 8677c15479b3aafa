------------------------------- MODULE RingBuf -------------------------------
(***************************************************************************)
(* The byte ring of barebuf.h.  head and tail are absolute cursors of W    *)
(* values (size_t): they are masked only when the buffer is accessed, wrap *)
(* around past W - 1 and never go back, so that "full" and "empty" differ. *)
(* TypedRingBuf is the same ring with one element moved per call.          *)
(***************************************************************************)
EXTENDS Integers, Sequences

CONSTANTS
    Bytes,
    Inputs,   \* the byte strings a caller writes
    Sizes,    \* the numbers of bytes a caller asks for
    N,        \* rb->cap, a power of two
    W         \* the number of values of a cursor (2^64 in the code)

ASSUME RingAssumption ==
    /\ N \in Nat \ {0}
    /\ W \in Nat /\ W > N /\ W % N = 0
    /\ Inputs \subseteq Seq(Bytes)
    /\ Sizes \subseteq Nat

VARIABLES
    buf,    \* rb->buf
    head,   \* rb->head
    tail,   \* rb->tail
    got     \* the bytes the last read, peek or pop copied out

ringVars == <<buf, head, tail, got>>

\* The least capacity, then the doublings of _rb_next_pow2.
Rounded(least, n) ==
    CHOOSE p \in {least * 2 ^ e : e \in 0 .. n} :
        p >= n /\ \A e \in 0 .. n : least * 2 ^ e >= n => p <= least * 2 ^ e

RingLen(h, t) == (t - h) % W
Lesser(m, n) == IF m < n THEN m ELSE n
Used == RingLen(head, tail)
Space == N - Used
IsFull == Used = N
IsEmpty == tail = head

Masked_OffByOne(cursor, i) == (cursor + i) % (N - 1)
Masked(cursor, i) == ((cursor + i) % W) % N

Moved(cursor, n) == (cursor + n) % W

RingInit ==
    /\ buf \in [0 .. N - 1 -> Bytes]
    /\ head = 0 /\ tail = 0
    /\ got = <<>>

\* The first n bytes of s, stored behind tail.
Stored(s, n) ==
    [j \in DOMAIN buf |-> IF \E i \in 0 .. n - 1 : Masked(tail, i) = j
                            THEN s[1 + CHOOSE i \in 0 .. n - 1 : Masked(tail, i) = j]
                            ELSE buf[j]]

CanWrite(s) == Lesser(Len(s), Space)

Write(s) ==
    /\ buf' = Stored(s, CanWrite(s))
    /\ tail' = Moved(tail, CanWrite(s))
    /\ UNCHANGED <<head, got>>

CanRead(n) == Lesser(n, Used)
Copied(n) == [i \in 1 .. n |-> buf[Masked(head, i - 1)]]

Read(n) ==
    /\ got' = Copied(CanRead(n))
    /\ head' = Moved(head, CanRead(n))
    /\ UNCHANGED <<buf, tail>>

Peek(n) ==
    /\ got' = Copied(CanRead(n))
    /\ UNCHANGED <<buf, head, tail>>

Discard(n) ==
    /\ head' = Moved(head, CanRead(n))
    /\ UNCHANGED <<buf, tail, got>>

ClearRing ==
    /\ head' = 0 /\ tail' = 0
    /\ UNCHANGED <<buf, got>>

\* typed_ringbuf_push, _pop and _peek_front leave everything alone when they
\* answer false.
TypedPush(b) ==
    /\ ~IsFull
    /\ buf' = [buf EXCEPT ![Masked(tail, 0)] = b]
    /\ tail' = Moved(tail, 1)
    /\ UNCHANGED <<head, got>>

TypedPop ==
    /\ ~IsEmpty
    /\ got' = <<buf[Masked(head, 0)]>>
    /\ head' = Moved(head, 1)
    /\ UNCHANGED <<buf, tail>>

TypedPeek ==
    /\ ~IsEmpty
    /\ got' = <<buf[Masked(head, 0)]>>
    /\ UNCHANGED <<buf, head, tail>>

RingNext ==
    \/ \E s \in Inputs : Write(s)
    \/ \E n \in Sizes : Read(n) \/ Peek(n) \/ Discard(n)
    \/ \E b \in Bytes : TypedPush(b)
    \/ TypedPop
    \/ TypedPeek
    \/ ClearRing

RingSpec == RingInit /\ [][RingNext]_ringVars

-----------------------------------------------------------------------------

(* The cursors never drift more than the capacity apart, across the wrap   *)
(* of the cursors themselves: a length is never a huge unsigned number.    *)
RingTypeOK ==
    /\ buf \in [0 .. N - 1 -> Bytes]
    /\ head \in 0 .. W - 1
    /\ tail \in 0 .. W - 1
    /\ Used <= N
    /\ got \in Seq(Bytes)

\* A typed push writes one element, a typed pop or peek asks for one.
Queue == INSTANCE ByteQueue WITH
           queue <- Copied(Used), taken <- got, Capacity <- N,
           Inputs <- Inputs \union {<<b>> : b \in Bytes},
           Sizes <- Sizes \union {1}

(* The ring is a bounded byte queue: what is read is what was written, in  *)
(* order, whatever the wraps of the index and of the cursors.              *)
ImplementsByteQueue == Queue!QueueSpec
=============================================================================
