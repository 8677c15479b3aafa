------------------------------- MODULE Streams -------------------------------
(***************************************************************************)
(* The readers and writers of bareio.h: the buffered reader, the buffered  *)
(* writer with the tee, the memory writers and io_copy, and the typed      *)
(* binary values.  The three share no state.                               *)
(***************************************************************************)
EXTENDS ArenaOps, FiniteSetsExt, SequencesExt

-----------------------------------------------------------------------------
(***************************************************************************)
(* The buffered reader of bareio.h over a source that gives at most what   *)
(* it is asked for: a memory or stdio reader all it can, a descriptor any  *)
(* part of it.  buf_read copies into the caller's memory; buf_read_line    *)
(* pushes each piece of a line into the caller's arena and takes the       *)
(* pieces for one string that starts at the first.                         *)
(***************************************************************************)
CONSTANTS
    Sources,      \* the byte strings a source may hold
    CR, LF,       \* '\r' and '\n'
    BufCap,       \* cap of the BufReader
    ReadSizes,    \* the n of buf_read
    LineArena,    \* cap of the head chunk of the arena lines go to
    MaxCalls      \* bound on the calls of a session

SourceBytes == UNION {Range(s) : s \in Sources}

ASSUME ReaderAssumption ==
    /\ BufCap \in Nat \ {0} /\ CR # LF
    /\ Sources \subseteq Seq(SourceBytes) /\ ReadSizes \subseteq Nat

VARIABLES
    data,      \* what the source held at the start (history)
    short,     \* the source may read short: reader_from_osfile
    rest,      \* what the source still holds
    buf, pos,  \* the bytes buf[0 .. fill), and the next one to give
    eof,
    rcall,     \* the call under way: its op, its n, the bytes it has taken
    arena,     \* the chunks lines go to
    line,      \* buf_read_line's locals: start, len, and whether they are one piece
    results    \* what the calls returned (history)

readVars == <<data, short, rest, buf, pos, eof, rcall, arena, line, results>>

Asked(op, n) == [op |-> op, n |-> n, out |-> <<>>]
Idle == Asked("none", 0)
NoLine == [start |-> <<>>, len |-> 0, whole |-> TRUE]
Unread == SubSeq(buf, pos + 1, Len(buf))
Drained == pos >= Len(buf)

ReadInit ==
    /\ data \in Sources /\ short \in BOOLEAN
    /\ rest = data
    /\ buf = <<>> /\ pos = 0 /\ eof = FALSE
    /\ rcall = Idle
    /\ arena = <<Chunk(LineArena)>> /\ line = NoLine
    /\ results = <<>>

\* The numbers of bytes read_fn may return when it is asked for n.
Got(n) ==
    LET most == Larger(0, IF n < Len(rest) THEN n ELSE Len(rest))
    IN  IF short /\ most > 0 THEN 1 .. most ELSE {most}

Return(result) ==
    /\ results' = Append(results, result)
    /\ rcall' = Idle /\ line' = NoLine

BufReadCall(n) ==
    /\ rcall = Idle
    /\ rcall' = Asked("read", n)
    /\ UNCHANGED <<data, short, rest, buf, pos, eof, arena, line, results>>

\* str_null at the end of the source, before anything is looked at.
ReadLineCall ==
    /\ rcall = Idle
    /\ IF eof /\ Drained
       THEN Return([op |-> "null"])
       ELSE rcall' = Asked("line", 0) /\ UNCHANGED <<line, results>>
    /\ UNCHANGED <<data, short, rest, buf, pos, eof, arena>>

Wanting == rcall.op = "line" \/ Len(rcall.out) < rcall.n

\* Whether a source that gave k bytes of n has ended.
Ended_OnShortRead(k, n) == k < n
Ended(k, n) == k = 0

\* _bufreader_refill: what is unread moves to the front, the rest of the buffer
\* is asked of the source.
Refill ==
    /\ rcall # Idle /\ Wanting /\ Drained /\ ~eof
    /\ LET kept == Unread IN
       \E k \in Got(BufCap - Len(kept)) :
          /\ buf' = kept \o SubSeq(rest, 1, k)
          /\ rest' = SubSeq(rest, k + 1, Len(rest))
          /\ eof' = Ended(k, BufCap - Len(kept))
    /\ pos' = 0
    /\ UNCHANGED <<data, short, rcall, arena, line, results>>

\* One turn of buf_read's loop.
TakeBytes ==
    /\ rcall.op = "read" /\ Wanting /\ ~Drained
    /\ LET want == rcall.n - Len(rcall.out)
           take == IF want < Len(Unread) THEN want ELSE Len(Unread)
       IN  /\ rcall' = [rcall EXCEPT !.out = @ \o SubSeq(Unread, 1, take)]
           /\ pos' = pos + take
    /\ UNCHANGED <<data, short, rest, buf, eof, arena, line, results>>

ReadReturns ==
    /\ rcall.op = "read" /\ (Wanting => Drained /\ eof)
    /\ Return([op |-> "read", n |-> rcall.n, out |-> rcall.out])
    /\ UNCHANGED <<data, short, rest, buf, pos, eof, arena>>

Strippable(c) == c \in {CR, LF}
Stripped(s) == SubSeq(s, 1, SelectLastInSeq(s, LAMBDA c : ~Strippable(c)))

LineResult(out, l) ==
    IF l.start = <<>> THEN [op |-> "null"]
                      ELSE [op |-> "line", text |-> Stripped(out), whole |-> l.whole]

\* The place of the first newline, counted from 1; 0 if there is none.
Newline(s) == SelectInSeq(s, LAMBDA c : c = LF)

\* One turn of buf_read_line's loop: a piece up to the newline, or all there is.
TakePiece ==
    /\ rcall.op = "line" /\ ~Drained
    /\ LET nl == Newline(Unread)
           take == IF nl > 0 THEN nl ELSE Len(Unread)
           pushed == Push(arena, take, 1)
           start == IF line.start = <<>> THEN <<pushed.block>> ELSE line.start
           l == [start |-> start, len |-> line.len + take,
                 whole |-> /\ line.whole
                           /\ pushed.block.chunk = start[1].chunk
                           /\ pushed.block.lo = start[1].lo + line.len]
           out == rcall.out \o SubSeq(Unread, 1, take)
       IN  /\ arena' = pushed.chunks
           /\ pos' = pos + take
           /\ IF nl > 0 THEN Return(LineResult(out, l))
                        ELSE /\ line' = l /\ rcall' = [rcall EXCEPT !.out = out]
                             /\ UNCHANGED results
    /\ UNCHANGED <<data, short, rest, buf, eof>>

LineEnds ==
    /\ rcall.op = "line" /\ Drained /\ eof
    /\ Return(LineResult(rcall.out, line))
    /\ UNCHANGED <<data, short, rest, buf, pos, eof, arena>>

ReadStep == Refill \/ TakeBytes \/ ReadReturns \/ TakePiece \/ LineEnds

ReadNext ==
    \/ /\ Len(results) < MaxCalls
       /\ ReadLineCall \/ \E n \in ReadSizes : BufReadCall(n)
    \/ ReadStep
----------------------------------------------------------------------------
(* What a reader with no buffer would have answered. *)

After(source, at) == SubSeq(source, at + 1, Len(source))

\* The line that starts behind byte "at", its newline with it.
LineAt(source, at) ==
    LET nl == Newline(After(source, at))
    IN  IF nl > 0 THEN SubSeq(After(source, at), 1, nl) ELSE After(source, at)

\* The result the source's bytes behind "at" call for, and how many it takes.
Exact(source, result, at) ==
    CASE result.op = "read" ->
             /\ IsPrefix(result.out, After(source, at))
             /\ Len(result.out) < result.n => Len(result.out) = Len(After(source, at))
      [] result.op = "line" ->
             /\ LineAt(source, at) # <<>>
             /\ result.whole => result.text = Stripped(LineAt(source, at))
      [] result.op = "null" -> After(source, at) = <<>>

Width(source, result, at) ==
    CASE result.op = "read" -> Len(result.out)
      [] result.op = "line" -> Len(LineAt(source, at))
      [] result.op = "null" -> 0

\* How many of the source's bytes the first i results have taken.
Places ==
    LET at[i \in 0 .. Len(results)] ==
            IF i = 0 THEN 0 ELSE at[i - 1] + Width(data, results[i], at[i - 1])
    IN  at

\* Whatever mix of buf_read and buf_read_line a session makes, and however short
\* the source reads, each call returns what stands next in the source: a read
\* less than n only at its end, a line up to its newline and stripped of it,
\* str_null only when nothing is left; nothing is skipped or given twice.  The
\* text of a line is right if the arena put its pieces behind each other.
ReadsAreExact ==
    /\ \A i \in DOMAIN results : Exact(data, results[i], Places[i - 1])
    /\ rcall.out \o Unread \o rest = After(data, Places[Len(results)])

\* The end of the source is believed only when it has come: a refill that asked
\* for no byte would set eof while the source still holds some.
EofIsReal == eof => rest = <<>>

-----------------------------------------------------------------------------
(***************************************************************************)
(* The writers of bareio.h: a BufWriter whose destination is a tee of two  *)
(* MemWriters, and io_copy, which moves a source through the tee itself.   *)
(***************************************************************************)
CONSTANTS
    NL,            \* '\n'
    Texts,         \* what a call of buf_write gets, what a source of io_copy holds
    WriteCap,      \* cap of the BufWriter
    MemCaps,       \* the two initial caps of the MemWriters
    DefaultCap,    \* 256: a MemWriter's cap if the caller gives 0
    CopySize,      \* KB(4): the piece io_copy moves
    MaxWritten     \* bound on the bytes of a session

TextBytes == UNION {Range(s) : s \in Texts}

ASSUME WriterAssumption ==
    /\ WriteCap \in Nat \ {0} /\ CopySize \in Nat \ {0} /\ DefaultCap \in Nat \ {0}
    /\ MemCaps \subseteq Nat \X Nat /\ Texts \subseteq Seq(TextBytes)

VARIABLES
    lineBuffered,
    wbuf,       \* the bytes of the BufWriter not flushed yet
    mem,        \* the two MemWriters: their bytes and their cap
    wcall,      \* the call under way and the bytes it has still to take
    written     \* every byte a call has taken, in order (history)

writeVars == <<lineBuffered, wbuf, mem, wcall, written>>

Writing(op, left) == [op |-> op, left |-> left]
NoWrite == Writing("none", <<>>)

\* writer_to_mem.
MemWriter(cap) == [data |-> <<>>, cap |-> IF cap = 0 THEN DefaultCap ELSE cap]

WriteInit ==
    /\ lineBuffered \in BOOLEAN
    /\ wbuf = <<>>
    /\ \E caps \in MemCaps : mem = [i \in {1, 2} |-> MemWriter(caps[i])]
    /\ wcall = NoWrite
    /\ written = <<>>

\* The first of 2 cap, 4 cap, 8 cap... that holds need.
Doubled(cap, need) ==
    LET size[k \in 0 .. need] == IF k = 0 THEN 2 * cap ELSE 2 * size[k - 1]
        first == CHOOSE k \in 0 .. need : /\ size[k] >= need
                                          /\ \A j \in 0 .. k - 1 : size[j] < need
    IN  size[first]

\* _mem_write_fn.
MemWrite(mw, s) ==
    LET need == Len(mw.data) + Len(s)
    IN  [data |-> mw.data \o s,
         cap |-> IF need > mw.cap THEN Doubled(mw.cap, need) ELSE mw.cap]

\* _tee_write_fn: the first writer, then the second.
Tee(s) == [i \in {1, 2} |-> MemWrite(mem[i], s)]

BufWriteCall(s) ==
    /\ wcall = NoWrite
    /\ wcall' = Writing("write", s)
    /\ UNCHANGED <<lineBuffered, wbuf, mem, written>>

HasNewline(s) == Contains(s, NL)

\* One turn of buf_write's loop: flush a full buffer, put what fits, flush again
\* if a newline went in and the writer is line buffered.
WriteTurn ==
    /\ wcall.op = "write" /\ wcall.left # <<>>
    /\ LET full == Len(wbuf) = WriteCap
           kept == IF full THEN <<>> ELSE wbuf
           space == WriteCap - Len(kept)
           piece == SubSeq(wcall.left, 1, Min({space, Len(wcall.left)}))
           filled == kept \o piece
           flush == lineBuffered /\ HasNewline(piece)
           once == IF full THEN Tee(wbuf) ELSE mem
       IN  /\ mem' = IF flush THEN [i \in {1, 2} |-> MemWrite(once[i], filled)] ELSE once
           /\ wbuf' = IF flush THEN <<>> ELSE filled
           /\ wcall' = Writing("write", SubSeq(wcall.left, Len(piece) + 1, Len(wcall.left)))
           /\ written' = written \o piece
    /\ UNCHANGED lineBuffered

WriteReturns ==
    /\ wcall.op = "write" /\ wcall.left = <<>>
    /\ wcall' = NoWrite
    /\ UNCHANGED <<lineBuffered, wbuf, mem, written>>

BufFlush ==
    /\ wcall = NoWrite /\ wbuf # <<>>
    /\ mem' = Tee(wbuf) /\ wbuf' = <<>>
    /\ UNCHANGED <<lineBuffered, wcall, written>>

\* io_copy into the tee.  It is for a destination nothing is buffered for: the
\* buffer is flushed before.
CopyCall(s) ==
    /\ wcall = NoWrite /\ wbuf = <<>>
    /\ wcall' = Writing("copy", s)
    /\ UNCHANGED <<lineBuffered, wbuf, mem, written>>

\* One turn of io_copy: the source gives at least a byte, or has ended.
CopyTurn ==
    /\ wcall.op = "copy"
    /\ IF wcall.left = <<>>
       THEN wcall' = NoWrite /\ UNCHANGED <<mem, written>>
       ELSE \E k \in 1 .. Len(wcall.left) :
              /\ k <= CopySize
              /\ LET got == SubSeq(wcall.left, 1, k) IN
                 /\ mem' = Tee(got)
                 /\ written' = written \o got
                 /\ wcall' = Writing("copy", SubSeq(wcall.left, k + 1, Len(wcall.left)))
    /\ UNCHANGED <<lineBuffered, wbuf>>

WriteNext ==
    \/ \E s \in Texts : /\ Len(written) + Len(s) <= MaxWritten
                        /\ BufWriteCall(s) \/ CopyCall(s)
    \/ WriteTurn \/ WriteReturns \/ BufFlush \/ CopyTurn

----------------------------------------------------------------------------
(* Properties *)

\* Both sinks of a tee hold the same, and with the buffer behind it everything
\* written, in order, whatever flushes came between; each sink has room for what
\* it holds.
SinksHoldWritten ==
    \A i \in {1, 2} : /\ mem[i].data \o wbuf = written
                      /\ Len(mem[i].data) <= mem[i].cap

\* Between calls of a line-buffered writer no finished line waits in the buffer,
\* although the scan looks only at the bytes of the last turn.
NoLineWaits == lineBuffered => ~HasNewline(wbuf)

-----------------------------------------------------------------------------
(***************************************************************************)
(* Typed binary I/O of bareio.h: integers of 1, 2, 4 and 8 bytes, little   *)
(* and big endian, signed and not, and strings behind a 16-bit length.  A  *)
(* program writes values to memory and then reads them back by the same    *)
(* types.                                                                  *)
(***************************************************************************)
CONSTANTS
    Radix,      \* the values of a byte: 256
    Items,      \* the typed values a program writes
    MaxItems    \* bound on how many

VARIABLES
    items,     \* what was written (history)
    bytes,     \* what the writer got and the reader has not given
    reads      \* what the reads returned, one for each item

typedVars == <<items, bytes, reads>>

\* The values of w bytes: Radix to the power w.
Values(w) ==
    LET power[i \in 0 .. w] == IF i = 0 THEN 1 ELSE Radix * power[i - 1]
    IN  power[w]

\* v, v >> 8, v >> 16 ... up to w bytes on.
Shifts(v, w) ==
    LET shift[i \in 0 .. w] == IF i = 0 THEN v ELSE shift[i - 1] \div Radix
    IN  shift

\* io_write_u16le .. io_write_u64le, and the big-endian ones.
LE(v, w) == [i \in 1 .. w |-> Shifts(v, w)[i - 1] % Radix]
BE(v, w) == Reverse(LE(v, w))

\* io_read_u16le .. io_read_u64le, and the big-endian ones: from the high byte on.
FromBE(b) ==
    LET read[i \in 0 .. Len(b)] == IF i = 0 THEN 0 ELSE Radix * read[i - 1] + b[i]
    IN  read[Len(b)]
FromLE(b) == FromBE(Reverse(b))

\* The casts of the signed variants, both ways, at the width of the type.
ToUnsigned(v, w) == v % Values(w)
ToSigned(u, w) == IF 2 * u < Values(w) THEN u ELSE u - Values(w)

\* io_write_pstr16: what does not fit the length is cut.
LongestString == Values(2) - 1
Cut(s) == SubSeq(s, 1, Min({Len(s), LongestString}))

Encoded(t) ==
    CASE t.type = "pstr16" -> LE(Len(Cut(t.value)), 2) \o Cut(t.value)
      [] t.type = "int" /\ t.big -> BE(ToUnsigned(t.value, t.width), t.width)
      [] OTHER -> LE(ToUnsigned(t.value, t.width), t.width)

\* The values of a C type, and byte strings.
TypeHas(t) ==
    IF t.type = "pstr16" THEN t.value \in Seq(0 .. Radix - 1)
    ELSE /\ t.width \in {1, 2, 4, 8} /\ t.big \in BOOLEAN /\ t.signed \in BOOLEAN
         /\ t.value \in Int
         /\ IF t.signed THEN -Values(t.width) <= 2 * t.value /\ 2 * t.value < Values(t.width)
                        ELSE 0 <= t.value /\ t.value < Values(t.width)

ASSUME TypedAssumption ==
    /\ Radix \in Nat \ {0, 1}
    /\ \A t \in Items : t.type \in {"pstr16", "int"} /\ TypeHas(t)

TypedInit == items = <<>> /\ bytes = <<>> /\ reads = <<>>

WriteTyped(t) ==
    /\ Len(items) < MaxItems /\ reads = <<>>
    /\ items' = Append(items, t)
    /\ bytes' = bytes \o Encoded(t)
    /\ UNCHANGED reads

Lost == [ok |-> FALSE]
Given(v) == [ok |-> TRUE, value |-> v]

\* io_read_i8 .. io_read_i64be: one call of read_fn for all the bytes; fewer are
\* lost, and the value is not set.
ReadInt(t, got) ==
    LET raw == SubSeq(bytes, 1, got)
        u == IF t.big THEN FromBE(raw) ELSE FromLE(raw)
    IN  /\ bytes' = SubSeq(bytes, got + 1, Len(bytes))
        /\ reads' = Append(reads,
                           IF got # t.width THEN Lost
                           ELSE Given(IF t.signed THEN ToSigned(u, t.width) ELSE u))

\* io_read_pstr16 from memory, which gives all it has.
ReadString ==
    LET len == FromLE(SubSeq(bytes, 1, 2))
        got == Min({len, Len(bytes) - 2})
    IN  IF Len(bytes) < 2
        THEN bytes' = <<>> /\ reads' = Append(reads, Lost)
        ELSE /\ bytes' = SubSeq(bytes, 3 + got, Len(bytes))
             /\ reads' = Append(reads,
                                IF got < len THEN Lost ELSE Given(SubSeq(bytes, 3, 2 + len)))

ReadTyped ==
    /\ Len(reads) < Len(items)
    /\ LET t == items[Len(reads) + 1] IN
       IF t.type = "pstr16" THEN ReadString
                            ELSE ReadInt(t, Min({t.width, Len(bytes)}))
    /\ UNCHANGED items

TypedNext == (\E t \in Items : WriteTyped(t)) \/ ReadTyped

----------------------------------------------------------------------------
\* Every value written to memory is read back by its type as it was, a negative
\* one with its sign and a long string cut, and no read leaves a byte behind or
\* takes one of the next item.
TypedRoundTrip ==
    \A i \in DOMAIN reads :
        /\ reads[i].ok
        /\ reads[i].value = IF items[i].type = "pstr16" THEN Cut(items[i].value)
                                                        ELSE items[i].value

-----------------------------------------------------------------------------
\* The three together: a step of one leaves the others alone.
StreamsNext ==
    \/ ReadNext /\ UNCHANGED <<writeVars, typedVars>>
    \/ WriteNext /\ UNCHANGED <<readVars, typedVars>>
    \/ TypedNext /\ UNCHANGED <<readVars, writeVars>>

StreamsSpec ==
    /\ ReadInit /\ WriteInit /\ TypedInit
    /\ [][StreamsNext]_<<readVars, writeVars, typedVars>>

\* Buffers, pieces and types between a program and its bytes lose and change
\* nothing: buf_read and buf_read_line, buf_write and io_copy, io_write_* and
\* io_read_*.
StreamsExact == ReadsAreExact /\ EofIsReal /\ SinksHoldWritten /\ NoLineWaits /\ TypedRoundTrip
=============================================================================
