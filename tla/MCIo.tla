-------------------------------- MODULE MCIo --------------------------------
(***************************************************************************)
(* Readers and writers (bareio.h), sockets and framing (barenet.h), clocks *)
(* (baretime.h) and the hash map (barestd.h) share no state: each          *)
(* behaviour exercises one of them ("subject") and leaves the others in    *)
(* one initial state.                                                      *)
(***************************************************************************)
EXTENDS Streams, Framing, Sockets, Clock, RobinHood

CONSTANTS x, k1, k2, k3, k4

VARIABLE subject

\* Every source of up to four bytes, newlines of both kinds among them.
MCSources == SeqOf({x, CR, LF}, 4)

\* Lines, parts of lines and more than the buffer holds.
MCTexts == {<<x>>, <<NL>>, <<x, NL, x>>, <<x, x, x, x>>, <<NL, x, x, NL, x>>}
MCMemCaps == {<<0, 1>>}

\* With bytes of one bit: all widths, the least and the greatest values, and a
\* string longer than its length can say.
Number(width, big, signed, value) ==
    [type |-> "int", width |-> width, big |-> big, signed |-> signed, value |-> value]
Str(value) == [type |-> "pstr16", value |-> value]
MCItems ==
    {Number(2, big, FALSE, 2) : big \in BOOLEAN} \cup {Number(4, big, TRUE, -7) : big \in BOOLEAN}
    \cup {Number(1, FALSE, FALSE, 1), Number(1, FALSE, TRUE, -1), Number(8, TRUE, FALSE, 200),
          Number(8, FALSE, TRUE, -128), Str(<<>>), Str(<<1, 0>>), Str(<<1, 1, 0, 1>>)}

\* Messages of no bytes, one, and more than a length's first byte counts.
MCMessages == {<<>>, <<1>>, <<1, 0, 1>>}

\* Four keys in a map that grows from four buckets to eight: two share their home
\* in both tables, a third lies in the way of their run, which wraps around the end
\* of the small table, and the fourth hashes to 0 before the code replaces it.
MCKeys == {k1, k2, k3, k4}
MCRaw == [k \in MCKeys |-> CASE k = k1 -> 3
                             [] k = k2 -> 11
                             [] k = k3 -> 4
                             [] k = k4 -> 0]

Io ==
    /\ subject \in {"reader", "writer", "typed", "framing", "sockets", "clock", "map"}
    /\ ReadInit /\ WriteInit /\ TypedInit /\ FramingInit /\ SockInit /\ ClockInit
    /\ MapInit
    /\ subject # "reader" => data = <<>> /\ ~short
    /\ subject # "writer" => ~lineBuffered
    /\ subject # "clock" => skew = 0

IoNext ==
    /\ UNCHANGED subject
    /\ \/ /\ subject = "reader" /\ ReadNext
          /\ UNCHANGED <<writeVars, typedVars, linkVars, sockVars, clockVars, mapVars>>
       \/ /\ subject = "writer" /\ WriteNext
          /\ UNCHANGED <<readVars, typedVars, linkVars, sockVars, clockVars, mapVars>>
       \/ /\ subject = "typed" /\ TypedNext
          /\ UNCHANGED <<readVars, writeVars, linkVars, sockVars, clockVars, mapVars>>
       \/ /\ subject = "framing" /\ FramingNext
          /\ UNCHANGED <<readVars, writeVars, typedVars, sockVars, clockVars, mapVars>>
       \/ /\ subject = "sockets" /\ SockNext
          /\ UNCHANGED <<readVars, writeVars, typedVars, linkVars, clockVars, mapVars>>
       \/ /\ subject = "clock" /\ ClockNext
          /\ UNCHANGED <<readVars, writeVars, typedVars, linkVars, sockVars, mapVars>>
       \/ /\ subject = "map" /\ TableNext
          /\ UNCHANGED <<readVars, writeVars, typedVars, linkVars, sockVars, clockVars>>

ioVars == <<subject, readVars, writeVars, typedVars, linkVars, sockVars, clockVars, mapVars>>

\* The two ends of a link run: a call that can go on does.  So does a call of the
\* map, as in FairMapSpec.
IoSpec ==
    Io /\ [][IoNext]_ioVars
       /\ WF_linkVars(subject = "framing" /\ SenderStep)
       /\ WF_linkVars(subject = "framing" /\ ReceiverStep)
       /\ WF_mapVars(subject = "map" /\ Step)
=============================================================================
