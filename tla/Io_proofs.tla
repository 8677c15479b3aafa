------------------------------ MODULE Io_proofs ------------------------------
(***************************************************************************)
(* Proofs about barenet.h, for any number of threads and of descriptors,   *)
(* any messages and any way the kernel cuts the stream; about baretime.h,  *)
(* for any units and times; and about bareio.h, for any source, buffers    *)
(* and sizes and however short the source reads.  What the buffered reader *)
(* gave, the call's own bytes, the buffer's and the source's are always    *)
(* four parts of the source that meet; what the io_write calls encode, the *)
(* io_read calls decode, since shifting out and reading in undo each       *)
(* other.                                                                  *)
(***************************************************************************)
EXTENDS Streams, Framing, Sockets, Clock, FiniteSetTheorems, SequenceTheorems, RingLemmas, TLAPS

\* The calls that hold a descriptor of their own, and those that hold an addrinfo
\* list.
HoldsFd == {<<"connect", "connect">>, <<"listen", "bind">>, <<"bind", "bind">>,
            <<"listen", "listen">>}
HoldsInfo == {<<"listen", "socket">>, <<"bind", "socket">>, <<"listen", "bind">>,
              <<"bind", "bind">>}

SockTypeOK ==
    /\ opened \subseteq Fds
    /\ fd \in [Threads -> Fds \union {NoFd}]
    /\ held \in [Threads -> SUBSET Fds]
    /\ DOMAIN stage = Threads

Owns(t, f) == f \in held[t] \/ (f = fd[t] /\ f # NoFd)

\* Each open descriptor is in one hand.
InOneHand ==
    /\ \A f \in opened : \E t \in Threads : Owns(t, f)
    /\ \A t \in Threads, f \in Fds : Owns(t, f) => f \in opened
    /\ \A t, u \in Threads, f \in Fds : Owns(t, f) /\ Owns(u, f) => t = u
    /\ \A t \in Threads : fd[t] \notin held[t]

SockInv ==
    /\ SockTypeOK
    /\ InOneHand
    /\ \A t \in Threads : fd[t] # NoFd <=> stage[t] \in HoldsFd
    /\ \A t \in infos : t \in Threads /\ stage[t] \in HoldsInfo

\* An idle thread holds nothing, and no other stage is the idle one.
LEMMA Stages ==
    /\ <<"idle">> \notin HoldsFd /\ <<"idle">> \notin HoldsInfo
    /\ \A c, w : <<c, w>> # <<"idle">>
    BY DEF HoldsFd, HoldsInfo

\* With every descriptor in one hand, opens and closes balance.
LEMMA HandsBalance == SockInv => SocketsSound
<1> SUFFICES ASSUME SockInv PROVE SocketsSound
    OBVIOUS
<1> USE NoFdAssumption DEF SockInv, SockTypeOK, InOneHand, Owns
<1>1. opened = (UNION {held[t] : t \in Threads}) \cup ({fd[t] : t \in Threads} \ {NoFd})
    <2>1. \A f \in opened : f \in (UNION {held[t] : t \in Threads}) \cup ({fd[t] : t \in Threads} \ {NoFd})
        <3> TAKE f \in opened
        <3>1. PICK t \in Threads : f \in held[t] \/ f = fd[t]
            OBVIOUS
        <3>2. CASE f \in held[t]
            BY <3>2
        <3>3. CASE f = fd[t]
            BY <3>3
        <3> QED
            BY <3>1, <3>2, <3>3
    <2>2. (UNION {held[t] : t \in Threads}) \subseteq opened
        OBVIOUS
    <2>3. {fd[t] : t \in Threads} \ {NoFd} \subseteq opened
        OBVIOUS
    <2> QED
        BY <2>1, <2>2, <2>3
<1>2. \A t, u \in Threads : t # u =>
          /\ held[t] \cap held[u] = {}
          /\ fd[t] = NoFd \/ fd[t] \notin held[u] \cup {fd[u]}
    OBVIOUS
<1>3. \A t \in infos : stage[t] # <<"idle">>
    BY Stages
<1> QED
    BY <1>1, <1>2, <1>3 DEF SocketsSound

\* No call holds a descriptor at first.
LEMMA SockInitInv == SockInit => SockInv
<1> SUFFICES ASSUME SockInit PROVE SockInv
    OBVIOUS
<1>1. SockTypeOK
    BY DEF SockInit, SockTypeOK
<1>2. InOneHand
    BY DEF SockInit, InOneHand, Owns
<1> QED
    BY <1>1, <1>2, Stages DEF SockInit, SockInv

-----------------------------------------------------------------------------
\* What every step of a call does: thread t goes to stage st with f in its hand
\* and g given to its program, and nobody else's change.
Moves(t, st, f, g) ==
    /\ stage' = [stage EXCEPT ![t] = st]
    /\ fd' = [fd EXCEPT ![t] = f]
    /\ held' = [held EXCEPT ![t] = @ \union ({g} \ {NoFd})]

\* A descriptor stays in the hand of t, moves to its program, is closed or is new.
LEMMA MovesInv ==
    ASSUME SockInv, NEW t \in Threads, NEW st, NEW f \in Fds \union {NoFd}, NEW g \in Fds \union {NoFd},
           Moves(t, st, f, g),
           f # NoFd <=> st \in HoldsFd,
           infos' = infos \/ infos' = infos \union {t} \/ infos' = infos \ {t},
           t \in infos' => st \in HoldsInfo,
           f = NoFd \/ g = NoFd,
           \/ UNCHANGED opened /\ {f, g} = {fd[t], NoFd}
           \/ Closes(fd[t]) /\ f = NoFd /\ g = NoFd /\ fd[t] # NoFd
           \/ \E n \in Fds \ opened : opened' = opened \union {n} /\ {f, g} = {n, NoFd} /\ fd[t] = NoFd
    PROVE  SockInv'
<1> USE NoFdAssumption
<1>1. SockTypeOK /\ InOneHand
    BY DEF SockInv
<1>2. /\ \A u \in Threads : stage'[u] = IF u = t THEN st ELSE stage[u]
      /\ \A u \in Threads : fd'[u] = IF u = t THEN f ELSE fd[u]
      /\ \A u \in Threads : held'[u] = IF u = t THEN held[t] \union ({g} \ {NoFd}) ELSE held[u]
    BY <1>1 DEF Moves, SockTypeOK
<1>3. DOMAIN stage' = Threads /\ fd' \in [Threads -> Fds \union {NoFd}] /\ held' \in [Threads -> SUBSET Fds]
    BY <1>1 DEF Moves, SockTypeOK
<1>5. \A u \in Threads : fd'[u] # NoFd <=> stage'[u] \in HoldsFd
    BY <1>2 DEF SockInv
<1>6. \A u \in infos' : u \in Threads /\ stage'[u] \in HoldsInfo
    BY <1>2 DEF SockInv
<1>7. opened' \subseteq Fds
    BY <1>1 DEF SockTypeOK, Closes
<1>8. \A u \in Threads : fd'[u] \notin held'[u]
    <2>1. fd[t] \notin held[t] /\ held[t] \subseteq opened
        BY <1>1 DEF InOneHand, SockTypeOK, Owns
    <2>2. f # NoFd => g = NoFd /\ f \notin held[t]
        <3>1. CASE UNCHANGED opened /\ {f, g} = {fd[t], NoFd}
            BY <2>1, <3>1
        <3>2. ASSUME NEW n \in Fds \ opened, {f, g} = {n, NoFd}
              PROVE  f # NoFd => g = NoFd /\ f \notin held[t]
            BY <2>1, <3>2
        <3> QED
            BY <3>1, <3>2
    <2>3. NoFd \notin held[t]
        BY <1>1 DEF SockTypeOK
    <2> QED
        BY <1>1, <1>2, <2>2, <2>3 DEF InOneHand
<1>9. ASSUME UNCHANGED opened, {f, g} = {fd[t], NoFd}
      PROVE  InOneHand'
    <2>1. /\ opened' = opened
          /\ \/ f = fd[t] /\ g = NoFd
             \/ g = fd[t] /\ f = NoFd
        BY <1>9
    <2>2. \A u \in Threads, h \in Fds : Owns(u, h)' <=> Owns(u, h)
        BY <1>2, <2>1 DEF Owns
    <2> QED
        BY <1>1, <1>8, <2>1, <2>2 DEF InOneHand, SockTypeOK
<1>10. ASSUME Closes(fd[t]), f = NoFd, g = NoFd, fd[t] # NoFd
       PROVE  InOneHand'
    <2>1. opened' = opened \ {fd[t]} /\ fd[t] \in Fds
        BY <1>1, <1>10 DEF Closes, SockTypeOK
    <2>2. \A h \in Fds : Owns(t, h)' <=> h \in held[t]
        BY <1>2, <1>10 DEF Owns
    <2>3. \A u \in Threads, h \in Fds : u # t => (Owns(u, h)' <=> Owns(u, h))
        BY <1>2 DEF Owns
    <2>4. Owns(t, fd[t]) /\ fd[t] \notin held[t]
        BY <1>1, <1>10 DEF Owns, InOneHand
    <2>5. \A h \in Fds : h # fd[t] => (Owns(t, h)' <=> Owns(t, h))
        BY <2>2 DEF Owns
    <2>6. \A u \in Threads, h \in Fds : Owns(u, h)' <=> Owns(u, h) /\ h # fd[t]
        BY <1>1, <2>1, <2>2, <2>3, <2>4, <2>5 DEF InOneHand
    <2> QED
        BY <1>1, <1>8, <2>1, <2>6 DEF InOneHand, SockTypeOK
<1>11. ASSUME NEW n \in Fds \ opened, opened' = opened \union {n}, {f, g} = {n, NoFd}, fd[t] = NoFd
       PROVE  InOneHand'
    <2>1. /\ opened' = opened \union {n}
          /\ \/ f = n /\ g = NoFd
             \/ g = n /\ f = NoFd
        BY <1>11
    <2>2. \A u \in Threads, h \in Fds : Owns(u, h)' <=> Owns(u, h) \/ (u = t /\ h = n)
        BY <1>2, <1>11, <2>1 DEF Owns
    <2>3. \A u \in Threads : ~Owns(u, n)
        BY <1>1, <1>11 DEF InOneHand
    <2> QED
        BY <1>1, <1>8, <2>1, <2>2, <2>3 DEF InOneHand, SockTypeOK
<1> QED
    BY <1>3, <1>5, <1>6, <1>7, <1>9, <1>10, <1>11 DEF SockInv, SockTypeOK

\* The calls that connect, listen and accept keep every descriptor in one hand.
LEMMA CallInv ==
    ASSUME SockInv, NEW t \in Threads,
           \/ Call(t) \/ Resolve(t) \/ Socket(t) \/ Connect(t)
           \/ Bind(t) \/ Listen(t) \/ Accept(t)
    PROVE  SockInv'
<1> USE NoFdAssumption DEF HoldsFd, HoldsInfo
<1>1. /\ SockTypeOK /\ fd[t] \in Fds \union {NoFd} /\ \A c, w : <<c, w>> # <<"idle">>
      /\ fd[t] # NoFd <=> stage[t] \in HoldsFd
      /\ t \in infos => stage[t] \in HoldsInfo
    BY Stages DEF SockInv, SockTypeOK
<1>2. \A c, w : To(t, c, w) /\ UNCHANGED <<fd, held>> => Moves(t, <<c, w>>, fd[t], NoFd)
    BY <1>1 DEF To, Moves, SockTypeOK
<1>3. \A f \in Fds \union {NoFd} : Give(t, f) => Moves(t, <<"idle">>, NoFd, f)
    BY DEF Give, Moves
<1>4. CASE Call(t)
    <2>1. stage[t] = <<"idle">> /\ UNCHANGED <<opened, infos, fd, held>>
        BY <1>4 DEF Call
    <2>2. fd[t] = NoFd /\ t \notin infos
        BY <1>1, <2>1, Stages
    <2>3. PICK c \in Calls : To(t, c, CASE c \in {"connect", "listen", "bind"} -> "resolve"
                                        [] c = "accept" -> "accept"
                                        [] c = "udp" -> "socket")
        BY <1>4 DEF Call
    <2>4. \E w \in {"resolve", "accept", "socket"} : To(t, c, w) /\ <<c, w>> \notin HoldsFd
        BY <2>3 DEF Calls
    <2> QED
        BY <1>2, <2>1, <2>2, <2>4, MovesInv
<1>5. CASE Resolve(t)
    <2>1. PICK c \in {"connect", "listen", "bind"} :
            /\ At(t, c, "resolve")
            /\ \/ /\ To(t, c, "socket")
                  /\ infos' = IF c = "connect" THEN infos ELSE infos \cup {t}
                  /\ UNCHANGED <<fd, held>>
               \/ Give(t, NoFd) /\ UNCHANGED infos
            /\ UNCHANGED opened
        BY <1>5 DEF Resolve
    <2>2. fd[t] = NoFd /\ t \notin infos
        BY <1>1, <2>1 DEF At
    <2>3. CASE Give(t, NoFd) /\ UNCHANGED infos
        BY <1>3, <2>1, <2>2, <2>3, Stages, MovesInv
    <2>4. CASE To(t, c, "socket") /\ UNCHANGED <<fd, held>>
               /\ infos' = IF c = "connect" THEN infos ELSE infos \cup {t}
        <3>1. Moves(t, <<c, "socket">>, NoFd, NoFd)
            BY <1>2, <2>2, <2>4
        <3>2. t \in infos' => <<c, "socket">> \in HoldsInfo
            BY <2>2, <2>4
        <3>3. <<c, "socket">> \notin HoldsFd
            OBVIOUS
        <3>4. infos' = infos \/ infos' = infos \union {t}
            BY <2>4
        <3> QED
            BY <2>1, <2>2, <3>1, <3>2, <3>3, <3>4, MovesInv
    <2> QED
        BY <2>1, <2>3, <2>4
<1>6. CASE Socket(t)
    <2>1. PICK c \in {"connect", "listen", "bind", "udp"} :
            /\ At(t, c, "socket")
            /\ \/ \E f \in Fds \ opened :
                     /\ opened' = opened \cup {f}
                     /\ IF c = "udp"
                        THEN Give(t, f)
                        ELSE /\ fd' = [fd EXCEPT ![t] = f]
                             /\ To(t, c, IF c = "connect" THEN "connect" ELSE "bind")
                             /\ UNCHANGED held
                     /\ UNCHANGED infos
               \/ Give(t, NoFd) /\ infos' = infos \ {t} /\ UNCHANGED opened
        BY <1>6 DEF Socket
    <2>2. fd[t] = NoFd /\ (t \in infos => c \in {"listen", "bind"})
        BY <1>1, <2>1 DEF At
    <2>3. CASE Give(t, NoFd) /\ infos' = infos \ {t} /\ UNCHANGED opened
        BY <1>3, <2>1, <2>2, <2>3, Stages, MovesInv
    <2>4. ASSUME NEW f \in Fds \ opened, opened' = opened \cup {f}, c = "udp", Give(t, f), UNCHANGED infos
          PROVE  SockInv'
        BY <1>3, <2>1, <2>2, <2>4, Stages, MovesInv
    <2>5. ASSUME NEW f \in Fds \ opened, opened' = opened \cup {f}, c # "udp", fd' = [fd EXCEPT ![t] = f],
                 To(t, c, IF c = "connect" THEN "connect" ELSE "bind"), UNCHANGED <<held, infos>>
          PROVE  SockInv'
        <3> DEFINE st == <<c, IF c = "connect" THEN "connect" ELSE "bind">>
        <3>1. Moves(t, st, f, NoFd)
            BY <1>1, <2>5 DEF Moves, To, SockTypeOK
        <3>2. st \in HoldsFd /\ (t \in infos' => st \in HoldsInfo)
            BY <2>1, <2>2, <2>5
        <3> HIDE DEF st
        <3> QED
            BY <2>1, <2>2, <2>5, <3>1, <3>2, MovesInv
    <2> QED
        BY <2>1, <2>3, <2>4, <2>5
<1>7. CASE Connect(t)
    <2>1. fd[t] # NoFd /\ t \notin infos
        BY <1>1, <1>7 DEF Connect, At
    <2>2. UNCHANGED infos /\ ((Give(t, fd[t]) /\ UNCHANGED opened) \/ (Give(t, NoFd) /\ Closes(fd[t])))
        BY <1>7 DEF Connect
    <2> QED
        BY <1>1, <1>3, <2>1, <2>2, Stages, MovesInv
<1>8. CASE Bind(t)
    <2>1. PICK c \in {"listen", "bind"} :
            /\ At(t, c, "bind")
            /\ infos' = infos \ {t}
            /\ \/ /\ IF c = "bind" THEN Give(t, fd[t])
                                   ELSE To(t, c, "listen") /\ UNCHANGED <<fd, held>>
                  /\ UNCHANGED opened
               \/ Give(t, NoFd) /\ Closes(fd[t])
        BY <1>8 DEF Bind
    <2>2. fd[t] # NoFd
        BY <1>1, <2>1 DEF At
    <2>3. CASE Give(t, fd[t]) /\ UNCHANGED opened
        BY <1>1, <1>3, <2>1, <2>2, <2>3, Stages, MovesInv
    <2>4. CASE Give(t, NoFd) /\ Closes(fd[t])
        BY <1>3, <2>1, <2>2, <2>4, Stages, MovesInv
    <2>5. CASE c = "listen" /\ To(t, c, "listen") /\ UNCHANGED <<opened, fd, held>>
        <3>1. Moves(t, <<"listen", "listen">>, fd[t], NoFd)
            BY <1>2, <2>5
        <3> QED
            BY <1>1, <2>1, <2>2, <2>5, <3>1, MovesInv
    <2> QED
        BY <2>1, <2>3, <2>4, <2>5
<1>9. CASE Listen(t)
    <2>1. fd[t] # NoFd /\ t \notin infos
        BY <1>1, <1>9 DEF Listen, At
    <2>2. UNCHANGED infos /\ ((Give(t, fd[t]) /\ UNCHANGED opened) \/ (Give(t, NoFd) /\ Closes(fd[t])))
        BY <1>9 DEF Listen
    <2> QED
        BY <1>1, <1>3, <2>1, <2>2, Stages, MovesInv
<1>10. CASE Accept(t)
    <2>1. fd[t] = NoFd /\ t \notin infos /\ UNCHANGED infos
        BY <1>1, <1>10 DEF Accept, At
    <2>2. CASE Give(t, NoFd) /\ UNCHANGED opened
        BY <1>3, <2>1, <2>2, Stages, MovesInv
    <2>3. ASSUME NEW f \in Fds \ opened, opened' = opened \cup {f}, Give(t, f)
          PROVE  SockInv'
        BY <1>3, <2>1, <2>3, Stages, MovesInv
    <2> QED
        BY <1>10, <2>2, <2>3 DEF Accept
<1> QED
    BY <1>4, <1>5, <1>6, <1>7, <1>8, <1>9, <1>10

\* net_close of a descriptor the program holds: no other hand has its number, which
\* the kernel may give out again at once.
LEMMA CloseInv ==
    ASSUME SockInv, NEW t \in Threads, NetClose(t)
    PROVE  SockInv'
<1>1. SockTypeOK /\ InOneHand
    BY DEF SockInv
<1>2. PICK h \in held[t] : Closes(h) /\ held' = [held EXCEPT ![t] = @ \ {h}]
    BY DEF NetClose
<1>3. UNCHANGED <<infos, stage, fd>> /\ h \in Fds /\ h # NoFd
    BY <1>1, NoFdAssumption DEF NetClose, SockTypeOK
<1>4. opened' = opened \ {h}
    BY <1>2 DEF Closes
<1>5. SockTypeOK'
    BY <1>1, <1>2, <1>3, <1>4 DEF SockTypeOK
<1>6. \A u \in Threads, g \in Fds : Owns(u, g)' <=> Owns(u, g) /\ g # h
    <2>1. Owns(t, h) /\ h # fd[t]
        BY <1>1 DEF Owns, InOneHand
    <2>2. \A u \in Threads : Owns(u, h) => u = t
        BY <1>1, <1>3, <2>1 DEF InOneHand
    <2>3. \A u \in Threads : held'[u] = IF u = t THEN held[t] \ {h} ELSE held[u]
        BY <1>1, <1>2 DEF SockTypeOK
    <2> QED
        BY <1>3, <2>1, <2>2, <2>3 DEF Owns
<1>7. \A u \in Threads : fd'[u] \notin held'[u]
    BY <1>1, <1>2, <1>3 DEF SockTypeOK, InOneHand
<1>8. InOneHand'
    BY <1>1, <1>4, <1>6, <1>7 DEF InOneHand, SockTypeOK
<1> QED
    BY <1>1, <1>3, <1>5, <1>8 DEF SockInv

\* Every step keeps the inductive invariant.
LEMMA SockNextInv == SockInv /\ [SockNext]_sockVars => SockInv'
<1> SUFFICES ASSUME SockInv, [SockNext]_sockVars PROVE SockInv'
    OBVIOUS
<1>1. CASE UNCHANGED sockVars
    BY <1>1 DEF sockVars, SockInv, SockTypeOK, InOneHand, Owns
<1> QED
    BY <1>1, CallInv, CloseInv DEF SockNext

\* Whatever system call fails and whichever numbers come back, every open
\* descriptor is in one hand and every addrinfo list is freed by the end of its call.
THEOREM SocketsAreSound == SockSpec => []SocketsSound
    BY HandsBalance, SockInitInv, SockNextInv, PTL DEF SockSpec

----------------------------------------------------------------------------
(* Length-prefixed messages *)

Byte == 0 .. ByteValues - 1

\* The bytes of s lie in the stream S after its first p.
Lies(S, p, s) == \A j \in 1 .. Len(s) : S[p + j] = s[j]

\* The first of the two buffers of net_send_msg that are not gone yet, and the
\* second.
First == IF Len(sending) >= 1 THEN sending[1] ELSE <<>>
Second == IF Len(sending) >= 2 THEN sending[2] ELSE <<>>

FramingTypeOK ==
    /\ begun \in Seq(Messages) /\ taken \in Seq(Seq(Byte))
    /\ sending \in Seq(Seq(Byte)) /\ Len(sending) <= 2
    /\ wire \in Seq(Byte)
    /\ recv \in [in : BOOLEAN, hdr : Seq(Byte), body : Seq(Byte)]

\* The locals of net_recv_msg: the header first, then no more than it counts.
ReceivesInOrder ==
    /\ ~recv.in => recv = NoMsg
    /\ Len(recv.hdr) <= HeaderBytes
    /\ recv.body # <<>> => HeaderIsIn
    /\ HeaderIsIn => Len(recv.body) <= Length(recv.hdr)

\* S is the stream the calls of net_send_msg make, message i between its bytes
\* P[i - 1] and P[i].
Framed(S, P) ==
    /\ S \in [Nat -> Byte]
    /\ P \in [0 .. Len(begun) -> Nat] /\ P[0] = 0
    /\ \A i \in 0 .. Len(begun) : P[i] <= P[Len(begun)]
    /\ \A i \in 1 .. Len(begun) :
           /\ P[i] = P[i - 1] + HeaderBytes + Len(begun[i])
           /\ Lies(S, P[i - 1], Header(Len(begun[i])))
           /\ Lies(S, P[i - 1] + HeaderBytes, begun[i])

\* What the receiver has, what is in flight and what the sender has not handed
\* over lie in S one after the other, from the end of the last message taken to
\* the end of the last one begun.
Underway(S, P) ==
    /\ Lies(S, P[Len(taken)], recv.hdr)
    /\ Lies(S, P[Len(taken)] + Len(recv.hdr), recv.body)
    /\ Lies(S, P[Len(taken)] + Len(recv.hdr) + Len(recv.body), wire)
    /\ Lies(S, P[Len(taken)] + Len(recv.hdr) + Len(recv.body) + Len(wire), First)
    /\ Lies(S, P[Len(taken)] + Len(recv.hdr) + Len(recv.body) + Len(wire) + Len(First), Second)
    /\ P[Len(begun)] = P[Len(taken)] + Len(recv.hdr) + Len(recv.body) + Len(wire)
                       + Len(First) + Len(Second)

TakenIsPrefix ==
    /\ Len(taken) <= Len(begun)
    /\ \A i \in 1 .. Len(taken) : taken[i] = begun[i]

FramingInv ==
    /\ FramingTypeOK
    /\ ReceivesInOrder
    /\ TakenIsPrefix
    /\ "receiver" \in open => \E S, P : Framed(S, P) /\ Underway(S, P)

----------------------------------------------------------------------------

LEMMA EntryOf == ASSUME NEW T, NEW s \in Seq(T), NEW j \in 1 .. Len(s) PROVE s[j] \in T
OBVIOUS

LEMMA JoinedLength ==
    ASSUME NEW T, NEW s \in Seq(T), NEW t \in Seq(T)
    PROVE  s \o t \in Seq(T) /\ Len(s \o t) = Len(s) + Len(t)
OBVIOUS

LEMMA NonEmpty ==
    ASSUME NEW T, NEW s \in Seq(T), s # <<>>
    PROVE  /\ Len(s) \in Nat /\ Len(s) >= 1 /\ Head(s) = s[1] /\ s[1] \in T
           /\ Tail(s) \in Seq(T) /\ Len(Tail(s)) = Len(s) - 1
           /\ \A i \in 1 .. Len(s) - 1 : Tail(s)[i] = s[i + 1]
OBVIOUS

LEMMA MinOfTwo ==
    ASSUME NEW a \in Int, NEW b \in Int
    PROVE  Min({a, b}) \in Int /\ Min({a, b}) \in {a, b} /\ Min({a, b}) <= a /\ Min({a, b}) <= b
<1>1. \E x \in {a, b} : \A y \in {a, b} : x =< y
    OBVIOUS
<1> QED
    BY <1>1 DEF Min

LEMMA ByteOfNumber ==
    ASSUME NEW n \in Nat
    PROVE  /\ Up(n) \in Nat
           /\ (n % ByteValues) \in Byte
           /\ n = (n % ByteValues) + ByteValues * Up(n)
<1>0. ByteValues \in Nat \ {0}
    BY FramingAssumption
<1>1. /\ n \div ByteValues \in Int
      /\ (n % ByteValues) \in 0 .. ByteValues - 1
      /\ n = ByteValues * (n \div ByteValues) + (n % ByteValues)
    BY <1>0, DivMod
<1>2. n \div ByteValues \in Nat
    BY <1>0
<1> DEFINE q == n \div ByteValues
           r == n % ByteValues
<1>3. n = r + ByteValues * q
    <2> HIDE DEF q, r
    <2>1. q \in Int /\ r \in Int
        BY <1>1 DEF q, r
    <2>2. n = ByteValues * q + r
        BY <1>1 DEF q, r
    <2> QED
        BY <1>0, <2>1, <2>2
<1>4. q \in Nat /\ r \in Byte
    BY <1>1, <1>2 DEF Byte
<1> HIDE DEF r
<1> QED
    BY <1>3, <1>4 DEF Up, r

\* Of a number below ByteValues times m, m is above what is left by a shift.
LEMMA UpIsBelow ==
    ASSUME NEW n \in Nat, NEW m \in Nat, n < ByteValues * m
    PROVE  Up(n) < m
<1>0. ByteValues \in Nat \ {0}
    BY FramingAssumption
<1> DEFINE r == n % ByteValues
<1>1. Up(n) \in Nat /\ r \in Nat /\ n = r + ByteValues * Up(n)
    BY ByteOfNumber DEF Byte
<1>2. CASE Up(n) >= m
    <2>1. ByteValues * Up(n) >= ByteValues * m
        <3> HIDE DEF r
        <3>1. \A c, u \in Nat : u >= m => c * u >= c * m
            OBVIOUS
        <3> QED
            BY <1>0, <1>1, <1>2, <3>1
    <2>2. ByteValues * Up(n) \in Nat /\ ByteValues * m \in Nat
        BY <1>0, <1>1
    <2> QED
        BY <1>1, <2>1, <2>2
<1> QED
    BY <1>1, <1>2

LEMMA LengthOfHeader ==
    ASSUME NEW m \in Messages
    PROVE  Header(Len(m)) \in Seq(Byte) /\ Len(Header(Len(m))) = 4
           /\ Length(Header(Len(m))) = Len(m)
<1> DEFINE B == ByteValues
           n == Len(m)
           u == Up(n)
           v == Up(u)
           w == Up(v)
<1>0. B \in Nat \ {0} /\ n \in Nat /\ n < B * (B * (B * B))
    BY FramingAssumption
<1>1. /\ u \in Nat /\ (n % B) \in Byte /\ n = (n % B) + B * u
    BY <1>0, ByteOfNumber
<1>2. /\ v \in Nat /\ (u % B) \in Byte /\ u = (u % B) + B * v
    BY <1>1, ByteOfNumber
<1>3. /\ w \in Nat /\ (v % B) \in Byte /\ v = (v % B) + B * w
    BY <1>2, ByteOfNumber
<1>4. w < B
    <2>1. B * B \in Nat /\ B * (B * B) \in Nat
        BY <1>0
    <2>2. u < B * (B * B)
        BY <1>0, <2>1, UpIsBelow
    <2>3. v < B * B
        BY <1>1, <2>1, <2>2, UpIsBelow
    <2> QED
        BY <1>0, <1>2, <2>3, UpIsBelow
<1>5. (w % B) = w /\ w \in Byte
    <2>1. w \in 0 .. B - 1
        BY <1>0, <1>3, <1>4
    <2>2. (w % B) = w
        <3> HIDE DEF w, B
        <3> QED
            BY <1>0, <2>1, ModSmall
    <2> QED
        BY <2>1, <2>2 DEF Byte
<1>6. Header(n) = <<n % B, u % B, v % B, w>>
    BY <1>5 DEF Header
<1>7. Header(n) \in Seq(Byte) /\ Len(Header(n)) = 4
    <2> HIDE DEF u, v, w, n
    <2>1. \A a, b, c, d \in Byte : <<a, b, c, d>> \in Seq(Byte) /\ Len(<<a, b, c, d>>) = 4
        OBVIOUS
    <2> QED
        BY <1>1, <1>2, <1>3, <1>5, <1>6, <2>1
<1>8. Length(Header(n)) = n
    <2>1. Length(Header(n)) = (n % B) + B * ((u % B) + B * ((v % B) + B * w))
        BY <1>6 DEF Length
    <2> QED
        BY <1>1, <1>2, <1>3, <2>1
<1> QED
    BY <1>7, <1>8

\* A header that is in counts a number of bytes.
LEMMA LengthIsNat ==
    ASSUME NEW h \in Seq(Byte), Len(h) = 4
    PROVE  Length(h) \in Nat
<1>0. h[1] \in Byte /\ h[2] \in Byte /\ h[3] \in Byte /\ h[4] \in Byte
    OBVIOUS
<1>1. h[1] \in Nat /\ h[2] \in Nat /\ h[3] \in Nat /\ h[4] \in Nat
    BY <1>0 DEF Byte
<1>2. ByteValues \in Nat
    BY FramingAssumption
<1> HIDE DEF Byte
<1>3. \A a, b \in Nat : a + ByteValues * b \in Nat
    BY <1>2
<1> QED
    BY <1>1, <1>3 DEF Length

\* Cut a buffer and both parts lie where they lay; join two and so do they.
LEMMA LiesCut ==
    ASSUME NEW T, NEW S, NEW p \in Nat, NEW s \in Seq(T), Lies(S, p, s), NEW k \in 0 .. Len(s)
    PROVE  /\ SubSeq(s, 1, k) \in Seq(T) /\ SubSeq(s, k + 1, Len(s)) \in Seq(T)
           /\ Len(SubSeq(s, 1, k)) = k /\ Len(SubSeq(s, k + 1, Len(s))) = Len(s) - k
           /\ Lies(S, p, SubSeq(s, 1, k)) /\ Lies(S, p + k, SubSeq(s, k + 1, Len(s)))
<1>1. /\ SubSeq(s, 1, k) \in Seq(T) /\ SubSeq(s, k + 1, Len(s)) \in Seq(T)
      /\ Len(SubSeq(s, 1, k)) = k /\ Len(SubSeq(s, k + 1, Len(s))) = Len(s) - k
    OBVIOUS
<1>2. Lies(S, p, SubSeq(s, 1, k))
    BY DEF Lies
<1>3. Lies(S, p + k, SubSeq(s, k + 1, Len(s)))
    <2> DEFINE e == SubSeq(s, k + 1, Len(s))
    <2> SUFFICES ASSUME NEW j \in 1 .. Len(e) PROVE S[(p + k) + j] = e[j]
        BY DEF Lies
    <2>1. e[j] = s[k + j] /\ k + j \in 1 .. Len(s)
        BY <1>1
    <2>2. S[p + (k + j)] = s[k + j]
        BY <2>1 DEF Lies
    <2>3. p + (k + j) = (p + k) + j
        BY <1>1
    <2> QED
        BY <2>1, <2>2, <2>3
<1> QED
    BY <1>1, <1>2, <1>3

LEMMA LiesJoin ==
    ASSUME NEW T, NEW S, NEW p \in Nat, NEW s \in Seq(T), NEW t \in Seq(T),
           Lies(S, p, s), Lies(S, p + Len(s), t)
    PROVE  s \o t \in Seq(T) /\ Len(s \o t) = Len(s) + Len(t) /\ Lies(S, p, s \o t)
<1>1. s \o t \in Seq(T) /\ Len(s \o t) = Len(s) + Len(t)
    OBVIOUS
<1> DEFINE e == s \o t
<1> SUFFICES ASSUME NEW j \in 1 .. Len(e) PROVE S[p + j] = e[j]
    BY <1>1 DEF Lies
<1>2. CASE j <= Len(s)
    BY <1>2 DEF Lies
<1>3. CASE j > Len(s)
    <2>1. e[j] = t[j - Len(s)] /\ j - Len(s) \in 1 .. Len(t)
        BY <1>1, <1>3
    <2>2. S[(p + Len(s)) + (j - Len(s))] = t[j - Len(s)]
        BY <2>1 DEF Lies
    <2>3. (p + Len(s)) + (j - Len(s)) = p + j
        OBVIOUS
    <2> QED
        BY <2>1, <2>2, <2>3
<1> QED
    BY <1>2, <1>3

\* What lies before a place lies there in every stream equal up to it.
LEMMA LiesBefore ==
    ASSUME NEW T, NEW S, NEW S2, NEW e \in Nat, NEW p \in Nat, NEW s \in Seq(T),
           \A i \in Nat : i <= e => S2[i] = S[i], Lies(S, p, s), p + Len(s) <= e
    PROVE  Lies(S2, p, s)
<1> SUFFICES ASSUME NEW j \in 1 .. Len(s) PROVE S2[p + j] = s[j]
    BY DEF Lies
<1>1. p + j \in Nat /\ p + j <= e
    OBVIOUS
<1>2. S[p + j] = s[j]
    BY DEF Lies
<1> QED
    BY <1>1, <1>2

LEMMA FramingInitInv == FramingInit => FramingInv
<1> SUFFICES ASSUME FramingInit PROVE FramingInv
    OBVIOUS
<1> USE DEF FramingInit, NoMsg
<1>1. FramingTypeOK
    BY DEF FramingTypeOK
<1>2. ReceivesInOrder
    BY DEF ReceivesInOrder, HeaderIsIn, HeaderBytes
<1>3. TakenIsPrefix
    BY DEF TakenIsPrefix
<1>4. \E S, P : Framed(S, P) /\ Underway(S, P)
    <2> DEFINE S == [i \in Nat |-> 0]
               P == [i \in 0 .. 0 |-> 0]
    <2>1. 0 \in Byte
        BY FramingAssumption DEF Byte
    <2>2. Framed(S, P)
        BY <2>1 DEF Framed
    <2>3. Underway(S, P)
        BY DEF Underway, Lies, First, Second
    <2> QED
        BY <2>2, <2>3
<1> QED
    BY <1>1, <1>2, <1>3, <1>4 DEF FramingInv

\* A call of net_send_msg makes the stream longer by a header and a payload.
LEMMA SendMsgInv ==
    ASSUME FramingInv, NEW m \in Messages, NetSendMsg(m) PROVE FramingInv'
<1> DEFINE n == Len(begun)
           h == Header(Len(m))
<1>0. /\ begun \in Seq(Messages) /\ n \in Nat
      /\ begun' = Append(begun, m) /\ begun' \in Seq(Messages) /\ Len(begun') = n + 1
      /\ begun'[n + 1] = m /\ \A i \in 1 .. n : begun'[i] = begun[i]
    BY DEF FramingInv, FramingTypeOK, NetSendMsg
<1>1. /\ m \in Seq(Byte) /\ Len(m) \in Nat /\ h \in Seq(Byte) /\ Len(h) = 4
    BY FramingAssumption, LengthOfHeader DEF Byte
<1>7. \A j \in 1 .. 4 : h[j] \in Byte
    <2> TAKE j \in 1 .. 4
    <2> HIDE DEF h
    <2>1. j \in 1 .. Len(h)
        BY <1>1
    <2> QED
        BY <1>1, <2>1, EntryOf
<1>2. sending' = <<h, m>> /\ sending = <<>> /\ First = <<>> /\ Second = <<>> /\ First' = h /\ Second' = m
    BY DEF NetSendMsg, First, Second
<1>3. FramingTypeOK'
    <2> HIDE DEF h
    <2>1. <<h, m>> \in Seq(Seq(Byte)) /\ Len(<<h, m>>) = 2
        BY <1>1
    <2> QED
        BY <1>0, <1>2, <2>1 DEF FramingInv, FramingTypeOK, NetSendMsg
<1>4. ReceivesInOrder'
    BY DEF FramingInv, ReceivesInOrder, NetSendMsg, HeaderIsIn
<1>5. TakenIsPrefix'
    BY <1>0 DEF FramingInv, FramingTypeOK, TakenIsPrefix, NetSendMsg
<1>6. ASSUME "receiver" \in open' PROVE \E S, P : (Framed(S, P) /\ Underway(S, P))'
    <2>1. PICK S, P : Framed(S, P) /\ Underway(S, P)
        BY <1>6 DEF FramingInv, NetSendMsg
    <2> DEFINE e == P[n]
               b == P[Len(taken)]
    <2>2. /\ S \in [Nat -> Byte] /\ P \in [0 .. n -> Nat] /\ P[0] = 0 /\ e \in Nat
          /\ \A i \in 0 .. n : P[i] <= e
        BY <1>0, <2>1 DEF Framed
    <2>3. /\ taken' = taken /\ Len(taken) \in 0 .. n /\ b \in Nat /\ wire' = wire /\ recv' = recv
          /\ wire \in Seq(Byte) /\ recv.hdr \in Seq(Byte) /\ recv.body \in Seq(Byte)
        BY <2>2 DEF FramingInv, FramingTypeOK, TakenIsPrefix, NetSendMsg
    <2>4. \E T, Q :
              /\ T \in [Nat -> Byte] /\ \A i \in Nat : i <= e => T[i] = S[i]
              /\ Lies(T, e, h) /\ Lies(T, e + 4, m)
              /\ Q \in [0 .. n + 1 -> Nat] /\ Q[n + 1] = e + 4 + Len(m)
              /\ \A i \in 0 .. n : Q[i] = P[i]
        <3> DEFINE T == [i \in Nat |-> IF i > e /\ i <= e + 4 THEN h[i - e]
                                        ELSE IF i > e + 4 /\ i <= e + 4 + Len(m) THEN m[i - e - 4]
                                        ELSE S[i]]
                   Q == [i \in 0 .. n + 1 |-> IF i = n + 1 THEN e + 4 + Len(m) ELSE P[i]]
        <3>4. T \in [Nat -> Byte] /\ \A i \in Nat : i <= e => T[i] = S[i]
            <4> HIDE DEF h, e, n
            <4>1. ASSUME NEW i \in Nat PROVE T[i] \in Byte
                <5>1. CASE i > e /\ i <= e + 4
                    <6>1. i - e \in 1 .. 4
                        BY <2>2, <5>1
                    <6>2. h[i - e] \in Byte
                        BY <1>7, <6>1
                    <6> QED
                        BY <5>1, <6>2
                <5>2. CASE i > e + 4 /\ i <= e + 4 + Len(m)
                    <6>1. i - e - 4 \in 1 .. Len(m) /\ ~(i <= e + 4)
                        BY <1>1, <2>2, <5>2
                    <6>2. m[i - e - 4] \in Byte
                        BY <1>1, <6>1
                    <6> QED
                        BY <5>2, <6>1, <6>2
                <5>3. CASE ~(i > e /\ i <= e + 4) /\ ~(i > e + 4 /\ i <= e + 4 + Len(m))
                    BY <2>2, <5>3
                <5> QED
                    BY <5>1, <5>2, <5>3
            <4> QED
                BY <2>2, <4>1
        <3>5. Lies(T, e, h) /\ Lies(T, e + 4, m)
            <4> HIDE DEF h, e
            <4>1. ASSUME NEW j \in 1 .. 4 PROVE T[e + j] = h[j]
                <5>1. e + j \in Nat /\ e + j > e /\ e + j <= e + 4 /\ (e + j) - e = j
                    BY <2>2
                <5> QED
                    BY <5>1
            <4>2. ASSUME NEW j \in 1 .. Len(m) PROVE T[(e + 4) + j] = m[j]
                <5>1. (e + 4) + j \in Nat /\ (e + 4) + j > e + 4 /\ (e + 4) + j <= e + 4 + Len(m)
                      /\ ((e + 4) + j) - e - 4 = j
                    BY <1>1, <2>2
                <5> QED
                    BY <2>2, <5>1
            <4> QED
                BY <1>1, <4>1, <4>2 DEF Lies
        <3>6. /\ Q \in [0 .. n + 1 -> Nat] /\ Q[n + 1] = e + 4 + Len(m)
              /\ \A i \in 0 .. n : Q[i] = P[i]
            <4> HIDE DEF e
            <4> QED
                BY <1>0, <1>1, <2>2
        <3> HIDE DEF T, Q
        <3> QED
            BY <3>4, <3>5, <3>6
    <2>5. PICK S2, P2 :
              /\ S2 \in [Nat -> Byte] /\ \A i \in Nat : i <= e => S2[i] = S[i]
              /\ Lies(S2, e, h) /\ Lies(S2, e + 4, m)
              /\ P2 \in [0 .. n + 1 -> Nat] /\ P2[n + 1] = e + 4 + Len(m)
              /\ \A i \in 0 .. n : P2[i] = P[i]
        BY <2>4
    <2>6. \A i \in Nat : i <= e => S2[i] = S[i]
        BY <2>5
    <2>7. Framed(S2, P2)'
        <3> HIDE DEF e, h, n
        <3>1. /\ P2[0] = 0 /\ e \in Nat
              /\ \A i \in 0 .. n + 1 : P2[i] <= P2[n + 1]
            <4> DEFINE l == Len(m)
            <4>1. l \in Nat /\ P2[n + 1] = e + 4 + l
                BY <1>1, <2>5
            <4> HIDE DEF l
            <4>2. 0 \in 0 .. n /\ e \in Nat
                BY <1>0, <2>2
            <4>3. ASSUME NEW i \in 0 .. n + 1 PROVE P2[i] <= P2[n + 1]
                <5>1. CASE i = n + 1
                    BY <2>2, <4>1, <5>1
                <5>2. CASE i # n + 1
                    <6>1. i \in 0 .. n
                        BY <1>0, <5>2
                    <6>2. P2[i] = P[i] /\ P[i] \in Nat /\ P[i] <= e
                        BY <2>2, <2>5, <6>1
                    <6> QED
                        BY <2>2, <4>1, <6>2
                <5> QED
                    BY <5>1, <5>2
            <4> QED
                BY <2>2, <2>5, <4>2, <4>3
        <3>2. ASSUME NEW i \in 1 .. n + 1
              PROVE /\ P2[i] = P2[i - 1] + HeaderBytes + Len(begun'[i])
                    /\ Lies(S2, P2[i - 1], Header(Len(begun'[i])))
                    /\ Lies(S2, P2[i - 1] + HeaderBytes, begun'[i])
            <4>1. CASE i = n + 1
                <5>1. i - 1 = n /\ P2[i - 1] = e /\ begun'[i] = m
                    BY <1>0, <2>5, <4>1 DEF e
                <5> QED
                    BY <2>5, <4>1, <5>1 DEF HeaderBytes, h
            <4>2. CASE i # n + 1
                <5>1. i \in 1 .. n /\ i \in 0 .. n /\ i - 1 \in 0 .. n
                    BY <1>0, <4>2
                <5>2. P2[i] = P[i] /\ P2[i - 1] = P[i - 1] /\ begun'[i] = begun[i] /\ begun[i] \in Messages
                    BY <1>0, <2>5, <5>1
                <5>3. /\ P[i] = P[i - 1] + HeaderBytes + Len(begun[i])
                      /\ Lies(S, P[i - 1], Header(Len(begun[i])))
                      /\ Lies(S, P[i - 1] + HeaderBytes, begun[i])
                    BY <2>1, <5>1 DEF Framed, n
                <5>4. /\ begun[i] \in Seq(Byte) /\ Header(Len(begun[i])) \in Seq(Byte)
                      /\ Len(Header(Len(begun[i]))) = 4 /\ Len(begun[i]) \in Nat
                    BY <5>2, FramingAssumption, LengthOfHeader DEF Byte
                <5>5. P[i] <= e /\ P[i] \in Nat /\ P[i - 1] \in Nat
                    BY <2>2, <5>1
                <5> DEFINE l == Len(begun[i])
                           p == P[i - 1]
                           r == P[i]
                <5>6. p + 4 <= e /\ (p + 4) + l <= e /\ p + 4 \in Nat /\ p \in Nat
                    <6>1. r = p + 4 + l /\ l \in Nat /\ p \in Nat /\ r \in Nat /\ r <= e
                        BY <5>3, <5>4, <5>5 DEF HeaderBytes
                    <6> HIDE DEF l, p, r
                    <6> QED
                        BY <2>2, <6>1
                <5>7. Lies(S2, P[i - 1], Header(Len(begun[i])))
                    <6>1. PICK s : s = Header(Len(begun[i]))
                        OBVIOUS
                    <6>2. p + Len(s) <= e /\ s \in Seq(Byte)
                        BY <5>4, <5>6, <6>1
                    <6>3. Lies(S, p, s) /\ p \in Nat
                        BY <5>3, <5>5, <6>1
                    <6> HIDE DEF p
                    <6>4. Lies(S2, p, s)
                        BY <2>6, <3>1, <6>2, <6>3, LiesBefore, Zenon
                    <6> QED
                        BY <6>1, <6>4 DEF p
                <5>8. Lies(S2, P[i - 1] + 4, begun[i])
                    <6>1. Lies(S, p + 4, begun[i])
                        BY <5>3 DEF HeaderBytes
                    <6> HIDE DEF p
                    <6>2. Lies(S2, p + 4, begun[i])
                        <7>1. PICK s, g : s = begun[i] /\ g = p + 4
                            OBVIOUS
                        <7>2. s \in Seq(Byte) /\ g \in Nat /\ g + Len(s) <= e /\ Lies(S, g, s)
                            BY <5>4, <5>6, <6>1, <7>1
                        <7>3. Lies(S2, g, s)
                            BY <2>6, <3>1, <7>2, LiesBefore, Zenon
                        <7> QED
                            BY <7>1, <7>3
                    <6> QED
                        BY <6>2 DEF p
                <5> QED
                    BY <5>2, <5>3, <5>7, <5>8 DEF HeaderBytes
            <4> QED
                BY <4>1, <4>2
        <3>3. Len(begun') = n + 1
            BY <1>0
        <3> QED
            BY <2>5, <3>1, <3>2, <3>3 DEF Framed
    <2>8. Underway(S2, P2)'
        <3> HIDE DEF h
        <3> DEFINE x == Len(recv.hdr)
                   y == Len(recv.body)
                   z == Len(wire)
        <3>1. x \in Nat /\ y \in Nat /\ z \in Nat /\ e = b + x + y + z
            <4>1. x \in Nat /\ y \in Nat /\ z \in Nat /\ b \in Nat
                BY <2>3
            <4>2. e = b + x + y + z + Len(First) + Len(Second)
                BY <2>1 DEF Underway
            <4>3. Len(First) = 0 /\ Len(Second) = 0
                BY <1>2
            <4> HIDE DEF e, b, x, y, z
            <4> QED
                BY <4>1, <4>2, <4>3
        <3>2. P2[Len(taken')] = b /\ P2[Len(begun')] = e + 4 + Len(m)
            BY <1>0, <2>3, <2>5
        <3>3. Lies(S, b, recv.hdr) /\ Lies(S, b + x, recv.body) /\ Lies(S, b + x + y, wire)
            BY <2>1 DEF Underway
        <3>4. /\ b + x <= e /\ (b + x) + y <= e /\ (b + x + y) + z <= e /\ e \in Nat /\ b \in Nat
              /\ b + x \in Nat /\ b + x + y \in Nat
            <4>1. b \in Nat
                BY <2>3
            <4> HIDE DEF e, b, x, y, z, n
            <4> QED
                BY <3>1, <4>1
        <3> HIDE DEF e, b, n
        <3>5. Lies(S2, b, recv.hdr)
            BY <2>3, <2>5, <3>3, <3>4, LiesBefore
        <3>6. Lies(S2, b + x, recv.body)
            BY <2>3, <2>5, <3>3, <3>4, LiesBefore
        <3>7. Lies(S2, b + x + y, wire)
            BY <2>3, <2>5, <3>3, <3>4, LiesBefore
        <3>8. Lies(S2, b + x + y + z, h) /\ Lies(S2, b + x + y + z + 4, m)
            BY <2>5, <3>1
        <3>9. e + 4 + Len(m) = b + x + y + z + Len(h) + Len(m)
            <4> DEFINE l == Len(m)
            <4>1. Len(h) = 4 /\ l \in Nat
                BY <1>1
            <4> HIDE DEF l, x, y, z
            <4> QED
                BY <3>1, <3>4, <4>1
        <3>10. /\ Len(recv'.hdr) = x /\ Len(recv'.body) = y /\ Len(wire') = z
               /\ Len(First') = 4
            BY <1>1, <1>2, <2>3
        <3>11. Len(h) = 4
            BY <1>1
        <3>12. /\ Lies(S2, b, recv'.hdr) /\ Lies(S2, b + x, recv'.body) /\ Lies(S2, b + x + y, wire')
               /\ Lies(S2, b + x + y + z, First') /\ Lies(S2, b + x + y + z + 4, Second')
               /\ Len(Second') = Len(m)
            BY <1>2, <2>3, <3>5, <3>6, <3>7, <3>8
        <3> HIDE DEF x, y, z
        <3> QED
            BY <3>2, <3>9, <3>10, <3>11, <3>12 DEF Underway
    <2> QED
        BY <2>7, <2>8
<1> QED
    BY <1>3, <1>4, <1>5, <1>6 DEF FramingInv

\* The parts of the stream, with what is known of each.
LEMMA Parts ==
    ASSUME FramingInv, NEW S, NEW P, Framed(S, P)
    PROVE  /\ First \in Seq(Byte) /\ Second \in Seq(Byte) /\ wire \in Seq(Byte)
           /\ recv.hdr \in Seq(Byte) /\ recv.body \in Seq(Byte)
           /\ Len(taken) \in 0 .. Len(begun)
           /\ P[Len(taken)] \in Nat
<1>1. /\ begun \in Seq(Messages) /\ taken \in Seq(Seq(Byte)) /\ Len(taken) <= Len(begun)
      /\ Len(begun) \in Nat /\ Len(taken) \in Nat
    BY DEF FramingInv, FramingTypeOK, TakenIsPrefix
<1>2. P[Len(taken)] \in Nat
    BY <1>1 DEF Framed
<1>3. First \in Seq(Byte) /\ Second \in Seq(Byte)
    BY DEF FramingInv, FramingTypeOK, First, Second
<1> QED
    BY <1>1, <1>2, <1>3 DEF FramingInv, FramingTypeOK

\* send takes bytes from the first buffer and puts them after those in flight.
LEMMA SendInv == ASSUME FramingInv, NetSend PROVE FramingInv'
<1>1. PICK k \in 1 .. Len(Head(sending)) :
          /\ wire' = wire \o SubSeq(Head(sending), 1, k)
          /\ sending' = [sending EXCEPT ![1] = SubSeq(@, k + 1, Len(@))]
    BY DEF NetSend
<1>2. /\ begun' = begun /\ taken' = taken /\ open' = open /\ recv' = recv
      /\ sending \in Seq(Seq(Byte)) /\ sending # <<>> /\ Len(sending) <= 2 /\ "receiver" \in open
    BY DEF NetSend, FramingInv, FramingTypeOK
<1>3. Len(sending) \in 1 .. 2 /\ First = sending[1] /\ Head(sending) = First /\ First \in Seq(Byte)
    <2>1. /\ Len(sending) \in Nat /\ Len(sending) >= 1 /\ Head(sending) = sending[1]
          /\ sending[1] \in Seq(Byte)
        BY <1>2, NonEmpty
    <2>2. Len(sending) <= 2
        BY <1>2
    <2> DEFINE l == Len(sending)
    <2>3. l \in 1 .. 2
        <3>1. l \in Nat /\ l >= 1 /\ l <= 2
            BY <2>1, <2>2
        <3> HIDE DEF l
        <3> QED
            BY <3>1
    <2>4. First = sending[1]
        BY <2>1 DEF First
    <2> QED
        BY <2>1, <2>3, <2>4
<1> DEFINE gone == SubSeq(First, 1, k)
           left == SubSeq(First, k + 1, Len(First))
<1>4. /\ gone \in Seq(Byte) /\ left \in Seq(Byte) /\ k \in 0 .. Len(First) /\ k \in Nat
      /\ wire' = wire \o gone
    BY <1>1, <1>3
<1>5. /\ sending' = [sending EXCEPT ![1] = left]
      /\ sending' \in Seq(Seq(Byte)) /\ Len(sending') = Len(sending)
      /\ First' = left /\ Second' = Second
    <2>1. sending' = [sending EXCEPT ![1] = left]
        BY <1>1, <1>3
    <2> HIDE DEF left
    <2> QED
        BY <1>2, <1>3, <1>4, <2>1 DEF First, Second
<1>6. FramingTypeOK'
    <2> HIDE DEF gone, left
    <2>1. wire' \in Seq(Byte)
        BY <1>4 DEF FramingInv, FramingTypeOK
    <2> QED
        BY <1>2, <1>5, <2>1 DEF FramingInv, FramingTypeOK
<1>7. ReceivesInOrder' /\ TakenIsPrefix'
    BY <1>2 DEF FramingInv, ReceivesInOrder, HeaderIsIn, TakenIsPrefix
<1>8. \E S, P : (Framed(S, P) /\ Underway(S, P))'
    <2>1. PICK S, P : Framed(S, P) /\ Underway(S, P)
        BY <1>2 DEF FramingInv
    <2>2. Framed(S, P)'
        BY <1>2, <2>1 DEF Framed
    <2> DEFINE b == P[Len(taken)]
               x == Len(recv.hdr)
               y == Len(recv.body)
               z == Len(wire)
               p == b + x + y
    <2>3. /\ Second \in Seq(Byte) /\ wire \in Seq(Byte) /\ b \in Nat
          /\ x \in Nat /\ y \in Nat /\ z \in Nat
        <3>1. /\ Second \in Seq(Byte) /\ wire \in Seq(Byte)
              /\ recv.hdr \in Seq(Byte) /\ recv.body \in Seq(Byte)
              /\ b \in Nat
            BY <2>1, Parts
        <3> QED
            BY <3>1
    <2>4. /\ Lies(S, b, recv.hdr) /\ Lies(S, b + x, recv.body) /\ Lies(S, p, wire)
          /\ Lies(S, p + z, First) /\ Lies(S, p + z + Len(First), Second)
          /\ P[Len(begun)] = p + z + Len(First) + Len(Second)
        BY <2>1 DEF Underway
    <2>5. p \in Nat /\ p + z \in Nat
        <3> HIDE DEF b, x, y, z
        <3> QED
            BY <2>3
    <2> HIDE DEF b, x, y, z, p
    <2>6. /\ Len(gone) = k /\ Len(left) = Len(First) - k
          /\ Lies(S, p + z, gone) /\ Lies(S, (p + z) + k, left)
        <3> DEFINE o == p + z
        <3>1. First \in Seq(Byte) /\ Lies(S, o, First) /\ k \in 0 .. Len(First) /\ o \in Nat
            BY <1>3, <1>4, <2>4, <2>5
        <3> HIDE DEF o
        <3>2. /\ Len(SubSeq(First, 1, k)) = k
              /\ Len(SubSeq(First, k + 1, Len(First))) = Len(First) - k
              /\ Lies(S, o, SubSeq(First, 1, k)) /\ Lies(S, o + k, SubSeq(First, k + 1, Len(First)))
            BY <3>1, LiesCut
        <3> QED
            BY <3>2 DEF o
    <2>7. Len(wire') = z + k /\ Lies(S, p, wire')
        <3>1. Lies(S, p + Len(wire), gone)
            BY <2>6 DEF z
        <3> HIDE DEF gone
        <3>2. wire \o gone \in Seq(Byte) /\ Len(wire \o gone) = Len(wire) + Len(gone)
              /\ Lies(S, p, wire \o gone)
            BY <1>4, <2>3, <2>4, <2>5, <3>1, LiesJoin
        <3> QED
            BY <1>4, <2>6, <3>2 DEF z
    <2>8. /\ p + Len(wire') = (p + z) + k
          /\ p + Len(wire') + Len(left) = p + z + Len(First)
          /\ P[Len(begun)] = p + Len(wire') + Len(left) + Len(Second)
        <3> DEFINE l == Len(First)
                   r == Len(Second)
        <3>1. l \in Nat /\ r \in Nat
            BY <1>3, <2>3
        <3>2. P[Len(begun)] = p + z + l + r /\ Len(left) = l - k /\ Len(wire') = z + k
            BY <2>4, <2>6, <2>7
        <3> DEFINE g == Len(left)
                   w == Len(wire')
        <3>4. g = l - k /\ w = z + k
            BY <3>2
        <3> HIDE DEF l, r, g, w
        <3>5. p + w + g = p + z + l /\ p + w = (p + z) + k
            BY <1>4, <2>3, <2>5, <3>1, <3>4
        <3>3. p + Len(wire') + Len(left) = p + z + l /\ p + Len(wire') = (p + z) + k
            BY <3>5 DEF g, w
        <3> QED
            BY <3>2, <3>3 DEF l, r
    <2>9. Lies(S, p + Len(wire'), First') /\ Lies(S, p + Len(wire') + Len(First'), Second')
        <3> HIDE DEF left
        <3> QED
            BY <1>5, <2>4, <2>6, <2>8
    <2>10. P[Len(begun')] = p + Len(wire') + Len(First') + Len(Second')
        <3> HIDE DEF left
        <3> QED
            BY <1>2, <1>5, <2>8
    <2>11. Underway(S, P)'
        BY <1>2, <2>4, <2>7, <2>9, <2>10 DEF Underway, b, x, y, p
    <2> QED
        BY <2>2, <2>11
<1> QED
    BY <1>6, <1>7, <1>8 DEF FramingInv

\* An empty buffer goes; the next one is where it was.
LEMMA SendReturnsInv == ASSUME FramingInv, NetSendReturns PROVE FramingInv'
<1>1. /\ begun' = begun /\ taken' = taken /\ open' = open /\ recv' = recv /\ wire' = wire
      /\ sending \in Seq(Seq(Byte)) /\ sending # <<>> /\ Len(sending) <= 2
      /\ Head(sending) = <<>> /\ sending' = Tail(sending)
    BY DEF NetSendReturns, FramingInv, FramingTypeOK
<1>2. /\ sending' \in Seq(Seq(Byte)) /\ Len(sending') = Len(sending) - 1 /\ Len(sending) \in 1 .. 2
      /\ First = <<>> /\ First' = Second /\ Second' = <<>>
    <2>1. /\ Len(sending) \in Nat /\ Len(sending) >= 1 /\ Head(sending) = sending[1]
          /\ Tail(sending) \in Seq(Seq(Byte)) /\ Len(Tail(sending)) = Len(sending) - 1
          /\ \A i \in 1 .. Len(sending) - 1 : Tail(sending)[i] = sending[i + 1]
        BY <1>1, NonEmpty
    <2>2. /\ sending' \in Seq(Seq(Byte)) /\ Len(sending') = Len(sending) - 1
          /\ Len(sending) \in 1 .. 2
        <3>1. Len(sending) \in 1 .. 2
            <4>1. PICK k : k = Len(sending)
                OBVIOUS
            <4>2. k \in Nat /\ k >= 1 /\ k <= 2
                BY <1>1, <2>1, <4>1, Zenon
            <4> QED
                BY <4>1, <4>2
        <3>2. sending' = Tail(sending)
            BY <1>1
        <3> QED
            BY <2>1, <3>1, <3>2, Zenon
    <2>3. First = <<>>
        BY <1>1, <2>1 DEF First
    <2>4. First' = Second /\ Second' = <<>>
        <3>1. CASE Len(sending) = 1
            BY <2>2, <3>1 DEF First, Second
        <3>2. CASE Len(sending) = 2
            <4>1. sending'[1] = sending[2]
                <5>1. \A i \in 1 .. Len(sending) - 1 : Tail(sending)[i] = sending[i + 1]
                    BY <2>1
                <5>2. 1 \in 1 .. Len(sending) - 1
                    BY <3>2
                <5>3. Tail(sending)[1] = sending[1 + 1] /\ sending' = Tail(sending)
                    BY <1>1, <5>1, <5>2
                <5>4. 1 + 1 = 2
                    OBVIOUS
                <5>5. sending[1 + 1] = sending[2]
                    BY <5>4
                <5> HIDE <5>4
                <5> QED
                    BY <5>3, <5>5, Zenon
            <4> QED
                BY <2>2, <3>2, <4>1 DEF First, Second
        <3> QED
            BY <2>2, <3>1, <3>2
    <2> QED
        BY <2>2, <2>3, <2>4
<1>3. FramingTypeOK'
    BY <1>1, <1>2 DEF FramingInv, FramingTypeOK
<1>4. ReceivesInOrder' /\ TakenIsPrefix'
    BY <1>1 DEF FramingInv, ReceivesInOrder, HeaderIsIn, TakenIsPrefix
<1>5. ASSUME NEW S, NEW P, Framed(S, P), Underway(S, P)
      PROVE  Framed(S, P)' /\ Underway(S, P)'
    <2>1. Framed(S, P)'
        BY <1>1, <1>5 DEF Framed
    <2> DEFINE b == P[Len(taken)]
               q == b + Len(recv.hdr) + Len(recv.body) + Len(wire)
    <2>2. Second \in Seq(Byte) /\ q \in Nat
        <3>1. /\ Second \in Seq(Byte) /\ wire \in Seq(Byte)
              /\ recv.hdr \in Seq(Byte) /\ recv.body \in Seq(Byte)
              /\ b \in Nat
            BY <1>5, Parts
        <3> QED
            <4>1. Len(recv.hdr) \in Nat /\ Len(recv.body) \in Nat /\ Len(wire) \in Nat
                BY <3>1
            <4> HIDE DEF b
            <4>2. \A i, j, k \in Nat : b + i + j + k \in Nat
                BY <3>1
            <4> QED
                BY <3>1, <4>1, <4>2, Zenon
    <2>3. /\ Lies(S, q + Len(First), Second)
          /\ P[Len(begun)] = q + Len(First) + Len(Second)
        BY <1>5 DEF Underway
    <2> DEFINE l == Len(Second)
    <2>4. q + Len(First) = q /\ q + Len(First') + Len(Second') = q + Len(First) + Len(Second)
        <3>1. l \in Nat /\ Len(First) = 0 /\ Len(First') = l /\ Len(Second') = 0
            BY <1>2, <2>2
        <3>2. Len(Second) = l
            OBVIOUS
        <3> HIDE DEF q, l
        <3> QED
            BY <2>2, <3>1, <3>2
    <2>5. Lies(S, q, First')
        <3> HIDE DEF q
        <3> QED
            BY <1>2, <2>3, <2>4
    <2>6. Lies(S, q + Len(First'), Second')
        BY <1>2 DEF Lies
    <2> QED
        BY <1>1, <1>5, <2>1, <2>3, <2>4, <2>5, <2>6 DEF Underway
<1> QED
    BY <1>1, <1>3, <1>4, <1>5 DEF FramingInv

\* Giving up and coming in change nothing of the stream.
LEMMA EndsCloseInv ==
    ASSUME FramingInv, NetSendFails \/ SenderCloses \/ UNCHANGED linkVars
    PROVE  FramingInv'
<1>1. /\ UNCHANGED <<begun, sending, wire, recv, taken>>
      /\ "receiver" \in open' => "receiver" \in open
    BY DEF NetSendFails, SenderCloses, linkVars
<1>2. FramingTypeOK' /\ ReceivesInOrder' /\ TakenIsPrefix'
    BY <1>1 DEF FramingInv, FramingTypeOK, ReceivesInOrder, HeaderIsIn, TakenIsPrefix
<1>3. ASSUME NEW S, NEW P, Framed(S, P), Underway(S, P)
      PROVE  Framed(S, P)' /\ Underway(S, P)'
    BY <1>1, <1>3 DEF Framed, Underway, First, Second
<1> QED
    BY <1>1, <1>2, <1>3 DEF FramingInv

LEMMA RecvMsgInv == ASSUME FramingInv, NetRecvMsg PROVE FramingInv'
<1>1. /\ UNCHANGED <<begun, sending, wire, open, taken>>
      /\ recv.hdr = <<>> /\ recv.body = <<>>
      /\ recv' = [in |-> TRUE, hdr |-> <<>>, body |-> <<>>]
    <2>1. recv = NoMsg
        BY DEF NetRecvMsg, FramingInv, ReceivesInOrder
    <2>2. recv' = [in |-> TRUE, hdr |-> <<>>, body |-> <<>>]
        BY DEF NetRecvMsg, NoMsg
    <2> QED
        BY <2>1, <2>2 DEF NetRecvMsg, NoMsg
<1>2. FramingTypeOK' /\ TakenIsPrefix'
    BY <1>1 DEF FramingInv, FramingTypeOK, TakenIsPrefix
<1>3. ReceivesInOrder'
    BY <1>1 DEF ReceivesInOrder, HeaderIsIn, HeaderBytes
<1>4. ASSUME NEW S, NEW P, Framed(S, P), Underway(S, P)
      PROVE  Framed(S, P)' /\ Underway(S, P)'
    BY <1>1, <1>4 DEF Framed, Underway, First, Second
<1> QED
    BY <1>1, <1>2, <1>3, <1>4 DEF FramingInv

LEMMA RecvFailsInv == ASSUME FramingInv, NetRecvFails PROVE FramingInv'
<1>1. /\ UNCHANGED <<begun, sending, wire, taken>> /\ "receiver" \notin open'
      /\ recv' = NoMsg
    BY DEF NetRecvFails
<1>2. FramingTypeOK' /\ TakenIsPrefix'
    BY <1>1 DEF FramingInv, FramingTypeOK, TakenIsPrefix, NoMsg
<1>3. ReceivesInOrder'
    BY <1>1 DEF ReceivesInOrder, HeaderIsIn, HeaderBytes, NoMsg
<1> QED
    BY <1>1, <1>2, <1>3 DEF FramingInv

\* recv moves bytes from those in flight to the header, and when that is in to the
\* payload.
LEMMA RecvInv == ASSUME FramingInv, NetRecv PROVE FramingInv'
<1> DEFINE x == Len(recv.hdr)
           y == Len(recv.body)
           z == Len(wire)
<1>1. /\ begun' = begun /\ taken' = taken /\ open' = open /\ sending' = sending
      /\ "receiver" \in open /\ recv.in
    BY DEF NetRecv
<1>2. /\ recv \in [in : BOOLEAN, hdr : Seq(Byte), body : Seq(Byte)]
      /\ recv.hdr \in Seq(Byte) /\ recv.body \in Seq(Byte) /\ wire \in Seq(Byte)
    BY DEF FramingInv, FramingTypeOK
<1>3. x \in Nat /\ y \in Nat /\ z \in Nat
    BY <1>2
<1>4. /\ x <= 4 /\ (HeaderIsIn <=> x = 4)
      /\ ~HeaderIsIn => recv.body = <<>>
      /\ HeaderIsIn => y <= Length(recv.hdr)
    BY DEF FramingInv, ReceivesInOrder, HeaderIsIn, HeaderBytes
<1>5. /\ HeaderIsIn => Length(recv.hdr) \in Nat
      /\ Missing = IF HeaderIsIn THEN Length(recv.hdr) - y ELSE 4 - x
      /\ Missing \in Int
    <2>1. HeaderIsIn => Length(recv.hdr) \in Nat
        BY <1>2, <1>4, LengthIsNat
    <2>2. Missing = IF HeaderIsIn THEN Length(recv.hdr) - y ELSE 4 - x
        BY DEF Missing, HeaderBytes
    <2> HIDE DEF x, y
    <2> QED
        BY <1>3, <2>1, <2>2
<1>6. PICK k \in 1 .. Min({Missing, Len(wire)}) :
          /\ recv' = IF HeaderIsIn THEN [recv EXCEPT !.body = @ \o SubSeq(wire, 1, k)]
                                   ELSE [recv EXCEPT !.hdr = @ \o SubSeq(wire, 1, k)]
          /\ wire' = SubSeq(wire, k + 1, Len(wire))
    BY DEF NetRecv
<1>7. k \in Nat /\ k <= Missing /\ k \in 0 .. Len(wire)
    <2>1. Min({Missing, z}) \in Int /\ Min({Missing, z}) <= Missing /\ Min({Missing, z}) <= z
        <3> HIDE DEF z
        <3>1. z \in Int /\ Missing \in Int
            BY <1>3, <1>5
        <3> QED
            BY <3>1, MinOfTwo, Zenon
    <2>2. k \in 1 .. Min({Missing, z})
        OBVIOUS
    <2>3. k \in Nat /\ k <= Missing /\ k \in 0 .. z
        <3> HIDE DEF z
        <3> QED
            BY <1>3, <1>5, <2>1, <2>2
    <2> QED
        BY <2>3
<1> DEFINE got == SubSeq(wire, 1, k)
<1>8. /\ got \in Seq(Byte) /\ Len(got) = k /\ wire' \in Seq(Byte) /\ Len(wire') = z - k
    <2>1. /\ SubSeq(wire, 1, k) \in Seq(Byte) /\ SubSeq(wire, k + 1, Len(wire)) \in Seq(Byte)
          /\ Len(SubSeq(wire, 1, k)) = k /\ Len(SubSeq(wire, k + 1, Len(wire))) = Len(wire) - k
        BY <1>2, <1>7
    <2> QED
        BY <1>6, <2>1
<1> DEFINE hdr2 == recv.hdr \o got
           body2 == recv.body \o got
<1>9. /\ hdr2 \in Seq(Byte) /\ Len(hdr2) = x + k
      /\ body2 \in Seq(Byte) /\ Len(body2) = y + k
    <2> HIDE DEF got
    <2>1. /\ recv.hdr \o got \in Seq(Byte) /\ Len(recv.hdr \o got) = Len(recv.hdr) + Len(got)
          /\ recv.body \o got \in Seq(Byte) /\ Len(recv.body \o got) = Len(recv.body) + Len(got)
        BY <1>2, <1>8, JoinedLength
    <2> QED
        BY <1>8, <2>1
<1>10. /\ HeaderIsIn => recv' = [recv EXCEPT !.body = body2]
       /\ ~HeaderIsIn => recv' = [recv EXCEPT !.hdr = hdr2]
    BY <1>6
<1> HIDE DEF hdr2, body2
<1>11. recv' \in [in : BOOLEAN, hdr : Seq(Byte), body : Seq(Byte)] /\ recv'.in
    BY <1>1, <1>2, <1>9, <1>10
<1>12. ASSUME HeaderIsIn
       PROVE  /\ ReceivesInOrder'
              /\ \A S, P : Framed(S, P) /\ Underway(S, P) => Underway(S, P)'
    <2>1. recv'.hdr = recv.hdr /\ recv'.body = body2
        BY <1>2, <1>10, <1>12
    <2>2. y + k <= Length(recv.hdr)
        <3> HIDE DEF x, y
        <3> QED
            BY <1>3, <1>5, <1>7, <1>12
    <2>3. ReceivesInOrder'
        BY <1>4, <1>9, <1>11, <1>12, <2>1, <2>2 DEF ReceivesInOrder, HeaderIsIn, HeaderBytes
    <2>4. ASSUME NEW S, NEW P, Framed(S, P), Underway(S, P) PROVE Underway(S, P)'
        <3> DEFINE b == P[Len(taken)]
                   q == b + x
                   p == q + y
        <3>1. /\ Lies(S, b, recv.hdr) /\ Lies(S, q, recv.body) /\ Lies(S, p, wire)
              /\ Lies(S, p + z, First) /\ Lies(S, p + z + Len(First), Second)
              /\ P[Len(begun)] = p + z + Len(First) + Len(Second)
            BY <2>4 DEF Underway
        <3>2. b \in Nat
            BY <2>4, Parts
        <3>3. q \in Nat /\ p \in Nat
            <4> HIDE DEF b, x, y
            <4> QED
                BY <1>3, <3>2
        <3> HIDE DEF b, q, p, x, y, z
        <3>4. Lies(S, p, got) /\ Lies(S, p + k, wire')
            BY <1>2, <1>6, <1>7, <3>1, <3>3, LiesCut
        <3>5. Lies(S, q, body2)
            <4>1. Lies(S, q + Len(recv.body), got)
                BY <3>4 DEF p, y
            <4> HIDE DEF got
            <4> QED
                BY <1>2, <1>8, <3>1, <3>3, <4>1, LiesJoin DEF body2
        <3>6. /\ q + Len(body2) = p + k
              /\ q + Len(body2) + Len(wire') = p + z
            <4> DEFINE u == Len(body2)
                       w == Len(wire')
            <4>1. u = y + k /\ w = z - k /\ p = q + y
                BY <1>8, <1>9 DEF p
            <4> HIDE DEF u, w
            <4>2. q + u = p + k /\ q + u + w = p + z
                BY <1>3, <1>7, <3>3, <4>1
            <4> QED
                BY <4>2 DEF u, w
        <3> HIDE DEF got
        <3>7. First' = First /\ Second' = Second
            BY <1>1 DEF First, Second
        <3>8. b + Len(recv'.hdr) = q /\ P[Len(taken')] = b
            BY <1>1, <2>1 DEF q, b, x
        <3> QED
            BY <1>1, <2>1, <3>1, <3>4, <3>5, <3>6, <3>7, <3>8 DEF Underway
    <2> QED
        BY <2>3, <2>4
<1>13. ASSUME ~HeaderIsIn
       PROVE  /\ ReceivesInOrder'
              /\ \A S, P : Framed(S, P) /\ Underway(S, P) => Underway(S, P)'
    <2>1. recv'.hdr = hdr2 /\ recv'.body = <<>> /\ y = 0
        BY <1>2, <1>4, <1>10, <1>13
    <2>2. x + k <= 4
        <3> HIDE DEF x, y
        <3> QED
            BY <1>3, <1>5, <1>7, <1>13
    <2>3. ReceivesInOrder'
        <3>1. Len(hdr2) = 4 => Length(hdr2) \in Nat
            BY <1>9, LengthIsNat
        <3>2. Len(hdr2) <= 4 /\ Len(<<>>) = 0
            BY <1>9, <2>2
        <3> DEFINE c == Length(hdr2)
        <3>3. Len(hdr2) = 4 => Len(<<>>) <= c
            <4> HIDE DEF c
            <4> QED
                BY <3>1, <3>2 DEF c
        <3> QED
            BY <1>11, <2>1, <3>2, <3>3 DEF ReceivesInOrder, HeaderIsIn, HeaderBytes
    <2>4. ASSUME NEW S, NEW P, Framed(S, P), Underway(S, P) PROVE Underway(S, P)'
        <3> DEFINE b == P[Len(taken)]
                   p == b + x
        <3>1. b \in Nat
            BY <2>4, Parts
        <3>2. p \in Nat /\ p + y = p
            <4> HIDE DEF b, x, y
            <4> QED
                BY <1>3, <2>1, <3>1
        <3>3. /\ Lies(S, b, recv.hdr) /\ Lies(S, p + y, wire)
              /\ Lies(S, p + y + z, First) /\ Lies(S, p + y + z + Len(First), Second)
              /\ P[Len(begun)] = p + y + z + Len(First) + Len(Second)
            BY <2>4 DEF Underway
        <3> HIDE DEF b, p, x, y, z
        <3>4. /\ Lies(S, b, recv.hdr) /\ Lies(S, p, wire)
              /\ Lies(S, p + z, First) /\ Lies(S, p + z + Len(First), Second)
              /\ P[Len(begun)] = p + z + Len(First) + Len(Second)
            BY <3>2, <3>3
        <3>5. Lies(S, p, got) /\ Lies(S, p + k, wire')
            BY <1>2, <1>6, <1>7, <3>2, <3>4, LiesCut
        <3>6. Lies(S, b, hdr2)
            <4>1. Lies(S, b + Len(recv.hdr), got)
                BY <3>5 DEF p, x
            <4> HIDE DEF got
            <4> QED
                BY <1>2, <1>8, <3>1, <3>4, <4>1, LiesJoin DEF hdr2
        <3>7. /\ b + Len(hdr2) + Len(<<>>) = p + k
              /\ b + Len(hdr2) + Len(<<>>) + Len(wire') = p + z
            <4> DEFINE u == Len(hdr2)
                       w == Len(wire')
                       v == Len(<<>>)
            <4>1. u = x + k /\ w = z - k /\ p = b + x /\ v = 0
                BY <1>8, <1>9 DEF p
            <4> HIDE DEF u, w, v
            <4>2. b + u + v = p + k /\ b + u + v + w = p + z
                BY <1>3, <1>7, <3>1, <3>2, <4>1
            <4> QED
                BY <4>2 DEF u, w, v
        <3> HIDE DEF got
        <3>8. First' = First /\ Second' = Second
            BY <1>1 DEF First, Second
        <3>9. P[Len(taken')] = b /\ Lies(S, b + Len(hdr2), <<>>)
            BY <1>1 DEF b, Lies
        <3> QED
            BY <1>1, <2>1, <3>4, <3>5, <3>6, <3>7, <3>8, <3>9 DEF Underway
    <2> QED
        BY <2>3, <2>4
<1>14. FramingTypeOK' /\ TakenIsPrefix'
    BY <1>1, <1>8, <1>11 DEF FramingInv, FramingTypeOK, TakenIsPrefix
<1>15. ASSUME NEW S, NEW P, Framed(S, P) PROVE Framed(S, P)'
    BY <1>1, <1>15 DEF Framed
<1>16. PICK S, P : Framed(S, P) /\ Underway(S, P)
    BY <1>1 DEF FramingInv
<1>17. (Framed(S, P) /\ Underway(S, P))'
    BY <1>12, <1>13, <1>15, <1>16
<1> QED
    BY <1>12, <1>13, <1>14, <1>17 DEF FramingInv

\* A complete message is the next one of the calls of net_send_msg.
LEMMA CompleteIsNext ==
    ASSUME FramingInv, NetRecvReturns,
           NEW S, NEW P, Framed(S, P), Underway(S, P)
    PROVE  /\ Len(taken) < Len(begun)
           /\ recv.body = begun[Len(taken) + 1]
           /\ P[Len(taken) + 1] = P[Len(taken)] + Len(recv.hdr) + Len(recv.body)
<1> DEFINE n == Len(begun)
           t == Len(taken)
           b == P[t]
           x == Len(recv.hdr)
           y == Len(recv.body)
<1>1. /\ First \in Seq(Byte) /\ Second \in Seq(Byte) /\ wire \in Seq(Byte)
      /\ recv.hdr \in Seq(Byte) /\ recv.body \in Seq(Byte)
      /\ t \in 0 .. n /\ b \in Nat /\ begun \in Seq(Messages) /\ n \in Nat
    BY Parts DEF FramingInv, FramingTypeOK
<1>2. x = 4 /\ y \in Nat /\ Length(recv.hdr) = y
    <2>1. x = 4 /\ Length(recv.hdr) - y = 0 /\ y \in Nat
        BY <1>1 DEF NetRecvReturns, Missing, HeaderIsIn, HeaderBytes
    <2>2. Length(recv.hdr) \in Nat
        BY <1>1, <2>1, LengthIsNat
    <2> HIDE DEF y
    <2> QED
        BY <2>1, <2>2
<1>3. /\ Lies(S, b, recv.hdr) /\ Lies(S, b + x, recv.body)
      /\ P[n] = b + x + y + Len(wire) + Len(First) + Len(Second)
    BY DEF Underway
<1>4. t < n
    <2> DEFINE u == Len(wire)
               v == Len(First)
               w == Len(Second)
    <2>1. u \in Nat /\ v \in Nat /\ w \in Nat /\ P[n] = b + x + y + u + v + w
        BY <1>1, <1>3
    <2>2. b \in Nat /\ x = 4 /\ y \in Nat
        BY <1>1, <1>2
    <2>3. ASSUME t = n PROVE FALSE
        <3>1. b = P[n]
            BY <2>3
        <3> HIDE DEF n, t, b, x, y, u, v, w
        <3> QED
            BY <2>1, <2>2, <3>1
    <2>4. t \in 0 .. n /\ n \in Nat
        BY <1>1
    <2> HIDE DEF n, t
    <2> QED
        BY <2>4, <2>3
<1> DEFINE i == t + 1
           m == begun[i]
<1>5. i \in 1 .. n /\ i - 1 = t
    <2> HIDE DEF t, n
    <2> QED
        BY <1>1, <1>4
<1>6. /\ P[i] = b + HeaderBytes + Len(m)
      /\ Lies(S, b, Header(Len(m))) /\ Lies(S, b + HeaderBytes, m)
    <2>1. /\ P[i] = P[i - 1] + HeaderBytes + Len(begun[i])
          /\ Lies(S, P[i - 1], Header(Len(begun[i])))
          /\ Lies(S, P[i - 1] + HeaderBytes, begun[i])
        BY <1>5 DEF Framed
    <2> QED
        BY <1>5, <2>1
<1>7. m \in Messages
    <2> HIDE DEF i, n
    <2>1. i \in 1 .. Len(begun)
        BY <1>5 DEF n
    <2> QED
        BY <1>1, <2>1, EntryOf
<1>8. m \in Seq(Byte) /\ Len(m) \in Nat
    BY <1>7, FramingAssumption DEF Byte
<1> HIDE DEF m, b
<1>9. Length(recv.hdr) = Len(m)
    <2> DEFINE h == Header(Len(m))
    <2>1. h \in Seq(Byte) /\ Len(h) = 4 /\ Length(h) = Len(m)
        BY <1>7, LengthOfHeader
    <2>2. \A j \in 1 .. 4 : S[b + j] = h[j]
        BY <1>6, <2>1 DEF Lies
    <2>3. \A j \in 1 .. 4 : S[b + j] = recv.hdr[j]
        BY <1>2, <1>3 DEF Lies
    <2> HIDE DEF h
    <2>4. \A j \in 1 .. 4 : recv.hdr[j] = h[j]
        BY <2>2, <2>3
    <2>5. recv.hdr[1] = h[1] /\ recv.hdr[2] = h[2] /\ recv.hdr[3] = h[3] /\ recv.hdr[4] = h[4]
        BY <2>4
    <2> QED
        BY <2>1, <2>5 DEF Length
<1>10. y = Len(m)
    BY <1>2, <1>9
<1>11. recv.body = m
    <2>1. \A j \in 1 .. y : S[(b + x) + j] = recv.body[j]
        BY <1>3 DEF Lies
    <2>2. \A j \in 1 .. y : S[(b + x) + j] = m[j]
        BY <1>2, <1>6, <1>10 DEF Lies, HeaderBytes
    <2>3. \A j \in 1 .. y : recv.body[j] = m[j]
        BY <2>1, <2>2
    <2> QED
        <3>1. recv.body \in Seq(Byte)
            BY <1>1
        <3> QED
            BY <1>8, <1>10, <2>3, <3>1, SeqEqual
<1> QED
    BY <1>2, <1>4, <1>6, <1>11 DEF HeaderBytes, b, m

LEMMA RecvReturnsInv == ASSUME FramingInv, NetRecvReturns PROVE FramingInv'
<1> DEFINE n == Len(begun)
           t == Len(taken)
<1>1. /\ begun' = begun /\ sending' = sending /\ open' = open /\ wire' = wire
      /\ "receiver" \in open /\ recv' = NoMsg /\ taken' = Append(taken, recv.body)
    BY DEF NetRecvReturns
<1>2. PICK S, P : Framed(S, P) /\ Underway(S, P)
    BY <1>1 DEF FramingInv
<1>3. /\ t < n
      /\ recv.body = begun[t + 1]
      /\ P[t + 1] = P[t] + Len(recv.hdr) + Len(recv.body)
    BY <1>2, CompleteIsNext
<1>4. /\ recv.hdr \in Seq(Byte) /\ recv.body \in Seq(Byte) /\ taken \in Seq(Seq(Byte))
      /\ wire \in Seq(Byte) /\ P[t] \in Nat /\ t \in Nat /\ n \in Nat
    BY <1>2, Parts DEF FramingInv, FramingTypeOK
<1>5. /\ taken' \in Seq(Seq(Byte)) /\ Len(taken') = t + 1 /\ taken'[t + 1] = recv.body
      /\ \A i \in 1 .. t : taken'[i] = taken[i]
    BY <1>1, <1>4
<1>6. FramingTypeOK'
    BY <1>1, <1>5 DEF FramingInv, FramingTypeOK, NoMsg
<1>7. ReceivesInOrder'
    BY <1>1 DEF ReceivesInOrder, HeaderIsIn, HeaderBytes, NoMsg
<1>8. TakenIsPrefix'
    <2>1. \A i \in 1 .. t : taken[i] = begun[i]
        BY DEF FramingInv, TakenIsPrefix
    <2>2. Len(taken') <= Len(begun')
        <3> HIDE DEF t, n
        <3>1. t + 1 <= n
            BY <1>3, <1>4
        <3> QED
            BY <1>1, <1>5, <3>1 DEF n
    <2>3. ASSUME NEW i \in 1 .. t + 1 PROVE taken'[i] = begun[i]
        <3> HIDE DEF t
        <3>1. i = t + 1 \/ i \in 1 .. t
            BY <1>4
        <3> QED
            BY <1>3, <1>5, <2>1, <3>1
    <2> QED
        BY <1>1, <1>5, <2>2, <2>3 DEF TakenIsPrefix
<1>9. Framed(S, P)'
    BY <1>1, <1>2 DEF Framed
<1>10. Underway(S, P)'
    <2> DEFINE b == P[t]
               x == Len(recv.hdr)
               y == Len(recv.body)
               c == P[t + 1]
               z == Len(wire)
               o == Len(<<>>)
    <2>1. /\ Lies(S, b + x + y, wire)
          /\ Lies(S, b + x + y + z, First) /\ Lies(S, b + x + y + z + Len(First), Second)
          /\ P[n] = b + x + y + z + Len(First) + Len(Second)
        BY <1>2 DEF Underway
    <2>2. c = b + x + y
        BY <1>3
    <2>3. c \in Nat /\ o = 0
        <3>1. x \in Nat /\ y \in Nat /\ b \in Nat /\ o = 0
            BY <1>4
        <3> HIDE DEF b, x, y, c, o
        <3> QED
            BY <2>2, <3>1
    <2> HIDE DEF b, x, y, c, z, o
    <2>4. c + o = c /\ c + o + o = c
        BY <2>3
    <2>5. /\ Lies(S, c + o + o, wire)
          /\ Lies(S, c + o + o + z, First) /\ Lies(S, c + o + o + z + Len(First), Second)
          /\ P[n] = c + o + o + z + Len(First) + Len(Second)
        BY <2>1, <2>2, <2>4
    <2>6. Lies(S, c, <<>>) /\ Lies(S, c + o, <<>>)
        BY DEF Lies
    <2>7. P[Len(taken')] = c /\ P[Len(begun')] = P[n]
        BY <1>1, <1>5 DEF c
    <2>8. First' = First /\ Second' = Second
        BY <1>1 DEF First, Second
    <2>9. recv'.hdr = <<>> /\ recv'.body = <<>>
        BY <1>1 DEF NoMsg
    <2> QED
        BY <1>1, <2>5, <2>6, <2>7, <2>8, <2>9 DEF Underway, o, z
<1> QED
    BY <1>6, <1>7, <1>8, <1>9, <1>10 DEF FramingInv

LEMMA FramingNextInv == FramingInv /\ [FramingNext]_linkVars => FramingInv'
<1> SUFFICES ASSUME FramingInv, [FramingNext]_linkVars PROVE FramingInv'
    OBVIOUS
<1>1. ASSUME NEW m \in Messages, NetSendMsg(m) PROVE FramingInv'
    BY <1>1, SendMsgInv
<1>2. CASE NetSend
    BY <1>2, SendInv
<1>3. CASE NetSendReturns
    BY <1>3, SendReturnsInv
<1>4. CASE NetSendFails \/ SenderCloses \/ UNCHANGED linkVars
    BY <1>4, EndsCloseInv
<1>5. CASE NetRecvMsg
    BY <1>5, RecvMsgInv
<1>6. CASE NetRecv
    BY <1>6, RecvInv
<1>7. CASE NetRecvReturns
    BY <1>7, RecvReturnsInv
<1>8. CASE NetRecvFails
    BY <1>8, RecvFailsInv
<1> QED
    BY <1>1, <1>2, <1>3, <1>4, <1>5, <1>6, <1>7, <1>8
    DEF FramingNext, SenderStep, ReceiverStep

\* A step of the two ends is a step of the link, or none of it.
LEMMA FramingStepIsLinkStep ==
    FramingInv /\ [FramingNext]_linkVars => [Link!LinkNext]_<<begun, taken>>
<1> SUFFICES ASSUME FramingInv, [FramingNext]_linkVars
             PROVE  [Link!LinkNext]_<<begun, taken>>
    OBVIOUS
<1>1. ASSUME NEW m \in Messages, NetSendMsg(m) PROVE Link!LinkNext
    BY <1>1 DEF NetSendMsg, Link!LinkNext, Link!SendMsg
<1>2. CASE NetRecvReturns
    <2>1. PICK S, P : Framed(S, P) /\ Underway(S, P)
        BY <1>2 DEF FramingInv, NetRecvReturns
    <2>2. /\ Len(taken) < Len(begun)
          /\ recv.body = begun[Len(taken) + 1]
        BY <1>2, <2>1, CompleteIsNext
    <2>3. taken' = Append(taken, recv.body) /\ begun' = begun
        BY <1>2 DEF NetRecvReturns
    <2> QED
        BY <2>2, <2>3 DEF Link!LinkNext, Link!Deliver
<1>3. CASE NetSend \/ NetSendReturns \/ NetSendFails \/ SenderCloses \/ NetRecvMsg
           \/ NetRecv \/ NetRecvFails \/ UNCHANGED linkVars
    <2>1. begun' = begun /\ taken' = taken
        BY <1>3 DEF NetSend, NetSendReturns, NetSendFails, SenderCloses, NetRecvMsg, NetRecv,
                    NetRecvFails, linkVars
    <2> QED
        BY <2>1
<1> QED
    BY <1>1, <1>2, <1>3 DEF FramingNext, SenderStep, ReceiverStep

\* However the kernel cuts the stream and whoever gives up, net_recv_msg returns
\* the messages net_send_msg was called with, whole, in their order and once.
THEOREM MessagesArriveWhole == FramingSpec => ImplementsMsgLink
<1>1. FramingInit => Link!LinkInit
    BY DEF FramingInit, Link!LinkInit
<1> QED
    BY <1>1, FramingInitInv, FramingNextInv, FramingStepIsLinkStep, PTL
    DEF FramingSpec, ImplementsMsgLink

----------------------------------------------------------------------------
(* Instants, dates and durations *)

\* How far the date under way is from the moment its instant stands for.
Off == Moment(date) - (origin + skew)

ClockTypeOK ==
    /\ now \in Int /\ skew \in Int /\ instant \in Int /\ origin \in Int /\ mono \in Int
    /\ lag \in Nat
    /\ date \in [sec : Int, nsec : Int]
    /\ clockPc \in {"idle", "to_mono", "to_wall", "from_mono", "from_wall", "done"}

\* What the clocks ran since the reading of the monotonic one is part of lag.
ClockInv ==
    /\ ClockTypeOK
    /\ clockPc # "done" => instant = origin
    /\ clockPc \in {"to_wall", "from_wall"} => mono <= now /\ now - mono <= lag
    /\ clockPc = "to_wall" => now = mono + lag
    /\ clockPc = "to_mono" => lag = 0
    /\ clockPc = "from_mono" => Off < SEC + lag /\ -Off < SEC
    /\ clockPc = "from_wall" => Off + (now - mono) < SEC + lag /\ -Off < SEC
    /\ clockPc = "done" => instant - origin < 2 * SEC + lag /\ origin - instant < 2 * SEC + lag

LEMMA Units ==
    /\ US \in Nat \ {0} /\ MS \in Nat \ {0} /\ SEC \in Nat \ {0} /\ MIN \in Nat \ {0}
    /\ HOUR \in Nat \ {0}
    BY ClockAssumption

\* Division towards zero leaves less than the divisor, on the side of the dividend.
LEMMA Truncated ==
    ASSUME NEW a \in Int, NEW b \in Nat \ {0}
    PROVE  /\ TruncDiv(a, b) \in Int /\ TruncMod(a, b) \in Int
           /\ a = b * TruncDiv(a, b) + TruncMod(a, b)
           /\ a >= 0 => TruncMod(a, b) \in 0 .. b - 1
           /\ a < 0 => -TruncMod(a, b) \in 0 .. b - 1
<1> DEFINE q == TruncDiv(a, b)
           r == TruncMod(a, b)
<1>1. CASE a < 0
    <2> DEFINE c == -a
               s == c \div b
               t == c % b
    <2>1. c \in Int
        OBVIOUS
    <2>2. s \in Int /\ t \in 0 .. b - 1 /\ c = b * s + t
        BY <2>1, DivMod
    <2>3. q = -s /\ r = a - b * q
        BY <1>1 DEF TruncDiv, TruncMod
    <2>4. c = -a
        OBVIOUS
    <2> HIDE DEF q, r, s, t, c
    <2>5. b * q = -(b * s)
        BY <2>2, <2>3
    <2>6. b * s \in Int
        BY <2>2
    <2>7. r = -t
        BY <2>2, <2>3, <2>4, <2>5, <2>6
    <2>8. q \in Int /\ r \in Int /\ a = b * q + r /\ -r \in 0 .. b - 1
        <3>1. b * q \in Int
            BY <2>2, <2>3
        <3> QED
            BY <2>2, <2>3, <2>7, <3>1
    <2> QED
        BY <1>1, <2>8 DEF q, r
<1>2. CASE a >= 0
    <2> DEFINE s == a \div b
               t == a % b
    <2>1. s \in Int /\ t \in 0 .. b - 1 /\ a = b * s + t
        BY DivMod
    <2>2. q = s /\ r = a - b * q
        BY <1>2 DEF TruncDiv, TruncMod
    <2> HIDE DEF q, r, s, t
    <2>3. b * s \in Int
        BY <2>1
    <2>4. r = t
        BY <2>1, <2>2, <2>3
    <2> QED
        BY <1>2, <2>1, <2>2, <2>4 DEF q, r
<1> QED
    BY <1>1, <1>2

\* The second the wall clock shows began less than a second ago.
LEMMA WallSecondIsNear ==
    ASSUME ClockTypeOK
    PROVE  /\ WallSecond \in Int
           /\ WallSecond * SEC <= now + skew
           /\ now + skew < WallSecond * SEC + SEC
<1> DEFINE w == now + skew
           q == w \div SEC
           r == w % SEC
<1>1. w \in Int
    BY DEF ClockTypeOK
<1>2. q \in Int /\ r \in 0 .. SEC - 1 /\ w = SEC * q + r
    BY <1>1, Units, DivMod
<1>3. WallSecond = q
    BY DEF WallSecond
<1> HIDE DEF w, q, r
<1>4. SEC * q = q * SEC /\ q * SEC \in Int
    BY <1>2, Units
<1>5. q * SEC <= w /\ w < q * SEC + SEC
    BY <1>1, <1>2, <1>4, Units
<1> QED
    BY <1>2, <1>3, <1>5 DEF w

LEMMA ClockInitInv == ClockInit => ClockInv
<1> SUFFICES ASSUME ClockInit PROVE ClockInv
    OBVIOUS
<1>1. skew \in Int
    BY ClockAssumption DEF ClockInit
<1> QED
    BY <1>1 DEF ClockInit, ClockInv, ClockTypeOK

LEMMA TickInv == ASSUME ClockInv, Tick PROVE ClockInv'
<1>1. /\ now' = now + 1 /\ now \in Int /\ lag \in Nat
      /\ lag' = IF clockPc \in {"to_wall", "from_wall"} THEN lag + 1 ELSE lag
      /\ UNCHANGED <<skew, instant, origin, date, mono, clockPc>>
    BY DEF Tick, ClockInv, ClockTypeOK
<1>2. ClockTypeOK'
    BY <1>1 DEF ClockInv, ClockTypeOK
<1>3. Off' = Off /\ Off \in Int
    BY <1>1, Units DEF Off, Moment, ClockInv, ClockTypeOK
<1> QED
    BY <1>1, <1>2, <1>3, Units DEF ClockInv, ClockTypeOK

LEMMA TakeInstantInv == ASSUME ClockInv, TakeInstant PROVE ClockInv'
<1>1. PICK d \in -Reach .. Reach : instant' = now + d /\ origin' = now + d
    BY DEF TakeInstant
<1>2. d \in Int
    BY ClockAssumption
<1> QED
    BY <1>1, <1>2 DEF TakeInstant, ClockInv, ClockTypeOK

LEMMA ReadMonotonicInv == ASSUME ClockInv, ReadMonotonic PROVE ClockInv'
<1>1. /\ mono' = now /\ UNCHANGED <<now, skew, instant, origin, date, lag>>
      /\ \/ clockPc = "to_mono" /\ clockPc' = "to_wall"
         \/ clockPc = "from_mono" /\ clockPc' = "from_wall"
    BY DEF ReadMonotonic
<1>2. Off' = Off /\ Off \in Int
    BY <1>1, Units DEF Off, Moment, ClockInv, ClockTypeOK
<1>3. ClockTypeOK'
    BY <1>1 DEF ClockInv, ClockTypeOK
<1> QED
    BY <1>1, <1>2, <1>3, Units DEF ClockInv, ClockTypeOK

LEMMA DatetimeUtcInv == ASSUME ClockInv, DatetimeUtc PROVE ClockInv'
<1> DEFINE delta == instant - mono
           w == WallSecond
           q == TruncDiv(delta, SEC)
           r == TruncMod(delta, SEC)
<1>1. /\ clockPc = "to_wall" /\ clockPc' = "from_mono"
      /\ UNCHANGED <<now, skew, instant, origin, mono, lag>>
      /\ date' = [sec |-> w + q, nsec |-> IF r < 0 THEN 0 ELSE r]
    BY DEF DatetimeUtc
<1>2. /\ now \in Int /\ skew \in Int /\ instant \in Int /\ mono \in Int /\ lag \in Nat
      /\ instant = origin /\ now = mono + lag /\ SEC \in Nat \ {0} /\ delta \in Int
    BY <1>1, Units DEF ClockInv, ClockTypeOK
<1>3. /\ w \in Int /\ w * SEC <= now + skew /\ now + skew < w * SEC + SEC
    BY WallSecondIsNear DEF ClockInv
<1>4. /\ q \in Int /\ r \in Int /\ delta = SEC * q + r
      /\ delta >= 0 => r \in 0 .. SEC - 1
      /\ delta < 0 => -r \in 0 .. SEC - 1
    BY <1>2, Truncated
<1> DEFINE g == IF r < 0 THEN 0 ELSE r
<1>5. Moment(date') = (w + q) * SEC + g
    BY <1>1 DEF Moment
<1> HIDE DEF w, q, r
<1>6. g \in Int /\ r <= g /\ g - r < SEC
    BY <1>2, <1>4
<1> HIDE DEF g
<1>7. (w + q) * SEC = w * SEC + SEC * q /\ w * SEC \in Int /\ SEC * q \in Int
    <2>1. \A a, b \in Int, s \in Nat : (a + b) * s = a * s + s * b /\ a * s \in Int /\ s * b \in Int
        OBVIOUS
    <2> QED
        BY <1>2, <1>3, <1>4, <2>1
<1> DEFINE x == w * SEC
           y == SEC * q
           m == Moment(date')
<1>8. m = x + y + g /\ x \in Int /\ y \in Int /\ m \in Int
    <2>1. x \in Int /\ y \in Int /\ m = (x + y) + g
        BY <1>5, <1>7
    <2> HIDE DEF x, y, m
    <2> QED
        BY <1>6, <2>1
<1>9. x <= now + skew /\ now + skew < x + SEC /\ instant - mono = y + r
    BY <1>3, <1>4
<1> HIDE DEF x, y, m
<1>10. /\ m - (instant + skew) < SEC + lag
       /\ -(m - (instant + skew)) < SEC
    BY <1>2, <1>4, <1>6, <1>8, <1>9
<1>11. Off' < SEC + lag' /\ -(Off') < SEC
    BY <1>1, <1>2, <1>10 DEF Off, m, Moment
<1>12. ClockTypeOK'
    <2>1. w + q \in Int
        BY <1>3, <1>4
    <2>2. date' \in [sec : Int, nsec : Int]
        BY <1>1, <1>6, <2>1 DEF g
    <2> QED
        BY <1>1, <2>2 DEF ClockInv, ClockTypeOK
<1> QED
    BY <1>1, <1>2, <1>11, <1>12 DEF ClockInv

LEMMA InstantFromDatetimeInv == ASSUME ClockInv, InstantFromDatetime PROVE ClockInv'
<1> DEFINE w == WallSecond
<1>1. /\ clockPc = "from_wall" /\ clockPc' = "done"
      /\ instant' = mono + (date.sec - w) * SEC + date.nsec
      /\ UNCHANGED <<now, skew, origin, date, mono, lag>>
    BY DEF InstantFromDatetime
<1>2. /\ now \in Int /\ skew \in Int /\ origin \in Int /\ mono \in Int /\ lag \in Nat
      /\ date.sec \in Int /\ date.nsec \in Int
      /\ mono <= now /\ now - mono <= lag
      /\ Off + (now - mono) < SEC + lag /\ -Off < SEC
      /\ SEC \in Nat \ {0}
    BY <1>1, Units DEF ClockInv, ClockTypeOK
<1>3. /\ w \in Int /\ w * SEC <= now + skew /\ now + skew < w * SEC + SEC
    BY WallSecondIsNear DEF ClockInv
<1>4. Off = (date.sec * SEC + date.nsec) - (origin + skew)
    BY DEF Off, Moment
<1> DEFINE a == date.sec
           n == date.nsec
           x == w * SEC
           y == a * SEC
           o == Off
<1> HIDE DEF w
<1>5. (a - w) * SEC = y - x /\ x \in Int /\ y \in Int
    <2>1. \A i, j \in Int, s \in Nat : (i - j) * s = i * s - j * s /\ i * s \in Int
        OBVIOUS
    <2> HIDE DEF a
    <2>2. a \in Int
        BY <1>2 DEF a
    <2> QED
        BY <1>2, <1>3, <2>1, <2>2
<1>6. /\ o = (y + n) - (origin + skew) /\ n \in Int
      /\ o + (now - mono) < SEC + lag /\ -o < SEC
      /\ x <= now + skew /\ now + skew < x + SEC
    BY <1>2, <1>3, <1>4
<1>7. instant' = mono + (y - x) + n
    BY <1>1, <1>5
<1> HIDE DEF a, n, x, y, o
<1>8. /\ instant' \in Int
      /\ instant' - origin < 2 * SEC + lag
      /\ origin - instant' < 2 * SEC + lag
    BY <1>2, <1>5, <1>6, <1>7
<1>9. ClockTypeOK'
    BY <1>1, <1>8 DEF ClockInv, ClockTypeOK
<1> QED
    BY <1>1, <1>8, <1>9 DEF ClockInv

LEMMA ClockNextInv == ClockInv /\ [ClockNext]_clockVars => ClockInv'
<1> SUFFICES ASSUME ClockInv, [ClockNext]_clockVars PROVE ClockInv'
    OBVIOUS
<1>1. CASE UNCHANGED clockVars
    <2>1. Off' = Off
        BY <1>1 DEF clockVars, Off, Moment
    <2> QED
        BY <1>1, <2>1 DEF clockVars, ClockInv, ClockTypeOK
<1> QED
    BY <1>1, TickInv, TakeInstantInv, ReadMonotonicInv, DatetimeUtcInv, InstantFromDatetimeInv
    DEF ClockNext

\* A date is less than a second from the moment its instant stands for, and an
\* instant that goes through a date and back moves by less than two, each more by
\* what the clocks ran meanwhile, whatever the units, the instant and the times of
\* the readings.
THEOREM DatesAreNear == ClockSpec => []DatesNearInstants
<1>1. ClockInv => DatesNearInstants
    <2> SUFFICES ASSUME ClockInv PROVE DatesNearInstants
        OBVIOUS
    <2>1. ASSUME clockPc = "from_mono"
          PROVE /\ Moment(date) - (instant + skew) < SEC + lag
                /\ (instant + skew) - Moment(date) < SEC
        <3> DEFINE m == Moment(date)
        <3>1. /\ instant \in Int /\ skew \in Int /\ instant = origin /\ SEC \in Nat
              /\ Off < SEC + lag /\ -Off < SEC /\ Off = m - (origin + skew)
            BY <2>1, Units DEF ClockInv, ClockTypeOK, Off
        <3>2. m \in Int
            <4>1. date.sec \in Int /\ date.nsec \in Int
                BY DEF ClockInv, ClockTypeOK
            <4> QED
                BY <3>1, <4>1 DEF Moment
        <3> HIDE DEF m
        <3>3. m - (instant + skew) < SEC + lag /\ (instant + skew) - m < SEC
            BY <3>1, <3>2
        <3> QED
            BY <3>3 DEF m
    <2> QED
        BY <2>1 DEF DatesNearInstants, ClockInv
<1> QED
    BY <1>1, ClockInitInv, ClockNextInv, PTL DEF ClockSpec

----------------------------------------------------------------------------
(* The text of a duration *)

IsPart(p) == p.n \in Nat /\ p.unit \in Nat \ {0}
Amount(p) == p.n * p.unit
IsParts(s) == \A i \in 1 .. Len(s) : IsPart(s[i])

\* What up to four parts add up to: the first of them and what the others do.
LEMMA TotalOfParts ==
    ASSUME NEW T, NEW s \in Seq(T), Len(s) <= 4, IsParts(s)
    PROVE  Total(s) = (IF Len(s) >= 1 THEN Amount(s[1]) ELSE 0)
                      + (IF Len(s) >= 2 THEN Amount(s[2]) ELSE 0)
                      + (IF Len(s) >= 3 THEN Amount(s[3]) ELSE 0)
                      + (IF Len(s) >= 4 THEN Amount(s[4]) ELSE 0)
<1> DEFINE n == Len(s)
           a(i) == s[i].n * s[i].unit
           F(f) == [i \in 0 .. n |-> IF i = 0 THEN 0 ELSE f[i - 1] + a(i)]
           sum == CHOOSE f : f = F(f)
<1>1. n \in 0 .. 4
    <2>1. n \in Nat /\ n <= 4
        OBVIOUS
    <2> HIDE DEF n
    <2> QED
        BY <2>1
<1>2. \A i \in 1 .. n : a(i) = Amount(s[i]) /\ a(i) \in Int
    <2> SUFFICES ASSUME NEW i \in 1 .. n PROVE a(i) = Amount(s[i]) /\ a(i) \in Int
        OBVIOUS
    <2>1. IsPart(s[i])
        BY DEF IsParts
    <2> QED
        BY <2>1 DEF IsPart, Amount
<1> HIDE DEF n, a
<1>3. sum = F(sum)
    <2> DEFINE g == [i \in 0 .. n |->
                        IF i = 0 THEN 0
                        ELSE IF i = 1 THEN 0 + a(1)
                        ELSE IF i = 2 THEN 0 + a(1) + a(2)
                        ELSE IF i = 3 THEN 0 + a(1) + a(2) + a(3)
                        ELSE 0 + a(1) + a(2) + a(3) + a(4)]
    <2>1. ASSUME NEW i \in 0 .. n PROVE g[i] = IF i = 0 THEN 0 ELSE g[i - 1] + a(i)
        <3>1. CASE i = 0
            BY <3>1
        <3>2. CASE i # 0
            <4>1. i - 1 \in 0 .. n /\ i \in {1, 2, 3, 4}
                BY <1>1, <3>2
            <4>2. CASE i = 1
                BY <4>1, <4>2
            <4>3. CASE i = 2
                BY <4>1, <4>3
            <4>4. CASE i = 3
                BY <4>1, <4>4
            <4>5. CASE i = 4
                BY <4>1, <4>5
            <4> QED
                BY <4>1, <4>2, <4>3, <4>4, <4>5
        <3> QED
            BY <3>1, <3>2
    <2>2. g = F(g)
        BY <2>1
    <2> HIDE DEF g, F
    <2> QED
        BY <2>2
<1>4. Total(s) = sum[n]
    BY DEF Total, n, a
<1> HIDE DEF sum
<1>5. \A i \in 0 .. n : sum[i] = IF i = 0 THEN 0 ELSE sum[i - 1] + a(i)
    BY <1>3
<1>6. sum[0] = 0
    BY <1>1, <1>5
<1>7. n >= 1 => sum[1] = a(1)
    BY <1>1, <1>2, <1>5, <1>6
<1>8. n >= 2 => sum[2] = a(1) + a(2)
    BY <1>1, <1>2, <1>5, <1>7
<1>9. n >= 3 => sum[3] = a(1) + a(2) + a(3)
    BY <1>1, <1>2, <1>5, <1>8
<1>10. n >= 4 => sum[4] = a(1) + a(2) + a(3) + a(4)
    BY <1>1, <1>2, <1>5, <1>9
<1>11. Total(s) = (IF n >= 1 THEN a(1) ELSE 0) + (IF n >= 2 THEN a(2) ELSE 0)
                  + (IF n >= 3 THEN a(3) ELSE 0) + (IF n >= 4 THEN a(4) ELSE 0)
    BY <1>1, <1>2, <1>4, <1>6, <1>7, <1>8, <1>9, <1>10
<1>12. /\ n >= 1 => a(1) = Amount(s[1])
       /\ n >= 2 => a(2) = Amount(s[2])
       /\ n >= 3 => a(3) = Amount(s[3])
       /\ n >= 4 => a(4) = Amount(s[4])
    BY <1>1, <1>2
<1> QED
    BY <1>11, <1>12 DEF n

PartSet == [n : Nat, unit : Nat \ {0}]

\* A text of at most k parts that says x and starts with no more than x.
FitsWithin(s, k, x) ==
    /\ s \in Seq(PartSet) /\ Len(s) \in 1 .. k
    /\ Says(s, x)
    /\ Amount(s[1]) <= x

LEMMA PartsArePartsOf == ASSUME NEW s \in Seq(PartSet) PROVE IsParts(s)
<1> SUFFICES ASSUME NEW i \in 1 .. Len(s) PROVE IsPart(s[i])
    BY DEF IsParts
<1>1. s[i] \in PartSet
    OBVIOUS
<1> QED
    BY <1>1 DEF PartSet, IsPart

LEMMA AmountIsNat == ASSUME NEW p \in PartSet PROVE Amount(p) \in Nat
    BY DEF PartSet, Amount

LEMMA OnePart ==
    ASSUME NEW x \in Nat, NEW u \in Nat \ {0}
    PROVE  FitsWithin(<<[n |-> x \div u, unit |-> u]>>, 1, x)
<1> DEFINE q == x \div u
           r == x % u
           p == [n |-> q, unit |-> u]
           s == <<p>>
<1>1. q \in Nat /\ r \in 0 .. u - 1 /\ x = u * q + r
    <2>1. x \div u \in Nat
        OBVIOUS
    <2>2. x \div u \in Int /\ (x % u) \in 0 .. u - 1 /\ x = u * (x \div u) + (x % u)
        BY DivMod
    <2> QED
        BY <2>1, <2>2
<1> HIDE DEF q, r
<1>2. p \in PartSet /\ Amount(p) = u * q /\ p.unit = u
    BY <1>1 DEF PartSet, Amount
<1> HIDE DEF p
<1>3. s \in Seq(PartSet) /\ Len(s) = 1 /\ s[1] = p
    BY <1>2
<1>4. Amount(p) \in Nat
    BY <1>2, AmountIsNat
<1>5. Total(s) = Amount(p)
    <2> DEFINE l == Len(s)
    <2> HIDE DEF s
    <2>1. Len(s) <= 4 /\ IsParts(s)
        BY <1>3, PartsArePartsOf
    <2>2. Total(s) = (IF l >= 1 THEN Amount(s[1]) ELSE 0)
              + (IF l >= 2 THEN Amount(s[2]) ELSE 0)
              + (IF l >= 3 THEN Amount(s[3]) ELSE 0)
              + (IF l >= 4 THEN Amount(s[4]) ELSE 0)
        BY <1>3, <2>1, TotalOfParts
    <2>3. l = 1
        BY <1>3
    <2> HIDE DEF l
    <2> QED
        BY <1>3, <1>4, <2>2, <2>3
<1> HIDE DEF s
<1>6. Says(s, x)
    <2>1. Total(s) <= x /\ x - Total(s) < u
        BY <1>1, <1>2, <1>4, <1>5
    <2> QED
        BY <1>2, <1>3, <2>1 DEF Says
<1>7. Amount(s[1]) <= x
    BY <1>1, <1>2, <1>3, <1>4
<1>8. FitsWithin(s, 1, x)
    BY <1>3, <1>6, <1>7 DEF FitsWithin
<1> QED
    BY <1>8 DEF s, p, q

\* A text of the remainder gets the larger part in front.
LEMMA Prepend ==
    ASSUME NEW x \in Nat, NEW u \in Nat \ {0}, NEW k \in 1 .. 3, NEW j, j = k + 1,
           NEW s, FitsWithin(s, k, x % u)
    PROVE  FitsWithin(<<[n |-> x \div u, unit |-> u]>> \o s, j, x)
<1> DEFINE q == x \div u
           r == x % u
           p == [n |-> q, unit |-> u]
           t == <<p>> \o s
           l == Len(s)
           y == Total(s)
<1>1. q \in Nat /\ r \in 0 .. u - 1 /\ x = u * q + r
    <2>1. x \div u \in Nat
        OBVIOUS
    <2>2. x \div u \in Int /\ (x % u) \in 0 .. u - 1 /\ x = u * (x \div u) + (x % u)
        BY DivMod
    <2> QED
        BY <2>1, <2>2
<1>2. /\ s \in Seq(PartSet) /\ l \in 1 .. k /\ Amount(s[1]) <= r
      /\ y <= r /\ r - y < s[l].unit
      /\ \A i \in 1 .. l - 1 : s[i + 1].n * s[i + 1].unit < s[i].unit
    BY DEF FitsWithin, Says
<1> HIDE DEF q, r
<1>3. p \in PartSet /\ Amount(p) = u * q /\ p.unit = u
    BY <1>1 DEF PartSet, Amount
<1>4. <<p>> \in Seq(PartSet) /\ Len(<<p>>) = 1 /\ <<p>>[1] = p
    <2> HIDE DEF p
    <2> QED
        BY <1>3
<1>5. l \in Nat /\ 1 <= l /\ l <= 3
    <2> HIDE DEF l
    <2> QED
        BY <1>2
<1> HIDE DEF p
<1>6. /\ t \in Seq(PartSet) /\ Len(t) = l + 1 /\ t[1] = p
      /\ \A i \in 1 .. l : t[i + 1] = s[i]
    BY <1>2, <1>4
<1> HIDE DEF t
<1>7. /\ s[1] \in PartSet
      /\ l >= 2 => s[2] \in PartSet
      /\ l >= 3 => s[3] \in PartSet
    BY <1>2, <1>5
<1>8. /\ Amount(s[1]) \in Nat /\ Amount(p) \in Nat
      /\ l >= 2 => Amount(s[2]) \in Nat
      /\ l >= 3 => Amount(s[3]) \in Nat
    BY <1>3, <1>7, AmountIsNat
<1>9. y = Amount(s[1]) + (IF l >= 2 THEN Amount(s[2]) ELSE 0)
          + (IF l >= 3 THEN Amount(s[3]) ELSE 0)
    <2>1. Len(s) <= 4 /\ IsParts(s)
        BY <1>2, <1>5, PartsArePartsOf
    <2>2. y = (IF l >= 1 THEN Amount(s[1]) ELSE 0)
              + (IF l >= 2 THEN Amount(s[2]) ELSE 0)
              + (IF l >= 3 THEN Amount(s[3]) ELSE 0)
              + (IF l >= 4 THEN Amount(s[4]) ELSE 0)
        BY <1>2, <2>1, TotalOfParts
    <2> HIDE DEF l, y
    <2>3. l >= 1 /\ ~(l >= 4)
        BY <1>5
    <2> QED
        BY <1>5, <1>8, <2>2, <2>3
<1>10. Total(t) = Amount(p) + y
    <2> DEFINE m == Len(t)
    <2>1. Len(t) <= 4 /\ IsParts(t)
        BY <1>5, <1>6, PartsArePartsOf
    <2>2. Total(t) = (IF m >= 1 THEN Amount(t[1]) ELSE 0)
              + (IF m >= 2 THEN Amount(t[2]) ELSE 0)
              + (IF m >= 3 THEN Amount(t[3]) ELSE 0)
              + (IF m >= 4 THEN Amount(t[4]) ELSE 0)
        BY <1>6, <2>1, TotalOfParts
    <2>3. /\ t[1] = p /\ t[2] = s[1]
          /\ l >= 2 => t[3] = s[2]
          /\ l >= 3 => t[4] = s[3]
        <3>1. t[1 + 1] = s[1] /\ (l >= 2 => t[2 + 1] = s[2]) /\ (l >= 3 => t[3 + 1] = s[3])
            BY <1>5, <1>6
        <3> QED
            BY <1>6, <3>1
    <2>4. m = l + 1
        BY <1>6
    <2> HIDE DEF m, l, y
    <2> QED
        BY <1>5, <1>8, <1>9, <2>2, <2>3, <2>4
<1>11. y \in Nat
    <2> HIDE DEF l, y
    <2> QED
        BY <1>5, <1>8, <1>9
<1>12. Total(t) <= x /\ x - Total(t) = r - y
    <2> HIDE DEF y
    <2> QED
        BY <1>1, <1>2, <1>3, <1>8, <1>10, <1>11
<1> DEFINE m == Len(t)
<1>13. ASSUME NEW i \in 1 .. m - 1 PROVE t[i + 1].n * t[i + 1].unit < t[i].unit
    <2>1. m = l + 1
        BY <1>6
    <2> HIDE DEF l, m
    <2>2. i \in 1 .. l
        BY <1>5, <2>1
    <2>3. t[i + 1] = s[i]
        BY <1>6, <2>2
    <2>4. CASE i = 1
        <3>1. Amount(s[1]) < u
            BY <1>1, <1>2, <1>8
        <3> QED
            BY <1>3, <1>6, <2>3, <2>4, <3>1 DEF Amount
    <2>5. CASE i # 1
        <3>1. i - 1 \in 1 .. l - 1 /\ i - 1 \in 1 .. l /\ (i - 1) + 1 = i
            BY <1>5, <2>2, <2>5
        <3>2. t[i] = s[i - 1]
            BY <1>6, <3>1
        <3>3. s[(i - 1) + 1].n * s[(i - 1) + 1].unit < s[i - 1].unit
            BY <1>2, <3>1
        <3> QED
            BY <2>3, <3>1, <3>2, <3>3
    <2> QED
        BY <2>4, <2>5
<1>14. t[m] = s[l]
    <2>1. m = l + 1
        BY <1>6
    <2> HIDE DEF l, m
    <2> QED
        BY <1>5, <1>6, <2>1
<1>15. Says(t, x)
    BY <1>2, <1>12, <1>13, <1>14 DEF Says
<1>16. Amount(t[1]) <= x
    BY <1>1, <1>3, <1>6, <1>8
<1>17. Len(t) \in 1 .. k + 1
    <2>1. m = l + 1
        BY <1>6
    <2> HIDE DEF l, m
    <2>2. m \in 1 .. k + 1
        BY <1>2, <1>5, <2>1
    <2> QED
        BY <2>2 DEF m
<1>18. FitsWithin(t, j, x)
    BY <1>6, <1>15, <1>16, <1>17 DEF FitsWithin
<1> QED
    BY <1>18 DEF t, p, q

LEMMA SayingFits ==
    ASSUME NEW s, NEW k, NEW x, FitsWithin(s, k, x)
    PROVE  Says(s, x)
    BY DEF FitsWithin

\* A text that fits in fewer parts fits in more.
LEMMA FitsMore ==
    ASSUME NEW s, NEW x, NEW k \in Nat, NEW j \in Nat, k <= j, FitsWithin(s, k, x)
    PROVE  FitsWithin(s, j, x)
<1> DEFINE l == Len(s)
<1>1. l \in 1 .. k
    BY DEF FitsWithin
<1> HIDE DEF l
<1>2. l \in 1 .. j
    BY <1>1
<1> QED
    BY <1>2 DEF FitsWithin, l

\* The text of less than a minute, of up to two parts.
LEMMA SmallFits ==
    ASSUME NEW m \in Nat, NEW s,
           s = IF m >= SEC THEN <<[n |-> m \div SEC, unit |-> SEC]>>
                                \o <<[n |-> (m % SEC) \div MS, unit |-> MS]>>
               ELSE IF m >= MS THEN <<[n |-> m \div MS, unit |-> MS]>>
               ELSE IF m >= US THEN <<[n |-> m \div US, unit |-> US]>>
               ELSE <<[n |-> m, unit |-> 1]>>
    PROVE  FitsWithin(s, 2, m)
<1>1. CASE m >= SEC
    <2>1. (m % SEC) \in Nat
        BY Units
    <2>2. FitsWithin(<<[n |-> (m % SEC) \div MS, unit |-> MS]>>, 1, m % SEC)
        BY <2>1, Units, OnePart
    <2>3. FitsWithin(<<[n |-> m \div SEC, unit |-> SEC]>> \o <<[n |-> (m % SEC) \div MS, unit |-> MS]>>,
               2, m)
        <3>1. 1 \in 1 .. 3 /\ 2 = 1 + 1
            OBVIOUS
        <3> QED
            BY <2>2, <3>1, Units, Prepend, Zenon
    <2> QED
        BY <1>1, <2>3
<1>2. CASE ~(m >= SEC) /\ m >= MS
    <2>1. FitsWithin(<<[n |-> m \div MS, unit |-> MS]>>, 1, m)
        BY Units, OnePart
    <2> QED
        BY <1>2, <2>1, FitsMore
<1>3. CASE ~(m >= SEC) /\ ~(m >= MS) /\ m >= US
    <2>1. FitsWithin(<<[n |-> m \div US, unit |-> US]>>, 1, m)
        BY Units, OnePart
    <2> QED
        BY <1>3, <2>1, FitsMore
<1>4. CASE ~(m >= SEC) /\ ~(m >= MS) /\ ~(m >= US)
    <2>1. FitsWithin(<<[n |-> m \div 1, unit |-> 1]>>, 1, m)
        BY OnePart
    <2>2. m \div 1 = m
        OBVIOUS
    <2>3. FitsWithin(<<[n |-> m, unit |-> 1]>>, 1, m)
        BY <2>1, <2>2
    <2> QED
        BY <1>4, <2>3, FitsMore
<1> QED
    BY <1>1, <1>2, <1>3, <1>4

\* The larger unit is named where there is one of it.
LEMMA LargeFits ==
    ASSUME NEW x \in Nat, NEW u \in Nat \ {0}, NEW k \in 1 .. 3, NEW j, j = k + 1,
           NEW s, FitsWithin(s, k, x % u)
    PROVE  FitsWithin((IF x >= u THEN <<[n |-> x \div u, unit |-> u]>> ELSE <<>>) \o s, j, x)
<1>1. CASE x >= u
    BY <1>1, Prepend
<1>2. CASE ~(x >= u)
    <2>1. (x % u) = x
        BY <1>2, ModSmall
    <2>2. <<>> \o s = s
        BY DEF FitsWithin
    <2>3. FitsWithin(s, j, x)
        BY <2>1, FitsMore
    <2> QED
        BY <1>2, <2>2, <2>3
<1> QED
    BY <1>1, <1>2

LEMMA FormatFits ==
    ASSUME NEW d \in Int
    PROVE  FitsWithin(DurationFmt(d).parts, 4, Abs(d)) /\ (DurationFmt(d).neg <=> d < 0)
<1> DEFINE x == IF d < 0 THEN -d ELSE d
           h == x % HOUR
           m == h % MIN
           A == IF x >= HOUR THEN <<[n |-> x \div HOUR, unit |-> HOUR]>> ELSE <<>>
           B == IF h >= MIN THEN <<[n |-> h \div MIN, unit |-> MIN]>> ELSE <<>>
           s == IF m >= SEC THEN <<[n |-> m \div SEC, unit |-> SEC]>>
                                 \o <<[n |-> (m % SEC) \div MS, unit |-> MS]>>
                ELSE IF m >= MS THEN <<[n |-> m \div MS, unit |-> MS]>>
                ELSE IF m >= US THEN <<[n |-> m \div US, unit |-> US]>>
                ELSE <<[n |-> m, unit |-> 1]>>
<1>1. x \in Nat /\ x = Abs(d)
    BY DEF Abs
<1> HIDE DEF x
<1>2. h \in Nat
    BY <1>1, Units
<1> HIDE DEF h
<1>3. m \in Nat
    BY <1>2, Units
<1> HIDE DEF m
<1>4. FitsWithin(s, 2, m)
    BY <1>3, SmallFits
<1> HIDE DEF s
<1>5. FitsWithin(B \o s, 3, h)
    <2>1. FitsWithin(s, 2, h % MIN) /\ 2 \in 1 .. 3 /\ 3 = 2 + 1
        BY <1>4 DEF m
    <2> QED
        BY <1>2, <2>1, Units, LargeFits, Zenon DEF B
<1>6. FitsWithin(A \o (B \o s), 4, x)
    <2>1. FitsWithin(B \o s, 3, x % HOUR) /\ 3 \in 1 .. 3 /\ 4 = 3 + 1
        BY <1>5 DEF h
    <2> HIDE DEF B
    <2> QED
        BY <1>1, <2>1, Units, LargeFits, Zenon DEF A
<1>7. A \o (B \o s) = (A \o B) \o s
    <2>1. s \in Seq(PartSet)
        BY <1>4 DEF FitsWithin
    <2>2. A \in Seq(PartSet) /\ B \in Seq(PartSet)
        <3>1. \A y \in Nat, u \in Nat \ {0} : [n |-> y \div u, unit |-> u] \in PartSet
            BY DEF PartSet
        <3>2. /\ [n |-> x \div HOUR, unit |-> HOUR] \in PartSet
              /\ [n |-> h \div MIN, unit |-> MIN] \in PartSet
            BY <1>1, <1>2, <3>1, Units
        <3>3. \A p \in PartSet : <<p>> \in Seq(PartSet)
            OBVIOUS
        <3>4. <<>> \in Seq(PartSet)
            OBVIOUS
        <3> QED
            BY <3>2, <3>3, <3>4, Zenon
    <2> HIDE DEF A, B
    <2> QED
        BY <2>1, <2>2
<1>8. DurationFmt(d) = [neg |-> d < 0, parts |-> (A \o B) \o s]
    BY DEF DurationFmt, s, m, h, x
<1> HIDE DEF A, B
<1>9. DurationFmt(d).parts = A \o (B \o s) /\ DurationFmt(d).neg = (d < 0)
    BY <1>7, <1>8
<1> QED
    BY <1>1, <1>6, <1>9

\* A zone of whole half hours is printed as it is.
LEMMA ZoneIsSaid == ASSUME NEW d \in Int PROVE ZoneSays(1800 * d)
<1> DEFINE off == 1800 * d
           q == TruncDiv(off, 3600)
           r == TruncMod(off, 3600)
           m == TruncDiv(r, 60)
<1>1. off \in Int
    OBVIOUS
<1>2. /\ q \in Int /\ r \in Int /\ off = 3600 * q + r
      /\ off >= 0 => r >= 0 /\ r < 3600
      /\ off < 0 => r <= 0 /\ -r < 3600
    <2>1. PICK b \in Nat \ {0}, a \in Int : b = 3600 /\ a = off
        BY <1>1
    <2>2. PICK u, v : u = TruncDiv(a, b) /\ v = TruncMod(a, b)
        OBVIOUS
    <2>3. /\ u \in Int /\ v \in Int /\ a = b * u + v
          /\ a >= 0 => v \in 0 .. b - 1
          /\ a < 0 => -v \in 0 .. b - 1
        BY ONLY b \in Nat \ {0}, a \in Int, <2>2, Truncated
    <2>4. u = q /\ v = r
        BY <2>1, <2>2, SMT
    <2> HIDE DEF off, q, r
    <2>5. /\ a = 3600 * u + v
          /\ a >= 0 => v >= 0 /\ v < 3600
          /\ a < 0 => v <= 0 /\ -v < 3600
        BY <2>1, <2>3, SMT
    <2>6. u \in Int /\ v \in Int /\ a = off
        BY <2>1, <2>3
    <2> QED
        BY <2>4, <2>5, <2>6
<1>3. OffsetFmt(off) = [hours |-> q, minutes |-> IF m < 0 THEN -m ELSE m]
    BY DEF OffsetFmt
<1>4. r \in {0, 1800, -1800}
    <2>1. r = 1800 * (d - 2 * q)
        <3> HIDE DEF q, r
        <3> QED
            BY <1>2
    <2> HIDE DEF q, r
    <2> QED
        <3>1. PICK k : k = d - 2 * q
            OBVIOUS
        <3>2. k \in Int /\ r = 1800 * k
            <4>1. k \in Int
                BY <1>2, <3>1
            <4> QED
                BY <2>1, <3>1, <4>1
        <3>3. r < 3600 /\ -r < 3600
            BY <1>2
        <3>4. k \in {0, 1, -1}
            BY <3>2, <3>3
        <3> QED
            BY <3>2, <3>4
<1>5. m = IF r = 0 THEN 0 ELSE IF r = 1800 THEN 30 ELSE -30
    <2> HIDE DEF r
    <2> QED
        BY <1>4 DEF TruncDiv
<1> HIDE DEF q, r, m, off
<1>6. off = 3600 * q + (IF off < 0 THEN -60 ELSE 60) * (IF m < 0 THEN -m ELSE m)
    BY <1>1, <1>2, <1>4, <1>5
<1>7. ZoneSays(off)
    BY <1>3, <1>6 DEF ZoneSays
<1> QED
    BY <1>7 DEF off

\* The text of every duration says it, and that of a zone too.
THEOREM DurationsSayWhatTheyAre == ClockSpec => []DurationsReadBack
<1>1. ClockInv => DurationsReadBack
    <2> SUFFICES ASSUME ClockInv PROVE DurationsReadBack
        OBVIOUS
    <2> DEFINE d == origin - now
    <2>1. d \in Int
        BY DEF ClockInv, ClockTypeOK
    <2> HIDE DEF d
    <2>2. FitsWithin(DurationFmt(d).parts, 4, Abs(d)) /\ (DurationFmt(d).neg <=> d < 0) /\ ZoneSays(1800 * d)
        BY <2>1, FormatFits, ZoneIsSaid
    <2>3. Says(DurationFmt(d).parts, Abs(d))
        BY <2>2, SayingFits
    <2> QED
        <3>1. d \in Int /\ origin - now = d
            BY <2>1 DEF d
        <3>2. PICK t, z : t = DurationFmt(d) /\ z = 1800 * d
            OBVIOUS
        <3>3. (t.neg <=> d < 0) /\ Says(t.parts, Abs(d)) /\ ZoneSays(z)
            BY <2>2, <2>3, <3>2
        <3> QED
            BY <3>1, <3>2, <3>3 DEF DurationsReadBack
<1> QED
    BY <1>1, ClockInitInv, ClockNextInv, PTL DEF ClockSpec

-----------------------------------------------------------------------------
(* Readers and writers *)

-----------------------------------------------------------------------------
(* The reader *)

\* The bytes of s behind lo up to hi.
Part(s, lo, hi) == SubSeq(s, lo + 1, hi)

LEMMA PartIs ==
    ASSUME NEW T, NEW s \in Seq(T), NEW lo \in 0..Len(s), NEW hi \in lo..Len(s)
    PROVE  /\ Part(s, lo, hi) \in Seq(T)
           /\ Len(Part(s, lo, hi)) = hi - lo
           /\ \A j \in 1..(hi - lo) : Part(s, lo, hi)[j] = s[lo + j]
<1>1. \A i \in (lo + 1)..hi : s[i] \in T
    OBVIOUS
<1>2. lo + 1 \in Int /\ hi \in Int
    OBVIOUS
<1> QED
    BY <1>1, <1>2, SubSeqProperties DEF Part

\* A part cut in two.
LEMMA PartCut ==
    ASSUME NEW T, NEW s \in Seq(T), NEW lo \in 0..Len(s), NEW hi \in lo..Len(s), NEW m \in lo..hi
    PROVE  /\ SubSeq(Part(s, lo, hi), 1, m - lo) = Part(s, lo, m)
           /\ SubSeq(Part(s, lo, hi), m - lo + 1, hi - lo) = Part(s, m, hi)
<1> DEFINE p == Part(s, lo, hi)
<1>1. p \in Seq(T) /\ Len(p) = hi - lo /\ \A j \in 1..(hi - lo) : p[j] = s[lo + j]
    BY PartIs
<1> HIDE DEF p
<1>2. m \in 0..Len(s) /\ m \in lo..Len(s) /\ hi \in m..Len(s)
    OBVIOUS
<1>3. /\ Part(s, lo, m) \in Seq(T) /\ Len(Part(s, lo, m)) = m - lo
      /\ \A j \in 1..(m - lo) : Part(s, lo, m)[j] = s[lo + j]
    BY <1>2, PartIs
<1>4. /\ Part(s, m, hi) \in Seq(T) /\ Len(Part(s, m, hi)) = hi - m
      /\ \A j \in 1..(hi - m) : Part(s, m, hi)[j] = s[m + j]
    BY <1>2, PartIs
<1>5. /\ SubSeq(p, 1, m - lo) \in Seq(T) /\ Len(SubSeq(p, 1, m - lo)) = m - lo
      /\ \A j \in 1..(m - lo) : SubSeq(p, 1, m - lo)[j] = s[lo + j]
    BY <1>1
<1>6. /\ SubSeq(p, m - lo + 1, hi - lo) \in Seq(T) /\ Len(SubSeq(p, m - lo + 1, hi - lo)) = hi - m
      /\ \A j \in 1..(hi - m) : SubSeq(p, m - lo + 1, hi - lo)[j] = s[m + j]
    BY <1>1
<1>7. SubSeq(p, 1, m - lo) = Part(s, lo, m)
    BY <1>3, <1>5, SeqEqual
<1>8. SubSeq(p, m - lo + 1, hi - lo) = Part(s, m, hi)
    BY <1>4, <1>6, SeqEqual
<1> QED
    BY <1>7, <1>8 DEF p

\* Two parts that meet.
LEMMA PartJoin ==
    ASSUME NEW T, NEW s \in Seq(T), NEW lo \in 0..Len(s), NEW hi \in lo..Len(s), NEW m \in lo..hi
    PROVE  Part(s, lo, m) \o Part(s, m, hi) = Part(s, lo, hi)
<1>1. lo + 1 \in 1..(Len(s) + 1) /\ m \in ((lo + 1) - 1)..Len(s) /\ hi \in m..Len(s)
    OBVIOUS
<1> QED
    BY <1>1, ConcatAdjacentSubSeq DEF Part

LEMMA NoPart == ASSUME NEW s, NEW lo \in Int PROVE Part(s, lo, lo) = <<>>
    BY SubSeqEmpty DEF Part

-----------------------------------------------------------------------------
\* The first newline is where Newline says.
LEMMA NewlineIs ==
    ASSUME NEW T, NEW s \in Seq(T)
    PROVE  \/ Newline(s) = 0 /\ \A j \in 1..Len(s) : s[j] # LF
           \/ /\ Newline(s) \in 1..Len(s) /\ s[Newline(s)] = LF
              /\ \A j \in 1..(Newline(s) - 1) : s[j] # LF
<1> DEFINE I == {i \in 1..Len(s) : s[i] = LF}
<1>1. Newline(s) = IF I # {} THEN Min(I) ELSE 0
    BY DEF Newline, SelectInSeq
<1>2. CASE I = {}
    BY <1>1, <1>2
<1>3. CASE I # {}
    <2>1. I \subseteq Nat
        OBVIOUS
    <2>2. PICK k \in I : \A j \in I : ~(j < k)
        BY <1>3, <2>1, FirstExists
    <2>3. \E k1 \in I : \A j \in I : k1 =< j
        BY <2>1, <2>2
    <2>4. Min(I) \in I /\ \A j \in I : Min(I) =< j
        BY <2>3 DEF Min
    <2>5. PICK m : m = Newline(s)
        OBVIOUS
    <2>6. m \in I /\ \A j \in I : m =< j
        BY <1>1, <1>3, <2>4, <2>5
    <2>7. \A j \in 1..(m - 1) : s[j] # LF
        BY <2>6
    <2> QED
        BY <2>5, <2>6, <2>7
<1> QED
    BY <1>2, <1>3

\* It is the only first one.
LEMMA NewlineAt ==
    ASSUME NEW T, NEW s \in Seq(T)
    PROVE  /\ \A k \in 1..Len(s) :
                  s[k] = LF /\ (\A j \in 1..(k - 1) : s[j] # LF) => Newline(s) = k
           /\ (\A j \in 1..Len(s) : s[j] # LF) => Newline(s) = 0
    BY NewlineIs

\* The line behind at is the part up to hi, if that ends with its only newline or
\* is all there is.
LEMMA LineAtIs ==
    ASSUME NEW T, NEW s \in Seq(T), NEW at \in 0..Len(s), NEW hi \in at..Len(s),
           \A j \in 1..(hi - at - 1) : s[at + j] # LF,
           \/ hi > at /\ s[hi] = LF
           \/ hi = Len(s) /\ (hi > at => s[hi] # LF)
    PROVE  LineAt(s, at) = Part(s, at, hi)
<1>1. /\ After(s, at) \in Seq(T) /\ Len(After(s, at)) = Len(s) - at
      /\ \A j \in 1..(Len(s) - at) : After(s, at)[j] = s[at + j]
    BY PartIs DEF Part, After
<1>2. CASE hi > at /\ s[hi] = LF
    <2>1. hi - at \in 1..Len(After(s, at)) /\ After(s, at)[hi - at] = LF
        BY <1>1, <1>2
    <2>2. ASSUME NEW j \in 1..(hi - at - 1) PROVE After(s, at)[j] # LF
        <3>1. j \in 1..(Len(s) - at) /\ s[at + j] # LF
            OBVIOUS
        <3>2. After(s, at)[j] = s[at + j]
            BY <1>1, <3>1
        <3> QED
            BY <3>1, <3>2
    <2>3. Newline(After(s, at)) = hi - at
        BY <1>1, <2>1, <2>2, NewlineAt
    <2>4. SubSeq(After(s, at), 1, hi - at) = Part(s, at, hi)
        BY PartCut DEF Part, After
    <2> QED
        BY <1>2, <2>3, <2>4 DEF LineAt
<1>3. CASE hi = Len(s) /\ (hi > at => s[hi] # LF)
    <2>1. \A j \in 1..Len(After(s, at)) : After(s, at)[j] # LF
        <3> SUFFICES ASSUME NEW j \in 1..(hi - at) PROVE s[at + j] # LF
            BY <1>1, <1>3
        <3>1. CASE j = hi - at
            <4>1. at + j = hi /\ hi > at
                BY <3>1
            <4> QED BY <1>3, <4>1
        <3>2. CASE j # hi - at
            BY <3>2
        <3> QED BY <3>1, <3>2
    <2>2. Newline(After(s, at)) = 0
        BY <1>1, <2>1, NewlineAt
    <2> QED
        BY <1>3, <2>2 DEF LineAt, After, Part
<1> QED
    BY <1>2, <1>3

-----------------------------------------------------------------------------
\* The place in the source of the next byte to give, when r bytes were read.
Here(r) == r - Len(buf) + pos

\* at[i] bytes were taken by the first i results, and each is what they call for.
TakenSoFar(at) ==
    /\ at \in [0..Len(results) -> 0..Len(data)]
    /\ at[0] = 0
    /\ \A i \in 1..Len(results) :
           /\ Exact(data, results[i], at[i - 1])
           /\ at[i] = at[i - 1] + Width(data, results[i], at[i - 1])

\* r bytes have left the source, the last of them are in the buffer.
BufferFrom(r) ==
    /\ r \in 0..Len(data) /\ Len(buf) \in 0..r /\ pos \in 0..Len(buf)
    /\ buf = Part(data, r - Len(buf), r)
    /\ rest = Part(data, r, Len(data))

\* The call under way has the bytes behind lo up to hi.
CallFrom(lo, hi) ==
    /\ lo <= hi
    /\ rcall.out = Part(data, lo, hi)
    /\ rcall.op # "line" => line = NoLine
    /\ rcall.op = "none" => lo = hi
    /\ rcall.op = "read" => hi - lo <= rcall.n
    /\ rcall.op = "line" => /\ line.start = <<>> <=> lo = hi
                            /\ \A j \in 1..(hi - lo) : data[lo + j] # LF

ReaderInv ==
    /\ data \in Seq(SourceBytes)
    /\ eof \in BOOLEAN /\ short \in BOOLEAN
    /\ rcall \in [op : {"none", "read", "line"}, n : Nat, out : Seq(SourceBytes)]
    /\ EofIsReal
    /\ \E T : results \in Seq(T)
    /\ \E r, at : BufferFrom(r) /\ TakenSoFar(at) /\ CallFrom(at[Len(results)], Here(r))

LEMMA ReaderInitInv == ReadInit => ReaderInv
<1> SUFFICES ASSUME ReadInit PROVE ReaderInv
    OBVIOUS
<1>1. data \in Seq(SourceBytes) /\ rest = data /\ buf = <<>> /\ pos = 0 /\ eof = FALSE /\ results = <<>>
    BY ReaderAssumption DEF ReadInit
<1>2. short \in BOOLEAN /\ rcall = Idle /\ line = NoLine
    BY DEF ReadInit
<1>3. rcall \in [op : {"none", "read", "line"}, n : Nat, out : Seq(SourceBytes)]
    BY <1>2 DEF Idle, Asked
<1>4. results \in Seq({})
    BY <1>1
<1> DEFINE at == [i \in 0..0 |-> 0]
<1>5. BufferFrom(0)
    <2>1. Part(data, 0, Len(data)) = data
        BY <1>1, SubSeqFull DEF Part
    <2>2. Part(data, 0, 0) = <<>>
        BY NoPart
    <2> QED
        BY <1>1, <2>1, <2>2 DEF BufferFrom
<1>6. TakenSoFar(at)
    <2>1. Len(results) = 0 /\ 0 \in 0..Len(data)
        BY <1>1
    <2> QED
        BY <2>1 DEF TakenSoFar
<1>7. CallFrom(at[Len(results)], Here(0))
    <2>0. Len(results) = 0 /\ Len(buf) = 0 /\ 0 \in 0..0
        BY <1>1
    <2>1. Here(0) = 0
        <3>0. pos = 0 /\ Len(buf) = 0
            BY <1>1, <2>0
        <3>1. 0 - Len(buf) + pos = 0
            BY <3>0
        <3> QED BY <3>1 DEF Here
    <2>4. at[0] = 0
        BY <2>0
    <2>2. Part(data, 0, 0) = <<>>
        BY NoPart
    <2>3. CallFrom(0, 0)
        BY <1>2, <2>2 DEF CallFrom, Idle, Asked
    <2> QED
        BY <2>0, <2>1, <2>3, <2>4
<1> HIDE DEF at
<1>8. EofIsReal
    BY <1>1 DEF EofIsReal
<1> QED
    BY <1>1, <1>2, <1>3, <1>4, <1>5, <1>6, <1>7, <1>8 DEF ReaderInv

\* No result is new.
LEMMA SameResults ==
    ASSUME UNCHANGED <<data, results>>, NEW at, TakenSoFar(at)
    PROVE  TakenSoFar(at)'
    BY DEF TakenSoFar

\* One result more.
LEMMA NewResult ==
    ASSUME data' = data, NEW T, results \in Seq(T), NEW at, TakenSoFar(at), NEW q,
           results' = Append(results, q),
           Exact(data, q, at[Len(results)]),
           NEW w \in Nat, Width(data, q, at[Len(results)]) = w,
           at[Len(results)] + w <= Len(data), Len(data) \in Nat
    PROVE  /\ \E T1 : results' \in Seq(T1)
           /\ \E at1 : TakenSoFar(at1)' /\ at1[Len(results')] = at[Len(results)] + w
<1>a. PICK n : n = Len(results)
    OBVIOUS
<1>b. PICK at1 : at1 = [i \in 0..(n + 1) |-> IF i <= n THEN at[i] ELSE at[n] + w]
    OBVIOUS
<1> USE <1>a
<1>0. results \in Seq(T \union {q}) /\ q \in T \union {q}
    BY SeqMonotonic
<1>1. /\ results' \in Seq(T \union {q}) /\ Len(results') = n + 1 /\ n \in Nat
      /\ \A i \in 1..n : results'[i] = results[i]
      /\ results'[n + 1] = q
    BY <1>0, AppendProperties
<1>2. at1 \in [0..(n + 1) -> 0..Len(data)]
    BY <1>1, <1>b DEF TakenSoFar
<1>3. at1[0] = 0 /\ at1[n + 1] = at[n] + w /\ \A i \in 0..n : at1[i] = at[i]
    BY <1>1, <1>b DEF TakenSoFar
<1>4. ASSUME NEW i \in 1..(n + 1)
      PROVE  Exact(data', results'[i], at1[i - 1]) /\ at1[i] = at1[i - 1] + Width(data', results'[i], at1[i - 1])
    <2>1. CASE i = n + 1
        <3>1. i - 1 = n /\ n \in 0..n /\ at1[i - 1] = at[n] /\ results'[i] = q
            BY <1>1, <1>3, <2>1
        <3> QED
            BY <1>3, <2>1, <3>1
    <2>2. CASE i # n + 1
        <3>1. i \in 1..n /\ i - 1 \in 0..n /\ at1[i - 1] = at[i - 1] /\ at1[i] = at[i] /\ results'[i] = results[i]
            BY <1>1, <1>3, <2>2
        <3> QED
            BY <3>1 DEF TakenSoFar
    <2> QED
        BY <2>1, <2>2
<1>5. TakenSoFar(at1)'
    BY <1>1, <1>2, <1>3, <1>4 DEF TakenSoFar
<1> QED
    BY <1>1, <1>3, <1>5

\* A call returns what it has taken.
LEMMA ReturnedInv ==
    ASSUME ReaderInv, UNCHANGED <<data, short>>, eof' \in BOOLEAN, EofIsReal',
           NEW T, results \in Seq(T), NEW at, TakenSoFar(at), NEW r, BufferFrom(r)',
           NEW q, Return(q), Exact(data, q, at[Len(results)]),
           NEW w \in Nat, Width(data, q, at[Len(results)]) = w,
           at[Len(results)] + w = Here(r)'
    PROVE  ReaderInv'
<1>1. data \in Seq(SourceBytes) /\ Len(data) \in Nat /\ short \in BOOLEAN
    BY DEF ReaderInv
<1>2. Here(r)' \in 0..Len(data)
    BY <1>1 DEF BufferFrom, Here
<1>3. results' = Append(results, q) /\ rcall' = Idle /\ line' = NoLine
    BY DEF Return
<1>4. /\ \E T1 : results' \in Seq(T1)
      /\ \E at1 : TakenSoFar(at1)' /\ at1[Len(results')] = Here(r)'
    BY <1>1, <1>2, <1>3, NewResult
<1>5. PICK at1 : TakenSoFar(at1)' /\ at1[Len(results')] = Here(r)'
    BY <1>4
<1>6. CallFrom(at1[Len(results)], Here(r))'
    <2>1. Part(data, Here(r), Here(r))' = <<>>
        BY <1>2, <1>1, NoPart DEF Part
    <2>2. rcall'.out = <<>> /\ rcall'.op = "none"
        BY <1>3 DEF Idle, Asked
    <2> QED
        BY <1>2, <1>3, <1>5, <2>1, <2>2 DEF CallFrom
<1>7. rcall' \in [op : {"none", "read", "line"}, n : Nat, out : Seq(SourceBytes)]
    BY <1>3 DEF Idle, Asked
<1>8. \E r1, at2 : BufferFrom(r1)' /\ TakenSoFar(at2)' /\ CallFrom(at2[Len(results)], Here(r1))'
    BY <1>5, <1>6
<1> QED
    BY <1>1, <1>4, <1>7, <1>8 DEF ReaderInv

\* What the invariant says of one moment.
LEMMA ReaderParts ==
    ASSUME ReaderInv, NEW r, NEW at, BufferFrom(r), TakenSoFar(at), CallFrom(at[Len(results)], Here(r))
    PROVE  /\ data \in Seq(SourceBytes) /\ Len(data) \in Nat /\ r \in 0..Len(data)
           /\ buf \in Seq(SourceBytes) /\ Len(buf) \in 0..r /\ pos \in 0..Len(buf)
           /\ rest \in Seq(SourceBytes) /\ Len(rest) = Len(data) - r
           /\ Here(r) \in 0..r /\ r - Len(buf) + Len(buf) = r
           /\ Unread = Part(data, Here(r), r) /\ Len(Unread) = Len(buf) - pos
           /\ Unread \in Seq(SourceBytes)
           /\ Drained <=> Here(r) = r
           /\ at[Len(results)] \in 0..Here(r) /\ Len(results) \in Nat
           /\ Len(rcall.out) = Here(r) - at[Len(results)]
<1>1. data \in Seq(SourceBytes) /\ Len(data) \in Nat /\ Len(results) \in Nat
    BY DEF ReaderInv
<1>2. /\ r \in 0..Len(data) /\ Len(buf) \in 0..r /\ pos \in 0..Len(buf)
      /\ buf = Part(data, r - Len(buf), r) /\ rest = Part(data, r, Len(data))
    BY DEF BufferFrom
<1> DEFINE b == r - Len(buf)
<1>3. b \in 0..Len(data) /\ r \in b..Len(data) /\ Here(r) \in b..r /\ Here(r) = b + pos /\ r = b + Len(buf)
    BY <1>1, <1>2 DEF Here
<1> HIDE DEF b
<1>4. buf = Part(data, b, r)
    BY <1>2 DEF b
<1>5. buf \in Seq(SourceBytes) /\ rest \in Seq(SourceBytes) /\ Len(rest) = Len(data) - r
    <2>1. Part(data, b, r) \in Seq(SourceBytes)
        BY <1>1, <1>3, PartIs
    <2>2. Part(data, r, Len(data)) \in Seq(SourceBytes) /\ Len(Part(data, r, Len(data))) = Len(data) - r
        <3>1. Len(data) \in r..Len(data)
            BY <1>1, <1>2
        <3> QED BY <1>1, <1>2, <3>1, PartIs
    <2> QED
        BY <1>2, <1>4, <2>1, <2>2
<1>6. Unread = Part(data, Here(r), r)
    <2>1. SubSeq(Part(data, b, r), Here(r) - b + 1, r - b) = Part(data, Here(r), r)
        BY <1>1, <1>3, PartCut
    <2>2. Here(r) - b = pos /\ r - b = Len(buf)
        BY <1>2, <1>3
    <2> QED
        BY <1>4, <2>1, <2>2 DEF Unread
<1>7. Here(r) \in 0..Len(data) /\ r \in Here(r)..Len(data)
    BY <1>2, <1>3
<1>8. Unread \in Seq(SourceBytes) /\ Len(Unread) = r - Here(r)
    BY <1>1, <1>6, <1>7, PartIs
<1>9. at[Len(results)] \in 0..Len(data)
    BY <1>1 DEF TakenSoFar
<1>10. at[Len(results)] <= Here(r) /\ rcall.out = Part(data, at[Len(results)], Here(r))
    BY DEF CallFrom
<1>11. Len(rcall.out) = Here(r) - at[Len(results)]
    <2>1. Here(r) \in at[Len(results)]..Len(data)
        BY <1>7, <1>9, <1>10
    <2>2. Len(Part(data, at[Len(results)], Here(r))) = Here(r) - at[Len(results)]
        <3>1. data \in Seq(SourceBytes)
            BY <1>1
        <3> QED
            BY <1>9, <2>1, <3>1, PartIs, Zenon
    <2> QED
        BY <1>10, <2>2
<1>12. (Drained <=> Here(r) = r) /\ Here(r) \in 0..r
    BY <1>2, <1>3 DEF Drained
<1>13. Len(Unread) = Len(buf) - pos /\ r - Len(buf) + Len(buf) = r
    BY <1>2, <1>3, <1>8
<1>14. at[Len(results)] \in 0..Here(r)
    BY <1>7, <1>9, <1>10
<1> QED
    BY <1>1, <1>2, <1>5, <1>6, <1>8, <1>11, <1>12, <1>13, <1>14, Zenon

\* A call begins with nothing.
LEMMA BufReadCallInv == ASSUME ReaderInv, NEW n \in ReadSizes, BufReadCall(n) PROVE ReaderInv'
<1>1. PICK r, at : BufferFrom(r) /\ TakenSoFar(at) /\ CallFrom(at[Len(results)], Here(r))
    BY DEF ReaderInv
<1>2. /\ rcall = Idle /\ rcall' = Asked("read", n) /\ n \in Nat
      /\ UNCHANGED <<data, short, rest, buf, pos, eof, arena, line, results>>
    BY ReaderAssumption DEF BufReadCall
<1>3. BufferFrom(r)' /\ TakenSoFar(at)' /\ Here(r)' = Here(r)
    BY <1>1, <1>2, SameResults DEF BufferFrom, Here
<1>4. CallFrom(at[Len(results)], Here(r))'
    <2>1. rcall.op = "none" /\ rcall.out = <<>>
        BY <1>2 DEF Idle, Asked
    <2>2. rcall'.op = "read" /\ rcall'.out = <<>> /\ rcall'.n = n
        BY <1>2 DEF Asked
    <2>3. line = NoLine /\ at[Len(results)] = Here(r) /\ Part(data, at[Len(results)], Here(r)) = <<>>
        BY <1>1, <2>1 DEF CallFrom
    <2>4. Here(r) \in Nat
        BY <1>1, ReaderParts
    <2> QED
        BY <1>2, <1>3, <2>2, <2>3, <2>4 DEF CallFrom
<1>5. rcall' \in [op : {"none", "read", "line"}, n : Nat, out : Seq(SourceBytes)]
    BY <1>2 DEF Asked
<1> QED
    BY <1>2, <1>3, <1>4, <1>5 DEF ReaderInv, EofIsReal

\* Behind the end of the source nothing is left.
LEMMA AtTheEnd ==
    ASSUME ReaderInv, eof, Drained,
           NEW r, NEW at, BufferFrom(r), TakenSoFar(at), CallFrom(at[Len(results)], Here(r))
    PROVE  Here(r) = Len(data) /\ After(data, at[Len(results)]) = rcall.out
<1>1. rest = <<>> /\ Len(rest) = 0
    BY DEF ReaderInv, EofIsReal
<1>2. Here(r) = Len(data)
    BY <1>1, ReaderParts
<1> QED
    BY <1>2 DEF CallFrom, After, Part

LEMMA ReadLineCallInv == ASSUME ReaderInv, ReadLineCall PROVE ReaderInv'
<1>1. PICK r, at : BufferFrom(r) /\ TakenSoFar(at) /\ CallFrom(at[Len(results)], Here(r))
    BY DEF ReaderInv
<1>2. rcall = Idle /\ UNCHANGED <<data, short, rest, buf, pos, eof, arena>>
    BY DEF ReadLineCall
<1>3. BufferFrom(r)' /\ Here(r)' = Here(r)
    BY <1>1, <1>2 DEF BufferFrom, Here
<1>4. /\ rcall.op = "none" /\ rcall.out = <<>> /\ line = NoLine /\ at[Len(results)] = Here(r)
      /\ Here(r) \in Nat
    BY <1>1, <1>2, ReaderParts DEF CallFrom, Idle, Asked
<1>5. CASE eof /\ Drained
    <2> DEFINE q == [op |-> "null"]
    <2>1. Return(q)
        BY <1>5 DEF ReadLineCall
    <2>2. After(data, at[Len(results)]) = <<>>
        BY <1>1, <1>4, <1>5, AtTheEnd
    <2>3. q.op = "null"
        OBVIOUS
    <2> HIDE DEF q
    <2>4. Exact(data, q, at[Len(results)]) /\ Width(data, q, at[Len(results)]) = 0
        BY <2>2, <2>3 DEF Exact, Width
    <2>5. PICK T : results \in Seq(T)
        BY DEF ReaderInv
    <2>6. eof' \in BOOLEAN /\ EofIsReal'
        BY <1>2 DEF ReaderInv, EofIsReal
    <2>7. at[Len(results)] + 0 = Here(r)' /\ 0 \in Nat
        BY <1>3, <1>4
    <2> QED
        BY <1>1, <1>2, <1>3, <2>1, <2>4, <2>5, <2>6, <2>7, ReturnedInv
<1>6. CASE ~(eof /\ Drained)
    <2>1. rcall' = Asked("line", 0) /\ UNCHANGED <<line, results>>
        BY <1>6 DEF ReadLineCall
    <2>2. rcall'.op = "line" /\ rcall'.out = <<>>
        BY <2>1 DEF Asked
    <2>3. rcall' \in [op : {"none", "read", "line"}, n : Nat, out : Seq(SourceBytes)]
        BY <2>1 DEF Asked
    <2>4. Part(data, Here(r), Here(r)) = <<>> /\ line.start = <<>>
        BY <1>4, NoPart DEF NoLine
    <2>5. CallFrom(at[Len(results)], Here(r))'
        BY <1>2, <1>3, <1>4, <2>1, <2>2, <2>4 DEF CallFrom
    <2>6. TakenSoFar(at)'
        BY <1>1, <1>2, <2>1, SameResults
    <2> QED
        BY <1>2, <1>3, <2>1, <2>3, <2>5, <2>6 DEF ReaderInv, EofIsReal
<1> QED
    BY <1>5, <1>6

\* What a source of m bytes may give when it is asked for k.
LEMMA GotIs ==
    ASSUME NEW k \in Nat \ {0}, Len(rest) \in Nat, short \in BOOLEAN, NEW g \in Got(k)
    PROVE  g \in 0..Len(rest) /\ (g = 0 => Len(rest) = 0)
<1> DEFINE m == Larger(0, IF k < Len(rest) THEN k ELSE Len(rest))
<1>1. m \in 0..Len(rest) /\ (m = 0 => Len(rest) = 0)
    BY DEF Larger
<1>2. g \in IF short /\ m > 0 THEN 1..m ELSE {m}
    BY DEF Got
<1> HIDE DEF m
<1> QED
    BY <1>1, <1>2

LEMMA RefillInv == ASSUME ReaderInv, Refill PROVE ReaderInv'
<1>1. PICK r, at : BufferFrom(r) /\ TakenSoFar(at) /\ CallFrom(at[Len(results)], Here(r))
    BY DEF ReaderInv
<1>2. Drained /\ UNCHANGED <<data, short, rcall, arena, line, results>> /\ pos' = 0
    BY DEF Refill
<1>3. /\ data \in Seq(SourceBytes) /\ Len(data) \in Nat /\ r \in 0..Len(data)
      /\ buf \in Seq(SourceBytes) /\ rest \in Seq(SourceBytes) /\ Len(rest) = Len(data) - r
      /\ Here(r) = r /\ Unread = Part(data, r, r)
    BY <1>1, <1>2, ReaderParts
<1>4. Unread = <<>>
    BY <1>3, NoPart
<1>5. PICK k \in Got(BufCap - Len(Unread)) :
          /\ buf' = Unread \o SubSeq(rest, 1, k)
          /\ rest' = SubSeq(rest, k + 1, Len(rest))
          /\ eof' = Ended(k, BufCap - Len(Unread))
    BY DEF Refill
<1>6. k \in 0..Len(rest) /\ (k = 0 => Len(rest) = 0)
    <2>1. BufCap - Len(Unread) = BufCap /\ BufCap \in Nat \ {0}
        BY <1>4, ReaderAssumption
    <2>2. short \in BOOLEAN
        BY DEF ReaderInv
    <2> QED
        BY <1>3, <1>5, <2>1, <2>2, GotIs
<1>7. r \in 0..Len(data) /\ Len(data) \in r..Len(data) /\ r + k \in r..Len(data)
    BY <1>3, <1>6
<1>8. SubSeq(rest, 1, k) = Part(data, r, r + k) /\ rest' = Part(data, r + k, Len(data))
    <2>1. (r + k) - r = k /\ (r + k) - r + 1 = k + 1
        BY <1>3, <1>6
    <2>2. /\ SubSeq(Part(data, r, Len(data)), 1, (r + k) - r) = Part(data, r, r + k)
          /\ SubSeq(Part(data, r, Len(data)), (r + k) - r + 1, Len(data) - r) = Part(data, r + k, Len(data))
        BY <1>3, <1>7, PartCut
    <2> QED
        BY <1>1, <1>3, <1>5, <2>1, <2>2 DEF BufferFrom
<1>9. /\ Part(data, r, r + k) \in Seq(SourceBytes) /\ Len(Part(data, r, r + k)) = k
    <2>1. (r + k) - r = k
        BY <1>3, <1>6
    <2> QED
        BY <1>3, <1>7, <2>1, PartIs
<1>10. buf' = Part(data, r, r + k) /\ Len(buf') = k
    <2>1. <<>> \o Part(data, r, r + k) = Part(data, r, r + k)
        BY <1>9, ConcatEmptySeq
    <2> QED
        BY <1>4, <1>5, <1>8, <1>9, <2>1
<1>11. BufferFrom(r + k)'
    <2>0. (r + k) - k = r /\ k \in 0..(r + k) /\ r + k \in 0..Len(data)
        BY <1>3, <1>6, <1>7
    <2>1. (r + k) - Len(buf') = r /\ Len(buf') \in 0..(r + k) /\ r + k \in 0..Len(data)
        BY <1>10, <2>0
    <2>2. buf' = Part(data, (r + k) - Len(buf'), r + k)
        BY <1>10, <2>1
    <2> QED
        BY <1>2, <1>8, <2>1, <2>2 DEF BufferFrom
<1>12. Here(r + k)' = r
    <2>1. (r + k) - k + 0 = r
        BY <1>3, <1>6
    <2> QED
        BY <1>2, <1>10, <2>1 DEF Here
<1>13. CallFrom(at[Len(results)], Here(r + k))'
    <2>1. CallFrom(at[Len(results)], r)
        BY <1>1, <1>3
    <2> QED
        BY <1>2, <1>12, <2>1 DEF CallFrom
<1>14. eof' \in BOOLEAN /\ EofIsReal'
    <2>1. k = 0 => rest' = <<>>
        BY <1>5, <1>6, SubSeqEmpty
    <2> QED
        BY <1>5, <2>1 DEF Ended, EofIsReal
<1>15. TakenSoFar(at)'
    BY <1>1, <1>2, SameResults
<1> QED
    BY <1>2, <1>11, <1>13, <1>14, <1>15 DEF ReaderInv

\* Taking k bytes from the buffer.
LEMMA TakenFrom ==
    ASSUME ReaderInv, NEW r, NEW at, BufferFrom(r), TakenSoFar(at), CallFrom(at[Len(results)], Here(r)),
           NEW k \in 0..Len(Unread), pos' = pos + k, UNCHANGED <<data, rest, buf>>
    PROVE  /\ BufferFrom(r)' /\ Here(r)' = Here(r) + k /\ Here(r) + k \in Here(r)..r
           /\ rcall.out \o SubSeq(Unread, 1, k) = Part(data, at[Len(results)], Here(r) + k)
           /\ \A j \in 1..Len(Unread) : Unread[j] = data[Here(r) + j]
<1> DEFINE h == Here(r)
           lo == at[Len(results)]
<1>1. /\ data \in Seq(SourceBytes) /\ Len(data) \in Nat /\ r \in 0..Len(data)
      /\ h \in 0..r /\ lo \in 0..h /\ Unread = Part(data, h, r) /\ Len(Unread) = Len(buf) - pos
      /\ Len(buf) \in 0..r /\ pos \in 0..Len(buf) /\ h = r - Len(buf) + pos
    BY ReaderParts DEF Here
<1>2. k \in 0..(Len(buf) - pos) /\ pos + k \in 0..Len(buf) /\ r - Len(buf) + (pos + k) = h + k /\ h + k \in h..r
    BY <1>1
<1>3. Here(r)' = h + k
    BY <1>2 DEF Here
<1>4. BufferFrom(r)'
    BY <1>1, <1>2 DEF BufferFrom
<1>5. rcall.out = Part(data, lo, h)
    BY DEF CallFrom
<1> HIDE DEF h, lo
<1>6. SubSeq(Unread, 1, k) = Part(data, h, h + k)
    <2>1. (h + k) - h = k /\ h \in 0..Len(data) /\ r \in h..Len(data)
        BY <1>1, <1>2
    <2>2. SubSeq(Part(data, h, r), 1, (h + k) - h) = Part(data, h, h + k)
        BY <1>1, <1>2, <2>1, PartCut
    <2> QED
        BY <1>1, <2>1, <2>2
<1>7. Part(data, lo, h) \o Part(data, h, h + k) = Part(data, lo, h + k)
    <2>1. lo \in 0..Len(data) /\ h \in lo..(h + k) /\ h + k \in lo..Len(data)
        BY <1>1, <1>2
    <2> QED
        BY <1>1, <2>1, PartJoin
<1>8. \A j \in 1..Len(Unread) : Unread[j] = data[h + j]
    <2>1. h \in 0..Len(data) /\ r \in h..Len(data)
        BY <1>1
    <2>2. Len(Part(data, h, r)) = r - h /\ \A j \in 1..(r - h) : Part(data, h, r)[j] = data[h + j]
        <3>1. data \in Seq(SourceBytes)
            BY <1>1
        <3> QED
            BY <2>1, <3>1, PartIs, Zenon
    <2> QED
        BY <1>1, <2>2
<1> QED
    BY <1>2, <1>3, <1>4, <1>5, <1>6, <1>7, <1>8 DEF h, lo

LEMMA TakeBytesInv == ASSUME ReaderInv, TakeBytes PROVE ReaderInv'
<1>1. PICK r, at : BufferFrom(r) /\ TakenSoFar(at) /\ CallFrom(at[Len(results)], Here(r))
    BY DEF ReaderInv
<1> DEFINE want == rcall.n - Len(rcall.out)
           take == IF want < Len(Unread) THEN want ELSE Len(Unread)
           out == rcall.out \o SubSeq(Unread, 1, take)
<1>2. /\ rcall.op = "read" /\ rcall' = [rcall EXCEPT !.out = out] /\ pos' = pos + take
      /\ UNCHANGED <<data, short, rest, buf, eof, arena, line, results>>
    BY DEF TakeBytes
<1>3. /\ rcall \in [op : {"none", "read", "line"}, n : Nat, out : Seq(SourceBytes)]
      /\ data \in Seq(SourceBytes)
    BY DEF ReaderInv
<1>4. /\ Len(rcall.out) = Here(r) - at[Len(results)] /\ Here(r) \in 0..r /\ r \in 0..Len(data)
      /\ at[Len(results)] \in 0..Here(r) /\ Len(Unread) \in Nat /\ Len(data) \in Nat
    BY <1>1, ReaderParts
<1>5. Here(r) - at[Len(results)] <= rcall.n /\ line = NoLine
    BY <1>1, <1>2 DEF CallFrom
<1>6. take \in 0..Len(Unread) /\ take <= want /\ want = rcall.n - (Here(r) - at[Len(results)])
    <2>1. rcall.n \in Nat
        BY <1>3
    <2>2. PICK u, x : u = Len(Unread) /\ x = Here(r) - at[Len(results)]
        OBVIOUS
    <2>3. u \in Nat /\ x \in Nat /\ want = rcall.n - x /\ x <= rcall.n
        BY <1>4, <1>5, <2>2
    <2>4. take = IF want < u THEN want ELSE u
        BY <2>2
    <2> HIDE DEF want, take
    <2>5. take \in 0..u /\ take <= want
        BY <2>1, <2>3, <2>4
    <2> QED
        BY <2>2, <2>3, <2>5, Zenon
<1> HIDE DEF take, want
<1>7. /\ BufferFrom(r)' /\ Here(r)' = Here(r) + take /\ Here(r) + take \in Here(r)..r
      /\ out = Part(data, at[Len(results)], Here(r) + take)
    BY <1>1, <1>2, <1>6, TakenFrom
<1>8. out \in Seq(SourceBytes)
    <2>1. at[Len(results)] \in 0..Len(data) /\ Here(r) + take \in at[Len(results)]..Len(data)
        <3>1. PICK x, h, e : x = at[Len(results)] /\ h = Here(r) /\ e = Here(r) + take
            OBVIOUS
        <3>2. x \in 0..h /\ h \in 0..r /\ r \in 0..Len(data) /\ Len(data) \in Nat /\ e \in h..r
            BY <1>4, <1>7, <3>1, Zenon
        <3>3. x \in 0..Len(data) /\ e \in x..Len(data)
            BY <3>2
        <3> QED
            BY <3>1, <3>3, Zenon
    <2> QED
        <3>1. Part(data, at[Len(results)], Here(r) + take) \in Seq(SourceBytes)
            BY <1>3, <2>1, PartIs
        <3> QED
            BY <1>7, <3>1
<1> HIDE DEF out
<1>9. /\ rcall'.op = "read" /\ rcall'.n = rcall.n /\ rcall'.out = out
      /\ rcall' \in [op : {"none", "read", "line"}, n : Nat, out : Seq(SourceBytes)]
    BY <1>2, <1>3, <1>8
<1>10. CallFrom(at[Len(results)], Here(r))'
    <2>0. PICK lo, h : lo = at[Len(results)] /\ h = Here(r) + take
        OBVIOUS
    <2>1. h - lo <= rcall.n /\ lo <= h
        <3>1. rcall.n \in Nat
            BY <1>3
        <3>2. Here(r) \in Nat /\ at[Len(results)] \in Nat /\ at[Len(results)] <= Here(r)
            BY <1>4
        <3>3. take \in Nat /\ take <= rcall.n - (Here(r) - at[Len(results)])
            BY <1>4, <1>6
        <3> QED
            BY <2>0, <3>1, <3>2, <3>3
    <2>2. CallFrom(lo, h)'
        BY <1>2, <1>5, <1>7, <1>9, <2>0, <2>1 DEF CallFrom
    <2> QED
        BY <1>2, <1>7, <2>0, <2>2
<1>11. TakenSoFar(at)'
    BY <1>1, <1>2, SameResults
<1> QED
    BY <1>2, <1>7, <1>9, <1>10, <1>11 DEF ReaderInv, EofIsReal

LEMMA ReadReturnsInv == ASSUME ReaderInv, ReadReturns PROVE ReaderInv'
<1>1. PICK r, at : BufferFrom(r) /\ TakenSoFar(at) /\ CallFrom(at[Len(results)], Here(r))
    BY DEF ReaderInv
<1> DEFINE q == [op |-> "read", n |-> rcall.n, out |-> rcall.out]
           lo == at[Len(results)]
<1>2. /\ rcall.op = "read" /\ (Wanting => Drained /\ eof) /\ Return(q)
      /\ UNCHANGED <<data, short, rest, buf, pos, eof, arena>>
    BY DEF ReadReturns
<1>3. BufferFrom(r)' /\ Here(r)' = Here(r)
    BY <1>1, <1>2 DEF BufferFrom, Here
<1>4. /\ data \in Seq(SourceBytes) /\ Len(data) \in Nat /\ Len(rcall.out) = Here(r) - lo
      /\ Here(r) \in 0..r /\ r \in 0..Len(data) /\ lo \in 0..Here(r)
    BY <1>1, ReaderParts
<1>5. q.op = "read" /\ q.n = rcall.n /\ q.out = rcall.out
    OBVIOUS
<1>6. rcall.out = Part(data, lo, Here(r))
    BY <1>1 DEF CallFrom
<1> HIDE DEF q, lo
<1>7. lo \in 0..Len(data) /\ Len(data) \in lo..Len(data) /\ Here(r) \in lo..Len(data)
    BY <1>4
<1>8. After(data, lo) = Part(data, lo, Len(data)) /\ Len(After(data, lo)) = Len(data) - lo
    BY <1>4, <1>7, PartIs DEF Part, After
<1>9. IsPrefix(q.out, After(data, lo))
    <2>1. SubSeq(Part(data, lo, Len(data)), 1, Here(r) - lo) = Part(data, lo, Here(r))
        BY <1>4, <1>7, PartCut
    <2>2. rcall.out \in Seq(SourceBytes)
        BY DEF ReaderInv
    <2>3. SubSeq(rcall.out, 1, Len(rcall.out)) = rcall.out
        BY <2>2, SubSeqFull
    <2>4. Here(r) - lo <= Len(data) - lo
        BY <1>4
    <2> QED
        BY <1>4, <1>5, <1>6, <1>8, <2>1, <2>3, <2>4 DEF IsPrefix
<1>10. Len(q.out) < q.n => Len(q.out) = Len(After(data, lo))
    <2>1. ASSUME Len(q.out) < q.n PROVE Here(r) = Len(data)
        BY <1>1, <1>2, <1>5, <2>1, AtTheEnd DEF Wanting
    <2> QED
        BY <1>4, <1>5, <1>8, <2>1
<1>11. Exact(data, q, lo) /\ Width(data, q, lo) = Len(rcall.out)
    BY <1>5, <1>9, <1>10 DEF Exact, Width
<1>12. PICK T : results \in Seq(T)
    BY DEF ReaderInv
<1>13. eof' \in BOOLEAN /\ EofIsReal'
    BY <1>2 DEF ReaderInv, EofIsReal
<1>14. Len(rcall.out) \in Nat /\ lo + Len(rcall.out) = Here(r)'
    BY <1>3, <1>4
<1> QED
    BY <1>1, <1>2, <1>3, <1>11, <1>12, <1>13, <1>14, ReturnedInv DEF lo

\* A line's result is exact and takes the line.
LEMMA LineIsExact ==
    ASSUME NEW T, NEW s \in Seq(T), NEW lo \in 0..Len(s), NEW hi \in lo..Len(s), hi > lo,
           LineAt(s, lo) = Part(s, lo, hi), NEW l, l.start # <<>>
    PROVE  /\ Exact(s, LineResult(Part(s, lo, hi), l), lo)
           /\ Width(s, LineResult(Part(s, lo, hi), l), lo) = hi - lo
<1> DEFINE q == LineResult(Part(s, lo, hi), l)
<1>1. q = [op |-> "line", text |-> Stripped(Part(s, lo, hi)), whole |-> l.whole]
    BY DEF LineResult
<1>2. q.op = "line" /\ q.text = Stripped(Part(s, lo, hi))
    BY <1>1
<1> HIDE DEF q
<1>3. Len(LineAt(s, lo)) = hi - lo
    BY PartIs
<1>4. LineAt(s, lo) # <<>>
    BY <1>3
<1> QED
    BY <1>2, <1>3, <1>4 DEF q, Exact, Width

LEMMA TakePieceInv == ASSUME ReaderInv, TakePiece PROVE ReaderInv'
<1>1. PICK r, at : BufferFrom(r) /\ TakenSoFar(at) /\ CallFrom(at[Len(results)], Here(r))
    BY DEF ReaderInv
<1> DEFINE nl == Newline(Unread)
           take == IF nl > 0 THEN nl ELSE Len(Unread)
           pushed == Push(arena, take, 1)
           start == IF line.start = <<>> THEN <<pushed.block>> ELSE line.start
           l == [start |-> start, len |-> line.len + take,
                 whole |-> /\ line.whole
                           /\ pushed.block.chunk = start[1].chunk
                           /\ pushed.block.lo = start[1].lo + line.len]
           out == rcall.out \o SubSeq(Unread, 1, take)
<1>2. /\ rcall.op = "line" /\ ~Drained /\ pos' = pos + take
      /\ IF nl > 0 THEN Return(LineResult(out, l))
                   ELSE /\ line' = l /\ rcall' = [rcall EXCEPT !.out = out]
                        /\ UNCHANGED results
      /\ UNCHANGED <<data, short, rest, buf, eof>>
    BY DEF TakePiece
<1>3. l.start # <<>>
    OBVIOUS
<1>4. PICK w, e : w = take /\ e = l
    OBVIOUS
<1>5. PICK lo, h : lo = at[Len(results)] /\ h = Here(r)
    OBVIOUS
<1>6. /\ data \in Seq(SourceBytes) /\ Len(data) \in Nat
      /\ rcall \in [op : {"none", "read", "line"}, n : Nat, out : Seq(SourceBytes)]
    BY <1>1, ReaderParts DEF ReaderInv
<1>7. /\ Unread \in Seq(SourceBytes) /\ Len(Unread) = r - h /\ r \in 0..Len(data)
      /\ h \in 0..r /\ h # r /\ lo \in 0..h
    <2>1. /\ Unread \in Seq(SourceBytes) /\ Len(Unread) = Len(buf) - pos
          /\ Here(r) \in 0..r /\ at[Len(results)] \in 0..Here(r) /\ r \in 0..Len(data)
          /\ Len(buf) \in 0..r /\ pos \in 0..Len(buf) /\ (Drained <=> Here(r) = r)
        BY <1>1, ReaderParts
    <2>2. Len(buf) - pos = r - Here(r)
        BY <2>1 DEF Here
    <2> QED
        BY <1>2, <1>5, <2>1, <2>2
<1>8. \/ nl = 0 /\ w = Len(Unread) /\ \A j \in 1..Len(Unread) : Unread[j] # LF
      \/ /\ nl \in 1..Len(Unread) /\ w = nl /\ Unread[nl] = LF
         /\ \A j \in 1..(nl - 1) : Unread[j] # LF
    BY <1>4, <1>7, NewlineIs
<1>9. w \in 1..Len(Unread)
    BY <1>7, <1>8
<1> HIDE DEF l, take, nl
<1>17. PICK hi : hi = h + w
    OBVIOUS
<1>10. /\ BufferFrom(r)' /\ Here(r)' = hi /\ hi \in h..r
       /\ out = Part(data, lo, hi)
       /\ \A j \in 1..Len(Unread) : Unread[j] = data[h + j]
    <2>1. w \in 0..Len(Unread) /\ pos' = pos + w /\ UNCHANGED <<data, rest, buf>>
        BY <1>2, <1>4, <1>9
    <2> QED
        <3>1. /\ BufferFrom(r)' /\ Here(r)' = Here(r) + w /\ Here(r) + w \in Here(r)..r
              /\ rcall.out \o SubSeq(Unread, 1, w) = Part(data, at[Len(results)], Here(r) + w)
              /\ \A j \in 1..Len(Unread) : Unread[j] = data[Here(r) + j]
            BY <1>1, <2>1, TakenFrom
        <3>2. out = rcall.out \o SubSeq(Unread, 1, w)
            BY <1>4
        <3> HIDE DEF out
        <3> QED
            BY <1>5, <1>17, <3>1, <3>2
<1>11. /\ lo \in 0..Len(data) /\ hi \in lo..Len(data) /\ hi > lo /\ hi > h
       /\ h \in Nat /\ w \in Nat /\ hi \in Nat /\ lo \in Nat /\ lo <= h /\ hi = h + w /\ w \in 1..Len(Unread)
    <2>1. /\ r \in 0..Len(data) /\ h \in 0..r /\ lo \in 0..h /\ Len(data) \in Nat
        BY <1>6, <1>7
    <2>2. w \in 1..Len(Unread) /\ Len(Unread) \in Nat
        BY <1>6, <1>7, <1>9
    <2>3. w \in Nat /\ w >= 1
        BY <2>2
    <2>4. hi = h + w /\ hi \in h..r
        BY <1>10, <1>17
    <2> HIDE DEF out
    <2>5. h \in Nat /\ lo \in Nat /\ r \in Nat /\ lo <= h /\ r <= Len(data)
        BY <2>1
    <2>6. hi \in Nat /\ hi > h /\ hi <= r
        BY <2>3, <2>4, <2>5
    <2> QED
        BY <2>1, <2>2, <2>3, <2>4, <2>5, <2>6
<1>12. eof' \in BOOLEAN /\ EofIsReal'
    BY <1>2 DEF ReaderInv, EofIsReal
<1>13. \A j \in 1..(h - lo) : data[lo + j] # LF
    BY <1>1, <1>2, <1>5 DEF CallFrom
<1>14. \A j \in 1..(hi - lo - 1) : data[lo + j] # LF
    <2> SUFFICES ASSUME NEW j \in 1..(hi - lo - 1) PROVE data[lo + j] # LF
        OBVIOUS
    <2>1. CASE j <= h - lo
        <3>1. j \in 1..(h - lo)
            BY <1>11, <2>1
        <3> QED
            BY <1>13, <3>1
    <2>2. CASE ~(j <= h - lo)
        <3>1. PICK i : i = lo + j - h
            OBVIOUS
        <3>2. i \in 1..(w - 1) /\ h + i = lo + j /\ i \in 1..Len(Unread)
            BY <1>7, <1>9, <1>11, <2>2, <3>1
        <3>3. Unread[i] # LF
            BY <1>8, <3>2
        <3> QED
            BY <1>10, <3>2, <3>3
    <2> QED
        BY <2>1, <2>2
<1>15. CASE nl > 0
    <2>1. data[hi] = LF
        BY <1>8, <1>10, <1>11, <1>15
    <2>2. LineAt(data, lo) = Part(data, lo, hi)
        BY <1>6, <1>11, <1>14, <2>1, LineAtIs
    <2>3. PICK q : q = LineResult(out, l)
        OBVIOUS
    <2>4. Exact(data, q, lo) /\ Width(data, q, lo) = hi - lo
        <3>1. e.start # <<>>
            BY <1>3, <1>4
        <3>2. q = LineResult(Part(data, lo, hi), e)
            BY <1>4, <1>10, <2>3
        <3>3. /\ Exact(data, LineResult(Part(data, lo, hi), e), lo)
              /\ Width(data, LineResult(Part(data, lo, hi), e), lo) = hi - lo
            BY <1>6, <1>11, <2>2, <3>1, LineIsExact
        <3> QED
            BY <3>2, <3>3
    <2>5. PICK T : results \in Seq(T)
        BY DEF ReaderInv
    <2>6. Return(q)
        BY <1>2, <1>15, <2>3
    <2>7. hi - lo \in Nat /\ lo + (hi - lo) = hi
        BY <1>11
    <2>8. UNCHANGED <<data, short>>
        BY <1>2
    <2>9. PICK k \in Nat : k = hi - lo /\ lo + k = hi
        BY <2>7
    <2>10. Width(data, q, at[Len(results)]) = k /\ at[Len(results)] + k = Here(r)' /\ Exact(data, q, at[Len(results)])
        BY <1>5, <1>10, <2>4, <2>9
    <2> QED
        BY <1>1, <1>10, <1>12, <2>5, <2>6, <2>8, <2>10, ReturnedInv
<1>16. CASE ~(nl > 0)
    <2>1. line' = l /\ rcall' = [rcall EXCEPT !.out = out] /\ UNCHANGED results
        BY <1>2, <1>16
    <2>2. out \in Seq(SourceBytes)
        <3>1. Part(data, lo, hi) \in Seq(SourceBytes)
            BY <1>6, <1>11, PartIs
        <3> QED
            BY <1>10, <3>1
    <2> HIDE DEF out
    <2>3. /\ rcall'.op = "line" /\ rcall'.out = out
          /\ rcall' \in [op : {"none", "read", "line"}, n : Nat, out : Seq(SourceBytes)]
        BY <1>2, <1>6, <2>1, <2>2
    <2>4. \A j \in 1..(hi - lo) : data[lo + j] # LF
        <3> SUFFICES ASSUME NEW j \in 1..(hi - lo) PROVE data[lo + j] # LF
            OBVIOUS
        <3>1. CASE j = hi - lo
            <4>1. lo + j = hi /\ w \in 1..Len(Unread)
                BY <1>11, <3>1
            <4>2. Unread[w] # LF
                BY <1>8, <1>16, <4>1
            <4> QED
                BY <1>10, <1>11, <4>1, <4>2
        <3>2. CASE j # hi - lo
            BY <1>11, <1>14, <3>2
        <3> QED
            BY <3>1, <3>2
    <2>5. line'.start # <<>>
        BY <1>3, <2>1
    <2>6. CallFrom(lo, hi)'
        BY <1>2, <1>10, <1>11, <2>3, <2>4, <2>5 DEF CallFrom
    <2>7. CallFrom(at[Len(results)], Here(r))'
        BY <1>5, <1>10, <2>1, <2>6
    <2>8. TakenSoFar(at)'
        BY <1>1, <1>2, <2>1, SameResults
    <2> QED
        BY <1>2, <1>10, <1>12, <2>1, <2>3, <2>7, <2>8 DEF ReaderInv
<1> QED
    BY <1>15, <1>16

LEMMA LineEndsInv == ASSUME ReaderInv, LineEnds PROVE ReaderInv'
<1>1. PICK r, at : BufferFrom(r) /\ TakenSoFar(at) /\ CallFrom(at[Len(results)], Here(r))
    BY DEF ReaderInv
<1>2. /\ rcall.op = "line" /\ Drained /\ eof /\ Return(LineResult(rcall.out, line))
      /\ UNCHANGED <<data, short, rest, buf, pos, eof, arena>>
    BY DEF LineEnds
<1>3. BufferFrom(r)' /\ Here(r)' = Here(r)
    BY <1>1, <1>2 DEF BufferFrom, Here
<1>4. PICK lo, h, q : lo = at[Len(results)] /\ h = Here(r) /\ q = LineResult(rcall.out, line)
    OBVIOUS
<1>5. h = Len(data) /\ After(data, lo) = rcall.out
    BY <1>1, <1>2, <1>4, AtTheEnd
<1>6. data \in Seq(SourceBytes) /\ Len(data) \in Nat /\ lo \in 0..h
    BY <1>1, <1>4, ReaderParts
<1>7. /\ rcall.out = Part(data, lo, h) /\ (line.start = <<>> <=> lo = h)
      /\ \A j \in 1..(h - lo) : data[lo + j] # LF
    BY <1>1, <1>2, <1>4 DEF CallFrom
<1>8. Exact(data, q, lo) /\ Width(data, q, lo) = h - lo
    <2>1. CASE line.start = <<>>
        <3>1. q = [op |-> "null"]
            BY <1>4, <2>1 DEF LineResult
        <3>2. q.op = "null"
            BY <3>1
        <3>3. rcall.out = <<>> /\ h - lo = 0
            BY <1>6, <1>7, <2>1, NoPart
        <3> QED
            BY <1>5, <3>2, <3>3 DEF Exact, Width
    <2>2. CASE line.start # <<>>
        <3>1. h > lo /\ lo \in 0..Len(data) /\ h \in lo..Len(data)
            BY <1>5, <1>6, <1>7, <2>2
        <3>2. \A j \in 1..(h - lo - 1) : data[lo + j] # LF
            BY <1>6, <1>7, <3>1
        <3>3. data[h] # LF
            <4>1. h - lo \in 1..(h - lo) /\ lo + (h - lo) = h
                BY <3>1
            <4> QED
                BY <1>7, <4>1
        <3>4. LineAt(data, lo) = Part(data, lo, h)
            BY <1>5, <1>6, <3>1, <3>2, <3>3, LineAtIs
        <3> QED
            BY <1>4, <1>6, <1>7, <2>2, <3>1, <3>4, LineIsExact
    <2> QED
        BY <2>1, <2>2
<1>9. PICK T : results \in Seq(T)
    BY DEF ReaderInv
<1>10. eof' \in BOOLEAN /\ EofIsReal'
    BY <1>2 DEF ReaderInv, EofIsReal
<1>11. PICK k \in Nat : k = h - lo /\ lo + k = h
    BY <1>5, <1>6
<1>12. /\ Width(data, q, at[Len(results)]) = k /\ at[Len(results)] + k = Here(r)'
       /\ Exact(data, q, at[Len(results)]) /\ Return(q)
    BY <1>2, <1>3, <1>4, <1>8, <1>11
<1> QED
    BY <1>1, <1>2, <1>3, <1>9, <1>10, <1>12, ReturnedInv

LEMMA ReadNextInv == ReaderInv /\ [ReadNext]_readVars => ReaderInv'
<1> SUFFICES ASSUME ReaderInv, [ReadNext]_readVars PROVE ReaderInv'
    OBVIOUS
<1>1. CASE UNCHANGED readVars
    <2>1. PICK r, at : BufferFrom(r) /\ TakenSoFar(at) /\ CallFrom(at[Len(results)], Here(r))
        BY DEF ReaderInv
    <2>2. UNCHANGED <<data, short, rest, buf, pos, eof, rcall, arena, line, results>>
        BY <1>1 DEF readVars
    <2>3. BufferFrom(r)' /\ Here(r)' = Here(r)
        BY <2>1, <2>2 DEF BufferFrom, Here
    <2>4. TakenSoFar(at)'
        BY <2>1, <2>2, SameResults
    <2>5. CallFrom(at[Len(results)], Here(r))'
        BY <2>1, <2>2, <2>3 DEF CallFrom
    <2> QED
        BY <2>2, <2>3, <2>4, <2>5 DEF ReaderInv, EofIsReal
<1>2. CASE ReadNext
    BY <1>2, BufReadCallInv, ReadLineCallInv, RefillInv, TakeBytesInv, ReadReturnsInv,
       TakePieceInv, LineEndsInv DEF ReadNext, ReadStep
<1> QED
    BY <1>1, <1>2

-----------------------------------------------------------------------------
\* The places of the invariant are those the results count up to.
LEMMA PlacesAre ==
    ASSUME NEW at, TakenSoFar(at), Len(results) \in Nat
    PROVE  \A i \in 0..Len(results) : Places[i] = at[i]
<1> DEFINE n == Len(results)
           Rule(f) == [i \in 0..n |-> IF i = 0 THEN 0 ELSE f[i - 1] + Width(data, results[i], f[i - 1])]
<1>1. at = Rule(at)
    <2>1. at = [i \in 0..n |-> at[i]]
        BY DEF TakenSoFar
    <2>2. \A i \in 0..n : at[i] = IF i = 0 THEN 0 ELSE at[i - 1] + Width(data, results[i], at[i - 1])
        BY DEF TakenSoFar
    <2> QED
        BY <2>1, <2>2
<1>2. Places = Rule(Places)
    BY <1>1, Zenon DEF Places
<1>3. /\ Places[0] = 0
      /\ \A i \in 1..n : Places[i] = Places[i - 1] + Width(data, results[i], Places[i - 1])
    <2>1. PICK f : f = Places
        OBVIOUS
    <2>2. f = Rule(f)
        BY <1>2, <2>1
    <2> HIDE DEF Rule
    <2>3. \A i \in 0..n : f[i] = Rule(f)[i]
        BY <2>2
    <2>4. \A i \in 0..n : f[i] = IF i = 0 THEN 0 ELSE f[i - 1] + Width(data, results[i], f[i - 1])
        BY <2>3 DEF Rule
    <2> QED
        BY <2>1, <2>4
<1> HIDE DEF Rule
<1> DEFINE G == {m \in Nat : m <= n => Places[m] = at[m]}
<1>4. 0 \in G
    BY <1>3 DEF TakenSoFar
<1>5. ASSUME NEW m \in Nat, m \in G PROVE m + 1 \in G
    <2> SUFFICES ASSUME m + 1 <= n PROVE Places[m + 1] = at[m + 1]
        OBVIOUS
    <2>1. m + 1 \in 1..n /\ (m + 1) - 1 = m /\ Places[m] = at[m]
        BY <1>5
    <2> QED
        BY <1>3, <2>1 DEF TakenSoFar
<1> HIDE DEF G
<1>6. Nat \subseteq G
    BY <1>4, <1>5, CountUp
<1> QED
    BY <1>6 DEF G

LEMMA ReaderIsExact == ReaderInv => ReadsAreExact /\ EofIsReal
<1> SUFFICES ASSUME ReaderInv PROVE ReadsAreExact /\ EofIsReal
    OBVIOUS
<1>1. PICK r, at : BufferFrom(r) /\ TakenSoFar(at) /\ CallFrom(at[Len(results)], Here(r))
    BY DEF ReaderInv
<1>2. PICK T : results \in Seq(T)
    BY DEF ReaderInv
<1>3. Len(results) \in Nat /\ DOMAIN results = 1..Len(results)
    BY <1>2
<1>4. \A i \in 0..Len(results) : Places[i] = at[i]
    BY <1>1, <1>3, PlacesAre
<1>5. \A i \in DOMAIN results : Exact(data, results[i], Places[i - 1])
    <2> SUFFICES ASSUME NEW i \in 1..Len(results) PROVE Exact(data, results[i], Places[i - 1])
        BY <1>3
    <2>1. i - 1 \in 0..Len(results)
        BY <1>3
    <2> QED
        BY <1>1, <1>4, <2>1 DEF TakenSoFar
<1>6. PICK lo, h : lo = at[Len(results)] /\ h = Here(r)
    OBVIOUS
<1>7. /\ data \in Seq(SourceBytes) /\ Len(data) \in Nat /\ r \in 0..Len(data)
      /\ h \in 0..r /\ lo \in 0..h /\ Unread = Part(data, h, r)
      /\ rcall.out = Part(data, lo, h) /\ rest = Part(data, r, Len(data))
    BY <1>1, <1>6, ReaderParts DEF CallFrom, BufferFrom
<1>8. Part(data, lo, h) \o Part(data, h, r) = Part(data, lo, r)
    <2>1. lo \in 0..Len(data) /\ r \in lo..Len(data) /\ h \in lo..r
        BY <1>7
    <2> QED
        BY <1>7, <2>1, PartJoin
<1>9. Part(data, lo, r) \o Part(data, r, Len(data)) = Part(data, lo, Len(data))
    <2>1. lo \in 0..Len(data) /\ Len(data) \in lo..Len(data) /\ r \in lo..Len(data)
        BY <1>7
    <2> QED
        BY <1>7, <2>1, PartJoin
<1>10. After(data, Places[Len(results)]) = Part(data, lo, Len(data))
    <2>1. Places[Len(results)] = lo
        <3>1. Len(results) \in 0..Len(results)
            BY <1>3
        <3> QED
            BY <1>4, <1>6, <3>1
    <2> QED
        BY <2>1 DEF After, Part
<1>11. rcall.out \o Unread \o rest = After(data, Places[Len(results)])
    BY <1>7, <1>8, <1>9, <1>10
<1> QED
    BY <1>5, <1>11 DEF ReadsAreExact, ReaderInv

-----------------------------------------------------------------------------
(* The writers *)

\* Doubling a capacity reaches what is needed.
LEMMA DoubledHolds ==
    ASSUME NEW cap \in Nat \ {0}, NEW need \in Nat
    PROVE  Doubled(cap, need) \in Nat /\ Doubled(cap, need) >= need
<1> DEFINE Rule(f) == [k \in 0..need |-> IF k = 0 THEN 2 * cap ELSE 2 * f[k - 1]]
           size == CHOOSE f : f = Rule(f)
           first == CHOOSE k \in 0..need : /\ size[k] >= need
                                           /\ \A j \in 0..(k - 1) : size[j] < need
<1>1. Doubled(cap, need) = size[first]
    BY Zenon DEF Doubled
<1>2. \E f : f = Rule(f)
    <2> DEFINE g == [p \in (1..need) \X Nat |-> 2 * p[2]]
    <2>1. /\ g \in [(1..need) \X Nat -> Nat]
          /\ \A i \in 1..need, v \in Nat : g[<<i, v>>] = 2 * v
        OBVIOUS
    <2> HIDE DEF g
    <2>2. PICK c \in Nat : c = 2 * cap
        OBVIOUS
    <2>3. PICK f \in [0..need -> Nat] : Follows(f, need, c, g)
        BY <2>1, ValuesExist
    <2>4. f[0] = 2 * cap /\ \A i \in 1..need : f[i] = g[<<i, f[i - 1]>>]
        BY <2>2, <2>3 DEF Follows
    <2>5. \A i \in 1..need : f[i] = 2 * f[i - 1]
        <3> SUFFICES ASSUME NEW i \in 1..need PROVE f[i] = 2 * f[i - 1]
            OBVIOUS
        <3>1. i - 1 \in 0..need /\ f[i - 1] \in Nat
            OBVIOUS
        <3> QED
            BY <2>1, <2>4, <3>1
    <2>6. f = [k \in 0..need |-> f[k]]
        OBVIOUS
    <2>7. \A k \in 0..need : f[k] = IF k = 0 THEN 2 * cap ELSE 2 * f[k - 1]
        BY <2>4, <2>5
    <2>8. f = Rule(f)
        BY <2>6, <2>7
    <2> QED
        BY <2>8
<1>3. size = Rule(size)
    BY <1>2, Zenon
<1>4. PICK f : f = size
    OBVIOUS
<1> HIDE DEF size
<1>5. \A k \in 0..need : f[k] = IF k = 0 THEN 2 * cap ELSE 2 * f[k - 1]
    <2>1. f = Rule(f)
        BY <1>3, <1>4
    <2> HIDE DEF Rule
    <2>2. \A k \in 0..need : f[k] = Rule(f)[k]
        BY <2>1
    <2> QED
        BY <2>2 DEF Rule
<1> HIDE DEF Rule
<1> DEFINE G == {k \in Nat : k <= need => f[k] \in Nat /\ f[k] > k}
<1>6. Nat \subseteq G
    <2>1. 0 \in G
        BY <1>5
    <2>2. ASSUME NEW k \in Nat, k \in G PROVE k + 1 \in G
        <3> SUFFICES ASSUME k + 1 <= need PROVE f[k + 1] \in Nat /\ f[k + 1] > k + 1
            OBVIOUS
        <3>1. f[k + 1] = 2 * f[k]
            BY <1>5
        <3>2. f[k] \in Nat /\ f[k] > k
            BY <2>2
        <3> QED
            BY <3>1, <3>2
    <2> HIDE DEF G
    <2> QED
        BY <2>1, <2>2, CountUp
<1>7. \A k \in 0..need : f[k] \in Nat /\ f[k] > k
    BY <1>6
<1> HIDE DEF G
<1> DEFINE S == {k \in 0..need : f[k] >= need}
<1>8. \E k \in S : \A j \in S : ~(j < k)
    <2>1. need \in S /\ S \subseteq Nat
        BY <1>7
    <2> HIDE DEF S
    <2> QED
        BY <2>1, FirstExists
<1>9. \E k \in 0..need : /\ size[k] >= need
                         /\ \A j \in 0..(k - 1) : size[j] < need
    BY <1>4, <1>7, <1>8
<1>10. first \in 0..need /\ size[first] >= need
    BY <1>9
<1> QED
    BY <1>1, <1>4, <1>7, <1>10

-----------------------------------------------------------------------------
MemWriters == [data : Seq(TextBytes), cap : Nat \ {0}]

\* Three texts are joined in either order.
LEMMA TextsJoin == \A p, q, u \in Seq(TextBytes) : (p \o q) \o u = p \o (q \o u)
<1> TAKE p, q, u \in Seq(TextBytes)
<1> QED
    BY ConcatAssociative

\* What both writers of the tee hold: the same bytes, within their room.
Sinks(m, sunk) ==
    \A i \in {1, 2} : m[i] \in MemWriters /\ m[i].data = sunk /\ Len(sunk) <= m[i].cap

LEMMA MemWriteIs ==
    ASSUME NEW mw \in MemWriters, NEW s \in Seq(TextBytes), Len(mw.data) <= mw.cap
    PROVE  /\ MemWrite(mw, s) \in MemWriters
           /\ MemWrite(mw, s).data = mw.data \o s
           /\ Len(mw.data \o s) <= MemWrite(mw, s).cap
<1> DEFINE need == Len(mw.data) + Len(s)
           cap == IF need > mw.cap THEN Doubled(mw.cap, need) ELSE mw.cap
<1>1. mw.data \in Seq(TextBytes) /\ mw.cap \in Nat \ {0}
    BY DEF MemWriters
<1>2. mw.data \o s \in Seq(TextBytes) /\ Len(mw.data \o s) = need /\ need \in Nat
    BY <1>1
<1>3. cap \in Nat \ {0} /\ need <= cap
    <2> HIDE DEF need
    <2>1. Doubled(mw.cap, need) \in Nat /\ Doubled(mw.cap, need) >= need
        BY <1>1, <1>2, DoubledHolds
    <2> QED
        BY <1>1, <1>2, <2>1
<1>4. MemWrite(mw, s) = [data |-> mw.data \o s, cap |-> cap]
    BY DEF MemWrite
<1> HIDE DEF cap, need
<1> QED
    BY <1>2, <1>3, <1>4 DEF MemWriters

LEMMA SinksTake ==
    ASSUME NEW m, NEW sunk \in Seq(TextBytes), NEW s \in Seq(TextBytes), Sinks(m, sunk)
    PROVE  Sinks([i \in {1, 2} |-> MemWrite(m[i], s)], sunk \o s)
<1> SUFFICES ASSUME NEW i \in {1, 2}
             PROVE  /\ MemWrite(m[i], s) \in MemWriters
                    /\ MemWrite(m[i], s).data = sunk \o s
                    /\ Len(sunk \o s) <= MemWrite(m[i], s).cap
    BY DEF Sinks
<1>1. m[i] \in MemWriters /\ m[i].data = sunk /\ Len(sunk) <= m[i].cap
    BY DEF Sinks
<1> QED
    BY <1>1, MemWriteIs

-----------------------------------------------------------------------------
\* "sunk" has reached the sinks, the buffer has the rest of what was written.
WriterInv ==
    /\ wbuf \in Seq(TextBytes) /\ Len(wbuf) <= WriteCap
    /\ \E sunk \in Seq(TextBytes) : Sinks(mem, sunk) /\ written = sunk \o wbuf
    /\ \E op \in {"none", "write", "copy"}, left \in Seq(TextBytes) :
           wcall = Writing(op, left) /\ (op = "copy" => wbuf = <<>>)
    /\ NoLineWaits

LEMMA WritingIs ==
    ASSUME NEW op, NEW left
    PROVE  Writing(op, left).op = op /\ Writing(op, left).left = left
    BY DEF Writing

LEMMA WriterInitInv == WriteInit => WriterInv
<1> SUFFICES ASSUME WriteInit PROVE WriterInv
    OBVIOUS
<1>1. wbuf = <<>> /\ wcall = NoWrite /\ written = <<>>
    BY DEF WriteInit
<1>2. PICK caps \in MemCaps : mem = [i \in {1, 2} |-> MemWriter(caps[i])]
    BY DEF WriteInit
<1>3. caps[1] \in Nat /\ caps[2] \in Nat
    BY WriterAssumption
<1>4. \A cap \in Nat : /\ MemWriter(cap) \in MemWriters
                       /\ MemWriter(cap).data = <<>> /\ 0 <= MemWriter(cap).cap
    <2> TAKE cap \in Nat
    <2>1. DefaultCap \in Nat \ {0}
        BY WriterAssumption
    <2> QED
        BY <2>1 DEF MemWriter, MemWriters
<1>5. Sinks(mem, <<>>)
    BY <1>2, <1>3, <1>4 DEF Sinks
<1>6. <<>> \in Seq(TextBytes) /\ <<>> \o <<>> = <<>> /\ Len(<<>>) = 0
    OBVIOUS
<1>7. WriteCap \in Nat \ {0}
    BY WriterAssumption
<1>8. NoLineWaits
    BY <1>1 DEF NoLineWaits, HasNewline, Contains
<1>9. written = <<>> \o wbuf /\ wbuf \in Seq(TextBytes) /\ Len(wbuf) <= WriteCap
    BY <1>1, <1>6, <1>7
<1>10. wcall = Writing("none", <<>>) /\ ("none" = "copy" => wbuf = <<>>)
    BY <1>1 DEF NoWrite
<1> QED
    BY <1>5, <1>6, <1>8, <1>9, <1>10 DEF WriterInv

\* A step that leaves the sinks, the buffer and the history alone.
LEMMA CallChanges ==
    ASSUME WriterInv, UNCHANGED <<lineBuffered, wbuf, mem, written>>,
           NEW op \in {"none", "write", "copy"}, NEW left \in Seq(TextBytes),
           wcall' = Writing(op, left), op = "copy" => wbuf = <<>>
    PROVE  WriterInv'
<1>1. PICK sunk \in Seq(TextBytes) : Sinks(mem, sunk) /\ written = sunk \o wbuf
    BY DEF WriterInv
<1>2. Sinks(mem', sunk) /\ written' = sunk \o wbuf'
    BY <1>1
<1>3. NoLineWaits'
    BY DEF WriterInv, NoLineWaits, HasNewline
<1>4. wbuf' \in Seq(TextBytes) /\ Len(wbuf') <= WriteCap
    BY DEF WriterInv
<1>5. wcall' = Writing(op, left) /\ (op = "copy" => wbuf' = <<>>)
    OBVIOUS
<1> QED
    BY <1>2, <1>3, <1>4, <1>5 DEF WriterInv

LEMMA WriteCallInv ==
    ASSUME WriterInv, NEW s \in Texts, BufWriteCall(s) \/ CopyCall(s)
    PROVE  WriterInv'
<1>1. s \in Seq(TextBytes)
    BY WriterAssumption
<1>2. CASE BufWriteCall(s)
    <2>1. /\ wcall' = Writing("write", s) /\ UNCHANGED <<lineBuffered, wbuf, mem, written>>
          /\ "write" \in {"none", "write", "copy"} /\ ("write" = "copy" => wbuf = <<>>)
        BY <1>2 DEF BufWriteCall
    <2> QED
        BY <1>1, <2>1, CallChanges
<1>3. CASE CopyCall(s)
    <2>1. /\ wcall' = Writing("copy", s) /\ UNCHANGED <<lineBuffered, wbuf, mem, written>>
          /\ "copy" \in {"none", "write", "copy"} /\ ("copy" = "copy" => wbuf = <<>>)
        BY <1>3 DEF CopyCall
    <2> QED
        BY <1>1, <2>1, CallChanges
<1> QED
    BY <1>2, <1>3

LEMMA WriteReturnsInv == ASSUME WriterInv, WriteReturns PROVE WriterInv'
<1>1. /\ wcall' = Writing("none", <<>>) /\ UNCHANGED <<lineBuffered, wbuf, mem, written>>
      /\ "none" \in {"none", "write", "copy"} /\ ("none" = "copy" => wbuf = <<>>)
      /\ <<>> \in Seq(TextBytes)
    BY DEF WriteReturns, NoWrite
<1> QED
    BY <1>1, CallChanges

LEMMA BufFlushInv == ASSUME WriterInv, BufFlush PROVE WriterInv'
<1>1. PICK sunk \in Seq(TextBytes) : Sinks(mem, sunk) /\ written = sunk \o wbuf
    BY DEF WriterInv
<1>2. /\ wbuf' = <<>> /\ wcall' = wcall /\ wcall = NoWrite /\ written' = written
      /\ mem' = [i \in {1, 2} |-> MemWrite(mem[i], wbuf)]
    BY DEF BufFlush, Tee
<1>3. wbuf \in Seq(TextBytes) /\ WriteCap \in Nat \ {0}
    BY WriterAssumption DEF WriterInv
<1>4. Sinks(mem', sunk \o wbuf)
    BY <1>1, <1>2, <1>3, SinksTake
<1>5. sunk \o wbuf \in Seq(TextBytes) /\ written' = (sunk \o wbuf) \o <<>>
    BY <1>1, <1>2, <1>3
<1>6. NoLineWaits'
    BY <1>2 DEF NoLineWaits, HasNewline, Contains
<1>7. wcall' = Writing("none", <<>>) /\ <<>> \in Seq(TextBytes) /\ Len(<<>>) <= WriteCap
    BY <1>2, <1>3 DEF NoWrite
<1> QED
    BY <1>2, <1>4, <1>5, <1>6, <1>7 DEF WriterInv

LEMMA CopyTurnInv == ASSUME WriterInv, CopyTurn PROVE WriterInv'
<1>0. wcall.op = "copy" /\ UNCHANGED <<lineBuffered, wbuf>>
    BY DEF CopyTurn
<1>1. PICK sunk \in Seq(TextBytes) : Sinks(mem, sunk) /\ written = sunk \o wbuf
    BY DEF WriterInv
<1>2. PICK op \in {"none", "write", "copy"}, left \in Seq(TextBytes) :
          wcall = Writing(op, left) /\ (op = "copy" => wbuf = <<>>)
    BY DEF WriterInv
<1>3. op = "copy" /\ wcall.left = left /\ wbuf = <<>>
    BY <1>0, <1>2, WritingIs
<1>4. CASE left = <<>>
    <2>1. /\ wcall' = Writing("none", <<>>) /\ UNCHANGED <<lineBuffered, wbuf, mem, written>>
          /\ "none" \in {"none", "write", "copy"} /\ ("none" = "copy" => wbuf = <<>>)
          /\ <<>> \in Seq(TextBytes)
        BY <1>0, <1>3, <1>4 DEF CopyTurn, NoWrite
    <2> QED
        BY <2>1, CallChanges
<1>5. CASE left # <<>>
    <2>1. PICK k \in 1 .. Len(left) :
              /\ mem' = Tee(SubSeq(left, 1, k))
              /\ written' = written \o SubSeq(left, 1, k)
              /\ wcall' = Writing("copy", SubSeq(left, k + 1, Len(left)))
        BY <1>3, <1>5 DEF CopyTurn
    <2>2. SubSeq(left, 1, k) \in Seq(TextBytes) /\ SubSeq(left, k + 1, Len(left)) \in Seq(TextBytes)
        OBVIOUS
    <2> DEFINE got == SubSeq(left, 1, k)
    <2> HIDE DEF got
    <2>3. Sinks(mem', sunk \o got)
        BY <1>1, <2>1, <2>2, SinksTake DEF got, Tee
    <2>4. sunk \o got \in Seq(TextBytes) /\ written' = (sunk \o got) \o wbuf'
        BY <1>0, <1>1, <1>3, <2>1, <2>2 DEF got
    <2>5. NoLineWaits'
        BY <1>0 DEF WriterInv, NoLineWaits, HasNewline
    <2>6. wbuf' = <<>> /\ WriteCap \in Nat \ {0} /\ wbuf' \in Seq(TextBytes) /\ Len(wbuf') <= WriteCap
        BY <1>0, <1>3, WriterAssumption
    <2>7. \E o \in {"none", "write", "copy"}, l \in Seq(TextBytes) :
               wcall' = Writing(o, l) /\ (o = "copy" => wbuf' = <<>>)
        BY <2>1, <2>2, <2>6
    <2> QED
        BY <2>3, <2>4, <2>5, <2>6, <2>7 DEF WriterInv
<1> QED
    BY <1>4, <1>5

\* No newline in two texts, none in both together.
LEMMA NewlineJoin ==
    ASSUME NEW s \in Seq(TextBytes), NEW t \in Seq(TextBytes), ~HasNewline(s), ~HasNewline(t)
    PROVE  ~HasNewline(s \o t)
<1> SUFFICES ASSUME NEW i \in 1..Len(s \o t) PROVE (s \o t)[i] # NL
    BY DEF HasNewline, Contains
<1>1. CASE i <= Len(s)
    <2>1. i \in 1..Len(s) /\ (s \o t)[i] = s[i]
        BY <1>1
    <2> QED
        BY <2>1 DEF HasNewline, Contains
<1>2. CASE i > Len(s)
    <2>1. i - Len(s) \in 1..Len(t) /\ (s \o t)[i] = t[i - Len(s)]
        BY <1>2
    <2> QED
        BY <2>1 DEF HasNewline, Contains
<1> QED
    BY <1>1, <1>2

LEMMA WriteTurnInv == ASSUME WriterInv, WriteTurn PROVE WriterInv'
<1>1. PICK sunk \in Seq(TextBytes) : Sinks(mem, sunk) /\ written = sunk \o wbuf
    BY DEF WriterInv
<1>2. PICK op \in {"none", "write", "copy"}, left \in Seq(TextBytes) : wcall = Writing(op, left)
    BY DEF WriterInv
<1> DEFINE full == Len(wbuf) = WriteCap
           kept == IF full THEN <<>> ELSE wbuf
           space == WriteCap - Len(kept)
           n == Min({space, Len(left)})
           piece == SubSeq(left, 1, n)
           filled == kept \o piece
           flush == lineBuffered /\ HasNewline(piece)
           once == IF full THEN Tee(wbuf) ELSE mem
           before == IF full THEN sunk \o wbuf ELSE sunk
<1>3. /\ mem' = IF flush THEN [i \in {1, 2} |-> MemWrite(once[i], filled)] ELSE once
      /\ wbuf' = IF flush THEN <<>> ELSE filled
      /\ wcall' = Writing("write", SubSeq(left, Len(piece) + 1, Len(left)))
      /\ written' = written \o piece
      /\ lineBuffered' = lineBuffered
    BY <1>2, WritingIs DEF WriteTurn
<1>4. wbuf \in Seq(TextBytes) /\ Len(wbuf) <= WriteCap /\ WriteCap \in Nat \ {0}
    BY WriterAssumption DEF WriterInv
<1>5. kept \in Seq(TextBytes) /\ Len(kept) <= WriteCap /\ space \in Nat
    BY <1>4
<1>6. n \in Int /\ n <= space /\ n <= Len(left)
    <2>1. PICK a, b : a = space /\ b = Len(left)
        OBVIOUS
    <2>2. a \in Int /\ b \in Int
        BY <1>5, <2>1
    <2> HIDE DEF space
    <2> QED
        BY <2>1, <2>2, MinOfTwo, Zenon
<1>7. n \in 0..Len(left)
    <2>1. n \in {space, Len(left)}
        <3>1. \E x \in {space, Len(left)} : \A y \in {space, Len(left)} : x =< y
            BY <1>5
        <3> HIDE DEF space
        <3> QED
            BY <3>1 DEF Min
    <2> HIDE DEF n
    <2> QED
        BY <1>5, <1>6, <2>1
<1> HIDE DEF n
<1>8. piece \in Seq(TextBytes) /\ Len(piece) = n
      /\ SubSeq(left, Len(piece) + 1, Len(left)) \in Seq(TextBytes)
    <2>1. piece \in Seq(TextBytes) /\ Len(piece) = n
        BY <1>7
    <2> HIDE DEF piece
    <2> QED
        BY <1>7, <2>1
<1> HIDE DEF piece
<1>9. filled \in Seq(TextBytes) /\ Len(filled) <= WriteCap
    <2>1. Len(kept) + n <= WriteCap
        BY <1>4, <1>5, <1>6
    <2> HIDE DEF kept
    <2>2. kept \in Seq(TextBytes) /\ piece \in Seq(TextBytes)
        BY <1>5, <1>8
    <2>3. kept \o piece \in Seq(TextBytes) /\ Len(kept \o piece) = Len(kept) + Len(piece)
        BY <2>2
    <2> QED
        BY <1>8, <2>1, <2>3
<1>10. before \in Seq(TextBytes) /\ Sinks(once, before) /\ before \o kept = written
    <2>1. CASE full
        <3>1. Sinks(once, before)
            BY <1>1, <1>4, <2>1, SinksTake DEF Tee
        <3> QED
            BY <1>1, <1>4, <2>1, <3>1
    <2>2. CASE ~full
        BY <1>1, <1>4, <2>2
    <2> QED
        BY <2>1, <2>2
<1> HIDE DEF once, before
<1>11. written' = before \o filled
    <2> HIDE DEF kept
    <2>1. before \in Seq(TextBytes) /\ kept \in Seq(TextBytes) /\ piece \in Seq(TextBytes)
        BY <1>5, <1>8, <1>10
    <2>2. (before \o kept) \o piece = before \o (kept \o piece)
        <3>1. PICK x, y, z : x = before /\ y = kept /\ z = piece
            OBVIOUS
        <3>2. x \in Seq(TextBytes) /\ y \in Seq(TextBytes) /\ z \in Seq(TextBytes)
            BY <2>1, <3>1, Zenon
        <3>3. (x \o y) \o z = x \o (y \o z)
            <4>1. \A q, u \in Seq(TextBytes) : (x \o q) \o u = x \o (q \o u)
                BY ONLY <3>2, TextsJoin, Zenon
            <4>2. \A u \in Seq(TextBytes) : (x \o y) \o u = x \o (y \o u)
                BY ONLY <3>2, <4>1, Zenon
            <4> QED
                BY ONLY <3>2, <4>2, Zenon
        <3> QED
            BY <3>1, <3>3, Zenon
    <2> QED
        BY <1>3, <1>10, <2>2
<1>12. \E op1 \in {"none", "write", "copy"}, left1 \in Seq(TextBytes) :
           wcall' = Writing(op1, left1) /\ (op1 = "copy" => wbuf' = <<>>)
    BY <1>3, <1>8
<1>13. CASE flush
    <2> HIDE DEF filled
    <2>1. mem' = [i \in {1, 2} |-> MemWrite(once[i], filled)] /\ wbuf' = <<>>
        BY <1>3, <1>13
    <2>2. Sinks(mem', before \o filled)
        BY <1>9, <1>10, <2>1, SinksTake
    <2>3. before \o filled \in Seq(TextBytes) /\ written' = (before \o filled) \o wbuf'
        BY <1>9, <1>10, <1>11, <2>1
    <2>4. NoLineWaits'
        BY <2>1 DEF NoLineWaits, HasNewline, Contains
    <2>5. wbuf' \in Seq(TextBytes) /\ Len(wbuf') <= WriteCap
        BY <1>4, <2>1
    <2> QED
        BY <1>12, <2>2, <2>3, <2>4, <2>5 DEF WriterInv
<1>14. CASE ~flush
    <2>1. mem' = once /\ wbuf' = filled
        BY <1>3, <1>14
    <2>2. lineBuffered => ~HasNewline(filled)
        <3> SUFFICES ASSUME lineBuffered PROVE ~HasNewline(filled)
            OBVIOUS
        <3>1. ~HasNewline(piece)
            BY <1>14
        <3>2. ~HasNewline(kept)
            BY DEF WriterInv, NoLineWaits, HasNewline, Contains
        <3> QED
            BY <1>5, <1>8, <3>1, <3>2, NewlineJoin
    <2> HIDE DEF filled
    <2>3. NoLineWaits'
        BY <1>3, <2>1, <2>2 DEF NoLineWaits
    <2> QED
        BY <1>9, <1>10, <1>11, <1>12, <2>1, <2>3 DEF WriterInv
<1> QED
    BY <1>13, <1>14

LEMMA WriteNextInv == WriterInv /\ [WriteNext]_writeVars => WriterInv'
<1> SUFFICES ASSUME WriterInv, [WriteNext]_writeVars PROVE WriterInv'
    OBVIOUS
<1>1. CASE UNCHANGED writeVars
    <2>1. PICK op \in {"none", "write", "copy"}, left \in Seq(TextBytes) :
              wcall = Writing(op, left) /\ (op = "copy" => wbuf = <<>>)
        BY DEF WriterInv
    <2>2. UNCHANGED <<lineBuffered, wbuf, mem, written>> /\ wcall' = Writing(op, left)
        BY <1>1, <2>1 DEF writeVars
    <2> QED
        BY <2>1, <2>2, CallChanges
<1>2. CASE WriteNext
    BY <1>2, WriteCallInv, WriteTurnInv, WriteReturnsInv, BufFlushInv, CopyTurnInv DEF WriteNext
<1> QED
    BY <1>1, <1>2

LEMMA WriterIsExact == WriterInv => SinksHoldWritten /\ NoLineWaits
<1> SUFFICES ASSUME WriterInv PROVE SinksHoldWritten /\ NoLineWaits
    OBVIOUS
<1>1. PICK sunk \in Seq(TextBytes) : Sinks(mem, sunk) /\ written = sunk \o wbuf
    BY DEF WriterInv
<1> QED
    BY <1>1 DEF WriterInv, Sinks, SinksHoldWritten

-----------------------------------------------------------------------------
(* Typed values *)

Octets == 0..(Radix - 1)

\* What w bytes can hold: one value if there are none, Radix times as many for
\* one byte more.
LEMMA PowersOfRadix ==
    ASSUME NEW w \in Nat
    PROVE  \E p : /\ p = [i \in 0..w |-> IF i = 0 THEN 1 ELSE Radix * p[i - 1]]
                  /\ p \in [0..w -> Nat \ {0}]
<1> DEFINE g == [q \in (1..w) \X (Nat \ {0}) |-> Radix * q[2]]
<1>1. Radix \in Nat \ {0, 1}
    BY TypedAssumption
<1>2. /\ g \in [(1..w) \X (Nat \ {0}) -> Nat \ {0}]
      /\ \A i \in 1..w, v \in Nat \ {0} : g[<<i, v>>] = Radix * v
    <2>1. \A v \in Nat \ {0} : Radix * v \in Nat \ {0}
        BY <1>1
    <2> QED
        BY <2>1
<1> HIDE DEF g
<1>3. PICK p \in [0..w -> Nat \ {0}] : Follows(p, w, 1, g)
    <2>1. PICK S : S = Nat \ {0}
        OBVIOUS
    <2>2. 1 \in S /\ g \in [(1..w) \X S -> S]
        BY <1>2, <2>1
    <2>3. \E p \in [0..w -> S] : Follows(p, w, 1, g)
        BY <2>2, ValuesExist
    <2> QED
        BY <2>1, <2>3
<1>4. \A i \in 0..w : p[i] = IF i = 0 THEN 1 ELSE Radix * p[i - 1]
    <2> SUFFICES ASSUME NEW i \in 0..w PROVE p[i] = IF i = 0 THEN 1 ELSE Radix * p[i - 1]
        OBVIOUS
    <2>1. CASE i = 0
        BY <1>3, <2>1 DEF Follows
    <2>2. CASE i # 0
        <3>1. i \in 1..w /\ i - 1 \in 0..w
            BY <2>2
        <3>2. p[i] = g[<<i, p[i - 1]>>] /\ p[i - 1] \in Nat \ {0}
            BY <1>3, <3>1 DEF Follows
        <3> QED
            BY <1>2, <2>2, <3>1, <3>2
    <2> QED
        BY <2>1, <2>2
<1>5. p = [i \in 0..w |-> p[i]]
    OBVIOUS
<1> QED
    BY <1>4, <1>5

LEMMA ValuesAre ==
    ASSUME NEW w \in Nat
    PROVE  \E p \in [0..w -> Nat \ {0}] :
              /\ p[0] = 1 /\ \A i \in 1..w : p[i] = Radix * p[i - 1]
              /\ \A i \in 0..w : Values(i) = p[i]
<1> DEFINE Rule(k, f) == [i \in 0..k |-> IF i = 0 THEN 1 ELSE Radix * f[i - 1]]
           Power(k) == CHOOSE f : f = Rule(k, f)
<1>1. \A k \in Nat : Power(k) = Rule(k, Power(k))
    <2> TAKE k \in Nat
    <2>1. \E f : f = Rule(k, f)
        BY PowersOfRadix
    <2> QED
        BY <2>1, Zenon
<1>2. \A k \in Nat : Values(k) = Power(k)[k]
    BY Zenon DEF Values
<1> HIDE DEF Power
<1>3. ASSUME NEW k \in Nat
      PROVE  /\ Power(k)[0] = 1
             /\ \A i \in 1..k : Power(k)[i] = Radix * Power(k)[i - 1]
    <2>1. PICK f : f = Power(k)
        OBVIOUS
    <2>2. f = Rule(k, f)
        BY <1>1, <2>1
    <2> HIDE DEF Rule
    <2>3. \A i \in 0..k : f[i] = Rule(k, f)[i]
        BY <2>2
    <2>4. \A i \in 0..k : f[i] = IF i = 0 THEN 1 ELSE Radix * f[i - 1]
        BY <2>3 DEF Rule
    <2> QED
        BY <2>1, <2>4
<1> HIDE DEF Rule
<1>4. PICK p \in [0..w -> Nat \ {0}] : p[0] = 1 /\ \A i \in 1..w : p[i] = Radix * p[i - 1]
    <2>1. PICK p : /\ p = [i \in 0..w |-> IF i = 0 THEN 1 ELSE Radix * p[i - 1]]
                   /\ p \in [0..w -> Nat \ {0}]
        BY PowersOfRadix
    <2>2. \A i \in 0..w : p[i] = [j \in 0..w |-> IF j = 0 THEN 1 ELSE Radix * p[j - 1]][i]
        BY <2>1
    <2>3. \A i \in 0..w : p[i] = IF i = 0 THEN 1 ELSE Radix * p[i - 1]
        BY <2>2
    <2>4. p[0] = 1 /\ \A i \in 1..w : p[i] = Radix * p[i - 1]
        BY <2>3
    <2> QED
        BY <2>1, <2>4
<1>5. ASSUME NEW k \in 0..w PROVE Values(k) = p[k]
    <2> DEFINE G == {i \in Nat : i <= k => Power(k)[i] = p[i]}
    <2>1. 0 \in G
        BY <1>3, <1>4
    <2>2. ASSUME NEW i \in Nat, i \in G PROVE i + 1 \in G
        <3> SUFFICES ASSUME i + 1 <= k PROVE Power(k)[i + 1] = p[i + 1]
            OBVIOUS
        <3>1. i + 1 \in 1..k /\ i + 1 \in 1..w /\ (i + 1) - 1 = i /\ Power(k)[i] = p[i]
            BY <2>2
        <3> QED
            BY <1>3, <1>4, <3>1
    <2> HIDE DEF G
    <2>3. Nat \subseteq G
        BY <2>1, <2>2, CountUp
    <2>4. k \in G
        BY <2>3
    <2> QED
        BY <1>2, <2>4 DEF G
<1> QED
    BY <1>4, <1>5

LEMMA ValuesIs ==
    ASSUME NEW w \in Nat
    PROVE  Values(w) \in Nat \ {0} /\ Values(0) = 1 /\ Values(w + 1) = Radix * Values(w)
<1>1. PICK p \in [0..(w + 1) -> Nat \ {0}] :
              /\ p[0] = 1 /\ \A i \in 1..(w + 1) : p[i] = Radix * p[i - 1]
              /\ \A i \in 0..(w + 1) : Values(i) = p[i]
    <2>1. w + 1 \in Nat
        OBVIOUS
    <2> QED
        BY <2>1, ValuesAre
<1>2. w \in 0..(w + 1) /\ 0 \in 0..(w + 1) /\ w + 1 \in 1..(w + 1) /\ (w + 1) - 1 = w /\ w + 1 \in 0..(w + 1)
    OBVIOUS
<1>3. p[w] \in Nat \ {0} /\ p[w + 1] = Radix * p[w]
    BY <1>1, <1>2
<1> QED
    BY <1>1, <1>2, <1>3

-----------------------------------------------------------------------------
\* Shifting by a byte, and its undoing.
LEMMA ShiftByte ==
    ASSUME NEW v \in Nat
    PROVE  /\ v \div Radix \in Nat /\ (v % Radix) \in Octets
           /\ v = Radix * (v \div Radix) + (v % Radix)
<1>0. Radix \in Nat \ {0}
    BY TypedAssumption
<1>1. /\ v \div Radix \in Int /\ (v % Radix) \in 0..(Radix - 1)
      /\ v = Radix * (v \div Radix) + (v % Radix)
    BY <1>0, DivMod
<1>2. v \div Radix \in Nat
    BY <1>0
<1> QED
    BY <1>1, <1>2 DEF Octets

LEMMA ShiftIsBelow ==
    ASSUME NEW v \in Nat, NEW m \in Nat, v < Radix * m
    PROVE  v \div Radix < m
<1>0. Radix \in Nat \ {0}
    BY TypedAssumption
<1>1. PICK q, x : q = v \div Radix /\ x = v % Radix
    OBVIOUS
<1>2. q \in Nat /\ x \in Nat /\ v = Radix * q + x
    BY <1>1, ShiftByte DEF Octets
<1>3. ASSUME q >= m PROVE FALSE
    <2>1. \A a, b, c \in Nat : b >= c => a * b >= a * c
        OBVIOUS
    <2>2. Radix * q >= Radix * m
        BY <1>0, <1>2, <1>3, <2>1
    <2>3. Radix * q \in Nat /\ Radix * m \in Nat
        BY <1>0, <1>2
    <2> QED
        BY <1>2, <2>2, <2>3
<1> QED
    BY <1>1, <1>2, <1>3

LEMMA ShiftsAre ==
    ASSUME NEW v \in Nat, NEW w \in Nat
    PROVE  /\ Shifts(v, w) \in [0..w -> Nat] /\ Shifts(v, w)[0] = v
           /\ \A i \in 1..w : Shifts(v, w)[i] = Shifts(v, w)[i - 1] \div Radix
<1> DEFINE Rule(f) == [i \in 0..w |-> IF i = 0 THEN v ELSE f[i - 1] \div Radix]
<1>1. Radix \in Nat \ {0, 1}
    BY TypedAssumption
<1>2. \E p : p = Rule(p)
    <2> DEFINE g == [q \in (1..w) \X Nat |-> q[2] \div Radix]
    <2>1. /\ g \in [(1..w) \X Nat -> Nat]
          /\ \A i \in 1..w, u \in Nat : g[<<i, u>>] = u \div Radix
        <3>1. \A u \in Nat : u \div Radix \in Nat
            BY ShiftByte
        <3> QED
            BY <3>1
    <2> HIDE DEF g
    <2>2. PICK p \in [0..w -> Nat] : Follows(p, w, v, g)
        BY <2>1, ValuesExist
    <2>3. \A i \in 0..w : p[i] = IF i = 0 THEN v ELSE p[i - 1] \div Radix
        <3> SUFFICES ASSUME NEW i \in 0..w PROVE p[i] = IF i = 0 THEN v ELSE p[i - 1] \div Radix
            OBVIOUS
        <3>1. CASE i = 0
            BY <2>2, <3>1 DEF Follows
        <3>2. CASE i # 0
            <4>1. i \in 1..w /\ i - 1 \in 0..w
                BY <3>2
            <4>2. p[i] = g[<<i, p[i - 1]>>] /\ p[i - 1] \in Nat
                BY <2>2, <4>1 DEF Follows
            <4> QED
                BY <2>1, <3>2, <4>1, <4>2
        <3> QED
            BY <3>1, <3>2
    <2>4. p = [i \in 0..w |-> p[i]]
        OBVIOUS
    <2>5. p = Rule(p)
        BY <2>3, <2>4
    <2> QED
        BY <2>5
<1>3. Shifts(v, w) = Rule(Shifts(v, w))
    BY <1>2, Zenon DEF Shifts
<1>4. PICK f : f = Shifts(v, w)
    OBVIOUS
<1>5. f = Rule(f)
    BY <1>3, <1>4
<1>6. f = [i \in 0..w |-> f[i]] /\ \A i \in 0..w : f[i] = Rule(f)[i]
    BY <1>5
<1> HIDE DEF Rule
<1>7. \A i \in 0..w : f[i] = IF i = 0 THEN v ELSE f[i - 1] \div Radix
    BY <1>6 DEF Rule
<1>8. f[0] = v /\ \A i \in 1..w : f[i] = f[i - 1] \div Radix
    BY <1>7
<1> DEFINE G == {i \in Nat : i <= w => f[i] \in Nat}
<1>9. Nat \subseteq G
    <2>1. 0 \in G
        BY <1>8
    <2>2. ASSUME NEW i \in Nat, i \in G PROVE i + 1 \in G
        <3> SUFFICES ASSUME i + 1 <= w PROVE f[i + 1] \in Nat
            OBVIOUS
        <3>1. i + 1 \in 1..w /\ (i + 1) - 1 = i /\ f[i] \in Nat
            BY <2>2
        <3>2. f[i + 1] = f[i] \div Radix
            BY <1>8, <3>1
        <3> QED
            BY <3>1, <3>2, ShiftByte
    <2> HIDE DEF G
    <2> QED
        BY <2>1, <2>2, CountUp
<1>10. f \in [0..w -> Nat]
    <2>1. \A i \in 0..w : f[i] \in Nat
        BY <1>9
    <2> QED
        BY <1>6, <2>1
<1> QED
    BY <1>4, <1>8, <1>10

\* A value that fits w bytes is shifted out of them.
LEMMA ShiftedOut ==
    ASSUME NEW w \in Nat, NEW v \in Nat, v < Values(w)
    PROVE  Shifts(v, w)[w] = 0
<1>1. PICK f : f = Shifts(v, w)
    OBVIOUS
<1>2. f \in [0..w -> Nat] /\ f[0] = v /\ \A i \in 1..w : f[i] = f[i - 1] \div Radix
    BY <1>1, ShiftsAre
<1> DEFINE G == {i \in Nat : i <= w => f[i] < Values(w - i)}
<1>3. Nat \subseteq G
    <2>1. 0 \in G
        BY <1>2
    <2>2. ASSUME NEW i \in Nat, i \in G PROVE i + 1 \in G
        <3> SUFFICES ASSUME i + 1 <= w PROVE f[i + 1] < Values(w - (i + 1))
            OBVIOUS
        <3>1. i + 1 \in 1..w /\ (i + 1) - 1 = i /\ i \in 0..w /\ f[i] < Values(w - i)
            BY <2>2
        <3>2. f[i + 1] = f[i] \div Radix /\ f[i] \in Nat
            BY <1>2, <3>1
        <3>3. PICK k \in Nat : k = w - (i + 1) /\ w - i = k + 1
            OBVIOUS
        <3>4. Values(k) \in Nat /\ Values(k + 1) = Radix * Values(k)
            BY ValuesIs
        <3>5. f[i] < Radix * Values(k)
            BY <3>1, <3>3, <3>4
        <3>6. f[i] \div Radix < Values(k)
            BY <3>2, <3>4, <3>5, ShiftIsBelow
        <3> QED
            BY <3>2, <3>3, <3>6
    <2> HIDE DEF G
    <2> QED
        BY <2>1, <2>2, CountUp
<1>4. f[w] < Values(w - w) /\ w - w = 0 /\ f[w] \in Nat
    BY <1>2, <1>3
<1>5. Values(0) = 1
    BY ValuesIs
<1> QED
    BY <1>1, <1>4, <1>5

-----------------------------------------------------------------------------
\* The bytes of a number, whichever end comes first.
LEMMA BytesAre ==
    ASSUME NEW v \in Nat, NEW w \in Nat
    PROVE  /\ LE(v, w) \in Seq(Octets) /\ Len(LE(v, w)) = w
           /\ \A i \in 1..w : LE(v, w)[i] = Shifts(v, w)[i - 1] % Radix
           /\ BE(v, w) \in Seq(Octets) /\ Len(BE(v, w)) = w
           /\ \A i \in 1..w : BE(v, w)[i] = Shifts(v, w)[w - i] % Radix
           /\ Reverse(LE(v, w)) = BE(v, w)
<1>1. PICK f : f = Shifts(v, w)
    OBVIOUS
<1>2. f \in [0..w -> Nat]
    BY <1>1, ShiftsAre
<1>3. \A i \in 0..w : (f[i] % Radix) \in Octets
    BY <1>2, ShiftByte
<1>4. LE(v, w) = [i \in 1..w |-> f[i - 1] % Radix]
    BY <1>1, Zenon DEF LE
<1>5. PICK l : l = LE(v, w)
    OBVIOUS
<1>6. l \in [1..w -> Octets] /\ \A i \in 1..w : l[i] = f[i - 1] % Radix
    <2>1. \A i \in 1..w : i - 1 \in 0..w
        OBVIOUS
    <2> QED
        BY <1>3, <1>4, <1>5, <2>1
<1>7. l \in Seq(Octets) /\ Len(l) = w
    BY <1>6, FunctionIsSeq
<1>8. PICK b : b = BE(v, w)
    OBVIOUS
<1>9. b = [i \in 1..w |-> l[(w - i) + 1]]
    BY <1>5, <1>7, <1>8 DEF BE, Reverse
<1>10. ASSUME NEW i \in 1..w PROVE b[i] \in Octets /\ b[i] = f[w - i] % Radix
    <2>1. (w - i) + 1 \in 1..w /\ ((w - i) + 1) - 1 = w - i /\ w - i \in 0..w
        OBVIOUS
    <2>2. b[i] = l[(w - i) + 1]
        BY <1>9
    <2>3. l[(w - i) + 1] = f[w - i] % Radix
        BY <1>6, <2>1
    <2> QED
        BY <1>3, <2>1, <2>2, <2>3
<1>11. b \in [1..w -> Octets]
    BY <1>9, <1>10
<1>12. b \in Seq(Octets) /\ Len(b) = w
    BY <1>11, FunctionIsSeq
<1>13. \A i \in 1..w : l[i] = Shifts(v, w)[i - 1] % Radix
    BY <1>1, <1>6
<1>14. \A i \in 1..w : b[i] = Shifts(v, w)[w - i] % Radix
    BY <1>1, <1>10
<1> QED
    BY <1>5, <1>7, <1>8, <1>12, <1>13, <1>14, Zenon DEF BE

\* What is read from the bytes of a number that fits them is the number.
LEMMA BytesRoundTrip ==
    ASSUME NEW w \in Nat, NEW v \in Nat, v < Values(w)
    PROVE  FromBE(BE(v, w)) = v /\ FromLE(LE(v, w)) = v
<1>1. PICK f : f = Shifts(v, w)
    OBVIOUS
<1>2. f \in [0..w -> Nat] /\ f[0] = v /\ \A i \in 1..w : f[i] = f[i - 1] \div Radix
    BY <1>1, ShiftsAre
<1>3. f[w] = 0
    BY <1>1, ShiftedOut
<1>4. PICK b : b = BE(v, w)
    OBVIOUS
<1>5. Len(b) = w /\ \A i \in 1..w : b[i] = f[w - i] % Radix
    BY <1>1, <1>4, BytesAre
<1> DEFINE Rule(p) == [i \in 0..w |-> IF i = 0 THEN 0 ELSE Radix * p[i - 1] + b[i]]
           read == CHOOSE p : p = Rule(p)
<1>6. FromBE(b) = read[w]
    BY <1>5, Zenon DEF FromBE
<1>7. ASSUME NEW i \in 1..w PROVE f[w - i] = Radix * f[w - (i - 1)] + b[i]
    <2>1. w - i \in 0..w /\ w - (i - 1) \in 1..w /\ (w - (i - 1)) - 1 = w - i
        OBVIOUS
    <2>2. f[w - (i - 1)] = f[w - i] \div Radix /\ f[w - i] \in Nat
        BY <1>2, <2>1
    <2>3. f[w - i] = Radix * (f[w - i] \div Radix) + (f[w - i] % Radix)
        BY <2>2, ShiftByte
    <2> QED
        BY <1>5, <2>2, <2>3
<1>8. \E p : p = Rule(p)
    <2>1. PICK p : p = [i \in 0..w |-> f[w - i]]
        OBVIOUS
    <2>2. p[0] = 0 /\ \A i \in 1..w : p[i] = f[w - i] /\ p[i - 1] = f[w - (i - 1)]
        BY <1>3, <2>1
    <2>3. \A i \in 0..w : p[i] = IF i = 0 THEN 0 ELSE Radix * p[i - 1] + b[i]
        <3> SUFFICES ASSUME NEW i \in 0..w, i # 0 PROVE p[i] = Radix * p[i - 1] + b[i]
            BY <2>2
        <3>1. i \in 1..w
            OBVIOUS
        <3> QED
            BY <1>7, <2>2, <3>1
    <2>4. p = [i \in 0..w |-> p[i]]
        BY <2>1
    <2>5. p = Rule(p)
        BY <2>3, <2>4
    <2> QED
        BY <2>5
<1>9. read = Rule(read)
    BY <1>8, Zenon
<1>10. PICK p : p = read
    OBVIOUS
<1> HIDE DEF read
<1>11. \A i \in 0..w : p[i] = Rule(p)[i]
    BY <1>9, <1>10
<1>12. \A i \in 0..w : p[i] = IF i = 0 THEN 0 ELSE Radix * p[i - 1] + b[i]
    BY <1>11
<1> HIDE DEF Rule
<1> DEFINE G == {i \in Nat : i <= w => p[i] = f[w - i]}
<1>13. Nat \subseteq G
    <2>1. 0 \in G
        BY <1>3, <1>12
    <2>2. ASSUME NEW i \in Nat, i \in G PROVE i + 1 \in G
        <3> SUFFICES ASSUME i + 1 <= w PROVE p[i + 1] = f[w - (i + 1)]
            OBVIOUS
        <3>1. i + 1 \in 1..w /\ (i + 1) - 1 = i /\ p[i] = f[w - i]
            BY <2>2
        <3>2. p[i + 1] = Radix * p[i] + b[i + 1]
            BY <1>12, <3>1
        <3>3. f[w - (i + 1)] = Radix * f[w - i] + b[i + 1]
            BY <1>7, <3>1
        <3> QED
            BY <3>1, <3>2, <3>3
    <2> HIDE DEF G
    <2> QED
        BY <2>1, <2>2, CountUp
<1>14. p[w] = f[w - w] /\ w - w = 0
    BY <1>13
<1>15. FromBE(BE(v, w)) = v
    BY <1>2, <1>4, <1>6, <1>10, <1>14
<1>16. FromLE(LE(v, w)) = FromBE(BE(v, w))
    <2>1. Reverse(LE(v, w)) = BE(v, w)
        BY BytesAre
    <2> QED
        BY <2>1, Zenon DEF FromLE
<1> QED
    BY <1>15, <1>16

\* A signed number survives the casts, both ways.
LEMMA SignRoundTrip ==
    ASSUME NEW w \in Nat, NEW v \in Int, -Values(w) <= 2 * v, 2 * v < Values(w)
    PROVE  ToSigned(ToUnsigned(v, w), w) = v
<1>1. PICK m \in Nat \ {0} : m = Values(w)
    BY ValuesIs
<1>2. CASE v >= 0
    <2>1. v % m = v
        BY <1>1, <1>2, ModSmall
    <2> QED
        BY <1>1, <1>2, <2>1 DEF ToSigned, ToUnsigned
<1>3. CASE v < 0
    <2>1. v + m \in 0..(m - 1)
        BY <1>1, <1>3
    <2>2. ((v + m) % m) = (v % m)
        <3>1. PICK k \in Int : k = 1
            OBVIOUS
        <3>2. ((v + m * k) % m) = (v % m)
            BY ModPlusMultiple
        <3>3. m * k = m
            BY <3>1
        <3> QED
            BY <3>2, <3>3
    <2>3. v % m = v + m
        BY <2>1, <2>2, ModSmall
    <2>4. ToUnsigned(v, w) = v + m
        BY <1>1, <2>3 DEF ToUnsigned
    <2> QED
        BY <1>1, <1>3, <2>4 DEF ToSigned
<1> QED
    BY <1>2, <1>3

LEMMA ToUnsignedIs ==
    ASSUME NEW w \in Nat, NEW v \in Int
    PROVE  /\ ToUnsigned(v, w) \in Nat /\ ToUnsigned(v, w) < Values(w)
           /\ 0 <= v /\ v < Values(w) => ToUnsigned(v, w) = v
<1>1. PICK m \in Nat \ {0} : m = Values(w)
    BY ValuesIs
<1>2. (v % m) \in 0..(m - 1)
    BY DivMod
<1>3. 0 <= v /\ v < m => v % m = v
    BY ModSmall
<1> QED
    BY <1>1, <1>2, <1>3 DEF ToUnsigned

LEMMA CutIs ==
    ASSUME NEW s \in Seq(Octets)
    PROVE  Cut(s) \in Seq(Octets) /\ Len(Cut(s)) \in Nat /\ Len(Cut(s)) < Values(2)
<1>1. PICK m \in Nat \ {0} : m = Values(2)
    <2>1. 2 \in Nat
        OBVIOUS
    <2> QED
        BY <2>1, ValuesIs
<1>2. PICK k : k = Min({Len(s), LongestString})
    OBVIOUS
<1>3. LongestString = m - 1
    BY <1>1 DEF LongestString
<1>4. k \in {Len(s), m - 1} /\ k <= Len(s) /\ k <= m - 1
    <2>1. PICK a, b : a = Len(s) /\ b = m - 1
        OBVIOUS
    <2>2. a \in Int /\ b \in Int
        BY <2>1
    <2>3. k = Min({a, b})
        BY <1>2, <1>3, <2>1
    <2>4. k \in {a, b} /\ k <= a /\ k <= b
        BY <2>2, <2>3, MinOfTwo
    <2> QED
        BY <2>1, <2>4
<1>5. k \in 0..Len(s)
    BY <1>4
<1>6. SubSeq(s, 1, k) \in Seq(Octets) /\ Len(SubSeq(s, 1, k)) = k
    BY <1>5
<1>7. Cut(s) = SubSeq(s, 1, k)
    BY <1>2 DEF Cut
<1> QED
    BY <1>1, <1>4, <1>5, <1>6, <1>7

\* What a value is written as, and what a read by its type makes of that.
LEMMA IntEncoded ==
    ASSUME NEW t \in Items, t.type = "int"
    PROVE  /\ t.width \in Nat
           /\ Encoded(t) \in Seq(Octets) /\ Len(Encoded(t)) = t.width
           /\ (IF t.signed THEN ToSigned(IF t.big THEN FromBE(Encoded(t)) ELSE FromLE(Encoded(t)), t.width)
                           ELSE IF t.big THEN FromBE(Encoded(t)) ELSE FromLE(Encoded(t))) = t.value
<1>1. PICK w, v : w = t.width /\ v = t.value
    OBVIOUS
<1>2. /\ w \in Nat /\ v \in Int /\ t.signed \in BOOLEAN /\ t.big \in BOOLEAN
      /\ t.signed => -Values(w) <= 2 * v /\ 2 * v < Values(w)
      /\ ~t.signed => 0 <= v /\ v < Values(w)
    <2>1. TypeHas(t)
        BY TypedAssumption
    <2>2. /\ w \in {1, 2, 4, 8} /\ v \in Int /\ t.signed \in BOOLEAN /\ t.big \in BOOLEAN
          /\ IF t.signed THEN -Values(w) <= 2 * v /\ 2 * v < Values(w)
                         ELSE 0 <= v /\ v < Values(w)
        BY <1>1, <2>1 DEF TypeHas
    <2> QED
        BY <2>2
<1>3. PICK u : u = ToUnsigned(v, w)
    OBVIOUS
<1>4. u \in Nat /\ u < Values(w) /\ (~t.signed => u = v)
    BY <1>2, <1>3, ToUnsignedIs
<1>5. t.signed => ToSigned(u, w) = v
    BY <1>2, <1>3, SignRoundTrip
<1>6. Encoded(t) = IF t.big THEN BE(u, w) ELSE LE(u, w)
    BY <1>1, <1>3 DEF Encoded
<1>7. /\ LE(u, w) \in Seq(Octets) /\ Len(LE(u, w)) = w
      /\ BE(u, w) \in Seq(Octets) /\ Len(BE(u, w)) = w
    BY <1>2, <1>4, BytesAre
<1>8. FromBE(BE(u, w)) = u /\ FromLE(LE(u, w)) = u
    BY <1>2, <1>4, BytesRoundTrip
<1>9. (IF t.big THEN FromBE(Encoded(t)) ELSE FromLE(Encoded(t))) = u
    BY <1>6, <1>8
<1> QED
    BY <1>1, <1>2, <1>4, <1>5, <1>6, <1>7, <1>9

LEMMA StringEncoded ==
    ASSUME NEW t \in Items, t.type = "pstr16"
    PROVE  \E head, s \in Seq(Octets) :
              /\ Encoded(t) = head \o s /\ s = Cut(t.value)
              /\ Len(head) = 2 /\ FromLE(head) = Len(s)
<1>1. t.value \in Seq(Octets)
    BY TypedAssumption DEF TypeHas, Octets
<1>2. PICK s : s = Cut(t.value)
    OBVIOUS
<1>3. s \in Seq(Octets) /\ Len(s) \in Nat /\ Len(s) < Values(2)
    BY <1>1, <1>2, CutIs
<1>4. LE(Len(s), 2) \in Seq(Octets) /\ Len(LE(Len(s), 2)) = 2 /\ FromLE(LE(Len(s), 2)) = Len(s)
    <2>1. PICK two \in Nat : two = 2
        OBVIOUS
    <2>2. Len(s) < Values(two)
        BY <1>3, <2>1
    <2>3. LE(Len(s), two) \in Seq(Octets) /\ Len(LE(Len(s), two)) = two
        BY <1>3, BytesAre
    <2>4. FromLE(LE(Len(s), two)) = Len(s)
        BY <1>3, <2>2, BytesRoundTrip
    <2> QED
        BY <2>1, <2>3, <2>4
<1>5. Encoded(t) = LE(Len(s), 2) \o s
    BY <1>2 DEF Encoded
<1> QED
    BY <1>2, <1>3, <1>4, <1>5

\* Three strings of bytes joined one after the other.
LEMMA OctetsJoin == \A p, q, u \in Seq(Octets) : (p \o q) \o u = p \o (q \o u)
<1> TAKE p, q, u \in Seq(Octets)
<1> QED
    BY ConcatAssociative

LEMMA EncodedIs ==
    ASSUME NEW t \in Items
    PROVE  Encoded(t) \in Seq(Octets)
<1>1. CASE t.type = "int"
    BY <1>1, IntEncoded
<1>2. CASE t.type = "pstr16"
    <2>1. PICK head, s \in Seq(Octets) : Encoded(t) = head \o s
        BY <1>2, StringEncoded
    <2>2. head \o s \in Seq(Octets)
        OBVIOUS
    <2> QED
        BY <2>1, <2>2
<1> QED
    BY <1>1, <1>2, TypedAssumption

-----------------------------------------------------------------------------
\* behind[i] is what the items after the first i are written as.
Behind(behind) ==
    /\ behind \in [0..Len(items) -> Seq(Octets)]
    /\ behind[Len(items)] = <<>>
    /\ \A i \in 1..Len(items) : behind[i - 1] = Encoded(items[i]) \o behind[i]

TypedInv ==
    /\ items \in Seq(Items)
    /\ \E T : reads \in Seq(T)
    /\ Len(reads) <= Len(items)
    /\ \E behind : Behind(behind) /\ bytes = behind[Len(reads)]
    /\ TypedRoundTrip

LEMMA TypedInitInv == TypedInit => TypedInv
<1> SUFFICES ASSUME TypedInit PROVE TypedInv
    OBVIOUS
<1>1. items = <<>> /\ bytes = <<>> /\ reads = <<>>
    BY DEF TypedInit
<1>2. PICK behind : behind = [i \in 0..0 |-> <<>>]
    OBVIOUS
<1>3. items \in Seq(Items) /\ reads \in Seq({}) /\ Len(items) = 0 /\ Len(reads) = 0 /\ DOMAIN reads = {}
    BY <1>1
<1>4. behind[0] = <<>> /\ behind \in [0..0 -> Seq(Octets)]
    BY <1>2
<1>5. Behind(behind)
    BY <1>3, <1>4 DEF Behind
<1>6. TypedRoundTrip
    BY <1>3 DEF TypedRoundTrip
<1> QED
    BY <1>1, <1>3, <1>4, <1>5, <1>6 DEF TypedInv

LEMMA WriteTypedInv == ASSUME TypedInv, NEW t \in Items, WriteTyped(t) PROVE TypedInv'
<1>1. PICK behind : Behind(behind) /\ bytes = behind[Len(reads)]
    BY DEF TypedInv
<1>2. /\ items' = Append(items, t) /\ bytes' = bytes \o Encoded(t) /\ reads = <<>> /\ reads' = <<>>
    BY DEF WriteTyped
<1>3. PICK e, n : e = Encoded(t) /\ n = Len(items)
    OBVIOUS
<1>4. items \in Seq(Items) /\ e \in Seq(Octets) /\ n \in Nat
    BY <1>3, EncodedIs DEF TypedInv
<1>5. /\ items' \in Seq(Items) /\ Len(items') = n + 1
      /\ items'[n + 1] = t /\ \A i \in 1..n : items'[i] = items[i]
    BY <1>2, <1>3, <1>4
<1>6. PICK after : after = [i \in 0..(n + 1) |-> IF i <= n THEN behind[i] \o e ELSE <<>>]
    OBVIOUS
<1>7. /\ behind \in [0..n -> Seq(Octets)] /\ behind[n] = <<>>
      /\ \A i \in 1..n : behind[i - 1] = Encoded(items[i]) \o behind[i]
    BY <1>1, <1>3 DEF Behind
<1>8. ASSUME NEW i \in 0..n PROVE after[i] = behind[i] \o e /\ after[i] \in Seq(Octets)
    <2>1. behind[i] \in Seq(Octets) /\ i \in 0..(n + 1) /\ i <= n
        BY <1>4, <1>7
    <2>2. behind[i] \o e \in Seq(Octets)
        BY <1>4, <2>1
    <2>3. after[i] = behind[i] \o e
        BY <1>6, <2>1
    <2> QED
        BY <2>2, <2>3
<1>9. after[n + 1] = <<>> /\ after \in [0..(n + 1) -> Seq(Octets)]
    <2>1. \A i \in 0..(n + 1) : (IF i <= n THEN behind[i] \o e ELSE <<>>) \in Seq(Octets)
        BY <1>4, <1>7
    <2> QED
        BY <1>4, <1>6, <2>1
<1>10. ASSUME NEW i \in 1..(n + 1) PROVE after[i - 1] = Encoded(items'[i]) \o after[i]
    <2>1. CASE i = n + 1
        <3>1. i - 1 = n /\ n \in 0..n /\ Encoded(items'[i]) = e /\ after[i] = <<>>
            BY <1>3, <1>4, <1>5, <1>9, <2>1
        <3>2. after[n] = behind[n] \o e
            BY <1>8, <3>1
        <3> QED
            BY <1>4, <1>7, <3>1, <3>2
    <2>2. CASE i # n + 1
        <3>1. i \in 1..n /\ i - 1 \in 0..n /\ i \in 0..n
            BY <1>4, <2>2
        <3>2. PICK x, y : x = Encoded(items[i]) /\ y = behind[i]
            OBVIOUS
        <3>3. x \in Seq(Octets) /\ y \in Seq(Octets)
            <4>1. items[i] \in Items
                BY <1>3, <1>4, <3>1
            <4> QED
                BY <1>7, <3>1, <3>2, <4>1, EncodedIs
        <3>4. (x \o y) \o e = x \o (y \o e)
            BY <1>4, <3>3, OctetsJoin, Zenon
        <3>5. behind[i - 1] = x \o y /\ after[i - 1] = behind[i - 1] \o e /\ after[i] = y \o e
            BY <1>7, <1>8, <3>1, <3>2
        <3>6. Encoded(items'[i]) = x
            BY <1>5, <3>1, <3>2
        <3> QED
            BY <3>4, <3>5, <3>6
    <2> QED
        BY <2>1, <2>2
<1>11. Behind(after)'
    BY <1>5, <1>9, <1>10 DEF Behind
<1>12. Len(reads) = 0 /\ Len(reads') = 0 /\ reads' \in Seq({}) /\ DOMAIN reads' = {}
    BY <1>2
<1>13. bytes' = after[0]
    BY <1>1, <1>2, <1>3, <1>4, <1>8, <1>12
<1>14. TypedRoundTrip'
    BY <1>12 DEF TypedRoundTrip
<1>15. (\E T : reads \in Seq(T))'
    BY <1>12
<1>16. (\E b : Behind(b) /\ bytes = b[Len(reads)])'
    BY <1>11, <1>12, <1>13
<1> QED
    BY <1>4, <1>5, <1>12, <1>14, <1>15, <1>16 DEF TypedInv

\* A read that gives the next item as it was written.
LEMMA ReadGives ==
    ASSUME TypedInv, UNCHANGED items, Len(reads) < Len(items), NEW behind, Behind(behind),
           NEW v, reads' = Append(reads, Given(v)), bytes' = behind[Len(reads) + 1],
           v = IF items[Len(reads) + 1].type = "pstr16" THEN Cut(items[Len(reads) + 1].value)
                                                        ELSE items[Len(reads) + 1].value
    PROVE  TypedInv'
<1>1. PICK T : reads \in Seq(T)
    BY DEF TypedInv
<1>2. PICK n, x : n = Len(reads) /\ x = Given(v)
    OBVIOUS
<1>3. n \in Nat /\ reads \in Seq(T \union {x}) /\ x \in T \union {x}
    BY <1>1, <1>2, SeqMonotonic
<1>4. /\ reads' \in Seq(T \union {x}) /\ Len(reads') = n + 1 /\ DOMAIN reads' = 1..(n + 1)
      /\ \A i \in 1..n : reads'[i] = reads[i]
      /\ reads'[n + 1] = x
    BY <1>2, <1>3, AppendProperties
<1>5. x.ok /\ x.value = v
    BY <1>2 DEF Given
<1>6. TypedRoundTrip'
    <2> SUFFICES ASSUME NEW i \in 1..(n + 1)
                 PROVE  /\ reads'[i].ok
                        /\ reads'[i].value = IF items[i].type = "pstr16" THEN Cut(items[i].value)
                                                                        ELSE items[i].value
        BY <1>4 DEF TypedRoundTrip
    <2>1. CASE i = n + 1
        BY <1>2, <1>4, <1>5, <2>1
    <2>2. CASE i # n + 1
        <3>1. i \in DOMAIN reads /\ reads'[i] = reads[i]
            BY <1>1, <1>2, <1>3, <1>4, <2>2
        <3> QED
            BY <3>1 DEF TypedInv, TypedRoundTrip
    <2> QED
        BY <2>1, <2>2
<1>7. Behind(behind)' /\ bytes' = behind[Len(reads')]
    BY <1>2, <1>4 DEF Behind
<1>8. (\E b : Behind(b) /\ bytes = b[Len(reads)])'
    BY <1>7
<1>9. items' \in Seq(Items) /\ Len(reads') <= Len(items')
    BY <1>2, <1>3, <1>4 DEF TypedInv
<1>10. (\E T1 : reads \in Seq(T1))'
    BY <1>4
<1> QED
    BY <1>6, <1>8, <1>9, <1>10 DEF TypedInv

LEMMA ReadTypedInv == ASSUME TypedInv, ReadTyped PROVE TypedInv'
<1>1. PICK behind : Behind(behind) /\ bytes = behind[Len(reads)]
    BY DEF TypedInv
<1>2. PICK n, t : n = Len(reads) /\ t = items[n + 1]
    OBVIOUS
<1>3. n \in Nat /\ n < Len(items) /\ Len(items) \in Nat /\ t \in Items /\ items' = items
    BY <1>2 DEF TypedInv, ReadTyped
<1>4. PICK e, b : e = Encoded(t) /\ b = behind[n + 1]
    OBVIOUS
<1>5. e \in Seq(Octets) /\ b \in Seq(Octets) /\ bytes = e \o b
    <2>1. n + 1 \in 1..Len(items) /\ n + 1 \in 0..Len(items) /\ (n + 1) - 1 = n
        BY <1>3
    <2>2. b \in Seq(Octets) /\ behind[n] = e \o b
        BY <1>1, <1>2, <1>4, <2>1 DEF Behind
    <2> QED
        BY <1>1, <1>2, <1>3, <1>4, <2>2, EncodedIs
<1>6. Len(bytes) = Len(e) + Len(b)
    BY <1>5
<1>7. CASE t.type = "pstr16"
    <2>1. PICK head, s \in Seq(Octets) : /\ e = head \o s /\ s = Cut(t.value)
                                         /\ Len(head) = 2 /\ FromLE(head) = Len(s)
        BY <1>3, <1>4, <1>7, StringEncoded
    <2>2. Len(e) = 2 + Len(s) /\ Len(s) \in Nat /\ Len(b) \in Nat
        <3>1. Len(head \o s) = Len(head) + Len(s) /\ Len(s) \in Nat
            OBVIOUS
        <3>2. Len(b) \in Nat
            BY <1>5
        <3> QED
            BY <2>1, <3>1, <3>2
    <2>3. /\ SubSeq(bytes, 1, 2) = head
          /\ SubSeq(bytes, 3, 2 + Len(s)) = s
          /\ SubSeq(bytes, 3 + Len(s), Len(bytes)) = b
        <3>1. bytes \in Seq(Octets) /\ Len(bytes) = 2 + Len(s) + Len(b)
            BY <1>5, <1>6, <2>2
        <3>2. ASSUME NEW i \in 1..Len(bytes)
              PROVE  bytes[i] = IF i <= 2 THEN head[i] ELSE IF i <= 2 + Len(s) THEN s[i - 2] ELSE b[i - (2 + Len(s))]
            <4>1. i <= Len(e) => bytes[i] = e[i]
                BY <1>5, <3>1, <2>2
            <4>2. i > Len(e) => bytes[i] = b[i - Len(e)]
                BY <1>5, <3>1, <2>2
            <4>3. i <= 2 => e[i] = head[i]
                BY <2>1, <2>2
            <4>4. i > 2 /\ i <= Len(e) => e[i] = s[i - 2]
                BY <2>1, <2>2
            <4> QED
                BY <2>2, <3>1, <4>1, <4>2, <4>3, <4>4
        <3>3. SubSeq(bytes, 1, 2) = head
            <4>1. /\ SubSeq(bytes, 1, 2) \in Seq(Octets) /\ Len(SubSeq(bytes, 1, 2)) = 2
                  /\ \A i \in 1..2 : SubSeq(bytes, 1, 2)[i] = bytes[i]
                BY <2>2, <3>1
            <4>2. \A i \in 1..2 : SubSeq(bytes, 1, 2)[i] = head[i]
                BY <2>2, <3>1, <3>2, <4>1
            <4> QED
                BY <2>1, <4>1, <4>2, SeqEqual
        <3>4. SubSeq(bytes, 3, 2 + Len(s)) = s
            <4> DEFINE m == SubSeq(bytes, 3, 2 + Len(s))
            <4>1. /\ m \in Seq(Octets) /\ Len(m) = Len(s)
                  /\ \A i \in 1..Len(s) : m[i] = bytes[2 + i]
                BY <2>2, <3>1
            <4> HIDE DEF m
            <4>2. ASSUME NEW i \in 1..Len(s) PROVE m[i] = s[i]
                <5>1. PICK j : j = 2 + i
                    OBVIOUS
                <5>2. j \in 1..Len(bytes) /\ j > 2 /\ j <= 2 + Len(s) /\ j - (2) = i
                    BY <2>2, <3>1, <5>1
                <5>3. m[i] = bytes[j]
                    BY <4>1, <5>1
                <5> QED
                    BY <2>2, <3>2, <5>2, <5>3
            <4>3. m = s
                BY <2>1, <4>1, <4>2, SeqEqual
            <4> QED
                BY <4>3 DEF m
        <3>5. SubSeq(bytes, 3 + Len(s), Len(bytes)) = b
            <4> DEFINE m == SubSeq(bytes, 3 + Len(s), Len(bytes))
            <4>1. /\ m \in Seq(Octets) /\ Len(m) = Len(b)
                  /\ \A i \in 1..Len(b) : m[i] = bytes[2 + Len(s) + i]
                BY <2>2, <3>1
            <4> HIDE DEF m
            <4>2. ASSUME NEW i \in 1..Len(b) PROVE m[i] = b[i]
                <5>1. PICK j : j = 2 + Len(s) + i
                    OBVIOUS
                <5>2. j \in 1..Len(bytes) /\ j > 2 + Len(s) /\ j > 2 /\ j - (2 + Len(s)) = i
                    BY <2>2, <3>1, <5>1
                <5>3. m[i] = bytes[j]
                    BY <4>1, <5>1
                <5> QED
                    BY <2>2, <3>2, <5>2, <5>3
            <4>3. m = b
                BY <1>5, <4>1, <4>2, SeqEqual
            <4> QED
                BY <4>3 DEF m
        <3> QED
            BY <3>3, <3>4, <3>5
    <2>4. FromLE(SubSeq(bytes, 1, 2)) = Len(s)
        BY <2>1, <2>3
    <2>5. Min({FromLE(SubSeq(bytes, 1, 2)), Len(bytes) - 2}) = Len(s)
        <3>1. PICK k, l : k = Len(s) /\ l = Len(bytes) - 2
            OBVIOUS
        <3>2. k \in Int /\ l \in Int /\ k <= l
            BY <1>6, <2>2, <3>1
        <3>3. Min({k, l}) \in {k, l} /\ Min({k, l}) <= k /\ Min({k, l}) <= l
            BY <3>2, MinOfTwo
        <3>4. Min({k, l}) = k
            BY <3>2, <3>3
        <3> QED
            BY <2>4, <3>1, <3>4
    <2>6. Len(bytes) >= 2
        BY <1>6, <2>2
    <2>7. bytes' = SubSeq(bytes, 3 + Len(s), Len(bytes)) /\ reads' = Append(reads, Given(SubSeq(bytes, 3, 2 + Len(s))))
        <3>1. ReadString
            BY <1>2, <1>7 DEF ReadTyped
        <3> QED
            <4>1. PICK k, z : k = Len(s) /\ z = Len(bytes)
                OBVIOUS
            <4>2. k \in Nat /\ z \in Nat /\ ~(z < 2) /\ ~(k < k)
                BY <1>5, <2>2, <2>6, <4>1
            <4>3. /\ bytes' = SubSeq(bytes, 3 + k, z)
                  /\ reads' = Append(reads, Given(SubSeq(bytes, 3, 2 + k)))
                BY <2>4, <2>5, <3>1, <4>1, <4>2 DEF ReadString
            <4> QED
                BY <4>1, <4>3
    <2>8. bytes' = behind[n + 1] /\ reads' = Append(reads, Given(s))
        BY <1>4, <2>3, <2>7
    <2> QED
        BY <1>1, <1>2, <1>3, <1>7, <2>1, <2>8, ReadGives
<1>8. CASE t.type = "int"
    <2>1. PICK w : w = t.width
        OBVIOUS
    <2>2. w \in Nat /\ Len(e) = w
        BY <1>3, <1>4, <1>8, <2>1, IntEncoded
    <2>3. Min({w, Len(bytes)}) = w
        <3>1. PICK l \in Int : l = Len(bytes) /\ w <= l
            BY <1>5, <1>6, <2>2
        <3>2. Min({w, l}) \in {w, l} /\ Min({w, l}) <= w
            <4>1. w \in Int /\ l \in Int
                BY <2>2
            <4> QED
                BY <4>1, MinOfTwo
        <3> QED
            BY <2>2, <3>1, <3>2
    <2>4. SubSeq(bytes, 1, w) = e /\ SubSeq(bytes, w + 1, Len(bytes)) = b
        <3>1. bytes \in Seq(Octets) /\ Len(bytes) = w + Len(b) /\ Len(b) \in Nat
            BY <1>5, <1>6, <2>2
        <3>2. /\ \A i \in 1..w : bytes[i] = e[i]
              /\ \A i \in 1..Len(b) : bytes[w + i] = b[i]
            BY <1>5, <2>2, <3>1
        <3> DEFINE x == SubSeq(bytes, 1, w)
                   y == SubSeq(bytes, w + 1, Len(bytes))
        <3>3. x \in Seq(Octets) /\ Len(x) = w /\ \A i \in 1..w : x[i] = bytes[i]
            BY <2>2, <3>1
        <3>4. y \in Seq(Octets) /\ Len(y) = Len(b) /\ \A i \in 1..Len(b) : y[i] = bytes[w + i]
            BY <2>2, <3>1
        <3> HIDE DEF x, y
        <3>5. x = e
            BY <1>5, <2>2, <3>2, <3>3, SeqEqual
        <3>6. y = b
            BY <1>5, <3>2, <3>4, SeqEqual
        <3> QED
            BY <3>5, <3>6 DEF x, y
    <2>5. PICK u : u = IF t.big THEN FromBE(e) ELSE FromLE(e)
        OBVIOUS
    <2>6. PICK v : v = IF t.signed THEN ToSigned(u, w) ELSE u
        OBVIOUS
    <2>7. v = t.value
        BY <1>3, <1>4, <1>8, <2>1, <2>5, <2>6, IntEncoded
    <2>8. ReadInt(t, w)
        <3>1. t.type # "pstr16"
            BY <1>8
        <3> QED
            BY <1>2, <2>1, <2>3, <3>1 DEF ReadTyped
    <2>9. bytes' = behind[n + 1] /\ reads' = Append(reads, Given(v))
        BY <1>4, <2>1, <2>4, <2>5, <2>6, <2>8 DEF ReadInt
    <2>10. t.type # "pstr16"
        BY <1>8
    <2> QED
        BY <1>1, <1>2, <1>3, <2>7, <2>9, <2>10, ReadGives
<1> QED
    BY <1>3, <1>7, <1>8, TypedAssumption

LEMMA TypedNextInv == TypedInv /\ [TypedNext]_typedVars => TypedInv'
<1> SUFFICES ASSUME TypedInv, [TypedNext]_typedVars PROVE TypedInv'
    OBVIOUS
<1>1. CASE UNCHANGED typedVars
    <2>1. UNCHANGED <<items, bytes, reads>>
        BY <1>1 DEF typedVars
    <2>2. PICK behind : Behind(behind) /\ bytes = behind[Len(reads)]
        BY DEF TypedInv
    <2>3. Behind(behind)' /\ bytes' = behind[Len(reads')]
        BY <2>1, <2>2 DEF Behind
    <2>4. TypedRoundTrip'
        BY <2>1 DEF TypedInv, TypedRoundTrip
    <2> QED
        BY <2>1, <2>3, <2>4 DEF TypedInv
<1>2. CASE TypedNext
    BY <1>2, WriteTypedInv, ReadTypedInv DEF TypedNext
<1> QED
    BY <1>1, <1>2

-----------------------------------------------------------------------------
(* All three *)

StreamsInv == ReaderInv /\ WriterInv /\ TypedInv

\* A step of one of the three leaves the invariants of the others true.
LEMMA StreamsInvStep ==
    StreamsInv /\ [StreamsNext]_<<readVars, writeVars, typedVars>> => StreamsInv'
<1> SUFFICES ASSUME StreamsInv, [StreamsNext]_<<readVars, writeVars, typedVars>>
             PROVE  StreamsInv'
    OBVIOUS
<1>1. [ReadNext]_readVars /\ [WriteNext]_writeVars /\ [TypedNext]_typedVars
    BY DEF StreamsNext
<1> QED
    BY <1>1, ReadNextInv, WriteNextInv, TypedNextInv DEF StreamsInv

\* Whatever calls of buf_read, buf_read_line, buf_write, buf_flush, io_copy,
\* io_write_* and io_read_* a program makes, in whatever order and sizes, no byte
\* is lost, given twice, out of place or changed.
THEOREM StreamsAreExact == StreamsSpec => []StreamsExact
<1>1. ReadInit /\ WriteInit /\ TypedInit => StreamsInv
    BY ReaderInitInv, WriterInitInv, TypedInitInv DEF StreamsInv
<1>2. StreamsInv => StreamsExact
    BY ReaderIsExact, WriterIsExact DEF StreamsInv, StreamsExact, TypedInv
<1> QED
    BY <1>1, <1>2, StreamsInvStep, PTL DEF StreamsSpec
=============================================================================
