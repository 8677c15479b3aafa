------------------------------- MODULE Sockets -------------------------------
(***************************************************************************)
(* The life of descriptors in barenet.h: threads connect, bind, listen,    *)
(* accept and close while every system call on the way may fail.  The      *)
(* kernel gives a number again once it is closed.                          *)
(***************************************************************************)
CONSTANTS
    Threads,
    Fds,       \* descriptor numbers the process may have
    NoFd       \* SOCK_INVALID_FD

ASSUME NoFdAssumption == NoFd \notin Fds

VARIABLES
    opened,    \* the descriptors open in the kernel
    infos,     \* the threads with an addrinfo list not freed
    stage,     \* each thread's call and how far it has come
    fd,        \* the local fd of the call
    held       \* the descriptors each thread was given and has not closed

sockVars == <<opened, infos, stage, fd, held>>

SockInit ==
    /\ opened = {}
    /\ infos = {}
    /\ stage = [t \in Threads |-> <<"idle">>]
    /\ fd = [t \in Threads |-> NoFd]
    /\ held = [t \in Threads |-> {}]

Closes(f) == opened' = opened \ {f}

At(t, call, where) == stage[t] = <<call, where>>
To(t, call, where) == stage' = [stage EXCEPT ![t] = <<call, where>>]

\* The call returns f, or SOCK_INVALID.
Give(t, f) ==
    /\ stage' = [stage EXCEPT ![t] = <<"idle">>]
    /\ fd' = [fd EXCEPT ![t] = NoFd]
    /\ held' = [held EXCEPT ![t] = @ \cup ({f} \ {NoFd})]

----------------------------------------------------------------------------
(* net_tcp_connect, net_tcp_listen, net_udp_bind, net_accept, net_udp_socket *)

Calls == {"connect", "listen", "bind", "accept", "udp"}

Call(t) ==
    /\ stage[t] = <<"idle">>
    /\ \E c \in Calls :
          To(t, c, CASE c \in {"connect", "listen", "bind"} -> "resolve"
                     [] c = "accept" -> "accept"
                     [] c = "udp" -> "socket")
    /\ UNCHANGED <<opened, infos, fd, held>>

\* net_resolve frees its list itself and is called for IPv4 and then for IPv6;
\* _bn_bind_str keeps the list until the socket is bound.
Resolve(t) ==
    \E c \in {"connect", "listen", "bind"} :
        /\ At(t, c, "resolve")
        /\ \/ /\ To(t, c, "socket")
              /\ infos' = IF c = "connect" THEN infos ELSE infos \cup {t}
              /\ UNCHANGED <<fd, held>>
           \/ Give(t, NoFd) /\ UNCHANGED infos
        /\ UNCHANGED opened

Socket(t) ==
    \E c \in {"connect", "listen", "bind", "udp"} :
        /\ At(t, c, "socket")
        /\ \/ \E f \in Fds \ opened :
                 /\ opened' = opened \cup {f}
                 /\ IF c = "udp"
                    THEN Give(t, f)
                    ELSE /\ fd' = [fd EXCEPT ![t] = f]
                         /\ To(t, c, IF c = "connect" THEN "connect" ELSE "bind")
                         /\ UNCHANGED held
                 /\ UNCHANGED infos
           \/ Give(t, NoFd) /\ infos' = infos \ {t} /\ UNCHANGED opened

Connect(t) ==
    /\ At(t, "connect", "connect")
    /\ \/ Give(t, fd[t]) /\ UNCHANGED opened
       \/ Give(t, NoFd) /\ Closes(fd[t])
    /\ UNCHANGED infos

\* The rest of _bn_bind_str: bind, and the list and the socket cleaned up.
Bind(t) ==
    \E c \in {"listen", "bind"} :
        /\ At(t, c, "bind")
        /\ infos' = infos \ {t}
        /\ \/ /\ IF c = "bind" THEN Give(t, fd[t])
                               ELSE To(t, c, "listen") /\ UNCHANGED <<fd, held>>
              /\ UNCHANGED opened
           \/ Give(t, NoFd) /\ Closes(fd[t])

Listen_KeepsSocket(t) ==
    /\ At(t, "listen", "listen")
    /\ Give(t, fd[t]) \/ Give(t, NoFd)
    /\ UNCHANGED <<opened, infos>>

Listen(t) ==
    /\ At(t, "listen", "listen")
    /\ \/ Give(t, fd[t]) /\ UNCHANGED opened
       \/ Give(t, NoFd) /\ Closes(fd[t])
    /\ UNCHANGED infos

\* After EINTR the loop stays here.
Accept(t) ==
    /\ At(t, "accept", "accept")
    /\ \/ \E f \in Fds \ opened : opened' = opened \cup {f} /\ Give(t, f)
       \/ Give(t, NoFd) /\ UNCHANGED opened
    /\ UNCHANGED infos

NetClose(t) ==
    /\ stage[t] = <<"idle">>
    /\ \E f \in held[t] :
          /\ Closes(f)
          /\ held' = [held EXCEPT ![t] = @ \ {f}]
    /\ UNCHANGED <<infos, stage, fd>>

SockNext ==
    \E t \in Threads :
        \/ Call(t) \/ Resolve(t) \/ Socket(t) \/ Connect(t) \/ Bind(t)
        \/ Listen(t) \/ Accept(t) \/ NetClose(t)

SockSpec == SockInit /\ [][SockNext]_sockVars

----------------------------------------------------------------------------
(* Properties *)

\* Whatever system call fails, a descriptor that is open is in the hand of one
\* thread: of its program, or of the call that will return or close it.  None is
\* lost, none is held by two, none is held after it was closed, and the lists of
\* getaddrinfo are freed by the end of the call.
SocketsSound ==
    /\ opened = (UNION {held[t] : t \in Threads})
                 \cup ({fd[t] : t \in Threads} \ {NoFd})
    /\ \A t \in Threads : fd[t] \notin held[t]
    /\ \A t, u \in Threads : t # u =>
          /\ held[t] \cap held[u] = {}
          /\ fd[t] = NoFd \/ fd[t] \notin held[u] \cup {fd[u]}
    /\ \A t \in infos : stage[t] # <<"idle">>
=============================================================================
