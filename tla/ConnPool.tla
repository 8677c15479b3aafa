------------------------------ MODULE ConnPool ------------------------------
(***************************************************************************)
(* The connection pool of barenet.h.  The pool knows a connection by its   *)
(* descriptor number, and the kernel gives a closed number out again: a    *)
(* descriptor is a number of Fds, and "open" says what each number stands  *)
(* for now, so that a stale number can be told from a live one.  A         *)
(* borrower puts what it got (SOCK_INVALID included) once and does not use *)
(* or close it afterwards; conn_pool_close_all comes at any time, and may  *)
(* close a connection under its borrower, who then puts a stale number.    *)
(***************************************************************************)
EXTENDS Integers, FiniteSets

CONSTANTS
    Fds,         \* descriptor numbers, a prefix of Nat
    Borrowers,
    ConnCap      \* p->cap

ASSUME ConnPoolAssumption ==
    /\ ConnCap \in Nat
    /\ IsFiniteSet(Fds)
    /\ Fds = 0 .. Cardinality(Fds) - 1

VARIABLES
    socks,      \* p->socks
    inUse,      \* p->in_use
    open,       \* what each descriptor number is: "free", "pooled" or "other"
    loan,       \* the borrowers' return values of conn_pool_get, or NoLoan
    stale,      \* the borrowers whose connection the pool has closed (history)
    misput      \* the numbers lent out that a stale put gave back (history)

poolState == <<socks, inUse, open>>
connVars == <<poolState, loan, stale, misput>>

Invalid == -1
NoLoan == -2
Places == 0 .. ConnCap - 1
Least(S) == CHOOSE x \in S : \A y \in S : x <= y
FreeFds == {f \in Fds : open[f] = "free"}

ConnInit ==
    /\ socks = [i \in Places |-> Invalid]
    /\ inUse = [i \in Places |-> FALSE]
    /\ open = [f \in Fds |-> "free"]
    /\ loan = [b \in Borrowers |-> NoLoan]
    /\ stale = {} /\ misput = {}

Idle(i) == ~inUse[i]

\* The first place conn_pool_get can lend: idle and connected, or idle and,
\* the server and the kernel permitting, connected now.  "refused" are the
\* places whose net_tcp_connect fails during the call.
Lendable(refused) ==
    {i \in Places : Idle(i) /\ (socks[i] # Invalid \/ (i \notin refused /\ FreeFds # {}))}

Get(b) ==
    /\ loan[b] = NoLoan
    /\ \E refused \in SUBSET Places :
         IF Lendable(refused) = {}
           THEN loan' = [loan EXCEPT ![b] = Invalid] /\ UNCHANGED poolState
           ELSE LET i  == Least(Lendable(refused))
                    fd == IF socks[i] = Invalid THEN Least(FreeFds) ELSE socks[i]
                IN /\ socks' = [socks EXCEPT ![i] = fd]
                   /\ inUse' = [inUse EXCEPT ![i] = TRUE]
                   /\ open' = [open EXCEPT ![fd] = "pooled"]
                   /\ loan' = [loan EXCEPT ![b] = fd]
    /\ UNCHANGED <<stale, misput>>

\* conn_pool_put frees the first place that holds the number.
Holding(fd) == {i \in Places : socks[i] = fd}

Put(b) ==
    /\ loan[b] # NoLoan
    /\ inUse' = IF Holding(loan[b]) = {} THEN inUse
                ELSE [inUse EXCEPT ![Least(Holding(loan[b]))] = FALSE]
    /\ loan' = [loan EXCEPT ![b] = NoLoan]
    /\ stale' = stale \ {b}
    /\ misput' = IF b \in stale /\ \E i \in Holding(loan[b]) : inUse[i]
                 THEN misput \cup {loan[b]} ELSE misput
    /\ UNCHANGED <<socks, open>>

Forgotten_Keeps(i) == socks[i]
Forgotten(i) == Invalid

CloseAll ==
    /\ open' = [f \in Fds |-> IF Holding(f) # {} THEN "free" ELSE open[f]]
    /\ socks' = [i \in Places |-> Forgotten(i)]
    /\ inUse' = [i \in Places |-> FALSE]
    /\ stale' = {b \in Borrowers : loan[b] \in Fds}
    /\ misput' = {}
    /\ UNCHANGED loan

\* The rest of the program opens and closes descriptors of its own.
OtherOpens ==
    /\ FreeFds # {}
    /\ open' = [open EXCEPT ![Least(FreeFds)] = "other"]
    /\ UNCHANGED <<socks, inUse, loan, stale, misput>>

OtherCloses(f) ==
    /\ open[f] = "other"
    /\ open' = [open EXCEPT ![f] = "free"]
    /\ UNCHANGED <<socks, inUse, loan, stale, misput>>

ConnNext ==
    \/ \E b \in Borrowers : Get(b) \/ Put(b)
    \/ CloseAll
    \/ OtherOpens
    \/ \E f \in Fds : OtherCloses(f)

ConnSpec == ConnInit /\ [][ConnNext]_connVars

-----------------------------------------------------------------------------

Live(b) == b \notin stale /\ loan[b] \in Fds

(* The numbers the pool keeps are its own open connections, each in one    *)
(* place and none left behind: the numbers the kernel gives out again      *)
(* never make it lend or close somebody else's descriptor.                 *)
KeepsItsOwn ==
    /\ \A i, j \in Places : socks[i] = socks[j] /\ socks[i] # Invalid => i = j
    /\ \A i \in Places : socks[i] # Invalid => open[socks[i]] = "pooled"
    /\ \A f \in Fds : open[f] = "pooled" => \E i \in Places : socks[i] = f

(* A connection is lent to one borrower at a time and stays in use, unless *)
(* a borrower of an earlier one, which the pool closed under him, has put  *)
(* its number back meanwhile; even then it stays open.                     *)
StaysInUse(b) ==
    \E i \in Places : socks[i] = loan[b] /\ (loan[b] \notin misput => inUse[i])
IsAlone(b) ==
    \A c \in Borrowers : Live(c) /\ loan[c] = loan[b] /\ loan[b] \notin misput => c = b
ExclusiveLoan == \A b \in Borrowers : Live(b) => StaysInUse(b) /\ IsAlone(b)

(* No place stays in use once its borrower has put the connection back or  *)
(* the pool has closed it: a pool nobody borrows from lends all its places *)
(* again, whoever put what.                                                *)
NoPlaceLost ==
    \A i \in Places : inUse[i] => \E b \in Borrowers : Live(b) /\ loan[b] = socks[i]

(* The places of the pool and the loans of its borrowers are one-to-one,   *)
(* whatever connect fails, whenever the pool is closed and whichever       *)
(* descriptor numbers come back, but for the one thing a stale put can do: *)
(* free the place that has been lent under its number since.               *)
LoansExact == KeepsItsOwn /\ ExclusiveLoan /\ NoPlaceLost
=============================================================================
