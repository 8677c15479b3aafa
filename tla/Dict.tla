-------------------------------- MODULE Dict --------------------------------
(***************************************************************************)
(* What a map of barestd.h promises its caller: a finite function from     *)
(* keys to values.  A call takes effect when it is made; "due" is the      *)
(* answer it owes until it returns, and "ret" the answer of the last call, *)
(* gone when the next is made.                                             *)
(***************************************************************************)

CONSTANTS Keys, Vals, Absent

VARIABLES dict, due, ret

dvars == <<dict, due, ret>>

Idle == due = "nothing"

DictInit ==
    /\ dict = [k \in Keys |-> Absent]
    /\ due = "nothing"
    /\ ret = Absent

Set(k, v) ==
    /\ Idle
    /\ dict' = [dict EXCEPT ![k] = v]
    /\ due' = "void"
    /\ ret' = Absent

Get(k) ==
    /\ Idle
    /\ due' = dict[k] /\ ret' = Absent
    /\ UNCHANGED dict

Del(k) ==
    /\ Idle
    /\ dict' = [dict EXCEPT ![k] = Absent]
    /\ due' = IF dict[k] = Absent THEN "false" ELSE "true"
    /\ ret' = Absent

Clear ==
    /\ Idle
    /\ dict' = [k \in Keys |-> Absent]
    /\ ret' = Absent
    /\ UNCHANGED due

Return ==
    /\ ~Idle
    /\ ret' = due
    /\ due' = "nothing"
    /\ UNCHANGED dict

DictNext ==
    \/ \E k \in Keys, v \in Vals : Set(k, v)
    \/ \E k \in Keys : Get(k) \/ Del(k)
    \/ Clear
    \/ Return

DictSpec == DictInit /\ [][DictNext]_dvars
=============================================================================
