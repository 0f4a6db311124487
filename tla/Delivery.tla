------------------------------ MODULE Delivery ------------------------------
(***************************************************************************)
(* What an Inbox promises, with no clock, keys, tokens or handlers: an     *)
(* item is handed to its recipient at most MaxAttempts times; it is done   *)
(* once it is confirmed while it is out; it is buried only when it comes   *)
(* back, or is not heard of again, after its last attempt; and done and    *)
(* buried items stay as they are.                                          *)
(***************************************************************************)
EXTENDS Integers

CONSTANTS Items, MaxAttempts

VARIABLES
    phase,    \* phase[i] \in {"none", "waiting", "out", "done", "buried"}
    attempts  \* attempts[i]: how often i was handed out

dvars == <<phase, attempts>>

DInit ==
    /\ phase = [i \in Items |-> "none"]
    /\ attempts = [i \in Items |-> 0]

Offer(i) ==
    /\ phase[i] = "none"
    /\ phase' = [phase EXCEPT ![i] = "waiting"]
    /\ UNCHANGED attempts

(* Given up: out for the last time and never heard of again. *)
LostItems == {i \in Items : phase[i] = "out" /\ attempts[i] = MaxAttempts}

(* Looking for work buries lost items and hands out at most one other.     *)
Bury(L) ==
    /\ phase' = [i \in Items |-> IF i \in L THEN "buried" ELSE phase[i]]
    /\ UNCHANGED attempts

HandOut(i, L) ==
    /\ phase[i] \in {"waiting", "out"}
    /\ attempts[i] < MaxAttempts
    /\ phase' = [j \in Items |-> IF j \in L THEN "buried"
                                 ELSE IF j = i THEN "out" ELSE phase[j]]
    /\ attempts' = [attempts EXCEPT ![i] = attempts[i] + 1]

Confirm(i) ==
    /\ phase[i] = "out"
    /\ phase' = [phase EXCEPT ![i] = "done"]
    /\ UNCHANGED attempts

GiveBack(i) ==
    /\ phase[i] = "out"
    /\ phase' = [phase EXCEPT ![i] = IF attempts[i] < MaxAttempts
                                     THEN "waiting" ELSE "buried"]
    /\ UNCHANGED attempts

DNext ==
    \/ \E i \in Items : Offer(i) \/ Confirm(i) \/ GiveBack(i)
    \/ \E L \in SUBSET LostItems :
        \/ Bury(L)
        \/ \E i \in Items : HandOut(i, L)

DSpec == DInit /\ [][DNext]_dvars

=============================================================================
