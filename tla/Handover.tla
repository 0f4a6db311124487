------------------------------ MODULE Handover ------------------------------
(***************************************************************************)
(* What the life of Credentials promises: each is issued once, is live,    *)
(* and then either hands over to one new Credential or ends.  A Credential *)
(* that is no longer live never is again, and no second one takes over     *)
(* from it.                                                                *)
(***************************************************************************)
CONSTANTS Ids, None

VARIABLES
    live,   \* Credentials somebody can be authenticated with
    spent,  \* those that were live
    from    \* which one each took over from

vars == <<live, spent, from>>

Init == live = {} /\ spent = {} /\ from = [d \in Ids |-> None]

Fresh(d) == d \in Ids \ (live \cup spent)

Issue(d) ==
    /\ Fresh(d)
    /\ live' = live \cup {d}
    /\ UNCHANGED <<spent, from>>

HandOver(c, d) ==
    /\ c \in live
    /\ Fresh(d)
    /\ live' = (live \ {c}) \cup {d}
    /\ spent' = spent \cup {c}
    /\ from' = [from EXCEPT ![d] = c]

End(c) ==
    /\ c \in live
    /\ live' = live \ {c}
    /\ spent' = spent \cup {c}
    /\ UNCHANGED from

Next ==
    \/ \E d \in Ids : Issue(d)
    \/ \E c, d \in Ids : HandOver(c, d)
    \/ \E c \in Ids : End(c)

Spec == Init /\ [][Next]_vars
=============================================================================
