------------------------------ MODULE MCInbox ------------------------------
(* TLC instances of Inbox. *)
EXTENDS Inbox, TLC

CONSTANTS a1, a2, k1, k2, f1, h1, h2

OneRecipient == [i \in Items |-> a1]

(* Every handler in a process of its own, or all in one.                   *)
OwnProcess == [h \in Handlers |-> h]
SameProcess == [h \in Handlers |-> 1]

Symmetry == Permutations(ClaimKeys) \cup Permutations(FinishKeys)
                \cup Permutations(Handlers)
=============================================================================
