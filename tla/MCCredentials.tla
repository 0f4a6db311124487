--------------------------- MODULE MCCredentials ----------------------------
(* TLC instances of Credentials. *)
EXTENDS Credentials, TLC

CONSTANTS i1, i2, i3, c1, c2

(* An Owner who manages, an Agent, and an Agent that asks for too much     *)
Asked ==
    {[subject |-> "owner", scopes |-> {"session:read", "credentials:manage"}],
     [subject |-> "agent", scopes |-> {"session:read"}],
     [subject |-> "agent", scopes |-> {"credentials:manage"}]}

Symmetry == Permutations(Ids) \cup Permutations(Calls)
=============================================================================
