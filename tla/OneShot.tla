------------------------------ MODULE OneShot ------------------------------
(***************************************************************************)
(* What is promised of an action that must not happen twice, a commit that *)
(* was approved or a Task that is handed to an external agent, with no     *)
(* clocks, hosts, evidence or messages: it is authorized once, performed   *)
(* at most once and only after it was authorized, and confirmed only after *)
(* it was performed.  The server may lose track of it meanwhile; then it   *)
(* can still be confirmed, and what is confirmed stays so.                 *)
(***************************************************************************)

CONSTANT Actions

VARIABLES
    phase,     \* phase[a] \in {"none", "authorized", "unknown", "done"}
    performed  \* performed[a]: the action happened

svars == <<phase, performed>>

SInit ==
    /\ phase = [a \in Actions |-> "none"]
    /\ performed = [a \in Actions |-> FALSE]

Authorize(a) ==
    /\ phase[a] = "none"
    /\ phase' = [phase EXCEPT ![a] = "authorized"]
    /\ UNCHANGED performed

Perform(a) ==
    /\ phase[a] \in {"authorized", "unknown"}
    /\ ~performed[a]
    /\ performed' = [performed EXCEPT ![a] = TRUE]
    /\ UNCHANGED phase

LoseTrack(a) ==
    /\ phase[a] = "authorized"
    /\ phase' = [phase EXCEPT ![a] = "unknown"]
    /\ UNCHANGED performed

Confirm(a) ==
    /\ phase[a] \in {"authorized", "unknown"}
    /\ performed[a]
    /\ phase' = [phase EXCEPT ![a] = "done"]
    /\ UNCHANGED performed

SNext ==
    \E a \in Actions :
        Authorize(a) \/ Perform(a) \/ LoseTrack(a) \/ Confirm(a)

SSpec == SInit /\ [][SNext]_svars

=============================================================================
