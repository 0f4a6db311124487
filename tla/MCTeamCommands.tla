--------------------------- MODULE MCTeamCommands ---------------------------
(* TLC instances of TeamCommands. *)
EXTENDS TeamCommands, TLC

CONSTANTS a1, a2, o1, o2, p1, t1, t2, t3, w1, w2, e1, e2, v1, v2

TwoAgents == a1 :> o1 @@ a2 :> o2

OneBinding == {[project |-> p1, repository |-> "r", owner |-> o1]}

OneEvidence ==
    "g" :> [actor |-> a1, project |-> p1, repository |-> "r", facts |-> "f"]

Create(key, assignee) ==
    [op |-> "task.create", actor |-> a1, key |-> key, project |-> p1,
     assignee |-> assignee]

Move(key, task, target) ==
    [op |-> "task.transition", actor |-> a2, key |-> key, task |-> task,
     target |-> target]

Bind(key, task) ==
    [op |-> "workspace.register", actor |-> a2, key |-> key, task |-> task,
     repository |-> "r"]

Published(facts) ==
    [op |-> "event.create", actor |-> a1, key |-> 1, project |-> p1,
     assignee |-> a2, evidence |-> "g", facts |-> facts]

Route(key) ==
    [op |-> "code_change_impact.route", actor |-> a1, key |-> key,
     project |-> p1, assignee |-> a2, evidence |-> "g", facts |-> "f",
     event |-> e1]

NewPolicy(key, version) ==
    [op |-> "policy.create", actor |-> o1, key |-> key, version |-> version]

Select(key, version, expected) ==
    [op |-> "policy.select", actor |-> o1, key |-> key, version |-> version,
     expected |-> expected]

(* Retries of each are the same request; a key is also used again for     *)
(* another request, and two keys for the same one.                        *)
Asked ==
    {Create(1, a2), Create(1, a1), Create(2, a2),
     Move(1, t1, "working"), Move(2, t1, "completed"), Move(2, t1, "working"),
     Move(3, t2, "working"), Bind(1, t1), Bind(2, t1), Bind(2, t2),
     Published("f"), Published("other"), Route(1), Route(2),
     NewPolicy(1, v1), NewPolicy(2, v2), Select(1, v1, None),
     Select(2, v2, v1), Select(3, v2, None), Select(4, v1, v2)}
=============================================================================
