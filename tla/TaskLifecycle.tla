--------------------------- MODULE TaskLifecycle ---------------------------
(***************************************************************************)
(* The statuses of a Task and the matrix of its transitions, which every   *)
(* part of the program that moves a Task obeys.                            *)
(***************************************************************************)

TaskStatuses == {"submitted", "working", "input_required", "approval_required",
                 "rejected", "expired", "failed", "cancelled", "completed"}

AllowedTransitions ==
    [s \in TaskStatuses |->
        CASE s = "submitted" -> {"working", "rejected", "expired", "cancelled"}
          [] s = "working" -> {"input_required", "approval_required", "failed",
                               "cancelled", "completed"}
          [] s = "input_required" -> {"working", "cancelled"}
          [] s = "approval_required" -> {"working", "rejected", "expired",
                                         "cancelled"}
          [] OTHER -> {}]

=============================================================================
