--------------------------- MODULE MCIdleMonitor ---------------------------
(* Instances of IdleMonitor for TLC. *)
EXTENDS IdleMonitor

=============================================================================
