----------------------------- MODULE MC_Logger -----------------------------
(* A server, with the thread of main and two more, or a batch program. *)
EXTENDS Logger

=============================================================================
