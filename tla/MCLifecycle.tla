---------------------------- MODULE MCLifecycle ----------------------------
(* Lifecycle with named servers for TLC. *)
EXTENDS Lifecycle

=============================================================================
