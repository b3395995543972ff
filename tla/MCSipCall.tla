------------------------------ MODULE MCSipCall ------------------------------
(* Instances of SipCall for TLC: None is a model value. *)
EXTENDS SipCall
=============================================================================
