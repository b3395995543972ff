---------------------------- MODULE MCTransaction ----------------------------
(* An instance of Transaction for TLC: one transaction of each kind. *)
EXTENDS Transaction

MCKinds == {"invite", "request", "served", "servedInvite"}
=============================================================================
