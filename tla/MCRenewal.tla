----------------------------- MODULE MCRenewal -----------------------------
(* Renewal with short and long intervals for TLC. *)
EXTENDS Renewal

MCGrants == {0, 3, 5, 9, 10, 12, 20}

=============================================================================
