------------------------------- MODULE Renewal -------------------------------
(***************************************************************************)
(* One registration of module Lifecycle against the server's clock: does   *)
(* the refresh timer of schedule_registration get the next REGISTER there  *)
(* before the binding runs out?                                            *)
(*                                                                         *)
(* Time is counted in seconds.  An attempt to register, with the           *)
(* challenges and longer intervals it may meet on its way, is one message  *)
(* that the server answers once with a 2xx; how an attempt comes to its    *)
(* end is in module Lifecycle.  The clocks run alike, and the event loop   *)
(* serves a timer when it is due: what it takes longer counts as part of   *)
(* the trip.  The window stays open.                                       *)
(***************************************************************************)
EXTENDS Integers

CONSTANTS
  DelayBeforeRefresh,  \* DELAY_BEFORE_REFRESH
  Grants,              \* the intervals a server grants
  Trip                 \* bound: the longest time a message is under way

ASSUME RenewalAssumption ==
  /\ DelayBeforeRefresh \in Nat \ {0}
  /\ Grants \subseteq Nat
  /\ Trip \in Nat

VARIABLES
  lease,    \* the server: the time until the binding runs out
  msg,      \* the message under way
  trip,     \* for how long it has been under way
  granted,  \* the interval that the server granted last
  expires,  \* the client: regc->expires
  timer     \* the client: the time until the refresh timer fires

vars == <<lease, msg, trip, granted, expires, timer>>

Missing == -1    \* PJSIP_REGC_EXPIRATION_NOT_SPECIFIED
Off == -1        \* the timer does not run

Init ==
  /\ lease = 0 /\ msg = "REGISTER" /\ trip = 0 /\ granted = 0
  /\ expires = Missing /\ timer = Off

-----------------------------------------------------------------------------
(* Mutant: the refresh is due when the interval is over.                   *)
DelayTooLong(e) ==
  LET capped == IF expires # Missing /\ e > expires THEN expires ELSE e
  IN  IF capped < DelayBeforeRefresh THEN DelayBeforeRefresh ELSE capped

(* schedule_registration: some time before the interval e is over, not     *)
(* later than after the interval before, and never too soon.               *)
Delay(e) ==
  LET early == e - DelayBeforeRefresh
      capped == IF expires # Missing /\ early > expires THEN expires ELSE early
  IN  IF capped < DelayBeforeRefresh THEN DelayBeforeRefresh ELSE capped

(* The server accepts the REGISTER.                                        *)
Grant(e) ==
  /\ msg = "REGISTER"
  /\ msg' = "200" /\ trip' = 0 /\ lease' = e /\ granted' = e
  /\ UNCHANGED <<expires, timer>>

RxOk ==
  /\ msg = "200"
  /\ msg' = "none" /\ trip' = 0 /\ expires' = granted
  /\ timer' = IF granted > 0 THEN Delay(granted) ELSE Off
  /\ UNCHANGED <<lease, granted>>

(* The attempt fails - refused, lost, timed out - and is not made again.   *)
Fail ==
  /\ msg # "none"
  /\ msg' = "none" /\ trip' = 0 /\ expires' = Missing
  /\ UNCHANGED <<lease, granted, timer>>

Refresh ==
  /\ timer = 0
  /\ timer' = Off /\ msg' = "REGISTER" /\ trip' = 0
  /\ UNCHANGED <<lease, granted, expires>>

(* A second passes, if nothing is due.                                     *)
Tick ==
  /\ timer # 0
  /\ msg # "none" => trip < Trip
  /\ lease' = IF lease > 0 THEN lease - 1 ELSE 0
  /\ timer' = IF timer = Off THEN Off ELSE timer - 1
  /\ trip' = IF msg = "none" THEN trip ELSE trip + 1
  /\ UNCHANGED <<msg, granted, expires>>

Next == (\E e \in Grants : Grant(e)) \/ RxOk \/ Fail \/ Refresh \/ Tick

Spec == Init /\ [][Next]_vars

-----------------------------------------------------------------------------
(* Type and state invariant: what each variable may hold.                  *)
TypeOK ==
  /\ lease \in Nat /\ trip \in 0..Trip /\ granted \in Nat
  /\ msg \in {"none", "REGISTER", "200"}
  /\ expires \in Nat \cup {Missing} /\ timer \in Nat \cup {Off}

(* The client counts on its binding: it has been told of it, or is about   *)
(* to be, and has not been refused since.                                  *)
CountsOnBinding ==
  timer # Off \/ msg = "200" \/ (msg = "REGISTER" /\ expires # Missing)

(* A binding that the client counts on runs out only if it was granted for *)
(* hardly longer than the margin of schedule_registration, or if the trips *)
(* there and back eat the margin up.                                       *)
LapsesOnlyIfShort ==
  CountsOnBinding /\ lease = 0 =>
    granted <= DelayBeforeRefresh + 2 * Trip \/ DelayBeforeRefresh <= 2 * Trip

=============================================================================
