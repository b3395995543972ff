--------------------------- MODULE Renewal_proofs ---------------------------
(***************************************************************************)
(* The refresh timer against the server's clock, for every interval, every *)
(* margin and every bound on the trips.  The invariant says how much of    *)
(* the lease is left in each part of the cycle: at least Slack, less the   *)
(* trips made so far.                                                      *)
(***************************************************************************)
EXTENDS Renewal, TLAPS

(* What is left of the interval when the timer has fired, had the answer   *)
(* taken no time.                                                          *)
Slack ==
  IF granted - DelayBeforeRefresh < DelayBeforeRefresh
  THEN granted - DelayBeforeRefresh ELSE DelayBeforeRefresh

LeaseInv ==
  /\ msg # "none" => timer = Off
  /\ msg = "200" => lease >= granted - trip
  /\ timer # Off => lease - timer >= Slack - Trip
  /\ msg = "REGISTER" /\ expires # Missing => lease >= Slack - Trip - trip

IInv == TypeOK /\ LeaseInv

(* The timer never waits longer than the interval less the margin, unless  *)
(* for the margin itself.                                                  *)
LEMMA DelayFacts ==
  ASSUME TypeOK, NEW e \in Nat
  PROVE  /\ Delay(e) \in Nat /\ Delay(e) # 0
         /\ \/ Delay(e) = DelayBeforeRefresh
            \/ Delay(e) <= e - DelayBeforeRefresh
<1>1. DelayBeforeRefresh \in Nat \ {0}  BY RenewalAssumption
<1>2. expires \in Int  BY DEF TypeOK, Missing
<1>3. QED  BY <1>1, <1>2 DEF Delay

LEMMA Arithmetic ==
  /\ \A g \in Nat : g >= g - 0
  /\ \A l, m, t \in Nat : \A s \in Int : m >= l - 1 /\ l - t >= s => m - (t - 1) >= s
OBVIOUS

LEMMA InitIInv == Init => IInv
BY RenewalAssumption DEF Init, IInv, TypeOK, LeaseInv, Missing, Off

LEMMA NextIInv == IInv /\ [Next]_vars => IInv'
<1> SUFFICES ASSUME IInv, [Next]_vars PROVE IInv'
  OBVIOUS
<1>0. /\ TypeOK /\ LeaseInv
      /\ DelayBeforeRefresh \in Nat \ {0} /\ Trip \in Nat /\ Grants \subseteq Nat
  BY RenewalAssumption DEF IInv
<1>1. ASSUME NEW e \in Grants, Grant(e)  PROVE IInv'
  <2>1. TypeOK'
    <3>1. e \in Nat /\ 0 \in 0..Trip  BY <1>0
    <3>2. QED  BY <1>0, <1>1, <3>1 DEF Grant, TypeOK
  <2>2. timer' = Off /\ msg' = "200" /\ lease' = granted' /\ trip' = 0
        /\ granted' \in Nat
    BY <1>0, <1>1 DEF Grant, LeaseInv
  <2>3. LeaseInv'
    <3>1. lease' >= granted' - trip'  BY <2>2, Arithmetic
    <3>2. timer' = Off /\ msg' # "REGISTER"  BY <2>2
    <3>3. QED  BY <3>1, <3>2 DEF LeaseInv
  <2>4. QED  BY <2>1, <2>3 DEF IInv
<1>2. CASE RxOk
  <2>1. granted \in Nat /\ Delay(granted) \in Nat /\ trip \in 0..Trip /\ lease \in Nat
    BY <1>0, DelayFacts DEF TypeOK
  <2>2. TypeOK'  BY <1>0, <1>2, <2>1 DEF RxOk, TypeOK
  <2>3. CASE granted > 0
    <3>1. lease >= granted - trip /\ timer' = Delay(granted)
      BY <1>0, <1>2, <2>3 DEF RxOk, LeaseInv
    <3>2. lease - Delay(granted) >= Slack - Trip
      <4>1. CASE Delay(granted) = DelayBeforeRefresh
        BY <1>0, <2>1, <3>1, <4>1 DEF Slack
      <4>2. CASE Delay(granted) <= granted - DelayBeforeRefresh
        BY <1>0, <2>1, <3>1, <4>2 DEF Slack
      <4>3. QED  BY <1>0, <2>1, <4>1, <4>2, DelayFacts
    <3>3. Slack' = Slack /\ lease' = lease /\ msg' = "none"
      BY <1>2 DEF RxOk, Slack
    <3>4. QED  BY <2>2, <3>1, <3>2, <3>3 DEF IInv, LeaseInv
  <2>4. CASE ~(granted > 0)
    <3>1. timer' = Off /\ msg' = "none"  BY <1>2, <2>4 DEF RxOk
    <3>2. QED  BY <2>2, <3>1 DEF IInv, LeaseInv
  <2>5. QED  BY <2>3, <2>4
<1>3. CASE Fail
  <2>1. TypeOK'  BY <1>0, <1>3 DEF Fail, TypeOK
  <2>2. timer' = Off /\ msg' = "none"  BY <1>0, <1>3 DEF Fail, LeaseInv
  <2>3. QED  BY <2>1, <2>2 DEF IInv, LeaseInv
<1>4. CASE Refresh
  <2>1. TypeOK'  BY <1>0, <1>4 DEF Refresh, TypeOK
  <2>2. timer = 0 /\ timer # Off  BY <1>4 DEF Refresh, Off
  <2>3. lease \in Nat /\ lease - 0 >= Slack - Trip
    BY <1>0, <2>2 DEF TypeOK, LeaseInv
  <2>4. /\ timer' = Off /\ msg' = "REGISTER" /\ trip' = 0 /\ lease' = lease
        /\ Slack' = Slack
    BY <1>4 DEF Refresh, Slack
  <2>5. Slack \in Int  BY <1>0 DEF Slack, TypeOK
  <2>6. lease' >= Slack' - Trip - trip'  BY <1>0, <2>3, <2>4, <2>5
  <2>7. QED  BY <2>1, <2>4, <2>6 DEF IInv, LeaseInv
<1>5. CASE Tick
  <2>1. TypeOK'
    BY <1>0, <1>5 DEF Tick, TypeOK, Off
  <2>2. Slack' = Slack /\ Slack \in Int /\ msg' = msg /\ granted' = granted
        /\ expires' = expires
    BY <1>0, <1>5 DEF Tick, Slack, TypeOK
  <2>3. lease \in Nat /\ trip \in Nat /\ granted \in Nat
    BY <1>0 DEF TypeOK
  <2>4. lease' \in Nat /\ lease' >= lease - 1
    BY <1>5, <2>3 DEF Tick
  <2>5. timer' = Off <=> timer = Off
    BY <1>0, <1>5 DEF Tick, TypeOK, Off
  <2>6. msg # "none" => trip' = trip + 1  BY <1>5 DEF Tick
  <2>7. msg' # "none" => timer' = Off
    BY <1>0, <2>2, <2>5 DEF LeaseInv
  <2>8. msg' = "200" => lease' >= granted' - trip'
    BY <1>0, <2>2, <2>3, <2>4, <2>6 DEF LeaseInv
  <2>9. timer' # Off => lease' - timer' >= Slack' - Trip
    <3>1. SUFFICES ASSUME timer # Off  PROVE lease' - timer' >= Slack - Trip
      BY <2>2, <2>5
    <3>2. timer' = timer - 1 /\ timer \in Nat  BY <1>0, <1>5, <3>1 DEF Tick, TypeOK
    <3>3. lease - timer >= Slack - Trip  BY <1>0, <3>1 DEF LeaseInv
    <3>4. Slack - Trip \in Int  BY <1>0, <2>2
    <3>5. QED  BY <2>3, <2>4, <3>2, <3>3, <3>4, Arithmetic
  <2>10. msg' = "REGISTER" /\ expires' # Missing => lease' >= Slack' - Trip - trip'
    BY <1>0, <2>2, <2>3, <2>4, <2>6 DEF LeaseInv
  <2>11. QED  BY <2>1, <2>7, <2>8, <2>9, <2>10 DEF IInv, LeaseInv
<1>6. CASE UNCHANGED vars
  BY <1>0, <1>6 DEF vars, IInv, TypeOK, LeaseInv, Slack
<1>7. QED  BY <1>1, <1>2, <1>3, <1>4, <1>5, <1>6 DEF Next

LEMMA Invariance == Spec => []IInv
BY InitIInv, NextIInv, PTL DEF Spec

(* Whatever is granted and however long the messages take: a binding that  *)
(* the client counts on runs out only if the interval was no longer than   *)
(* the margin and two trips, or the margin no longer than two trips.       *)
THEOREM LapsesOnlyWhenShort == Spec => []LapsesOnlyIfShort
<1>1. IInv => LapsesOnlyIfShort
  <2>1. SUFFICES ASSUME IInv, CountsOnBinding, lease = 0
                 PROVE  granted - DelayBeforeRefresh <= 2 * Trip
                        \/ DelayBeforeRefresh <= 2 * Trip
    BY RenewalAssumption DEF LapsesOnlyIfShort, IInv, TypeOK
  <2>2. /\ DelayBeforeRefresh \in Nat /\ Trip \in Nat /\ granted \in Nat
        /\ trip \in Nat /\ trip <= Trip
    BY <2>1, RenewalAssumption DEF IInv, TypeOK
  <2>3. Slack <= 2 * Trip
    <3>1. Slack \in Int /\ Slack <= granted  BY <2>2 DEF Slack
    <3>2. CASE timer # Off
      <4>1. timer \in Nat /\ 0 - timer >= Slack - Trip
        BY <2>1, <3>2 DEF IInv, TypeOK, LeaseInv
      <4>2. QED  BY <2>2, <3>1, <4>1
    <3>3. CASE msg = "200"
      <4>1. 0 >= granted - trip  BY <2>1, <3>3 DEF IInv, LeaseInv
      <4>2. QED  BY <2>2, <3>1, <4>1
    <3>4. CASE msg = "REGISTER" /\ expires # Missing
      <4>1. 0 >= Slack - Trip - trip  BY <2>1, <3>4 DEF IInv, LeaseInv
      <4>2. QED  BY <2>2, <3>1, <4>1
    <3>5. QED  BY <2>1, <3>2, <3>3, <3>4 DEF CountsOnBinding
  <2>4. QED  BY <2>2, <2>3 DEF Slack
<1>2. QED  BY <1>1, Invariance, PTL

=============================================================================
