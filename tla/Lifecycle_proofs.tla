-------------------------- MODULE Lifecycle_proofs --------------------------
(***************************************************************************)
(* Proofs about registration and shutdown, for every number of servers,    *)
(* clicks, retries and intervals.  One inductive invariant carries them:   *)
(* the threads' places in the shutdown, and for each registration where    *)
(* its requests can come from.  From it follow, too, the steps towards the *)
(* end that the liveness properties add fairness to.                       *)
(***************************************************************************)
EXTENDS Lifecycle, TLAPS

Open == {"run", "unregister"}

(* How far the threads are when the shutdown has come to gui.              *)
ThreadInv ==
  /\ quit <=> gui # "run"
  /\ gui \in {"endpoint", "shutdown"} => keepalive = "ended"
  /\ keepalive = "ended" => quit
  /\ ~quit => lateSends = 0
  /\ lateSends > 0 => lateSends = 1 /\ keepalive \in {"test", "ended"}

(* A registration that does anything was made for a server.                *)
Active(r) == Pending(r) \/ regc[r].armed \/ net[r] \in Request
ServerInv == \A r \in Regc : Active(r) => regc[r].srv \in Servers

(* The registration of unregisterClient exists from Unregister on, for the *)
(* server in the form, and only ever unregisters.                          *)
LastInv ==
  /\ regc[Last].op # "registering" /\ ~regc[Last].auto
  /\ UnregisterOnly
  /\ gui \in Open => net[Last] = "none" /\ ~Pending(Last)
  /\ gui \notin Open /\ Active(Last) => regc[Last].srv = param

(* Nothing under way can undo an unREGISTER that did not race.             *)
FarewellInv ==
  /\ farewell # "none" => gui \notin Open
  /\ gui \notin Open /\ farewell # "raced" =>
       \A r \in Regc : net[r] = "REGISTER" => regc[r].srv # param
  /\ GoneForGood

IInv == TypeOK /\ ThreadInv /\ NeverBusy /\ ServerInv /\ LastInv /\ FarewellInv

LEMMA LastFacts == Last \in Regc /\ \A r \in Click : r \in Regc /\ r # Last
<1>1. MaxClicks \in Nat  BY BoundAssumption
<1>2. QED  BY <1>1 DEF Last, Regc, Click

LEMMA NewRegistration ==
  NoRegc \in Registration /\ \A t \in Servers : [NoRegc EXCEPT !.srv = t] \in Registration
<1>1. 0 \in 0..MaxStale /\ Asked \in Interval /\ Missing \in Interval
  BY BoundAssumption DEF Interval, Missing
<1>2. NoRegc \in Registration  BY <1>1 DEF NoRegc, Registration, Op
<1>3. QED  BY <1>2 DEF Registration

LEMMA IdleFacts ==
  ASSUME NEW c \in Registration
  PROVE  /\ Idle(c) \in Registration
         /\ Idle(c).srv = c.srv /\ Idle(c).op = "idle"
         /\ ~Idle(c).pending /\ ~Idle(c).armed /\ ~Idle(c).auto
<1>1. NoRegc \in Registration  BY NewRegistration
<1>2. c.srv \in Servers \cup {NoUri}  BY DEF Registration
<1>3. Idle(c) \in Registration  BY <1>1, <1>2 DEF Registration, Idle
<1>4. QED  BY <1>3 DEF Idle, NoRegc

LEMMA ArmFacts ==
  ASSUME NEW c \in Registration, NEW g \in 0..MaxRaise
  PROVE  /\ Arm(c, g) \in Registration
         /\ Arm(c, g).srv = c.srv /\ Arm(c, g).op = "idle" /\ ~Arm(c, g).pending
<1>1. 0 \in 0..MaxStale /\ g \in Interval  BY BoundAssumption DEF Interval
<1>2. Arm(c, g) \in Registration  BY <1>1 DEF Registration, Arm, Op
<1>3. QED  BY <1>2 DEF Registration, Arm

LEMMA UnregisteringFacts ==
  ASSUME NEW c \in Registration
  PROVE  /\ Unregistering(c) \in Registration
         /\ Unregistering(c).srv = c.srv /\ Unregistering(c).op = "unregistering"
         /\ ~Unregistering(c).armed /\ ~Unregistering(c).auto
         /\ Unregistering(c).expires = Asked /\ Unregistering(c).grant = Missing
<1>1. Idle(c) \in Registration /\ Idle(c).expires = Asked /\ Idle(c).grant = Missing
  BY IdleFacts DEF Idle, NoRegc
<1>2. Unregistering(c) \in Registration
  BY <1>1 DEF Registration, Unregistering, Op
<1>3. QED  BY <1>1, <1>2, IdleFacts DEF Registration, Unregistering

(* A request is made without a running timer; the interval stays.          *)
LEMMA RegisteringFacts ==
  ASSUME NEW c \in Registration, NEW a \in BOOLEAN
  PROVE  /\ Registering(c, a) \in Registration
         /\ Registering(c, a).srv = c.srv /\ ~Registering(c, a).armed
         /\ Registering(c, a).expires = (IF c.expires = 0 THEN Asked ELSE c.expires)
         /\ Registering(c, a).grant \in {c.grant, Missing}
<1>1. CASE c.expires = 0
  BY <1>1, UnregisteringFacts DEF Registering
<1>2. CASE c.expires # 0
  <2>1. 0 \in 0..MaxStale  BY BoundAssumption
  <2>2. Registering(c, a) = [c EXCEPT !.op = "registering", !.auth = 0, !.auto = a,
                                      !.armed = FALSE]
    BY <1>2 DEF Registering
  <2> DEFINE d == [c EXCEPT !.op = "registering", !.auth = 0, !.auto = a,
                            !.armed = FALSE]
  <2>3. d \in Registration  BY <2>1 DEF Registration, Op
  <2>4. d.srv = c.srv /\ ~d.armed /\ d.expires = c.expires /\ d.grant = c.grant
    BY DEF Registration
  <2> HIDE DEF d
  <2>5. QED  BY <1>2, <2>2, <2>3, <2>4 DEF d
<1>3. QED  BY <1>1, <1>2

LEMMA RecordTypes ==
  ASSUME NEW c \in Registration
  PROVE  /\ \A n \in 0..MaxStale : [c EXCEPT !.auth = n] \in Registration
         /\ \A m \in 0..MaxRaise : SetExpires(c, m) \in Registration
<1>1. \A m \in 0..MaxRaise : m \in Interval /\ Missing \in Interval  BY DEF Interval
<1>2. QED  BY <1>1 DEF Registration, SetExpires

(* What pjsip_regc_send leaves behind.                                     *)
LEMMA SendFacts ==
  ASSUME TypeOK, NEW r \in Regc, NEW c \in Registration, Send(r, c)
  PROVE  /\ regc' \in [Regc -> Registration]
         /\ net' \in [Regc -> {"none"} \cup Request \cup Answer]
         /\ farewell' \in {farewell, "raced"}
         /\ \A q \in Regc : q # r => regc'[q] = regc[q] /\ net'[q] = net[q]
         /\ regc'[r].srv = c.srv
         /\ (regc'[r].armed => c.armed) /\ (regc'[r].auto => c.auto)
         /\ regc'[r].op \in {c.op, "idle"}
         /\ net'[r] \in {"none"} \cup Request
         /\ net'[r] = "REGISTER" => c.op = "registering"
<1>1. [c EXCEPT !.pending = TRUE] \in Registration
  BY DEF Registration
<1>2. /\ regc \in [Regc -> Registration]
      /\ net \in [Regc -> {"none"} \cup Request \cup Answer]
  BY DEF TypeOK
<1>3. farewell' \in {farewell, "raced"}
  BY DEF Send
<1>4. CASE /\ regc' = [regc EXCEPT ![r] = [c EXCEPT !.pending = TRUE]]
           /\ net' = [net EXCEPT ![r] = IF c.op = "registering" THEN "REGISTER"
                                                                ELSE "unREGISTER"]
  BY <1>1, <1>2, <1>3, <1>4 DEF Registration, Request
<1>5. CASE /\ regc' = [regc EXCEPT ![r] = Idle(c)]
           /\ net' = [net EXCEPT ![r] = "none"]
  BY <1>2, <1>3, <1>5, IdleFacts DEF Request
<1>6. QED  BY <1>4, <1>5 DEF Send

LEMMA FinishFacts ==
  ASSUME TypeOK, NEW r \in Regc, NEW c \in Registration, Finish(r, c)
  PROVE  /\ regc' = [regc EXCEPT ![r] = c] /\ regc' \in [Regc -> Registration]
         /\ net' = [net EXCEPT ![r] = "none"]
         /\ net' \in [Regc -> {"none"} \cup Request \cup Answer]
         /\ farewell' = farewell
BY DEF Finish, TypeOK

(* Every handler of the event loop either ends the transaction or sends a  *)
(* request, which it does without a running timer; for the same server;    *)
(* and as a registration only if it was one.                               *)
LEMMA HandlerCases ==
  ASSUME IInv, NEW r \in Regc, Handle(r)
  PROVE  \E c \in Registration :
           /\ c.srv = regc[r].srv
           /\ Active(r)
           /\ r = Last => c.op # "registering" /\ ~c.armed /\ ~c.auto
           /\ \/ Send(r, c) /\ ~c.armed
              \/ Finish(r, c) /\ ~c.pending
<1> DEFINE Goal(c) == /\ c.srv = regc[r].srv
                      /\ Active(r)
                      /\ r = Last => c.op # "registering" /\ ~c.armed /\ ~c.auto
                      /\ \/ Send(r, c) /\ ~c.armed
                         \/ Finish(r, c) /\ ~c.pending
<1>0. regc[r] \in Registration  BY DEF IInv, TypeOK
<1>1. r = Last => regc[r].op # "registering" /\ ~regc[r].armed /\ ~regc[r].auto
  BY DEF IInv, LastInv, UnregisterOnly
<1>2. Pending(r) => Active(r) /\ ~regc[r].armed
  BY DEF IInv, NeverBusy, Active, Pending
<1>3. /\ Idle(regc[r]) \in Registration
      /\ Idle(regc[r]).srv = regc[r].srv /\ Idle(regc[r]).op = "idle"
      /\ ~Idle(regc[r]).pending /\ ~Idle(regc[r]).armed /\ ~Idle(regc[r]).auto
  BY <1>0, IdleFacts
<1>5. CASE Pending(r) /\ Finish(r, Idle(regc[r]))
  <2>1. Goal(Idle(regc[r]))  BY <1>2, <1>3, <1>5
  <2>2. QED  BY <1>3, <2>1
<1>6. CASE RxOk(r)
  <2>0. PICK granted \in 0..MaxRaise :
          /\ Pending(r)
          /\ IF regc[r].op = "registering" /\ granted > 0 /\ regc[r].auto
             THEN Finish(r, Arm(regc[r], granted))
             ELSE Finish(r, Idle(regc[r]))
    BY <1>6 DEF RxOk, Answered
  <2>1. CASE regc[r].op = "registering" /\ granted > 0 /\ regc[r].auto
    <3> DEFINE c == Arm(regc[r], granted)
    <3>1. c \in Registration /\ c.srv = regc[r].srv /\ ~c.pending
      BY <1>0, ArmFacts
    <3>2. Finish(r, c) /\ r # Last  BY <1>1, <2>0, <2>1
    <3>3. Goal(c)  BY <1>2, <2>0, <3>1, <3>2
    <3>4. QED  BY <3>1, <3>3
  <2>2. CASE ~(regc[r].op = "registering" /\ granted > 0 /\ regc[r].auto)
    BY <1>5, <2>0, <2>2
  <2>3. QED  BY <2>1, <2>2
<1>7. CASE RxChallenge(r)
  <2>1. PICK stale \in BOOLEAN :
          /\ Pending(r)
          /\ IF CanRetry(regc[r], stale)
             THEN Send(r, [regc[r] EXCEPT !.auth = @ + 1])
             ELSE Finish(r, Idle(regc[r]))
    BY <1>7 DEF RxChallenge, Answered
  <2>2. CASE CanRetry(regc[r], stale)
    <3> DEFINE c == [regc[r] EXCEPT !.auth = regc[r].auth + 1]
    <3>1. regc[r].auth + 1 \in 0..MaxStale
      <4>1. MaxStale \in Nat /\ MaxStale # 0  BY BoundAssumption
      <4>2. regc[r].auth \in 0..MaxStale  BY <1>0 DEF Registration
      <4>3. regc[r].auth = 0 \/ regc[r].auth < MaxStale  BY <2>2 DEF CanRetry
      <4>4. QED  BY <4>1, <4>2, <4>3
    <3>2. c \in Registration  BY <1>0, <3>1, RecordTypes
    <3>3. /\ c.srv = regc[r].srv /\ c.op = regc[r].op
          /\ c.armed = regc[r].armed /\ c.auto = regc[r].auto
      BY <1>0 DEF Registration
    <3>4. Send(r, c)  BY <2>1, <2>2
    <3>5. Goal(c)  BY <1>1, <1>2, <2>1, <3>3, <3>4
    <3>6. QED  BY <3>2, <3>5
  <2>3. CASE ~CanRetry(regc[r], stale)
    BY <1>5, <2>1, <2>3
  <2>4. QED  BY <2>2, <2>3
<1>8. CASE RxTooBrief(r)
  <2>1. Pending(r)  BY <1>8 DEF RxTooBrief, Answered
  <2>2. PICK m \in 0..MaxRaise :
          IF regc[r].op = "registering" /\ m > regc[r].expires
          THEN Send(r, Registering(SetExpires(regc[r], m), regc[r].auto))
          ELSE Finish(r, Idle(regc[r]))
    BY <1>8 DEF RxTooBrief
  <2>3. CASE regc[r].op = "registering" /\ m > regc[r].expires
    <3> DEFINE c == Registering(SetExpires(regc[r], m), regc[r].auto)
    <3>1. c \in Registration /\ c.srv = regc[r].srv /\ ~c.armed
      <4>1. regc[r].auto \in BOOLEAN  BY <1>0 DEF Registration
      <4>2. SetExpires(regc[r], m) \in Registration  BY <1>0, RecordTypes
      <4>3. SetExpires(regc[r], m).srv = regc[r].srv
        BY <1>0 DEF SetExpires, Registration
      <4>4. QED  BY <4>1, <4>2, <4>3, RegisteringFacts
    <3>2. r # Last  BY <1>1, <2>3
    <3>3. Goal(c)  BY <1>2, <2>1, <2>2, <2>3, <3>1, <3>2
    <3>4. QED  BY <3>1, <3>3
  <2>4. CASE ~(regc[r].op = "registering" /\ m > regc[r].expires)
    BY <1>5, <2>1, <2>2, <2>4
  <2>5. QED  BY <2>3, <2>4
<1>9. CASE RxRefusal(r) \/ Timeout(r)
  BY <1>5, <1>9 DEF RxRefusal, Timeout, Answered
<1>10. CASE Refresh(r)
  <2> DEFINE b == [regc[r] EXCEPT !.armed = FALSE]
             c == Registering(b, TRUE)
  <2>1. c \in Registration /\ c.srv = regc[r].srv /\ ~c.armed
    <3>1. b \in Registration /\ b.srv = regc[r].srv
      BY <1>0 DEF Registration
    <3> HIDE DEF b
    <3>2. QED  BY <3>1, RegisteringFacts
  <2>2. r # Last /\ Active(r)  BY <1>1, <1>10 DEF Refresh, Active
  <2>3. Goal(c)  BY <1>10, <2>1, <2>2 DEF Refresh
  <2>4. QED  BY <2>1, <2>3
<1>11. QED  BY <1>6, <1>7, <1>8, <1>9, <1>10 DEF Handle

-----------------------------------------------------------------------------
(* The invariant's halves: the threads, and the registrations              *)

SipInv == NeverBusy /\ ServerInv /\ LastInv /\ FarewellInv

ThreadTypes ==
  /\ gui \in {"run", "unregister", "join", "endpoint", "shutdown"}
  /\ quit \in BOOLEAN /\ loop \in {"test", "events", "ended"}
  /\ keepalive \in {"test", "sleep", "send", "ended"}
  /\ param \in Servers \cup {NoUri}
  /\ lateSends \in 0..2
  /\ process \in {"up", "down", "aborted", "wild"}

SipTypes ==
  /\ clicks \in 0..MaxClicks
  /\ regc \in [Regc -> Registration]
  /\ net \in [Regc -> {"none"} \cup Request \cup Answer]
  /\ bound \subseteq Servers
  /\ farewell \in {"none", "accepted", "raced"}

LEMMA Halves == IInv <=> ThreadTypes /\ SipTypes /\ ThreadInv /\ SipInv
BY DEF IInv, TypeOK, ThreadTypes, SipTypes, SipInv

LEMMA InitIInv == Init => IInv
<1> SUFFICES ASSUME Init PROVE IInv
  OBVIOUS
<1>1. ThreadTypes /\ ThreadInv
  <2>0. lateSends \in 0..2 /\ param \in Servers /\ process = "up"  BY DEF Init
  <2>1. ThreadTypes  BY <2>0, Zenon DEF Init, ThreadTypes
  <2>2. lateSends = 0 /\ ~(lateSends > 0)  BY DEF Init
  <2>3. ThreadInv  BY <2>2 DEF Init, ThreadInv
  <2>4. QED  BY <2>1, <2>3
<1>2. NoRegc \in Registration /\ 0 \in 0..MaxClicks
  BY NewRegistration, BoundAssumption
<1>3. SipTypes
  BY <1>2 DEF Init, SipTypes
<1>4. \A r \in Regc : /\ regc[r] = NoRegc /\ net[r] = "none"
                     /\ ~Pending(r) /\ ~regc[r].armed /\ ~Active(r)
  BY DEF Init, NoRegc, Pending, Active, Request
<1>5. SipInv
  <2>1. NeverBusy /\ ServerInv  BY <1>4 DEF NeverBusy, ServerInv
  <2>2. LastInv
    BY <1>4, LastFacts DEF Init, LastInv, UnregisterOnly, Open, NoRegc
  <2>3. FarewellInv  BY DEF Init, FarewellInv, GoneForGood, Open
  <2>4. QED  BY <2>1, <2>2, <2>3 DEF SipInv
<1>6. QED  BY <1>1, <1>3, <1>5, Halves

(* Steps of a thread that leave the registrations alone.                   *)
LEMMA QuietStep ==
  ASSUME IInv, UNCHANGED <<sip, param>>, gui' \in Open <=> gui \in Open
  PROVE  SipTypes' /\ SipInv'
<1>1. SipTypes /\ SipInv  BY Halves
<1>2. regc' = regc /\ net' = net /\ bound' = bound /\ farewell' = farewell
      /\ clicks' = clicks /\ param' = param
  BY DEF sip
<1>3. SipTypes'  BY <1>1, <1>2 DEF SipTypes
<1>4. \A r \in Regc : (Pending(r)' <=> Pending(r)) /\ (Active(r)' <=> Active(r))
  BY <1>2 DEF Pending, Active
<1>5. NeverBusy' /\ ServerInv'
  BY <1>1, <1>2, <1>4 DEF SipInv, NeverBusy, ServerInv
<1>6. LastInv'
  BY <1>1, <1>2, <1>4, LastFacts DEF SipInv, LastInv, UnregisterOnly
<1>7. FarewellInv'
  BY <1>1, <1>2 DEF SipInv, FarewellInv, GoneForGood
<1>8. QED  BY <1>3, <1>5, <1>6, <1>7 DEF SipInv

(* A registration of a click sends or ends; threads and form stay.         *)
LEMMA ClickStep ==
  ASSUME IInv, NEW r \in Click, NEW c \in Registration,
         UNCHANGED <<gui, quit, bound>>, clicks' \in 0..MaxClicks,
         c.srv \in Servers,
         \/ Send(r, c) /\ ~c.armed
         \/ Finish(r, c) /\ ~c.pending,
         gui \in Open \/ param' = param
  PROVE  SipTypes' /\ SipInv'
<1>0. r \in Regc /\ r # Last /\ Last \in Regc  BY LastFacts
<1>1. SipTypes /\ SipInv /\ TypeOK  BY Halves DEF IInv
<1>2. /\ regc' \in [Regc -> Registration]
      /\ net' \in [Regc -> {"none"} \cup Request \cup Answer]
      /\ farewell' \in {farewell, "raced"}
      /\ \A q \in Regc : q # r => regc'[q] = regc[q] /\ net'[q] = net[q]
      /\ regc'[r].srv = c.srv
      /\ regc'[r].armed => ~regc'[r].pending
  <2>1. CASE Send(r, c) /\ ~c.armed
    BY <1>0, <1>1, <2>1, SendFacts
  <2>2. CASE Finish(r, c) /\ ~c.pending
    BY <1>0, <1>1, <2>2, FinishFacts DEF SipTypes
  <2>3. QED  BY <2>1, <2>2
<1>3. SipTypes'  BY <1>1, <1>2 DEF SipTypes
<1>4. \A q \in Regc : q # r => (Pending(q)' <=> Pending(q)) /\ (Active(q)' <=> Active(q))
  BY <1>2 DEF Pending, Active
<1>5. NeverBusy'
  BY <1>1, <1>2, <1>4 DEF SipInv, NeverBusy, Pending
<1>6. ServerInv'
  BY <1>1, <1>2, <1>4 DEF SipInv, ServerInv
<1>7. LastInv'
  BY <1>0, <1>1, <1>2, <1>4 DEF SipInv, LastInv, UnregisterOnly, Open
<1>8. farewell # "none" \/ farewell' # "none" => gui \notin Open
  <2>1. quit <=> gui # "run"  BY DEF IInv, ThreadInv
  <2>2. Send(r, c) /\ gui \in Open => farewell' = farewell
    BY <1>0, <2>1 DEF Send, Open
  <2>3. Finish(r, c) => farewell' = farewell  BY DEF Finish
  <2>4. QED  BY <1>1, <2>2, <2>3 DEF SipInv, FarewellInv
<1>9. gui \notin Open /\ farewell' # "raced" =>
        \A q \in Regc : net'[q] = "REGISTER" => regc'[q].srv # param'
  <2> SUFFICES ASSUME gui \notin Open, farewell' # "raced", NEW q \in Regc,
                      net'[q] = "REGISTER"
               PROVE  regc'[q].srv # param'
    OBVIOUS
  <2>1. quit /\ param' = param /\ farewell # "raced"
    BY <1>2 DEF IInv, ThreadInv, Open
  <2>2. CASE Send(r, c)
    BY <2>1, <2>2 DEF Send, Races, Open
  <2>3. CASE Finish(r, c)
    <3>1. net'[r] = "none"
      BY <1>0, <1>1, <2>3, FinishFacts DEF SipTypes
    <3>2. q # r  BY <3>1
    <3>3. QED  BY <1>1, <1>2, <2>1, <3>2 DEF SipInv, FarewellInv
  <2>4. QED  BY <2>2, <2>3
<1>10. GoneForGood'
  BY <1>1, <1>2, <1>8 DEF SipInv, FarewellInv, GoneForGood
<1>11. FarewellInv'
  BY <1>8, <1>9, <1>10 DEF FarewellInv
<1>12. QED  BY <1>3, <1>5, <1>6, <1>7, <1>11 DEF SipInv

(* The last turn of the event loop may serve the unREGISTER itself.        *)
LEMMA LastStep ==
  ASSUME IInv, NEW c \in Registration,
         UNCHANGED <<gui, quit, bound, clicks, param>>,
         c.srv = regc[Last].srv, Active(Last),
         c.op # "registering" /\ ~c.armed /\ ~c.auto,
         Send(Last, c) \/ (Finish(Last, c) /\ ~c.pending)
  PROVE  SipTypes' /\ SipInv'
<1>0. Last \in Regc  BY LastFacts
<1>1. SipTypes /\ SipInv /\ TypeOK  BY Halves DEF IInv
<1>2. /\ regc' \in [Regc -> Registration]
      /\ net' \in [Regc -> {"none"} \cup Request \cup Answer]
      /\ farewell' \in {farewell, "raced"}
      /\ \A q \in Regc : q # Last => regc'[q] = regc[q] /\ net'[q] = net[q]
      /\ regc'[Last].srv = regc[Last].srv
      /\ ~regc'[Last].armed /\ ~regc'[Last].auto
      /\ regc'[Last].op # "registering" /\ net'[Last] # "REGISTER"
  <2>1. CASE Send(Last, c)
    BY <1>0, <1>1, <2>1, SendFacts
  <2>2. CASE Finish(Last, c)
    BY <1>0, <1>1, <2>2, FinishFacts DEF SipTypes
  <2>3. QED  BY <2>1, <2>2
<1>3. gui \notin Open /\ regc[Last].srv = param /\ regc[Last].srv \in Servers
  <2>1. gui \in Open => net[Last] = "none" /\ ~Pending(Last) /\ ~regc[Last].armed
    BY <1>1 DEF SipInv, LastInv, UnregisterOnly
  <2>2. gui \notin Open  BY <2>1 DEF Active, Request
  <2>3. QED  BY <1>0, <1>1, <2>2 DEF SipInv, LastInv, ServerInv
<1>4. SipTypes'  BY <1>1, <1>2 DEF SipTypes
<1>5. \A q \in Regc : q # Last => (Pending(q)' <=> Pending(q)) /\ (Active(q)' <=> Active(q))
  BY <1>2 DEF Pending, Active
<1>6. NeverBusy'
  BY <1>1, <1>2, <1>5 DEF SipInv, NeverBusy, Pending
<1>7. ServerInv'
  BY <1>1, <1>2, <1>3, <1>5 DEF SipInv, ServerInv
<1>8. LastInv'
  BY <1>2, <1>3 DEF LastInv, UnregisterOnly
<1>9. FarewellInv'
  <2>1. farewell' = "accepted" => farewell = "accepted"  BY <1>2
  <2>2. farewell' # "raced" => farewell # "raced"  BY <1>2
  <2>3. QED  BY <1>1, <1>2, <1>3, <2>1, <2>2 DEF SipInv, FarewellInv, GoneForGood
<1>10. QED  BY <1>4, <1>6, <1>7, <1>8, <1>9 DEF SipInv

(* ~MediaClient makes the last registration.                               *)
LEMMA UnregisterSip ==
  ASSUME IInv, Unregister
  PROVE  SipTypes' /\ SipInv'
<1>0. Last \in Regc /\ gui \in Open /\ gui' \notin Open /\ quit /\ gui = "unregister"
      /\ param' = param
  BY LastFacts DEF Unregister, Open, IInv, ThreadInv
<1>1. SipTypes /\ SipInv /\ TypeOK  BY Halves DEF IInv
<1>2. net[Last] = "none" /\ ~Pending(Last) /\ ~Active(Last) /\ farewell = "none"
  BY <1>0, <1>1 DEF SipInv, LastInv, UnregisterOnly, FarewellInv, Active, Request,
     SipTypes
<1>3. CASE param = NoUri /\ UNCHANGED sip
  <2>1. regc' = regc /\ net' = net /\ bound' = bound /\ farewell' = farewell
        /\ clicks' = clicks
    BY <1>3 DEF sip
  <2>2. SipTypes'  BY <1>1, <2>1 DEF SipTypes
  <2>3. \A r \in Regc : (Pending(r)' <=> Pending(r)) /\ (Active(r)' <=> Active(r))
    BY <2>1 DEF Pending, Active
  <2>4. NeverBusy' /\ ServerInv'
    BY <1>1, <2>1, <2>3 DEF SipInv, NeverBusy, ServerInv
  <2>5. LastInv'
    BY <1>0, <1>1, <1>2, <2>1, <2>3 DEF SipInv, LastInv, UnregisterOnly
  <2>6. \A r \in Regc : net[r] = "REGISTER" => regc[r].srv # param
    BY <1>1, <1>3, ServersAssumption DEF SipInv, ServerInv, Active, Request
  <2>7. FarewellInv'
    BY <1>0, <1>2, <2>1, <2>6 DEF FarewellInv, GoneForGood
  <2>8. QED  BY <2>2, <2>4, <2>5, <2>7 DEF SipInv
<1>4. CASE /\ param # NoUri
           /\ Send(Last, Unregistering([NoRegc EXCEPT !.srv = param]))
           /\ UNCHANGED <<clicks, bound, process>>
  <2> DEFINE c == Unregistering([NoRegc EXCEPT !.srv = param])
  <2>1. param \in Servers  BY <1>4, Halves DEF ThreadTypes
  <2>2. [NoRegc EXCEPT !.srv = param] \in Registration
    BY <2>1, NewRegistration
  <2>3. c \in Registration  BY <2>2, UnregisteringFacts
  <2>4. c.srv = param /\ c.op = "unregistering" /\ ~c.armed /\ ~c.auto
    BY <2>2, UnregisteringFacts DEF NoRegc
  <2>5. /\ regc' \in [Regc -> Registration]
        /\ net' \in [Regc -> {"none"} \cup Request \cup Answer]
        /\ farewell' \in {farewell, "raced"}
        /\ \A q \in Regc : q # Last => regc'[q] = regc[q] /\ net'[q] = net[q]
        /\ regc'[Last].srv = param
        /\ ~regc'[Last].armed /\ ~regc'[Last].auto
        /\ regc'[Last].op # "registering" /\ net'[Last] # "REGISTER"
    <3> HIDE DEF c
    <3>1. Send(Last, c)  BY <1>4 DEF c
    <3>2. QED  BY <1>0, <1>1, <2>3, <2>4, <3>1, SendFacts
  <2>6. SipTypes'  BY <1>1, <1>4, <2>5 DEF SipTypes
  <2>7. \A q \in Regc : q # Last => (Pending(q)' <=> Pending(q)) /\ (Active(q)' <=> Active(q))
    BY <2>5 DEF Pending, Active
  <2>8. NeverBusy'
    BY <1>1, <2>5, <2>7 DEF SipInv, NeverBusy, Pending
  <2>9. ServerInv'
    BY <1>1, <2>1, <2>5, <2>7 DEF SipInv, ServerInv
  <2>10. LastInv'
    BY <1>0, <2>5 DEF LastInv, UnregisterOnly
  <2>11. farewell' # "raced" =>
           \A q \in Regc : net'[q] = "REGISTER" => regc'[q].srv # param'
    BY <1>0, <1>4 DEF Send, Races
  <2>12. FarewellInv'
    BY <1>0, <1>2, <2>5, <2>11 DEF FarewellInv, GoneForGood
  <2>13. QED  BY <2>6, <2>8, <2>9, <2>10, <2>12 DEF SipInv
<1>5. QED  BY <1>3, <1>4 DEF Unregister, AssertFails

(* The servers and the network take or change one message under way.       *)
LEMMA NetworkStep ==
  ASSUME IInv, NEW r \in Regc,
         Lose(r) \/ \E a \in Answer : Serve(r, a)
  PROVE  SipTypes' /\ SipInv'
<1>1. SipTypes /\ SipInv  BY Halves
<1>2. /\ regc' = regc /\ clicks' = clicks /\ gui' = gui /\ param' = param
      /\ \A q \in Regc : q # r => net'[q] = net[q]
      /\ net'[r] \in {"none"} \cup Answer /\ net[r] # "none"
      /\ net' \in [Regc -> {"none"} \cup Request \cup Answer]
      /\ bound' \subseteq Servers
      /\ farewell' \in {"none", "accepted", "raced"}
  <2>1. CASE Lose(r)
    BY <1>1, <2>1 DEF Lose, SipTypes, threads
  <2>2. ASSUME NEW a \in Answer, Serve(r, a)
        PROVE  /\ regc' = regc /\ clicks' = clicks /\ gui' = gui /\ param' = param
               /\ \A q \in Regc : q # r => net'[q] = net[q]
               /\ net'[r] \in {"none"} \cup Answer /\ net[r] # "none"
               /\ net' \in [Regc -> {"none"} \cup Request \cup Answer]
               /\ bound' \subseteq Servers
               /\ farewell' \in {"none", "accepted", "raced"}
    <3>1. Active(r)  BY <2>2 DEF Serve, Active
    <3>2. regc[r].srv \in Servers  BY <1>1, <3>1 DEF SipInv, ServerInv
    <3>3. bound' \subseteq Servers  BY <1>1, <2>2, <3>2 DEF SipTypes, Serve
    <3>4. QED  BY <1>1, <2>2, <3>3 DEF SipTypes, Serve, threads, Request
  <2>3. QED  BY <2>1, <2>2
<1>3. \A q \in Regc : net'[q] \in Request => net'[q] = net[q]
  BY <1>2 DEF Answer, Request
<1>4. \A q \in Regc : (Active(q)' => Active(q)) /\ (Pending(q)' <=> Pending(q))
  BY <1>2, <1>3 DEF Active, Pending
<1>5. SipTypes'  BY <1>1, <1>2 DEF SipTypes
<1>6. NeverBusy' /\ ServerInv'
  BY <1>1, <1>2, <1>4 DEF SipInv, NeverBusy, ServerInv
<1>7. LastInv'
  <2>1. Last \in Regc  BY LastFacts
  <2>2. net'[Last] # "REGISTER"
    BY <1>1, <1>3, <2>1 DEF SipInv, LastInv, UnregisterOnly, Request
  <2>3. gui \in Open => net'[Last] = "none"
    BY <1>1, <1>2, <2>1 DEF SipInv, LastInv
  <2>4. QED
    BY <1>1, <1>2, <1>4, <2>1, <2>2, <2>3 DEF SipInv, LastInv, UnregisterOnly
<1>8. FarewellInv'
  <2>1. \A q \in Regc : net'[q] = "REGISTER" => net[q] = "REGISTER"
    BY <1>3 DEF Request
  <2>2. CASE farewell' = farewell /\ bound' \subseteq bound
    BY <1>1, <1>2, <2>1, <2>2 DEF SipInv, FarewellInv, GoneForGood
  <2>3. ASSUME NEW a \in Answer, Serve(r, a), net[r] = "REGISTER"
        PROVE  FarewellInv'
    <3>1. r # Last  BY <1>1, <2>3 DEF SipInv, LastInv, UnregisterOnly
    <3>2. farewell' = farewell  BY <2>3, <3>1 DEF Serve
    <3>3. bound' \subseteq bound \cup {regc[r].srv}  BY <2>3 DEF Serve
    <3>4. farewell = "accepted" => gui \notin Open /\ regc[r].srv # param
      BY <1>1, <2>3 DEF SipInv, FarewellInv
    <3>5. QED
      BY <1>1, <1>2, <2>1, <3>2, <3>3, <3>4 DEF SipInv, FarewellInv, GoneForGood
  <2>4. ASSUME NEW a \in Answer, Serve(r, a), net[r] = "unREGISTER"
        PROVE  FarewellInv'
    <3>1. bound' \subseteq bound /\ (farewell' # farewell => r = Last)
      BY <2>4 DEF Serve, Request
    <3>2. CASE farewell' # farewell
      <4>1. r = Last /\ farewell = "none" /\ a = "200" /\ farewell' = "accepted"
        BY <2>4, <3>2 DEF Serve
      <4>2. gui \notin Open  BY <1>1, <1>2, <4>1 DEF SipInv, LastInv
      <4>3. regc[Last].srv = param
        BY <1>1, <2>4, <4>1, <4>2 DEF SipInv, LastInv, Active, Request
      <4>4. param \notin bound'  BY <2>4, <4>1, <4>3 DEF Serve
      <4>5. QED
        BY <1>1, <1>2, <2>1, <4>1, <4>2, <4>4 DEF SipInv, FarewellInv, GoneForGood
    <3>3. QED  BY <2>2, <3>1, <3>2
  <2>5. CASE Lose(r)  BY <2>2, <2>5 DEF Lose
  <2>6. QED  BY <2>3, <2>4, <2>5 DEF Serve, Request
<1>9. QED  BY <1>5, <1>6, <1>7, <1>8 DEF SipInv

(* The end of the bindings, and of the endpoint's transactions.            *)
LEMMA ExpireStep ==
  ASSUME IInv, NEW s \in Servers, Expire(s)
  PROVE  SipTypes' /\ SipInv'
<1>1. SipTypes /\ SipInv  BY Halves
<1>2. /\ regc' = regc /\ net' = net /\ clicks' = clicks /\ gui' = gui
      /\ param' = param /\ farewell' = farewell /\ bound' \subseteq bound
  BY DEF Expire, threads
<1>3. \A r \in Regc : (Pending(r)' <=> Pending(r)) /\ (Active(r)' <=> Active(r))
  BY <1>2 DEF Pending, Active
<1>4. SipTypes'  BY <1>1, <1>2 DEF SipTypes
<1>5. NeverBusy' /\ ServerInv'
  BY <1>1, <1>2, <1>3 DEF SipInv, NeverBusy, ServerInv
<1>6. LastInv'
  BY <1>1, <1>2, <1>3, LastFacts DEF SipInv, LastInv, UnregisterOnly
<1>7. FarewellInv'
  BY <1>1, <1>2 DEF SipInv, FarewellInv, GoneForGood
<1>8. QED  BY <1>4, <1>5, <1>6, <1>7 DEF SipInv

LEMMA DestroyStep ==
  ASSUME IInv, DestroyEndpoint
  PROVE  SipTypes' /\ SipInv'
<1>0. Last \in Regc  BY LastFacts
<1>1. SipTypes /\ SipInv  BY Halves
<1>2. /\ net' = net /\ clicks' = clicks /\ param' = param /\ bound' = bound
      /\ farewell' = farewell /\ gui \notin Open /\ gui' \notin Open
  BY DEF DestroyEndpoint, Open
<1>3. /\ regc' \in [Regc -> Registration]
      /\ \A r \in Regc : /\ regc'[r].srv = regc[r].srv /\ ~regc'[r].armed
                         /\ ~regc'[r].pending /\ ~regc'[r].auto
                         /\ regc'[r].op = "idle"
  <2>1. \A r \in Regc : regc[r] \in Registration  BY <1>1 DEF SipTypes
  <2>2. regc' = [r \in Regc |-> Idle(regc[r])]
    BY DEF DestroyEndpoint
  <2>3. QED  BY <2>1, <2>2, IdleFacts
<1>4. \A r \in Regc : ~Pending(r)' /\ (Active(r)' => Active(r))
  BY <1>2, <1>3 DEF Pending, Active
<1>5. SipTypes'  BY <1>1, <1>2, <1>3 DEF SipTypes
<1>6. NeverBusy' /\ ServerInv'
  BY <1>1, <1>3, <1>4 DEF SipInv, NeverBusy, ServerInv
<1>7. LastInv'
  BY <1>0, <1>1, <1>2, <1>3, <1>4 DEF SipInv, LastInv, UnregisterOnly
<1>8. FarewellInv'
  BY <1>1, <1>2, <1>3 DEF SipInv, FarewellInv, GoneForGood
<1>9. QED  BY <1>5, <1>6, <1>7, <1>8 DEF SipInv

(* onPlay only reads the form, while the window is open.                   *)
LEMMA PlayStep ==
  ASSUME IInv, gui \in Open, gui' = gui, UNCHANGED sip
  PROVE  SipTypes' /\ SipInv'
<1>1. SipTypes /\ SipInv  BY Halves
<1>2. regc' = regc /\ net' = net /\ bound' = bound /\ farewell' = farewell
      /\ clicks' = clicks
  BY DEF sip
<1>3. SipTypes'  BY <1>1, <1>2 DEF SipTypes
<1>4. \A r \in Regc : (Pending(r)' <=> Pending(r)) /\ (Active(r)' <=> Active(r))
  BY <1>2 DEF Pending, Active
<1>5. NeverBusy' /\ ServerInv'
  BY <1>1, <1>2, <1>4 DEF SipInv, NeverBusy, ServerInv
<1>6. LastInv'
  BY <1>1, <1>2, <1>4, LastFacts DEF SipInv, LastInv, UnregisterOnly
<1>7. FarewellInv'
  BY <1>1, <1>2 DEF SipInv, FarewellInv, GoneForGood
<1>8. QED  BY <1>3, <1>5, <1>6, <1>7 DEF SipInv

-----------------------------------------------------------------------------
(* Every step keeps the invariant                                          *)

LEMMA QuietThreads ==
  ASSUME ThreadTypes, ThreadInv, UNCHANGED <<threads, param, process>>
  PROVE  ThreadTypes' /\ ThreadInv'
BY DEF ThreadTypes, ThreadInv, threads

LEMMA GuiThreads ==
  ASSUME ThreadTypes, ThreadInv,
         \/ \E t \in Servers \cup {NoUri} : Play(t) \/ Register(t)
         \/ Close \/ Unregister \/ Join \/ JoinFreed
         \/ DestroyEndpoint \/ Shutdown
  PROVE  ThreadTypes' /\ ThreadInv'
<1>1. CASE \E t \in Servers \cup {NoUri} : Play(t)
  BY <1>1 DEF Play, ThreadTypes, ThreadInv, threads
<1>2. CASE \E t \in Servers \cup {NoUri} : Register(t)
  <2>1. PICK t \in Servers \cup {NoUri} : Register(t)  BY <1>2
  <2>2. param' = t /\ UNCHANGED threads /\ process' \in {process, "up", "aborted"}
    BY <2>1 DEF Register, AssertFails
  <2>3. QED  BY <2>2 DEF ThreadTypes, ThreadInv, threads
<1>3. CASE Close
  BY <1>3 DEF Close, ThreadTypes, ThreadInv
<1>4. CASE Unregister
  BY <1>4 DEF Unregister, AssertFails, ThreadTypes, ThreadInv
<1>5. CASE Join
  BY <1>5 DEF Join, ThreadTypes, ThreadInv
<1>6. CASE JoinFreed \/ Shutdown
  BY <1>6 DEF JoinFreed, Shutdown, ThreadTypes, ThreadInv, threads
<1>7. CASE DestroyEndpoint
  BY <1>7 DEF DestroyEndpoint, ThreadTypes, ThreadInv
<1>8. QED  BY <1>1, <1>2, <1>3, <1>4, <1>5, <1>6, <1>7

LEMMA WorkerThreads ==
  ASSUME ThreadTypes, ThreadInv,
         \/ KeepAliveTest \/ KeepAliveWake \/ SendKeepAlive
         \/ LoopTest \/ LoopReturn
  PROVE  ThreadTypes' /\ ThreadInv'
<1>1. CASE KeepAliveTest
  BY <1>1 DEF KeepAliveTest, ThreadTypes, ThreadInv
<1>2. CASE KeepAliveWake
  BY <1>2 DEF KeepAliveWake, ThreadTypes, ThreadInv
<1>3. CASE SendKeepAlive
  <2>1. keepalive = "send" /\ lateSends = 0
    BY <1>3 DEF SendKeepAlive, ThreadTypes, ThreadInv
  <2>2. lateSends' \in {0, 1} /\ (~quit => lateSends' = 0)
    BY <1>3, <2>1 DEF SendKeepAlive
  <2>3. /\ keepalive' = "test" /\ process' \in {"up", "wild"}
        /\ gui' = gui /\ quit' = quit /\ loop' = loop /\ param' = param
    BY <1>3 DEF SendKeepAlive
  <2>4. lateSends' \in 0..2 /\ (lateSends' > 0 => lateSends' = 1)  BY <2>2
  <2>5. QED  BY <2>1, <2>2, <2>3, <2>4 DEF ThreadTypes, ThreadInv
<1>4. CASE LoopTest
  BY <1>4 DEF LoopTest, ThreadTypes, ThreadInv
<1>5. CASE LoopReturn
  BY <1>5 DEF LoopReturn, ThreadTypes, ThreadInv
<1>6. QED  BY <1>1, <1>2, <1>3, <1>4, <1>5

LEMMA HandleSip ==
  ASSUME IInv, NEW r \in Regc, Handle(r), UNCHANGED <<threads, clicks, bound, param>>
  PROVE  SipTypes' /\ SipInv'
<1>1. PICK c \in Registration :
        /\ c.srv = regc[r].srv
        /\ Active(r)
        /\ r = Last => c.op # "registering" /\ ~c.armed /\ ~c.auto
        /\ \/ Send(r, c) /\ ~c.armed
           \/ Finish(r, c) /\ ~c.pending
  BY HandlerCases
<1>2. gui' = gui /\ quit' = quit /\ bound' = bound /\ clicks' = clicks
      /\ param' = param
  BY DEF threads
<1>3. c.srv \in Servers  BY <1>1 DEF IInv, ServerInv
<1>4. clicks \in 0..MaxClicks  BY DEF IInv, TypeOK
<1>5. CASE r = Last  BY <1>1, <1>2, <1>5, LastStep
<1>6. CASE r # Last
  <2>1. r \in Click  BY <1>6, BoundAssumption DEF Regc, Click, Last
  <2>2. QED  BY <1>1, <1>2, <1>3, <1>4, <2>1, ClickStep
<1>7. QED  BY <1>5, <1>6

LEMMA RegisterSip ==
  ASSUME IInv, NEW t \in Servers \cup {NoUri}, Register(t)
  PROVE  SipTypes' /\ SipInv'
<1>1. gui = "run" /\ gui' = gui /\ quit' = quit /\ gui \in Open
  BY DEF Register, threads, Open
<1>2. CASE t = NoUri /\ AssertFails
  BY <1>1, <1>2, PlayStep DEF AssertFails
<1>3. CASE /\ t # NoUri /\ clicks' = clicks + 1
           /\ Send(clicks + 1, Registering([NoRegc EXCEPT !.srv = t], TRUE))
           /\ bound' = bound
  <2> DEFINE n == [NoRegc EXCEPT !.srv = t]
             c == Registering(n, TRUE)
  <2>1. n \in Registration /\ t \in Servers  BY <1>3, NewRegistration
  <2>2. n.srv = t  BY DEF NoRegc
  <2> HIDE DEF n
  <2>3. c \in Registration /\ c.srv \in Servers /\ ~c.armed
    BY <2>1, <2>2, RegisteringFacts
  <2>4. clicks + 1 \in Click /\ clicks + 1 \in 0..MaxClicks
    <3>1. clicks \in 0..MaxClicks  BY DEF IInv, TypeOK
    <3>2. clicks < MaxClicks  BY DEF Register
    <3>3. QED  BY <3>1, <3>2, BoundAssumption DEF Click
  <2>5. Send(clicks + 1, c)  BY <1>3 DEF n
  <2> HIDE DEF c
  <2>6. QED  BY <1>1, <1>3, <2>3, <2>4, <2>5, ClickStep
<1>4. QED  BY <1>2, <1>3 DEF Register

LEMMA NextIInv == IInv /\ [Next]_vars => IInv'
<1> SUFFICES ASSUME IInv, [Next]_vars PROVE IInv'
  OBVIOUS
<1>0. ThreadTypes /\ ThreadInv  BY Halves
<1> DEFINE Kept == ThreadTypes' /\ ThreadInv' /\ SipTypes' /\ SipInv'
<1>1. ASSUME NEW t \in Servers \cup {NoUri}, Play(t)  PROVE Kept
  <2>1. gui \in Open /\ gui' = gui /\ UNCHANGED sip
    BY <1>1 DEF Play, Open, threads
  <2>2. QED  BY <1>0, <1>1, <2>1, GuiThreads, PlayStep
<1>2. ASSUME NEW t \in Servers \cup {NoUri}, Register(t)  PROVE Kept
  BY <1>0, <1>2, GuiThreads, RegisterSip
<1>3. ASSUME Unregister  PROVE Kept
  BY <1>0, <1>3, GuiThreads, UnregisterSip
<1>4. ASSUME Close \/ Join \/ JoinFreed \/ Shutdown  PROVE Kept
  <2>1. UNCHANGED <<sip, param>> /\ (gui' \in Open <=> gui \in Open)
    BY <1>4 DEF Close, Join, JoinFreed, Shutdown, Open, threads
  <2>2. QED  BY <1>0, <1>4, <2>1, GuiThreads, QuietStep
<1>5. ASSUME DestroyEndpoint  PROVE Kept
  BY <1>0, <1>5, GuiThreads, DestroyStep
<1>6. ASSUME KeepAliveTest \/ KeepAliveWake \/ SendKeepAlive \/ LoopTest \/ LoopReturn
      PROVE  Kept
  <2>1. UNCHANGED <<sip, param>> /\ gui' = gui
    BY <1>6 DEF KeepAliveTest, KeepAliveWake, SendKeepAlive, LoopTest, LoopReturn
  <2>2. QED  BY <1>0, <1>6, <2>1, WorkerThreads, QuietStep
<1>7. ASSUME NEW r \in Regc, Handle(r)  PROVE Kept
  <2>1. UNCHANGED <<threads, clicks, bound, param, process>>
    BY <1>7 DEF Handle
  <2>2. QED  BY <1>0, <1>7, <2>1, QuietThreads, HandleSip
<1>8. ASSUME NEW r \in Regc, Lose(r) \/ \E a \in Answer : Serve(r, a)
      PROVE  Kept
  <2>1. UNCHANGED <<threads, param, process>>
    BY <1>8 DEF Lose, Serve
  <2>2. QED  BY <1>0, <1>8, <2>1, QuietThreads, NetworkStep
<1>9. ASSUME NEW s \in Servers, Expire(s)  PROVE Kept
  <2>1. UNCHANGED <<threads, param, process>>
    BY <1>9 DEF Expire
  <2>2. QED  BY <1>0, <1>9, <2>1, QuietThreads, ExpireStep
<1>10. ASSUME UNCHANGED vars  PROVE Kept
  <2>1. UNCHANGED <<threads, sip, param, process>> /\ gui' = gui
    BY <1>10 DEF vars, threads
  <2>2. QED  BY <1>0, <2>1, QuietThreads, QuietStep
<1>11. Kept
  BY <1>1, <1>2, <1>3, <1>4, <1>5, <1>6, <1>7, <1>8, <1>9, <1>10 DEF Next
<1>12. QED  BY <1>11 DEF IInv, TypeOK, ThreadTypes, SipTypes, SipInv

LEMMA Invariance == Spec => []IInv
BY InitIInv, NextIInv, PTL DEF Spec

-----------------------------------------------------------------------------
(* What follows                                                            *)

(* Every variable keeps to its range, whatever servers answer: in          *)
(* particular credentials are given at most MaxStale times (process_auth)  *)
(* and the shutdown goes through destroy's places in order.                *)
THEOREM TypeCorrect == Spec => []TypeOK
<1>1. IInv => TypeOK  BY DEF IInv
<1>2. QED  BY <1>1, Invariance, PTL

(* However slow keepAlive_thread is to wake up, at most one MESSAGE leaves *)
(* after quit_flag was set.                                                *)
THEOREM AtMostOneLateKeepAlive == Spec => []OneLateKeepAlive
<1>1. IInv => OneLateKeepAlive
  <2> SUFFICES ASSUME IInv PROVE lateSends <= 1
    BY DEF OneLateKeepAlive
  <2>1. lateSends \in 0..2 /\ (lateSends > 0 => lateSends = 1)
    BY DEF IInv, TypeOK, ThreadInv
  <2>2. QED  BY <2>1
<1>2. QED  BY <1>1, Invariance, PTL

(* destroy's join is enough to keep keepAlive_thread off the endpoint that *)
(* the next statement destroys.                                            *)
THEOREM JoinKeepsOffEndpoint == Spec => []KeepAliveOffEndpoint
<1>1. IInv => KeepAliveOffEndpoint
  BY DEF IInv, ThreadInv, KeepAliveOffEndpoint, Endpoint
<1>2. QED  BY <1>1, Invariance, PTL

(* With any number of registrations, retries and timers, no refresh timer  *)
(* runs into a pending transaction of its registration (PJSIP_EBUSY).      *)
THEOREM TimersNeverBusy == Spec => []NeverBusy
<1>1. IInv => NeverBusy  BY DEF IInv
<1>2. QED  BY <1>1, Invariance, PTL

(* The registration that ~MediaClient makes never registers again, through *)
(* challenges, 423 responses and timers.                                   *)
THEOREM LastOnlyUnregisters == Spec => []UnregisterOnly
<1>1. IInv => UnregisterOnly  BY DEF IInv, LastInv
<1>2. QED  BY <1>1, Invariance, PTL

(* An unREGISTER that the server accepts, and that did not race with a     *)
(* REGISTER of an earlier click, leaves no binding at that server, ever.   *)
THEOREM UnregisteredForGood == Spec => []GoneForGood
<1>1. IInv => GoneForGood  BY DEF IInv, FarewellInv
<1>2. QED  BY <1>1, Invariance, PTL

-----------------------------------------------------------------------------
(* The way to the end: what CloseEnds and AttemptEnds need besides fairness *)

GuiPlace ==
  IF gui = "run" THEN 0 ELSE IF gui = "unregister" THEN 1
  ELSE IF gui = "join" THEN 2 ELSE IF gui = "endpoint" THEN 3 ELSE 4
KeepAlivePlace ==
  IF keepalive = "sleep" THEN 0 ELSE IF keepalive = "send" THEN 1
  ELSE IF keepalive = "test" THEN 2 ELSE 3
LoopPlace == IF loop = "events" THEN 0 ELSE IF loop = "test" THEN 1 ELSE 2

(* Once the window is closed no thread ever comes back to where it was:    *)
(* neither worker begins another turn.                                     *)
ClosingAdvances ==
  quit => /\ quit'
          /\ GuiPlace <= GuiPlace'
          /\ KeepAlivePlace <= KeepAlivePlace'
          /\ LoopPlace <= LoopPlace'

(* How far a request is from being answered.                               *)
Stage(m) == IF m \in Request THEN 2 ELSE IF m \in Answer THEN 1 ELSE 0

(* What a step does to an attempt that goes on after it: a longer interval *)
(* is asked for, or credentials are given once more, or the message is     *)
(* nearer to its end - unless the server, which granted an interval        *)
(* before, has just named that interval as its minimum, and no interval is *)
(* asked for any more.                                                     *)
Advanced(r) ==
  LET c == regc[r]
      d == regc'[r]
  IN  \/ d = c /\ net'[r] = net[r]
      \/ d.expires > c.expires
      \/ d.expires = c.expires /\ d.auth > c.auth
      \/ d = c /\ Stage(net'[r]) < Stage(net[r])
      \/ d.expires = Missing /\ c.grant # Missing /\ net[r] = "refusal"

AttemptAdvances ==
  \A r \in Regc :
    Pending(r) /\ Pending(r)' =>
      Advanced(r) /\ regc'[r].grant \in {regc[r].grant, Missing}

(* A click that has not been made has left no trace.                       *)
Fresh == \A r \in Click : r > clicks => ~Pending(r) /\ ~regc[r].armed /\ net[r] = "none"

(* A step of one registration leaves the others' attempts alone.           *)
LEMMA OneAdvances ==
  ASSUME NEW r \in Regc,
         \A q \in Regc : q # r => regc'[q] = regc[q] /\ net'[q] = net[q],
         Pending(r) /\ regc'[r].pending =>
           Advanced(r) /\ regc'[r].grant \in {regc[r].grant, Missing}
  PROVE  AttemptAdvances
BY DEF AttemptAdvances, Advanced, Pending

(* An attempt goes on after pjsip_regc_send with what it was given.        *)
LEMMA SendGoesOn ==
  ASSUME TypeOK, NEW r \in Regc, NEW c \in Registration, Send(r, c), regc'[r].pending
  PROVE  /\ regc'[r].expires = c.expires /\ regc'[r].auth = c.auth
         /\ regc'[r].grant = c.grant
<1>1. /\ Idle(c) \in Registration /\ ~Idle(c).pending
      /\ regc \in [Regc -> Registration]
  BY IdleFacts DEF TypeOK
<1>2. regc' = [regc EXCEPT ![r] = [c EXCEPT !.pending = TRUE]]
  BY <1>1 DEF Send
<1>3. QED  BY <1>1, <1>2 DEF Registration

(* Every answer to a pending attempt ends it, or is responded to with one  *)
(* more pair of credentials or a longer interval.                          *)
LEMMA HandleAdvances ==
  ASSUME IInv, NEW r \in Regc, Handle(r)
  PROVE  AttemptAdvances
<1>0. TypeOK /\ regc[r] \in Registration  BY DEF IInv, TypeOK
<1>1. \A q \in Regc : q # r => regc'[q] = regc[q] /\ net'[q] = net[q]
  <2>1. PICK c \in Registration : Send(r, c) \/ Finish(r, c)
    BY HandlerCases
  <2>2. CASE Send(r, c)
    BY <1>0, <2>1, <2>2, SendFacts
  <2>3. CASE Finish(r, c)
    BY <1>0, <2>3, FinishFacts DEF TypeOK
  <2>4. QED  BY <2>1, <2>2, <2>3
<1>2. ASSUME Pending(r), regc'[r].pending
      PROVE  Advanced(r) /\ regc'[r].grant \in {regc[r].grant, Missing}
  <2>1. ASSUME NEW c \in Registration, Finish(r, c), ~c.pending
        PROVE  FALSE
    BY <1>0, <1>2, <2>1, FinishFacts DEF TypeOK
  <2>2. Idle(regc[r]) \in Registration /\ ~Idle(regc[r]).pending
    BY <1>0, IdleFacts
  <2>3. ~Finish(r, Idle(regc[r]))  BY <2>1, <2>2
  <2>4. ~RxOk(r)
    <3>1. SUFFICES ASSUME RxOk(r)  PROVE FALSE  OBVIOUS
    <3>2. PICK granted \in 0..MaxRaise :
            Finish(r, Arm(regc[r], granted)) \/ Finish(r, Idle(regc[r]))
      BY <3>1 DEF RxOk
    <3>3. Arm(regc[r], granted) \in Registration /\ ~Arm(regc[r], granted).pending
      BY <1>0, ArmFacts
    <3>4. QED  BY <2>1, <2>3, <3>2, <3>3
  <2>5. CASE RxChallenge(r)
    <3>1. PICK stale \in BOOLEAN :
            IF CanRetry(regc[r], stale)
            THEN Send(r, [regc[r] EXCEPT !.auth = @ + 1])
            ELSE Finish(r, Idle(regc[r]))
      BY <2>5 DEF RxChallenge
    <3>2. CanRetry(regc[r], stale)  BY <2>3, <3>1
    <3> DEFINE c == [regc[r] EXCEPT !.auth = regc[r].auth + 1]
    <3>3. regc[r].auth \in Nat /\ regc[r].auth + 1 \in 0..MaxStale
      <4>1. MaxStale \in Nat /\ MaxStale # 0  BY BoundAssumption
      <4>2. regc[r].auth \in 0..MaxStale  BY <1>0 DEF Registration
      <4>3. regc[r].auth = 0 \/ regc[r].auth < MaxStale  BY <3>2 DEF CanRetry
      <4>4. QED  BY <4>1, <4>2, <4>3
    <3>4. c \in Registration  BY <1>0, <3>3, RecordTypes
    <3>5. /\ c.expires = regc[r].expires /\ c.auth = regc[r].auth + 1
          /\ c.grant = regc[r].grant
      BY <1>0 DEF Registration
    <3>6. Send(r, c)  BY <3>1, <3>2
    <3> HIDE DEF c
    <3>7. /\ regc'[r].expires = regc[r].expires /\ regc'[r].auth = regc[r].auth + 1
          /\ regc'[r].grant = regc[r].grant
      BY <1>0, <1>2, <3>4, <3>5, <3>6, SendGoesOn
    <3>8. QED  BY <3>3, <3>7 DEF Advanced
  <2>6. CASE RxTooBrief(r)
    <3>1. PICK m \in 0..MaxRaise :
            IF regc[r].op = "registering" /\ m > regc[r].expires
            THEN Send(r, Registering(SetExpires(regc[r], m), regc[r].auto))
            ELSE Finish(r, Idle(regc[r]))
      BY <2>6 DEF RxTooBrief
    <3>2. m > regc[r].expires /\ net[r] = "refusal"
      BY <2>3, <2>6, <3>1 DEF RxTooBrief, Answered
    <3> DEFINE b == SetExpires(regc[r], m)
               c == Registering(b, regc[r].auto)
    <3>3. b \in Registration /\ b.grant = regc[r].grant
          /\ b.expires = (IF m = regc[r].grant THEN Missing ELSE m)
      BY <1>0, RecordTypes DEF SetExpires, Registration
    <3>4. Send(r, c)  BY <2>3, <3>1
    <3>5. /\ c \in Registration
          /\ c.expires = (IF b.expires = 0 THEN Asked ELSE b.expires)
          /\ c.grant \in {b.grant, Missing}
      <4>1. regc[r].auto \in BOOLEAN  BY <1>0 DEF Registration
      <4> HIDE DEF b
      <4>2. QED  BY <3>3, <4>1, RegisteringFacts
    <3>6. regc'[r].expires = c.expires /\ regc'[r].grant \in {regc[r].grant, Missing}
      <4> HIDE DEF c
      <4>1. QED  BY <1>0, <1>2, <3>3, <3>4, <3>5, SendGoesOn
    <3> HIDE DEF b, c
    <3>7. CASE m = regc[r].grant
      <4>1. regc'[r].expires = Missing /\ regc[r].grant # Missing
        BY <3>3, <3>5, <3>6, <3>7 DEF Missing
      <4>2. QED  BY <3>2, <3>6, <4>1 DEF Advanced
    <3>8. CASE m # regc[r].grant
      <4>1. regc[r].expires \in Int /\ Asked > 0 /\ Asked \in Nat
        BY <1>0, BoundAssumption DEF Registration, Interval, Missing
      <4>2. regc'[r].expires > regc[r].expires
        BY <3>2, <3>3, <3>5, <3>6, <3>8, <4>1
      <4>3. QED  BY <3>6, <4>2 DEF Advanced
    <3>9. QED  BY <3>7, <3>8
  <2>7. ~(RxRefusal(r) \/ Timeout(r))
    BY <2>3 DEF RxRefusal, Timeout
  <2>8. ~Refresh(r)
    BY <1>2 DEF IInv, NeverBusy, Refresh
  <2>9. QED  BY <2>4, <2>5, <2>6, <2>7, <2>8 DEF Handle
<1>3. QED  BY <1>1, <1>2, OneAdvances

(* The network brings a request to the server, or its answer, or nothing.  *)
LEMMA NetworkAdvances ==
  ASSUME IInv, NEW r \in Regc, Lose(r) \/ \E a \in Answer : Serve(r, a)
  PROVE  AttemptAdvances
<1>1. net \in [Regc -> {"none"} \cup Request \cup Answer]  BY DEF IInv, TypeOK
<1>2. CASE Lose(r)
  <2>1. /\ regc' = regc /\ net[r] # "none" /\ net' = [net EXCEPT ![r] = "none"]
    BY <1>2 DEF Lose
  <2>2. Stage(net[r]) \in {1, 2} /\ Stage("none") = 0
    <3>1. CASE net[r] \in Request
      BY <3>1 DEF Stage, Request, Answer
    <3>2. CASE net[r] \notin Request
      <4>1. net[r] \in Answer  BY <1>1, <2>1, <3>2
      <4>2. QED  BY <3>2, <4>1 DEF Stage, Request, Answer
    <3>3. QED  BY <3>1, <3>2
  <2>3. net'[r] = "none" /\ \A q \in Regc : q # r => net'[q] = net[q]
    BY <1>1, <2>1
  <2>4. Stage(net'[r]) < Stage(net[r])
    <3>1. Stage(net'[r]) = 0  BY <2>2, <2>3
    <3>2. QED  BY <2>2, <3>1
  <2>5. Advanced(r)  BY <2>1, <2>4 DEF Advanced
  <2>6. QED  BY <2>1, <2>3, <2>5, OneAdvances
<1>3. CASE \E a \in Answer : Serve(r, a)
  <2>1. PICK a \in Answer : Serve(r, a)  BY <1>3
  <2>2. /\ regc' = regc /\ net[r] \in Request /\ net' = [net EXCEPT ![r] = a]
    BY <2>1 DEF Serve
  <2>3. Stage(net[r]) = 2 /\ Stage(a) = 1
    BY <2>2 DEF Stage, Request, Answer
  <2>4. net'[r] = a /\ \A q \in Regc : q # r => net'[q] = net[q]
    BY <1>1, <2>2
  <2>5. Stage(net'[r]) < Stage(net[r])  BY <2>3, <2>4
  <2>6. Advanced(r)  BY <2>2, <2>5 DEF Advanced
  <2>7. QED  BY <2>2, <2>4, <2>6, OneAdvances
<1>4. QED  BY <1>2, <1>3

(* A click makes a registration of its own.                                *)
LEMMA RegisterAdvances ==
  ASSUME IInv, Fresh, NEW t \in Servers, clicks < MaxClicks, clicks' = clicks + 1,
         Send(clicks + 1, Registering([NoRegc EXCEPT !.srv = t], TRUE))
  PROVE  AttemptAdvances /\ Fresh'
<1> DEFINE r == clicks + 1
           c == Registering([NoRegc EXCEPT !.srv = t], TRUE)
<1>1. r \in Click /\ r \in Regc /\ r > clicks /\ clicks \in Nat /\ MaxClicks \in Nat
  BY BoundAssumption, LastFacts DEF Click, IInv, TypeOK
<1>2. c \in Registration  BY NewRegistration, RegisteringFacts
<1>3. \A q \in Regc : q # r => regc'[q] = regc[q] /\ net'[q] = net[q]
  BY <1>1, <1>2, SendFacts DEF IInv
<1>4. ~Pending(r)  BY <1>1 DEF Fresh
<1>5. AttemptAdvances  BY <1>1, <1>3, <1>4, OneAdvances
<1>6. Fresh'
  <2>1. SUFFICES ASSUME NEW q \in Click, q > clicks'
                 PROVE  ~regc'[q].pending /\ ~regc'[q].armed /\ net'[q] = "none"
    BY DEF Fresh, Pending
  <2>2. q # r /\ q \in Regc /\ q > clicks  BY <1>1, <2>1, LastFacts DEF Click
  <2>3. QED  BY <1>3, <2>2 DEF Fresh, Pending
<1>7. QED  BY <1>5, <1>6

(* unregisterClient makes a registration of its own, too.                  *)
LEMMA UnregisterAdvances ==
  ASSUME IInv, Fresh, gui = "unregister", param # NoUri, clicks' = clicks,
         Send(Last, Unregistering([NoRegc EXCEPT !.srv = param]))
  PROVE  AttemptAdvances /\ Fresh'
<1> DEFINE c == Unregistering([NoRegc EXCEPT !.srv = param])
<1>1. c \in Registration  BY NewRegistration, UnregisteringFacts DEF IInv, TypeOK
<1>2. \A q \in Regc : q # Last => regc'[q] = regc[q] /\ net'[q] = net[q]
  BY <1>1, LastFacts, SendFacts DEF IInv
<1>3. ~Pending(Last)  BY DEF IInv, LastInv, Open
<1>4. AttemptAdvances  BY <1>2, <1>3, LastFacts, OneAdvances
<1>5. Fresh'  BY <1>2, LastFacts DEF Fresh, Pending
<1>6. QED  BY <1>4, <1>5

(* Nothing comes to a registration that does not exist.                    *)
LEMMA FreshStays ==
  ASSUME IInv, Fresh, clicks' = clicks, NEW r \in Regc, Active(r) \/ net[r] # "none",
         \A q \in Regc : q # r => regc'[q] = regc[q] /\ net'[q] = net[q]
  PROVE  Fresh'
<1>1. SUFFICES ASSUME NEW q \in Click, q > clicks
               PROVE  ~regc'[q].pending /\ ~regc'[q].armed /\ net'[q] = "none"
  BY DEF Fresh, Pending
<1>2. q \in Regc /\ q # r
  BY <1>1, LastFacts DEF Fresh, Active, Request
<1>3. QED  BY <1>1, <1>2 DEF Fresh, Pending

LEMMA HandleFresh ==
  ASSUME IInv, Fresh, NEW r \in Regc, Handle(r)
  PROVE  Fresh'
<1>1. PICK c \in Registration : Active(r) /\ (Send(r, c) \/ Finish(r, c))
  BY HandlerCases
<1>2. \A q \in Regc : q # r => regc'[q] = regc[q] /\ net'[q] = net[q]
  <2>1. CASE Send(r, c)
    BY <2>1, SendFacts DEF IInv
  <2>2. CASE Finish(r, c)
    BY <2>2, FinishFacts DEF IInv, TypeOK
  <2>3. QED  BY <1>1, <2>1, <2>2
<1>3. clicks' = clicks  BY DEF Handle
<1>4. QED  BY <1>1, <1>2, <1>3, FreshStays

LEMMA NextAdvances == IInv /\ Fresh /\ [Next]_vars => Fresh' /\ AttemptAdvances
<1> SUFFICES ASSUME IInv, Fresh, [Next]_vars
             PROVE  Fresh' /\ AttemptAdvances
  OBVIOUS
<1>1. CASE UNCHANGED <<clicks, regc, net>>
  BY <1>1 DEF Fresh, Pending, AttemptAdvances, Advanced
<1>2. ASSUME NEW t \in Servers \cup {NoUri}, Play(t) \/ Register(t)
      PROVE  Fresh' /\ AttemptAdvances
  <2>1. CASE UNCHANGED sip
    BY <1>1, <2>1 DEF sip
  <2>2. CASE Register(t) /\ ~UNCHANGED sip
    <3>1. /\ t # NoUri /\ clicks < MaxClicks /\ clicks' = clicks + 1
          /\ Send(clicks + 1, Registering([NoRegc EXCEPT !.srv = t], TRUE))
      BY <2>2 DEF Register, AssertFails
    <3>2. QED  BY <1>2, <3>1, RegisterAdvances
  <2>3. QED  BY <1>2, <2>1, <2>2 DEF Play
<1>3. CASE Unregister
  <2>1. CASE UNCHANGED sip
    BY <1>1, <2>1 DEF sip
  <2>2. CASE ~UNCHANGED sip
    <3>1. /\ gui = "unregister" /\ param # NoUri /\ clicks' = clicks
          /\ Send(Last, Unregistering([NoRegc EXCEPT !.srv = param]))
      BY <1>3, <2>2 DEF Unregister, AssertFails
    <3>2. QED  BY <3>1, UnregisterAdvances
  <2>3. QED  BY <2>1, <2>2
<1>4. CASE Close \/ Join \/ JoinFreed \/ Shutdown \/ KeepAliveTest
           \/ KeepAliveWake \/ SendKeepAlive \/ LoopTest \/ LoopReturn
  BY <1>1, <1>4 DEF Close, Join, JoinFreed, Shutdown, KeepAliveTest,
                    KeepAliveWake, SendKeepAlive, LoopTest, LoopReturn, sip
<1>5. CASE DestroyEndpoint
  <2>1. /\ clicks' = clicks /\ net' = net
        /\ regc' = [r \in Regc |-> Idle(regc[r])]
    BY <1>5 DEF DestroyEndpoint
  <2>2. ASSUME NEW r \in Regc
        PROVE  ~regc'[r].pending /\ ~regc'[r].armed
    <3>1. regc[r] \in Registration  BY DEF IInv, TypeOK
    <3>2. QED  BY <2>1, <3>1, IdleFacts
  <2>3. QED  BY <2>1, <2>2, LastFacts DEF Fresh, AttemptAdvances, Pending
<1>6. ASSUME NEW r \in Regc, Handle(r)  PROVE Fresh' /\ AttemptAdvances
  BY <1>6, HandleAdvances, HandleFresh
<1>7. ASSUME NEW r \in Regc, Lose(r) \/ \E a \in Answer : Serve(r, a)
      PROVE  Fresh' /\ AttemptAdvances
  <2>1. /\ clicks' = clicks /\ net[r] # "none"
        /\ \A q \in Regc : q # r => regc'[q] = regc[q] /\ net'[q] = net[q]
    BY <1>7 DEF Lose, Serve, Request, IInv, TypeOK
  <2>2. Fresh'  BY <2>1, FreshStays
  <2>3. QED  BY <1>7, <2>2, NetworkAdvances
<1>8. ASSUME NEW s \in Servers, Expire(s)  PROVE Fresh' /\ AttemptAdvances
  BY <1>1, <1>8 DEF Expire
<1>9. CASE UNCHANGED vars
  BY <1>1, <1>9 DEF vars, sip
<1>10. QED  BY <1>2, <1>3, <1>4, <1>5, <1>6, <1>7, <1>8, <1>9 DEF Next

(* Both workers test quit_flag before each turn.                           *)
LEMMA NextCloses == IInv /\ [Next]_vars => ClosingAdvances
<1> SUFFICES ASSUME IInv, [Next]_vars, quit
             PROVE  /\ quit' /\ GuiPlace <= GuiPlace'
                    /\ KeepAlivePlace <= KeepAlivePlace' /\ LoopPlace <= LoopPlace'
  BY DEF ClosingAdvances
<1>1. CASE UNCHANGED <<gui, quit, loop, keepalive>>
  BY <1>1 DEF GuiPlace, KeepAlivePlace, LoopPlace
<1>2. gui # "run"  BY DEF IInv, ThreadInv
<1>3. CASE Unregister \/ Join \/ DestroyEndpoint
  <2>1. GuiPlace <= GuiPlace'
    <3>1. CASE gui = "unregister" /\ gui' = "join"
      <4>1. GuiPlace = 1 /\ GuiPlace' = 2  BY <3>1 DEF GuiPlace
      <4>2. QED  BY <4>1
    <3>2. CASE gui = "join" /\ gui' = "endpoint"
      <4>1. GuiPlace = 2 /\ GuiPlace' = 3  BY <3>2 DEF GuiPlace
      <4>2. QED  BY <4>1
    <3>3. CASE gui = "endpoint" /\ gui' = "shutdown"
      <4>1. GuiPlace = 3 /\ GuiPlace' = 4  BY <3>3 DEF GuiPlace
      <4>2. QED  BY <4>1
    <3>4. QED
      BY <1>3, <3>1, <3>2, <3>3 DEF Unregister, Join, DestroyEndpoint
  <2>2. UNCHANGED <<quit, loop, keepalive>>
    BY <1>3 DEF Unregister, Join, DestroyEndpoint
  <2>3. QED  BY <2>1, <2>2 DEF KeepAlivePlace, LoopPlace
<1>4. CASE KeepAliveTest \/ KeepAliveWake \/ SendKeepAlive
  <2>1. KeepAlivePlace <= KeepAlivePlace'
    <3>1. CASE keepalive = "test" /\ keepalive' = "ended"
      <4>1. KeepAlivePlace = 2 /\ KeepAlivePlace' = 3  BY <3>1 DEF KeepAlivePlace
      <4>2. QED  BY <4>1
    <3>2. CASE keepalive = "sleep" /\ keepalive' = "send"
      <4>1. KeepAlivePlace = 0 /\ KeepAlivePlace' = 1  BY <3>2 DEF KeepAlivePlace
      <4>2. QED  BY <4>1
    <3>3. CASE keepalive = "send" /\ keepalive' = "test"
      <4>1. KeepAlivePlace = 1 /\ KeepAlivePlace' = 2  BY <3>3 DEF KeepAlivePlace
      <4>2. QED  BY <4>1
    <3>4. QED
      BY <1>4, <3>1, <3>2, <3>3 DEF KeepAliveTest, KeepAliveWake, SendKeepAlive
  <2>2. UNCHANGED <<gui, quit, loop>>
    BY <1>4 DEF KeepAliveTest, KeepAliveWake, SendKeepAlive
  <2>3. QED  BY <2>1, <2>2 DEF GuiPlace, LoopPlace
<1>5. CASE LoopTest \/ LoopReturn
  <2>1. LoopPlace <= LoopPlace'
    <3>1. CASE loop = "test" /\ loop' = "ended"
      <4>1. LoopPlace = 1 /\ LoopPlace' = 2  BY <3>1 DEF LoopPlace
      <4>2. QED  BY <4>1
    <3>2. CASE loop = "events" /\ loop' = "test"
      <4>1. LoopPlace = 0 /\ LoopPlace' = 1  BY <3>2 DEF LoopPlace
      <4>2. QED  BY <4>1
    <3>3. QED
      BY <1>5, <3>1, <3>2 DEF LoopTest, LoopReturn
  <2>2. UNCHANGED <<gui, quit, keepalive>>
    BY <1>5 DEF LoopTest, LoopReturn
  <2>3. QED  BY <2>1, <2>2 DEF GuiPlace, KeepAlivePlace
<1>6. CASE JoinFreed \/ Shutdown \/ UNCHANGED vars
  BY <1>1, <1>6 DEF JoinFreed, Shutdown, vars, threads
<1>7. CASE \E r \in Regc : Handle(r) \/ Lose(r) \/ \E a \in Answer : Serve(r, a)
  BY <1>1, <1>7 DEF Handle, Lose, Serve, threads
<1>8. CASE \E s \in Servers : Expire(s)
  BY <1>1, <1>8 DEF Expire, threads
<1>9. CASE \E t \in Servers \cup {NoUri} : Play(t) \/ Register(t)
  BY <1>2, <1>9 DEF Play, Register
<1>10. CASE Close
  BY <1>2, <1>10 DEF Close
<1>11. QED  BY <1>3, <1>4, <1>5, <1>6, <1>7, <1>8, <1>9, <1>10 DEF Next

(* When the window is closed every thread only goes towards its end: the   *)
(* keep-alive thread and the event loop finish the turn they are in.       *)
THEOREM ClosingOnlyAdvances == Spec => [][ClosingAdvances]_vars
<1>1. IInv /\ [Next]_vars => [ClosingAdvances]_vars
  BY NextCloses
<1>2. QED  BY <1>1, Invariance, PTL DEF Spec

(* Whatever servers answer, a registration attempt that is not over has    *)
(* come nearer to its end: the interval asked for has grown, or else the   *)
(* number of credentials given, or else the message has come nearer; each  *)
(* of them is bounded, and no refresh timer starts the attempt anew.  The  *)
(* one exception is the 423 that set_expires answers with no interval at   *)
(* all; it takes an interval granted before, which no attempt makes: the   *)
(* first attempt of a registration, at least, cannot go on for ever.       *)
THEOREM AttemptsOnlyAdvance == Spec => [][AttemptAdvances]_vars
<1>1. Init => Fresh
  BY LastFacts DEF Init, Fresh, Pending, NoRegc
<1>2. IInv /\ Fresh /\ [Next]_vars => [AttemptAdvances]_vars
  BY NextAdvances
<1>3. QED  BY <1>1, <1>2, NextAdvances, Invariance, PTL DEF Spec

=============================================================================
