------------------------- MODULE Transaction_proofs -------------------------
(***************************************************************************)
(* Proofs about a transaction of any set of kinds: its references are      *)
(* counted exactly, no thread is in freed memory, its timers are armed,    *)
(* and it implements TsxLife.  The operators of Transaction are functions  *)
(* of a transaction; a lemma for each says what it keeps, and the          *)
(* inductive invariant IInv follows for the actions made of them.          *)
(***************************************************************************)
EXTENDS Transaction, TLAPS

Gone == {"Terminated", "Destroyed"}

(* A transaction, of which n references are held by someone else.           *)
Held(t, n) == t \in TsxWith(Int) /\ HeldBy(t, n)

(* Where the event loop is, and what it brings along.                       *)
LoopInv ==
  /\ loop.pc = "idle" => loop = Idle
  /\ loop.pc \in {"fired", "posted", "recv"} => loop.ref = 1
  /\ loop.pc = "sent" =>
       loop.ref = 0 /\ tsx.flight \in {"resolve", "detached"} /\ tsx.state # "Destroyed"
  /\ loop.pc # "idle" => tsx.state # "none"
  /\ loop.pc = "tell" => loop.how # "none" /\ told # "Destroyed"
  /\ loop.pc = "fired" => loop.entry # "none"
  /\ loop.pc = "posted" => tsx.state # "Destroyed"
  /\ loop.pc = "fired" /\ loop.entry = "timeout" /\ tsx.timeout => tsx.id = "TIMEOUT"
  /\ loop.pc = "tell" /\ loop.how = "posted" =>
       /\ tsx.state = "Terminated" /\ tsx.flight # "resolve"
       /\ tsx.timeout => tsx.id = "TIMEOUT"

(* Who holds the reference of the transaction itself, and what was told.    *)
LifeInv ==
  /\ tsx.state \notin {"Null", "Trying"}
  /\ tsx.state = "none" <=> told = "none"
  /\ tsx.state = "none" =>
       tsx.refs = 0 /\ ~tsx.timeout /\ ~tsx.retransmit /\ tsx.flight = "none"
  /\ tsx.state # told => loop.pc = "tell"
  /\ told = "Destroyed" => tsx.state = "Destroyed"
  /\ tsx.own = IF tsx.state = "none" \/ told = "Destroyed" THEN 0 ELSE 1
  /\ tsx.registered <=> tsx.own = 1

AppInv ==
  /\ app = "new" => tsx.state = "none" /\ Client(tsx)
  /\ app \in {"idle", "aimed", "ending"} => tsx.state # "none"
  /\ AppHoldsDlg => told \notin {"none", "Destroyed"}

(* Something ends t: its timer, or the user who lets it ring. *)
Ends(t) == t.timeout \/ (t.kind = "invite" /\ t.state = "Proceeding")

(* The loop has the end of the transaction, or its next timer, in hand.     *)
InHand ==
  \/ loop.pc = "posted" \/ (loop.pc = "fired" /\ loop.entry = "timeout")
  \/ loop.pc = "tell" /\ loop.timerD

(* A terminated transaction has the timer that will destroy it, or an error *)
(* of a late send took it.                                                  *)
TerminatedIsArmed ==
  tsx.state = "Terminated" =>
    \/ tsx.timeout \/ lost \/ loop.pc = "tell"
    \/ loop.pc = "fired" /\ loop.entry = "timeout" /\ tsx.id = "TIMEOUT"

(* Something ends a transaction that is under way.  A send that is left     *)
(* alone belongs to a terminated one, whose timer is that which destroys    *)
(* it; a destroyed one sends nothing again.                                 *)
EndInv ==
  /\ tsx.state \notin Gone \cup {"none"} => Ends(tsx) \/ InHand
  /\ told = "Destroyed" => ~tsx.retransmit
  /\ TerminatedIsArmed
  /\ tsx.state = "Terminated" /\ tsx.timeout /\ loop.pc # "tell" /\ ~lost =>
       tsx.id = "TIMEOUT"
  /\ tsx.state \in Gone /\ loop.pc # "tell" => tsx.flight # "resolve"
  /\ tsx.state = "Destroyed" => tsx.flight # "resolve"
  /\ tsx.flight = "detached" => tsx.state \in Gone

RetransmitInv ==
  ~(loop.pc = "fired" /\ loop.entry = "retransmit") /\ Waiting(tsx) => Armed(tsx)

IInv == TypeOK /\ RefsAreHeld /\ LoopInv /\ LifeInv /\ AppInv /\ EndInv /\ RetransmitInv

-----------------------------------------------------------------------------
(* The operators on a transaction *)

Same(t, u) ==
  /\ u.kind = t.kind /\ u.state = t.state /\ u.own = t.own
  /\ u.registered = t.registered

(* What neither timer changes.                                              *)
Timed(t, u) ==
  /\ Same(t, u) /\ u.status = t.status /\ u.flight = t.flight
  /\ u.transport = t.transport /\ u.resolved = t.resolved /\ u.pendSend = t.pendSend

LEMMA CancelFacts ==
  ASSUME NEW n \in Int, NEW t, Held(t, n)
  PROVE  LET u == Cancel(t)
         IN /\ Held(u, n) /\ Timed(t, u)
            /\ u.retransmit = t.retransmit /\ u.pendResched = t.pendResched
            /\ ~u.timeout /\ u.id = "INACTIVE"
<1>1. t \in TsxWith(Int) /\ (IF t.timeout THEN t.refs - 1 ELSE t.refs) \in Int
  BY DEF Held, TsxWith
<1>2. Cancel(t) \in TsxWith(Int)  BY <1>1 DEF TsxWith, Cancel, TimerId
<1>3. HeldBy(Cancel(t), n)  BY DEF Held, HeldBy, TsxWith, Cancel, B
<1>4. QED  BY <1>1, <1>2, <1>3 DEF Held, TsxWith, Timed, Same, Cancel

LEMMA ScheduleFacts ==
  ASSUME NEW n \in Int, NEW t, Held(t, n), NEW i \in {"TIMEOUT", "TRANSPORT_ERR"}
  PROVE  LET u == Schedule(t, i)
         IN /\ Held(u, n) /\ Timed(t, u)
            /\ u.retransmit = t.retransmit /\ u.pendResched = t.pendResched
            /\ u.timeout /\ u.id = IF t.timeout THEN t.id ELSE i
<1>1. t \in TsxWith(Int) /\ t.refs \in Int /\ t.refs + 1 \in Int  BY DEF Held, TsxWith
<1>2. CASE t.timeout  BY <1>1, <1>2 DEF Held, Timed, Same, Schedule
<1>3. CASE ~t.timeout
  <2>1. Schedule(t, i) \in TsxWith(Int)  BY <1>1, <1>3 DEF TsxWith, Schedule, TimerId
  <2>2. HeldBy(Schedule(t, i), n)  BY <1>3 DEF Held, HeldBy, TsxWith, Schedule, B
  <2>3. QED  BY <1>1, <1>3, <2>1, <2>2 DEF Held, TsxWith, Timed, Same, Schedule
<1>4. QED  BY <1>2, <1>3

LEMMA RestartFacts ==
  ASSUME NEW n \in Int, NEW t, Held(t, n), NEW i \in {"TIMEOUT", "TRANSPORT_ERR"}
  PROVE  LET u == Restart(t, i)
         IN /\ Held(u, n) /\ Timed(t, u)
            /\ u.retransmit = t.retransmit /\ u.pendResched = t.pendResched
            /\ u.timeout /\ u.id = i
<1>1. Held(Cancel(t), n) /\ Timed(t, Cancel(t)) /\ ~Cancel(t).timeout
      /\ Cancel(t).retransmit = t.retransmit /\ Cancel(t).pendResched = t.pendResched
  BY CancelFacts
<1>2. QED  BY <1>1, ScheduleFacts DEF Restart, Timed, Same

LEMMA CancelRetransmitFacts ==
  ASSUME NEW n \in Int, NEW t, Held(t, n)
  PROVE  LET u == CancelRetransmit(t)
         IN /\ Held(u, n) /\ Timed(t, u)
            /\ u.timeout = t.timeout /\ u.id = t.id
            /\ ~u.retransmit /\ u.pendResched = t.pendResched
<1>1. t \in TsxWith(Int) /\ t.refs \in Int /\ t.refs - 1 \in Int  BY DEF Held, TsxWith
<1>2. CASE ~t.retransmit  BY <1>1, <1>2 DEF Held, Timed, Same, CancelRetransmit
<1>3. CASE t.retransmit
  <2>1. CancelRetransmit(t) \in TsxWith(Int)  BY <1>1, <1>3 DEF TsxWith, CancelRetransmit
  <2>2. HeldBy(CancelRetransmit(t), n)
    BY <1>3 DEF Held, HeldBy, TsxWith, CancelRetransmit, B
  <2>3. QED  BY <1>1, <1>3, <2>1, <2>2 DEF Held, TsxWith, Timed, Same, CancelRetransmit
<1>4. QED  BY <1>2, <1>3

LEMMA ScheduleRetransmitFacts ==
  ASSUME NEW n \in Int, NEW t, Held(t, n)
  PROVE  LET u == ScheduleRetransmit(t)
         IN /\ Held(u, n) /\ Timed(t, u) /\ u.timeout = t.timeout /\ u.id = t.id
            /\ u.retransmit /\ u.pendResched = t.pendResched
<1>1. t \in TsxWith(Int) /\ t.refs \in Int /\ t.refs + 1 \in Int  BY DEF Held, TsxWith
<1>2. CASE t.retransmit  BY <1>1, <1>2 DEF Held, Timed, Same, ScheduleRetransmit
<1>3. CASE ~t.retransmit
  <2>1. ScheduleRetransmit(t) \in TsxWith(Int)
    BY <1>1, <1>3 DEF TsxWith, ScheduleRetransmit
  <2>2. HeldBy(ScheduleRetransmit(t), n)
    BY <1>3 DEF Held, HeldBy, TsxWith, ScheduleRetransmit, B
  <2>3. QED  BY <1>1, <1>3, <2>1, <2>2 DEF Held, TsxWith, Timed, Same, ScheduleRetransmit
<1>4. QED  BY <1>2, <1>3

Counted(t, u) ==
  /\ u.refs = t.refs /\ u.own = t.own /\ u.timeout = t.timeout
  /\ u.retransmit = t.retransmit /\ u.flight = t.flight

LEMMA SameCount ==
  ASSUME NEW n \in Int, NEW t, Held(t, n), NEW u \in TsxWith(Int), Counted(t, u)
  PROVE  Held(u, n)
BY DEF Held, HeldBy, Counted

(* A field that is neither counted nor a count may be set at will.          *)
LEMMA SetFacts ==
  ASSUME NEW n \in Int, NEW t, Held(t, n), NEW b \in BOOLEAN, NEW c \in BOOLEAN,
         NEW s \in State, NEW z \in {"none", "prov", "final"}, NEW i \in TimerId
  PROVE  /\ Held([t EXCEPT !.pendResched = b], n)
         /\ Held([t EXCEPT !.pendSend = b], n)
         /\ Held([t EXCEPT !.transport = b], n)
         /\ Held([t EXCEPT !.transport = b, !.resolved = TRUE], n)
         /\ Held([t EXCEPT !.transport = b, !.resolved = TRUE, !.pendSend = c], n)
         /\ Held([t EXCEPT !.status = z], n)
         /\ Held([t EXCEPT !.state = s], n)
         /\ Held([t EXCEPT !.id = i], n)
         /\ Held([t EXCEPT !.pendResched = b, !.state = s], n)
         /\ Held([t EXCEPT !.status = z, !.state = s], n)
         /\ Held([t EXCEPT !.state = s, !.status = z], n)
<1>. t \in TsxWith(Int)  BY DEF Held
<1>1. Held([t EXCEPT !.pendResched = b], n)
  <2>1. [t EXCEPT !.pendResched = b] \in TsxWith(Int)
    BY DEF TsxWith
  <2>2. Counted(t, [t EXCEPT !.pendResched = b])
    BY DEF TsxWith, Counted
  <2>3. QED  BY <2>1, <2>2, SameCount
<1>2. Held([t EXCEPT !.pendSend = b], n)
  <2>1. [t EXCEPT !.pendSend = b] \in TsxWith(Int)
    BY DEF TsxWith
  <2>2. Counted(t, [t EXCEPT !.pendSend = b])
    BY DEF TsxWith, Counted
  <2>3. QED  BY <2>1, <2>2, SameCount
<1>3. Held([t EXCEPT !.transport = b], n)
  <2>1. [t EXCEPT !.transport = b] \in TsxWith(Int)
    BY DEF TsxWith
  <2>2. Counted(t, [t EXCEPT !.transport = b])
    BY DEF TsxWith, Counted
  <2>3. QED  BY <2>1, <2>2, SameCount
<1>4. Held([t EXCEPT !.transport = b, !.resolved = TRUE], n)
  <2>1. [t EXCEPT !.transport = b, !.resolved = TRUE] \in TsxWith(Int)
    BY DEF TsxWith
  <2>2. Counted(t, [t EXCEPT !.transport = b, !.resolved = TRUE])
    BY DEF TsxWith, Counted
  <2>3. QED  BY <2>1, <2>2, SameCount
<1>5. Held([t EXCEPT !.transport = b, !.resolved = TRUE, !.pendSend = c], n)
  <2>1. [t EXCEPT !.transport = b, !.resolved = TRUE, !.pendSend = c] \in TsxWith(Int)
    BY DEF TsxWith
  <2>2. Counted(t, [t EXCEPT !.transport = b, !.resolved = TRUE, !.pendSend = c])
    BY DEF TsxWith, Counted
  <2>3. QED  BY <2>1, <2>2, SameCount
<1>6. Held([t EXCEPT !.status = z], n)
  <2>1. [t EXCEPT !.status = z] \in TsxWith(Int)
    BY DEF TsxWith
  <2>2. Counted(t, [t EXCEPT !.status = z])
    BY DEF TsxWith, Counted
  <2>3. QED  BY <2>1, <2>2, SameCount
<1>7. Held([t EXCEPT !.state = s], n)
  <2>1. [t EXCEPT !.state = s] \in TsxWith(Int)
    BY DEF TsxWith
  <2>2. Counted(t, [t EXCEPT !.state = s])
    BY DEF TsxWith, Counted
  <2>3. QED  BY <2>1, <2>2, SameCount
<1>8. Held([t EXCEPT !.id = i], n)
  <2>1. [t EXCEPT !.id = i] \in TsxWith(Int)
    BY DEF TsxWith
  <2>2. Counted(t, [t EXCEPT !.id = i])
    BY DEF TsxWith, Counted
  <2>3. QED  BY <2>1, <2>2, SameCount
<1>9. Held([t EXCEPT !.pendResched = b, !.state = s], n)
  <2>1. [t EXCEPT !.pendResched = b, !.state = s] \in TsxWith(Int)
    BY DEF TsxWith
  <2>2. Counted(t, [t EXCEPT !.pendResched = b, !.state = s])
    BY DEF TsxWith, Counted
  <2>3. QED  BY <2>1, <2>2, SameCount
<1>10. Held([t EXCEPT !.status = z, !.state = s], n)
  <2>1. [t EXCEPT !.status = z, !.state = s] \in TsxWith(Int)
    BY DEF TsxWith
  <2>2. Counted(t, [t EXCEPT !.status = z, !.state = s])
    BY DEF TsxWith, Counted
  <2>3. QED  BY <2>1, <2>2, SameCount
<1>11. Held([t EXCEPT !.state = s, !.status = z], n)
  <2>1. [t EXCEPT !.state = s, !.status = z] \in TsxWith(Int)
    BY DEF TsxWith
  <2>2. Counted(t, [t EXCEPT !.state = s, !.status = z])
    BY DEF TsxWith, Counted
  <2>3. QED  BY <2>1, <2>2, SameCount
<1>12. QED  BY <1>1, <1>2, <1>3, <1>4, <1>5, <1>6, <1>7, <1>8, <1>9, <1>10, <1>11

LEMMA StartRetransmitFacts ==
  ASSUME NEW n \in Int, NEW t, Held(t, n)
  PROVE  LET u == StartRetransmit(t)
         IN /\ Held(u, n) /\ Timed(t, u) /\ u.timeout = t.timeout /\ u.id = t.id
            /\ Armed(u)
<1>1. CASE Pending(t)
  <2>1. StartRetransmit(t) = [t EXCEPT !.pendResched = TRUE]  BY <1>1 DEF StartRetransmit
  <2>2. Held(StartRetransmit(t), n)  BY <2>1, SetFacts DEF State, TimerId
  <2>3. QED  BY <2>1, <2>2 DEF Held, TsxWith, Timed, Same, Armed
<1>2. CASE ~Pending(t)
  BY <1>2, ScheduleRetransmitFacts DEF StartRetransmit, Armed
<1>3. QED  BY <1>1, <1>2

-----------------------------------------------------------------------------
(* Sending: the transaction goes on or is terminated, its timers stay as    *)
(* they are, and a retransmission that was to come still comes.             *)

Sending(t, u) ==
  /\ u.kind = t.kind /\ u.own = t.own /\ u.registered = t.registered
  /\ u.timeout = t.timeout /\ u.id = t.id
  /\ u.state \in {t.state, "Terminated"}
  /\ Armed(t) => Armed(u)
  /\ t.retransmit => u.retransmit
  /\ u.flight # "detached"

LEMMA SendingTransitive ==
  ASSUME NEW t, NEW u, NEW v, Sending(t, u), Sending(u, v)
  PROVE  Sending(t, v)
BY DEF Sending

LEMMA OnTransportFacts ==
  ASSUME NEW n \in Int, NEW t, Held(t, n), t.flight = "none", NEW u \in OnTransport(t)
  PROVE  Held(u, n) /\ Sending(t, u)
<1>. t \in TsxWith(Int) /\ t.refs + 1 \in Int  BY DEF Held, TsxWith
<1>1. CASE u = t  BY <1>1 DEF Sending
<1>2. CASE u = [t EXCEPT !.flight = "transport", !.refs = @ + 1]
  <2>1. u \in TsxWith(Int)  BY <1>2 DEF TsxWith
  <2>2. /\ u.flight = "transport" /\ u.refs = t.refs + 1
        /\ u.timeout = t.timeout /\ u.id = t.id
        /\ u.retransmit = t.retransmit /\ u.pendResched = t.pendResched
    BY <1>2 DEF TsxWith, Timed, Same
  <2>3. Same(t, u)  BY <1>2 DEF TsxWith, Same
  <2>4. HeldBy(u, n)  BY <2>2, <2>3 DEF Held, HeldBy, TsxWith, Same, B
  <2>5. QED  BY <2>1, <2>2, <2>3, <2>4 DEF Held, Sending, Same, Armed
<1>3. QED  BY <1>1, <1>2 DEF OnTransport

LEMMA OverFacts ==
  ASSUME NEW n \in Int, NEW t, Held(t, n)
  PROVE  LET u == Over(t)
         IN /\ Held(u, n) /\ u.state = "Terminated" /\ u.kind = t.kind
            /\ u.own = t.own /\ u.registered = t.registered /\ u.flight = t.flight
            /\ u.timeout = t.timeout /\ u.id = t.id
            /\ u.retransmit = t.retransmit /\ u.pendResched = t.pendResched
<1>1. "final" \in {"none", "prov", "final"} /\ "Terminated" \in State  BY DEF State
<1>2. Held(Over(t), n)  BY <1>1, SetFacts DEF Over, TimerId
<1>3. QED  BY <1>2 DEF Held, TsxWith, Over

LEMMA NotSentFacts ==
  ASSUME NEW n \in Int, NEW t, Held(t, n), t.flight # "detached"
  PROVE  /\ Held(NotSent(t), n) /\ Sending(t, NotSent(t))
         /\ NotSent(t).state = "Terminated"
<1> DEFINE u == [t EXCEPT !.transport = FALSE, !.resolved = TRUE]
<1>1. Held(u, n)  BY SetFacts DEF State, TimerId
<1>2. /\ u.kind = t.kind /\ u.own = t.own /\ u.registered = t.registered
      /\ u.flight = t.flight /\ u.timeout = t.timeout /\ u.id = t.id
      /\ u.retransmit = t.retransmit /\ u.pendResched = t.pendResched
  BY DEF Held, TsxWith
<1>. HIDE DEF u
<1>3. NotSent(t) = Over(u)  BY DEF NotSent, u
<1>4. QED  BY <1>1, <1>2, <1>3, OverFacts DEF Sending, Armed

LEMMA ReschedFacts ==
  ASSUME NEW n \in Int, NEW t, Held(t, n), t.flight # "detached"
  PROVE  Held(Resched(t), n) /\ Sending(t, Resched(t))
<1>1. CASE t.pendResched /\ ~Pending(t)
  <2> DEFINE u == [t EXCEPT !.pendResched = FALSE]
  <2>1. Held(u, n)  BY SetFacts DEF State, TimerId
  <2>2. Timed(t, u) /\ u.timeout = t.timeout /\ u.id = t.id
    BY DEF Held, TsxWith, Timed, Same
  <2>. HIDE DEF u
  <2>3. Resched(t) = ScheduleRetransmit(u)  BY <1>1 DEF Resched, u
  <2>4. QED  BY <2>1, <2>2, <2>3, ScheduleRetransmitFacts DEF Sending, Timed, Same, Armed
<1>2. CASE ~(t.pendResched /\ ~Pending(t))  BY <1>2 DEF Resched, Sending
<1>3. QED  BY <1>1, <1>2

LEMMA FoundFacts ==
  ASSUME NEW n \in Int, NEW t, Held(t, n), t.flight = "none", NEW v \in Found(t)
  PROVE  Held(v, n) /\ Sending(t, v)
<1> DEFINE f == [t EXCEPT !.transport = TRUE, !.resolved = TRUE, !.pendSend = FALSE]
<1>1. Held(f, n)  BY SetFacts DEF State, TimerId
<1>3. /\ Same(t, f) /\ f.flight = "none" /\ f.timeout = t.timeout /\ f.id = t.id
      /\ f.retransmit = t.retransmit /\ f.pendResched = t.pendResched
  BY DEF Held, TsxWith, Same
<1>4. Sending(t, f)  BY <1>3 DEF Sending, Same, Armed
<1>. HIDE DEF f
<1>5. PICK u \in OnTransport(f) \cup {NotSent(f)} \cup {f} : v = Resched(u)
  BY DEF Found, f
<1>6. Held(u, n) /\ Sending(f, u)
  BY <1>1, <1>3, <1>5, OnTransportFacts, NotSentFacts DEF Sending
<1>7. Held(v, n) /\ Sending(u, v)
  BY <1>5, <1>6, ReschedFacts DEF Sending
<1>8. QED  BY <1>4, <1>6, <1>7, SendingTransitive

(* It leaves no second send to the resolver.                                *)
LEMMA FoundFlight ==
  ASSUME NEW t \in TsxWith(Int), t.flight = "none", NEW v \in Found(t)
  PROVE  v.flight # "resolve"
<1> DEFINE f == [t EXCEPT !.transport = TRUE, !.resolved = TRUE, !.pendSend = FALSE]
<1>1. f \in TsxWith(Int) /\ f.flight = "none"  BY DEF TsxWith
<1>2. PICK u \in OnTransport(f) \cup {NotSent(f)} \cup {f} : v = Resched(u)
  BY DEF Found
<1>. HIDE DEF f
<1>3. DOMAIN u = DOMAIN f /\ u.flight # "resolve"
  BY <1>1, <1>2 DEF OnTransport, NotSent, Over, TsxWith
<1>4. v.flight = u.flight
  BY <1>1, <1>2, <1>3 DEF Resched, ScheduleRetransmit, TsxWith
<1>5. QED  BY <1>3, <1>4

LEMMA ResolveFacts ==
  ASSUME NEW n \in Int, NEW t, Held(t, n), t.flight = "none", NEW u \in Resolve(t)
  PROVE  Held(u, n) /\ Sending(t, u)
<1>. t \in TsxWith(Int) /\ t.refs + 1 \in Int  BY DEF Held, TsxWith
<1>1. CASE u = [t EXCEPT !.flight = "resolve", !.refs = @ + 1]
  <2>1. u \in TsxWith(Int)  BY <1>1 DEF TsxWith
  <2>2. /\ u.flight = "resolve" /\ u.refs = t.refs + 1 /\ Same(t, u)
        /\ u.timeout = t.timeout /\ u.id = t.id
        /\ u.retransmit = t.retransmit /\ u.pendResched = t.pendResched
    BY <1>1 DEF TsxWith, Same
  <2>3. HeldBy(u, n)  BY <2>2 DEF Held, HeldBy, TsxWith, Same, B
  <2>4. QED  BY <2>1, <2>2, <2>3 DEF Held, Sending, Same, Armed
<1>2. CASE u = NotSent(t) \/ u \in Found(t)
  BY <1>2, NotSentFacts, FoundFacts
<1>3. QED  BY <1>1, <1>2 DEF Resolve

LEMMA SendMsgFacts ==
  ASSUME NEW n \in Int, NEW t, Held(t, n), t.flight # "detached", NEW u \in SendMsg(t)
  PROVE  Held(u, n) /\ Sending(t, u)
<1>1. CASE Pending(t)
  <2>1. u = [t EXCEPT !.pendSend = TRUE]  BY <1>1 DEF SendMsg
  <2>2. Held(u, n)  BY <2>1, SetFacts DEF State, TimerId
  <2>3. QED  BY <2>1, <2>2 DEF Held, TsxWith, Sending, Armed
<1>2. CASE ~Pending(t)
  <2>1. t.flight = "none"  BY <1>2 DEF Held, TsxWith, Pending
  <2> DEFINE f == [t EXCEPT !.transport = FALSE]
  <2>2. Held(f, n)  BY SetFacts DEF State, TimerId
  <2>3. f.flight = "none" /\ Sending(t, f)  BY <2>1 DEF Held, TsxWith, Sending, Armed
  <2>. HIDE DEF f
  <2>4. u \in OnTransport(t) \/ u = NotSent(t) \/ u \in Resolve(f)
    BY <1>2 DEF SendMsg, f
  <2>5. QED
    BY <2>1, <2>2, <2>3, <2>4, OnTransportFacts, NotSentFacts, ResolveFacts, SendingTransitive
<1>3. QED  BY <1>1, <1>2

(* A retransmission that the fired timer asked for arms it again.           *)
LEMMA RetransmitFacts ==
  ASSUME NEW n \in Int, NEW t, Held(t, n), t.flight # "detached", NEW b \in BOOLEAN,
         NEW u \in Retransmit(t, b)
  PROVE  Held(u, n) /\ Sending(t, u) /\ (b => Armed(u))
<1>1. CASE b /\ t.retransmit  BY <1>1 DEF Retransmit, Sending, Armed
<1>2. CASE b /\ ~t.retransmit
  <2>1. /\ Held(StartRetransmit(t), n) /\ Timed(t, StartRetransmit(t))
        /\ StartRetransmit(t).timeout = t.timeout /\ StartRetransmit(t).id = t.id
        /\ Armed(StartRetransmit(t))
    BY StartRetransmitFacts
  <2>2. Sending(t, StartRetransmit(t))  BY <1>2, <2>1 DEF Sending, Timed, Same
  <2>3. u \in SendMsg(StartRetransmit(t))  BY <1>2 DEF Retransmit
  <2>4. Held(u, n) /\ Sending(StartRetransmit(t), u)
    BY <2>1, <2>2, <2>3, SendMsgFacts DEF Sending
  <2>5. QED  BY <2>1, <2>2, <2>4, SendingTransitive DEF Sending
<1>3. CASE ~b  BY <1>3, SendMsgFacts DEF Retransmit
<1>4. QED  BY <1>1, <1>2, <1>3

-----------------------------------------------------------------------------
(* The state handlers *)

Forward(s, z) == z = s \/ Life!Rank[z] > Life!Rank[s]

LEMMA ForwardFacts ==
  /\ \A s \in {"Calling", "Proceeding", "Completed", "Confirmed"} : Forward(s, "Terminated")
  /\ Forward("Terminated", "Destroyed") /\ Forward("Calling", "Proceeding")
  /\ Forward("Calling", "Completed") /\ Forward("Proceeding", "Completed")
  /\ Forward("Completed", "Confirmed")
  /\ \A s \in State : Forward(s, s)
BY DEF Forward, Life!Rank

Ready(t) == Waiting(t) => Armed(t)

(* A transaction that a handler may be called for.                          *)
Begun(t) ==
  /\ t.state \in {"Calling", "Proceeding", "Completed", "Confirmed", "Terminated", "Destroyed"}
  /\ t.flight = "detached" => t.state \in Gone

(* What a handler makes of t: it goes forwards, one that ends has its user  *)
(* told, and one that has ended already is left alone or destroyed.         *)
Handled(t, o, n) ==
  /\ Held(o.t, n) /\ Begun(o.t) /\ Ready(o.t)
  /\ o.t.kind = t.kind /\ o.t.own = t.own /\ o.t.registered = t.registered
  /\ o.how \in {"none", "locked", "unlocked"} /\ o.timerD \in BOOLEAN
  /\ Forward(t.state, o.t.state)
  /\ o.t.state # t.state => o.how # "none"
  /\ o.t.state = "Destroyed" => t.state \in Gone
  /\ t.state \in Gone => o.t.flight = t.flight
  /\ t.state = "Destroyed" => o.how = "none"
  /\ t.state \in Gone /\ o.how = "none" => o.t = t
  /\ t.state \notin Gone /\ Ends(t) =>
       Ends(o.t) \/ (o.how # "none" /\ (o.timerD \/ o.t.state \in Gone))

LEMMA QuietFacts ==
  ASSUME NEW n \in Int, NEW t, Held(t, n), Begun(t), Ready(t), NEW o \in Quiet(t)
  PROVE  Handled(t, o, n)
<1>1. o.t = t /\ o.how = "none" /\ o.timerD = FALSE  BY DEF Quiet, Outcome
<1>2. Forward(t.state, t.state)  BY DEF Forward
<1>3. QED  BY <1>1, <1>2 DEF Handled, Gone

LEMMA SentFacts ==
  ASSUME NEW n \in Int, NEW t, Begun(t), t.state \notin Gone,
         NEW S, NEW o \in Sent(S),
         \A u \in S : Held(u, n) /\ Sending(t, u) /\ Ready(u)
  PROVE  Handled(t, o, n)
<1>1. PICK u \in S : o = Outcome(u, IF u.state = "Terminated" THEN "locked" ELSE "none")
  BY DEF Sent
<1>2. /\ o.t = u /\ o.timerD = FALSE
      /\ o.how = IF u.state = "Terminated" THEN "locked" ELSE "none"
  BY <1>1 DEF Outcome
<1>3. Held(u, n) /\ Sending(t, u) /\ Ready(u)  OBVIOUS
<1>4. u.state \in {t.state, "Terminated"} /\ Begun(u)
  BY <1>3 DEF Begun, Sending, Gone
<1>5. Forward(t.state, u.state)  BY <1>4, ForwardFacts DEF Begun, Gone, State
<1>6. Ends(t) => Ends(u) \/ u.state = "Terminated"
  BY <1>3 DEF Ends, Sending
<1>7. QED  BY <1>2, <1>3, <1>4, <1>5, <1>6 DEF Handled, Sending, Gone, Begun

LEMMA DestroyedFacts ==
  ASSUME NEW n \in Int, NEW t, Held(t, n), Begun(t), t.state = "Terminated",
         NEW w \in {"locked", "unlocked"}, NEW o \in Destroyed(t, w)
  PROVE  Handled(t, o, n)
<1> DEFINE u == [t EXCEPT !.state = "Destroyed"]
<1>1. "Destroyed" \in State  BY DEF State
<1>2. Held(u, n)  BY <1>1, SetFacts DEF TimerId
<1>3. /\ u.state = "Destroyed" /\ u.kind = t.kind /\ u.own = t.own
      /\ u.registered = t.registered /\ u.flight = t.flight
  BY DEF Held, TsxWith
<1>. HIDE DEF u
<1>4. o.t = u /\ o.how = w /\ o.timerD = FALSE  BY DEF Destroyed, Outcome, u
<1>5. Begun(u) /\ Ready(u)  BY <1>3 DEF Begun, Gone, Ready, Waiting
<1>6. Forward(t.state, u.state)  BY <1>3, ForwardFacts
<1>7. QED  BY <1>2, <1>3, <1>4, <1>5, <1>6 DEF Handled, Gone

LEMMA OverOutcome ==
  ASSUME NEW n \in Int, NEW t, Begun(t), t.state \notin Gone,
         NEW c, Held(c, n), Same(t, c), c.flight = t.flight,
         NEW w \in {"locked", "unlocked"}
  PROVE  Handled(t, Outcome(Over(c), w), n)
<1>1. /\ Held(Over(c), n) /\ Over(c).state = "Terminated" /\ Over(c).kind = t.kind
      /\ Over(c).own = t.own /\ Over(c).registered = t.registered
  BY OverFacts DEF Same
<1>2. Begun(Over(c)) /\ Ready(Over(c))  BY <1>1 DEF Begun, Gone, Ready, Waiting
<1>3. Forward(t.state, "Terminated")  BY ForwardFacts DEF Begun, Gone
<1>4. QED  BY <1>1, <1>2, <1>3 DEF Handled, Outcome, Gone

LEMMA StopRetransmitting ==
  ASSUME NEW n \in Int, NEW t, Held(t, n)
  PROVE  LET c == [CancelRetransmit(t) EXCEPT !.pendResched = FALSE]
         IN Held(c, n) /\ Same(t, c) /\ c.flight = t.flight
            /\ c.timeout = t.timeout /\ c.id = t.id
<1>1. Held(CancelRetransmit(t), n) /\ Timed(t, CancelRetransmit(t))
      /\ CancelRetransmit(t).timeout = t.timeout /\ CancelRetransmit(t).id = t.id
  BY CancelRetransmitFacts
<1> DEFINE d == CancelRetransmit(t)
<1>. HIDE DEF d
<1>2. Held(d, n) /\ Timed(t, d) /\ d.timeout = t.timeout /\ d.id = t.id  BY <1>1 DEF d
<1>3. Held([d EXCEPT !.pendResched = FALSE], n)  BY <1>2, SetFacts DEF State, TimerId
<1>4. LET c == [d EXCEPT !.pendResched = FALSE]
      IN Same(t, c) /\ c.flight = t.flight /\ c.timeout = t.timeout /\ c.id = t.id
  BY <1>2 DEF Held, TsxWith, Timed, Same
<1>5. QED  BY <1>3, <1>4 DEF d

LEMMA TimeoutFacts ==
  ASSUME NEW n \in Int, NEW t, Held(t, n), Begun(t), Ready(t), NEW o \in OnTimeout(t)
  PROVE  Handled(t, o, n)
<1>1. CASE t.state = "Terminated"
  <2>1. o \in Destroyed(t, "unlocked")  BY <1>1 DEF OnTimeout, Live
  <2>2. QED  BY <1>1, <2>1, DestroyedFacts
<1>2. CASE t.state = "Destroyed"
  BY <1>2, QuietFacts DEF OnTimeout, Live
<1>3. CASE t.state = "Calling"
  <2> DEFINE c == [CancelRetransmit(t) EXCEPT !.pendResched = FALSE]
  <2>1. Held(c, n) /\ Same(t, c) /\ c.flight = t.flight  BY StopRetransmitting
  <2>2. o = Outcome(Over(c), "unlocked")  BY <1>3 DEF OnTimeout, Live
  <2>. HIDE DEF c
  <2>3. QED  BY <1>3, <2>1, <2>2, OverOutcome DEF Gone
<1>4. CASE t.state \in {"Proceeding", "Completed", "Confirmed"}
  <2>1. o = Outcome(Over(t), "unlocked")  BY <1>4 DEF OnTimeout, Live
  <2>2. QED  BY <1>4, <2>1, OverOutcome DEF Gone, Same
<1>5. QED  BY <1>1, <1>2, <1>3, <1>4 DEF Begun

(* The fired timer was popped: it may have been the only one that was armed. *)
LEMMA RetransmitTimerFacts ==
  ASSUME NEW n \in Int, NEW t, Held(t, n), Begun(t), NEW o \in OnRetransmitTimer(t)
  PROVE  Handled(t, o, n)
<1>1. CASE t.state = "Terminated"
  BY <1>1, DestroyedFacts DEF OnRetransmitTimer
<1>2. CASE \/ Client(t) /\ t.state \in {"Calling", "Proceeding"}
           \/ ~Client(t) /\ t.state = "Completed"
  <2>1. o \in Sent(Retransmit(t, TRUE)) /\ t.state \notin Gone /\ t.flight # "detached"
    BY <1>2 DEF OnRetransmitTimer, Gone, Begun
  <2>2. \A u \in Retransmit(t, TRUE) : Held(u, n) /\ Sending(t, u) /\ Ready(u)
    BY <2>1, RetransmitFacts DEF Ready
  <2>3. QED  BY <2>1, <2>2, SentFacts
<1>3. CASE /\ t.state # "Terminated"
           /\ ~(\/ Client(t) /\ t.state \in {"Calling", "Proceeding"}
                \/ ~Client(t) /\ t.state = "Completed")
  <2>1. o \in Quiet(t)  BY <1>3 DEF OnRetransmitTimer
  <2>2. Ready(t)  BY <1>3 DEF Ready, Waiting, Client, ClientKind
  <2>3. QED  BY <2>1, <2>2, QuietFacts
<1>4. QED  BY <1>1, <1>2, <1>3

LEMMA FirstResponseFacts ==
  ASSUME NEW n \in Int, NEW t, Held(t, n), NEW m
  PROVE  LET u == FirstResponse(t, m)
         IN /\ Held(u, n) /\ Same(t, u) /\ u.flight = t.flight
            /\ m = "1xx" /\ ~Invite(t) => u.retransmit /\ u.timeout = t.timeout
<1> DEFINE c == [CancelRetransmit(t) EXCEPT !.pendResched = FALSE]
<1>1. Held(c, n) /\ Same(t, c) /\ c.flight = t.flight /\ c.timeout = t.timeout
  BY StopRetransmitting
<1>2. FirstResponse(t, m) = IF m # "1xx" \/ Invite(t) THEN Cancel(c)
                                                      ELSE ScheduleRetransmit(c)
  BY DEF FirstResponse
<1>. HIDE DEF c
<1>3. CASE m # "1xx" \/ Invite(t)
  BY <1>1, <1>2, <1>3, CancelFacts DEF Timed, Same
<1>4. CASE ~(m # "1xx" \/ Invite(t))
  BY <1>1, <1>2, <1>4, ScheduleRetransmitFacts DEF Timed, Same
<1>5. QED  BY <1>3, <1>4

(* What a client makes of a final response: c is t with its timers stopped. *)
LEMMA CompletedFacts ==
  ASSUME NEW n \in Int, NEW t, Begun(t), t.state \in {"Calling", "Proceeding"}, Client(t),
         NEW c, Held(c, n), c.kind = t.kind, c.own = t.own, c.registered = t.registered,
         c.flight # "detached", NEW b \in BOOLEAN, b \/ c.timeout,
         NEW o, o.t = Completed(c), o.how = "locked", o.timerD = b
  PROVE  Handled(t, o, n)
<1>1. "Completed" \in State /\ "final" \in {"none", "prov", "final"}  BY DEF State
<1>2. Held(Completed(c), n)  BY <1>1, SetFacts DEF Completed, TimerId
<1>3. /\ o.t.state = "Completed" /\ o.t.kind = t.kind /\ o.t.own = t.own
      /\ o.t.registered = t.registered /\ o.t.flight # "detached"
      /\ o.t.timeout = c.timeout
  BY DEF Held, TsxWith, Completed
<1>4. Begun(o.t)  BY <1>3 DEF Begun
<1>5. Ready(o.t)  BY <1>3 DEF Ready, Waiting, Client, ClientKind
<1>6. Forward(t.state, "Completed")  BY ForwardFacts
<1>7. o.timerD \/ Ends(o.t)  BY <1>3 DEF Ends
<1>8. QED  BY <1>2, <1>3, <1>4, <1>5, <1>6, <1>7 DEF Handled, Gone

LEMMA AcceptedFacts ==
  ASSUME NEW n \in Int, NEW t, Begun(t), t.state \in {"Calling", "Proceeding"}, Client(t),
         NEW c, Held(c, n), Same(t, c), c.flight = t.flight
  PROVE  Handled(t, Outcome(Accepted(c), "locked"), n)
<1>. t.state \notin Gone /\ c.flight # "detached"  BY DEF Gone, Begun
<1>1. CASE Invite(c)
  <2>1. /\ Held(Cancel(c), n) /\ Same(t, Cancel(c)) /\ Cancel(c).flight = t.flight
    BY CancelFacts DEF Timed, Same
  <2>2. QED  BY <1>1, <2>1, OverOutcome DEF Accepted
<1>2. CASE ~Invite(c)
  <2> DEFINE d == Restart(c, "TIMEOUT")
             e == CancelRetransmit(d)
  <2>1. Held(d, n) /\ Timed(c, d) /\ d.timeout  BY RestartFacts
  <2>2. Held(e, n) /\ Timed(d, e) /\ e.timeout  BY <2>1, CancelRetransmitFacts
  <2>3. Accepted(c) = Completed(e)  BY <1>2 DEF Accepted
  <2>. HIDE DEF d, e
  <2>4. /\ e.kind = t.kind /\ e.own = t.own /\ e.registered = t.registered
        /\ e.flight # "detached"
    BY <2>1, <2>2 DEF Timed, Same
  <2> DEFINE o == Outcome(Accepted(c), "locked")
  <2>5. o.t = Completed(e) /\ o.how = "locked" /\ o.timerD = FALSE
    BY <2>3 DEF Outcome
  <2>. HIDE DEF o
  <2>6. Handled(t, o, n)  BY <2>2, <2>4, <2>5, CompletedFacts
  <2>7. QED  BY <2>6 DEF o
<1>3. QED  BY <1>1, <1>2

LEMMA RefusedFacts ==
  ASSUME NEW n \in Int, NEW t, Begun(t), t.state \in {"Calling", "Proceeding"}, Client(t),
         NEW c, Held(c, n), Same(t, c), c.flight = t.flight, NEW o \in Refused(c)
  PROVE  Handled(t, o, n)
<1> DEFINE d == Cancel(CancelRetransmit(c))
           f == [d EXCEPT !.status = "final"]
<1>. t.state \notin Gone /\ c.flight # "detached"  BY DEF Gone, Begun
<1>1. Held(CancelRetransmit(c), n) /\ Timed(c, CancelRetransmit(c))
  BY CancelRetransmitFacts
<1>2. Held(d, n) /\ Timed(CancelRetransmit(c), d)  BY <1>1, CancelFacts
<1>3. Same(t, d) /\ d.flight = t.flight  BY <1>1, <1>2 DEF Timed, Same
<1>4. Held(f, n)
  <2>. HIDE DEF d
  <2>1. "final" \in {"none", "prov", "final"}  OBVIOUS
  <2>2. QED  BY <1>2, <2>1, SetFacts DEF State, TimerId
<1>5. Same(t, f) /\ f.flight = t.flight
  <2>. HIDE DEF d
  <2>1. QED  BY <1>2, <1>3 DEF Held, TsxWith, Same
<1>6. PICK u \in (IF Invite(c) THEN SendMsg(f) ELSE {f}) :
        o = [t |-> IF u.state = "Terminated" THEN u ELSE Completed(u),
             how |-> "locked", timerD |-> u.state # "Terminated"]
  BY DEF Refused
<1>. HIDE DEF d, f
<1>7. Held(u, n) /\ Sending(f, u)
  BY <1>4, <1>5, <1>6, SendMsgFacts DEF Sending
<1>8. /\ u.kind = t.kind /\ u.own = t.own /\ u.registered = t.registered
      /\ u.flight # "detached" /\ o.how = "locked" /\ o.timerD \in BOOLEAN
  BY <1>5, <1>6, <1>7 DEF Same, Sending
<1>9. CASE u.state = "Terminated"
  <2>1. o.t = u  BY <1>6, <1>9
  <2>2. Begun(u) /\ Ready(u)  BY <1>8, <1>9 DEF Begun, Gone, Ready, Waiting
  <2>3. Forward(t.state, "Terminated")  BY ForwardFacts
  <2>4. QED  BY <1>7, <1>8, <1>9, <2>1, <2>2, <2>3 DEF Handled, Gone
<1>10. CASE u.state # "Terminated"
  <2>1. o.t = Completed(u) /\ o.timerD = TRUE  BY <1>6, <1>10
  <2>2. QED  BY <1>7, <1>8, <2>1, CompletedFacts
<1>11. QED  BY <1>9, <1>10

LEMMA ResponseFacts ==
  ASSUME NEW n \in Int, NEW t, Held(t, n), Begun(t), Ready(t), Client(t), NEW m,
         NEW o \in OnResponse(t, m)
  PROVE  Handled(t, o, n)
<1> DEFINE c == IF t.state = "Calling" THEN FirstResponse(t, m) ELSE t
<1>1. Held(c, n) /\ Same(t, c) /\ c.flight = t.flight
  BY FirstResponseFacts DEF Same
<1>2. CASE t.state \in {"Calling", "Proceeding"} /\ m = "1xx"
  <2> DEFINE u == [c EXCEPT !.state = "Proceeding", !.status = "prov"]
  <2>1. o = Outcome(u, "locked")  BY <1>2 DEF OnResponse
  <2>2. t.kind = "request" => Armed(c) /\ c.timeout = t.timeout
    <3>1. CASE t.state = "Calling"
      BY <1>2, <3>1, FirstResponseFacts DEF Invite, Armed
    <3>2. CASE t.state = "Proceeding"  BY <3>2 DEF Ready, Waiting
    <3>3. QED  BY <1>2, <3>1, <3>2
  <2>. HIDE DEF c
  <2>3. "Proceeding" \in State /\ "prov" \in {"none", "prov", "final"}  BY DEF State
  <2>4. Held(u, n)  BY <1>1, <2>3, SetFacts DEF TimerId
  <2>5. /\ u.state = "Proceeding" /\ u.kind = t.kind /\ u.own = t.own
        /\ u.registered = t.registered /\ u.flight = t.flight
        /\ u.retransmit = c.retransmit /\ u.pendResched = c.pendResched
        /\ u.timeout = c.timeout
    BY <1>1 DEF Held, TsxWith, Same
  <2>. HIDE DEF u
  <2>6. Begun(u)  BY <1>2, <2>5 DEF Begun, Gone
  <2>7. Ready(u)  BY <2>2, <2>5 DEF Ready, Waiting, Armed, Client, ClientKind
  <2>8. Forward(t.state, "Proceeding")  BY <1>2, ForwardFacts DEF State
  <2>9. Ends(t) => Ends(u)  BY <2>2, <2>5 DEF Ends, Client, ClientKind
  <2>10. QED  BY <1>2, <2>1, <2>4, <2>5, <2>6, <2>7, <2>8, <2>9 DEF Handled, Outcome, Gone
<1>3. CASE t.state \in {"Calling", "Proceeding"} /\ m = "2xx"
  <2>1. o = Outcome(Accepted(c), "locked")  BY <1>3 DEF OnResponse
  <2>. HIDE DEF c
  <2>2. QED  BY <1>1, <1>3, <2>1, AcceptedFacts
<1>4. CASE t.state \in {"Calling", "Proceeding"} /\ m = "final"
  <2>1. o \in Refused(c)  BY <1>4 DEF OnResponse
  <2>. HIDE DEF c
  <2>2. QED  BY <1>1, <1>4, <2>1, RefusedFacts
<1>5. CASE t.state = "Completed" /\ Invite(t) /\ m # "1xx"
  <2>1. o \in Sent(Retransmit(t, FALSE)) /\ t.state \notin Gone /\ t.flight # "detached"
    BY <1>5 DEF OnResponse, Gone, Begun
  <2>2. \A u \in Retransmit(t, FALSE) : Held(u, n) /\ Sending(t, u)
    BY <2>1, RetransmitFacts
  <2>3. \A u \in Retransmit(t, FALSE) : Ready(u)
    BY <1>5, <2>2 DEF Sending, Ready, Waiting, Client, ClientKind
  <2>4. QED  BY <2>1, <2>2, <2>3, SentFacts
<1>6. CASE ~(t.state \in {"Calling", "Proceeding"} /\ m \in {"1xx", "2xx", "final"})
           /\ ~(t.state = "Completed" /\ Invite(t) /\ m # "1xx")
  <2>1. o \in Quiet(t)  BY <1>6 DEF OnResponse
  <2>2. QED  BY <2>1, QuietFacts
<1>7. QED  BY <1>2, <1>3, <1>4, <1>5, <1>6

LEMMA RequestFacts ==
  ASSUME NEW n \in Int, NEW t, Held(t, n), Begun(t), Ready(t), NEW m,
         NEW o \in OnRequest(t, m)
  PROVE  Handled(t, o, n)
<1>1. CASE t.state = "Completed" /\ m = "request"
  <2>1. o \in Sent(Retransmit(t, FALSE)) /\ t.state \notin Gone /\ t.flight # "detached"
    BY <1>1 DEF OnRequest, Gone, Begun
  <2>2. \A u \in Retransmit(t, FALSE) : Held(u, n) /\ Sending(t, u)
    BY <2>1, RetransmitFacts
  <2>3. \A u \in Retransmit(t, FALSE) : Ready(u)
    BY <1>1, <2>2 DEF Sending, Ready, Waiting, Client, ClientKind
  <2>4. QED  BY <2>1, <2>2, <2>3, SentFacts
<1>2. CASE t.state = "Completed" /\ m = "ACK"
  <2> DEFINE d == CancelRetransmit(t)
             c == [d EXCEPT !.pendResched = FALSE, !.state = "Confirmed"]
             r == Restart(c, "TIMEOUT")
  <2>1. o = Outcome(r, "locked")  BY <1>2 DEF OnRequest
  <2>2. Held(d, n) /\ Timed(t, d)  BY CancelRetransmitFacts
  <2>. HIDE DEF d
  <2>3. "Confirmed" \in State  BY DEF State
  <2>4. Held(c, n)  BY <2>2, <2>3, SetFacts DEF TimerId
  <2>5. /\ c.state = "Confirmed" /\ c.kind = t.kind /\ c.own = t.own
        /\ c.registered = t.registered /\ c.flight = t.flight
    BY <2>2 DEF Held, TsxWith, Timed, Same
  <2>. HIDE DEF c
  <2>6. Held(r, n) /\ Timed(c, r) /\ r.timeout  BY <2>4, RestartFacts
  <2>. HIDE DEF r
  <2>7. /\ r.state = "Confirmed" /\ r.kind = t.kind /\ r.own = t.own
        /\ r.registered = t.registered /\ r.flight = t.flight
    BY <2>5, <2>6 DEF Timed, Same
  <2>8. Begun(r) /\ Ready(r)  BY <1>2, <2>7 DEF Begun, Gone, Ready, Waiting
  <2>9. Forward(t.state, "Confirmed")  BY <1>2, ForwardFacts
  <2>10. QED  BY <1>2, <2>1, <2>6, <2>7, <2>8, <2>9 DEF Handled, Outcome, Gone, Ends
<1>3. CASE ~(t.state = "Completed" /\ m \in {"request", "ACK"})
  <2>1. o \in Quiet(t)  BY <1>3 DEF OnRequest
  <2>2. QED  BY <2>1, QuietFacts
<1>4. QED  BY <1>1, <1>2, <1>3

LEMMA MessageFacts ==
  ASSUME NEW n \in Int, NEW t, Held(t, n), Begun(t), Ready(t), NEW m,
         NEW o \in OnMessage(t, m)
  PROVE  Handled(t, o, n)
BY ResponseFacts, RequestFacts DEF OnMessage

-----------------------------------------------------------------------------
(* Ending a transaction *)

LEMMA DetachFacts ==
  ASSUME NEW n \in Int, NEW t, Held(t, n)
  PROVE  LET u == Detach(t)
         IN /\ Held(u, n) /\ Same(t, u) /\ u.flight # "resolve"
            /\ u.timeout = t.timeout /\ u.id = t.id /\ u.status = t.status
            /\ t.flight \in {"resolve", "detached"} => u.flight = "detached"
<1>1. CASE t.flight = "resolve"
  <2> t \in TsxWith(Int) /\ Detach(t) = [t EXCEPT !.flight = "detached"]
    BY <1>1 DEF Detach, Held
  <2>1. Detach(t) \in TsxWith(Int)  BY DEF TsxWith
  <2>2. Same(t, Detach(t)) /\ Detach(t).flight = "detached"
        /\ Detach(t).timeout = t.timeout /\ Detach(t).id = t.id
        /\ Detach(t).status = t.status
        /\ Detach(t).refs = t.refs /\ Detach(t).retransmit = t.retransmit
    BY DEF TsxWith, Same
  <2>3. t.flight # "none" /\ Detach(t).flight # "none"  BY <1>1, <2>2
  <2>4. HeldBy(Detach(t), n)  BY <2>2, <2>3 DEF Held, HeldBy, Same, B
  <2>5. QED  BY <1>1, <2>1, <2>2, <2>4 DEF Held
<1>2. CASE t.flight # "resolve"  BY <1>2 DEF Detach, Same
<1>3. QED  BY <1>1, <1>2

LEMMA EndedFacts ==
  ASSUME NEW n \in Int, NEW t, Held(t, n)
  PROVE  LET u == Ended(t)
         IN /\ Held(u, n) /\ Same(t, u) /\ u.flight # "resolve"
            /\ u.timeout /\ u.id = "TIMEOUT"
            /\ t.flight \in {"resolve", "detached"} => u.flight = "detached"
<1>1. /\ Held(Detach(t), n) /\ Same(t, Detach(t)) /\ Detach(t).flight # "resolve"
      /\ t.flight \in {"resolve", "detached"} => Detach(t).flight = "detached"
  BY DetachFacts
<1>2. QED  BY <1>1, RestartFacts DEF Ended, Timed, Same

LEMMA ShutdownFacts ==
  ASSUME NEW n \in Int, NEW t, Held(t, n)
  PROVE  LET u == Shutdown(t)
         IN /\ Held(u, n) /\ u.kind = t.kind /\ u.state = t.state
            /\ u.own = 0 /\ u.registered = FALSE /\ u.flight = t.flight
            /\ ~u.timeout /\ ~u.retransmit
<1> DEFINE d == Cancel(t)
           c == CancelRetransmit(d)
           u == [c EXCEPT !.registered = FALSE, !.transport = FALSE,
                          !.pendSend = FALSE, !.pendResched = FALSE,
                          !.refs = @ - t.own, !.own = 0]
<1>1. Held(d, n) /\ Timed(t, d) /\ ~d.timeout  BY CancelFacts
<1>2. Held(c, n) /\ Timed(d, c) /\ ~c.retransmit /\ c.timeout = d.timeout
  BY <1>1, CancelRetransmitFacts
<1>3. Shutdown(t) = u  BY DEF Shutdown
<1>4. c.own = t.own /\ c.kind = t.kind /\ c.state = t.state /\ c.flight = t.flight
  BY <1>1, <1>2 DEF Timed, Same
<1>. HIDE DEF d, c
<1>5. c \in TsxWith(Int) /\ c.refs - t.own \in Int  BY <1>2, <1>4 DEF Held, TsxWith
<1>6. u \in TsxWith(Int)
  <2>1. ASSUME NEW r \in Int
        PROVE  [c EXCEPT !.registered = FALSE, !.transport = FALSE,
                         !.pendSend = FALSE, !.pendResched = FALSE,
                         !.refs = r, !.own = 0] \in TsxWith(Int)
    <3> DEFINE v == [c EXCEPT !.registered = FALSE, !.transport = FALSE,
                              !.pendSend = FALSE, !.pendResched = FALSE]
               z == [v EXCEPT !.refs = r, !.own = 0]
    <3>1. v \in TsxWith(Int)  BY <1>5 DEF TsxWith
    <3>2. 0 \in 0..1  OBVIOUS
    <3>3. z \in TsxWith(Int)
      <4>. HIDE DEF v
      <4>1. QED  BY <3>1, <3>2 DEF TsxWith
    <3>4. z = [c EXCEPT !.registered = FALSE, !.transport = FALSE,
                        !.pendSend = FALSE, !.pendResched = FALSE,
                        !.refs = r, !.own = 0]
      BY <1>5 DEF TsxWith
    <3>5. QED  BY <3>3, <3>4
  <2>2. QED  BY <1>5, <2>1
<1>7. /\ u.kind = t.kind /\ u.state = t.state /\ u.own = 0 /\ u.registered = FALSE
      /\ u.flight = t.flight /\ u.timeout = c.timeout /\ u.retransmit = c.retransmit
      /\ u.refs = c.refs - t.own
  BY <1>4, <1>5 DEF TsxWith
<1>8. HeldBy(u, n)
  BY <1>2, <1>4, <1>5, <1>7 DEF Held, HeldBy, TsxWith, B
<1>. HIDE DEF u
<1>9. QED  BY <1>1, <1>2, <1>3, <1>6, <1>7, <1>8 DEF Held

-----------------------------------------------------------------------------
(* The invariant in terms of these, and what the actions do to it *)

LEMMA HeldNat ==
  ASSUME NEW n \in 0..1, NEW t, Held(t, n)
  PROVE  t \in TsxWith(Nat)
<1>1. t \in TsxWith(Int) /\ HeldBy(t, n)  BY DEF Held
<1>2. t.refs \in Nat  BY <1>1 DEF HeldBy, TsxWith, B
<1>3. QED  BY <1>1, <1>2 DEF TsxWith

LEMMA NatHeld ==
  ASSUME TypeOK, RefsAreHeld
  PROVE  Held(tsx, loop.ref) /\ loop.ref \in 0..1
<1>1. tsx \in TsxWith(Nat) /\ loop.ref \in 0..1  BY DEF TypeOK
<1>2. tsx \in TsxWith(Int)  BY <1>1 DEF TsxWith
<1>3. QED  BY <1>1, <1>2 DEF Held, RefsAreHeld

LEMMA DropFacts ==
  ASSUME NEW n \in Int, NEW k \in Int, NEW t, Held(t, n)
  PROVE  LET u == [t EXCEPT !.refs = @ - k]
         IN /\ Held(u, n - k) /\ Timed(t, u) /\ u.timeout = t.timeout /\ u.id = t.id
            /\ u.retransmit = t.retransmit /\ u.pendResched = t.pendResched
<1> DEFINE u == [t EXCEPT !.refs = @ - k]
<1>1. t \in TsxWith(Int) /\ t.refs - k \in Int  BY DEF Held, TsxWith
<1>2. u \in TsxWith(Int)
  <2>1. ASSUME NEW r \in Int PROVE [t EXCEPT !.refs = r] \in TsxWith(Int)
    BY <1>1 DEF TsxWith
  <2>2. QED  BY <1>1, <2>1
<1>3. /\ Timed(t, u) /\ u.timeout = t.timeout /\ u.id = t.id
      /\ u.retransmit = t.retransmit /\ u.pendResched = t.pendResched
      /\ u.refs = t.refs - k
  BY <1>1 DEF TsxWith, Timed, Same
<1>. HIDE DEF u
<1>4. HeldBy(u, n - k)  BY <1>1, <1>3 DEF Held, HeldBy, Timed, Same, TsxWith, B
<1>5. Held(u, n - k)  BY <1>2, <1>4 DEF Held
<1>6. QED  BY <1>3, <1>5 DEF u

(* The types of what is not the transaction.                                *)
LoopType ==
  loop \in [pc : {"idle", "fired", "posted", "recv", "sent", "tell"},
            entry : {"none", "timeout", "retransmit"},
            msg : Message \cup {"none"}, how : How, timerD : BOOLEAN, ref : 0..1]
AppType == app \in {"new", "idle", "aimed", "ending", "terminating", "done"}
RestType ==
  /\ told \in State /\ LoopType /\ AppType
  /\ lost \in BOOLEAN /\ fault \in {"none", "freed", "uninitialised"}

LEMMA TypeFacts ==
  /\ TypeOK <=> tsx \in TsxWith(Nat) /\ RestType
  /\ TypeOK' <=> tsx' \in TsxWith(Nat) /\ RestType'
BY DEF TypeOK, RestType, LoopType, AppType, TsxWith, How, Message

LEMMA IdleFacts ==
  /\ Idle.pc = "idle" /\ Idle.ref = 0 /\ Idle.how = "none"
  /\ Idle \in [pc : {"idle", "fired", "posted", "recv", "sent", "tell"},
               entry : {"none", "timeout", "retransmit"},
               msg : Message \cup {"none"}, how : How, timerD : BOOLEAN, ref : 0..1]
BY DEF Idle, How

(* One way to both parts of the invariant that count.                       *)
LEMMA HeldInv ==
  ASSUME Held(tsx', loop'.ref), RestType'
  PROVE  TypeOK' /\ RefsAreHeld'
<1>1. loop'.ref \in 0..1  BY DEF RestType, LoopType
<1>2. tsx' \in TsxWith(Nat)  BY <1>1, HeldNat
<1>3. QED  BY <1>2, TypeFacts DEF RefsAreHeld, Held

LEMMA BegunFacts ==
  ASSUME IInv, tsx.state # "none"
  PROVE  Begun(tsx) /\ tsx.state \in State
<1>1. tsx.state \in State  BY DEF IInv, TypeOK, TsxWith
<1>2. QED  BY <1>1 DEF IInv, LifeInv, EndInv, Begun, State

-----------------------------------------------------------------------------
(* What a step is to TsxLife *)

LifeStep == [Life!Next]_(Life!vars)

LEMMA FreedFacts ==
  ASSUME IInv, Freed(tsx)
  PROVE  /\ told = "Destroyed" /\ tsx.state = "Destroyed" /\ loop.pc = "idle"
         /\ ~tsx.timeout /\ ~tsx.retransmit /\ tsx.flight = "none"
<1>1. /\ tsx.state # "none" /\ tsx.refs = 0 /\ tsx \in TsxWith(Nat) /\ HeldBy(tsx, loop.ref)
      /\ loop.ref \in 0..1
  BY NatHeld DEF Freed, IInv, TypeOK, RefsAreHeld
<1>2. /\ tsx.own = 0 /\ ~tsx.timeout /\ ~tsx.retransmit /\ tsx.flight = "none"
      /\ loop.ref = 0
  BY <1>1 DEF HeldBy, TsxWith, B
<1>3. told = "Destroyed" /\ tsx.state = "Destroyed"  BY <1>1, <1>2 DEF IInv, LifeInv
<1>4. loop.pc = "idle"
  <2>1. loop.pc \in {"idle", "fired", "posted", "recv", "sent", "tell"}
    BY TypeFacts DEF IInv, RestType, LoopType
  <2>2. QED  BY <1>2, <1>3, <2>1 DEF IInv, LoopInv
<1>5. QED  BY <1>2, <1>3, <1>4

LEMMA FreedAfter ==
  ASSUME IInv', Freed(tsx)'
  PROVE  told' = "Destroyed"
<1>1. /\ tsx'.state # "none" /\ tsx'.refs = 0 /\ tsx' \in TsxWith(Nat)
      /\ HeldBy(tsx', loop'.ref) /\ loop'.ref \in 0..1
  BY TypeFacts DEF Freed, IInv, RefsAreHeld, RestType, LoopType
<1>2. tsx'.own = 0  BY <1>1 DEF HeldBy, TsxWith, B
<1>3. QED  BY <1>1, <1>2 DEF IInv, LifeInv

LEMMA SameLife ==
  ASSUME IInv, IInv', told' = told, tsx'.state = tsx.state,
         ~Freed(tsx) \/ tsx' = tsx
  PROVE  LifeStep
<1>1. CASE Freed(tsx)' = Freed(tsx)  BY <1>1 DEF LifeStep, Life!vars
<1>2. CASE Freed(tsx)' # Freed(tsx)
  <2>1. ~Freed(tsx) /\ Freed(tsx)'  BY <1>2 DEF Freed
  <2>2. Life!Free  BY <2>1, FreedAfter DEF Life!Free
  <2>3. QED  BY <2>2 DEF LifeStep, Life!Next
<1>3. QED  BY <1>1, <1>2

LEMMA TopRank == \A s \in State : ~(Life!Rank[s] > Life!Rank["Destroyed"])
BY DEF State, Life!Rank

LEMMA AdvanceLife ==
  ASSUME IInv, IInv', told' \in {told, tsx'.state}, tsx'.state # tsx.state,
         tsx'.state # "Destroyed", Forward(tsx.state, tsx'.state)
  PROVE  LifeStep
<1>1. tsx'.state \in State  BY TypeFacts DEF IInv, TsxWith
<1>2. Life!Rank[tsx'.state] > Life!Rank[tsx.state]  BY DEF Forward
<1>3. ~Freed(tsx)  BY <1>1, <1>2, FreedFacts, TopRank
<1>4. ~Freed(tsx)'  BY FreedAfter DEF IInv, LifeInv
<1>5. Life!Advance(tsx'.state)
  <2>1. Freed(tsx)' = Freed(tsx)  BY <1>3, <1>4 DEF Freed
  <2>2. QED  BY <1>2, <2>1 DEF Life!Advance
<1>6. QED  BY <1>1, <1>5 DEF LifeStep, Life!Next, Life!State, State

LEMMA DestroyLife ==
  ASSUME IInv, IInv', told' = told, told = "Terminated", tsx.state = "Terminated",
         tsx'.state = "Destroyed"
  PROVE  LifeStep
<1>1. ~Freed(tsx) /\ ~Freed(tsx)'  BY FreedFacts, FreedAfter
<1>2. Life!Destroy
  <2>1. Freed(tsx)' = Freed(tsx)  BY <1>1 DEF Freed
  <2>2. QED  BY <2>1 DEF Life!Destroy
<1>3. QED  BY <1>2 DEF LifeStep, Life!Next

LEMMA TellLife ==
  ASSUME IInv, IInv', loop.pc = "tell", told' = tsx.state, tsx'.state = tsx.state
  PROVE  LifeStep
<1>1. ~Freed(tsx) /\ tsx.state # "none"  BY FreedFacts DEF IInv, LoopInv
<1>2. CASE told = tsx.state  BY <1>1, <1>2, SameLife
<1>3. CASE told # tsx.state
  <2>1. Freed(tsx)' \in {FALSE, tsx.state = "Destroyed"}
    BY FreedAfter DEF Freed
  <2>2. Life!Tell  BY <1>1, <1>3, <2>1 DEF Life!Tell
  <2>3. QED  BY <2>2 DEF LifeStep, Life!Next
<1>4. QED  BY <1>2, <1>3

-----------------------------------------------------------------------------
(* The loop leaves a handler, that worked on t.                             *)
LEMMA LeaveStep ==
  ASSUME IInv, NEW r \in 0..1, NEW t, NEW o,
         tsx.state # "none", loop.pc # "tell", loop.pc # "idle" \/ tsx.flight # "none",
         Same(tsx, t), Handled(t, o, r), Leave(o, r),
         t.state \in Gone => t.flight # "resolve",
         t.state = "Terminated" /\ o.how = "none" =>
           (t.timeout /\ t.id = "TIMEOUT") \/ lost,
         t.state \notin Gone => Ends(t) \/ (o.how # "none" /\ o.t.state \in Gone),
         t.state = "Destroyed" => t.retransmit = tsx.retransmit,
         UNCHANGED <<told, app, lost, fault>>
  PROVE  IInv' /\ LifeStep
<1>1. /\ told = tsx.state /\ told # "none" /\ told = t.state
      /\ t.own = tsx.own /\ t.registered = tsx.registered /\ t.kind = tsx.kind
  BY DEF IInv, LifeInv, Same
<1>2. RestType  BY TypeFacts DEF IInv
<1>3. CASE o.how = "none"
  <2>1. tsx' = [o.t EXCEPT !.refs = @ - r] /\ loop' = Idle  BY <1>3 DEF Leave
  <2>2. Held(o.t, r) /\ o.t.state = t.state /\ o.t.kind = t.kind /\ o.t.own = t.own
        /\ o.t.registered = t.registered /\ Begun(o.t) /\ Ready(o.t)
    BY <1>3 DEF Handled
  <2>3. /\ Held(tsx', r - r) /\ Timed(o.t, tsx') /\ tsx'.timeout = o.t.timeout
        /\ tsx'.id = o.t.id /\ tsx'.retransmit = o.t.retransmit
        /\ tsx'.pendResched = o.t.pendResched
    <3>1. r \in Int  OBVIOUS
    <3>2. QED  BY <2>1, <2>2, <3>1, DropFacts
  <2>4. Held(tsx', loop'.ref)  BY <2>1, <2>3, IdleFacts
  <2>5. /\ tsx'.state = told /\ tsx'.own = tsx.own /\ tsx'.registered = tsx.registered
        /\ tsx'.kind = tsx.kind /\ tsx'.flight = o.t.flight
    BY <1>1, <2>2, <2>3 DEF Timed, Same
  <2>6. RestType'  BY <1>2, <2>1, IdleFacts DEF RestType, LoopType, AppType
  <2>7. LoopInv'  BY <2>1, IdleFacts DEF LoopInv
  <2>8. LifeInv'  BY <1>1, <2>1, <2>5, IdleFacts DEF IInv, LifeInv
  <2>9. AppInv'  BY <1>1, <2>5 DEF IInv, AppInv, AppHoldsDlg, LifeInv, Client
  <2>10. EndInv'
    <3>1. CASE t.state \in Gone
      <4>1. o.t = t  BY <1>3, <3>1 DEF Handled
      <4>2. told' = "Destroyed" => ~tsx'.retransmit
        BY <1>1, <2>3, <4>1 DEF IInv, EndInv
      <4>3. QED
        BY <1>1, <1>3, <2>1, <2>2, <2>3, <2>5, <3>1, <4>1, <4>2, IdleFacts
        DEF EndInv, TerminatedIsArmed, Gone
    <3>2. CASE t.state \notin Gone
      <4>1. Ends(o.t)  BY <1>3, <3>2 DEF Handled
      <4>2. Ends(tsx')  BY <1>1, <2>2, <2>3, <2>5, <4>1 DEF Ends
      <4>3. QED
        BY <1>1, <2>2, <2>5, <3>2, <4>2 DEF EndInv, TerminatedIsArmed, Gone, Begun
    <3>3. QED  BY <3>1, <3>2
  <2>11. RetransmitInv'
    BY <1>1, <2>2, <2>3, <2>5 DEF RetransmitInv, Ready, Waiting, Armed, Client
  <2>12. IInv'  BY <2>4, <2>6, <2>7, <2>8, <2>9, <2>10, <2>11, HeldInv DEF IInv
  <2>13. LifeStep  BY <1>1, <2>5, <2>12, FreedFacts, SameLife
  <2>14. QED  BY <2>12, <2>13
<1>4. CASE o.how # "none"
  <2>1. tsx' = o.t /\ loop' = [Idle EXCEPT !.pc = "tell", !.how = o.how,
                                           !.timerD = o.timerD, !.ref = r]
    BY <1>4 DEF Leave
  <2>2. /\ Held(tsx', r) /\ tsx'.kind = t.kind /\ tsx'.own = t.own
        /\ tsx'.registered = t.registered /\ Begun(tsx') /\ Ready(tsx')
        /\ o.how \in {"locked", "unlocked"} /\ o.timerD \in BOOLEAN
        /\ tsx'.state = "Destroyed" => t.state \in Gone
        /\ t.state \in Gone => tsx'.flight = t.flight
        /\ t.state # "Destroyed"
    BY <1>4, <2>1 DEF Handled
  <2>3. loop'.pc = "tell" /\ loop'.how = o.how /\ loop'.ref = r /\ loop'.timerD = o.timerD
    BY <2>1 DEF Idle
  <2>4. LoopType'  BY <2>1, <2>2 DEF LoopType, Idle, How
  <2>5. RestType'  BY <1>2, <2>4 DEF RestType, AppType
  <2>6. LoopInv'
    BY <1>1, <2>2, <2>3 DEF LoopInv, Begun
  <2>7. LifeInv'
    BY <1>1, <2>2, <2>3 DEF IInv, LifeInv, Begun
  <2>8. AppInv'  BY <1>1, <2>2 DEF IInv, AppInv, AppHoldsDlg, Begun
  <2>9. EndInv'
    <3>1. ASSUME o.t.state \notin Gone PROVE Ends(o.t) \/ o.timerD
      <4>1. t.state \notin Gone
        <5> SUFFICES ASSUME t.state = "Terminated" PROVE FALSE
          BY <2>2 DEF Gone
        <5>1. Forward("Terminated", o.t.state) /\ Begun(o.t)  BY <2>1, <2>2 DEF Handled
        <5>2. QED  BY <3>1, <5>1 DEF Begun, Forward, Gone, Life!Rank
      <4>2. QED  BY <3>1, <4>1 DEF Handled
    <3>2. told # "Destroyed"  BY <1>1, <2>2
    <3>3. tsx'.state \notin Gone => Ends(tsx') \/ loop'.timerD
      BY <2>1, <2>3, <3>1
    <3>4. QED
      BY <2>2, <2>3, <3>2, <3>3 DEF EndInv, InHand, TerminatedIsArmed, Begun, Gone
  <2>10. RetransmitInv'  BY <2>2 DEF RetransmitInv, Ready
  <2>11. IInv'  BY <2>2, <2>3, <2>5, <2>6, <2>7, <2>8, <2>9, <2>10, HeldInv DEF IInv
  <2>12. LifeStep
    <3>1. Forward(t.state, tsx'.state)  BY <2>1 DEF Handled
    <3>2. CASE tsx'.state = tsx.state  BY <2>11, <3>2, FreedFacts, SameLife
    <3>3. CASE tsx'.state # tsx.state /\ tsx'.state = "Destroyed"
      BY <1>1, <2>2, <2>11, <3>3, DestroyLife DEF Gone
    <3>4. CASE tsx'.state # tsx.state /\ tsx'.state # "Destroyed"
      BY <1>1, <2>11, <3>1, <3>4, AdvanceLife
    <3>5. QED  BY <3>2, <3>3, <3>4
  <2>13. QED  BY <2>11, <2>12
<1>5. QED  BY <1>3, <1>4

-----------------------------------------------------------------------------
(* The steps of the event loop *)

LEMMA TellFacts ==
  ASSUME IInv, loop.pc = "tell"
  PROVE  LET u == AfterTell(tsx, loop)
         IN /\ Held(u, loop.ref) /\ u.kind = tsx.kind /\ u.state = tsx.state
            /\ u.own = IF tsx.state = "Destroyed" THEN 0 ELSE 1
            /\ u.registered <=> u.own = 1
            /\ u.state = "Terminated" => u.timeout /\ u.id = "TIMEOUT"
            /\ u.flight = "detached" => u.state \in Gone
            /\ u.state \in Gone => u.flight # "resolve"
            /\ Ready(u) /\ (u.state \notin Gone => Ends(u))
            /\ u.state = "Destroyed" => ~u.retransmit
<1>1. /\ Held(tsx, loop.ref) /\ loop.ref \in Int /\ Begun(tsx)
      /\ tsx.own = 1 /\ tsx.registered = TRUE /\ Ready(tsx)
  <2>1. tsx.state # "none" /\ told # "Destroyed"  BY DEF IInv, LoopInv
  <2>2. tsx.registered \in BOOLEAN  BY DEF IInv, TypeOK, TsxWith
  <2>3. QED
    BY <2>1, <2>2, NatHeld, BegunFacts DEF IInv, LifeInv, RetransmitInv, Ready
<1>2. CASE loop.how = "posted"
  <2>1. /\ tsx.state = "Terminated" /\ tsx.flight # "resolve"
        /\ tsx.timeout => tsx.id = "TIMEOUT"
    BY <1>2 DEF IInv, LoopInv
  <2>2. AfterTell(tsx, loop) = Schedule(tsx, "TIMEOUT")
    BY <1>2, <2>1 DEF AfterTell
  <2>3. QED
    BY <1>1, <2>1, <2>2, ScheduleFacts DEF Timed, Same, Ready, Waiting, Gone
<1>3. CASE loop.how # "posted" /\ tsx.state = "Terminated"
  <2>1. AfterTell(tsx, loop) = Ended(tsx)  BY <1>3 DEF AfterTell
  <2>2. QED  BY <1>1, <1>3, <2>1, EndedFacts DEF Same, Ready, Waiting, Gone
<1>4. CASE loop.how # "posted" /\ tsx.state = "Destroyed"
  <2>1. AfterTell(tsx, loop) = Shutdown(tsx)  BY <1>4 DEF AfterTell
  <2>2. tsx.flight # "resolve"  BY <1>4 DEF IInv, EndInv
  <2> DEFINE u == Shutdown(tsx)
  <2>3. /\ Held(u, loop.ref) /\ u.kind = tsx.kind /\ u.state = "Destroyed"
        /\ u.own = 0 /\ u.registered = FALSE /\ u.flight = tsx.flight
        /\ ~u.retransmit
    BY <1>1, <1>4, ShutdownFacts
  <2>. HIDE DEF u
  <2>4. Ready(u)  BY <2>3 DEF Ready, Waiting
  <2>5. AfterTell(tsx, loop) = u  BY <2>1 DEF u
  <2>6. QED  BY <1>4, <2>2, <2>3, <2>4, <2>5 DEF Gone
<1>5. CASE loop.how # "posted" /\ tsx.state \notin Gone
  <2>1. AfterTell(tsx, loop) = IF loop.timerD THEN Restart(tsx, "TIMEOUT") ELSE tsx
    BY <1>5 DEF AfterTell, Gone
  <2>2. CASE loop.timerD
    BY <1>1, <1>5, <2>1, <2>2, RestartFacts
    DEF Timed, Same, Ready, Waiting, Armed, Client, Begun, Gone, Ends
  <2>3. CASE ~loop.timerD
    <3>1. Ends(tsx)
      BY <1>1, <1>5, <2>3 DEF IInv, EndInv, InHand, LoopInv
    <3>2. QED  BY <1>1, <1>5, <2>1, <2>3, <3>1 DEF Begun, Gone
  <2>4. QED  BY <2>2, <2>3
<1>6. QED  BY <1>2, <1>3, <1>4, <1>5 DEF Gone

LEMMA TellStep ==
  ASSUME IInv, Tell
  PROVE  IInv' /\ LifeStep
<1> DEFINE u == AfterTell(tsx, loop)
<1>1. /\ loop.pc = "tell" /\ ~AppHoldsDlg /\ told' = tsx.state
      /\ tsx' = [u EXCEPT !.refs = @ - loop.ref] /\ loop' = Idle
      /\ UNCHANGED <<app, lost, fault>>
  BY DEF Tell
<1>2. /\ Held(u, loop.ref) /\ u.kind = tsx.kind /\ u.state = tsx.state
      /\ u.own = (IF tsx.state = "Destroyed" THEN 0 ELSE 1)
      /\ u.registered <=> u.own = 1
      /\ u.state = "Terminated" => u.timeout /\ u.id = "TIMEOUT"
      /\ u.flight = "detached" => u.state \in Gone
      /\ u.state \in Gone => u.flight # "resolve"
      /\ Ready(u) /\ (u.state \notin Gone => Ends(u))
      /\ u.state = "Destroyed" => ~u.retransmit
  BY <1>1, TellFacts
<1>. HIDE DEF u
<1>3. loop.ref \in Int  BY NatHeld DEF IInv
<1>4. /\ Held(tsx', loop.ref - loop.ref) /\ Timed(u, tsx')
      /\ tsx'.timeout = u.timeout /\ tsx'.id = u.id
      /\ tsx'.retransmit = u.retransmit /\ tsx'.pendResched = u.pendResched
  BY <1>1, <1>2, <1>3, DropFacts
<1>5. Held(tsx', loop'.ref)  BY <1>1, <1>3, <1>4, IdleFacts
<1>6. /\ tsx'.state = tsx.state /\ tsx'.own = u.own /\ tsx'.registered = u.registered
      /\ tsx'.kind = tsx.kind /\ tsx'.flight = u.flight
  BY <1>2, <1>4 DEF Timed, Same
<1>7. tsx.state # "none" /\ Begun(tsx) /\ tsx.state \in State
  BY <1>1, BegunFacts DEF IInv, LoopInv
<1>8. RestType'
  BY <1>1, <1>7, TypeFacts, IdleFacts DEF IInv, RestType, LoopType, AppType
<1>9. LoopInv'  BY <1>1, IdleFacts DEF LoopInv
<1>10. LifeInv'  BY <1>1, <1>2, <1>6, <1>7 DEF LifeInv, Begun
<1>11. AppInv'  BY <1>1, <1>6, <1>7 DEF IInv, AppInv, AppHoldsDlg, Client
<1>12. EndInv'
  <2>1. tsx'.state \notin Gone => Ends(tsx')  BY <1>2, <1>4, <1>6 DEF Ends
  <2>2. QED  BY <1>1, <1>2, <1>4, <1>6, <2>1 DEF EndInv, TerminatedIsArmed, Gone
<1>13. RetransmitInv'
  BY <1>2, <1>4, <1>6 DEF RetransmitInv, Ready, Waiting, Armed, Client
<1>14. IInv'
  BY <1>5, <1>8, <1>9, <1>10, <1>11, <1>12, <1>13, HeldInv DEF IInv
<1>15. LifeStep  BY <1>1, <1>6, <1>14, TellLife
<1>16. QED  BY <1>14, <1>15

(* A timer leaves the heap with its reference; a message takes one.         *)
LEMMA FireStep ==
  ASSUME IInv, NEW e \in {"timeout", "retransmit"}, Fire(e)
  PROVE  IInv' /\ LifeStep
<1>1. /\ loop.pc = "idle" /\ loop.ref = 0 /\ Held(tsx, 0)
  BY NatHeld, IdleFacts DEF Fire, IInv, LoopInv
<1>2. /\ loop'.pc = "fired" /\ loop'.entry = e /\ loop'.ref = 1
  BY DEF Fire, Idle
<1>3. RestType'
  <2>1. loop' = [pc |-> "fired", entry |-> e, msg |-> "none", how |-> "none",
                 timerD |-> FALSE, ref |-> 1]
    BY DEF Fire, Idle
  <2>. LoopType'  BY <2>1 DEF LoopType, How
  <2>2. QED  BY TypeFacts DEF Fire, IInv, RestType, AppType
<1>4. /\ \/ e = "timeout" /\ tsx.timeout /\ tsx' = [tsx EXCEPT !.timeout = FALSE]
         \/ e = "retransmit" /\ tsx.retransmit /\ tsx' = [tsx EXCEPT !.retransmit = FALSE]
      /\ UNCHANGED <<told, app, lost, fault>>
  BY DEF Fire
<1>5. tsx \in TsxWith(Int)  BY <1>1 DEF Held
<1>6. tsx' \in TsxWith(Int)  BY <1>4, <1>5 DEF TsxWith
<1>7. /\ Timed(tsx, tsx') /\ tsx'.id = tsx.id /\ tsx'.pendResched = tsx.pendResched
      /\ tsx'.refs = tsx.refs
      /\ \/ tsx.timeout /\ e = "timeout" /\ ~tsx'.timeout /\ tsx'.retransmit = tsx.retransmit
         \/ tsx.retransmit /\ e = "retransmit" /\ ~tsx'.retransmit /\ tsx'.timeout = tsx.timeout
  <2>1. CASE e = "timeout" /\ tsx.timeout /\ tsx' = [tsx EXCEPT !.timeout = FALSE]
    BY <1>5, <2>1 DEF TsxWith, Timed, Same
  <2>2. CASE e = "retransmit" /\ tsx.retransmit /\ tsx' = [tsx EXCEPT !.retransmit = FALSE]
    BY <1>5, <2>2 DEF TsxWith, Timed, Same
  <2>3. QED  BY <1>4, <2>1, <2>2
<1>8. Held(tsx', 1)
  BY <1>1, <1>6, <1>7 DEF Held, HeldBy, Timed, Same, TsxWith, B
<1>9. tsx.state # "none"  BY <1>7 DEF IInv, LifeInv
<1>10. LoopInv'  BY <1>2, <1>7, <1>9 DEF LoopInv, Timed, Same
<1>11. LifeInv'  BY <1>1, <1>4, <1>7, <1>9 DEF IInv, LifeInv, Timed, Same
<1>12. AppInv'
  BY <1>4, <1>7 DEF IInv, AppInv, AppHoldsDlg, Client, Timed, Same
<1>13. EndInv'
  BY <1>1, <1>2, <1>4, <1>7
  DEF IInv, EndInv, Ends, InHand, TerminatedIsArmed, Timed, Same
<1>14. RetransmitInv'
  BY <1>1, <1>2, <1>7 DEF IInv, RetransmitInv, Waiting, Armed, Client, Timed, Same
<1>15. IInv'
  BY <1>2, <1>3, <1>8, <1>10, <1>11, <1>12, <1>13, <1>14, HeldInv DEF IInv
<1>16. LifeStep  BY <1>4, <1>7, <1>15, FreedFacts, SameLife DEF Timed, Same
<1>17. QED  BY <1>15, <1>16

LEMMA LookupStep ==
  ASSUME IInv, NEW m \in Message, Lookup(m)
  PROVE  IInv' /\ LifeStep
<1>1. /\ loop.pc = "idle" /\ loop.ref = 0 /\ Held(tsx, 0)
  BY NatHeld, IdleFacts DEF Lookup, IInv, LoopInv
<1>2. loop'.pc = "recv" /\ loop'.ref = 1  BY DEF Lookup, Idle
<1>3. RestType'
  <2>1. loop' = [pc |-> "recv", entry |-> "none", msg |-> m, how |-> "none",
                 timerD |-> FALSE, ref |-> 1]
    BY DEF Lookup, Idle
  <2>. LoopType'  BY <2>1 DEF LoopType, How
  <2>2. QED  BY TypeFacts DEF Lookup, IInv, RestType, AppType
<1>4. /\ tsx' = [tsx EXCEPT !.refs = @ + 1] /\ tsx.registered /\ tsx.state # "Terminated"
      /\ UNCHANGED <<told, app, lost, fault>>
  BY DEF Lookup
<1>5. tsx \in TsxWith(Int) /\ tsx.refs + 1 \in Int  BY <1>1 DEF Held, TsxWith
<1>6. tsx' \in TsxWith(Int)  BY <1>4, <1>5 DEF TsxWith
<1>7. /\ Timed(tsx, tsx') /\ tsx'.id = tsx.id /\ tsx'.pendResched = tsx.pendResched
      /\ tsx'.refs = tsx.refs + 1 /\ tsx'.timeout = tsx.timeout
      /\ tsx'.retransmit = tsx.retransmit
  BY <1>4, <1>5 DEF TsxWith, Timed, Same
<1>8. Held(tsx', 1)
  BY <1>1, <1>6, <1>7 DEF Held, HeldBy, Timed, Same, TsxWith, B
<1>9. tsx.state # "none"  BY <1>4 DEF IInv, LifeInv
<1>10. LoopInv'  BY <1>2, <1>7, <1>9 DEF LoopInv, Timed, Same
<1>11. LifeInv'  BY <1>1, <1>4, <1>7, <1>9 DEF IInv, LifeInv, Timed, Same
<1>12. AppInv'
  BY <1>4, <1>7 DEF IInv, AppInv, AppHoldsDlg, Client, Timed, Same
<1>13. EndInv'
  BY <1>1, <1>2, <1>4, <1>7
  DEF IInv, EndInv, Ends, InHand, TerminatedIsArmed, Timed, Same
<1>14. RetransmitInv'
  BY <1>1, <1>2, <1>7 DEF IInv, RetransmitInv, Waiting, Armed, Client, Timed, Same
<1>15. IInv'
  BY <1>2, <1>3, <1>8, <1>10, <1>11, <1>12, <1>13, <1>14, HeldInv DEF IInv
<1>16. LifeStep  BY <1>4, <1>7, <1>15, FreedFacts, SameLife DEF IInv, LifeInv, Timed, Same
<1>17. QED  BY <1>15, <1>16

LEMMA TimerEventStep ==
  ASSUME IInv, TimerEvent
  PROVE  IInv' /\ LifeStep
<1>1. /\ loop.pc = "fired" /\ loop.ref = 1 /\ Held(tsx, 1) /\ tsx.state # "none"
      /\ Begun(tsx) /\ UNCHANGED <<told, app, lost, fault>>
  BY NatHeld, BegunFacts DEF TimerEvent, IInv, LoopInv
<1>2. tsx.state \in Gone => tsx.flight # "resolve"  BY <1>1 DEF IInv, EndInv
<1>3. CASE loop.entry = "timeout"
  <2> DEFINE t == [tsx EXCEPT !.id = "INACTIVE"]
  <2>1. Held(t, 1)
    <3>1. "INACTIVE" \in TimerId /\ 1 \in Int  BY DEF TimerId
    <3>2. QED  BY <1>1, <3>1, SetFacts DEF State
  <2>2. /\ Same(tsx, t) /\ t.flight = tsx.flight /\ t.retransmit = tsx.retransmit
        /\ t.pendResched = tsx.pendResched
    BY <1>1 DEF Held, TsxWith, Same
  <2>3. PICK o \in OnTimeout(t) : Leave(o, 1)  BY <1>3 DEF TimerEvent
  <2>. HIDE DEF t
  <2>4. Begun(t) /\ Ready(t)
    BY <1>1, <1>3, <2>2 DEF Begun, Ready, IInv, RetransmitInv, Waiting, Armed, Client, Same
  <2>5. Handled(t, o, 1)  BY <2>1, <2>3, <2>4, TimeoutFacts
  <2>6. t.state = "Terminated" => o.how # "none"
    BY <2>3 DEF OnTimeout, Live, Destroyed, Outcome
  <2>7. t.state \notin Gone => o.how # "none" /\ o.t.state \in Gone
    <3>1. CASE t.state \in {"Calling", "Proceeding", "Completed", "Confirmed"}
      <4>1. PICK c : o = Outcome(Over(c), "unlocked") /\ Held(c, 1)
        <5>1. 1 \in Int  OBVIOUS
        <5>2. QED
          BY <2>1, <2>3, <3>1, <5>1, StopRetransmitting DEF OnTimeout, Live
      <4>2. Over(c).state = "Terminated"
        <5>1. 1 \in Int  OBVIOUS
        <5>2. QED  BY <4>1, <5>1, OverFacts
      <4>3. QED  BY <4>1, <4>2 DEF Outcome, Gone
    <3>2. QED  BY <2>4, <3>1 DEF Begun, Gone
  <2>8. QED  BY <1>1, <1>2, <2>2, <2>3, <2>5, <2>6, <2>7, LeaveStep DEF Same
<1>4. CASE loop.entry # "timeout"
  <2>1. PICK o \in OnRetransmitTimer(tsx) : Leave(o, 1)  BY <1>4 DEF TimerEvent
  <2>2. Handled(tsx, o, 1)  BY <1>1, <2>1, RetransmitTimerFacts
  <2>3. tsx.state = "Terminated" => o.how # "none"
    BY <2>1 DEF OnRetransmitTimer, Destroyed, Outcome
  <2>4. Same(tsx, tsx)  BY DEF Same
  <2>5. tsx.state \notin Gone => Ends(tsx)
    BY <1>1, <1>4 DEF IInv, EndInv, InHand
  <2>6. QED  BY <1>1, <1>2, <2>1, <2>2, <2>3, <2>4, <2>5, LeaveStep
<1>5. QED  BY <1>3, <1>4

LEMMA RecvStep ==
  ASSUME IInv, Recv
  PROVE  IInv' /\ LifeStep
<1>1. /\ loop.pc = "recv" /\ loop.ref = 1 /\ Held(tsx, 1) /\ tsx.state # "none"
      /\ Begun(tsx) /\ UNCHANGED <<told, app, lost, fault>>
  BY NatHeld, BegunFacts DEF Recv, IInv, LoopInv
<1>2. tsx.state \in Gone => tsx.flight # "resolve"  BY <1>1 DEF IInv, EndInv
<1>3. Ready(tsx)  BY <1>1 DEF IInv, RetransmitInv, Ready
<1>4. PICK o \in OnMessage(tsx, loop.msg) : Leave(o, 1)  BY DEF Recv
<1>5. Handled(tsx, o, 1)  BY <1>1, <1>3, <1>4, MessageFacts
<1>6. tsx.state = "Terminated" => (tsx.timeout /\ tsx.id = "TIMEOUT") \/ lost
  BY <1>1 DEF IInv, EndInv, TerminatedIsArmed
<1>7. Same(tsx, tsx)  BY DEF Same
<1>8. tsx.state \notin Gone => Ends(tsx)  BY <1>1 DEF IInv, EndInv, InHand
<1>9. QED  BY <1>1, <1>2, <1>4, <1>5, <1>6, <1>7, <1>8, LeaveStep

(* An error that was posted to a transaction that has ended by then.        *)
LEMMA TransportErrorStep ==
  ASSUME IInv, TransportError
  PROVE  IInv' /\ LifeStep
<1> DEFINE t == [tsx EXCEPT !.id = "INACTIVE"]
<1>1. /\ loop.pc = "fired" /\ loop.entry = "timeout" /\ loop.ref = 1 /\ Held(tsx, 1)
      /\ tsx.state # "none" /\ tsx.id = "TRANSPORT_ERR" /\ ~tsx.timeout
      /\ Begun(tsx) /\ UNCHANGED <<told, app, lost, fault>>
  <2>1. loop.pc = "fired" /\ loop.entry = "timeout" /\ tsx.id = "TRANSPORT_ERR"
    BY DEF TransportError
  <2>2. tsx.timeout \in BOOLEAN  BY DEF IInv, TypeOK, TsxWith
  <2>3. QED
    BY <2>1, <2>2, NatHeld, BegunFacts DEF TransportError, IInv, LoopInv
<1>2. Held(t, 1)
  <2>1. "INACTIVE" \in TimerId /\ 1 \in Int  BY DEF TimerId
  <2>2. QED  BY <1>1, <2>1, SetFacts DEF State
<1>3. /\ Same(tsx, t) /\ t.flight = tsx.flight /\ t.timeout = tsx.timeout
      /\ t.id = "INACTIVE" /\ t.retransmit = tsx.retransmit
      /\ t.pendResched = tsx.pendResched
  BY <1>1 DEF Held, TsxWith, Same
<1>4. /\ t.state \in Gone => tsx' = [t EXCEPT !.refs = @ - 1] /\ loop' = Idle
      /\ t.state \notin Gone => tsx' = t /\ loop' = [loop EXCEPT !.pc = "posted"]
  BY DEF TransportError, Gone
<1>. HIDE DEF t
<1>5. Begun(t)  BY <1>1, <1>3 DEF Begun, Same
<1>6. Ready(t)
  BY <1>1, <1>3 DEF IInv, RetransmitInv, Ready, Waiting, Armed, Client, Same
<1>7. CASE t.state \in Gone
  <2> DEFINE o == Outcome(t, "none")
  <2>1. o \in Quiet(t)  BY DEF Quiet
  <2>2. o.t = t /\ o.how = "none"  BY DEF Outcome
  <2>3. Leave(o, 1)  BY <1>4, <1>7, <2>2 DEF Leave
  <2>. HIDE DEF o
  <2>4. Handled(t, o, 1)  BY <1>2, <1>5, <1>6, <2>1, QuietFacts
  <2>5. tsx.state = "Terminated" => lost
    BY <1>1 DEF IInv, EndInv, TerminatedIsArmed
  <2>6. t.flight # "resolve"  BY <1>1, <1>3, <1>7 DEF IInv, EndInv, Same
  <2>7. QED
    BY <1>1, <1>3, <1>7, <2>3, <2>4, <2>5, <2>6, LeaveStep DEF Same
<1>8. CASE t.state \notin Gone
  <2>1. tsx' = t /\ loop' = [loop EXCEPT !.pc = "posted"]  BY <1>4, <1>8
  <2>2. RestType  BY TypeFacts DEF IInv
  <2>3. /\ loop'.pc = "posted" /\ loop'.ref = 1 /\ LoopType'
    BY <1>1, <2>1, <2>2 DEF RestType, LoopType
  <2>4. RestType'  BY <1>1, <2>2, <2>3 DEF RestType, AppType
  <2>5. LoopInv'  BY <1>1, <1>3, <1>8, <2>1, <2>3 DEF LoopInv, Same, Gone
  <2>6. LifeInv'  BY <1>1, <1>3, <2>1, <2>3 DEF IInv, LifeInv, Same
  <2>7. AppInv'  BY <1>1, <1>3, <2>1 DEF IInv, AppInv, AppHoldsDlg, Client, Same
  <2>8. EndInv'
    BY <1>1, <1>3, <1>5, <1>8, <2>1, <2>3
    DEF IInv, LifeInv, EndInv, InHand, TerminatedIsArmed, Begun, Gone, Same
  <2>9. RetransmitInv'  BY <1>6, <2>1 DEF RetransmitInv, Ready
  <2>10. IInv'
    BY <1>2, <2>1, <2>3, <2>4, <2>5, <2>6, <2>7, <2>8, <2>9, HeldInv DEF IInv
  <2>11. LifeStep  BY <1>1, <1>3, <2>1, <2>10, FreedFacts, SameLife DEF Same
  <2>12. QED  BY <2>10, <2>11
<1>9. QED  BY <1>7, <1>8

LEMMA PostedErrorStep ==
  ASSUME IInv, PostedError
  PROVE  IInv' /\ LifeStep
<1> DEFINE a == [tsx EXCEPT !.transport = FALSE]
           b == Over(a)
           c == Detach(b)
           d == Cancel(c)
<1>1. /\ loop.pc = "posted" /\ loop.ref = 1 /\ Held(tsx, 1)
      /\ tsx.state # "none" /\ tsx.state # "Destroyed"
      /\ UNCHANGED <<told, app, lost, fault>>
  BY NatHeld DEF PostedError, IInv, LoopInv
<1>2. tsx' = d /\ loop' = [Idle EXCEPT !.pc = "tell", !.how = "posted", !.ref = 1]
  BY DEF PostedError
<1>3. Held(a, 1)
  <2>1. 1 \in Int  OBVIOUS
  <2>2. QED  BY <1>1, <2>1, SetFacts DEF State, TimerId
<1>4. Same(tsx, a)  BY <1>1 DEF Held, TsxWith, Same
<1>. HIDE DEF a
<1>5. /\ Held(b, 1) /\ b.state = "Terminated" /\ b.kind = a.kind
      /\ b.own = a.own /\ b.registered = a.registered
  BY <1>3, OverFacts
<1>. HIDE DEF b
<1>6. Held(c, 1) /\ Same(b, c) /\ c.flight # "resolve"  BY <1>5, DetachFacts
<1>. HIDE DEF c
<1>7. Held(d, 1) /\ Timed(c, d) /\ ~d.timeout  BY <1>6, CancelFacts
<1>. HIDE DEF d
<1>8. /\ tsx'.state = "Terminated" /\ tsx'.kind = tsx.kind /\ tsx'.own = tsx.own
      /\ tsx'.registered = tsx.registered /\ tsx'.flight # "resolve" /\ ~tsx'.timeout
  BY <1>2, <1>4, <1>5, <1>6, <1>7 DEF Timed, Same
<1>9. loop' = [pc |-> "tell", entry |-> "none", msg |-> "none", how |-> "posted",
               timerD |-> FALSE, ref |-> 1]
  BY <1>2 DEF Idle
<1>10. LoopType'  BY <1>9 DEF LoopType, How
<1>11. RestType'  BY <1>1, <1>10, TypeFacts DEF IInv, RestType, AppType
<1>12. told = tsx.state  BY <1>1 DEF IInv, LifeInv
<1>13. LoopInv'  BY <1>1, <1>8, <1>9, <1>12 DEF LoopInv
<1>14. LifeInv'  BY <1>1, <1>8, <1>9, <1>12 DEF IInv, LifeInv
<1>15. AppInv'  BY <1>1, <1>8 DEF IInv, AppInv, AppHoldsDlg
<1>16. EndInv'
  BY <1>1, <1>8, <1>9, <1>12 DEF EndInv, TerminatedIsArmed, Gone
<1>17. RetransmitInv'  BY <1>8 DEF RetransmitInv, Waiting
<1>18. IInv'
  BY <1>2, <1>7, <1>9, <1>11, <1>13, <1>14, <1>15, <1>16, <1>17, HeldInv DEF IInv
<1>19. LifeStep
  <2>1. ~Freed(tsx)  BY <1>1, FreedFacts
  <2>2. CASE tsx.state = "Terminated"  BY <1>1, <1>8, <1>18, <2>1, <2>2, SameLife
  <2>3. CASE tsx.state # "Terminated"
    <3>1. Forward(tsx.state, "Terminated")
      BY <1>1, <2>3, BegunFacts, ForwardFacts DEF Begun
    <3>2. QED  BY <1>1, <1>8, <1>18, <2>3, <3>1, AdvanceLife
  <2>4. QED  BY <2>2, <2>3
<1>20. QED  BY <1>18, <1>19

-----------------------------------------------------------------------------
(* Steps that leave the loop where it is *)

LEMMA KeepStep ==
  ASSUME IInv, RestType', AppInv', UNCHANGED <<told, loop>>, lost => lost',
         Held(tsx', loop.ref), Same(tsx, tsx'), tsx.state # "none",
         ~Freed(tsx) \/ tsx' = tsx,
         tsx'.flight \in {tsx.flight, "none"},
         loop.pc = "sent" => tsx'.flight = tsx.flight,
         Armed(tsx) => Armed(tsx'),
         tsx'.retransmit => tsx.retransmit,
         \/ tsx'.timeout = tsx.timeout /\ tsx'.id = tsx.id
         \/ tsx'.timeout /\ tsx'.id = "TIMEOUT"
         \/ loop.pc = "idle" /\ tsx'.timeout /\ (tsx.state = "Terminated" => lost')
  PROVE  IInv' /\ LifeStep
<1>1. LoopInv'  BY DEF IInv, LoopInv, Same
<1>2. LifeInv'  BY DEF IInv, LifeInv, Same
<1>3. EndInv'
  BY DEF IInv, EndInv, Ends, InHand, TerminatedIsArmed, Same, Gone
<1>4. RetransmitInv'  BY DEF IInv, RetransmitInv, Waiting, Client, Same
<1>5. IInv'  BY <1>1, <1>2, <1>3, <1>4, HeldInv DEF IInv
<1>6. LifeStep  BY <1>5, SameLife DEF Same
<1>7. QED  BY <1>5, <1>6

(* A send has come to its end; its reference is still to be dropped.        *)
LEMMA LandedFacts ==
  ASSUME NEW n \in Int, NEW t, Held(t, n), t.flight # "none"
  PROVE  LET u == [t EXCEPT !.flight = "none"]
         IN /\ Held(u, n + 1) /\ Same(t, u) /\ u.flight = "none"
            /\ u.timeout = t.timeout /\ u.id = t.id
            /\ u.retransmit = t.retransmit /\ u.pendResched = t.pendResched
<1> DEFINE u == [t EXCEPT !.flight = "none"]
<1>1. t \in TsxWith(Int) /\ n + 1 \in Int  BY DEF Held
<1>2. u \in TsxWith(Int)  BY <1>1 DEF TsxWith
<1>3. /\ Same(t, u) /\ u.flight = "none" /\ u.timeout = t.timeout /\ u.id = t.id
      /\ u.retransmit = t.retransmit /\ u.pendResched = t.pendResched
      /\ u.refs = t.refs
  BY <1>1 DEF TsxWith, Same
<1>. HIDE DEF u
<1>4. HeldBy(u, n + 1)  BY <1>1, <1>3 DEF Held, HeldBy, Same, TsxWith, B
<1>5. Held(u, n + 1)  BY <1>2, <1>4 DEF Held
<1>6. QED  BY <1>3, <1>5 DEF u

(* Its reference dropped as well, the transaction is as send_msg_callback   *)
(* finds it.                                                                *)
LEMMA ReleasedFacts ==
  ASSUME IInv, loop.ref = 0, tsx.flight # "none"
  PROVE  LET t == [tsx EXCEPT !.flight = "none", !.refs = @ - 1]
         IN /\ Held(t, 0) /\ Same(tsx, t) /\ t.flight = "none"
            /\ t.timeout = tsx.timeout /\ t.id = tsx.id
            /\ t.retransmit = tsx.retransmit /\ t.pendResched = tsx.pendResched
<1> DEFINE f == [tsx EXCEPT !.flight = "none"]
           t == [tsx EXCEPT !.flight = "none", !.refs = @ - 1]
<1>1. Held(tsx, 0)  BY NatHeld DEF IInv
<1>2. /\ Held(f, 1) /\ Same(tsx, f) /\ f.flight = "none"
      /\ f.timeout = tsx.timeout /\ f.id = tsx.id
      /\ f.retransmit = tsx.retransmit /\ f.pendResched = tsx.pendResched
  <2>1. 0 \in Int /\ 0 + 1 = 1  OBVIOUS
  <2>2. Held(f, 0 + 1)  BY <1>1, <2>1, LandedFacts
  <2>3. QED  BY <1>1, <2>1, <2>2, LandedFacts
<1>3. t = [f EXCEPT !.refs = @ - 1]  BY <1>1 DEF Held, TsxWith
<1>. HIDE DEF f, t
<1>4. 1 \in Int /\ 1 - 1 = 0  OBVIOUS
<1>5. Held(t, 1 - 1) /\ Timed(f, t)  BY <1>2, <1>3, <1>4, DropFacts
<1>6. /\ t.timeout = f.timeout /\ t.id = f.id
      /\ t.retransmit = f.retransmit /\ t.pendResched = f.pendResched
  BY <1>2, <1>3, <1>4, DropFacts
<1>7. QED  BY <1>2, <1>4, <1>5, <1>6 DEF Timed, Same, t

(* A send that is looked at and wanted: the loop goes on with it.           *)
LEMMA ResolvedSendStep ==
  ASSUME IInv, ResolvedSend
  PROVE  IInv' /\ LifeStep
<1>1. /\ loop.pc = "idle" /\ loop.ref = 0 /\ Held(tsx, 0)
      /\ tsx.flight \in {"resolve", "detached"} /\ tsx.flight # "none"
      /\ UNCHANGED <<told, app, lost, fault>>
  BY NatHeld, IdleFacts DEF ResolvedSend, IInv, LoopInv
<1>2. tsx.state # "none"  BY <1>1 DEF IInv, LifeInv
<1>3. CASE tsx.flight = "detached"
  <2> DEFINE t == [tsx EXCEPT !.flight = "none", !.refs = @ - 1]
  <2>1. tsx' = t /\ UNCHANGED loop  BY <1>3 DEF ResolvedSend
  <2>2. /\ Held(t, 0) /\ Same(tsx, t) /\ t.flight = "none"
        /\ t.timeout = tsx.timeout /\ t.id = tsx.id
        /\ t.retransmit = tsx.retransmit /\ t.pendResched = tsx.pendResched
    BY <1>1, ReleasedFacts
  <2>. HIDE DEF t
  <2>3. RestType'  BY <1>1, <2>1, TypeFacts DEF IInv, RestType, LoopType, AppType
  <2>4. AppInv'  BY <1>1, <2>1, <2>2 DEF IInv, AppInv, AppHoldsDlg, Client, Same
  <2>5. QED
    BY <1>1, <1>2, <2>1, <2>2, <2>3, <2>4, FreedFacts, KeepStep DEF Armed
<1>4. CASE tsx.flight = "resolve"
  <2>1. tsx' = tsx /\ loop' = [Idle EXCEPT !.pc = "sent"]  BY <1>4 DEF ResolvedSend
  <2>2. loop' = [pc |-> "sent", entry |-> "none", msg |-> "none", how |-> "none",
                 timerD |-> FALSE, ref |-> 0]
    BY <2>1 DEF Idle
  <2>3. LoopType'  BY <2>2 DEF LoopType, How
  <2>4. RestType'  BY <1>1, <2>3, TypeFacts DEF IInv, RestType, AppType
  <2>5. tsx.state \notin Gone  BY <1>1, <1>4 DEF IInv, EndInv
  <2>6. LoopInv'  BY <1>2, <1>4, <2>1, <2>2, <2>5 DEF LoopInv, Gone
  <2>7. LifeInv'  BY <1>1, <2>1 DEF IInv, LifeInv
  <2>8. AppInv'  BY <1>1, <2>1 DEF IInv, AppInv, AppHoldsDlg
  <2>9. EndInv'
    BY <1>1, <2>1, <2>2, <2>5 DEF IInv, EndInv, InHand, TerminatedIsArmed, Gone
  <2>10. RetransmitInv'  BY <1>1, <2>1 DEF IInv, RetransmitInv
  <2>11. Held(tsx', loop'.ref)  BY <1>1, <2>1, <2>2
  <2>12. IInv'
    BY <2>4, <2>6, <2>7, <2>8, <2>9, <2>10, <2>11, HeldInv DEF IInv
  <2>13. QED  BY <1>1, <2>1, <2>12, SameLife
<1>5. QED  BY <1>1, <1>3, <1>4

(* What send_msg_callback may make of a transaction that was terminated     *)
(* behind its back: nothing of its end is disturbed.                        *)
LEMMA TooLateFacts ==
  ASSUME NEW t, Held(t, 0), t.state = "Terminated", t.flight = "none",
         NEW o \in TooLate(t)
  PROVE  /\ Held(o.t, 0) /\ o.t.state = "Terminated" /\ o.t.kind = t.kind
         /\ o.t.own = t.own /\ o.t.registered = t.registered
         /\ o.t.timeout = t.timeout /\ o.t.id = t.id
         /\ o.t.flight \notin {"resolve", "detached"}
         /\ o.how \in {"none", "locked"} /\ o.timerD = FALSE
<1>1. 0 \in Int  OBVIOUS
<1>2. CASE o \in Quiet([t EXCEPT !.transport = FALSE, !.resolved = TRUE])
  <2> DEFINE u == [t EXCEPT !.transport = FALSE, !.resolved = TRUE]
  <2>1. Held(u, 0)  BY <1>1, SetFacts DEF State, TimerId
  <2>2. Same(t, u) /\ u.timeout = t.timeout /\ u.id = t.id /\ u.flight = t.flight
    BY DEF Held, TsxWith, Same
  <2>. HIDE DEF u
  <2>3. o.t = u /\ o.how = "none" /\ o.timerD = FALSE
    BY <1>2 DEF Quiet, Outcome, u
  <2>4. QED  BY <2>1, <2>2, <2>3 DEF Same
<1>3. CASE \E v \in Found(t) : o = Outcome(v, IF v.transport THEN "none" ELSE "locked")
  <2>1. PICK v \in Found(t) : o = Outcome(v, IF v.transport THEN "none" ELSE "locked")
    BY <1>3
  <2>2. o.t = v /\ o.how \in {"none", "locked"} /\ o.timerD = FALSE
    BY <2>1 DEF Outcome
  <2>3. Held(v, 0) /\ Sending(t, v) /\ v.flight # "resolve"
    BY <1>1, FoundFacts, FoundFlight DEF Held
  <2>4. QED  BY <2>2, <2>3 DEF Sending
<1>4. QED  BY <1>2, <1>3 DEF TooLate

LEMMA SendMsgCallbackStep ==
  ASSUME IInv, SendMsgCallback
  PROVE  IInv' /\ LifeStep
<1> DEFINE t == [tsx EXCEPT !.flight = "none", !.refs = @ - 1]
<1>1. /\ loop.pc = "sent" /\ loop.ref = 0 /\ tsx.state \notin {"none", "Destroyed"}
      /\ tsx.flight # "none" /\ UNCHANGED <<told, app, lost, fault>>
  BY DEF SendMsgCallback, IInv, LoopInv
<1>2. Begun(tsx) /\ Ready(tsx) /\ told = tsx.state
  BY <1>1, BegunFacts DEF IInv, RetransmitInv, LifeInv, Ready
<1>3. PICK o \in (IF t.state = "Terminated" THEN TooLate(t)
                  ELSE Sent(Found(t) \cup {NotSent(t)})) : Leave(o, 0)
  BY DEF SendMsgCallback
<1>4. /\ Held(t, 0) /\ Same(tsx, t) /\ t.flight = "none"
      /\ t.timeout = tsx.timeout /\ t.id = tsx.id
      /\ t.retransmit = tsx.retransmit /\ t.pendResched = tsx.pendResched
  BY <1>1, ReleasedFacts
<1>. HIDE DEF t
<1>5. CASE t.state # "Terminated"
  <2>1. o \in Sent(Found(t) \cup {NotSent(t)})  BY <1>3, <1>5
  <2>2. tsx.state \notin Gone /\ t.state \notin Gone
    BY <1>1, <1>4, <1>5 DEF Same, Gone
  <2>3. Begun(t) /\ Ready(t)
    BY <1>2, <1>4 DEF Begun, Ready, Waiting, Armed, Client, Same
  <2>4. 0 \in Int /\ t.flight # "detached"  BY <1>4
  <2>5. \A u \in Found(t) \cup {NotSent(t)} : Held(u, 0) /\ Sending(t, u) /\ Ready(u)
    <3>1. \A u \in Found(t) \cup {NotSent(t)} : Held(u, 0) /\ Sending(t, u)
      BY <1>4, <2>4, FoundFacts, NotSentFacts
    <3>2. QED  BY <2>3, <3>1 DEF Sending, Ready, Waiting, Client
  <2>6. Handled(t, o, 0)  BY <2>1, <2>2, <2>3, <2>4, <2>5, SentFacts
  <2>7. Ends(t)
    BY <1>1, <1>4, <2>2 DEF IInv, EndInv, InHand, Ends, Same
  <2>8. QED
    BY <1>1, <1>3, <1>4, <2>2, <2>6, <2>7, LeaveStep DEF Gone
<1>6. CASE t.state = "Terminated"
  <2>1. /\ Held(o.t, 0) /\ o.t.state = "Terminated" /\ o.t.kind = t.kind
        /\ o.t.own = t.own /\ o.t.registered = t.registered
        /\ o.t.timeout = t.timeout /\ o.t.id = t.id
        /\ o.t.flight \notin {"resolve", "detached"}
        /\ o.how \in {"none", "locked"} /\ o.timerD = FALSE
    BY <1>3, <1>4, <1>6, TooLateFacts
  <2>2. tsx' \in {o.t, [o.t EXCEPT !.refs = @ - 0]}  BY <1>3 DEF Leave
  <2>3. /\ Held(tsx', 0) /\ tsx'.state = "Terminated" /\ tsx'.kind = tsx.kind
        /\ tsx'.own = tsx.own /\ tsx'.registered = tsx.registered
        /\ tsx'.timeout = tsx.timeout /\ tsx'.id = tsx.id
        /\ tsx'.flight \notin {"resolve", "detached"}
    <3>1. 0 \in Int /\ 0 - 0 = 0  OBVIOUS
    <3>2. CASE tsx' = o.t  BY <1>4, <2>1, <3>2 DEF Same
    <3>3. CASE tsx' = [o.t EXCEPT !.refs = @ - 0]
      <4>1. Held(tsx', 0 - 0) /\ Timed(o.t, tsx')  BY <2>1, <3>1, <3>3, DropFacts
      <4>2. tsx'.timeout = o.t.timeout /\ tsx'.id = o.t.id
        BY <2>1, <3>1, <3>3, DropFacts
      <4>3. QED  BY <1>4, <2>1, <3>1, <4>1, <4>2 DEF Timed, Same
    <3>4. QED  BY <2>2, <3>2, <3>3
  <2>4. loop' \in {Idle, [pc |-> "tell", entry |-> "none", msg |-> "none",
                          how |-> "locked", timerD |-> FALSE, ref |-> 0]}
    BY <1>3, <2>1 DEF Leave, Idle
  <2>5. /\ loop'.pc \in {"idle", "tell"} /\ loop'.ref = 0
        /\ loop'.pc = "idle" => loop' = Idle
        /\ loop'.pc = "tell" => loop'.how = "locked"
    BY <2>4, IdleFacts
  <2>6. tsx.state = "Terminated" /\ told = "Terminated"
    BY <1>2, <1>4, <1>6 DEF Same
  <2>7. LoopType'
    <3>1. CASE loop' = Idle
      <4>1. LoopType' <=> loop' \in [pc : {"idle", "fired", "posted", "recv", "sent", "tell"},
                                    entry : {"none", "timeout", "retransmit"},
                                    msg : Message \cup {"none"}, how : How,
                                    timerD : BOOLEAN, ref : 0..1]
        BY DEF LoopType
      <4>2. QED  BY <3>1, <4>1, IdleFacts
    <3>2. CASE loop' # Idle
      <4>1. loop' = [pc |-> "tell", entry |-> "none", msg |-> "none",
                     how |-> "locked", timerD |-> FALSE, ref |-> 0]
        BY <2>4, <3>2
      <4>2. QED  BY <4>1 DEF LoopType, How
    <3>3. QED  BY <3>1, <3>2
  <2>8. RestType'  BY <1>1, <2>7, TypeFacts DEF IInv, RestType, AppType
  <2>9. LoopInv'  BY <1>1, <2>3, <2>5, <2>6 DEF LoopInv
  <2>10. LifeInv'  BY <1>1, <2>3, <2>6 DEF IInv, LifeInv
  <2>11. AppInv'  BY <1>1, <2>3, <2>6 DEF IInv, AppInv, AppHoldsDlg
  <2>12. EndInv'
    BY <1>1, <2>3, <2>6 DEF IInv, EndInv, TerminatedIsArmed, Gone
  <2>13. RetransmitInv'  BY <2>3 DEF RetransmitInv, Waiting
  <2>14. Held(tsx', loop'.ref)  BY <2>3, <2>5
  <2>15. IInv'
    BY <2>8, <2>9, <2>10, <2>11, <2>12, <2>13, <2>14, HeldInv DEF IInv
  <2>16. ~Freed(tsx)  BY <1>1, FreedFacts
  <2>17. QED  BY <1>1, <2>3, <2>6, <2>15, <2>16, SameLife
<1>7. QED  BY <1>5, <1>6

LEMMA TransportSendStep ==
  ASSUME IInv, NEW ok \in BOOLEAN, TransportSend(ok)
  PROVE  IInv' /\ LifeStep
<1> DEFINE t == [tsx EXCEPT !.flight = "none"]
           u == IF ok THEN t ELSE Restart(t, "TRANSPORT_ERR")
<1>1. /\ loop.pc = "idle" /\ loop.ref = 0 /\ Held(tsx, 0) /\ tsx.flight # "none"
      /\ tsx.state # "none" /\ UNCHANGED <<told, loop, app, fault>>
      /\ lost' = (lost \/ (~ok /\ tsx.state = "Terminated"))
  BY NatHeld, IdleFacts DEF TransportSend, IInv, LoopInv, LifeInv
<1>2. tsx' = [u EXCEPT !.refs = @ - 1]  BY DEF TransportSend
<1>3. /\ Held(t, 1) /\ Same(tsx, t) /\ t.flight = "none"
      /\ t.timeout = tsx.timeout /\ t.id = tsx.id
      /\ t.retransmit = tsx.retransmit /\ t.pendResched = tsx.pendResched
  <2>1. 0 \in Int /\ 0 + 1 = 1  OBVIOUS
  <2>2. Held(t, 0 + 1)  BY <1>1, <2>1, LandedFacts
  <2>3. QED  BY <1>1, <2>1, <2>2, LandedFacts
<1>. HIDE DEF t
<1>4. /\ Held(u, 1) /\ Same(tsx, u) /\ u.flight = "none" /\ Armed(u) = Armed(tsx)
      /\ u.retransmit = tsx.retransmit
      /\ \/ u.timeout = tsx.timeout /\ u.id = tsx.id
         \/ ~ok /\ u.timeout
  <2>1. CASE ok  BY <1>3, <2>1 DEF Armed
  <2>2. CASE ~ok
    <3>1. 1 \in Int  OBVIOUS
    <3>2. QED  BY <1>3, <2>2, <3>1, RestartFacts DEF Timed, Same, Armed
  <2>3. QED  BY <2>1, <2>2
<1>. HIDE DEF u
<1>5. /\ Held(tsx', 0) /\ Timed(u, tsx') /\ tsx'.timeout = u.timeout /\ tsx'.id = u.id
      /\ Armed(tsx') = Armed(u) /\ tsx'.retransmit = u.retransmit
  <2>1. 1 \in Int /\ 1 - 1 = 0  OBVIOUS
  <2>2. Held(tsx', 1 - 1)  BY <1>2, <1>4, <2>1, DropFacts
  <2>3. /\ Timed(u, tsx') /\ tsx'.timeout = u.timeout /\ tsx'.id = u.id
        /\ tsx'.retransmit = u.retransmit /\ tsx'.pendResched = u.pendResched
    BY <1>2, <1>4, <2>1, DropFacts
  <2>4. QED  BY <2>1, <2>2, <2>3 DEF Armed
<1>6. Same(tsx, tsx') /\ tsx'.flight = "none"  BY <1>4, <1>5 DEF Timed, Same
<1>7. RestType'  BY <1>1, TypeFacts DEF IInv, RestType, LoopType, AppType
<1>8. AppInv'  BY <1>1, <1>6 DEF IInv, AppInv, AppHoldsDlg, Client, Same
<1>9. Held(tsx', loop.ref) /\ (lost => lost')  BY <1>1, <1>5
<1>10. \/ tsx'.timeout = tsx.timeout /\ tsx'.id = tsx.id
       \/ loop.pc = "idle" /\ tsx'.timeout /\ (tsx.state = "Terminated" => lost')
  BY <1>1, <1>4, <1>5
<1>11. ~Freed(tsx)  BY <1>1, FreedFacts
<1>12. QED  BY <1>1, <1>4, <1>5, <1>6, <1>7, <1>8, <1>9, <1>10, <1>11, KeepStep

LEMMA SetTimeoutFacts ==
  ASSUME NEW n \in Int, NEW t, Held(t, n)
  PROVE  LET u == SetTimeout(t)
         IN /\ Held(u, n) /\ Same(t, u) /\ u.flight = t.flight /\ Armed(u) = Armed(t)
            /\ u.retransmit = t.retransmit
            /\ \/ u.timeout = t.timeout /\ u.id = t.id
               \/ u.timeout /\ u.id = "TIMEOUT"
<1>1. CASE t.status = "final" /\ t.id # "INACTIVE"
  BY <1>1 DEF SetTimeout, Same
<1>2. CASE ~(t.status = "final" /\ t.id # "INACTIVE")
  <2>1. SetTimeout(t) = Restart(t, "TIMEOUT")  BY <1>2 DEF SetTimeout
  <2>2. QED  BY <2>1, RestartFacts DEF Timed, Same, Armed
<1>3. QED  BY <1>1, <1>2

(* What the GUI thread does short of terminating the transaction.           *)
LEMMA AimStep ==
  ASSUME IInv, AppSetTimeout \/ PeerBye
  PROVE  IInv' /\ LifeStep
<1>1. /\ tsx' \in {tsx, SetTimeout(tsx)} /\ UNCHANGED <<told, loop, lost>>
      /\ app' \in {app, "ending"} /\ fault' \in {fault, "freed"} /\ tsx.state # "none"
  <2>1. CASE AppSetTimeout  BY <2>1 DEF AppSetTimeout, IInv, AppInv
  <2>2. CASE PeerBye  BY <2>2 DEF PeerBye, IInv, LifeInv
  <2>3. QED  BY <2>1, <2>2
<1>2. Held(tsx, loop.ref) /\ loop.ref \in Int  BY NatHeld DEF IInv
<1>3. /\ Held(tsx', loop.ref) /\ Same(tsx, tsx') /\ tsx'.flight = tsx.flight
      /\ Armed(tsx') = Armed(tsx) /\ tsx'.retransmit = tsx.retransmit
      /\ \/ tsx'.timeout = tsx.timeout /\ tsx'.id = tsx.id
         \/ tsx'.timeout /\ tsx'.id = "TIMEOUT"
  <2>1. CASE tsx' = tsx  BY <1>2, <2>1 DEF Same
  <2>2. CASE tsx' = SetTimeout(tsx)  BY <1>2, <2>2, SetTimeoutFacts
  <2>3. QED  BY <1>1, <2>1, <2>2
<1>4. RestType'  BY <1>1, TypeFacts DEF IInv, RestType, LoopType, AppType
<1>5. AppInv'  BY <1>1, <1>3 DEF IInv, AppInv, AppHoldsDlg, Client, Same
<1>6. ~Freed(tsx) \/ tsx' = tsx
  BY FreedFacts DEF AppSetTimeout, PeerBye
<1>7. QED  BY <1>1, <1>3, <1>4, <1>5, <1>6, KeepStep

LEMMA AloneStep ==
  ASSUME IInv, ServeAgain \/ EndSession \/ LockDialog
  PROVE  IInv' /\ LifeStep
<1>1. /\ UNCHANGED <<tsx, told, loop, lost>> /\ fault' \in {fault, "uninitialised"}
      /\ app' \in {app, "aimed", "ending", "terminating", "done"} /\ tsx.state # "none"
      /\ app' = "terminating" => app = "terminating" \/ told \notin {"none", "Destroyed"}
  <2>1. CASE ServeAgain  BY <2>1 DEF ServeAgain
  <2>2. CASE EndSession  BY <2>2 DEF EndSession, IInv, AppInv
  <2>3. CASE LockDialog  BY <2>3 DEF LockDialog, HasInviteTsx, IInv, AppInv
  <2>4. QED  BY <2>1, <2>2, <2>3
<1>2. Held(tsx', loop.ref) /\ Same(tsx, tsx')  BY <1>1, NatHeld DEF IInv, Same
<1>3. RestType'  BY <1>1, TypeFacts DEF IInv, RestType, LoopType, AppType
<1>4. AppInv'  BY <1>1 DEF IInv, AppInv, AppHoldsDlg
<1>5. QED  BY <1>1, <1>2, <1>3, <1>4, KeepStep DEF Armed

LEMMA TerminateStep ==
  ASSUME IInv, Terminate
  PROVE  IInv' /\ LifeStep
<1>1. /\ app = "terminating" /\ app' = "done" /\ UNCHANGED <<loop, lost, fault>>
      /\ told \notin {"none", "Destroyed"} /\ tsx.state # "none"
  BY DEF Terminate, IInv, AppInv, AppHoldsDlg, LifeInv
<1>2. Held(tsx, loop.ref) /\ loop.ref \in Int  BY NatHeld DEF IInv
<1>3. CASE tsx.state \in Gone
  <2>1. UNCHANGED <<tsx, told>>  BY <1>3 DEF Terminate, Gone
  <2>2. Held(tsx', loop.ref) /\ Same(tsx, tsx')  BY <1>2, <2>1 DEF Same
  <2>3. RestType'  BY <1>1, <2>1, TypeFacts DEF IInv, RestType, LoopType, AppType
  <2>4. AppInv'  BY <1>1, <2>1 DEF IInv, AppInv, AppHoldsDlg
  <2>5. QED  BY <1>1, <2>1, <2>2, <2>3, <2>4, KeepStep DEF Armed
<1>4. CASE tsx.state \notin Gone
  <2> DEFINE o == Over(tsx)
             u == Ended(o)
  <2>1. tsx' = u /\ told' = "Terminated"  BY <1>4 DEF Terminate, Gone
  <2>2. /\ Held(o, loop.ref) /\ o.state = "Terminated" /\ o.kind = tsx.kind
        /\ o.own = tsx.own /\ o.registered = tsx.registered /\ o.flight = tsx.flight
    BY <1>2, OverFacts
  <2>. HIDE DEF o
  <2>3. /\ Held(u, loop.ref) /\ Same(o, u) /\ u.flight # "resolve"
        /\ u.timeout /\ u.id = "TIMEOUT"
        /\ o.flight \in {"resolve", "detached"} => u.flight = "detached"
    BY <1>2, <2>2, EndedFacts
  <2>. HIDE DEF u
  <2>4. /\ tsx'.state = "Terminated" /\ tsx'.kind = tsx.kind /\ tsx'.own = tsx.own
        /\ tsx'.registered = tsx.registered /\ tsx'.flight # "resolve"
        /\ tsx'.timeout /\ tsx'.id = "TIMEOUT"
        /\ tsx.flight \in {"resolve", "detached"} => tsx'.flight = "detached"
    BY <2>1, <2>2, <2>3 DEF Same
  <2>5. "Terminated" \in State  BY DEF State
  <2>6. RestType'
    BY <1>1, <2>1, <2>5, TypeFacts DEF IInv, RestType, LoopType, AppType
  <2>7. LoopInv'  BY <1>1, <2>1, <2>4 DEF IInv, LoopInv
  <2>8. LifeInv'  BY <1>1, <2>1, <2>4 DEF IInv, LifeInv
  <2>9. AppInv'  BY <1>1, <2>1, <2>4 DEF AppInv, AppHoldsDlg
  <2>10. EndInv'  BY <2>1, <2>4 DEF EndInv, TerminatedIsArmed, Gone
  <2>11. RetransmitInv'  BY <2>4 DEF RetransmitInv, Waiting
  <2>12. Held(tsx', loop'.ref)  BY <1>1, <2>1, <2>3
  <2>13. IInv'
    BY <2>6, <2>7, <2>8, <2>9, <2>10, <2>11, <2>12, HeldInv DEF IInv
  <2>14. LifeStep
    <3>1. tsx'.state # tsx.state /\ told' = tsx'.state  BY <1>4, <2>1, <2>4 DEF Gone
    <3>2. Forward(tsx.state, "Terminated")
      BY <1>1, <1>4, BegunFacts, ForwardFacts DEF Begun, Gone
    <3>3. QED  BY <2>4, <2>13, <3>1, <3>2, AdvanceLife
  <2>15. QED  BY <2>13, <2>14
<1>5. QED  BY <1>3, <1>4

-----------------------------------------------------------------------------
(* The first step of a transaction *)

LEMMA StartedStep ==
  ASSUME IInv, RestType', tsx.state = "none", UNCHANGED loop, told' = tsx'.state,
         Held(tsx', 0), tsx'.own = 1, tsx'.registered = TRUE, Ready(tsx'), tsx'.timeout,
         tsx'.state \in {"Calling", "Completed", "Terminated"},
         tsx'.flight = "detached" => tsx'.state = "Terminated",
         tsx'.state = "Terminated" =>
           tsx'.timeout /\ tsx'.id = "TIMEOUT" /\ tsx'.flight # "resolve",
         app' \in {app, "idle", "done"}, app' # "new"
  PROVE  IInv' /\ LifeStep
<1>1. loop.pc = "idle" /\ loop = Idle /\ told = "none"
  BY DEF IInv, LoopInv, RestType, LoopType, LifeInv, TypeOK
<1>2. Held(tsx', loop'.ref)  BY <1>1, IdleFacts
<1>3. LoopInv'  BY <1>1 DEF LoopInv
<1>4. LifeInv'  BY <1>1 DEF LifeInv
<1>5. AppInv'  BY <1>1 DEF IInv, AppInv, AppHoldsDlg
<1>6. EndInv'  BY DEF EndInv, Ends, TerminatedIsArmed, Gone
<1>7. RetransmitInv'  BY DEF RetransmitInv, Ready
<1>8. IInv'  BY <1>2, <1>3, <1>4, <1>5, <1>6, <1>7, HeldInv DEF IInv
<1>9. LifeStep
  <2>1. Forward("none", tsx'.state)  BY DEF Forward, Life!Rank
  <2>2. QED  BY <1>8, <2>1, AdvanceLife
<1>10. QED  BY <1>8, <1>9

LEMMA CreatedFacts ==
  ASSUME IInv, tsx.state = "none"
  PROVE  LET c == Created(tsx)
         IN /\ Held(c, 0) /\ c.state = "Null" /\ c.kind = tsx.kind /\ c.own = 1
            /\ c.registered = TRUE /\ c.flight = "none"
<1> DEFINE c == Created(tsx)
<1>1. /\ tsx \in TsxWith(Int) /\ ~tsx.timeout /\ ~tsx.retransmit /\ tsx.flight = "none"
      /\ tsx.refs = 0
  BY NatHeld DEF IInv, LifeInv, Held
<1>2. "Null" \in State /\ 1 \in 0..1  BY DEF State
<1>3. c \in TsxWith(Int)
  <2> DEFINE v == [tsx EXCEPT !.state = "Null", !.registered = TRUE]
             w == [v EXCEPT !.refs = 1, !.own = 1]
  <2>1. v \in TsxWith(Int)  BY <1>1, <1>2 DEF TsxWith
  <2>2. w \in TsxWith(Int)
    <3>. HIDE DEF v
    <3>1. 1 \in Int  OBVIOUS
    <3>2. QED  BY <1>2, <2>1, <3>1 DEF TsxWith
  <2>3. w = c  BY <1>1 DEF Created, TsxWith
  <2>4. QED  BY <2>2, <2>3
<1>4. /\ c.state = "Null" /\ c.kind = tsx.kind /\ c.own = 1 /\ c.registered = TRUE
      /\ c.flight = "none" /\ c.refs = 1 /\ c.timeout = tsx.timeout
      /\ c.retransmit = tsx.retransmit
  BY <1>1 DEF Created, TsxWith
<1>. HIDE DEF c
<1>5. HeldBy(c, 0)  BY <1>1, <1>4 DEF HeldBy, B
<1>6. QED  BY <1>3, <1>4, <1>5 DEF Held, c

LEMMA SendStep ==
  ASSUME IInv, Send
  PROVE  IInv' /\ LifeStep
<1>1. /\ app = "new" /\ tsx.state = "none" /\ Client(tsx) /\ UNCHANGED <<loop, lost, fault>>
      /\ told' = tsx'.state /\ app' \in {"idle", "done"}
  BY DEF Send, IInv, AppInv
<1> DEFINE c == Created(tsx)
<1>2. /\ Held(c, 0) /\ c.state = "Null" /\ c.kind = tsx.kind /\ c.own = 1
      /\ c.registered = TRUE /\ c.flight = "none" /\ 0 \in Int
  <2>. 0 \in Int  OBVIOUS
  <2>1. QED  BY <1>1, CreatedFacts DEF c
<1>3. PICK u \in SendMsg(c) :
        tsx' = IF u.state = "Terminated" THEN Ended(u)
               ELSE [StartRetransmit(Restart(u, "TIMEOUT")) EXCEPT !.state = "Calling"]
  BY DEF Send
<1>. HIDE DEF c
<1>4. Held(u, 0) /\ Sending(c, u)  BY <1>2, SendMsgFacts
<1>5. /\ Held(tsx', 0) /\ tsx'.own = 1 /\ tsx'.registered = TRUE /\ Ready(tsx')
      /\ tsx'.timeout
      /\ tsx'.state \in {"Calling", "Terminated"}
      /\ tsx'.flight = "detached" => tsx'.state = "Terminated"
      /\ tsx'.state = "Terminated" =>
           tsx'.timeout /\ tsx'.id = "TIMEOUT" /\ tsx'.flight # "resolve"
  <2>1. CASE u.state = "Terminated"
    <3>1. tsx' = Ended(u)  BY <1>3, <2>1
    <3>2. QED
      BY <1>2, <1>4, <2>1, <3>1, EndedFacts DEF Sending, Same, Ready, Waiting
  <2>2. CASE u.state # "Terminated"
    <3> DEFINE r == Restart(u, "TIMEOUT")
               q == StartRetransmit(r)
    <3>1. Held(r, 0) /\ Timed(u, r) /\ r.timeout  BY <1>2, <1>4, RestartFacts
    <3>. HIDE DEF r
    <3>2. Held(q, 0) /\ Timed(r, q) /\ Armed(q) /\ q.timeout
      BY <1>2, <3>1, StartRetransmitFacts
    <3>3. tsx' = [q EXCEPT !.state = "Calling"]  BY <1>3, <2>2 DEF r
    <3>. HIDE DEF q
    <3>4. "Calling" \in State  BY DEF State
    <3>5. Held(tsx', 0)  BY <1>2, <3>2, <3>3, <3>4, SetFacts DEF TimerId
    <3>6. /\ tsx'.own = q.own /\ tsx'.registered = q.registered /\ tsx'.state = "Calling"
          /\ tsx'.flight = q.flight /\ Armed(tsx') /\ tsx'.timeout
      BY <3>2, <3>3 DEF Held, TsxWith, Armed
    <3>7. QED
      BY <1>2, <1>4, <3>1, <3>2, <3>5, <3>6 DEF Sending, Timed, Same, Ready
  <2>3. QED  BY <2>1, <2>2
<1>6. RestType'
  <2>1. tsx'.state \in State  BY <1>5 DEF State
  <2>2. QED  BY <1>1, <2>1, TypeFacts DEF IInv, RestType, LoopType, AppType
<1>7. QED  BY <1>1, <1>5, <1>6, StartedStep

LEMMA ServeStep ==
  ASSUME IInv, Serve
  PROVE  IInv' /\ LifeStep
<1>1. /\ tsx.state = "none" /\ ~Client(tsx) /\ UNCHANGED <<loop, app, lost, fault>>
      /\ told' = tsx'.state /\ app' # "new"
  BY DEF Serve, IInv, AppInv
<1> DEFINE c == Created(tsx)
           d == [c EXCEPT !.state = "Trying", !.status = "final"]
           e == [d EXCEPT !.transport = TRUE]
<1>2. /\ Held(c, 0) /\ c.kind = tsx.kind /\ c.own = 1
      /\ c.registered = TRUE /\ c.flight = "none" /\ 0 \in Int
  <2>. 0 \in Int  OBVIOUS
  <2>1. QED  BY <1>1, CreatedFacts DEF c
<1>3. PICK u \in SendMsg([c EXCEPT !.state = "Trying", !.status = "final",
                                   !.transport = TRUE]) :
        tsx' = IF u.state = "Terminated" THEN Ended(u)
               ELSE Completed(Restart(IF Invite(u) THEN StartRetransmit(u) ELSE u,
                                      "TIMEOUT"))
  BY DEF Serve
<1>. HIDE DEF c
<1>4. e = [c EXCEPT !.state = "Trying", !.status = "final", !.transport = TRUE]
  BY <1>2 DEF Held, TsxWith
<1>5. Held(d, 0)
  <2>1. "Trying" \in State /\ "final" \in {"none", "prov", "final"}  BY DEF State
  <2>2. QED  BY <1>2, <2>1, SetFacts DEF TimerId
<1>6. Held(e, 0)
  <2>. HIDE DEF d
  <2>1. QED  BY <1>2, <1>5, SetFacts DEF State, TimerId
<1>7. /\ e.kind = tsx.kind /\ e.own = 1 /\ e.registered = TRUE /\ e.flight = "none"
      /\ e.state = "Trying"
  BY <1>2 DEF Held, TsxWith
<1>8. u \in SendMsg(e)  BY <1>3, <1>4
<1>. HIDE DEF d, e
<1>9. Held(u, 0) /\ Sending(e, u)  BY <1>2, <1>6, <1>7, <1>8, SendMsgFacts
<1>10. /\ Held(tsx', 0) /\ tsx'.own = 1 /\ tsx'.registered = TRUE /\ Ready(tsx')
       /\ tsx'.timeout
       /\ tsx'.state \in {"Completed", "Terminated"}
       /\ tsx'.flight = "detached" => tsx'.state = "Terminated"
       /\ tsx'.state = "Terminated" =>
            tsx'.timeout /\ tsx'.id = "TIMEOUT" /\ tsx'.flight # "resolve"
  <2>1. CASE u.state = "Terminated"
    <3>1. tsx' = Ended(u)  BY <1>3, <2>1
    <3>2. QED
      BY <1>2, <1>7, <1>9, <2>1, <3>1, EndedFacts DEF Sending, Same, Ready, Waiting
  <2>2. CASE u.state # "Terminated"
    <3> DEFINE q == IF Invite(u) THEN StartRetransmit(u) ELSE u
               r == Restart(q, "TIMEOUT")
    <3>1. Held(q, 0) /\ Timed(u, q) /\ (Invite(u) => Armed(q))
      BY <1>2, <1>9, StartRetransmitFacts DEF Timed, Same
    <3>. HIDE DEF q
    <3>2. Held(r, 0) /\ Timed(q, r) /\ Armed(r) = Armed(q) /\ r.timeout
      BY <1>2, <3>1, RestartFacts DEF Armed
    <3>3. tsx' = Completed(r)  BY <1>3, <2>2 DEF q
    <3>. HIDE DEF r
    <3>4. "Completed" \in State /\ "final" \in {"none", "prov", "final"}  BY DEF State
    <3>5. Held(tsx', 0)  BY <1>2, <3>2, <3>3, <3>4, SetFacts DEF Completed, TimerId
    <3>6. /\ tsx'.own = r.own /\ tsx'.registered = r.registered /\ tsx'.kind = r.kind
          /\ tsx'.state = "Completed" /\ tsx'.flight = r.flight /\ Armed(tsx') = Armed(r)
          /\ tsx'.timeout
      BY <3>2, <3>3 DEF Held, TsxWith, Armed, Completed
    <3>7. tsx'.kind = u.kind /\ tsx'.own = 1 /\ tsx'.registered = TRUE
          /\ tsx'.flight # "detached"
      BY <1>7, <1>9, <3>1, <3>2, <3>6 DEF Sending, Timed, Same
    <3>8. Ready(tsx')
      BY <3>1, <3>2, <3>6, <3>7 DEF Ready, Waiting, Invite
    <3>9. QED  BY <3>5, <3>6, <3>7, <3>8
  <2>3. QED  BY <2>1, <2>2
<1>11. RestType'
  <2>1. tsx'.state \in State  BY <1>10 DEF State
  <2>2. QED  BY <1>1, <2>1, TypeFacts DEF IInv, RestType, LoopType, AppType
<1>12. QED  BY <1>1, <1>10, <1>11, StartedStep

-----------------------------------------------------------------------------
(* The specification *)

LEMMA InitInv ==
  ASSUME Init
  PROVE  IInv /\ Life!Init
<1>1. PICK k \in Kinds :
        /\ tsx = [kind |-> k, state |-> "none", status |-> "none",
                  timeout |-> FALSE, id |-> "INACTIVE", retransmit |-> FALSE,
                  refs |-> 0, own |-> 0, registered |-> FALSE,
                  transport |-> FALSE, resolved |-> FALSE, flight |-> "none",
                  pendSend |-> FALSE, pendResched |-> FALSE]
        /\ told = "none" /\ loop = Idle
        /\ app = IF k \in ClientKind THEN "new" ELSE "done"
        /\ lost = FALSE /\ fault = "none"
  BY DEF Init
<1>2. "none" \in State /\ "INACTIVE" \in TimerId  BY DEF State, TimerId
<1>3. tsx \in TsxWith(Nat)  BY <1>1, <1>2 DEF TsxWith
<1>4. TypeOK  BY <1>1, <1>2, <1>3, IdleFacts DEF TypeOK
<1>5. RefsAreHeld  BY <1>1, IdleFacts DEF RefsAreHeld, HeldBy, B
<1>6. LoopInv  BY <1>1, IdleFacts DEF LoopInv
<1>7. LifeInv  BY <1>1, IdleFacts DEF LifeInv
<1>8. AppInv  BY <1>1 DEF AppInv, AppHoldsDlg, Client
<1>9. EndInv /\ RetransmitInv
  BY <1>1 DEF EndInv, TerminatedIsArmed, RetransmitInv, Waiting, Gone
<1>10. Life!Init  BY <1>1 DEF Life!Init, Freed
<1>11. QED  BY <1>4, <1>5, <1>6, <1>7, <1>8, <1>9, <1>10 DEF IInv

LEMMA NextStep ==
  ASSUME IInv, [Next]_vars
  PROVE  IInv' /\ LifeStep
<1>1. CASE TimerEvent  BY <1>1, TimerEventStep
<1>2. CASE TransportError  BY <1>2, TransportErrorStep
<1>3. CASE PostedError  BY <1>3, PostedErrorStep
<1>4. CASE Recv  BY <1>4, RecvStep
<1>5. CASE Tell  BY <1>5, TellStep
<1>6. CASE \E e \in {"timeout", "retransmit"} : Fire(e)  BY <1>6, FireStep
<1>7. CASE \E m \in Message : Lookup(m)  BY <1>7, LookupStep
<1>8. CASE ResolvedSend  BY <1>8, ResolvedSendStep
<1>9. CASE SendMsgCallback  BY <1>9, SendMsgCallbackStep
<1>10. CASE \E ok \in BOOLEAN : TransportSend(ok)  BY <1>10, TransportSendStep
<1>11. CASE Send  BY <1>11, SendStep
<1>12. CASE Serve  BY <1>12, ServeStep
<1>13. CASE ServeAgain \/ EndSession \/ LockDialog  BY <1>13, AloneStep
<1>14. CASE AppSetTimeout \/ PeerBye  BY <1>14, AimStep
<1>15. CASE Terminate  BY <1>15, TerminateStep
<1>16. CASE UNCHANGED vars
  <2>1. UNCHANGED <<tsx, told, loop, app, lost, fault>>  BY <1>16 DEF vars
  <2>2. IInv'
    BY <2>1 DEF IInv, TypeOK, RefsAreHeld, LoopInv, LifeInv, AppInv, AppHoldsDlg, EndInv,
                Ends, InHand, TerminatedIsArmed, RetransmitInv
  <2>3. QED  BY <2>1, <2>2, SameLife
<1>17. QED
  BY <1>1, <1>2, <1>3, <1>4, <1>5, <1>6, <1>7, <1>8, <1>9, <1>10, <1>11, <1>12, <1>13, <1>14,
     <1>15, <1>16
  DEF Next, LoopStep

(* Each step of the loop, of the GUI thread and of a late send keeps the    *)
(* invariant, of every kind of transaction.                                 *)
THEOREM InvariantHolds == Spec => []IInv
<1>1. Init => IInv  BY InitInv
<1>2. IInv /\ [Next]_vars => IInv'  BY NextStep
<1>3. QED  BY <1>1, <1>2, PTL DEF Spec

(* Types; the reference count is never negative.                            *)
THEOREM TypeCorrect == Spec => []TypeOK
<1>1. IInv => TypeOK  BY DEF IInv
<1>2. QED  BY <1>1, InvariantHolds, PTL

(* The group lock counts exactly the transaction, its timers in the heap,   *)
(* its pending send and the event loop's handler.                           *)
THEOREM ReferencesCounted == Spec => []RefsAreHeld
<1>1. IInv => RefsAreHeld  BY DEF IInv
<1>2. QED  BY <1>1, InvariantHolds, PTL

(* No thread inside a handler or pjsip_tsx_terminate has the memory taken   *)
(* away: what it relies on, its own reference or that of the transaction    *)
(* itself, is counted.                                                      *)
THEOREM NoneInFreedMemory == Spec => []UsersHoldTsx
<1>1. IInv => UsersHoldTsx
  <2>1. SUFFICES ASSUME IInv, loop.pc # "idle" \/ app = "terminating"
                 PROVE  tsx.refs > 0
    BY DEF UsersHoldTsx
  <2>2. tsx \in TsxWith(Nat) /\ tsx.state # "none"
    BY <2>1 DEF IInv, TypeOK, LoopInv, AppInv, AppHoldsDlg, LifeInv
  <2>3. ~Freed(tsx)
    BY <2>1, FreedFacts DEF IInv, AppInv, AppHoldsDlg
  <2>4. QED  BY <2>2, <2>3 DEF Freed, TsxWith
<1>2. QED  BY <1>1, InvariantHolds, PTL

(* The safety half of EveryTransactionEnds: with the loop idle, what has    *)
(* still to happen to a transaction is in the heap or on its way.           *)
THEOREM NothingIsForgotten == Spec => []NothingForgotten
<1>1. IInv => NothingForgotten
  <2> SUFFICES ASSUME IInv, loop.pc = "idle" PROVE NothingForgotten
    BY DEF NothingForgotten
  <2>1. loop.ref = 0 /\ tsx.state = told  BY IdleFacts DEF IInv, LoopInv, LifeInv
  <2>2. ASSUME tsx.state \notin {"none", "Destroyed"} PROVE tsx.timeout \/ Ringing \/ lost
    <3>1. CASE tsx.state = "Terminated"  BY <3>1 DEF IInv, EndInv, TerminatedIsArmed
    <3>2. CASE tsx.state # "Terminated"
      BY <2>2, <3>2 DEF IInv, EndInv, InHand, Ends, Gone, Ringing
    <3>3. QED  BY <3>1, <3>2
  <2>3. ASSUME tsx.state = "Destroyed", ~tsx.timeout, tsx.flight = "none"
        PROVE  Freed(tsx)
    <3>1. tsx.own = 0 /\ ~tsx.retransmit  BY <2>1, <2>3 DEF IInv, LifeInv, EndInv
    <3>2. tsx \in TsxWith(Nat) /\ HeldBy(tsx, 0)  BY <2>1 DEF IInv, TypeOK, RefsAreHeld
    <3>3. tsx.refs = 0  BY <2>3, <3>1, <3>2 DEF HeldBy, TsxWith, B
    <3>4. QED  BY <2>3, <3>3 DEF Freed
  <2>4. QED  BY <2>2, <2>3 DEF NothingForgotten
<1>2. QED  BY <1>1, InvariantHolds, PTL

(* The retransmission timer runs, or is remembered, while the answer is     *)
(* missing.                                                                 *)
THEOREM RetransmissionArmed == Spec => []RetransmitArmed
<1>1. IInv => RetransmitArmed  BY DEF IInv, RetransmitInv, RetransmitArmed
<1>2. QED  BY <1>1, InvariantHolds, PTL

(* The transaction is a TsxLife: forwards only, its end is told before it   *)
(* is destroyed, and its memory goes last.                                  *)
THEOREM Implementation == Spec => ImplementsTsxLife
<1>1. Init => Life!Init  BY InitInv
<1>2. IInv /\ [Next]_vars => [Life!Next]_(Life!vars)  BY NextStep DEF LifeStep
<1>3. QED  BY <1>1, <1>2, InvariantHolds, PTL DEF Spec, ImplementsTsxLife, Life!Spec
=============================================================================
