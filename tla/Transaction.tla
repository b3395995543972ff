----------------------------- MODULE Transaction -----------------------------
(***************************************************************************)
(* One SIP transaction of pjsip (sip_transaction.c) between the two        *)
(* threads that work on it: eventloop_thread, which runs its timers, its   *)
(* messages and the completions of its sends, and the GUI thread, whose    *)
(* sendBye sets a timeout for the INVITE transaction and terminates it.    *)
(*                                                                         *)
(* tsx is the transaction with its two timers (timer.c), the references on *)
(* its group lock and the send that is under way, at most one.  What runs  *)
(* under the group lock is one step, except that tsx_set_state calls the   *)
(* transaction user in the middle: the user locks its dialog, and the GUI  *)
(* thread may hold that lock.  So a step of the loop ends where the user   *)
(* is to be told, and Tell goes on from there.                             *)
(*                                                                         *)
(* Time is abstract: a timer in the heap may fire at any later moment.     *)
(* The transport is UDP to one address: a send succeeds at once, fails at  *)
(* once, or is completed later (PJ_EPENDING).                              *)
(***************************************************************************)
EXTENDS Integers

CONSTANT Kinds      \* the kinds of transaction that are looked at

ClientKind == {"invite", "request"}
ServerKind == {"served", "servedInvite"}
ASSUME KindAssumption == Kinds \subseteq ClientKind \cup ServerKind

VARIABLES
  tsx,    \* the transaction
  told,   \* the last state tsx_set_state reported to the transaction user
  loop,   \* eventloop_thread
  app,    \* the thread that sends the request: the GUI thread for an INVITE
  lost,   \* the error of a late send was posted to a terminated transaction
  fault   \* undefined behaviour that was met

vars == <<tsx, told, loop, app, lost, fault>>

State == {"none", "Null", "Calling", "Trying", "Proceeding", "Completed",
          "Confirmed", "Terminated", "Destroyed"}
TimerId == {"INACTIVE", "TIMEOUT", "TRANSPORT_ERR"}
Message == {"1xx", "2xx", "final", "request", "ACK"}

Client(t) == t.kind \in ClientKind
Invite(t) == t.kind \in {"invite", "servedInvite"}
Live(t) == t.state \in {"Calling", "Proceeding", "Completed", "Confirmed"}
Freed(t) == t.state # "none" /\ t.refs = 0

(* TSX_HAS_PENDING_TRANSPORT *)
Pending(t) == t.flight \in {"transport", "resolve"}

Idle == [pc |-> "idle", entry |-> "none", msg |-> "none", how |-> "none",
         timerD |-> FALSE, ref |-> 0]

Init ==
  \E k \in Kinds :
    /\ tsx = [kind |-> k, state |-> "none", status |-> "none",
              timeout |-> FALSE, id |-> "INACTIVE", retransmit |-> FALSE,
              refs |-> 0, own |-> 0, registered |-> FALSE,
              transport |-> FALSE, resolved |-> FALSE, flight |-> "none",
              pendSend |-> FALSE, pendResched |-> FALSE]
    /\ told = "none" /\ loop = Idle
    /\ app = IF k \in ClientKind THEN "new" ELSE "done"
    /\ lost = FALSE /\ fault = "none"

-----------------------------------------------------------------------------
(* The two timers: a scheduled entry holds a reference on the group lock *)

(* Mutant: an idle timer is taken for one in the heap. *)
CancelAlways(t) == [t EXCEPT !.timeout = FALSE, !.id = "INACTIVE", !.refs = @ - 1]

(* pj_timer_heap_cancel_if_active on timeout_timer: the id is set always.   *)
Cancel(t) ==
  [t EXCEPT !.timeout = FALSE, !.id = "INACTIVE",
            !.refs = IF t.timeout THEN @ - 1 ELSE @]

(* An entry that is in the heap already is refused (PJ_EINVALIDOP). *)
Schedule(t, id) ==
  IF t.timeout THEN t ELSE [t EXCEPT !.timeout = TRUE, !.id = id, !.refs = @ + 1]

Restart(t, id) == Schedule(Cancel(t), id)

CancelRetransmit(t) ==
  IF t.retransmit THEN [t EXCEPT !.retransmit = FALSE, !.refs = @ - 1] ELSE t

ScheduleRetransmit(t) ==
  IF t.retransmit THEN t ELSE [t EXCEPT !.retransmit = TRUE, !.refs = @ + 1]

(* While a send is pending the timer is only marked for the callback. *)
StartRetransmit(t) ==
  IF Pending(t) THEN [t EXCEPT !.pendResched = TRUE] ELSE ScheduleRetransmit(t)

(* pjsip_tsx_set_timeout: under mutex_b only, never the group lock. *)
SetTimeout(t) ==
  IF t.status = "final" /\ t.id # "INACTIVE" THEN t ELSE Restart(t, "TIMEOUT")

-----------------------------------------------------------------------------
(* tsx_set_state, around the call of the transaction user *)

Over(t) == [t EXCEPT !.status = "final", !.state = "Terminated"]

(* A send by way of the resolver is told to leave the transaction alone; a  *)
(* send on the transaction's own transport still calls transport_callback.  *)
Detach(t) == IF t.flight = "resolve" THEN [t EXCEPT !.flight = "detached"] ELSE t

(* Mutant: the timer that destroys the transaction is not started. *)
EndedForGood(t) == Cancel(Detach(t))

Ended(t) == Restart(Detach(t), "TIMEOUT")

(* mod_tsx_layer_unregister_tsx and tsx_shutdown: the reference of          *)
(* tsx_create is dropped.                                                   *)
Shutdown(t) ==
  LET c == CancelRetransmit(Cancel(t))
  IN [c EXCEPT !.registered = FALSE, !.transport = FALSE,
               !.pendSend = FALSE, !.pendResched = FALSE,
               !.refs = @ - t.own, !.own = 0]

(* What follows once the user was told: w is how the loop came there. *)
AfterTell(t, w) ==
  CASE w.how = "posted"                             -> Schedule(t, "TIMEOUT")
    [] w.how # "posted" /\ t.state = "Terminated"   -> Ended(t)
    [] t.state = "Destroyed"                        -> Shutdown(t)
    [] w.how # "posted" /\ ~(t.state \in {"Terminated", "Destroyed"}) ->
         IF w.timerD THEN Restart(t, "TIMEOUT") ELSE t

-----------------------------------------------------------------------------
(* tsx_send_msg: the transactions it may leave behind.  One that is         *)
(* Terminated has failed, and its user has still to be told.                *)

OnTransport(t) == {t, [t EXCEPT !.flight = "transport", !.refs = @ + 1]}

NotSent(t) == Over([t EXCEPT !.transport = FALSE, !.resolved = TRUE])

(* Mutant: the timer is started for reliable transports only, UDP is not. *)
ReschedReliable(t) ==
  IF t.pendResched /\ ~Pending(t) THEN [t EXCEPT !.pendResched = FALSE] ELSE t

(* The retransmission that was put off, unless a send is pending again. *)
Resched(t) ==
  IF t.pendResched /\ ~Pending(t)
  THEN ScheduleRetransmit([t EXCEPT !.pendResched = FALSE]) ELSE t

(* send_msg_callback for a message that was sent: what was put off while it *)
(* was pending, a message to send and a timer to start, is done now.        *)
Found(t) ==
  LET f == [t EXCEPT !.transport = TRUE, !.resolved = TRUE, !.pendSend = FALSE]
      again == IF t.pendSend THEN OnTransport(f) \cup {NotSent(f)} ELSE {f}
  IN {Resched(u) : u \in again}

(* No transport yet, or it failed: by way of the resolver. *)
Resolve(t) ==
  {[t EXCEPT !.flight = "resolve", !.refs = @ + 1], NotSent(t)} \cup Found(t)

SendMsg(t) ==
  IF Pending(t) THEN {[t EXCEPT !.pendSend = TRUE]}
  ELSE (IF t.transport THEN OnTransport(t) ELSE {})
       \cup (IF t.resolved THEN {NotSent(t)} ELSE Resolve([t EXCEPT !.transport = FALSE]))

(* tsx_retransmit *)
Retransmit(t, resched) ==
  IF resched /\ t.retransmit THEN {t}
  ELSE SendMsg(IF resched THEN StartRetransmit(t) ELSE t)

-----------------------------------------------------------------------------
(* The state handlers: each gives the transactions it may end with, and how *)
(* the user is told: under the group lock, without it, or not at all.       *)

Outcome(t, how) == [t |-> t, how |-> how, timerD |-> FALSE]
Quiet(t) == {Outcome(t, "none")}

(* Mutant: nobody hears that the send has failed. *)
SentSilently(us) == {Outcome(u, "none") : u \in us}

(* A state that the handler leaves as it was is not reported. *)
Sent(us) ==
  {Outcome(u, IF u.state = "Terminated" THEN "locked" ELSE "none") : u \in us}

Destroyed(t, how) == {Outcome([t EXCEPT !.state = "Destroyed"], how)}

OnRetransmitTimer(t) ==
  CASE t.state = "Terminated" -> Destroyed(t, "locked")
    [] \/ Client(t) /\ t.state \in {"Calling", "Proceeding"}
       \/ ~Client(t) /\ t.state = "Completed" -> Sent(Retransmit(t, TRUE))
    [] OTHER -> Quiet(t)            \* a stray timer

OnTimeout(t) ==
  LET c == IF t.state = "Calling"
           THEN [CancelRetransmit(t) EXCEPT !.pendResched = FALSE] ELSE t
  IN CASE t.state = "Terminated" -> Destroyed(t, "unlocked")
       [] Live(t) -> {Outcome(Over(c), "unlocked")}
       [] OTHER -> Quiet(t)

(* Mutant: timer F is deleted as timer B is. *)
FirstResponseUntimed(t, m) ==
  LET c == [CancelRetransmit(t) EXCEPT !.pendResched = FALSE]
  IN IF m # "1xx" \/ Invite(t) THEN Cancel(c) ELSE ScheduleRetransmit(Cancel(c))

(* tsx_on_state_calling before it goes on like tsx_on_state_proceeding_uac. *)
FirstResponse(t, m) ==
  LET c == [CancelRetransmit(t) EXCEPT !.pendResched = FALSE]
  IN IF m # "1xx" \/ Invite(t) THEN Cancel(c) ELSE ScheduleRetransmit(c)

Completed(t) == [t EXCEPT !.state = "Completed", !.status = "final"]

(* A final response that is no 2xx: an INVITE's is acknowledged first.      *)
Refused(t) ==
  LET c == [Cancel(CancelRetransmit(t)) EXCEPT !.status = "final"]
      sent == IF Invite(t) THEN SendMsg(c) ELSE {c}
  IN {[t |-> IF u.state = "Terminated" THEN u ELSE Completed(u),
       how |-> "locked", timerD |-> u.state # "Terminated"] : u \in sent}

Accepted(t) ==
  IF Invite(t) THEN Over(Cancel(t))
  ELSE Completed(CancelRetransmit(Restart(t, "TIMEOUT")))

OnResponse(t, m) ==
  LET c == IF t.state = "Calling" THEN FirstResponse(t, m) ELSE t
  IN CASE t.state \in {"Calling", "Proceeding"} /\ m = "1xx" ->
            {Outcome([c EXCEPT !.state = "Proceeding", !.status = "prov"], "locked")}
       [] t.state \in {"Calling", "Proceeding"} /\ m = "2xx" ->
            {Outcome(Accepted(c), "locked")}
       [] t.state \in {"Calling", "Proceeding"} /\ m = "final" -> Refused(c)
       [] t.state = "Completed" /\ Invite(t) /\ m # "1xx" -> Sent(Retransmit(t, FALSE))
       [] OTHER -> Quiet(t)

(* A retransmitted request is answered again; an ACK ends the answering.    *)
OnRequest(t, m) ==
  CASE t.state = "Completed" /\ m = "request" -> Sent(Retransmit(t, FALSE))
    [] t.state = "Completed" /\ m = "ACK" ->
         LET c == [CancelRetransmit(t) EXCEPT !.pendResched = FALSE, !.state = "Confirmed"]
         IN {Outcome(Restart(c, "TIMEOUT"), "locked")}
    [] OTHER -> Quiet(t)

OnMessage(t, m) == IF Client(t) THEN OnResponse(t, m) ELSE OnRequest(t, m)

-----------------------------------------------------------------------------
(* The locks *)

(* The loop waits for the dialog with the group lock in its hand. *)
LoopHoldsTsx == loop.pc = "tell" /\ loop.how = "locked"

(* pjsip_inv_terminate waits for the group lock with the dialog's in hand. *)
AppHoldsDlg == app = "terminating"

(* The loop leaves a handler with o, holding ref references: to the user    *)
(* first, or straight back.                                                 *)
Leave(o, ref) ==
  IF o.how = "none"
  THEN tsx' = [o.t EXCEPT !.refs = @ - ref] /\ loop' = Idle
  ELSE /\ tsx' = o.t
       /\ loop' = [Idle EXCEPT !.pc = "tell", !.how = o.how,
                               !.timerD = o.timerD, !.ref = ref]

(* Mutant: the user does not wait for its dialog. *)
TellAtOnce ==
  /\ loop.pc = "tell"
  /\ told' = tsx.state
  /\ tsx' = [AfterTell(tsx, loop) EXCEPT !.refs = @ - loop.ref]
  /\ loop' = Idle
  /\ UNCHANGED <<app, lost, fault>>

Tell ==
  /\ loop.pc = "tell" /\ ~AppHoldsDlg
  /\ told' = tsx.state
  /\ tsx' = [AfterTell(tsx, loop) EXCEPT !.refs = @ - loop.ref]
  /\ loop' = Idle
  /\ UNCHANGED <<app, lost, fault>>

-----------------------------------------------------------------------------
(* eventloop_thread: timers *)

(* pj_timer_heap_poll takes the entry out, and its reference along. *)
Fire(e) ==
  /\ loop.pc = "idle"
  /\ \/ e = "timeout" /\ tsx.timeout /\ tsx' = [tsx EXCEPT !.timeout = FALSE]
     \/ e = "retransmit" /\ tsx.retransmit /\ tsx' = [tsx EXCEPT !.retransmit = FALSE]
  /\ loop' = [Idle EXCEPT !.pc = "fired", !.entry = e, !.ref = 1]
  /\ UNCHANGED <<told, app, lost, fault>>

TimerEvent ==
  /\ loop.pc = "fired" /\ ~(loop.entry = "timeout" /\ tsx.id = "TRANSPORT_ERR")
  /\ \E o \in (IF loop.entry = "timeout" THEN OnTimeout([tsx EXCEPT !.id = "INACTIVE"])
                                         ELSE OnRetransmitTimer(tsx)) : Leave(o, 1)
  /\ UNCHANGED <<told, app, lost, fault>>

(* A posted transport error: the state is looked at before the lock. *)
TransportError ==
  /\ loop.pc = "fired" /\ loop.entry = "timeout" /\ tsx.id = "TRANSPORT_ERR"
  /\ LET t == [tsx EXCEPT !.id = "INACTIVE"]
     IN IF t.state \in {"Terminated", "Destroyed"}
        THEN tsx' = [t EXCEPT !.refs = @ - 1] /\ loop' = Idle
        ELSE tsx' = t /\ loop' = [loop EXCEPT !.pc = "posted"]
  /\ UNCHANGED <<told, app, lost, fault>>

(* Terminated without telling and without scheduling; told without the lock. *)
PostedError ==
  /\ loop.pc = "posted"
  /\ tsx' = Cancel(Detach(Over([tsx EXCEPT !.transport = FALSE])))
  /\ loop' = [Idle EXCEPT !.pc = "tell", !.how = "posted", !.ref = 1]
  /\ UNCHANGED <<told, app, lost, fault>>

-----------------------------------------------------------------------------
(* eventloop_thread: messages and completed sends *)

MessageFor(t) ==
  IF Client(t) THEN (IF t.resolved THEN {"1xx", "2xx", "final"} ELSE {})
  ELSE {"request"} \cup (IF t.kind = "servedInvite" THEN {"ACK"} ELSE {})

(* mod_tsx_layer_on_rx_*: found in the table, and kept from being freed. *)
Lookup(m) ==
  /\ loop.pc = "idle" /\ tsx.registered /\ tsx.state # "Terminated"
  /\ m \in MessageFor(tsx)
  /\ tsx' = [tsx EXCEPT !.refs = @ + 1]
  /\ loop' = [Idle EXCEPT !.pc = "recv", !.msg = m, !.ref = 1]
  /\ UNCHANGED <<told, app, lost, fault>>

Recv ==
  /\ loop.pc = "recv"
  /\ \E o \in OnMessage(tsx, loop.msg) : Leave(o, 1)
  /\ UNCHANGED <<told, app, lost, fault>>

(* The resolver calls send_msg_callback: without a lock it looks whether    *)
(* the transaction still wants to know.                                     *)
ResolvedSend ==
  /\ loop.pc = "idle"
  /\ \/ /\ tsx.flight = "detached"
        /\ tsx' = [tsx EXCEPT !.flight = "none", !.refs = @ - 1] /\ UNCHANGED loop
     \/ /\ tsx.flight = "resolve"
        /\ loop' = [Idle EXCEPT !.pc = "sent"] /\ UNCHANGED tsx
  /\ UNCHANGED <<told, app, lost, fault>>

(* It does not look again under the group lock: the transaction may have    *)
(* been terminated by then, and gets the transport and what was put off.    *)
TooLate(t) ==
  {Outcome(u, IF u.transport THEN "none" ELSE "locked") : u \in Found(t)}
  \cup Quiet([t EXCEPT !.transport = FALSE, !.resolved = TRUE])

SendMsgCallback ==
  /\ loop.pc = "sent"
  /\ LET t == [tsx EXCEPT !.flight = "none", !.refs = @ - 1]
     IN \E o \in (IF t.state = "Terminated" THEN TooLate(t)
                  ELSE Sent(Found(t) \cup {NotSent(t)})) : Leave(o, 0)
  /\ UNCHANGED <<told, app, lost, fault>>

(* Mutant: the reference of the send is not dropped. *)
TransportSendKept(ok) ==
  /\ loop.pc = "idle" /\ tsx.flight = "transport"
  /\ LET t == [tsx EXCEPT !.flight = "none"]
     IN tsx' = IF ok THEN t ELSE Restart(t, "TRANSPORT_ERR")
  /\ lost' = (lost \/ (~ok /\ tsx.state = "Terminated"))
  /\ UNCHANGED <<told, loop, app, fault>>

(* transport_callback.  A failure is posted to timeout_timer, whatever that *)
(* was waiting for.                                                         *)
TransportSend(ok) ==
  /\ loop.pc = "idle" /\ tsx.flight = "transport"
  /\ LET t == [tsx EXCEPT !.flight = "none"]
         u == IF ok THEN t ELSE Restart(t, "TRANSPORT_ERR")
     IN tsx' = [u EXCEPT !.refs = @ - 1]
  /\ lost' = (lost \/ (~ok /\ tsx.state = "Terminated"))
  /\ UNCHANGED <<told, loop, app, fault>>

-----------------------------------------------------------------------------
(* A new transaction *)

Created(t) == [t EXCEPT !.state = "Null", !.refs = 1, !.own = 1, !.registered = TRUE]

(* pjsip_tsx_create_uac and tsx_on_state_null, under the dialog's lock: no  *)
(* answer can come before the request is sent.                              *)
Send ==
  /\ app = "new"
  /\ \E u \in SendMsg(Created(tsx)) :
       tsx' = IF u.state = "Terminated" THEN Ended(u)
              ELSE [StartRetransmit(Restart(u, "TIMEOUT")) EXCEPT !.state = "Calling"]
  /\ told' = tsx'.state
  /\ app' = IF tsx.kind = "invite" THEN "idle" ELSE "done"
  /\ UNCHANGED <<loop, lost, fault>>

(* MediaClient::on_rx_request, or the dialog for a BYE: the transaction is  *)
(* created, fed with the request and sends the 200.                         *)
Serve ==
  /\ loop.pc = "idle" /\ ~Client(tsx) /\ tsx.state = "none"
  /\ \E u \in SendMsg([Created(tsx) EXCEPT !.state = "Trying", !.status = "final",
                                          !.transport = TRUE]) :
       tsx' = IF u.state = "Terminated" THEN Ended(u)
              ELSE Completed(Restart(IF Invite(u) THEN StartRetransmit(u) ELSE u, "TIMEOUT"))
  /\ told' = tsx'.state
  /\ UNCHANGED <<loop, app, lost, fault>>

(* A retransmission finds the transaction terminated but still in the table *)
(* and comes to on_rx_request again: pjsip_tsx_create_uas refuses the key,  *)
(* and on_rx_request uses a tsx that was never set.                         *)
ServeAgain ==
  /\ loop.pc = "idle" /\ tsx.kind \in ServerKind
  /\ tsx.registered /\ tsx.state = "Terminated"
  /\ fault' = "uninitialised"
  /\ UNCHANGED <<tsx, told, loop, app, lost>>

-----------------------------------------------------------------------------
(* The GUI thread: sendBye on a call whose INVITE was sent *)

(* inv->invite_tsx, set and cleared where the session is told of its state. *)
HasInviteTsx == told \in {"Calling", "Proceeding", "Completed"}

(* pjsip_inv_end_session reads invite_tsx without a lock ... *)
EndSession ==
  /\ app = "idle"
  /\ app' = IF HasInviteTsx /\ tsx.status = "prov" THEN "aimed" ELSE "ending"
  /\ UNCHANGED <<tsx, told, loop, lost, fault>>

(* ... and sets its timeout after it has made the CANCEL. *)
AppSetTimeout ==
  /\ app = "aimed" /\ app' = "ending"
  /\ IF Freed(tsx) THEN fault' = "freed" /\ UNCHANGED tsx
                   ELSE tsx' = SetTimeout(tsx) /\ UNCHANGED fault
  /\ UNCHANGED <<told, loop, lost>>

(* pjsip_inv_terminate under the dialog's lock.  A challenged INVITE is     *)
(* Completed, but invite_tsx is another one by now.                         *)
LockDialog ==
  /\ app = "ending"
  /\ \/ HasInviteTsx /\ ~(tsx.state \in {"Confirmed", "Terminated", "Destroyed"})
        /\ app' = "terminating"
     \/ (HasInviteTsx => told = "Completed" \/ tsx.state \in {"Terminated", "Destroyed"})
        /\ app' = "done"
  /\ UNCHANGED <<tsx, told, loop, lost, fault>>

(* pjsip_tsx_terminate: the user, this thread's own dialog, is told at once. *)
Terminate ==
  /\ app = "terminating" /\ ~LoopHoldsTsx /\ app' = "done"
  /\ IF tsx.state \in {"Terminated", "Destroyed"} THEN UNCHANGED <<tsx, told>>
     ELSE tsx' = Ended(Over(tsx)) /\ told' = "Terminated"
  /\ UNCHANGED <<loop, lost, fault>>

(* The camera's BYE before the final response (inv_on_state_early). *)
PeerBye ==
  /\ loop.pc = "idle" /\ tsx.kind = "invite" /\ told = "Proceeding" /\ ~AppHoldsDlg
  /\ tsx' = SetTimeout(tsx)
  /\ UNCHANGED <<told, loop, app, lost, fault>>

-----------------------------------------------------------------------------
LoopStep ==
  TimerEvent \/ TransportError \/ PostedError \/ Recv \/ SendMsgCallback \/ Tell

Next ==
  /\ fault = "none"
  /\ \/ LoopStep
     \/ \E e \in {"timeout", "retransmit"} : Fire(e)
     \/ \E m \in Message : Lookup(m)
     \/ ResolvedSend \/ (\E ok \in BOOLEAN : TransportSend(ok))
     \/ Send \/ Serve \/ ServeAgain
     \/ EndSession \/ AppSetTimeout \/ LockDialog \/ Terminate \/ PeerBye

Spec == Init /\ [][Next]_vars

(* The loop goes on with what it has begun, polls its timers in the order   *)
(* of their times and takes completions as the sockets become writable;     *)
(* pjsip_tsx_terminate gets a lock that stays free.                         *)
Fairness ==
  /\ WF_vars(fault = "none" /\ LoopStep) /\ WF_vars(fault = "none" /\ Terminate)
  /\ \A e \in {"timeout", "retransmit"} : SF_vars(fault = "none" /\ Fire(e))
  /\ SF_vars(fault = "none" /\ (ResolvedSend \/ \E ok \in BOOLEAN : TransportSend(ok)))

FairSpec == Spec /\ Fairness

-----------------------------------------------------------------------------
(* Properties *)

TsxWith(count) ==
  [kind : Kinds, state : State, status : {"none", "prov", "final"},
   timeout : BOOLEAN, id : TimerId, retransmit : BOOLEAN,
   refs : count, own : 0..1, registered : BOOLEAN,
   transport : BOOLEAN, resolved : BOOLEAN,
   flight : {"none", "transport", "resolve", "detached"},
   pendSend : BOOLEAN, pendResched : BOOLEAN]

How == {"none", "locked", "unlocked", "posted"}

(* Types; no reference is dropped that was not held. *)
TypeOK ==
  /\ tsx \in TsxWith(Nat) /\ told \in State
  /\ loop \in [pc : {"idle", "fired", "posted", "recv", "sent", "tell"},
               entry : {"none", "timeout", "retransmit"},
               msg : Message \cup {"none"}, how : How,
               timerD : BOOLEAN, ref : 0..1]
  /\ app \in {"new", "idle", "aimed", "ending", "terminating", "done"}
  /\ lost \in BOOLEAN /\ fault \in {"none", "freed", "uninitialised"}

B(b) == IF b THEN 1 ELSE 0

(* The group lock counts exactly its users: the transaction itself until    *)
(* tsx_shutdown, each timer in the heap, a send under way, and the event    *)
(* loop inside a handler.  One too few frees the memory under a timer, one  *)
(* too many keeps it for ever.                                              *)
HeldBy(t, n) ==
  t.refs = t.own + B(t.timeout) + B(t.retransmit) + B(t.flight # "none") + n
RefsAreHeld == HeldBy(tsx, loop.ref)

(* While a thread is inside the transaction, its memory is not given back:  *)
(* neither under the event loop nor under pjsip_tsx_terminate, whatever the *)
(* other thread did in between.                                             *)
UsersHoldTsx == (loop.pc # "idle" \/ app = "terminating") => tsx.refs > 0

(* An INVITE after a provisional response: the caller lets it ring. *)
Ringing == tsx.kind = "invite" /\ tsx.state = "Proceeding" /\ ~tsx.timeout /\ loop.pc = "idle"

(* Between two events nothing is forgotten.  A transaction that is under    *)
(* way has the timer in the heap that will end it, and one that has ended   *)
(* the timer that will destroy it, unless it rings or a late send error     *)
(* took the timer's place (lost).  One that is destroyed has given its      *)
(* memory back, or a timer or a send will still come and do so.             *)
NothingForgotten ==
  loop.pc = "idle" =>
    /\ tsx.state \notin {"none", "Destroyed"} => tsx.timeout \/ Ringing \/ lost
    /\ tsx.state = "Destroyed" => Freed(tsx) \/ tsx.timeout \/ tsx.flight # "none"

(* While the answer is missing the retransmission timer runs, or its start  *)
(* was put off and is still remembered (TSX_HAS_PENDING_RESCHED); it is     *)
(* never just forgotten.  What was put off for a send by way of the         *)
(* resolver is started by send_msg_callback; for a send on the              *)
(* transaction's transport nobody starts it: transport_callback does not    *)
(* look at the flag.                                                        *)
Waiting(t) ==
  \/ Client(t) /\ t.state = "Calling"
  \/ t.kind = "request" /\ t.state = "Proceeding"
  \/ t.kind = "servedInvite" /\ t.state = "Completed"
Armed(t) == t.retransmit \/ t.pendResched
RetransmitArmed == loop.pc = "idle" /\ Waiting(tsx) => Armed(tsx)

(* The transaction, with its two threads, timers and late sends, keeps what *)
(* it promises to its user: TsxLife.                                        *)
Life == INSTANCE TsxLife WITH state <- tsx.state, told <- told, freed <- Freed(tsx)
ImplementsTsxLife == Life!Spec

(* sip_ua_layer.c:900 says that the UA layer, which cannot have the lock of *)
(* the dialog at once, avoids a deadlock by releasing its own mutex and     *)
(* trying again.  The group lock of the transaction, in whose handler it    *)
(* is, it does not release, and the GUI thread waits for that one with the  *)
(* dialog in its hand: the two threads wait for each other for ever.        *)
NoLockCycle == ~(LoopHoldsTsx /\ AppHoldsDlg)

(* Every transaction ends and gives its memory back, but for a call that    *)
(* rings on, a late send error that took the place of the last timer, a     *)
(* deadlock and undefined behaviour.                                        *)
EveryTransactionEnds ==
  tsx.state # "none" ~> Freed(tsx) \/ Ringing \/ lost \/ fault # "none"
                        \/ ~NoLockCycle
=============================================================================
