------------------------------ MODULE Lifecycle ------------------------------
(***************************************************************************)
(* Registration, keep-alive and shutdown of src/mediaclient.cpp.           *)
(*                                                                         *)
(* Three threads share one pjsip endpoint: the GUI thread registers and,   *)
(* when the window is closed, runs ~MediaClient; eventloop_thread serves   *)
(* responses and timers; keepAlive_thread sends a MESSAGE every 30 s.      *)
(* Every click on "register" makes a client registration (pjsip_regc) of   *)
(* its own that is never destroyed; ~MediaClient makes one more to         *)
(* unregister.                                                             *)
(*                                                                         *)
(* A message stands for all its retransmissions: losing it is losing all   *)
(* of them; no message outlives the 32 s of its transaction.  A server     *)
(* keeps to one realm when it challenges.                                  *)
(*                                                                         *)
(* A handler of the event loop is one step.  It lets go of the lock of its *)
(* registration around callbacks and while it sends, but nobody else uses  *)
(* the registration then: the GUI thread sends its first request and does  *)
(* not touch it again.  The intervals are known by their order only: how   *)
(* the refresh timer stands to the server's clock is in module Renewal.    *)
(***************************************************************************)
EXTENDS Integers, FiniteSets

CONSTANTS
  Servers,    \* the SIP servers the user can type in
  NoUri,      \* text that makes no SIP URI
  MaxClicks,  \* bound: clicks on "register"
  Asked,      \* regValidSeconds: the interval a registration asks for at first
  MaxRaise,   \* bound: the longest interval a server asks for or grants
  MaxStale    \* PJSIP_MAX_STALE_COUNT

ASSUME ServersAssumption == NoUri \notin Servers
ASSUME BoundAssumption ==
  /\ MaxClicks \in Nat /\ MaxRaise \in Nat /\ MaxStale \in Nat \ {0}
  /\ Asked \in 1..MaxRaise    \* pjsip_regc_init refuses 0

VARIABLES
  gui,        \* the GUI thread: "run", or its place in ~MediaClient
  quit,       \* quit_flag
  loop,       \* eventloop_thread
  keepalive,  \* keepAlive_thread
  param,      \* m_sipClientparam: the server
  clicks,     \* how often "register" was clicked
  regc,       \* the client registrations
  net,        \* the one message under way for each of them
  bound,      \* the servers that hold a binding of this client
  lateSends,  \* history: keep-alives sent after quit_flag, up to 2
  farewell,   \* history: what became of the unREGISTER
  process     \* "up", or why the program is over

threads == <<gui, quit, loop, keepalive, lateSends>>
sip == <<clicks, regc, net, bound, farewell>>
vars == <<threads, sip, param, process>>

Click == 1..MaxClicks
Last == MaxClicks + 1    \* the registration that unregisterClient makes
Regc == 1..Last

Op == {"idle", "registering", "unregistering"}
Request == {"REGISTER", "unREGISTER"}
Answer == {"200", "challenge", "refusal"}

(* expires is the value of the Expires header, expires_hdr, and grant is    *)
(* regc->expires; each may be missing.                                     *)
Missing == -1
Interval == 0..MaxRaise \cup {Missing}

Registration ==
  [srv : Servers \cup {NoUri}, op : Op, pending : BOOLEAN, auth : 0..MaxStale,
   expires : Interval, grant : Interval, auto : BOOLEAN, armed : BOOLEAN]

NoRegc == [srv |-> NoUri, op |-> "idle", pending |-> FALSE, auth |-> 0,
           expires |-> Asked, grant |-> Missing, auto |-> FALSE, armed |-> FALSE]

Init ==
  /\ gui = "run" /\ quit = FALSE /\ loop = "test" /\ keepalive = "test"
  /\ param \in Servers /\ clicks = 0
  /\ regc = [r \in Regc |-> NoRegc] /\ net = [r \in Regc |-> "none"]
  /\ bound = {} /\ lateSends = 0 /\ farewell = "none" /\ process = "up"

Up == process = "up"
Endpoint == gui # "shutdown"     \* m_sipEndpt is not destroyed yet

-----------------------------------------------------------------------------
(* One client registration c *)

Pending(r) == regc[r].pending

(* The transaction is over, and with it the operation and its credentials. *)
(* Only the refresh timer uses a registration again, so what one without   *)
(* it still holds is forgotten.                                            *)
Idle(c) == [NoRegc EXCEPT !.srv = c.srv]

(* The refresh timer is started: it keeps the interval asked for.          *)
Arm(c, granted) ==
  [c EXCEPT !.op = "idle", !.pending = FALSE, !.auth = 0, !.armed = TRUE,
            !.grant = granted]

(* pjsip_regc_register, pjsip_regc_unregister: a request without           *)
(* credentials; a running refresh timer is cancelled.  A REGISTER with     *)
(* Expires: 0 is an unREGISTER.                                            *)
Unregistering(c) == [Idle(c) EXCEPT !.op = "unregistering"]

Registering(c, auto) ==
  IF c.expires = 0 THEN Unregistering(c)
  ELSE [c EXCEPT !.op = "registering", !.auth = 0, !.auto = auto, !.armed = FALSE]

(* A REGISTER that may reach the server after the unREGISTER.              *)
Races(r) == regc'[r].srv = param /\ net'[r] = "REGISTER"

(* pjsip_regc_send: c is the registration with the request's operation.    *)
(* The transport may refuse, which ends the transaction at once, with or   *)
(* without a call of regc_tsx_callback.                                    *)
Send(r, c) ==
  /\ \/ /\ regc' = [regc EXCEPT ![r] = [c EXCEPT !.pending = TRUE]]
        /\ net' = [net EXCEPT ![r] = IF c.op = "registering" THEN "REGISTER"
                                                          ELSE "unREGISTER"]
     \/ /\ regc' = [regc EXCEPT ![r] = Idle(c)]
        /\ net' = [net EXCEPT ![r] = "none"]
  /\ farewell' = IF quit /\ (gui = "unregister" => r = Last)
                    /\ \E q \in Regc : Races(q)
                 THEN "raced" ELSE farewell

-----------------------------------------------------------------------------
(* The GUI thread *)

(* onPlay: the call is in module SipCall; here only the parameters, which  *)
(* it reads from the form like onRegister.                                 *)
Play(t) ==
  /\ Up /\ gui = "run" /\ param' = t
  /\ UNCHANGED <<threads, sip, process>>

(* A text that makes no URI stops registerClient at an assertion, which    *)
(* ends a debug build and only returns in a release build.                 *)
AssertFails ==
  /\ process' \in {"up", "aborted"}
  /\ UNCHANGED sip

(* onRegister, registerClient *)
Register(t) ==
  /\ Up /\ gui = "run" /\ clicks < MaxClicks
  /\ param' = t
  /\ \/ t = NoUri /\ AssertFails
     \/ /\ t # NoUri
        /\ clicks' = clicks + 1
        /\ Send(clicks + 1, Registering([NoRegc EXCEPT !.srv = t], TRUE))
        /\ UNCHANGED <<bound, process>>
  /\ UNCHANGED threads

(* Mutant: quit_flag is not set.                                           *)
CloseSilently ==
  /\ Up /\ gui = "run" /\ gui' = "unregister"
  /\ UNCHANGED <<quit, loop, keepalive, lateSends, sip, param, process>>

(* The window is closed and ~MediaClient begins.                           *)
Close ==
  /\ Up /\ gui = "run" /\ gui' = "unregister" /\ quit' = TRUE
  /\ UNCHANGED <<loop, keepalive, lateSends, sip, param, process>>

(* unregisterClient, and the first line of destroy: the pool that holds    *)
(* both thread descriptors is released.                                    *)
Unregister ==
  /\ Up /\ gui = "unregister" /\ gui' = "join"
  /\ \/ param = NoUri /\ AssertFails
     \/ /\ param # NoUri
        /\ Send(Last, Unregistering([NoRegc EXCEPT !.srv = param]))
        /\ UNCHANGED <<clicks, bound, process>>
  /\ UNCHANGED <<quit, loop, keepalive, lateSends, param>>

(* Mutant: destroy does not join the keep-alive thread.                    *)
JoinNothing ==
  /\ Up /\ gui = "join" /\ gui' = "endpoint"
  /\ UNCHANGED <<quit, loop, keepalive, lateSends, sip, param, process>>

Join ==
  /\ Up /\ gui = "join" /\ keepalive = "ended" /\ gui' = "endpoint"
  /\ UNCHANGED <<quit, loop, keepalive, lateSends, sip, param, process>>

(* The descriptor that pj_thread_join reads is in freed memory.            *)
JoinFreed ==
  /\ Up /\ gui = "join" /\ process' = "wild"
  /\ UNCHANGED <<threads, sip, param>>

(* pjsip_endpt_destroy terminates the transactions; what they have sent    *)
(* stays in the network.                                                   *)
DestroyEndpoint ==
  /\ Up /\ gui = "endpoint" /\ gui' = "shutdown"
  /\ regc' = [r \in Regc |-> Idle(regc[r])]
  /\ UNCHANGED <<quit, loop, keepalive, lateSends, clicks, net, bound,
                 farewell, param, process>>

Shutdown ==
  /\ Up /\ gui = "shutdown" /\ process' = "down"
  /\ UNCHANGED <<threads, sip, param>>

-----------------------------------------------------------------------------
(* keepAlive_thread *)

(* Mutant: the thread never tests quit_flag.                               *)
KeepAliveForEver ==
  /\ Up /\ keepalive = "test" /\ keepalive' = "sleep"
  /\ UNCHANGED <<gui, quit, loop, lateSends, sip, param, process>>

KeepAliveTest ==
  /\ Up /\ keepalive = "test"
  /\ keepalive' = IF quit THEN "ended" ELSE "sleep"
  /\ UNCHANGED <<gui, quit, loop, lateSends, sip, param, process>>

KeepAliveWake ==
  /\ Up /\ keepalive = "sleep" /\ keepalive' = "send"
  /\ UNCHANGED <<gui, quit, loop, lateSends, sip, param, process>>

(* sendKeepAlive: a MESSAGE whose answer nobody looks at.                  *)
SendKeepAlive ==
  /\ Up /\ keepalive = "send" /\ keepalive' = "test"
  /\ lateSends' = IF quit /\ lateSends < 2 THEN lateSends + 1 ELSE lateSends
  /\ process' = IF Endpoint THEN "up" ELSE "wild"
  /\ UNCHANGED <<gui, quit, loop, sip, param>>

-----------------------------------------------------------------------------
(* eventloop_thread *)

LoopTest ==
  /\ Up /\ loop = "test"
  /\ loop' = IF quit THEN "ended" ELSE "events"
  /\ UNCHANGED <<gui, quit, keepalive, lateSends, sip, param, process>>

(* pjsip_endpt_handle_events returns; nobody waits for this thread before  *)
(* the endpoint is destroyed.                                              *)
LoopReturn ==
  /\ Up /\ loop = "events" /\ loop' = "test"
  /\ process' = IF Endpoint THEN "up" ELSE "wild"
  /\ UNCHANGED <<gui, quit, keepalive, lateSends, sip, param>>

Handling == Up /\ loop = "events" /\ Endpoint

(* regc_tsx_callback with answer a; the answer is taken from the network.  *)
Answered(r, a) == Handling /\ Pending(r) /\ net[r] = a

Finish(r, c) ==
  /\ regc' = [regc EXCEPT ![r] = c]
  /\ net' = [net EXCEPT ![r] = "none"]
  /\ UNCHANGED farewell

(* Mutant: the timer is started whatever the operation was.                *)
RxOkRearms(r) ==
  /\ Answered(r, "200")
  /\ Finish(r, Arm(regc[r], MaxRaise))

(* Mutant: has_tsx is not reset.                                           *)
RxOkBusy(r) ==
  /\ Answered(r, "200")
  /\ Finish(r, [regc[r] EXCEPT !.op = "idle", !.auth = 0, !.armed = TRUE])

(* schedule_registration after a 2xx: only a registration is refreshed,    *)
(* and only if the server has granted it any time.                         *)
RxOk(r) ==
  /\ Answered(r, "200")
  /\ \E granted \in 0..MaxRaise :
       IF regc[r].op = "registering" /\ granted > 0 /\ regc[r].auto
       THEN Finish(r, Arm(regc[r], granted))
       ELSE Finish(r, Idle(regc[r]))

(* Mutant: one retry too many.                                             *)
CanRetryMore(c, stale) == c.auth = 0 \/ (stale /\ c.auth <= MaxStale)

(* process_auth: credentials are given once, and again until MaxStale when *)
(* the nonce they were made for is stale.                                  *)
CanRetry(c, stale) == c.auth = 0 \/ (stale /\ c.auth < MaxStale)

(* Mutant: retries are not counted.                                        *)
RxChallengeUncounted(r) ==
  /\ Answered(r, "challenge")
  /\ \E stale \in BOOLEAN :
       IF CanRetry(regc[r], stale)
       THEN Send(r, regc[r])
       ELSE Finish(r, Idle(regc[r]))

RxChallenge(r) ==
  /\ Answered(r, "challenge")
  /\ \E stale \in BOOLEAN :
       IF CanRetry(regc[r], stale)
       THEN Send(r, [regc[r] EXCEPT !.auth = @ + 1])
       ELSE Finish(r, Idle(regc[r]))

(* set_expires: an interval that was granted before needs no header.       *)
SetExpires(c, m) == [c EXCEPT !.expires = IF m = c.grant THEN Missing ELSE m]

(* The refusal is 423 Interval Too Brief with a Min-Expires of m: register *)
(* again, if that is longer than what was asked for, or no interval was.   *)
RxTooBrief(r) ==
  /\ Answered(r, "refusal")
  /\ \E m \in 0..MaxRaise :
       IF regc[r].op = "registering" /\ m > regc[r].expires
       THEN Send(r, Registering(SetExpires(regc[r], m), regc[r].auto))
       ELSE Finish(r, Idle(regc[r]))

(* Any other refusal.                                                      *)
RxRefusal(r) ==
  /\ Answered(r, "refusal")
  /\ Finish(r, Idle(regc[r]))

Timeout(r) ==
  /\ Answered(r, "none")
  /\ Finish(r, Idle(regc[r]))

(* regc_refresh_timer_cb: the timer fires once.                            *)
Refresh(r) ==
  /\ Handling /\ regc[r].armed
  /\ Send(r, Registering([regc[r] EXCEPT !.armed = FALSE], TRUE))

Handle(r) ==
  /\ \/ RxOk(r) \/ RxChallenge(r) \/ RxTooBrief(r) \/ RxRefusal(r)
     \/ Timeout(r) \/ Refresh(r)
  /\ UNCHANGED <<threads, clicks, bound, param, process>>

-----------------------------------------------------------------------------
(* The servers and the network *)

(* A program that was aborted or has gone wild is followed no further.     *)
Followed == process \in {"up", "down"}

(* A server may challenge, accept, or refuse for any reason.               *)
Serve(r, a) ==
  /\ Followed /\ net[r] \in Request
  /\ net' = [net EXCEPT ![r] = a]
  /\ bound' = IF a # "200" THEN bound
              ELSE IF net[r] = "REGISTER" THEN bound \cup {regc[r].srv}
              ELSE bound \ {regc[r].srv}
  /\ farewell' = IF r = Last /\ a = "200" /\ farewell = "none"
                 THEN "accepted" ELSE farewell
  /\ UNCHANGED <<threads, clicks, regc, param, process>>

Lose(r) ==
  /\ Followed /\ net[r] # "none"
  /\ net' = [net EXCEPT ![r] = "none"]
  /\ UNCHANGED <<threads, clicks, regc, bound, farewell, param, process>>

(* A binding may run out at any time: the server may have granted less     *)
(* than the client takes to refresh it.                                    *)
Expire(s) ==
  /\ Followed /\ s \in bound
  /\ bound' = bound \ {s}
  /\ UNCHANGED <<threads, clicks, regc, net, farewell, param, process>>

Next ==
  \/ \E t \in Servers \cup {NoUri} : Play(t) \/ Register(t)
  \/ Close \/ Unregister \/ Join \/ JoinFreed
  \/ DestroyEndpoint \/ Shutdown
  \/ KeepAliveTest \/ KeepAliveWake \/ SendKeepAlive
  \/ LoopTest \/ LoopReturn
  \/ \E r \in Regc : Handle(r) \/ Lose(r) \/ \E a \in Answer : Serve(r, a)
  \/ \E s \in Servers : Expire(s)

Spec == Init /\ [][Next]_vars

(* The threads run; the event loop gets to every answer and every timer,   *)
(* because each of its turns polls all of them; a message is delivered or  *)
(* lost.  Nobody has to click or to close the window.                      *)
Fairness ==
  /\ WF_vars(Unregister) /\ WF_vars(Join)
  /\ WF_vars(DestroyEndpoint) /\ WF_vars(Shutdown)
  /\ WF_vars(KeepAliveTest) /\ WF_vars(KeepAliveWake) /\ WF_vars(SendKeepAlive)
  /\ WF_vars(LoopTest) /\ WF_vars(LoopReturn)
  /\ \A r \in Regc :
       /\ SF_vars(Handle(r))
       /\ WF_vars(net[r] \in Request /\ (Lose(r) \/ \E a \in Answer : Serve(r, a)))

FairSpec == Spec /\ Fairness

-----------------------------------------------------------------------------
(* Type and state invariant: what each variable may hold.                  *)
TypeOK ==
  /\ gui \in {"run", "unregister", "join", "endpoint", "shutdown"}
  /\ quit \in BOOLEAN /\ loop \in {"test", "events", "ended"}
  /\ keepalive \in {"test", "sleep", "send", "ended"}
  /\ param \in Servers \cup {NoUri} /\ clicks \in 0..MaxClicks
  /\ regc \in [Regc -> Registration]
  /\ net \in [Regc -> {"none"} \cup Request \cup Answer]
  /\ bound \subseteq Servers /\ lateSends \in 0..2
  /\ farewell \in {"none", "accepted", "raced"}
  /\ process \in {"up", "down", "aborted", "wild"}

(* After the window is closed the server gets at most one more keep-alive, *)
(* although keepAlive_thread does not look at quit_flag after its sleep.   *)
OneLateKeepAlive == lateSends <= 1

(* The keep-alive thread is off the endpoint before it is destroyed: the   *)
(* one thing destroy waits for.                                            *)
KeepAliveOffEndpoint == ~Endpoint => keepalive = "ended"

(* A timer never fires into a pending transaction, where pjsip_regc_send   *)
(* would refuse with PJSIP_EBUSY and the refresh would be lost for good.   *)
NeverBusy == \A r \in Regc : regc[r].armed => ~Pending(r)

(* Once the server has accepted the unREGISTER, the binding is gone for    *)
(* good, unless a REGISTER of an earlier click was still under way when it *)
(* was sent, or was sent by the event loop's last turn.                    *)
GoneForGood == farewell = "accepted" => param \notin bound

(* The registration of unregisterClient never registers, whatever the      *)
(* server answers and however often its request is sent again.             *)
UnregisterOnly == net[Last] # "REGISTER" /\ ~regc[Last].armed

(* Closing the window ends the program: destroy waits for a thread that    *)
(* ends, and nothing it calls waits for the event loop, which is ending.   *)
CloseEnds == quit ~> ~Up

(* No attempt to register that always names an interval goes on for ever,  *)
(* whatever is answered: to the challenges of a realm, and to longer and   *)
(* longer Min-Expires, the client responds a bounded number of times.      *)
(* Without the Expires header it takes any Min-Expires for a longer one,   *)
(* and a server that answers 423 each time keeps it at it.                 *)
AttemptEnds ==
  \A r \in Click :
    Pending(r) ~> ~Pending(r) \/ regc[r].expires = Missing \/ quit \/ ~Up

-----------------------------------------------------------------------------
(* What the libraries' headers say *)

(* sip_endpoint.h, pjsip_endpt_destroy: "Application must make sure that   *)
(* all pending transactions have been terminated properly".                *)
NoPendingAtDestroy == gui = "endpoint" => \A r \in Regc : ~Pending(r)

=============================================================================
