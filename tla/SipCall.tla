------------------------------- MODULE SipCall -------------------------------
(***************************************************************************)
(* The video call of src/mediaclient.cpp: onPlay and onStop run in the GUI *)
(* thread, eventloop_thread runs pjsip, and both work on the same INVITE   *)
(* session, dialog, transactions and module table.                         *)
(*                                                                         *)
(* A call is one Play: its dialog, the INVITE session in the dialog's      *)
(* pool, and the transactions that keep the dialog alive.  A pjsip call of *)
(* the GUI thread that locks the dialog is one step; the event loop may    *)
(* run between any two of them.  pjsip_inv_end_session locks nothing: its  *)
(* reads of the session and of the INVITE transaction are steps of their   *)
(* own.  The network is UDP: a message once sent may arrive at any later   *)
(* time, any number of times, or never.                                    *)
(*                                                                         *)
(* The receive port is read from the window at every Play.  Of the ports   *)
(* only this matters: whether the one entered is free, or is held by a     *)
(* receiver made before; there is always a free one to enter.              *)
(***************************************************************************)
EXTENDS Naturals, FiniteSets

CONSTANTS
  MaxCalls,  \* bound: how many calls the user starts
  None       \* m_invsession before the first call: not initialised

ASSUME BoundAssumption == MaxCalls \in Nat
ASSUME NoneAssumption == None \notin Nat

VARIABLES
  call,     \* the calls: dialog, INVITE session and transactions
  net,      \* the SIP messages sent so far for each call
  dev,      \* the camera's side of each call
  plays,    \* how many calls were started
  reg,      \* the invite module is registered: mod_inv.mod.id # -1
  invInit,  \* m_invInit
  cur,      \* m_invsession, and m_invitedlg with it
  tdata,    \* sendBye's local variable
  recver,   \* m_rtpRecver: "none" (not initialised), "bound" to its port, or "destroyed"
  leaked,   \* a receiver that m_rtpRecver no longer points to holds a port
  gui,      \* the GUI thread's place in onPlay or onStop
  process,  \* "up", or why the program is over
  found     \* history: what pjsip_inv_end_session has read inv->state to be

recverVars == <<recver, leaked>>
moduleVars == <<reg, invInit>>
guiVars == <<plays, moduleVars, cur, tdata, recverVars, gui, process, found>>
vars == <<call, net, dev, guiVars>>

Call == 1..MaxCalls
Kind == {"invite", "cancel", "bye", "peer"}    \* peer: the camera's BYE
TsxState == {"none", "calling", "proceeding", "completed", "terminated"}
Pending(t) == t \in {"calling", "proceeding", "completed"}

Provisional == {"100", "180"}
Message == Provisional \cup
  {"INVITE", "200", "4xx", "ACK", "CANCEL", "CANCEL-final", "BYE", "BYE-final",
   "peer BYE", "peer BYE-final"}

NoCall ==
  [dlg |-> "none", inv |-> "NULL", sess |-> 0, tsxs |-> 0,
   invite |-> "none", cancel |-> "none", bye |-> "none", peer |-> "none",
   pendCancel |-> FALSE, armed |-> FALSE, ended |-> "no"]

Init ==
  /\ call = [c \in Call |-> NoCall]
  /\ net = [c \in Call |-> {}] /\ dev = [c \in Call |-> "idle"]
  /\ plays = 0 /\ reg = FALSE /\ invInit = FALSE
  /\ cur = None /\ tdata = "garbage" /\ recver = "none" /\ leaked = FALSE
  /\ gui = "idle" /\ process = "up" /\ found = "none"

-----------------------------------------------------------------------------
(* pjsip on one call r *)

(* pjsip_dlg_dec_lock: the last session or transaction takes the dialog     *)
(* along, and with the dialog's pool the INVITE session's memory.           *)
Unlock(r) == IF r.sess = 0 /\ r.tsxs = 0 THEN [r EXCEPT !.dlg = "dead"] ELSE r

StartTsx(r, k) == [r EXCEPT ![k] = "calling", !.tsxs = @ + 1]
EndTsx(r, k)   == [r EXCEPT ![k] = "terminated", !.tsxs = @ - 1]

DisconnectAgain(r) ==      \* mutant: the previous state is not looked at
  [r EXCEPT !.inv = "DISCONNECTED", !.sess = @ - 1]

(* inv_set_state(DISCONNECTED): the session's reference is dropped once. *)
Disconnect(r) ==
  IF r.inv = "DISCONNECTED" THEN r
  ELSE [r EXCEPT !.inv = "DISCONNECTED", !.sess = @ - 1]

(* dlg->mod_data[mod_inv.mod.id]: with the id -1 of an unregistered module  *)
(* this is the last, unused slot of dlg->usage[], and the event is ignored. *)
Dispatch(r, handled) == IF reg THEN handled ELSE r

(* A request that the transport refuses at once ends its transaction inside *)
(* the call that sends it.  A session that is being set up, or that was to  *)
(* end with this BYE, is disconnected with it.                              *)
Refused(r, k) ==
  LET gone == IF k = "bye" THEN r.inv \in {"CONNECTING", "CONFIRMED"} ELSE r.inv = "CALLING"
      over == [r EXCEPT ![k] = "terminated"]
  IN Unlock(IF gone THEN Disconnect(over) ELSE over)

Unanswered(r) == r.invite \in {"calling", "proceeding"}

-----------------------------------------------------------------------------
(* The GUI thread: onPlay *)

(* The receiver first: RtpRecver::init ends the program if the port is held *)
(* by the last receiver or by an earlier one.                               *)
Play ==
  /\ gui = "idle" /\ (plays < MaxCalls \/ invInit)
  /\ \/ /\ recver = "bound" \/ leaked
        /\ process' = "exit" /\ UNCHANGED <<recverVars, gui>>
     \/ /\ recver' = "bound" /\ leaked' = (leaked \/ recver = "bound")
        /\ gui' = "invite" /\ UNCHANGED process
  /\ UNCHANGED <<call, net, dev, plays, moduleVars, cur, tdata, found>>

(* sendInvite: initInvParam, pjsip_inv_create_uac, pjsip_inv_invite, send. *)
SendInvite ==
  /\ gui = "invite" /\ ~invInit /\ ~reg
  /\ LET c == plays + 1
         r == [NoCall EXCEPT !.dlg = "live", !.inv = "CALLING", !.sess = 1]
     IN /\ plays' = c /\ cur' = c
        /\ \/ /\ call' = [call EXCEPT ![c] = StartTsx(r, "invite")]
              /\ net' = [net EXCEPT ![c] = {"INVITE"}]
           \/ /\ call' = [call EXCEPT ![c] = Refused(r, "invite")]
              /\ UNCHANGED net
  /\ reg' = TRUE /\ invInit' = TRUE /\ gui' = "idle"
  /\ UNCHANGED <<dev, tdata, recverVars, process, found>>

(* A device or server id that is no SIP URI: the module is registered, the  *)
(* dialog is not created, and onPlay ignores the result.                    *)
SendInviteBadUri ==
  /\ gui = "invite" /\ ~invInit /\ ~reg
  /\ reg' = TRUE /\ gui' = "idle"
  /\ UNCHANGED <<call, net, dev, plays, invInit, cur, tdata, recverVars, process, found>>

(* The module still registered: pjsip_inv_usage_init asserts or refuses.    *)
SendInviteRefused ==
  /\ gui = "invite" /\ ~invInit /\ reg
  /\ \/ process' = "abort" /\ UNCHANGED gui
     \/ gui' = "idle" /\ UNCHANGED process
  /\ UNCHANGED <<call, net, dev, plays, moduleVars, cur, tdata, recverVars, found>>

(* m_invInit still set: the new session is put into the dialog of the last  *)
(* call, freed or not.  The model ends here.                                *)
SendInviteStale ==
  /\ gui = "invite" /\ invInit
  /\ process' = "stale"
  /\ UNCHANGED <<call, net, dev, plays, moduleVars, cur, tdata, recverVars, gui, found>>

-----------------------------------------------------------------------------
(* The GUI thread: onStop *)

SendByeOnly == UNCHANGED <<dev, plays, cur, recverVars>>

(* m_rtpRecver->destroy(): the pointer is not initialised before a Play.    *)
(* Only the last receiver gives its port back.                              *)
Stop ==
  /\ gui = "idle"
  /\ IF recver = "none"
     THEN process' = "undefined" /\ UNCHANGED <<recver, gui>>
     ELSE recver' = "destroyed" /\ gui' = "end" /\ UNCHANGED process
  /\ UNCHANGED <<call, net, dev, plays, moduleVars, cur, tdata, leaked, found>>

Dead == cur \in Call => call[cur].dlg # "live"
End(why) ==
  /\ process' = why
  /\ UNCHANGED <<call, net, dev, plays, moduleVars, cur, tdata, recverVars, gui, found>>

FoundNotEarly(r) ==        \* mutant: EARLY is forgotten
  CASE r.inv = "CALLING" -> "ringing"
    [] r.inv \in {"CONNECTING", "CONFIRMED"} -> "established"
    [] OTHER -> "over"

(* The cases of pjsip_inv_end_session. *)
Found(r) ==
  CASE r.inv \in {"CALLING", "EARLY"} -> "ringing"
    [] r.inv \in {"CONNECTING", "CONFIRMED"} -> "established"
    [] OTHER -> "over"

(* The read of inv->state.  A session that is established gets a BYE, which *)
(* pjsip_dlg_create_request makes under the dialog's lock; for one that is  *)
(* over tdata is left as it was.                                            *)
EndSession ==
  /\ gui = "end" /\ ~Dead
  /\ LET f == Found(call[cur]) IN
     /\ found' = f
     /\ gui' = IF f = "ringing" THEN "ringing" ELSE "send"
     /\ tdata' = IF f = "established" THEN "BYE" ELSE tdata
     /\ call' = IF f = "established" THEN [call EXCEPT ![cur].ended = "BYE"] ELSE call
  /\ UNCHANGED <<net, moduleVars, process>> /\ SendByeOnly

(* For a session that rings the INVITE transaction is read, again and again *)
(* through inv->invite_tsx, which the event loop sets to NULL when the 200  *)
(* has ended the transaction.                                               *)
InviteGone == ~Pending(call[cur].invite)

(* PJ_ASSERT_RETURN: it aborts, or returns and leaves tdata as it was.      *)
CheckInvite ==
  /\ gui = "ringing" /\ ~Dead
  /\ \/ gui' = (IF InviteGone THEN "send" ELSE "status") /\ UNCHANGED process
     \/ InviteGone /\ process' = "abort" /\ UNCHANGED gui
  /\ UNCHANGED <<call, net, moduleVars, tdata, found>> /\ SendByeOnly

ReadStatus ==
  /\ gui = "status" /\ ~Dead
  /\ gui' = IF call[cur].invite = "calling" THEN "delay" ELSE "cancel"
  /\ UNCHANGED <<call, net, moduleVars, tdata, process, found>> /\ SendByeOnly

(* No provisional response was there: the CANCEL is put off. *)
DelayCancel ==
  /\ gui = "delay" /\ ~Dead
  /\ tdata' = "NULL" /\ gui' = "send"
  /\ call' = [call EXCEPT ![cur].pendCancel = TRUE, ![cur].ended = "NULL"]
  /\ UNCHANGED <<net, moduleVars, process, found>> /\ SendByeOnly

(* pjsip_endpt_create_cancel, from the message the transaction sent last:   *)
(* after a failure response this is the ACK, which an assertion excludes.   *)
CreateCancel ==
  /\ gui = "cancel" /\ ~Dead
  /\ LET acked == call[cur].invite = "completed" IN
     \/ gui' = (IF acked THEN "send" ELSE "timeout") /\ UNCHANGED process
     \/ acked /\ process' = "abort" /\ UNCHANGED gui
  /\ UNCHANGED <<call, net, moduleVars, tdata, found>> /\ SendByeOnly

(* pjsip_tsx_set_timeout; its result is not looked at. *)
SetTimeout ==
  /\ gui = "timeout" /\ ~Dead
  /\ \/ /\ tdata' = "CANCEL" /\ gui' = "send" /\ UNCHANGED process
        /\ call' = [call EXCEPT ![cur].armed = @ \/ ~InviteGone, ![cur].ended = "CANCEL"]
     \/ InviteGone /\ process' = "abort" /\ UNCHANGED <<call, gui, tdata>>
  /\ UNCHANGED <<net, moduleVars, found>> /\ SendByeOnly

SendCancelOnly ==          \* mutant: the BYE has a transaction but no message
  /\ gui = "send" /\ ~Dead /\ tdata \in {"CANCEL", "BYE"}
  /\ LET k == IF tdata = "BYE" THEN "bye" ELSE "cancel" IN
     call' = [call EXCEPT ![cur] = StartTsx(@, k)]
  /\ net' = [net EXCEPT ![cur] = @ \cup ({tdata} \cap {"CANCEL"})]
  /\ gui' = "terminate"
  /\ UNCHANGED <<moduleVars, tdata, process, found>> /\ SendByeOnly

SendMsg ==
  /\ gui = "send" /\ ~Dead /\ tdata \in {"CANCEL", "BYE"}
  /\ LET k == IF tdata = "BYE" THEN "bye" ELSE "cancel" IN
     \/ /\ call' = [call EXCEPT ![cur] = StartTsx(@, k)]
        /\ net' = [net EXCEPT ![cur] = @ \cup {tdata}]
     \/ /\ call' = [call EXCEPT ![cur] =
             Refused([@ EXCEPT !.ended = "unsent"], k)]
        /\ UNCHANGED net
  /\ gui' = "terminate"
  /\ UNCHANGED <<moduleVars, tdata, process, found>> /\ SendByeOnly

(* pjsip_inv_send_msg(inv, NULL): an assertion, or an error nobody reads. *)
SendNull ==
  /\ gui = "send" /\ ~Dead /\ tdata = "NULL"
  /\ \/ process' = "abort" /\ UNCHANGED gui
     \/ gui' = "terminate" /\ UNCHANGED process
  /\ UNCHANGED <<call, net, moduleVars, tdata, found>> /\ SendByeOnly

(* pjsip_inv_terminate: ends the INVITE transaction and the session. *)
Terminate ==
  /\ gui = "terminate" /\ ~Dead
  /\ call' = [call EXCEPT ![cur] =
       LET r == IF Pending(@.invite) THEN EndTsx(@, "invite") ELSE @
       IN Unlock(Disconnect(r))]
  /\ gui' = "unregister"
  /\ UNCHANGED <<net, moduleVars, tdata, process, found>> /\ SendByeOnly

UnregisterOnly ==          \* mutant: m_invInit is not reset
  /\ gui = "unregister"
  /\ reg' = FALSE /\ gui' = "idle" /\ tdata' = "garbage" /\ found' = "none"
  /\ UNCHANGED <<invInit, call, net, process>> /\ SendByeOnly

Unregister ==
  /\ gui = "unregister"
  /\ reg' = FALSE /\ invInit' = FALSE /\ gui' = "idle"
  /\ tdata' = "garbage" /\ found' = "none" \* sendBye returns
  /\ UNCHANGED <<call, net, process>> /\ SendByeOnly

(* A session, a transaction or a message that is no longer, or never was,   *)
(* there.                                                                   *)
ByePlace ==
  {"end", "ringing", "status", "delay", "cancel", "timeout", "send", "terminate"}
UseDead ==
  /\ \/ gui \in ByePlace /\ Dead
     \/ gui \in {"status", "cancel", "timeout"} /\ ~Dead /\ InviteGone
     \/ gui = "send" /\ ~Dead /\ tdata = "garbage"
  /\ End("undefined")

EndSessionStep ==
  EndSession \/ CheckInvite \/ ReadStatus \/ DelayCancel \/ CreateCancel \/ SetTimeout
SendByeStep == EndSessionStep \/ SendMsg \/ SendNull \/ Terminate \/ Unregister \/ UseDead
SendInviteStep == SendInvite \/ SendInviteBadUri \/ SendInviteRefused \/ SendInviteStale

-----------------------------------------------------------------------------
(* The event loop: responses, requests and timers of call c *)

Step(c, r, msgs) ==
  /\ process = "up" /\ call[c].dlg = "live"
  /\ call' = [call EXCEPT ![c] = Unlock(r)]
  /\ net' = [net EXCEPT ![c] = @ \cup msgs]
  /\ UNCHANGED <<dev, guiVars>>

(* A provisional response.  The first one sends the CANCEL that             *)
(* pjsip_inv_end_session has put off; one with a tag makes the call EARLY.  *)
RxProvisional(c, m) ==
  /\ m \in Provisional \cap net[c] /\ Unanswered(call[c])
  /\ LET put == reg /\ call[c].inv = "CALLING" /\ call[c].pendCancel
         r1 == [call[c] EXCEPT !.invite = "proceeding"]
         r2 == IF put THEN [StartTsx(r1, "cancel") EXCEPT
                              !.pendCancel = FALSE, !.armed = TRUE, !.ended = "CANCEL"]
               ELSE r1
         early == m = "180" /\ r2.inv = "CALLING"
     IN Step(c, Dispatch(r1, IF early THEN [r2 EXCEPT !.inv = "EARLY"] ELSE r2),
             IF put THEN {"CANCEL"} ELSE {})

(* The 200 to the INVITE.  call_on_send_ack sends the ACK, and leaves the   *)
(* session CONNECTING; a call that was hung up meanwhile is acknowledged    *)
(* and nothing else.                                                        *)
RxAnswer(c) ==
  /\ "200" \in net[c] /\ Unanswered(call[c])
  /\ LET r == EndTsx(call[c], "invite") IN
     Step(c, Dispatch(r, IF r.inv \in {"CALLING", "EARLY"}
                         THEN [r EXCEPT !.inv = "CONNECTING"] ELSE r),
          IF reg THEN {"ACK"} ELSE {})

(* The 200 again, or for the first time after pjsip_inv_terminate: it finds *)
(* no transaction, only the dialog.  The ACK at hand confirms the session.  *)
RxAnswerAgain(c) ==
  /\ "200" \in net[c] /\ call[c].invite = "terminated"
  /\ reg /\ call[c].inv \in {"CONNECTING", "CONFIRMED", "DISCONNECTED"}
  /\ Step(c, IF call[c].inv = "CONNECTING" THEN [call[c] EXCEPT !.inv = "CONFIRMED"]
             ELSE call[c], {"ACK"})

(* A failure response: handle_uac_call_rejection. *)
RxFailure(c) ==
  /\ "4xx" \in net[c] /\ Unanswered(call[c])
  /\ LET r == [call[c] EXCEPT !.invite = "completed"] IN
     Step(c, Dispatch(r, IF r.inv \in {"CALLING", "EARLY"} THEN Disconnect(r) ELSE r), {})

RxByeStateless(c) ==       \* mutant: no transaction is counted for the BYE
  /\ "peer BYE" \in net[c] /\ call[c].peer = "none"
  /\ LET r == [call[c] EXCEPT !.peer = "terminated"] IN
     Step(c, Dispatch(r,
            IF r.inv = "CALLING" THEN r
            ELSE Disconnect([r EXCEPT !.armed = @ \/ r.inv = "EARLY"])), {})

RxByeUnarmed(c) ==         \* mutant: the INVITE transaction gets no timeout
  /\ "peer BYE" \in net[c] /\ call[c].peer = "none"
  /\ LET r == [call[c] EXCEPT !.peer = "completed", !.tsxs = @ + 1] IN
     Step(c, Dispatch(r, IF r.inv = "CALLING" THEN r ELSE Disconnect(r)), {})

(* The camera's BYE, once: its retransmissions are absorbed.  A CALLING     *)
(* session leaves it to the dialog to refuse it, with 500.                  *)
RxBye(c) ==
  /\ "peer BYE" \in net[c] /\ call[c].peer = "none"
  /\ LET r == [call[c] EXCEPT !.peer = "completed", !.tsxs = @ + 1] IN
     Step(c, Dispatch(r,
            IF r.inv = "CALLING" THEN r
            ELSE Disconnect([r EXCEPT !.armed = @ \/ r.inv = "EARLY"])), {})

(* The final response to our BYE or CANCEL. *)
RxByeFinal(c) ==
  /\ "BYE-final" \in net[c] /\ call[c].bye = "calling"
  /\ LET r == [call[c] EXCEPT !.bye = "completed"] IN
     Step(c, Dispatch(r, Disconnect(r)), {})

RxCancelFinal(c) ==
  /\ "CANCEL-final" \in net[c] /\ call[c].cancel = "calling"
  /\ Step(c, [call[c] EXCEPT !.cancel = "completed"], {})

TimeoutTwice(c, k) ==      \* mutant: a timer that is not stopped
  /\ gui = "idle" /\ call[c][k] # "proceeding"
  /\ LET r == EndTsx(call[c], k) IN
     Step(c, Dispatch(r, IF call[c][k] = "calling" THEN Disconnect(r) ELSE r), {})

(* A transaction whose timer runs: while requests are sent again, while     *)
(* responses are absorbed, and after pjsip_tsx_set_timeout.                 *)
Ticking(r, k) ==
  r[k] \in {"calling", "completed"} \/ (k = "invite" /\ r.invite = "proceeding" /\ r.armed)

(* The transaction timers: 5 s and more, against the microseconds between   *)
(* the steps of sendBye.  They are assumed not to fire in between.          *)
Timeout(c, k) ==
  /\ gui \in {"idle", "invite"} /\ Ticking(call[c], k)
  /\ LET r == EndTsx(call[c], k) IN
     Step(c, Dispatch(r, IF call[c][k] = "completed" THEN r ELSE Disconnect(r)), {})

Rx(c) ==
  \/ \E m \in Provisional : RxProvisional(c, m)
  \/ RxAnswer(c) \/ RxAnswerAgain(c) \/ RxFailure(c)
  \/ RxBye(c) \/ RxByeFinal(c) \/ RxCancelFinal(c)

-----------------------------------------------------------------------------
(* The camera (outside the program): a user agent that follows RFC 3261.    *)
(* A response it does not send is one that never arrives.                   *)

Camera(c, state, msgs) ==
  /\ dev' = [dev EXCEPT ![c] = state]
  /\ net' = [net EXCEPT ![c] = @ \cup msgs]
  /\ UNCHANGED <<call, guiVars>>

DevInvite(c) == "INVITE" \in net[c] /\ dev[c] = "idle" /\ Camera(c, "trying", Provisional)
DevAnswer(c) == dev[c] = "trying" /\ Camera(c, "answered", {"200"})
DevRefuse(c) == dev[c] = "trying" /\ Camera(c, "ended", {"4xx"})
DevAck(c)    == "ACK" \in net[c] /\ dev[c] = "answered" /\ Camera(c, "streaming", {})
DevCancel(c) ==
  /\ "CANCEL" \in net[c] /\ "CANCEL-final" \notin net[c] /\ dev[c] # "idle"
  /\ IF dev[c] = "trying" THEN Camera(c, "ended", {"CANCEL-final", "4xx"})
     ELSE Camera(c, dev[c], {"CANCEL-final"})
DevBye(c) ==
  /\ "BYE" \in net[c] /\ "BYE-final" \notin net[c]
  /\ Camera(c, "ended", {"BYE-final"})
DevHangUp(c) ==
  /\ dev[c] \in {"answered", "streaming"}
  /\ Camera(c, "ended", {"peer BYE"})

Device(c) ==
  \/ DevInvite(c) \/ DevAnswer(c) \/ DevRefuse(c) \/ DevAck(c)
  \/ DevCancel(c) \/ DevBye(c) \/ DevHangUp(c)

-----------------------------------------------------------------------------
GuiWork == SendInviteStep \/ SendByeStep

Next ==
  /\ process = "up"
  /\ \/ Play \/ Stop \/ GuiWork
     \/ \E c \in Call : Rx(c) \/ Device(c) \/ \E k \in Kind : Timeout(c, k)

(* Both threads are scheduled and the transaction timers are served.        *)
(* Nothing is assumed of the user, the network and the camera.              *)
Fairness ==
  /\ WF_vars(process = "up" /\ GuiWork)
  /\ \A c \in Call, k \in Kind : WF_vars(process = "up" /\ Timeout(c, k))

Spec == Init /\ [][Next]_vars
FairSpec == Spec /\ Fairness

(* The same on a network that brings the provisional responses. *)
DeliveringSpec ==
  FairSpec /\ \A c \in Call :
    WF_vars(process = "up" /\ \E m \in Provisional : RxProvisional(c, m))

-----------------------------------------------------------------------------
(* Properties *)

CallRecord ==
  [dlg : {"none", "live", "dead"},
   inv : {"NULL", "CALLING", "EARLY", "CONNECTING", "CONFIRMED", "DISCONNECTED"},
   sess : 0..1, tsxs : 0..4,
   invite : TsxState, cancel : TsxState, bye : TsxState, peer : TsxState,
   pendCancel : BOOLEAN, armed : BOOLEAN,
   ended : {"no", "NULL", "CANCEL", "BYE", "unsent"}]

(* The type invariant of the application and of its calls. *)
TypeOK ==
  /\ call \in [Call -> CallRecord]
  /\ net \in [Call -> SUBSET Message]
  /\ dev \in [Call -> {"idle", "trying", "answered", "streaming", "ended"}]
  /\ plays \in 0..MaxCalls /\ cur \in Call \cup {None}
  /\ reg \in BOOLEAN /\ invInit \in BOOLEAN
  /\ recver \in {"none", "bound", "destroyed"} /\ leaked \in BOOLEAN
  /\ tdata \in {"garbage", "NULL", "CANCEL", "BYE"}
  /\ gui \in {"idle", "invite", "unregister"} \cup ByePlace
  /\ found \in {"none", "ringing", "established", "over"}
  /\ process \in {"up", "exit", "stale", "abort", "undefined"}

(* The two reference counts of a dialog are exact whatever the order of     *)
(* hang-ups, answers and timeouts: sess_count is 1 until the session is     *)
(* DISCONNECTED, tsx_count counts the transactions under way, and the       *)
(* dialog dies with the last of the two, never before and never after.      *)
Under(r) == {k \in Kind : Pending(r[k])}
DialogLifetime ==
  \A c \in Call : call[c].dlg # "none" =>
    /\ call[c].sess = IF call[c].inv = "DISCONNECTED" THEN 0 ELSE 1
    /\ call[c].tsxs = Cardinality(Under(call[c]))
    /\ call[c].dlg = "live" <=> call[c].sess + call[c].tsxs > 0

(* sendBye makes four calls on one session and locks nothing across them,   *)
(* and the first of them locks nothing either.  Once it has read that there *)
(* is a session to end, all that follows still finds its dialog, although   *)
(* the camera's BYE, a refusal or the answer may be served between any two  *)
(* steps.  The one exception is a BYE or a CANCEL that the transport        *)
(* refuses: the dialog may go with it, and pjsip_inv_terminate is then      *)
(* called on freed memory.                                                  *)
SendByeHoldsDialog ==
  gui \in ByePlace /\ found \in {"ringing", "established"} =>
    call[cur].dlg = "live" \/ (gui = "terminate" /\ call[cur].ended = "unsent")

(* onStop uses memory that is freed or was never written only when there is *)
(* no call to stop (none was started, or the last one has ended by then,    *)
(* which it has, too, when the transport refuses the BYE or the CANCEL), or *)
(* when the camera's 200 is served inside pjsip_inv_end_session: the call   *)
(* was read as ringing, and the INVITE transaction is gone when it is used. *)
(* It never does for a call that still rings or was read as established.    *)
UndefinedNeedsDeadCall ==
  process = "undefined" /\ cur \in Call =>
    \/ call[cur].inv = "DISCONNECTED"
    \/ found = "ringing" /\ call[cur].inv \in {"CONNECTING", "CONFIRMED"}

(* The dialog of an earlier call is used again only when the user has       *)
(* played on another port without a stop: on the same port the receiver,    *)
(* which holds it until onStop, keeps a second onPlay from sendInvite.      *)
StaleNeedsLeak == process = "stale" => leaked

(* A camera is left streaming, with the dialog gone and no BYE ever sent,   *)
(* only by a CANCEL (sent or put off) that crossed its answer, or by a      *)
(* request that the transport refused: a call that sendBye found            *)
(* established is otherwise always taken leave of.                          *)
Abandoned(c) ==
  dev[c] = "streaming" /\ call[c].dlg = "dead" /\ "BYE" \notin net[c]
AbandonedOnlyByCancel ==
  \A c \in Call : Abandoned(c) => call[c].ended \in {"CANCEL", "NULL", "unsent"}

(* Nothing leaks: the dialog of a call that is over is freed, even if the   *)
(* camera never answers again.                                              *)
EndedCallIsFreed ==
  \A c \in Call :
    call[c].inv = "DISCONNECTED" ~> (call[c].dlg = "dead" \/ process # "up")

(* An assertion of the library, at the head of pjsip_inv_send_msg: the      *)
(* message is not NULL.  sendBye passes what pjsip_inv_end_session left.    *)
MessageIsNotNull == gui = "send" => tdata # "NULL"

(* The library's doc: a CANCEL that is put off because no provisional       *)
(* response has arrived is sent automatically once one does.                *)
DelayedCancelIsSent ==
  \A c \in Call :
    (call[c].pendCancel /\ net[c] \cap Provisional # {})
      ~> ("CANCEL" \in net[c] \/ process # "up")

=============================================================================
