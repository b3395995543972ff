---------------------------- MODULE SipCall_proofs ----------------------------
(***************************************************************************)
(* The reference counts of a call's dialog, what sendBye may touch, and    *)
(* who leaves a camera streaming: theorems of SipCall, for any number of   *)
(* calls.                                                                  *)
(*                                                                         *)
(* The invariant has one half for each call, which the event loop and the  *)
(* camera may disturb (CallInv), and one half for the place of the GUI     *)
(* thread (GuiInv).  A step of the event loop replaces one call's record;  *)
(* LoopStep says once what such a record must fulfil, and each handler is  *)
(* then looked at alone.                                                   *)
(*                                                                         *)
(* On top of it TimedInv says which timers run.  From it follow the two    *)
(* facts that the liveness property EndedCallIsFreed rests on and that     *)
(* need no fairness: what is left of a call that is over is a timer's, and *)
(* nothing sets it back.                                                   *)
(***************************************************************************)
EXTENDS SipCall, FiniteSetTheorems, TLAPS

B(b) == IF b THEN 1 ELSE 0

(* How many transactions of a call are under way. *)
Sum(r) ==
  B(Pending(r.invite)) + B(Pending(r.cancel)) + B(Pending(r.bye)) + B(Pending(r.peer))

(* Both counts are right. *)
Count(r) ==
  /\ r \in CallRecord /\ r.inv # "NULL"
  /\ r.sess = B(r.inv # "DISCONNECTED")
  /\ r.tsxs = Sum(r)

(* A call whose dialog is locked: it is looked at when it is unlocked. *)
Counted(r) == r.dlg = "live" /\ Count(r)

Good(r) ==
  /\ r \in CallRecord
  /\ r.dlg # "none" => Count(r) /\ (r.dlg = "live" <=> r.sess + r.tsxs > 0)

(* A call, the messages sent for it and the camera's state.  A session that *)
(* went away without sendBye and without the camera went away unanswered.   *)
History(r, n, d) ==
  /\ r.pendCancel => r.ended = "NULL" /\ r.cancel = "none"
  /\ r.ended = "no" => r.cancel = "none" /\ r.bye = "none" /\ (r.armed => d = "ended")
  /\ \A m \in {"4xx", "peer BYE", "BYE-final"} : m \in n => d = "ended"
  /\ r.peer # "none" => "peer BYE" \in n
  /\ "ACK" \in n => r.invite = "terminated"
  /\ d = "streaming" => "ACK" \in n
  /\ r.ended = "no" /\ r.inv = "DISCONNECTED" /\ d # "ended" =>
       r.dlg = "dead" /\ "ACK" \notin n

CallInv ==
  \A c \in Call :
    /\ Good(call[c]) /\ History(call[c], net[c], dev[c])
    /\ call[c].dlg = "none" => call[c] = NoCall /\ net[c] = {} /\ dev[c] = "idle"

(* The dialog cannot go while sendBye works on it: the session is there, or *)
(* a transaction that only a timer ends.                                    *)
Held(r) == r.inv # "DISCONNECTED" \/ \E k \in Kind : r[k] = "completed"

Ringing(r) == r.inv \in {"CALLING", "EARLY"}

(* Where pjsip_inv_end_session reads a session that it found ringing. *)
ReadPlace == {"ringing", "status", "delay", "cancel", "timeout"}

(* What sendBye may rely on at its place g, with the message t, for the     *)
(* call r that it found in state f: nothing has been written for r before   *)
(* the reads are done, a message that is there was made for r, one that is  *)
(* missing has a cause, and r is held from the first read on.               *)
PlaceInv(r, g, t, f) ==
  /\ g \in ReadPlace => f = "ringing" /\ t = "garbage" /\ r.ended = "no"
  /\ g = "send" =>
       /\ t # "garbage" => f \in {"ringing", "established"}
       /\ t = "garbage" =>
            \/ f = "over" /\ r.inv = "DISCONNECTED"
            \/ f = "ringing" /\ ~Ringing(r) /\ r.ended = "no"
       /\ t = "NULL" => r.ended \in {"NULL", "CANCEL"}
       /\ t = "CANCEL" => r.ended = "CANCEL" /\ r.cancel = "none"
       /\ t = "BYE" => r.ended = "BYE" /\ r.bye = "none"
  /\ g = "terminate" => f \in {"ringing", "established"} /\ r.ended # "no"
  /\ f \in {"ringing", "established"} /\ r.ended # "unsent" => Held(r)

CurInv ==
  /\ cur \in Call => cur <= plays
  /\ gui \in {"idle", "invite", "end"} => found = "none" /\ tdata = "garbage"
  /\ gui \in ByePlace \ {"end"} =>
       cur \in Call /\ PlaceInv(call[cur], gui, tdata, found)
  /\ UndefinedNeedsDeadCall

(* There is at most one session, m_invsession, and its INVITE is under way  *)
(* as long as it rings.                                                     *)
OpenInv ==
  \A c \in Call :
    /\ call[c].inv \notin {"NULL", "DISCONNECTED"} =>
         reg /\ invInit /\ c = cur /\ gui # "unregister"
    /\ Ringing(call[c]) => Unanswered(call[c])

(* A session that sendBye has begun to end is over when sendBye is. *)
EndInv ==
  \A c \in Call :
    /\ call[c].ended # "no" =>
         call[c].inv = "DISCONNECTED" \/ (c = cur /\ gui \in {"send", "terminate"})
    /\ call[c].ended = "BYE" =>
         "BYE" \in net[c] \/ (c = cur /\ gui = "send" /\ tdata = "BYE")

(* A dialog that is not ended yet is guarded by the receiver of its Play,   *)
(* which only a Play on another port leaves behind.                         *)
GuiInv ==
  /\ \A c \in Call : call[c].dlg = "none" <=> c > plays
  /\ recver = "none" => cur \notin Call
  /\ gui = "idle" /\ invInit => recver = "bound"
  /\ gui = "invite" => recver = "bound" /\ (invInit \/ plays < MaxCalls)
  /\ gui = "invite" /\ invInit => leaked
  /\ process = "stale" => leaked

IInv == TypeOK /\ CallInv /\ CurInv /\ OpenInv /\ EndInv /\ GuiInv

-----------------------------------------------------------------------------
(* The operators on one call *)

(* What dec_lock leaves is a call whose counts are right. *)
LEMMA UnlockGood ==
  ASSUME NEW r, Counted(r)
  PROVE  Good(Unlock(r))
<1> DEFINE u == [r EXCEPT !.dlg = "dead"]
<1>1. r \in CallRecord
  BY DEF Counted, Count
<1>2. u \in CallRecord
  BY <1>1 DEF CallRecord
<1>3. CASE r.sess = 0 /\ r.tsxs = 0
  <2>1. /\ u.dlg = "dead" /\ u.sess = 0 /\ u.tsxs = 0 /\ u.inv = r.inv /\ Sum(u) = Sum(r)
    BY <1>1, <1>3 DEF CallRecord, Sum
  <2>2. Good(u)
    BY <1>2, <1>3, <2>1 DEF Good, Counted, Count
  <2> QED
    BY <1>3, <2>2 DEF Unlock
<1>4. CASE ~(r.sess = 0 /\ r.tsxs = 0)
  BY <1>1, <1>4 DEF Unlock, Good, Counted, Count, CallRecord
<1> QED
  BY <1>3, <1>4

(* The fields a step sets keep their types. *)
LEMMA SessSet ==
  ASSUME NEW r \in CallRecord, NEW s \in 0..1
  PROVE  [r EXCEPT !.inv = "DISCONNECTED", !.sess = s] \in CallRecord
BY DEF CallRecord

LEMMA TsxSet ==
  ASSUME NEW r \in CallRecord, NEW v \in TsxState, NEW k \in Kind
  PROVE  [r EXCEPT ![k] = v] \in CallRecord
BY DEF CallRecord, Kind

LEMMA TsxsSet ==
  ASSUME NEW r \in CallRecord, NEW v \in TsxState, NEW k \in Kind, NEW y \in 0..4
  PROVE  [r EXCEPT ![k] = v, !.tsxs = y] \in CallRecord
<1>1. CASE k = "invite"
  BY <1>1 DEF CallRecord
<1>2. CASE k = "cancel"
  BY <1>2 DEF CallRecord
<1>3. CASE k = "bye"
  BY <1>3 DEF CallRecord
<1>4. CASE k = "peer"
  BY <1>4 DEF CallRecord
<1> QED
  BY <1>1, <1>2, <1>3, <1>4 DEF Kind

(* Only the dialog's life depends on the unlocking. *)
LEMMA UnlockRest ==
  ASSUME NEW r, r \in CallRecord
  PROVE  LET u == Unlock(r) IN
         /\ u.inv = r.inv /\ u.sess = r.sess /\ u.tsxs = r.tsxs
         /\ u.invite = r.invite /\ u.cancel = r.cancel /\ u.bye = r.bye /\ u.peer = r.peer
         /\ u.pendCancel = r.pendCancel /\ u.armed = r.armed /\ u.ended = r.ended
         /\ u.dlg = IF r.sess = 0 /\ r.tsxs = 0 THEN "dead" ELSE r.dlg
BY DEF Unlock, CallRecord

LEMMA UnlockHeld ==
  ASSUME NEW r, r \in CallRecord
  PROVE  Held(Unlock(r)) <=> Held(r)
<1> \A k \in Kind : Unlock(r)[k] = r[k]
  BY UnlockRest DEF Kind
<1> QED
  BY UnlockRest DEF Held

LEMMA DisconnectFields ==
  ASSUME NEW r, r \in CallRecord
  PROVE  LET u == Disconnect(r) IN
         /\ u.inv = "DISCONNECTED" /\ u.dlg = r.dlg /\ u.tsxs = r.tsxs
         /\ u.sess = IF r.inv = "DISCONNECTED" THEN r.sess ELSE r.sess - 1
         /\ u.invite = r.invite /\ u.cancel = r.cancel /\ u.bye = r.bye /\ u.peer = r.peer
         /\ u.pendCancel = r.pendCancel /\ u.armed = r.armed /\ u.ended = r.ended
BY DEF Disconnect, CallRecord

(* The session's reference is dropped with its state. *)
LEMMA DisconnectCounted ==
  ASSUME NEW r, Counted(r)
  PROVE  Counted(Disconnect(r))
<1>1. r \in CallRecord
  BY DEF Counted, Count
<1>2. CASE r.inv = "DISCONNECTED"
  BY <1>2 DEF Disconnect
<1>3. CASE r.inv # "DISCONNECTED"
  <2>1. r.sess = 1
    BY <1>3 DEF Counted, Count, B
  <2>2. Disconnect(r) \in CallRecord
    <3>1. r.sess - 1 \in 0..1
      BY <2>1
    <3> QED
      BY <1>1, <1>3, <3>1, SessSet DEF Disconnect
  <2>3. Sum(Disconnect(r)) = Sum(r)
    BY <1>1, DisconnectFields DEF Sum
  <2> QED
    BY <1>1, <1>3, <2>1, <2>2, <2>3, DisconnectFields DEF Counted, Count, B
<1> QED
  BY <1>2, <1>3

(* A transaction more, a reference more. *)
LEMMA StartCounted ==
  ASSUME NEW r, Counted(r), NEW k \in {"invite", "cancel", "bye"}, ~Pending(r[k])
  PROVE  Counted(StartTsx(r, k))
<1> DEFINE u == StartTsx(r, k)
<1>1. r \in CallRecord
  BY DEF Counted, Count
<1>2. r.tsxs \in 0..3
  <2>1. CASE k = "invite"
    BY <2>1 DEF Counted, Count, Sum, B
  <2>2. CASE k = "cancel"
    BY <2>2 DEF Counted, Count, Sum, B
  <2>3. CASE k = "bye"
    BY <2>3 DEF Counted, Count, Sum, B
  <2> QED
    BY <2>1, <2>2, <2>3
<1>3. u \in CallRecord
  <2>1. r.tsxs + 1 \in 0..4 /\ k \in Kind /\ "calling" \in TsxState
    BY <1>2 DEF Kind, TsxState
  <2> QED
    BY <1>1, <2>1, TsxsSet DEF StartTsx
<1>4. /\ u.dlg = r.dlg /\ u.inv = r.inv /\ u.sess = r.sess /\ u.tsxs = r.tsxs + 1
      /\ u[k] = "calling" /\ \A l \in Kind \ {k} : u[l] = r[l]
  BY <1>1 DEF StartTsx, CallRecord, Kind
<1>5. Sum(u) = Sum(r) + 1
  <2>1. CASE k = "invite"
    BY <1>4, <2>1 DEF Sum, B, Kind, Pending
  <2>2. CASE k = "cancel"
    BY <1>4, <2>2 DEF Sum, B, Kind, Pending
  <2>3. CASE k = "bye"
    BY <1>4, <2>3 DEF Sum, B, Kind, Pending
  <2> QED
    BY <2>1, <2>2, <2>3
<1> QED
  BY <1>3, <1>4, <1>5 DEF Counted, Count

(* A transaction less, a reference less. *)
LEMMA EndCounted ==
  ASSUME NEW r, Counted(r), NEW k \in Kind, Pending(r[k])
  PROVE  Counted(EndTsx(r, k))
<1> DEFINE u == EndTsx(r, k)
<1>1. r \in CallRecord
  BY DEF Counted, Count
<1>2. r.tsxs \in 1..4
  <2>1. r.tsxs # 0
    <3>1. CASE k = "invite"
      BY <3>1 DEF Counted, Count, Sum, B
    <3>2. CASE k = "cancel"
      BY <3>2 DEF Counted, Count, Sum, B
    <3>3. CASE k = "bye"
      BY <3>3 DEF Counted, Count, Sum, B
    <3>4. CASE k = "peer"
      BY <3>4 DEF Counted, Count, Sum, B
    <3> QED
      BY <3>1, <3>2, <3>3, <3>4 DEF Kind
  <2> QED
    BY <1>1, <2>1 DEF CallRecord
<1>3. u \in CallRecord
  <2>1. r.tsxs - 1 \in 0..4 /\ "terminated" \in TsxState
    BY <1>2 DEF TsxState
  <2> QED
    BY <1>1, <2>1, TsxsSet DEF EndTsx
<1>4. /\ u.dlg = r.dlg /\ u.inv = r.inv /\ u.sess = r.sess /\ u.tsxs = r.tsxs - 1
      /\ u[k] = "terminated" /\ \A l \in Kind \ {k} : u[l] = r[l]
  BY <1>1 DEF EndTsx, CallRecord, Kind
<1>5. Sum(u) = Sum(r) - 1
  <2>1. CASE k = "invite"
    BY <1>4, <2>1 DEF Sum, B, Kind, Pending
  <2>2. CASE k = "cancel"
    BY <1>4, <2>2 DEF Sum, B, Kind, Pending
  <2>3. CASE k = "bye"
    BY <1>4, <2>3 DEF Sum, B, Kind, Pending
  <2>4. CASE k = "peer"
    BY <1>4, <2>4 DEF Sum, B, Kind, Pending
  <2> QED
    BY <2>1, <2>2, <2>3, <2>4 DEF Kind
<1> QED
  BY <1>3, <1>4, <1>5 DEF Counted, Count

(* What pjsip_dlg_send_request leaves of a call that cannot send. *)
LEMMA RefusedCounted ==
  ASSUME NEW r, Counted(r), NEW k \in {"invite", "cancel", "bye"}, ~Pending(r[k])
  PROVE  LET over == [r EXCEPT ![k] = "terminated"] IN
         Counted(over) /\ Counted(Disconnect(over))
<1> DEFINE u == [r EXCEPT ![k] = "terminated"]
<1>1. r \in CallRecord
  BY DEF Counted, Count
<1>2. u \in CallRecord
  BY <1>1 DEF CallRecord, TsxState
<1>3. /\ u.dlg = r.dlg /\ u.inv = r.inv /\ u.sess = r.sess /\ u.tsxs = r.tsxs
      /\ u[k] = "terminated" /\ \A l \in Kind \ {k} : u[l] = r[l]
  BY <1>1 DEF CallRecord, Kind
<1>4. Sum(u) = Sum(r)
  <2>1. CASE k = "invite"
    BY <1>3, <2>1 DEF Sum, B, Kind, Pending
  <2>2. CASE k = "cancel"
    BY <1>3, <2>2 DEF Sum, B, Kind, Pending
  <2>3. CASE k = "bye"
    BY <1>3, <2>3 DEF Sum, B, Kind, Pending
  <2> QED
    BY <2>1, <2>2, <2>3
<1>5. Counted(u)
  BY <1>2, <1>3, <1>4 DEF Counted, Count
<1> QED
  BY <1>5, DisconnectCounted

(* A transaction that goes on is counted as before. *)
LEMMA MoveCounted ==
  ASSUME NEW r, Counted(r), NEW k \in Kind, Pending(r[k]), NEW v \in {"proceeding", "completed"}
  PROVE  Counted([r EXCEPT ![k] = v])
<1> DEFINE u == [r EXCEPT ![k] = v]
<1>1. r \in CallRecord /\ v \in TsxState /\ Pending(v)
  BY DEF Counted, Count, TsxState, Pending
<1>2. u \in CallRecord
  BY <1>1, TsxSet
<1>3. /\ u.dlg = r.dlg /\ u.inv = r.inv /\ u.sess = r.sess /\ u.tsxs = r.tsxs
      /\ u[k] = v /\ \A l \in Kind \ {k} : u[l] = r[l]
  BY <1>1 DEF CallRecord, Kind
<1>4. \A l \in Kind : Pending(u[l]) = Pending(r[l])
  BY <1>1, <1>3 DEF Pending
<1>5. Sum(u) = Sum(r)
  BY <1>4 DEF Sum, Kind
<1> QED
  BY <1>2, <1>3, <1>5 DEF Counted, Count

(* The counts do not depend on the rest of the record. *)
LEMMA SameCounted ==
  ASSUME NEW r, Counted(r), NEW u \in CallRecord,
         u.dlg = r.dlg, u.sess = r.sess, u.tsxs = r.tsxs,
         \A k \in Kind : u[k] = r[k],
         u.inv # "NULL", u.inv = "DISCONNECTED" <=> r.inv = "DISCONNECTED"
  PROVE  Counted(u)
<1>1. Sum(u) = Sum(r)
  BY DEF Sum, Kind
<1> QED
  BY <1>1 DEF Counted, Count, B

-----------------------------------------------------------------------------
(* The event loop *)

(* What the event loop may do to a call that sendBye is about to end. *)
Moves(r0, r) ==
  /\ r0.inv = "DISCONNECTED" => r.inv = "DISCONNECTED"
  /\ ~Ringing(r0) => ~Ringing(r)
  /\ r.ended # r0.ended => r0.ended = "NULL" /\ r.ended = "CANCEL"
  /\ r0.cancel = "none" /\ r0.ended # "NULL" => r.cancel = "none"
  /\ r0.bye = "none" => r.bye = "none"
  /\ Held(r0) /\ gui \notin {"idle", "invite"} => Held(r)

LEMMA MovesPlace ==
  ASSUME NEW r0, NEW r, NEW t, NEW f, PlaceInv(r0, gui, t, f), Moves(r0, r),
         gui \notin {"idle", "invite"}
  PROVE  PlaceInv(r, gui, t, f)
<1>1. gui \in ReadPlace => f = "ringing" /\ t = "garbage" /\ r.ended = "no"
  BY DEF PlaceInv, Moves
<1>2. ASSUME gui = "send"
      PROVE  /\ t # "garbage" => f \in {"ringing", "established"}
             /\ t = "garbage" =>
                  \/ f = "over" /\ r.inv = "DISCONNECTED"
                  \/ f = "ringing" /\ ~Ringing(r) /\ r.ended = "no"
             /\ t = "NULL" => r.ended \in {"NULL", "CANCEL"}
             /\ t = "CANCEL" => r.ended = "CANCEL" /\ r.cancel = "none"
             /\ t = "BYE" => r.ended = "BYE" /\ r.bye = "none"
  BY <1>2 DEF PlaceInv, Moves
<1>3. gui = "terminate" => f \in {"ringing", "established"} /\ r.ended # "no"
  BY DEF PlaceInv, Moves
<1>4. f \in {"ringing", "established"} /\ r.ended # "unsent" => Held(r)
  BY DEF PlaceInv, Moves
<1> QED
  BY <1>1, <1>2, <1>3, <1>4 DEF PlaceInv

(* A step of the event loop keeps the invariant if the record it leaves     *)
(* fits the messages of its call and the place of sendBye.                  *)
LEMMA LoopStep ==
  ASSUME IInv, NEW c \in Call, NEW r, NEW msgs \in SUBSET Message,
         Step(c, r, msgs), Counted(r),
         History(Unlock(r), net[c] \cup msgs, dev[c]), Moves(call[c], r),
         reg /\ Ringing(r) => Unanswered(r)
  PROVE  IInv'
<1> DEFINE u == Unlock(r)
           r0 == call[c]
<1>1. /\ process = "up" /\ r0.dlg = "live" /\ UNCHANGED <<dev, guiVars>>
      /\ call' = [call EXCEPT ![c] = u]
      /\ net' = [net EXCEPT ![c] = @ \cup msgs]
  BY DEF Step
<1>2. r \in CallRecord /\ u \in CallRecord /\ r.dlg = "live" /\ u.dlg # "none"
  BY UnlockGood, UnlockRest DEF Counted, Count, Good
<1>3. /\ call \in [Call -> CallRecord] /\ net \in [Call -> SUBSET Message]
      /\ dev \in [Call -> {"idle", "trying", "answered", "streaming", "ended"}]
  BY DEF IInv, TypeOK
<1>4. /\ call'[c] = u /\ \A d \in Call \ {c} : call'[d] = call[d]
      /\ net'[c] = net[c] \cup msgs /\ \A d \in Call \ {c} : net'[d] = net[d]
      /\ dev' = dev /\ plays' = plays /\ reg' = reg /\ invInit' = invInit /\ cur' = cur
      /\ tdata' = tdata /\ recver' = recver /\ leaked' = leaked /\ gui' = gui
      /\ process' = process /\ found' = found
  BY <1>1, <1>3 DEF guiVars, moduleVars, recverVars
<1>5. /\ u.inv = r.inv /\ u.ended = r.ended /\ u.cancel = r.cancel /\ u.bye = r.bye
      /\ u.invite = r.invite /\ (Held(u) <=> Held(r))
  BY <1>2, UnlockRest, UnlockHeld
<1>6. Moves(r0, u)
  BY <1>5 DEF Moves, Ringing
<1>12. u.inv # "NULL" /\ r0.inv # "NULL" /\ (reg /\ Ringing(u) => Unanswered(u))
  <2>1. r0.inv # "NULL"
    BY <1>1 DEF IInv, CallInv, Good, Count
  <2> QED
    BY <1>5, <2>1 DEF Counted, Count, Ringing, Unanswered
<1> HIDE DEF u, r0
<1>7. TypeOK'
  <2>1. call' \in [Call -> CallRecord] /\ net' \in [Call -> SUBSET Message]
    BY <1>1, <1>2, <1>3
  <2> QED
    BY <1>4, <2>1 DEF IInv, TypeOK
<1>8. CallInv'
  <2> SUFFICES ASSUME NEW d \in Call
               PROVE  /\ Good(call'[d]) /\ History(call'[d], net'[d], dev'[d])
                      /\ call'[d].dlg = "none" =>
                           call'[d] = NoCall /\ net'[d] = {} /\ dev'[d] = "idle"
    BY DEF CallInv
  <2>1. CASE d = c
    <3>1. Good(u) /\ History(u, net[c] \cup msgs, dev[c])
      BY UnlockGood DEF u
    <3> QED
      BY <1>2, <1>4, <2>1, <3>1
  <2>2. CASE d # c
    BY <1>4, <2>2 DEF IInv, CallInv
  <2> QED
    BY <2>1, <2>2
<1>9. CurInv'
  <2>1. ASSUME gui \in ByePlace \ {"end"}
        PROVE  cur \in Call /\ PlaceInv(call'[cur], gui, tdata, found)
    <3>1. cur \in Call /\ PlaceInv(call[cur], gui, tdata, found)
      BY <2>1 DEF IInv, CurInv
    <3>2. CASE cur = c
      <4>1. gui \notin {"idle", "invite"}
        BY <2>1 DEF ByePlace
      <4>2. PlaceInv(r0, gui, tdata, found)
        BY <3>1, <3>2 DEF r0
      <4>3. PlaceInv(u, gui, tdata, found)
        BY <1>6, <4>1, <4>2, MovesPlace
      <4> QED
        BY <1>4, <3>1, <3>2, <4>3
    <3>3. CASE cur # c
      BY <1>4, <3>1, <3>3
    <3> QED
      BY <3>2, <3>3
  <2>2. UndefinedNeedsDeadCall'
    BY <1>1, <1>4 DEF UndefinedNeedsDeadCall
  <2> QED
    BY <1>4, <2>1, <2>2 DEF IInv, CurInv
<1>10. EndInv'
  <2> SUFFICES ASSUME NEW d \in Call
               PROVE  /\ call'[d].ended # "no" =>
                           call'[d].inv = "DISCONNECTED" \/ (d = cur /\ gui \in {"send", "terminate"})
                      /\ call'[d].ended = "BYE" =>
                           "BYE" \in net'[d] \/ (d = cur /\ gui = "send" /\ tdata = "BYE")
    BY <1>4 DEF EndInv
  <2>1. CASE d = c
    BY <1>4, <1>6, <2>1 DEF IInv, EndInv, Moves, r0
  <2>2. CASE d # c
    BY <1>4, <2>2 DEF IInv, EndInv
  <2> QED
    BY <2>1, <2>2
<1>11. GuiInv'
  BY <1>1, <1>2, <1>4 DEF IInv, GuiInv, r0
<1>13. OpenInv'
  <2> SUFFICES ASSUME NEW d \in Call
               PROVE  /\ call'[d].inv \notin {"NULL", "DISCONNECTED"} =>
                           reg /\ invInit /\ d = cur /\ gui # "unregister"
                      /\ Ringing(call'[d]) => Unanswered(call'[d])
    BY <1>4 DEF OpenInv
  <2>1. CASE d = c
    <3>1. u.inv \notin {"NULL", "DISCONNECTED"} =>
            reg /\ invInit /\ c = cur /\ gui # "unregister"
      BY <1>6, <1>12 DEF IInv, OpenInv, Moves, r0
    <3> QED
      BY <1>4, <1>12, <2>1, <3>1 DEF Ringing
  <2>2. CASE d # c
    BY <1>4, <2>2 DEF IInv, OpenInv
  <2> QED
    BY <2>1, <2>2
<1> QED
  BY <1>7, <1>8, <1>9, <1>10, <1>11, <1>13 DEF IInv

(* What the handlers may take for granted of a call that is live. *)
LEMMA LiveCall ==
  ASSUME IInv, NEW c \in Call, call[c].dlg = "live"
  PROVE  /\ Counted(call[c]) /\ call[c] \in CallRecord
         /\ History(call[c], net[c], dev[c]) /\ net[c] \in SUBSET Message
BY DEF IInv, TypeOK, CallInv, Good, Counted

(* A dispatched event is handled, or the invite module is not registered.   *)
LEMMA DispatchCases ==
  ASSUME NEW r, NEW h
  PROVE  Dispatch(r, h) \in {r, h}
BY DEF Dispatch

(* A dispatched event: whatever it leaves of the call must fit. *)
LEMMA DispatchStep ==
  ASSUME IInv, NEW c \in Call, NEW r, NEW h, NEW msgs \in SUBSET Message,
         Step(c, Dispatch(r, h), msgs),
         \A u \in {r, h} : /\ Counted(u) /\ Moves(call[c], u)
                           /\ History(Unlock(u), net[c] \cup msgs, dev[c]),
         Ringing(h) => Unanswered(h)
  PROVE  IInv'
<1>1. PICK u \in {r, h} : u = Dispatch(r, h) /\ (reg => u = h)
  BY DEF Dispatch
<1> QED
  BY <1>1, LoopStep

(* The same, for the record before it is unlocked: a call whose dialog goes *)
(* was over.                                                                *)
LEMMA UnlockHistory ==
  ASSUME NEW u, u \in CallRecord, NEW n, NEW d,
         u.pendCancel => u.ended = "NULL" /\ u.cancel = "none",
         u.ended = "no" => u.cancel = "none" /\ u.bye = "none" /\ (u.armed => d = "ended"),
         \A m \in {"4xx", "peer BYE", "BYE-final"} : m \in n => d = "ended",
         u.peer # "none" => "peer BYE" \in n,
         "ACK" \in n => u.invite = "terminated",
         d = "streaming" => "ACK" \in n,
         u.ended = "no" /\ u.inv = "DISCONNECTED" /\ d # "ended" =>
           u.sess = 0 /\ u.tsxs = 0 /\ "ACK" \notin n
  PROVE  History(Unlock(u), n, d)
<1> DEFINE w == Unlock(u)
<1>1. /\ w.inv = u.inv /\ w.invite = u.invite /\ w.cancel = u.cancel /\ w.bye = u.bye
      /\ w.peer = u.peer /\ w.pendCancel = u.pendCancel /\ w.armed = u.armed
      /\ w.ended = u.ended
      /\ u.sess = 0 /\ u.tsxs = 0 => w.dlg = "dead"
  BY UnlockRest
<1> HIDE DEF w
<1>2. History(w, n, d)
  BY <1>1 DEF History
<1> QED
  BY <1>2 DEF w

(* The history of a call goes on as it was, but for what the step set. *)
LEMMA SameHistory ==
  ASSUME NEW r0, NEW n0, NEW n, NEW d, NEW u, History(r0, n0, d), u \in CallRecord,
         \A m \in {"4xx", "peer BYE", "BYE-final"} : m \in n => m \in n0,
         \A m \in n0 : m \in n,
         u.ended = r0.ended, u.pendCancel = r0.pendCancel,
         u.cancel = r0.cancel \/ (~u.pendCancel /\ u.ended # "no"),
         u.bye = r0.bye \/ u.ended # "no",
         u.armed = r0.armed \/ d = "ended",
         u.peer = r0.peer \/ "peer BYE" \in n,
         "ACK" \in n => u.invite = "terminated",
         u.ended = "no" /\ u.inv = "DISCONNECTED" => d = "ended"
  PROVE  History(Unlock(u), n, d)
<1>1. u.pendCancel => u.ended = "NULL" /\ u.cancel = "none"
  BY DEF History
<1>2. u.ended = "no" => u.cancel = "none"
  BY DEF History
<1>3. u.ended = "no" => u.bye = "none"
  BY DEF History
<1>4. u.ended = "no" => (u.armed => d = "ended")
  BY DEF History
<1>5. \A m \in {"4xx", "peer BYE", "BYE-final"} : m \in n => d = "ended"
  BY DEF History
<1>6. u.peer # "none" => "peer BYE" \in n
  BY DEF History
<1>7. d = "streaming" => "ACK" \in n
  BY DEF History
<1> QED
  BY <1>1, <1>2, <1>3, <1>4, <1>5, <1>6, <1>7, UnlockHistory

(* A provisional response, and the CANCEL that was put off. *)
LEMMA RxProvisionalStep ==
  ASSUME IInv, NEW c \in Call, NEW m, RxProvisional(c, m)
  PROVE  IInv'
<1> DEFINE r0 == call[c]
           n == net[c]
           put == reg /\ r0.inv = "CALLING" /\ r0.pendCancel
           r1 == [r0 EXCEPT !.invite = "proceeding"]
           r3 == StartTsx(r1, "cancel")
           r4 == [r3 EXCEPT !.pendCancel = FALSE, !.armed = TRUE, !.ended = "CANCEL"]
           r2 == IF put THEN r4 ELSE r1
           r5 == [r2 EXCEPT !.inv = "EARLY"]
           early == m = "180" /\ r2.inv = "CALLING"
           h == IF early THEN r5 ELSE r2
           msgs == IF put THEN {"CANCEL"} ELSE {}
<1>1. /\ Unanswered(r0) /\ r0.dlg = "live" /\ Step(c, Dispatch(r1, h), msgs)
  BY DEF RxProvisional, Step
<1>2. Counted(r0) /\ r0 \in CallRecord /\ History(r0, n, dev[c]) /\ n \in SUBSET Message
  BY <1>1, LiveCall
<1>3. Counted(r1)
  BY <1>1, <1>2, MoveCounted DEF Unanswered, Kind, Pending
<1>4. r1 \in CallRecord /\ r1.invite = "proceeding" /\ r1.inv = r0.inv /\ r1.ended = r0.ended
      /\ r1.cancel = r0.cancel /\ r1.bye = r0.bye /\ r1.peer = r0.peer
      /\ r1.pendCancel = r0.pendCancel /\ r1.armed = r0.armed /\ r1.dlg = "live"
  BY <1>1, <1>2, <1>3 DEF Counted, Count, CallRecord
<1> HIDE DEF r1
<1>5. ASSUME put
      PROVE  /\ Counted(r4) /\ r4 \in CallRecord /\ r4.invite = "proceeding" /\ r4.inv = r0.inv
             /\ r4.ended = "CANCEL" /\ r4.cancel = "calling" /\ r4.bye = r0.bye
             /\ r4.peer = r0.peer /\ ~r4.pendCancel /\ r4.armed
             /\ r0.ended = "NULL"
  <2>1. r0.ended = "NULL" /\ r0.cancel = "none"
    BY <1>2, <1>5 DEF History
  <2>2. Counted(r3)
    BY <1>3, <1>4, <2>1, StartCounted DEF Pending
  <2>3. /\ r3 \in CallRecord /\ r3.invite = "proceeding" /\ r3.inv = r0.inv
        /\ r3.cancel = "calling" /\ r3.bye = r0.bye /\ r3.peer = r0.peer
    BY <1>4, <2>2 DEF StartTsx, Counted, Count, CallRecord
  <2> HIDE DEF r3
  <2>4. r4 \in CallRecord
    BY <2>3 DEF CallRecord
  <2>5. /\ r4.dlg = r3.dlg /\ r4.sess = r3.sess /\ r4.tsxs = r3.tsxs /\ r4.inv = r3.inv
        /\ \A k \in Kind : r4[k] = r3[k]
        /\ r4.ended = "CANCEL" /\ ~r4.pendCancel /\ r4.armed
    BY <2>3 DEF CallRecord, Kind
  <2> HIDE DEF r4
  <2>6. Counted(r4)
    BY <2>2, <2>4, <2>5, SameCounted DEF Counted, Count
  <2> QED
    BY <2>1, <2>3, <2>4, <2>5, <2>6 DEF Kind
<1> HIDE DEF r4
<1>6. /\ Counted(r2) /\ r2 \in CallRecord /\ r2.invite = "proceeding" /\ r2.inv = r0.inv
      /\ r2.peer = r0.peer /\ r2.bye = r0.bye
      /\ \/ put /\ r0.ended = "NULL" /\ r2.ended = "CANCEL" /\ ~r2.pendCancel /\ r2.armed
         \/ /\ ~put /\ r2.ended = r0.ended /\ r2.cancel = r0.cancel
            /\ r2.pendCancel = r0.pendCancel /\ r2.armed = r0.armed
  BY <1>3, <1>4, <1>5
<1> HIDE DEF r2
<1>7. /\ Counted(h) /\ h \in CallRecord /\ h.invite = "proceeding"
      /\ h.inv = r0.inv \/ (r0.inv = "CALLING" /\ h.inv = "EARLY")
      /\ h.peer = r2.peer /\ h.bye = r2.bye /\ h.ended = r2.ended /\ h.cancel = r2.cancel
      /\ h.pendCancel = r2.pendCancel /\ h.armed = r2.armed
  <2>1. CASE early
    <3>1. r5 \in CallRecord
      BY <1>6 DEF CallRecord
    <3>2. /\ r5.dlg = r2.dlg /\ r5.sess = r2.sess /\ r5.tsxs = r2.tsxs /\ r5.inv = "EARLY"
          /\ \A k \in Kind : r5[k] = r2[k]
          /\ r5.ended = r2.ended /\ r5.pendCancel = r2.pendCancel /\ r5.armed = r2.armed
      BY <1>6 DEF CallRecord, Kind
    <3> HIDE DEF r5
    <3>3. Counted(r5)
      BY <1>6, <2>1, <3>1, <3>2, SameCounted
    <3> QED
      BY <1>6, <2>1, <3>1, <3>2, <3>3 DEF Kind
  <2>2. CASE ~early
    BY <1>6, <2>2
  <2> QED
    BY <2>1, <2>2
<1> HIDE DEF h
<1>8. ASSUME NEW u \in {r1, h}
      PROVE  /\ Counted(u) /\ u \in CallRecord /\ u.invite = "proceeding" /\ u.peer = r0.peer
             /\ u.bye = r0.bye /\ (u.inv = "DISCONNECTED" <=> r0.inv = "DISCONNECTED")
             /\ Ringing(u) => Ringing(r0)
             /\ \/ put /\ r0.ended = "NULL" /\ u.ended = "CANCEL" /\ ~u.pendCancel /\ u.armed
                \/ /\ u.ended = r0.ended /\ u.cancel = r0.cancel
                   /\ u.pendCancel = r0.pendCancel /\ u.armed = r0.armed
  BY <1>3, <1>4, <1>6, <1>7 DEF Ringing
<1>9. Dispatch(r1, h) \in {r1, h}
  BY DispatchCases
<1>10. PICK u \in {r1, h} : u = Dispatch(r1, h)
  BY <1>9
<1>11. History(Unlock(u), n \cup msgs, dev[c])
  <2>1. r0.ended = "no" /\ r0.inv = "DISCONNECTED" => dev[c] = "ended"
    BY <1>1, <1>2 DEF History
  <2>2. "ACK" \notin n
    BY <1>1, <1>2 DEF History, Unanswered
  <2>3. \A x \in {"4xx", "peer BYE", "BYE-final", "ACK"} : x \in n \cup msgs => x \in n
    OBVIOUS
  <2> DEFINE w == Unlock(u)
  <2>4. /\ w.inv = u.inv /\ w.invite = u.invite /\ w.cancel = u.cancel /\ w.bye = u.bye
        /\ w.peer = u.peer /\ w.pendCancel = u.pendCancel /\ w.armed = u.armed
        /\ w.ended = u.ended
    BY <1>8, UnlockRest
  <2> HIDE DEF w
  <2>6. /\ w.invite = "proceeding" /\ w.peer = r0.peer /\ w.bye = r0.bye
        /\ w.inv = "DISCONNECTED" <=> r0.inv = "DISCONNECTED"
        /\ \/ r0.ended = "NULL" /\ w.ended = "CANCEL" /\ ~w.pendCancel
           \/ /\ w.ended = r0.ended /\ w.cancel = r0.cancel
              /\ w.pendCancel = r0.pendCancel /\ w.armed = r0.armed
    BY <1>8, <2>4
  <2> HIDE DEF msgs, r0
  <2>7. w.pendCancel => w.ended = "NULL" /\ w.cancel = "none"
    BY <1>2, <2>6 DEF History
  <2>8. w.ended = "no" =>
          w.cancel = "none" /\ w.bye = "none" /\ (w.armed => dev[c] = "ended")
    BY <1>2, <2>6 DEF History
  <2>9. w.ended = "no" /\ w.inv = "DISCONNECTED" => dev[c] = "ended"
    BY <2>1, <2>6
  <2>10. \A x \in {"4xx", "peer BYE", "BYE-final"} : x \in n \cup msgs => dev[c] = "ended"
    BY <1>2, <2>3 DEF History
  <2>5. History(w, n \cup msgs, dev[c])
    BY <1>2, <2>2, <2>3, <2>6, <2>7, <2>8, <2>9, <2>10 DEF History
  <2> QED
    BY <2>5 DEF w
<1>12. Moves(r0, u)
  <2>1. \A k \in Kind : r0[k] = "completed" => u[k] = "completed"
    <3>1. put => r0.cancel = "none"
      BY <1>2 DEF History
    <3> QED
      BY <1>1, <1>2, <1>8, <3>1 DEF Kind, Unanswered
  <2> QED
    BY <1>8, <2>1 DEF Moves, Held
<1> QED
  <2>1. msgs \in SUBSET Message
    BY DEF Message
  <2>2. Unanswered(u)
    BY <1>8 DEF Unanswered
  <2> QED
    BY <1>1, <1>8, <1>10, <1>11, <1>12, <2>1, <2>2, LoopStep

(* The 200 to the INVITE. *)
LEMMA RxAnswerStep ==
  ASSUME IInv, NEW c \in Call, RxAnswer(c)
  PROVE  IInv'
<1> DEFINE r0 == call[c]
           n == net[c]
           r == EndTsx(r0, "invite")
           r1 == [r EXCEPT !.inv = "CONNECTING"]
           h == IF r.inv \in {"CALLING", "EARLY"} THEN r1 ELSE r
           msgs == IF reg THEN {"ACK"} ELSE {}
<1>1. /\ Unanswered(r0) /\ r0.dlg = "live" /\ Step(c, Dispatch(r, h), msgs)
  BY DEF RxAnswer, Step
<1>2. Counted(r0) /\ r0 \in CallRecord /\ History(r0, n, dev[c]) /\ n \in SUBSET Message
  BY <1>1, LiveCall
<1>3. Counted(r)
  BY <1>1, <1>2, EndCounted DEF Unanswered, Kind, Pending
<1>4. r \in CallRecord /\ r.invite = "terminated" /\ r.inv = r0.inv /\ r.ended = r0.ended
      /\ r.cancel = r0.cancel /\ r.bye = r0.bye /\ r.peer = r0.peer
      /\ r.pendCancel = r0.pendCancel /\ r.armed = r0.armed
  BY <1>2, <1>3 DEF EndTsx, Counted, Count, CallRecord
<1> HIDE DEF r
<1>5. r1 \in CallRecord /\ r1.inv = "CONNECTING" /\ r1.dlg = r.dlg
      /\ r1.sess = r.sess /\ r1.tsxs = r.tsxs /\ (\A k \in Kind : r1[k] = r[k])
      /\ r1.ended = r.ended /\ r1.pendCancel = r.pendCancel /\ r1.armed = r.armed
  BY <1>4 DEF CallRecord, Kind
<1> HIDE DEF r1
<1>6. r.inv \in {"CALLING", "EARLY"} => Counted(r1)
  BY <1>3, <1>5, SameCounted
<1>7. ASSUME NEW u \in {r, h}
      PROVE  /\ Counted(u) /\ u \in CallRecord /\ u.invite = "terminated" /\ u.peer = r0.peer
             /\ u.bye = r0.bye /\ (u.inv = "DISCONNECTED" <=> r0.inv = "DISCONNECTED")
             /\ Ringing(u) => Ringing(r0)
             /\ u.ended = r0.ended /\ u.cancel = r0.cancel
             /\ u.pendCancel = r0.pendCancel /\ u.armed = r0.armed
  BY <1>3, <1>4, <1>5, <1>6 DEF Kind, Ringing
<1>12. ~Ringing(h)
  BY <1>5 DEF Ringing
<1>8. Dispatch(r, h) \in {r, h} /\ (reg => Dispatch(r, h) = h)
  BY DEF Dispatch
<1> HIDE DEF h
<1>9. PICK u \in {r, h} : u = Dispatch(r, h) /\ (reg => u = h)
  BY <1>8
<1>10. History(Unlock(u), n \cup msgs, dev[c])
  <2>1. r0.ended = "no" /\ r0.inv = "DISCONNECTED" => dev[c] = "ended"
    BY <1>1, <1>2 DEF History
  <2>3. \A x \in {"4xx", "peer BYE", "BYE-final"} : x \in n \cup msgs => x \in n
    OBVIOUS
  <2> DEFINE w == Unlock(u)
  <2>4. /\ w.inv = u.inv /\ w.invite = u.invite /\ w.cancel = u.cancel /\ w.bye = u.bye
        /\ w.peer = u.peer /\ w.pendCancel = u.pendCancel /\ w.armed = u.armed
        /\ w.ended = u.ended
    BY <1>7, UnlockRest
  <2> HIDE DEF w
  <2>5. History(w, n \cup msgs, dev[c])
    BY <1>2, <1>7, <2>1, <2>3, <2>4 DEF History
  <2> QED
    BY <2>5 DEF w
<1>11. Moves(r0, u)
  <2>1. \A k \in Kind : r0[k] = "completed" => u[k] = "completed"
    BY <1>1, <1>2, <1>7 DEF Kind, Unanswered
  <2> QED
    BY <1>7, <2>1 DEF Moves, Held
<1> QED
  <2>1. msgs \in SUBSET Message
    BY DEF Message
  <2> QED
    BY <1>1, <1>7, <1>9, <1>10, <1>11, <1>12, <2>1, LoopStep

(* The 200 again. *)
LEMMA RxAnswerAgainStep ==
  ASSUME IInv, NEW c \in Call, RxAnswerAgain(c)
  PROVE  IInv'
<1> DEFINE r0 == call[c]
           n == net[c]
           r1 == [r0 EXCEPT !.inv = "CONFIRMED"]
           u == IF r0.inv = "CONNECTING" THEN r1 ELSE r0
<1>1. /\ r0.invite = "terminated" /\ r0.dlg = "live" /\ Step(c, u, {"ACK"})
      /\ r0.inv \in {"CONNECTING", "CONFIRMED", "DISCONNECTED"}
  BY DEF RxAnswerAgain, Step
<1>2. Counted(r0) /\ r0 \in CallRecord /\ History(r0, n, dev[c]) /\ n \in SUBSET Message
  BY <1>1, LiveCall
<1>3. r1 \in CallRecord /\ r1.inv = "CONFIRMED" /\ r1.dlg = r0.dlg
      /\ r1.sess = r0.sess /\ r1.tsxs = r0.tsxs /\ (\A k \in Kind : r1[k] = r0[k])
      /\ r1.ended = r0.ended /\ r1.pendCancel = r0.pendCancel /\ r1.armed = r0.armed
  BY <1>2 DEF CallRecord, Kind
<1> HIDE DEF r1
<1>4. r0.inv = "CONNECTING" => Counted(r1)
  BY <1>2, <1>3, SameCounted
<1>5. /\ Counted(u) /\ u \in CallRecord
      /\ u.inv = "DISCONNECTED" <=> r0.inv = "DISCONNECTED"
      /\ ~Ringing(u)
      /\ \A k \in Kind : u[k] = r0[k]
      /\ u.ended = r0.ended /\ u.pendCancel = r0.pendCancel /\ u.armed = r0.armed
  BY <1>1, <1>2, <1>3, <1>4 DEF Ringing
<1> HIDE DEF u
<1>6. u.invite = r0.invite /\ u.cancel = r0.cancel /\ u.bye = r0.bye /\ u.peer = r0.peer
  BY <1>5 DEF Kind
<1>7. History(Unlock(u), n \cup {"ACK"}, dev[c])
  <2>1. u.ended = "no" /\ u.inv = "DISCONNECTED" => dev[c] = "ended"
    BY <1>1, <1>2, <1>5 DEF History
  <2>2. /\ \A x \in {"4xx", "peer BYE", "BYE-final"} : x \in n \cup {"ACK"} => x \in n
        /\ \A x \in n : x \in n \cup {"ACK"}
    OBVIOUS
  <2> HIDE DEF r0, n
  <2> QED
    BY <1>1, <1>2, <1>5, <1>6, <2>1, <2>2, SameHistory
<1>8. Moves(r0, u)
  BY <1>5, <1>6 DEF Moves, Held
<1> QED
  <2>1. {"ACK"} \in SUBSET Message
    BY DEF Message
  <2> QED
    BY <1>1, <1>5, <1>7, <1>8, <2>1, LoopStep

(* A failure response. *)
LEMMA RxFailureStep ==
  ASSUME IInv, NEW c \in Call, RxFailure(c)
  PROVE  IInv'
<1> DEFINE r0 == call[c]
           n == net[c]
           r == [r0 EXCEPT !.invite = "completed"]
           h == IF r.inv \in {"CALLING", "EARLY"} THEN Disconnect(r) ELSE r
<1>1. /\ Unanswered(r0) /\ "4xx" \in n /\ r0.dlg = "live" /\ Step(c, Dispatch(r, h), {})
  BY DEF RxFailure, Step
<1>2. Counted(r0) /\ r0 \in CallRecord /\ History(r0, n, dev[c])
  BY <1>1, LiveCall
<1>3. Counted(r)
  BY <1>1, <1>2, MoveCounted DEF Unanswered, Kind, Pending
<1>4. r \in CallRecord /\ r.invite = "completed" /\ r.inv = r0.inv /\ r.ended = r0.ended
      /\ r.cancel = r0.cancel /\ r.bye = r0.bye /\ r.peer = r0.peer
      /\ r.pendCancel = r0.pendCancel /\ r.armed = r0.armed
  <2>1. "completed" \in TsxState /\ "invite" \in Kind
    BY DEF TsxState, Kind
  <2>2. r \in CallRecord
    BY <1>2, <2>1, TsxSet
  <2> QED
    BY <1>2, <2>2 DEF CallRecord
<1> HIDE DEF r
<1>5. ASSUME NEW u \in {r, h}
      PROVE  /\ Counted(u) /\ u \in CallRecord /\ u.invite = "completed"
             /\ r0.inv = "DISCONNECTED" => u.inv = "DISCONNECTED"
             /\ ~Ringing(r0) => ~Ringing(u)
             /\ u.ended = r0.ended /\ u.cancel = r0.cancel /\ u.bye = r0.bye /\ u.peer = r0.peer
             /\ u.pendCancel = r0.pendCancel /\ u.armed = r0.armed
  <2>1. Counted(Disconnect(r)) /\ Disconnect(r) \in CallRecord
    BY <1>3, DisconnectCounted DEF Counted, Count
  <2> QED
    BY <1>3, <1>4, <2>1, DisconnectFields DEF Ringing
<1>7. ~Ringing(h)
  BY <1>4, DisconnectFields DEF Ringing
<1> HIDE DEF h
<1>6. ASSUME NEW u \in {r, h}
      PROVE  Counted(u) /\ Moves(r0, u) /\ History(Unlock(u), n \cup {}, dev[c])
  <2>1. dev[c] = "ended" /\ "ACK" \notin n /\ n \cup {} = n
    BY <1>1, <1>2 DEF History, Unanswered
  <2>2. Held(u)
    BY <1>5 DEF Held, Kind
  <2> HIDE DEF r0, n
  <2>3. Moves(r0, u)
    BY <1>5, <2>2 DEF Moves
  <2>4. History(Unlock(u), n, dev[c])
    BY <1>2, <1>5, <2>1, SameHistory
  <2> QED
    BY <1>5, <2>1, <2>3, <2>4
<1> QED
  BY <1>1, <1>6, <1>7, DispatchStep

(* The camera's BYE. *)
LEMMA RxByeStep ==
  ASSUME IInv, NEW c \in Call, RxBye(c)
  PROVE  IInv'
<1> DEFINE r0 == call[c]
           n == net[c]
           r == [r0 EXCEPT !.peer = "completed", !.tsxs = @ + 1]
           a == [r EXCEPT !.armed = @ \/ r.inv = "EARLY"]
           h == IF r.inv = "CALLING" THEN r ELSE Disconnect(a)
<1>1. /\ r0.peer = "none" /\ "peer BYE" \in n /\ r0.dlg = "live" /\ Step(c, Dispatch(r, h), {})
  BY DEF RxBye, Step
<1>2. Counted(r0) /\ r0 \in CallRecord /\ History(r0, n, dev[c])
  BY <1>1, LiveCall
<1>3. r0.tsxs \in 0..3
  <2>1. r0.tsxs \in 0..4 /\ r0.tsxs = Sum(r0) /\ ~Pending(r0.peer)
    BY <1>1, <1>2 DEF Counted, Count, Pending, CallRecord
  <2> HIDE DEF r0
  <2>2. r0.tsxs # 4
    BY <2>1 DEF Sum, B
  <2> QED
    BY <2>1, <2>2
<1>4. r \in CallRecord
  <2>1. r0.tsxs + 1 \in 0..4 /\ "completed" \in TsxState /\ "peer" \in Kind
    BY <1>3 DEF TsxState, Kind
  <2> QED
    BY <1>2, <2>1, TsxsSet
<1>5. r.peer = "completed" /\ r.invite = r0.invite /\ r.inv = r0.inv /\ r.ended = r0.ended
      /\ r.cancel = r0.cancel /\ r.bye = r0.bye /\ r.tsxs = r0.tsxs + 1 /\ r.sess = r0.sess
      /\ r.pendCancel = r0.pendCancel /\ r.armed = r0.armed /\ r.dlg = r0.dlg
  BY <1>2 DEF CallRecord
<1> HIDE DEF r
<1>6. Counted(r)
  <2>2. /\ ~Pending(r0.peer) /\ Pending(r.peer)
        /\ r.invite = r0.invite /\ r.cancel = r0.cancel /\ r.bye = r0.bye
    BY <1>1, <1>5 DEF Pending
  <2> HIDE DEF r0
  <2>1. Sum(r) = Sum(r0) + 1
    BY <2>2 DEF Sum, B
  <2> QED
    BY <1>1, <1>2, <1>4, <1>5, <2>1 DEF Counted, Count
<1>7. a \in CallRecord /\ a.dlg = r.dlg /\ a.inv = r.inv /\ a.sess = r.sess /\ a.tsxs = r.tsxs
      /\ a.ended = r.ended /\ a.pendCancel = r.pendCancel /\ \A k \in Kind : a[k] = r[k]
  BY <1>4 DEF CallRecord, Kind
<1> HIDE DEF a
<1>8. Counted(a)
  BY <1>6, <1>7, SameCounted DEF Counted, Count
<1>9. /\ a.invite = r.invite /\ a.cancel = r.cancel /\ a.bye = r.bye /\ a.peer = r.peer
  BY <1>7 DEF Kind
<1>10. ASSUME NEW u \in {r, h}
      PROVE  /\ Counted(u) /\ u \in CallRecord /\ u.peer = "completed" /\ u.invite = r0.invite
             /\ r0.inv = "DISCONNECTED" => u.inv = "DISCONNECTED"
             /\ Ringing(u) => Ringing(r0)
             /\ u.ended = r0.ended /\ u.cancel = r0.cancel /\ u.bye = r0.bye
             /\ u.pendCancel = r0.pendCancel
  <2>1. Counted(Disconnect(a)) /\ Disconnect(a) \in CallRecord
    BY <1>8, DisconnectCounted DEF Counted, Count
  <2> QED
    BY <1>4, <1>5, <1>6, <1>7, <1>9, <2>1, DisconnectFields DEF Ringing
<1>14. Ringing(h) => Unanswered(h)
  <2>1. Ringing(r0) => Unanswered(r0)
    BY DEF IInv, OpenInv
  <2>2. h.invite = r0.invite /\ (Ringing(h) => Ringing(r0))
    BY <1>10
  <2> HIDE DEF h, r0
  <2> QED
    BY <2>1, <2>2 DEF Unanswered
<1> HIDE DEF h
<1>12. {} \in SUBSET Message
  OBVIOUS
<1>13. Step(c, Dispatch(r, h), {})
  BY <1>1
<1>11. ASSUME NEW u \in {r, h}
      PROVE  Counted(u) /\ Moves(r0, u) /\ History(Unlock(u), n \cup {}, dev[c])
  <2>1. dev[c] = "ended" /\ n \cup {} = n
    BY <1>1, <1>2 DEF History
  <2>2. Held(u)
    BY <1>10 DEF Held, Kind
  <2> HIDE DEF r0, n
  <2>3. Moves(r0, u)
    BY <1>10, <2>2 DEF Moves
  <2>5. "ACK" \in n => u.invite = "terminated"
    BY <1>2, <1>10 DEF History
  <2>4. History(Unlock(u), n, dev[c])
    BY <1>1, <1>2, <1>10, <2>1, <2>5, SameHistory
  <2> QED
    BY <1>10, <2>1, <2>3, <2>4
<1> QED
  BY <1>11, <1>12, <1>13, <1>14, DispatchStep

(* The final response to our BYE. *)
LEMMA RxByeFinalStep ==
  ASSUME IInv, NEW c \in Call, RxByeFinal(c)
  PROVE  IInv'
<1> DEFINE r0 == call[c]
           n == net[c]
           r == [r0 EXCEPT !.bye = "completed"]
           h == Disconnect(r)
<1>1. /\ r0.bye = "calling" /\ "BYE-final" \in n /\ r0.dlg = "live" /\ Step(c, Dispatch(r, h), {})
  BY DEF RxByeFinal, Step
<1>2. Counted(r0) /\ r0 \in CallRecord /\ History(r0, n, dev[c])
  BY <1>1, LiveCall
<1>3. Counted(r)
  BY <1>1, <1>2, MoveCounted DEF Kind, Pending
<1>4. r \in CallRecord /\ r.bye = "completed" /\ r.inv = r0.inv /\ r.ended = r0.ended
      /\ r.cancel = r0.cancel /\ r.invite = r0.invite /\ r.peer = r0.peer
      /\ r.pendCancel = r0.pendCancel /\ r.armed = r0.armed
  <2>1. "completed" \in TsxState /\ "bye" \in Kind
    BY DEF TsxState, Kind
  <2>2. r \in CallRecord
    BY <1>2, <2>1, TsxSet
  <2> QED
    BY <1>2, <2>2 DEF CallRecord
<1> HIDE DEF r
<1>5. ASSUME NEW u \in {r, h}
      PROVE  /\ Counted(u) /\ u \in CallRecord /\ u.bye = "completed"
             /\ r0.inv = "DISCONNECTED" => u.inv = "DISCONNECTED"
             /\ ~Ringing(r0) => ~Ringing(u)
             /\ u.ended = r0.ended /\ u.cancel = r0.cancel /\ u.invite = r0.invite
             /\ u.peer = r0.peer /\ u.pendCancel = r0.pendCancel /\ u.armed = r0.armed
  <2>1. Counted(h) /\ h \in CallRecord
    BY <1>3, DisconnectCounted DEF Counted, Count
  <2> QED
    BY <1>3, <1>4, <2>1, DisconnectFields DEF Ringing
<1>7. ~Ringing(h)
  BY <1>4, DisconnectFields DEF Ringing
<1> HIDE DEF h
<1>6. ASSUME NEW u \in {r, h}
      PROVE  Counted(u) /\ Moves(r0, u) /\ History(Unlock(u), n \cup {}, dev[c])
  <2>1. dev[c] = "ended" /\ r0.ended # "no" /\ n \cup {} = n
    BY <1>1, <1>2 DEF History
  <2>2. Held(u)
    BY <1>5 DEF Held, Kind
  <2> HIDE DEF r0, n
  <2>3. Moves(r0, u)
    BY <1>1, <1>5, <2>2 DEF Moves
  <2>5. "ACK" \in n => u.invite = "terminated"
    BY <1>2, <1>5 DEF History
  <2>4. History(Unlock(u), n, dev[c])
    BY <1>2, <1>5, <2>1, <2>5, SameHistory
  <2> QED
    BY <1>5, <2>1, <2>3, <2>4
<1> QED
  BY <1>1, <1>6, <1>7, DispatchStep

(* The final response to our CANCEL. *)
LEMMA RxCancelFinalStep ==
  ASSUME IInv, NEW c \in Call, RxCancelFinal(c)
  PROVE  IInv'
<1> DEFINE r0 == call[c]
           n == net[c]
           u == [r0 EXCEPT !.cancel = "completed"]
<1>1. r0.cancel = "calling" /\ r0.dlg = "live" /\ Step(c, u, {})
  BY DEF RxCancelFinal, Step
<1>2. Counted(r0) /\ r0 \in CallRecord /\ History(r0, n, dev[c])
  BY <1>1, LiveCall
<1>3. Counted(u)
  BY <1>1, <1>2, MoveCounted DEF Kind, Pending
<1>4. u \in CallRecord /\ u.cancel = "completed" /\ u.inv = r0.inv /\ u.ended = r0.ended
      /\ u.bye = r0.bye /\ u.invite = r0.invite /\ u.peer = r0.peer
      /\ u.pendCancel = r0.pendCancel /\ u.armed = r0.armed
  <2>1. "completed" \in TsxState /\ "cancel" \in Kind
    BY DEF TsxState, Kind
  <2>2. u \in CallRecord
    BY <1>2, <2>1, TsxSet
  <2> QED
    BY <1>2, <2>2 DEF CallRecord
<1> HIDE DEF u
<1>5. r0.ended # "no" /\ ~r0.pendCancel /\ n \cup {} = n
  BY <1>1, <1>2 DEF History
<1>6. Held(u)
  BY <1>4 DEF Held, Kind
<1>7. Moves(r0, u)
  BY <1>1, <1>4, <1>6 DEF Moves, Ringing
<1>10. Ringing(u) => Unanswered(u)
  <2>1. Ringing(r0) => Unanswered(r0)
    BY DEF IInv, OpenInv
  <2> HIDE DEF r0
  <2> QED
    BY <1>4, <2>1 DEF Ringing, Unanswered
<1>9. "ACK" \in n => u.invite = "terminated"
  BY <1>2, <1>4 DEF History
<1> HIDE DEF r0, n
<1>8. History(Unlock(u), n, dev[c])
  BY <1>2, <1>4, <1>5, <1>9, SameHistory
<1> QED
  BY <1>1, <1>3, <1>5, <1>7, <1>8, <1>10, LoopStep DEF r0, n

(* A transaction timer.  If nobody has begun to end the call and the camera *)
(* has not either, the INVITE is its last transaction.                      *)
LEMMA TimeoutStep ==
  ASSUME IInv, NEW c \in Call, NEW k \in Kind, Timeout(c, k)
  PROVE  IInv'
<1> DEFINE r0 == call[c]
           n == net[c]
           r == EndTsx(r0, k)
           h == IF r0[k] = "completed" THEN r ELSE Disconnect(r)
<1>1. /\ gui \in {"idle", "invite"} /\ r0[k] \in {"calling", "proceeding", "completed"}
      /\ r0.dlg = "live" /\ Step(c, Dispatch(r, h), {})
  BY DEF Timeout, Ticking, Step
<1>2. Counted(r0) /\ r0 \in CallRecord /\ History(r0, n, dev[c])
  BY <1>1, LiveCall
<1>3. Counted(r)
  BY <1>1, <1>2, EndCounted DEF Pending
<1>4. r \in CallRecord /\ r.inv = r0.inv /\ r.ended = r0.ended /\ r[k] = "terminated"
      /\ (\A l \in Kind \ {k} : r[l] = r0[l])
      /\ r.pendCancel = r0.pendCancel /\ r.armed = r0.armed
  BY <1>2, <1>3 DEF EndTsx, Counted, Count, CallRecord, Kind
<1> HIDE DEF r
<1>5. ASSUME NEW u \in {r, h}
      PROVE  /\ Counted(u) /\ u \in CallRecord /\ u[k] = "terminated"
             /\ \A l \in Kind \ {k} : u[l] = r0[l]
             /\ r0.inv = "DISCONNECTED" => u.inv = "DISCONNECTED"
             /\ u.inv = r0.inv \/ u.inv = "DISCONNECTED"
             /\ u.ended = r0.ended /\ u.pendCancel = r0.pendCancel /\ u.armed = r0.armed
  <2> DEFINE d == Disconnect(r)
  <2>1. Counted(d) /\ d \in CallRecord
    BY <1>3, DisconnectCounted DEF Counted, Count
  <2>2. d.inv = "DISCONNECTED" /\ (\A l \in Kind : d[l] = r[l])
        /\ d.ended = r.ended /\ d.pendCancel = r.pendCancel /\ d.armed = r.armed
    BY <1>4, DisconnectFields DEF Kind
  <2> HIDE DEF d
  <2> QED
    BY <1>3, <1>4, <2>1, <2>2 DEF d
<1>7. Ringing(h) => Unanswered(h)
  <2>1. Ringing(r0) => Unanswered(r0)
    BY DEF IInv, OpenInv
  <2>2. CASE r0[k] = "completed"
    <3>1. h = r /\ r.inv = r0.inv /\ (k # "invite" => r.invite = r0.invite)
      BY <1>4, <2>2 DEF Kind
    <3>2. k = "invite" => ~Unanswered(r0)
      BY <2>2 DEF Unanswered
    <3> HIDE DEF h, r0
    <3> QED
      BY <2>1, <3>1, <3>2 DEF Ringing, Unanswered
  <2>3. CASE r0[k] # "completed"
    BY <1>4, <2>3, DisconnectFields DEF Ringing
  <2> QED
    BY <2>2, <2>3
<1> HIDE DEF h
<1>6. ASSUME NEW u \in {r, h}
      PROVE  Counted(u) /\ Moves(r0, u) /\ History(Unlock(u), n \cup {}, dev[c])
  <2>1. n \cup {} = n
    OBVIOUS
  <2>2. /\ k = "invite" => u.invite = "terminated" /\ u.cancel = r0.cancel
                           /\ u.bye = r0.bye /\ u.peer = r0.peer
        /\ k = "cancel" => u.cancel = "terminated" /\ u.invite = r0.invite
                           /\ u.bye = r0.bye /\ u.peer = r0.peer
        /\ k = "bye" => u.bye = "terminated" /\ u.invite = r0.invite
                        /\ u.cancel = r0.cancel /\ u.peer = r0.peer
        /\ k = "peer" => u.peer = "terminated" /\ u.invite = r0.invite
                         /\ u.cancel = r0.cancel /\ u.bye = r0.bye
    BY <1>5 DEF Kind
  <2>3. k \in {"invite", "cancel", "bye", "peer"}
    BY DEF Kind
  <2> HIDE DEF r0, n
  <2>4. Moves(r0, u)
    BY <1>1, <1>5, <2>2, <2>3 DEF Moves, Ringing
  <2>5. ASSUME u.ended = "no", u.inv = "DISCONNECTED", dev[c] # "ended"
        PROVE  u.sess = 0 /\ u.tsxs = 0 /\ "ACK" \notin n
    <3>1. /\ r0.ended = "no" /\ r0.cancel = "none" /\ r0.bye = "none" /\ r0.peer = "none"
      BY <1>2, <1>5, <2>5 DEF History
    <3>2. k = "invite"
      BY <1>1, <2>3, <3>1
    <3>3. "ACK" \notin n
      BY <1>1, <1>2, <3>2 DEF History
    <3>4. Sum(u) = 0
      BY <2>2, <3>1, <3>2 DEF Sum, B, Pending
    <3> QED
      BY <1>5, <2>5, <3>3, <3>4 DEF Counted, Count, B
  <2>6. u.pendCancel => u.ended = "NULL" /\ u.cancel = "none"
    BY <1>1, <1>2, <1>5, <2>2, <2>3 DEF History
  <2>7. u.ended = "no" => u.cancel = "none" /\ u.bye = "none" /\ (u.armed => dev[c] = "ended")
    BY <1>1, <1>2, <1>5, <2>2, <2>3 DEF History
  <2>8. /\ u.peer # "none" => "peer BYE" \in n
        /\ "ACK" \in n => u.invite = "terminated"
        /\ dev[c] = "streaming" => "ACK" \in n
        /\ \A m \in {"4xx", "peer BYE", "BYE-final"} : m \in n => dev[c] = "ended"
    BY <1>1, <1>2, <2>2, <2>3 DEF History
  <2>9. History(Unlock(u), n, dev[c])
    BY <1>5, <2>5, <2>6, <2>7, <2>8, UnlockHistory
  <2> QED
    BY <1>5, <2>1, <2>4, <2>9
<1> QED
  BY <1>1, <1>6, <1>7, DispatchStep

-----------------------------------------------------------------------------
(* The camera *)

(* What the camera does is over with "ended", and its other steps send      *)
(* nothing that ends a call.                                                *)
LEMMA CameraHistory ==
  ASSUME NEW r, NEW n, NEW d, NEW msgs, NEW state, History(r, n, d),
         "ACK" \notin msgs,
         state # "ended" =>
           /\ d # "ended"
           /\ \A m \in {"4xx", "peer BYE", "BYE-final"} : m \notin msgs
           /\ state = "streaming" => "ACK" \in n
  PROVE  History(r, n \cup msgs, state)
<1>1. "ACK" \in n \cup msgs <=> "ACK" \in n
  OBVIOUS
<1>2. r.ended = "no" => r.cancel = "none" /\ r.bye = "none" /\ (r.armed => state = "ended")
  BY DEF History
<1>3. \A m \in {"4xx", "peer BYE", "BYE-final"} : m \in n \cup msgs => state = "ended"
  <2>1. SUFFICES ASSUME NEW m \in {"4xx", "peer BYE", "BYE-final"}, m \in n \cup msgs,
                        state # "ended"
                 PROVE  FALSE
    OBVIOUS
  <2>2. m \in n
    BY <2>1
  <2> QED
    BY <2>1, <2>2 DEF History
<1>4. r.ended = "no" /\ r.inv = "DISCONNECTED" /\ state # "ended" =>
        r.dlg = "dead" /\ "ACK" \notin n
  BY DEF History
<1>5. /\ r.pendCancel => r.ended = "NULL" /\ r.cancel = "none"
      /\ r.peer # "none" => "peer BYE" \in n
      /\ "ACK" \in n => r.invite = "terminated"
      /\ state = "streaming" => "ACK" \in n
  BY DEF History
<1> QED
  BY <1>1, <1>2, <1>3, <1>4, <1>5 DEF History

LEMMA CameraStep ==
  ASSUME IInv, NEW c \in Call, NEW state \in {"trying", "answered", "streaming", "ended"},
         NEW msgs \in SUBSET Message, Camera(c, state, msgs), call[c].dlg # "none",
         "ACK" \notin msgs,
         state # "ended" =>
           /\ dev[c] # "ended"
           /\ \A m \in {"4xx", "peer BYE", "BYE-final"} : m \notin msgs
           /\ state = "streaming" => "ACK" \in net[c]
  PROVE  IInv'
<1>1. /\ net \in [Call -> SUBSET Message]
      /\ dev \in [Call -> {"idle", "trying", "answered", "streaming", "ended"}]
  BY DEF IInv, TypeOK
<1>2. /\ net' = [net EXCEPT ![c] = @ \cup msgs] /\ dev' = [dev EXCEPT ![c] = state]
      /\ call' = call /\ plays' = plays /\ reg' = reg /\ invInit' = invInit /\ cur' = cur
      /\ tdata' = tdata /\ recver' = recver /\ leaked' = leaked /\ gui' = gui
      /\ process' = process /\ found' = found
  BY DEF Camera, guiVars, moduleVars, recverVars
<1>3. /\ net' \in [Call -> SUBSET Message]
      /\ dev' \in [Call -> {"idle", "trying", "answered", "streaming", "ended"}]
  BY <1>1, <1>2
<1>4. /\ net'[c] = net[c] \cup msgs /\ dev'[c] = state
      /\ \A d \in Call \ {c} : net'[d] = net[d] /\ dev'[d] = dev[d]
  BY <1>1, <1>2
<1>5. TypeOK'
  <2>1. /\ call' \in [Call -> CallRecord] /\ plays' \in 0..MaxCalls /\ cur' \in Call \cup {None}
        /\ reg' \in BOOLEAN /\ invInit' \in BOOLEAN /\ leaked' \in BOOLEAN
    BY <1>2 DEF IInv, TypeOK
  <2>2. /\ recver' \in {"none", "bound", "destroyed"}
        /\ tdata' \in {"garbage", "NULL", "CANCEL", "BYE"}
        /\ gui' \in {"idle", "invite", "unregister"} \cup ByePlace
        /\ found' \in {"none", "ringing", "established", "over"}
        /\ process' \in {"up", "exit", "stale", "abort", "undefined"}
    BY <1>2 DEF IInv, TypeOK
  <2> QED
    BY <1>3, <2>1, <2>2 DEF TypeOK
<1>6. CallInv'
  <2> SUFFICES ASSUME NEW d \in Call
               PROVE  /\ Good(call[d]) /\ History(call[d], net'[d], dev'[d])
                      /\ call[d].dlg = "none" =>
                           call[d] = NoCall /\ net'[d] = {} /\ dev'[d] = "idle"
    BY <1>2 DEF CallInv
  <2>1. CASE d = c
    <3>1. Good(call[c]) /\ History(call[c], net[c], dev[c])
      BY DEF IInv, CallInv
    <3>2. History(call[c], net[c] \cup msgs, state)
      BY <3>1, CameraHistory
    <3> QED
      BY <1>4, <2>1, <3>1, <3>2
  <2>2. CASE d # c
    BY <1>4, <2>2 DEF IInv, CallInv
  <2> QED
    BY <2>1, <2>2
<1>7. EndInv'
  <2>1. \A d \in Call : "BYE" \in net[d] => "BYE" \in net'[d]
    BY <1>4
  <2> QED
    BY <1>2, <2>1 DEF IInv, EndInv
<1>8. CurInv' /\ OpenInv' /\ GuiInv'
  BY <1>2 DEF IInv, CurInv, UndefinedNeedsDeadCall, OpenInv, GuiInv
<1> QED
  BY <1>5, <1>6, <1>7, <1>8 DEF IInv

LEMMA DeviceStep ==
  ASSUME IInv, NEW c \in Call, Device(c)
  PROVE  IInv'
<1>1. /\ call[c].dlg = "none" => net[c] = {} /\ dev[c] = "idle"
      /\ History(call[c], net[c], dev[c])
      /\ dev[c] \in {"idle", "trying", "answered", "streaming", "ended"}
  BY DEF IInv, CallInv, TypeOK
<1>2. dev[c] = "streaming" => "ACK" \in net[c]
  BY <1>1 DEF History
<1> USE DEF Message, Provisional
<1>3. CASE DevInvite(c)
  BY <1>1, <1>3, CameraStep DEF DevInvite
<1>4. CASE DevAnswer(c)
  BY <1>1, <1>4, CameraStep DEF DevAnswer
<1>5. CASE DevRefuse(c)
  BY <1>1, <1>5, CameraStep DEF DevRefuse
<1>6. CASE DevAck(c)
  BY <1>1, <1>6, CameraStep DEF DevAck
<1>7. CASE DevCancel(c)
  <2>1. call[c].dlg # "none" /\ dev[c] # "idle"
    BY <1>1, <1>7 DEF DevCancel
  <2>2. CASE dev[c] = "trying"
    BY <1>7, <2>1, <2>2, CameraStep DEF DevCancel
  <2>3. CASE dev[c] = "ended"
    BY <1>7, <2>1, <2>3, CameraStep DEF DevCancel
  <2>4. CASE dev[c] \in {"answered", "streaming"}
    BY <1>2, <1>7, <2>1, <2>4, CameraStep DEF DevCancel
  <2> QED
    BY <1>1, <2>1, <2>2, <2>3, <2>4
<1>8. CASE DevBye(c)
  BY <1>1, <1>8, CameraStep DEF DevBye
<1>9. CASE DevHangUp(c)
  BY <1>1, <1>9, CameraStep DEF DevHangUp
<1> QED
  BY <1>3, <1>4, <1>5, <1>6, <1>7, <1>8, <1>9 DEF Device

-----------------------------------------------------------------------------
(* The GUI thread *)

(* A step of the GUI thread that leaves the calls alone. *)
LEMMA QuietStep ==
  ASSUME IInv, UNCHANGED <<call, net, dev, plays, cur>>,
         reg' \in BOOLEAN, invInit' \in BOOLEAN,
         recver' \in {"none", "bound", "destroyed"}, leaked' \in BOOLEAN,
         tdata' \in {"garbage", "NULL", "CANCEL", "BYE"},
         gui' \in {"idle", "invite", "unregister"} \cup ByePlace,
         found' \in {"none", "ringing", "established", "over"},
         process' \in {"up", "exit", "stale", "abort", "undefined"},
         CurInv', OpenInv', EndInv', GuiInv'
  PROVE  IInv'
<1>1. TypeOK'
  BY DEF IInv, TypeOK
<1>2. CallInv'
  BY DEF IInv, CallInv
<1> QED
  BY <1>1, <1>2 DEF IInv

(* The program is over. *)
LEMMA OverStep ==
  ASSUME IInv, UNCHANGED <<call, net, dev, plays, moduleVars, cur, tdata, recverVars, gui, found>>,
         process' \in {"exit", "stale", "abort", "undefined"},
         process' = "stale" => leaked,
         process' = "undefined" /\ cur \in Call =>
           \/ call[cur].inv = "DISCONNECTED"
           \/ found = "ringing" /\ call[cur].inv \in {"CONNECTING", "CONFIRMED"}
  PROVE  IInv'
<1>1. UNCHANGED <<reg, invInit, recver, leaked>>
  BY DEF moduleVars, recverVars
<1>2. UndefinedNeedsDeadCall'
  BY DEF UndefinedNeedsDeadCall
<1>3. CurInv'
  BY <1>2 DEF IInv, CurInv
<1>4. OpenInv' /\ EndInv'
  BY <1>1 DEF IInv, OpenInv, EndInv
<1>5. GuiInv'
  BY <1>1 DEF IInv, GuiInv
<1> QED
  BY <1>1, <1>3, <1>4, <1>5, QuietStep DEF IInv, TypeOK

(* The receiver first. *)
LEMMA PlayStep ==
  ASSUME IInv, process = "up", Play
  PROVE  IInv'
<1>1. /\ gui = "idle" /\ (plays < MaxCalls \/ invInit)
      /\ UNCHANGED <<call, net, dev, plays, reg, invInit, cur, tdata, found>>
  BY DEF Play, moduleVars
<1>2. CASE process' = "exit" /\ UNCHANGED <<recverVars, gui>>
  BY <1>1, <1>2, OverStep DEF moduleVars
<1>3. CASE /\ recver' = "bound" /\ leaked' = (leaked \/ recver = "bound")
           /\ gui' = "invite" /\ UNCHANGED process
  <2>1. CurInv'
    BY <1>1, <1>3 DEF IInv, CurInv, UndefinedNeedsDeadCall, ByePlace
  <2>2. OpenInv' /\ EndInv'
    BY <1>1, <1>3 DEF IInv, OpenInv, EndInv
  <2>3. GuiInv'
    BY <1>1, <1>3 DEF IInv, GuiInv
  <2> QED
    BY <1>1, <1>3, <2>1, <2>2, <2>3, QuietStep DEF IInv, TypeOK
<1> QED
  BY <1>2, <1>3 DEF Play

(* An id that is no SIP URI, and the module that it left registered. *)
LEMMA SendInviteBadUriStep ==
  ASSUME IInv, process = "up", SendInviteBadUri
  PROVE  IInv'
<1>1. /\ gui = "invite" /\ ~invInit /\ reg' = TRUE /\ gui' = "idle"
      /\ UNCHANGED <<call, net, dev, plays, invInit, cur, tdata, recver, leaked, process, found>>
  BY DEF SendInviteBadUri, recverVars
<1>2. CurInv'
  BY <1>1 DEF IInv, CurInv, UndefinedNeedsDeadCall, ByePlace
<1>3. OpenInv' /\ EndInv'
  BY <1>1 DEF IInv, OpenInv, EndInv
<1>4. GuiInv'
  BY <1>1 DEF IInv, GuiInv
<1> QED
  BY <1>1, <1>2, <1>3, <1>4, QuietStep DEF IInv, TypeOK

LEMMA SendInviteRefusedStep ==
  ASSUME IInv, process = "up", SendInviteRefused
  PROVE  IInv'
<1>1. /\ gui = "invite" /\ ~invInit
      /\ UNCHANGED <<call, net, dev, plays, moduleVars, cur, tdata, recverVars, found>>
  BY DEF SendInviteRefused
<1>2. CASE process' = "abort" /\ UNCHANGED gui
  BY <1>1, <1>2, OverStep
<1>3. CASE gui' = "idle" /\ UNCHANGED process
  <2>1. UNCHANGED <<reg, invInit, recver, leaked>>
    BY <1>1 DEF moduleVars, recverVars
  <2>2. CurInv'
    BY <1>1, <1>3 DEF IInv, CurInv, UndefinedNeedsDeadCall, ByePlace
  <2>3. OpenInv' /\ EndInv'
    BY <1>1, <1>3, <2>1 DEF IInv, OpenInv, EndInv
  <2>4. GuiInv'
    BY <1>1, <1>3, <2>1 DEF IInv, GuiInv
  <2> QED
    BY <1>1, <1>3, <2>1, <2>2, <2>3, <2>4, QuietStep DEF IInv, TypeOK
<1> QED
  BY <1>2, <1>3 DEF SendInviteRefused

LEMMA SendInviteStaleStep ==
  ASSUME IInv, process = "up", SendInviteStale
  PROVE  IInv'
<1>1. gui = "invite" /\ invInit => leaked
  BY DEF IInv, GuiInv
<1> QED
  BY <1>1, OverStep DEF SendInviteStale

(* onStop. *)
LEMMA StopStep ==
  ASSUME IInv, process = "up", Stop
  PROVE  IInv'
<1>1. /\ gui = "idle"
      /\ UNCHANGED <<call, net, dev, plays, reg, invInit, cur, tdata, leaked, found>>
  BY DEF Stop, moduleVars
<1>2. CASE recver = "none"
  <2>1. process' = "undefined" /\ UNCHANGED <<recver, gui>> /\ cur \notin Call
    BY <1>2 DEF Stop, IInv, GuiInv
  <2> QED
    BY <1>1, <2>1, OverStep DEF moduleVars, recverVars
<1>3. CASE recver # "none"
  <2>1. recver' = "destroyed" /\ gui' = "end" /\ UNCHANGED process
    BY <1>3 DEF Stop
  <2>2. CurInv'
    BY <1>1, <2>1 DEF IInv, CurInv, UndefinedNeedsDeadCall, ByePlace
  <2>3. OpenInv' /\ EndInv'
    BY <1>1, <2>1 DEF IInv, OpenInv, EndInv
  <2>4. GuiInv'
    BY <1>1, <2>1 DEF IInv, GuiInv
  <2> QED
    BY <1>1, <2>1, <2>2, <2>3, <2>4, QuietStep DEF IInv, TypeOK, ByePlace
<1> QED
  BY <1>2, <1>3

(* The module is taken out: no session is open any more. *)
LEMMA UnregisterStep ==
  ASSUME IInv, process = "up", Unregister
  PROVE  IInv'
<1>1. /\ gui = "unregister" /\ reg' = FALSE /\ invInit' = FALSE /\ gui' = "idle"
      /\ tdata' = "garbage" /\ found' = "none"
      /\ UNCHANGED <<call, net, dev, plays, cur, recver, leaked, process>>
  BY DEF Unregister, SendByeOnly, recverVars
<1>2. CurInv'
  BY <1>1 DEF IInv, CurInv, UndefinedNeedsDeadCall, ByePlace
<1>3. OpenInv' /\ EndInv'
  BY <1>1 DEF IInv, OpenInv, EndInv
<1>4. GuiInv'
  BY <1>1 DEF IInv, GuiInv
<1> QED
  BY <1>1, <1>2, <1>3, <1>4, QuietStep DEF IInv, TypeOK

(* A dialog that is gone was the last thing its session had. *)
LEMMA DeadIsOver ==
  ASSUME IInv, cur \in Call, Dead
  PROVE  call[cur].inv = "DISCONNECTED"
<1>1. cur <= plays /\ cur \in Nat /\ plays \in Nat
  BY DEF IInv, CurInv, TypeOK, Call
<1>2. call[cur].dlg # "none"
  BY <1>1 DEF IInv, GuiInv
<1>3. Count(call[cur]) /\ ~(call[cur].sess + call[cur].tsxs > 0)
  BY <1>2 DEF IInv, CallInv, Good, Dead
<1>4. call[cur].sess = 0
  BY <1>3 DEF Count, CallRecord
<1> QED
  BY <1>3, <1>4 DEF Count, B

(* The INVITE transaction goes away only with a session that no longer      *)
(* rings.                                                                   *)
LEMMA GoneIsAnswered ==
  ASSUME IInv, ~Dead, ~Unanswered(call[cur])
  PROVE  /\ cur \in Call /\ ~Ringing(call[cur])
         /\ call[cur].inv \in {"CONNECTING", "CONFIRMED", "DISCONNECTED"}
<1>1. cur \in Call /\ call[cur].dlg = "live"
  BY DEF Dead
<1>2. call[cur] \in CallRecord /\ call[cur].inv # "NULL"
  BY <1>1, LiveCall DEF Counted, Count
<1>3. ~Ringing(call[cur])
  BY <1>1 DEF IInv, OpenInv
<1> QED
  BY <1>1, <1>2, <1>3 DEF CallRecord, Ringing

LEMMA UseDeadStep ==
  ASSUME IInv, process = "up", UseDead
  PROVE  IInv'
<1>1. /\ process' = "undefined"
      /\ UNCHANGED <<call, net, dev, plays, moduleVars, cur, tdata, recverVars, gui, found>>
  BY DEF UseDead, End
<1>2. ASSUME cur \in Call
      PROVE  \/ call[cur].inv = "DISCONNECTED"
             \/ found = "ringing" /\ call[cur].inv \in {"CONNECTING", "CONFIRMED"}
  <2>1. CASE Dead
    BY <1>2, <2>1, DeadIsOver
  <2>2. CASE gui \in {"status", "cancel", "timeout"} /\ ~Dead /\ InviteGone
    <3>1. found = "ringing"
      BY <2>2 DEF IInv, CurInv, PlaceInv, ReadPlace, ByePlace
    <3>2. ~Unanswered(call[cur])
      BY <2>2 DEF InviteGone, Pending, Unanswered
    <3> QED
      BY <2>2, <3>1, <3>2, GoneIsAnswered
  <2>3. CASE gui = "send" /\ ~Dead /\ tdata = "garbage"
    <3>1. \/ found = "over" /\ call[cur].inv = "DISCONNECTED"
          \/ found = "ringing" /\ ~Ringing(call[cur])
      BY <2>3 DEF IInv, CurInv, PlaceInv, ByePlace
    <3>2. call[cur] \in CallRecord /\ call[cur].inv # "NULL"
      BY <1>2, <2>3, LiveCall DEF Dead, Counted, Count
    <3> QED
      BY <3>1, <3>2 DEF Ringing, CallRecord
  <2> QED
    BY <2>1, <2>2, <2>3 DEF UseDead
<1> QED
  BY <1>1, <1>2, OverStep

(* A step of the GUI thread on one call. *)
LEMMA WorkStep ==
  ASSUME IInv, NEW c \in Call, NEW u, NEW n \in SUBSET Message,
         call' = [call EXCEPT ![c] = u], net' = [net EXCEPT ![c] = n], dev' = dev,
         Good(u), u.dlg # "none", History(u, n, dev[c]),
         plays' \in 0..MaxCalls, cur' = c, c <= plays',
         reg' \in BOOLEAN, invInit' \in BOOLEAN, UNCHANGED <<recver, leaked, process>>,
         tdata' \in {"garbage", "NULL", "CANCEL", "BYE"},
         gui' \in {"idle", "unregister"} \cup ByePlace,
         found' \in {"none", "ringing", "established", "over"},
         process = "up",
         plays' = plays \/ (plays' = c /\ c = plays + 1),
         recver # "none", gui' = "idle" => recver = "bound"
  PROVE  /\ TypeOK' /\ CallInv' /\ GuiInv'
         /\ call'[c] = u /\ net'[c] = n
         /\ \A d \in Call \ {c} : call'[d] = call[d] /\ net'[d] = net[d]
<1>1. /\ call \in [Call -> CallRecord] /\ net \in [Call -> SUBSET Message]
      /\ u \in CallRecord
  BY DEF IInv, TypeOK, Good
<1>2. /\ call' \in [Call -> CallRecord] /\ net' \in [Call -> SUBSET Message]
      /\ call'[c] = u /\ net'[c] = n
      /\ \A d \in Call \ {c} : call'[d] = call[d] /\ net'[d] = net[d]
  BY <1>1
<1>3. TypeOK'
  BY <1>2 DEF IInv, TypeOK
<1>4. CallInv'
  <2> SUFFICES ASSUME NEW d \in Call
               PROVE  /\ Good(call'[d]) /\ History(call'[d], net'[d], dev[d])
                      /\ call'[d].dlg = "none" =>
                           call'[d] = NoCall /\ net'[d] = {} /\ dev[d] = "idle"
    BY DEF CallInv
  <2>1. CASE d = c
    BY <1>2, <2>1
  <2>2. CASE d # c
    BY <1>2, <2>2 DEF IInv, CallInv
  <2> QED
    BY <2>1, <2>2
<1>5. GuiInv'
  <2>1. \A d \in Call : call'[d].dlg = "none" <=> d > plays'
    <3> SUFFICES ASSUME NEW d \in Call
                 PROVE  call'[d].dlg = "none" <=> d > plays'
      OBVIOUS
    <3>1. d \in Nat /\ c \in Nat /\ plays \in Nat /\ plays' \in Nat
      BY DEF IInv, TypeOK, Call
    <3>2. call[d].dlg = "none" <=> d > plays
      BY DEF IInv, GuiInv
    <3>3. CASE d = c
      BY <1>2, <3>1, <3>3
    <3>4. CASE d # c
      BY <1>2, <3>1, <3>2, <3>4
    <3> QED
      BY <3>3, <3>4
  <2>2. gui' # "invite"
    BY DEF ByePlace
  <2> QED
    BY <2>1, <2>2 DEF GuiInv
<1> QED
  BY <1>2, <1>3, <1>4, <1>5

(* The INVITE, sent or refused by the transport. *)
LEMMA SendInviteOk ==
  ASSUME IInv, process = "up", SendInvite
  PROVE  IInv'
<1> DEFINE c == plays + 1
           r == [NoCall EXCEPT !.dlg = "live", !.inv = "CALLING", !.sess = 1]
           s == StartTsx(r, "invite")
           over == [r EXCEPT !.invite = "terminated"]
<1>1. /\ gui = "invite" /\ ~invInit /\ plays' = c /\ cur' = c /\ reg' = TRUE /\ invInit' = TRUE
      /\ gui' = "idle" /\ UNCHANGED <<dev, tdata, recver, leaked, process, found>>
      /\ \/ call' = [call EXCEPT ![c] = s] /\ net' = [net EXCEPT ![c] = {"INVITE"}]
         \/ call' = [call EXCEPT ![c] = Refused(r, "invite")] /\ net' = net
  BY DEF SendInvite, recverVars
<1>2. /\ c \in Call /\ plays \in 0..MaxCalls /\ c \in 0..MaxCalls /\ c > plays
      /\ recver = "bound" /\ found = "none" /\ tdata = "garbage"
  BY <1>1, BoundAssumption DEF IInv, TypeOK, GuiInv, CurInv, Call
<1>3. call[c] = NoCall /\ net[c] = {} /\ dev[c] = "idle"
  BY <1>2 DEF IInv, GuiInv, CallInv
<1>4. NoCall \in CallRecord
  BY DEF NoCall, CallRecord, TsxState
<1>5. /\ r \in CallRecord /\ r.dlg = "live" /\ r.inv = "CALLING" /\ r.sess = 1 /\ r.tsxs = 0
      /\ r.invite = "none" /\ r.cancel = "none" /\ r.bye = "none" /\ r.peer = "none"
      /\ ~r.pendCancel /\ ~r.armed /\ r.ended = "no"
  <2>1. /\ NoCall.tsxs = 0
        /\ NoCall.invite = "none" /\ NoCall.cancel = "none" /\ NoCall.bye = "none"
        /\ NoCall.peer = "none" /\ ~NoCall.pendCancel /\ ~NoCall.armed /\ NoCall.ended = "no"
    BY DEF NoCall
  <2>2. 1 \in 0..1
    OBVIOUS
  <2>3. r \in CallRecord
    BY <1>4, <2>2 DEF CallRecord
  <2>4. /\ r.dlg = "live" /\ r.inv = "CALLING" /\ r.sess = 1 /\ r.tsxs = NoCall.tsxs
        /\ r.invite = NoCall.invite /\ r.cancel = NoCall.cancel /\ r.bye = NoCall.bye
        /\ r.peer = NoCall.peer /\ r.pendCancel = NoCall.pendCancel
        /\ r.armed = NoCall.armed /\ r.ended = NoCall.ended
    BY <1>4 DEF CallRecord
  <2> QED
    BY <2>1, <2>3, <2>4
<1> HIDE DEF r
<1>6. Counted(r)
  <2>1. Sum(r) = 0
    BY <1>5 DEF Sum, B, Pending
  <2> QED
    BY <1>5, <2>1 DEF Counted, Count, B
<1>7. EndInv /\ \A d \in Call : call[d].ended # "no" => call[d].inv = "DISCONNECTED"
  BY <1>1 DEF IInv, EndInv
<1>11. \A d \in Call : call[d].inv \in {"NULL", "DISCONNECTED"}
  BY <1>1 DEF IInv, OpenInv
<1>8. ASSUME NEW u, NEW n \in SUBSET Message,
             call' = [call EXCEPT ![c] = u], net' = [net EXCEPT ![c] = n],
             Good(u), u.dlg # "none", u.ended = "no", History(u, n, "idle"),
             Ringing(u) => Unanswered(u)
      PROVE  IInv'
  <2> HIDE DEF c
  <2>1. /\ TypeOK' /\ CallInv' /\ GuiInv'
        /\ call'[c] = u /\ \A d \in Call \ {c} : call'[d] = call[d] /\ net'[d] = net[d]
    <3>1. /\ reg' \in BOOLEAN /\ invInit' \in BOOLEAN /\ dev' = dev
          /\ UNCHANGED <<recver, leaked, process>> /\ found' = "none"
          /\ plays' \in 0..MaxCalls /\ cur' = c /\ c <= plays'
          /\ tdata' \in {"garbage", "NULL", "CANCEL", "BYE"} /\ gui' = "idle"
      BY <1>1, <1>2 DEF IInv, TypeOK
    <3>2. plays' = c /\ c = plays + 1
      BY <1>1 DEF c
    <3> QED
      BY <1>2, <1>3, <1>8, <3>1, <3>2, WorkStep
  <2>2. EndInv'
    BY <1>1, <1>7, <1>8, <2>1 DEF EndInv
  <2>3. CurInv'
    <3>1. cur' <= plays'
      BY <1>1, <1>2
    <3>2. UndefinedNeedsDeadCall'
      BY <1>1 DEF UndefinedNeedsDeadCall
    <3> QED
      BY <1>1, <1>2, <3>1, <3>2 DEF CurInv, ByePlace
  <2>4. OpenInv'
    <3> SUFFICES ASSUME NEW d \in Call
                 PROVE  /\ call'[d].inv \notin {"NULL", "DISCONNECTED"} => d = c
                        /\ Ringing(call'[d]) => Unanswered(call'[d])
      BY <1>1 DEF OpenInv
    <3>1. CASE d = c
      BY <1>8, <2>1, <3>1
    <3>2. CASE d # c
      BY <1>11, <2>1, <3>2 DEF Ringing
    <3> QED
      BY <3>1, <3>2
  <2> QED
    BY <2>1, <2>2, <2>3, <2>4 DEF IInv
<1>9. CASE call' = [call EXCEPT ![c] = s] /\ net' = [net EXCEPT ![c] = {"INVITE"}]
  <2>1. Counted(s)
    BY <1>5, <1>6, StartCounted DEF Pending
  <2>2. /\ s.dlg = "live" /\ s.inv = "CALLING" /\ s.sess = 1 /\ s.tsxs = 1
        /\ s.cancel = "none" /\ s.bye = "none" /\ s.peer = "none"
        /\ ~s.pendCancel /\ ~s.armed /\ s.ended = "no" /\ s.invite = "calling"
    BY <1>5 DEF StartTsx, CallRecord
  <2> HIDE DEF s
  <2>3. Good(s)
    BY <2>1, <2>2 DEF Good, Counted, Count
  <2>4. History(s, {"INVITE"}, "idle")
    BY <2>2 DEF History
  <2> QED
    BY <1>8, <1>9, <2>2, <2>3, <2>4 DEF Message, Unanswered
<1>10. CASE call' = [call EXCEPT ![c] = Refused(r, "invite")] /\ net' = net
  <2> DEFINE d == Disconnect(over)
             u == Unlock(d)
  <2>1. Refused(r, "invite") = u
    BY <1>5 DEF Refused
  <2>2. Counted(d)
    BY <1>5, <1>6, RefusedCounted DEF Pending
  <2>3. /\ over \in CallRecord /\ over.inv = "CALLING" /\ over.sess = 1 /\ over.tsxs = 0
        /\ over.cancel = "none" /\ over.bye = "none" /\ over.peer = "none"
        /\ ~over.pendCancel /\ ~over.armed /\ over.ended = "no"
    BY <1>5 DEF CallRecord, TsxState
  <2> HIDE DEF over
  <2>4. /\ d.sess = 0 /\ d.tsxs = 0 /\ d.inv = "DISCONNECTED" /\ d \in CallRecord
        /\ d.cancel = "none" /\ d.bye = "none" /\ d.peer = "none"
        /\ ~d.pendCancel /\ ~d.armed /\ d.ended = "no"
    BY <2>2, <2>3, DisconnectFields DEF Counted, Count
  <2> HIDE DEF d
  <2>5. u.dlg = "dead" /\ u.ended = "no" /\ u.inv = "DISCONNECTED"
    BY <2>4, UnlockRest
  <2>6. Good(u)
    BY <2>2, UnlockGood
  <2>7. History(u, {}, "idle")
    BY <2>4, UnlockHistory
  <2>8. net' = [net EXCEPT ![c] = {}]
    BY <1>2, <1>3, <1>10 DEF IInv, TypeOK
  <2> HIDE DEF u
  <2> QED
    BY <1>8, <1>10, <2>1, <2>5, <2>6, <2>7, <2>8 DEF Ringing
<1> QED
  BY <1>1, <1>9, <1>10

(* The call that sendBye works on. *)
LEMMA CurCall ==
  ASSUME IInv, process = "up", ~Dead
  PROVE  /\ cur \in Call /\ cur <= plays /\ plays \in 0..MaxCalls /\ call[cur].dlg = "live"
         /\ Counted(call[cur]) /\ call[cur] \in CallRecord
         /\ History(call[cur], net[cur], dev[cur]) /\ net[cur] \in SUBSET Message
         /\ call \in [Call -> CallRecord] /\ net \in [Call -> SUBSET Message]
<1>1. cur \in Call /\ call[cur].dlg = "live"
  BY DEF Dead
<1> QED
  BY <1>1, LiveCall DEF IInv, CurInv, TypeOK

(* A step of sendBye on its call, with what it leaves for the next one.     *)
LEMMA ByeStep ==
  ASSUME IInv, process = "up", ~Dead, gui \in ByePlace,
         NEW u, NEW n \in SUBSET Message,
         call' = [call EXCEPT ![cur] = u], net' = [net EXCEPT ![cur] = n],
         UNCHANGED <<moduleVars, process>>, SendByeOnly,
         tdata' \in {"garbage", "NULL", "CANCEL", "BYE"},
         found' \in {"none", "ringing", "established", "over"},
         gui' \in {"unregister"} \cup (ByePlace \ {"end"}),
         Good(u), u.dlg # "none", History(u, n, dev[cur]),
         gui' # "unregister" => PlaceInv(u, gui', tdata', found'),
         gui' = "unregister" => u.inv = "DISCONNECTED",
         u.inv = call[cur].inv \/ u.inv = "DISCONNECTED",
         u.inv = "DISCONNECTED" \/ u.invite = call[cur].invite,
         u.ended # "no" => u.inv = "DISCONNECTED" \/ gui' \in {"send", "terminate"},
         u.ended = "BYE" => "BYE" \in n \/ (gui' = "send" /\ tdata' = "BYE")
  PROVE  IInv'
<1>1. /\ cur \in Call /\ cur <= plays /\ plays \in 0..MaxCalls
  BY CurCall
<1>2. /\ dev' = dev /\ plays' = plays /\ cur' = cur /\ UNCHANGED <<recver, leaked>>
      /\ reg' \in BOOLEAN /\ invInit' \in BOOLEAN /\ process' = process
      /\ UNCHANGED <<reg, invInit>> /\ gui' \notin {"idle", "invite", "end"}
  BY DEF SendByeOnly, moduleVars, recverVars, ByePlace, IInv, TypeOK
<1>3. /\ TypeOK' /\ CallInv' /\ GuiInv'
      /\ call'[cur] = u /\ net'[cur] = n
      /\ \A d \in Call \ {cur} : call'[d] = call[d] /\ net'[d] = net[d]
  <2>1. plays' \in 0..MaxCalls /\ cur <= plays' /\ gui' # "idle"
    BY <1>1, <1>2
  <2>2. recver # "none"
    BY <1>1 DEF IInv, GuiInv
  <2>3. gui' \in {"idle", "unregister"} \cup ByePlace
    OBVIOUS
  <2> QED
    BY <1>1, <1>2, <2>1, <2>2, <2>3, WorkStep
<1>4. CurInv'
  <2>1. UndefinedNeedsDeadCall'
    BY <1>2 DEF UndefinedNeedsDeadCall
  <2>2. gui' # "unregister" => PlaceInv(call'[cur'], gui', tdata', found')
    BY <1>2, <1>3
  <2>3. gui' \in ByePlace \ {"end"} => gui' # "unregister"
    BY DEF ByePlace
  <2> QED
    BY <1>1, <1>2, <2>1, <2>2, <2>3 DEF CurInv
<1>5. EndInv'
  <2> SUFFICES ASSUME NEW d \in Call
               PROVE  /\ call'[d].ended # "no" =>
                           call'[d].inv = "DISCONNECTED" \/ (d = cur /\ gui' \in {"send", "terminate"})
                      /\ call'[d].ended = "BYE" =>
                           "BYE" \in net'[d] \/ (d = cur /\ gui' = "send" /\ tdata' = "BYE")
    BY <1>2 DEF EndInv
  <2>1. CASE d = cur
    BY <1>3, <2>1
  <2>2. CASE d # cur
    BY <1>3, <2>2 DEF IInv, EndInv
  <2> QED
    BY <2>1, <2>2
<1>6. OpenInv'
  <2> SUFFICES ASSUME NEW d \in Call
               PROVE  /\ call'[d].inv \notin {"NULL", "DISCONNECTED"} =>
                           reg /\ invInit /\ d = cur /\ gui' # "unregister"
                      /\ Ringing(call'[d]) => Unanswered(call'[d])
    BY <1>2 DEF OpenInv
  <2>1. CASE d = cur
    <3>1. /\ u.inv \notin {"NULL", "DISCONNECTED"} => reg /\ invInit /\ gui' # "unregister"
          /\ Ringing(u) => Unanswered(u)
      BY <1>1 DEF IInv, OpenInv, Ringing, Unanswered
    <3> QED
      BY <1>3, <2>1, <3>1
  <2>2. CASE d # cur
    BY <1>3, <2>2 DEF IInv, OpenInv
  <2> QED
    BY <2>1, <2>2
<1> QED
  BY <1>3, <1>4, <1>5, <1>6 DEF IInv

(* A step of sendBye that only reads its call. *)
LEMMA ReadStep ==
  ASSUME IInv, process = "up", ~Dead, gui \in ByePlace,
         UNCHANGED <<call, net, moduleVars, process>>, SendByeOnly,
         tdata' \in {"garbage", "NULL", "CANCEL", "BYE"},
         found' \in {"none", "ringing", "established", "over"},
         gui' \in ByePlace \ {"end"},
         PlaceInv(call[cur], gui', tdata', found'),
         call[cur].ended # "no" =>
           call[cur].inv = "DISCONNECTED" \/ gui' \in {"send", "terminate"},
         call[cur].ended = "BYE" => "BYE" \in net[cur] \/ (gui' = "send" /\ tdata' = "BYE")
  PROVE  IInv'
<1>1. /\ cur \in Call /\ call[cur].dlg = "live" /\ History(call[cur], net[cur], dev[cur])
      /\ net[cur] \in SUBSET Message
      /\ call \in [Call -> CallRecord] /\ net \in [Call -> SUBSET Message]
  BY CurCall
<1>2. call' = [call EXCEPT ![cur] = call[cur]] /\ net' = [net EXCEPT ![cur] = net[cur]]
  BY <1>1
<1>3. Good(call[cur])
  BY <1>1 DEF IInv, CallInv
<1>4. gui' \in {"unregister"} \cup (ByePlace \ {"end"}) /\ gui' # "unregister"
  BY DEF ByePlace
<1> QED
  BY <1>1, <1>2, <1>3, <1>4, ByeStep

(* The call while pjsip_inv_end_session reads it. *)
LEMMA Reading ==
  ASSUME IInv, gui \in ReadPlace
  PROVE  /\ found = "ringing" /\ tdata = "garbage" /\ cur \in Call
         /\ call[cur].ended = "no" /\ Held(call[cur]) /\ gui \in ByePlace
BY DEF IInv, CurInv, PlaceInv, ReadPlace, ByePlace

(* The state is read: a session that nobody has begun to end is established *)
(* and gets its BYE, or rings; or it is over.                               *)
LEMMA EndSessionOk ==
  ASSUME IInv, process = "up", EndSession
  PROVE  IInv'
<1> DEFINE r == call[cur]
           n == net[cur]
           u == [r EXCEPT !.ended = "BYE"]
<1>1. /\ gui = "end" /\ ~Dead /\ found' = Found(r) /\ gui \in ByePlace
      /\ net' = net /\ UNCHANGED <<moduleVars, process>> /\ SendByeOnly
  BY DEF EndSession, ByePlace
<1>2. /\ cur \in Call /\ r.dlg = "live" /\ Counted(r) /\ r \in CallRecord
      /\ History(r, n, dev[cur]) /\ n \in SUBSET Message
      /\ net \in [Call -> SUBSET Message]
  BY <1>1, CurCall
<1>3. tdata = "garbage"
  BY <1>1 DEF IInv, CurInv
<1>4. r.inv # "DISCONNECTED" => r.ended = "no"
  BY <1>1, <1>2 DEF IInv, EndInv
<1>5. r.ended = "BYE" => "BYE" \in n
  BY <1>1, <1>2 DEF IInv, EndInv
<1>6. CASE Ringing(r)
  <2>1. found' = "ringing" /\ gui' = "ringing" /\ tdata' = "garbage" /\ call' = call
    BY <1>1, <1>3, <1>6 DEF EndSession, Found, Ringing
  <2>2. Held(r) /\ r.ended = "no"
    BY <1>4, <1>6 DEF Held, Ringing
  <2>3. PlaceInv(r, gui', tdata', found')
    BY <2>1, <2>2 DEF PlaceInv, ReadPlace
  <2> QED
    BY <1>1, <2>1, <2>2, <2>3, ReadStep DEF ByePlace
<1>7. CASE r.inv = "DISCONNECTED"
  <2>1. found' = "over" /\ gui' = "send" /\ tdata' = "garbage" /\ call' = call
    BY <1>1, <1>3, <1>7 DEF EndSession, Found
  <2>2. PlaceInv(r, gui', tdata', found')
    BY <1>7, <2>1 DEF PlaceInv, ReadPlace
  <2> QED
    BY <1>1, <1>5, <2>1, <2>2, ReadStep DEF ByePlace
<1>8. CASE r.inv \in {"CONNECTING", "CONFIRMED"}
  <2>1. found' = "established" /\ gui' = "send" /\ tdata' = "BYE"
        /\ call' = [call EXCEPT ![cur] = u]
    BY <1>1, <1>8 DEF EndSession, Found
  <2>2. /\ u \in CallRecord
        /\ u.dlg = r.dlg /\ u.inv = r.inv /\ u.sess = r.sess /\ u.tsxs = r.tsxs
        /\ \A k \in Kind : u[k] = r[k]
        /\ u.ended = "BYE" /\ u.pendCancel = r.pendCancel /\ u.armed = r.armed
    BY <1>2 DEF CallRecord, Kind
  <2> HIDE DEF u
  <2>3. /\ u.invite = r.invite /\ u.cancel = r.cancel /\ u.bye = r.bye /\ u.peer = r.peer
    BY <2>2 DEF Kind
  <2>4. r.ended = "no" /\ r.bye = "none" /\ ~r.pendCancel
    BY <1>2, <1>4, <1>8 DEF History
  <2>5. Good(u)
    <3>1. Counted(u)
      BY <1>2, <2>2, SameCounted DEF Counted, Count
    <3>2. r.sess + r.tsxs > 0
      BY <1>2 DEF IInv, CallInv, Good
    <3> QED
      BY <1>2, <2>2, <3>1, <3>2 DEF Good, Counted
  <2> HIDE DEF r, n
  <2>6. History(u, n, dev[cur])
    BY <1>2, <1>8, <2>2, <2>3, <2>4 DEF History
  <2>7. PlaceInv(u, gui', tdata', found')
    BY <1>8, <2>1, <2>2, <2>3, <2>4 DEF PlaceInv, ReadPlace, Held
  <2>8. net' = [net EXCEPT ![cur] = n]
    BY <1>1, <1>2 DEF n
  <2>9. /\ gui' \in {"unregister"} \cup (ByePlace \ {"end"})
        /\ found' \in {"none", "ringing", "established", "over"}
        /\ tdata' \in {"garbage", "NULL", "CANCEL", "BYE"} /\ u.dlg # "none"
    BY <1>2, <2>1, <2>2 DEF ByePlace
  <2> QED
    BY <1>1, <1>2, <2>1, <2>2, <2>3, <2>5, <2>6, <2>7, <2>8, <2>9, ByeStep DEF r
<1> QED
  BY <1>2, <1>6, <1>7, <1>8 DEF Ringing, Counted, Count, CallRecord

(* The INVITE transaction is read: gone, it leaves no message.              *)
LEMMA CheckInviteStep ==
  ASSUME IInv, process = "up", CheckInvite
  PROVE  IInv'
<1>1. /\ gui = "ringing" /\ ~Dead
      /\ UNCHANGED <<call, net, moduleVars, tdata, found>> /\ SendByeOnly
  BY DEF CheckInvite
<1>2. /\ found = "ringing" /\ tdata = "garbage" /\ cur \in Call
      /\ call[cur].ended = "no" /\ Held(call[cur]) /\ gui \in ByePlace
  BY <1>1, Reading DEF ReadPlace
<1>3. CASE process' = "abort" /\ UNCHANGED gui
  BY <1>1, <1>3, OverStep DEF SendByeOnly
<1>4. CASE gui' = (IF InviteGone THEN "send" ELSE "status") /\ UNCHANGED process
  <2>1. InviteGone => ~Ringing(call[cur])
    BY <1>1, GoneIsAnswered DEF InviteGone, Pending, Unanswered
  <2>2. PlaceInv(call[cur], gui', tdata', found')
    BY <1>1, <1>2, <1>4, <2>1 DEF PlaceInv, ReadPlace
  <2>3. gui' \in ByePlace \ {"end"}
    BY <1>4 DEF ByePlace
  <2> QED
    BY <1>1, <1>2, <1>4, <2>2, <2>3, ReadStep
<1> QED
  BY <1>3, <1>4 DEF CheckInvite

LEMMA ReadStatusStep ==
  ASSUME IInv, process = "up", ReadStatus
  PROVE  IInv'
<1>1. /\ gui = "status" /\ ~Dead /\ gui' \in {"delay", "cancel"}
      /\ UNCHANGED <<call, net, moduleVars, tdata, process, found>> /\ SendByeOnly
  BY DEF ReadStatus
<1>2. /\ found = "ringing" /\ tdata = "garbage" /\ cur \in Call
      /\ call[cur].ended = "no" /\ Held(call[cur]) /\ gui \in ByePlace
  BY <1>1, Reading DEF ReadPlace
<1>3. PlaceInv(call[cur], gui', tdata', found')
  BY <1>1, <1>2 DEF PlaceInv, ReadPlace
<1>4. gui' \in ByePlace \ {"end"}
  BY <1>1 DEF ByePlace
<1> QED
  BY <1>1, <1>2, <1>3, <1>4, ReadStep

(* After a failure response the last message is the ACK: there is no CANCEL. *)
LEMMA CreateCancelStep ==
  ASSUME IInv, process = "up", CreateCancel
  PROVE  IInv'
<1> DEFINE acked == call[cur].invite = "completed"
<1>1. /\ gui = "cancel" /\ ~Dead
      /\ UNCHANGED <<call, net, moduleVars, tdata, found>> /\ SendByeOnly
  BY DEF CreateCancel
<1>2. /\ found = "ringing" /\ tdata = "garbage" /\ cur \in Call
      /\ call[cur].ended = "no" /\ Held(call[cur]) /\ gui \in ByePlace
  BY <1>1, Reading DEF ReadPlace
<1>3. CASE process' = "abort" /\ UNCHANGED gui
  BY <1>1, <1>3, OverStep DEF SendByeOnly
<1>4. CASE gui' = (IF acked THEN "send" ELSE "timeout") /\ UNCHANGED process
  <2>1. acked => ~Ringing(call[cur])
    BY <1>1, GoneIsAnswered DEF Unanswered
  <2>2. PlaceInv(call[cur], gui', tdata', found')
    BY <1>1, <1>2, <1>4, <2>1 DEF PlaceInv, ReadPlace
  <2>3. gui' \in ByePlace \ {"end"}
    BY <1>4 DEF ByePlace
  <2> QED
    BY <1>1, <1>2, <1>4, <2>2, <2>3, ReadStep
<1> QED
  BY <1>3, <1>4 DEF CreateCancel

(* A request is left to be sent, now or when a response comes: the call has *)
(* begun to end.                                                            *)
LEMMA BeginEnd ==
  ASSUME IInv, process = "up", ~Dead, gui \in ReadPlace,
         NEW q \in {"NULL", "CANCEL"}, NEW b \in BOOLEAN,
         call' = [call EXCEPT ![cur] = [@ EXCEPT !.ended = q, !.armed = b,
                                                 !.pendCancel = (q = "NULL")]],
         tdata' = q, gui' = "send", UNCHANGED <<net, moduleVars, process, found>>, SendByeOnly
  PROVE  IInv'
<1> DEFINE r == call[cur]
           n == net[cur]
           u == [r EXCEPT !.ended = q, !.armed = b, !.pendCancel = (q = "NULL")]
<1>1. /\ found = "ringing" /\ r.ended = "no" /\ Held(r) /\ gui \in ByePlace
  BY Reading
<1>2. /\ cur \in Call /\ r.dlg = "live" /\ Counted(r) /\ r \in CallRecord
      /\ History(r, n, dev[cur]) /\ n \in SUBSET Message
      /\ call \in [Call -> CallRecord] /\ net \in [Call -> SUBSET Message]
  BY CurCall
<1>3. call' = [call EXCEPT ![cur] = u]
  BY <1>2
<1>4. /\ u \in CallRecord
      /\ u.dlg = r.dlg /\ u.inv = r.inv /\ u.sess = r.sess /\ u.tsxs = r.tsxs
      /\ \A k \in Kind : u[k] = r[k]
      /\ u.ended = q /\ (u.pendCancel <=> q = "NULL")
  BY <1>2 DEF CallRecord, Kind
<1> HIDE DEF u
<1>5. /\ u.invite = r.invite /\ u.cancel = r.cancel /\ u.bye = r.bye /\ u.peer = r.peer
  BY <1>4 DEF Kind
<1>6. r.cancel = "none" /\ r.bye = "none"
  BY <1>1, <1>2 DEF History
<1>7. Good(u)
  <2>1. Counted(u)
    BY <1>2, <1>4, SameCounted DEF Counted, Count
  <2>2. r.sess + r.tsxs > 0
    BY <1>2 DEF IInv, CallInv, Good
  <2> QED
    BY <1>2, <1>4, <2>1, <2>2 DEF Good, Counted
<1> HIDE DEF r, n
<1>8. History(u, n, dev[cur])
  BY <1>2, <1>4, <1>5, <1>6 DEF History
<1>9. Held(u)
  BY <1>1, <1>4 DEF Held
<1>10. PlaceInv(u, gui', tdata', found')
  BY <1>1, <1>4, <1>5, <1>6, <1>9 DEF PlaceInv, ReadPlace
<1>11. net' = [net EXCEPT ![cur] = n]
  BY <1>2 DEF n
<1>12. /\ gui' \in {"unregister"} \cup (ByePlace \ {"end"})
       /\ found' \in {"none", "ringing", "established", "over"}
       /\ tdata' \in {"garbage", "NULL", "CANCEL", "BYE"} /\ u.dlg # "none"
  BY <1>1, <1>2, <1>4 DEF ByePlace
<1> QED
  BY <1>1, <1>2, <1>3, <1>4, <1>5, <1>7, <1>8, <1>10, <1>11, <1>12, ByeStep DEF r

LEMMA DelayCancelStep ==
  ASSUME IInv, process = "up", DelayCancel
  PROVE  IInv'
<1>1. /\ gui \in ReadPlace /\ ~Dead /\ tdata' = "NULL" /\ gui' = "send"
      /\ call' = [call EXCEPT ![cur].pendCancel = TRUE, ![cur].ended = "NULL"]
      /\ UNCHANGED <<net, moduleVars, process, found>> /\ SendByeOnly
  BY DEF DelayCancel, ReadPlace
<1>2. /\ cur \in Call /\ call[cur] \in CallRecord /\ call \in [Call -> CallRecord]
  BY <1>1, CurCall
<1>3. call' = [call EXCEPT ![cur] = [@ EXCEPT !.ended = "NULL", !.armed = call[cur].armed,
                                              !.pendCancel = ("NULL" = "NULL")]]
  BY <1>1, <1>2 DEF CallRecord
<1>4. call[cur].armed \in BOOLEAN
  BY <1>2 DEF CallRecord
<1> QED
  BY <1>1, <1>3, <1>4, BeginEnd

LEMMA SetTimeoutStep ==
  ASSUME IInv, process = "up", SetTimeout
  PROVE  IInv'
<1>1. /\ gui \in ReadPlace /\ ~Dead /\ UNCHANGED <<net, moduleVars, found>> /\ SendByeOnly
  BY DEF SetTimeout, ReadPlace
<1>2. CASE /\ tdata' = "CANCEL" /\ gui' = "send" /\ UNCHANGED process
           /\ call' = [call EXCEPT ![cur].armed = @ \/ ~InviteGone, ![cur].ended = "CANCEL"]
  <2> DEFINE b == call[cur].armed \/ ~InviteGone
  <2>1. /\ cur \in Call /\ call[cur] \in CallRecord /\ call \in [Call -> CallRecord]
        /\ History(call[cur], net[cur], dev[cur])
    BY <1>1, CurCall
  <2>2. call[cur].ended = "no"
    BY <1>1, Reading
  <2>3. call[cur].pendCancel = FALSE
    BY <2>1, <2>2 DEF History, CallRecord
  <2>4. call' = [call EXCEPT ![cur] = [@ EXCEPT !.ended = "CANCEL", !.armed = b,
                                                !.pendCancel = ("CANCEL" = "NULL")]]
    BY <1>2, <2>1, <2>3 DEF CallRecord
  <2>5. b \in BOOLEAN
    BY <2>1 DEF CallRecord, InviteGone, Pending
  <2> HIDE DEF b
  <2> QED
    BY <1>1, <1>2, <2>4, <2>5, BeginEnd
<1>3. CASE process' = "abort" /\ UNCHANGED <<call, gui, tdata>>
  BY <1>1, <1>3, OverStep DEF SendByeOnly
<1> QED
  BY <1>2, <1>3 DEF SetTimeout

(* A message that is NULL. *)
LEMMA SendNullStep ==
  ASSUME IInv, process = "up", SendNull
  PROVE  IInv'
<1>1. /\ gui = "send" /\ ~Dead /\ tdata = "NULL"
      /\ UNCHANGED <<call, net, moduleVars, tdata, found>> /\ SendByeOnly
  BY DEF SendNull
<1>2. CASE process' = "abort" /\ UNCHANGED gui
  BY <1>1, <1>2, OverStep DEF SendByeOnly
<1>3. CASE gui' = "terminate" /\ UNCHANGED process
  <2>1. gui \in ByePlace /\ cur \in Call /\ PlaceInv(call[cur], "send", "NULL", found)
    BY <1>1 DEF IInv, CurInv, ByePlace
  <2>2. PlaceInv(call[cur], gui', tdata', found') /\ call[cur].ended # "BYE"
    BY <1>1, <1>3, <2>1 DEF PlaceInv, ReadPlace
  <2>3. /\ gui' \in ByePlace \ {"end"} /\ gui' \in {"send", "terminate"}
        /\ found' \in {"none", "ringing", "established", "over"}
        /\ tdata' \in {"garbage", "NULL", "CANCEL", "BYE"}
    BY <1>1, <1>3 DEF ByePlace, IInv, TypeOK
  <2> QED
    BY <1>1, <1>3, <2>1, <2>2, <2>3, ReadStep
<1> QED
  BY <1>2, <1>3 DEF SendNull

(* pjsip_inv_send_msg: the request is sent, or refused by the transport.    *)
LEMMA SendMsgStep ==
  ASSUME IInv, process = "up", SendMsg
  PROVE  IInv'
<1> DEFINE r == call[cur]
           n == net[cur]
           k == IF tdata = "BYE" THEN "bye" ELSE "cancel"
           s == StartTsx(r, k)
           e == [r EXCEPT !.ended = "unsent"]
<1>1. /\ gui = "send" /\ ~Dead /\ tdata \in {"CANCEL", "BYE"} /\ gui' = "terminate"
      /\ UNCHANGED <<moduleVars, tdata, process, found>> /\ SendByeOnly /\ gui \in ByePlace
      /\ \/ /\ call' = [call EXCEPT ![cur] = s]
            /\ net' = [net EXCEPT ![cur] = n \cup {tdata}]
         \/ call' = [call EXCEPT ![cur] = Refused(e, k)] /\ net' = net
  BY DEF SendMsg, ByePlace
<1>2. /\ cur \in Call /\ r.dlg = "live" /\ Counted(r) /\ r \in CallRecord
      /\ History(r, n, dev[cur]) /\ n \in SUBSET Message
      /\ net \in [Call -> SUBSET Message]
  BY <1>1, CurCall
<1>3. /\ r.ended = tdata /\ k \in {"cancel", "bye"} /\ r[k] = "none"
      /\ ~Pending(r[k]) /\ Held(r) /\ ~r.pendCancel /\ found \in {"ringing", "established"}
  <2>1. PlaceInv(r, "send", tdata, found)
    BY <1>1 DEF IInv, CurInv, ByePlace
  <2>2. r.ended = tdata /\ r[k] = "none" /\ found \in {"ringing", "established"}
    BY <1>1, <2>1 DEF PlaceInv
  <2>3. Held(r)
    BY <1>1, <2>1, <2>2 DEF PlaceInv
  <2>4. ~r.pendCancel
    BY <1>1, <1>2, <2>2 DEF History
  <2> QED
    BY <2>2, <2>3, <2>4 DEF Pending
<1>4. /\ \A m \in {"4xx", "peer BYE", "BYE-final"} : m \in n => dev[cur] = "ended"
      /\ r.peer # "none" => "peer BYE" \in n
      /\ "ACK" \in n => r.invite = "terminated"
      /\ dev[cur] = "streaming" => "ACK" \in n
  BY <1>2 DEF History
<1>5. /\ tdata' \in {"garbage", "NULL", "CANCEL", "BYE"}
      /\ found' \in {"none", "ringing", "established", "over"}
      /\ gui' \in {"unregister"} \cup (ByePlace \ {"end"}) /\ gui' # "unregister"
  BY <1>1, <1>3 DEF ByePlace
<1> HIDE DEF n
<1>6. CASE call' = [call EXCEPT ![cur] = s] /\ net' = [net EXCEPT ![cur] = n \cup {tdata}]
  <2>1. Counted(s)
    BY <1>2, <1>3, StartCounted
  <2>2. /\ s.dlg = "live" /\ s.inv = r.inv /\ s.tsxs = r.tsxs + 1 /\ s.sess = r.sess
        /\ s[k] = "calling" /\ (\A l \in Kind \ {k} : s[l] = r[l])
        /\ ~s.pendCancel /\ s.ended = tdata
    BY <1>2, <1>3 DEF StartTsx, CallRecord, Kind
  <2> HIDE DEF s, r, k
  <2>3. s.sess + s.tsxs > 0
    BY <1>2, <2>2 DEF CallRecord
  <2>4. Good(s)
    BY <2>1, <2>2, <2>3 DEF Good, Counted, Count
  <2>5. Held(s)
    BY <1>3, <2>2 DEF Held
  <2>6. s.invite = r.invite /\ s.peer = r.peer
    BY <1>3, <2>2 DEF Kind
  <2>7. \A m \in {"4xx", "peer BYE", "BYE-final", "ACK"} : m \in n \cup {tdata} <=> m \in n
    BY <1>1
  <2>8. History(s, n \cup {tdata}, dev[cur])
    BY <1>1, <1>4, <2>2, <2>6, <2>7 DEF History
  <2>9. n \cup {tdata} \in SUBSET Message
    BY <1>1, <1>2 DEF Message
  <2>10. s.ended = "BYE" => "BYE" \in n \cup {tdata}
    BY <2>2
  <2>11. s.ended # "no" /\ s.dlg # "none"
    BY <1>1, <2>2
  <2>12. PlaceInv(s, gui', tdata', found')
    BY <1>1, <1>3, <2>5, <2>11 DEF PlaceInv, ReadPlace
  <2> QED
    BY <1>1, <1>5, <1>6, <2>2, <2>4, <2>6, <2>8, <2>9, <2>10, <2>11, <2>12, ByeStep DEF r
<1>7. CASE call' = [call EXCEPT ![cur] = Refused(e, k)] /\ net' = net
  <2> DEFINE over == [e EXCEPT ![k] = "terminated"]
  <2>1. e \in CallRecord
    BY <1>2 DEF CallRecord
  <2>2. /\ e.dlg = "live" /\ e.inv = r.inv /\ e.tsxs = r.tsxs /\ e.sess = r.sess
        /\ (\A l \in Kind : e[l] = r[l]) /\ ~e.pendCancel /\ e.ended = "unsent"
    BY <1>2, <1>3 DEF CallRecord, Kind
  <2> HIDE DEF e
  <2>3. Counted(e)
    BY <1>2, <2>1, <2>2, SameCounted DEF Counted, Count
  <2>4. ~Pending(e[k])
    BY <1>3, <2>2 DEF Kind
  <2> HIDE DEF k, r
  <2>5. Counted(over) /\ Counted(Disconnect(over)) /\ over \in CallRecord
    <3>1. k \in {"invite", "cancel", "bye"}
      BY <1>3
    <3>2. Counted(over) /\ Counted(Disconnect(over))
      BY <2>3, <2>4, <3>1, RefusedCounted
    <3> QED
      BY <3>2 DEF Counted, Count
  <2>6. /\ \A l \in Kind \ {k} : over[l] = r[l]
        /\ ~over.pendCancel /\ over.ended = "unsent" /\ over.inv = r.inv
    BY <1>3, <2>1, <2>2 DEF CallRecord, Kind
  <2> HIDE DEF over
  <2>7. over.invite = r.invite /\ over.peer = r.peer
    BY <1>3, <2>6 DEF Kind
  <2>8. PICK v \in {over, Disconnect(over)} : Refused(e, k) = Unlock(v)
    BY DEF Refused, over
  <2>9. /\ Counted(v) /\ v \in CallRecord /\ v.invite = r.invite /\ v.peer = r.peer
        /\ ~v.pendCancel /\ v.ended = "unsent" /\ (v.inv = r.inv \/ v.inv = "DISCONNECTED")
    <3>1. Disconnect(over) \in CallRecord
      BY <2>5 DEF Counted, Count
    <3> QED
      BY <2>5, <2>6, <2>7, <2>8, <3>1, DisconnectFields
  <2> DEFINE w == Unlock(v)
  <2>10. Good(w)
    BY <2>9, UnlockGood
  <2>11. /\ w.dlg # "none" /\ w.invite = r.invite /\ w.peer = r.peer
         /\ ~w.pendCancel /\ w.ended = "unsent" /\ (w.inv = r.inv \/ w.inv = "DISCONNECTED")
    BY <2>9, UnlockRest DEF Counted
  <2> HIDE DEF w
  <2>12. History(w, n, dev[cur])
    BY <1>4, <2>11 DEF History
  <2>13. net' = [net EXCEPT ![cur] = n]
    BY <1>2, <1>7 DEF n
  <2>14. call' = [call EXCEPT ![cur] = w]
    BY <1>7, <2>8 DEF w
  <2>15. PlaceInv(w, gui', tdata', found')
    BY <1>1, <1>3, <2>11 DEF PlaceInv, ReadPlace
  <2> QED
    BY <1>1, <1>2, <1>5, <2>10, <2>11, <2>12, <2>13, <2>14, <2>15, ByeStep DEF r
<1> QED
  BY <1>1, <1>6, <1>7

(* pjsip_inv_terminate. *)
LEMMA TerminateStep ==
  ASSUME IInv, process = "up", Terminate
  PROVE  IInv'
<1> DEFINE r == call[cur]
           n == net[cur]
           e == IF Pending(r.invite) THEN EndTsx(r, "invite") ELSE r
           d == Disconnect(e)
           u == Unlock(d)
<1>1. /\ gui = "terminate" /\ ~Dead /\ gui' = "unregister"
      /\ call' = [call EXCEPT ![cur] = u] /\ net' = net /\ gui \in ByePlace
      /\ UNCHANGED <<moduleVars, tdata, process, found>> /\ SendByeOnly
  BY DEF Terminate, ByePlace
<1>2. /\ cur \in Call /\ r.dlg = "live" /\ Counted(r) /\ r \in CallRecord
      /\ History(r, n, dev[cur]) /\ n \in SUBSET Message
      /\ net \in [Call -> SUBSET Message]
  BY <1>1, CurCall
<1>3. r.ended # "no" /\ (r.ended = "BYE" => "BYE" \in n)
  <2>1. PlaceInv(r, "terminate", tdata, found)
    BY <1>1 DEF IInv, CurInv, ByePlace
  <2> QED
    BY <1>1, <1>2, <2>1 DEF IInv, PlaceInv, EndInv
<1>4. /\ Counted(e) /\ e \in CallRecord
      /\ "ACK" \in n => e.invite = "terminated"
      /\ e.cancel = r.cancel /\ e.peer = r.peer /\ e.pendCancel = r.pendCancel
      /\ e.ended = r.ended
  <2>1. "ACK" \in n => r.invite = "terminated"
    BY <1>2 DEF History
  <2>2. CASE Pending(r.invite)
    <3>1. Counted(EndTsx(r, "invite"))
      BY <1>2, <2>2, EndCounted DEF Kind
    <3> DEFINE t == EndTsx(r, "invite")
    <3>2. /\ t.invite = "terminated" /\ t.cancel = r.cancel /\ t.peer = r.peer
          /\ t.pendCancel = r.pendCancel /\ t.ended = r.ended
      BY <1>2 DEF EndTsx, CallRecord
    <3> HIDE DEF t
    <3>3. e = t
      BY <2>2 DEF t
    <3> HIDE DEF e
    <3> QED
      BY <3>1, <3>2, <3>3 DEF Counted, Count, t
  <2>3. CASE ~Pending(r.invite)
    BY <1>2, <2>1, <2>3
  <2> QED
    BY <2>2, <2>3
<1> HIDE DEF e
<1>5. /\ Counted(d) /\ d \in CallRecord /\ d.inv = "DISCONNECTED"
      /\ "ACK" \in n => d.invite = "terminated"
      /\ d.cancel = r.cancel /\ d.peer = r.peer /\ d.pendCancel = r.pendCancel
      /\ d.ended = r.ended
  <2>1. Counted(d) /\ d \in CallRecord
    BY <1>4, DisconnectCounted DEF Counted, Count
  <2> QED
    BY <1>4, <2>1, DisconnectFields
<1> HIDE DEF d
<1>6. /\ Good(u) /\ u.inv = "DISCONNECTED" /\ u.dlg # "none"
      /\ "ACK" \in n => u.invite = "terminated"
      /\ u.cancel = r.cancel /\ u.peer = r.peer /\ u.pendCancel = r.pendCancel
      /\ u.ended = r.ended
  <2>1. Good(u)
    BY <1>5, UnlockGood
  <2> QED
    BY <1>5, <2>1, UnlockRest DEF Counted
<1> HIDE DEF u
<1>7. History(u, n, dev[cur])
  <2>1. /\ r.pendCancel => r.ended = "NULL" /\ r.cancel = "none"
        /\ \A m \in {"4xx", "peer BYE", "BYE-final"} : m \in n => dev[cur] = "ended"
        /\ r.peer # "none" => "peer BYE" \in n
        /\ dev[cur] = "streaming" => "ACK" \in n
    BY <1>2 DEF History
  <2> HIDE DEF r, n
  <2> QED
    BY <1>3, <1>6, <2>1 DEF History
<1>8. net' = [net EXCEPT ![cur] = n]
  BY <1>1, <1>2
<1>9. /\ tdata' \in {"garbage", "NULL", "CANCEL", "BYE"}
      /\ found' \in {"none", "ringing", "established", "over"}
      /\ gui' \in {"unregister"} \cup (ByePlace \ {"end"})
  BY <1>1 DEF IInv, TypeOK
<1> HIDE DEF r, n
<1> QED
  BY <1>1, <1>2, <1>3, <1>6, <1>7, <1>8, <1>9, ByeStep

-----------------------------------------------------------------------------
(* The invariant *)

LEMMA InitIInv == Init => IInv
<1> SUFFICES ASSUME Init PROVE IInv
  OBVIOUS
<1>1. NoCall \in CallRecord /\ NoCall.dlg = "none" /\ NoCall.ended = "no"
  BY DEF NoCall, CallRecord, TsxState
<1>2. \A c \in Call : call[c] = NoCall /\ net[c] = {} /\ dev[c] = "idle"
  BY DEF Init
<1>3. TypeOK
  <2>1. call \in [Call -> CallRecord]
    BY <1>1 DEF Init
  <2>2. net \in [Call -> SUBSET Message] /\ plays \in 0..MaxCalls
    BY BoundAssumption DEF Init
  <2> QED
    BY <2>1, <2>2 DEF Init, TypeOK
<1>4. CallInv
  <2>1. Good(NoCall)
    BY <1>1 DEF Good
  <2>2. History(NoCall, {}, "idle")
    <3>1. /\ ~NoCall.pendCancel /\ NoCall.cancel = "none" /\ NoCall.bye = "none"
          /\ ~NoCall.armed /\ NoCall.peer = "none" /\ NoCall.inv = "NULL"
      BY DEF NoCall
    <3> QED
      BY <3>1 DEF History
  <2> QED
    BY <1>2, <2>1, <2>2 DEF CallInv
<1>5. CurInv
  <2>1. None \notin Call
    BY NoneAssumption DEF Call
  <2> QED
    BY <2>1 DEF Init, CurInv, ByePlace, UndefinedNeedsDeadCall
<1>6. EndInv /\ OpenInv
  <2>1. NoCall.inv = "NULL"
    BY DEF NoCall
  <2> QED
    BY <1>1, <1>2, <2>1 DEF EndInv, OpenInv, Ringing
<1>7. GuiInv
  <2>1. None \notin Call
    BY NoneAssumption DEF Call
  <2> QED
    BY <1>1, <1>2, <2>1 DEF Init, GuiInv, Call
<1> QED
  BY <1>3, <1>4, <1>5, <1>6, <1>7 DEF IInv

LEMMA RxStep ==
  ASSUME IInv, NEW c \in Call, Rx(c)
  PROVE  IInv'
BY RxProvisionalStep, RxAnswerStep, RxAnswerAgainStep, RxFailureStep, RxByeStep,
   RxByeFinalStep, RxCancelFinalStep DEF Rx

LEMMA GuiWorkStep ==
  ASSUME IInv, process = "up", GuiWork
  PROVE  IInv'
<1>1. CASE SendInviteStep
  BY <1>1, SendInviteOk, SendInviteBadUriStep, SendInviteRefusedStep, SendInviteStaleStep
     DEF SendInviteStep
<1>2. CASE EndSessionStep
  BY <1>2, EndSessionOk, CheckInviteStep, ReadStatusStep, DelayCancelStep, CreateCancelStep,
     SetTimeoutStep DEF EndSessionStep
<1>3. CASE SendByeStep
  BY <1>2, <1>3, SendMsgStep, SendNullStep, TerminateStep, UnregisterStep, UseDeadStep
     DEF SendByeStep
<1> QED
  BY <1>1, <1>3 DEF GuiWork

LEMMA NextIInv == IInv /\ [Next]_vars => IInv'
<1> SUFFICES ASSUME IInv, [Next]_vars
             PROVE  IInv'
  OBVIOUS
<1>1. CASE Next
  <2>1. process = "up"
    BY <1>1 DEF Next
  <2>2. CASE Play
    BY <2>1, <2>2, PlayStep
  <2>3. CASE Stop
    BY <2>1, <2>3, StopStep
  <2>4. CASE GuiWork
    BY <2>1, <2>4, GuiWorkStep
  <2>5. CASE \E c \in Call : Rx(c) \/ Device(c) \/ \E k \in Kind : Timeout(c, k)
    BY <2>5, RxStep, DeviceStep, TimeoutStep
  <2> QED
    BY <1>1, <2>2, <2>3, <2>4, <2>5 DEF Next
<1>2. CASE UNCHANGED vars
  <2>1. UNCHANGED <<call, net, dev, plays, reg, invInit, cur, tdata, recver, leaked, gui,
                    process, found>>
    BY <1>2 DEF vars, guiVars, moduleVars, recverVars
  <2>2. TypeOK'
    BY <2>1 DEF IInv, TypeOK
  <2>3. CallInv'
    BY <2>1 DEF IInv, CallInv
  <2>4. CurInv'
    BY <2>1 DEF IInv, CurInv, UndefinedNeedsDeadCall
  <2>5. OpenInv' /\ EndInv' /\ GuiInv'
    BY <2>1 DEF IInv, OpenInv, EndInv, GuiInv
  <2> QED
    BY <2>2, <2>3, <2>4, <2>5 DEF IInv
<1> QED
  BY <1>1, <1>2

LEMMA Invariance == Spec => []IInv
BY InitIInv, NextIInv, PTL DEF Spec

-----------------------------------------------------------------------------
(* What it implies *)

(* How many transactions there are is what Sum counts. *)
LEMMA AddIf ==
  ASSUME NEW S, IsFiniteSet(S), NEW x, x \notin S, NEW b \in BOOLEAN
  PROVE  LET T == S \cup (IF b THEN {x} ELSE {}) IN
         IsFiniteSet(T) /\ Cardinality(T) = Cardinality(S) + B(b)
<1>1. CASE b
  BY <1>1, FS_AddElement DEF B
<1>2. CASE ~b
  <2>1. Cardinality(S) \in Nat
    BY FS_CardinalityType
  <2>2. S \cup {} = S
    OBVIOUS
  <2> QED
    BY <1>2, <2>1, <2>2 DEF B
<1> QED
  BY <1>1, <1>2

LEMMA UnderSum == \A r : Cardinality(Under(r)) = Sum(r)
<1> SUFFICES ASSUME NEW r
             PROVE  Cardinality(Under(r)) = Sum(r)
  OBVIOUS
<1> DEFINE p(k) == IF Pending(r[k]) THEN {k} ELSE {}
           A == {} \cup p("invite")
           BB == A \cup p("cancel")
           C == BB \cup p("bye")
           D == C \cup p("peer")
<1>1. \A k \in Kind : Pending(r[k]) \in BOOLEAN
  BY DEF Pending
<1>2. IsFiniteSet(A) /\ Cardinality(A) = B(Pending(r.invite))
  BY <1>1, FS_EmptySet, AddIf DEF Kind, B
<1>3. IsFiniteSet(BB) /\ Cardinality(BB) = Cardinality(A) + B(Pending(r.cancel))
  <2>1. "cancel" \notin A
    OBVIOUS
  <2> HIDE DEF A
  <2> QED
    BY <1>1, <1>2, <2>1, AddIf DEF Kind
<1>4. IsFiniteSet(C) /\ Cardinality(C) = Cardinality(BB) + B(Pending(r.bye))
  <2>1. "bye" \notin BB
    OBVIOUS
  <2> HIDE DEF BB
  <2> QED
    BY <1>1, <1>3, <2>1, AddIf DEF Kind
<1>5. IsFiniteSet(D) /\ Cardinality(D) = Cardinality(C) + B(Pending(r.peer))
  <2>1. "peer" \notin C
    OBVIOUS
  <2> HIDE DEF C
  <2> QED
    BY <1>1, <1>4, <2>1, AddIf DEF Kind
<1>6. Under(r) = D
  BY DEF Under, Kind
<1> HIDE DEF A, BB, C, D
<1> QED
  BY <1>2, <1>3, <1>4, <1>5, <1>6 DEF Sum, B

(* A call that sendBye may still use is live. *)
LEMMA HeldIsLive ==
  ASSUME NEW r, Good(r), r.dlg # "none", Held(r)
  PROVE  r.dlg = "live"
<1>1. Count(r) /\ (r.dlg = "live" <=> r.sess + r.tsxs > 0)
  BY DEF Good
<1>2. r.sess \in Nat /\ r.tsxs \in Nat
  BY DEF Good, CallRecord
<1>3. CASE r.inv # "DISCONNECTED"
  BY <1>1, <1>2, <1>3 DEF Count, B
<1>4. CASE \E k \in Kind : r[k] = "completed"
  <2>1. Pending(r.invite) \/ Pending(r.cancel) \/ Pending(r.bye) \/ Pending(r.peer)
    BY <1>4 DEF Kind, Pending
  <2>2. Sum(r) > 0
    BY <2>1 DEF Sum, B
  <2> QED
    BY <1>1, <1>2, <2>2 DEF Count
<1> QED
  BY <1>3, <1>4 DEF Held

LEMMA LifetimeInv == IInv => DialogLifetime
<1> SUFFICES ASSUME IInv, NEW c \in Call, call[c].dlg # "none"
             PROVE  /\ call[c].sess = IF call[c].inv = "DISCONNECTED" THEN 0 ELSE 1
                    /\ call[c].tsxs = Cardinality(Under(call[c]))
                    /\ call[c].dlg = "live" <=> call[c].sess + call[c].tsxs > 0
  BY DEF DialogLifetime
<1> QED
  BY UnderSum DEF IInv, CallInv, Good, Count, B

LEMMA HoldsInv == IInv => SendByeHoldsDialog
<1> SUFFICES ASSUME IInv, gui \in ByePlace, found \in {"ringing", "established"}
             PROVE  call[cur].dlg = "live" \/ (gui = "terminate" /\ call[cur].ended = "unsent")
  BY DEF SendByeHoldsDialog
<1>1. gui # "end" /\ cur \in Call /\ PlaceInv(call[cur], gui, tdata, found)
  BY DEF IInv, CurInv
<1>2. cur <= plays /\ plays \in Nat /\ cur \in Nat
  BY <1>1 DEF IInv, CurInv, TypeOK, Call
<1>3. Good(call[cur]) /\ call[cur].dlg # "none"
  BY <1>1, <1>2 DEF IInv, CallInv, GuiInv
<1>4. gui # "terminate" => call[cur].ended # "unsent"
  <2>1. CASE gui \in ReadPlace
    BY <1>1, <2>1 DEF PlaceInv
  <2>2. CASE gui = "send"
    BY <1>1, <2>2 DEF PlaceInv, IInv, TypeOK
  <2> QED
    BY <1>1, <2>1, <2>2 DEF ByePlace, ReadPlace
<1>5. call[cur].ended # "unsent" => call[cur].dlg = "live"
  BY <1>1, <1>3, HeldIsLive DEF PlaceInv
<1> QED
  BY <1>4, <1>5

LEMMA AbandonedInv == IInv => AbandonedOnlyByCancel
<1> SUFFICES ASSUME IInv, NEW c \in Call, Abandoned(c)
             PROVE  call[c].ended \in {"CANCEL", "NULL", "unsent"}
  BY DEF AbandonedOnlyByCancel
<1>1. /\ dev[c] = "streaming" /\ call[c].dlg = "dead" /\ "BYE" \notin net[c]
      /\ Good(call[c]) /\ History(call[c], net[c], dev[c]) /\ call[c] \in CallRecord
  BY DEF Abandoned, IInv, CallInv, Good
<1>2. call[c].ended # "no"
  <2>1. "ACK" \in net[c]
    BY <1>1 DEF History
  <2>2. call[c].inv = "DISCONNECTED"
    BY <1>1, HeldIsLive DEF Held
  <2> QED
    BY <1>1, <2>1, <2>2 DEF History
<1>3. call[c].ended # "BYE"
  <2>1. SUFFICES ASSUME call[c].ended = "BYE" PROVE FALSE
    OBVIOUS
  <2>2. c = cur /\ gui = "send" /\ tdata = "BYE" /\ gui \in ByePlace
    BY <1>1, <2>1 DEF IInv, EndInv, ByePlace
  <2>3. found \in {"ringing", "established"}
    BY <2>2 DEF IInv, CurInv, PlaceInv
  <2>4. call[c].dlg = "live"
    BY <2>2, <2>3, HoldsInv DEF SendByeHoldsDialog
  <2> QED
    BY <1>1, <2>4
<1> QED
  BY <1>1, <1>2, <1>3 DEF CallRecord

-----------------------------------------------------------------------------
(* A call that is over waits for timers only: the safety half of            *)
(* EndedCallIsFreed.                                                        *)

(* What is left of a call that is over is at least one transaction, and     *)
(* each one there is has a timer that ends it.                              *)
EndedCallIsTimed ==
  \A c \in Call : call[c].inv = "DISCONNECTED" /\ call[c].dlg = "live" =>
    Under(call[c]) # {} /\ \A k \in Under(call[c]) : Ticking(call[c], k)

(* How far a transaction has come. *)
Rank(t) ==
  IF t = "none" THEN 0 ELSE IF t = "calling" THEN 1 ELSE IF t = "proceeding" THEN 2
  ELSE IF t = "completed" THEN 3 ELSE 4

(* A call that is over stays over, and no transaction is ever begun again.  *)
Onward(r0, r) ==
  /\ r0.inv = "DISCONNECTED" => r.inv = "DISCONNECTED"
  /\ r0.armed => r.armed
  /\ Rank(r0.invite) <= Rank(r.invite) /\ Rank(r0.cancel) <= Rank(r.cancel)
  /\ Rank(r0.bye) <= Rank(r.bye) /\ Rank(r0.peer) <= Rank(r.peer)
NoStepBack == \A c \in Call : Onward(call[c], call'[c])

(* Only the INVITE is ever answered provisionally, and then, as soon as     *)
(* somebody has begun to end the call, its transaction has a timeout.       *)
Timed(r) ==
  /\ r.inv # "NULL" => r.invite # "none"
  /\ r.inv \in {"CONNECTING", "CONFIRMED"} \/ r.bye # "none" => r.invite = "terminated"
  /\ r.inv \in {"EARLY", "DISCONNECTED"} \/ r.cancel # "none" => r.invite # "calling"
  /\ r.inv = "DISCONNECTED" \/ r.cancel # "none" => r.invite # "proceeding" \/ r.armed
  /\ r.cancel # "proceeding" /\ r.bye # "proceeding" /\ r.peer \notin {"calling", "proceeding"}

(* How far the INVITE of sendBye's call has come at place g with message t: *)
(* a CANCEL is made after a provisional response and arms the timeout if    *)
(* the INVITE is still there, a BYE is made after the INVITE is over.       *)
PlaceTimed(r, g, t) ==
  /\ g \in {"cancel", "timeout"} => Rank(r.invite) >= 2
  /\ g = "send" /\ t = "CANCEL" =>
       Rank(r.invite) >= 2 /\ (r.armed \/ r.invite = "terminated")
  /\ g = "send" /\ t = "BYE" => r.invite = "terminated"

TimedInv ==
  /\ \A c \in Call : Timed(call[c])
  /\ cur \in Call => PlaceTimed(call[cur], gui, tdata)

(* What has come far stays far. *)
LEMMA RankOrder ==
  ASSUME NEW s \in TsxState, NEW t \in TsxState, Rank(s) <= Rank(t)
  PROVE  /\ Rank(s) >= 2 => Rank(t) >= 2
         /\ s = "terminated" => t = "terminated"
BY DEF Rank, TsxState

LEMMA OnwardPlace ==
  ASSUME NEW r0 \in CallRecord, NEW r \in CallRecord, NEW g, NEW t,
         PlaceTimed(r0, g, t), Onward(r0, r)
  PROVE  PlaceTimed(r, g, t)
<1>1. /\ r0.invite \in TsxState /\ r.invite \in TsxState
      /\ Rank(r0.invite) <= Rank(r.invite) /\ (r0.armed => r.armed)
  BY DEF CallRecord, Onward
<1>2. /\ Rank(r0.invite) >= 2 => Rank(r.invite) >= 2
      /\ r0.invite = "terminated" => r.invite = "terminated"
  BY <1>1, RankOrder
<1> QED
  BY <1>1, <1>2 DEF PlaceTimed

(* A step that replaces one call's record. *)
LEMMA RecordStep ==
  ASSUME IInv, IInv', TimedInv, NEW c \in Call, NEW u,
         call' = [call EXCEPT ![c] = u], Timed(u), Onward(call[c], u)
  PROVE  NoStepBack /\ \A d \in Call : Timed(call'[d])
<1>1. call'[c] = u /\ \A d \in Call \ {c} : call'[d] = call[d]
  BY DEF IInv, TypeOK
<1>2. \A d \in Call : call[d] \in CallRecord
  BY DEF IInv, TypeOK
<1>3. ASSUME NEW d \in Call
      PROVE  Onward(call[d], call'[d]) /\ Timed(call'[d])
  <2>1. CASE d = c
    BY <1>1, <2>1
  <2>2. CASE d # c
    <3>1. call'[d] = call[d] /\ call[d] \in CallRecord
      BY <1>1, <1>2, <2>2
    <3>2. Onward(call[d], call[d])
      BY <3>1 DEF Onward, Rank
    <3> QED
      BY <3>1, <3>2 DEF TimedInv
  <2> QED
    BY <2>1, <2>2
<1> QED
  BY <1>3 DEF NoStepBack

(* A step of the event loop: sendBye's call has come no less far than it    *)
(* had when sendBye looked at it.                                           *)
LEMMA LoopTimed ==
  ASSUME IInv, IInv', TimedInv, NEW c \in Call, NEW r, NEW msgs,
         Step(c, r, msgs), r \in CallRecord, Timed(r), Onward(call[c], r)
  PROVE  TimedInv' /\ NoStepBack
<1> DEFINE u == Unlock(r)
<1>1. /\ call' = [call EXCEPT ![c] = u] /\ UNCHANGED <<cur, gui, tdata>>
  BY DEF Step, guiVars
<1>2. /\ u.inv = r.inv /\ u.invite = r.invite /\ u.cancel = r.cancel /\ u.bye = r.bye
      /\ u.peer = r.peer /\ u.armed = r.armed
  BY UnlockRest
<1> HIDE DEF u
<1>3. Timed(u) /\ Onward(call[c], u)
  BY <1>2 DEF Timed, Onward
<1>4. NoStepBack /\ \A d \in Call : Timed(call'[d])
  BY <1>1, <1>3, RecordStep
<1>5. ASSUME cur \in Call
      PROVE  PlaceTimed(call'[cur], gui, tdata)
  <2>1. call[cur] \in CallRecord /\ call'[cur] \in CallRecord
    BY <1>1, <1>5 DEF IInv, TypeOK
  <2>2. Onward(call[cur], call'[cur]) /\ PlaceTimed(call[cur], gui, tdata)
    BY <1>4, <1>5 DEF NoStepBack, TimedInv
  <2> QED
    BY <2>1, <2>2, OnwardPlace
<1> QED
  BY <1>1, <1>4, <1>5 DEF TimedInv

(* A handler that the missing module may keep from being called. *)
LEMMA DispatchTimed ==
  ASSUME IInv, IInv', TimedInv, NEW c \in Call, NEW r, NEW h, NEW msgs,
         Step(c, Dispatch(r, h), msgs),
         \A u \in {r, h} : u \in CallRecord /\ Timed(u) /\ Onward(call[c], u)
  PROVE  TimedInv' /\ NoStepBack
<1>1. PICK u \in {r, h} : u = Dispatch(r, h)
  BY DispatchCases
<1> QED
  BY <1>1, LoopTimed

(* What the handlers may take for granted. *)
LEMMA LiveTimed ==
  ASSUME IInv, TimedInv, NEW c \in Call, call[c].dlg = "live"
  PROVE  /\ call[c] \in CallRecord /\ Timed(call[c]) /\ History(call[c], net[c], dev[c])
         /\ call[c].inv # "NULL"
BY LiveCall DEF TimedInv, Counted, Count

(* No provisional response comes to a call that is over and waits for one.  *)
LEMMA RxProvisionalTimed ==
  ASSUME IInv, IInv', TimedInv, NEW c \in Call, NEW m, RxProvisional(c, m)
  PROVE  TimedInv' /\ NoStepBack
<1> DEFINE r0 == call[c]
           put == reg /\ r0.inv = "CALLING" /\ r0.pendCancel
           r1 == [r0 EXCEPT !.invite = "proceeding"]
           r3 == StartTsx(r1, "cancel")
           r4 == [r3 EXCEPT !.pendCancel = FALSE, !.armed = TRUE, !.ended = "CANCEL"]
           r2 == IF put THEN r4 ELSE r1
           r5 == [r2 EXCEPT !.inv = "EARLY"]
           early == m = "180" /\ r2.inv = "CALLING"
           h == IF early THEN r5 ELSE r2
           msgs == IF put THEN {"CANCEL"} ELSE {}
<1>1. /\ r0.invite \in {"calling", "proceeding"} /\ r0.dlg = "live"
      /\ Step(c, Dispatch(r1, h), msgs)
  BY DEF RxProvisional, Step, Unanswered
<1>2. r0 \in CallRecord /\ Timed(r0) /\ History(r0, net[c], dev[c]) /\ r0.inv # "NULL"
  BY <1>1, LiveTimed
<1>3. /\ r1 \in CallRecord /\ r1.invite = "proceeding" /\ r1.inv = r0.inv
      /\ r1.cancel = r0.cancel /\ r1.bye = r0.bye /\ r1.peer = r0.peer /\ r1.armed = r0.armed
      /\ r1.tsxs = r0.tsxs
  BY <1>2 DEF CallRecord, TsxState
<1> HIDE DEF r1
<1>4. Timed(r1) /\ Onward(r0, r1)
  <2>1. Timed(r1)
    BY <1>1, <1>2, <1>3 DEF Timed
  <2>2. Onward(r0, r1)
    BY <1>1, <1>3 DEF Onward, Rank
  <2> QED
    BY <2>1, <2>2
<1>5. ASSUME put
      PROVE  /\ r4 \in CallRecord /\ r4.invite = "proceeding" /\ r4.inv = "CALLING"
             /\ r4.cancel = "calling" /\ r4.bye = r0.bye /\ r4.peer = r0.peer /\ r4.armed
             /\ r0.cancel = "none"
  <2>1. r0.cancel = "none"
    BY <1>2, <1>5 DEF History
  <2>2. Counted(r0)
    BY <1>1, LiveCall
  <2>3. Counted(r1)
    BY <1>1, <2>2, MoveCounted DEF Kind, Pending, r1
  <2>4. Counted(r3)
    BY <1>3, <2>1, <2>3, StartCounted DEF Pending
  <2>5. /\ r3 \in CallRecord /\ r3.invite = "proceeding" /\ r3.inv = r0.inv
        /\ r3.cancel = "calling" /\ r3.bye = r0.bye /\ r3.peer = r0.peer
    BY <1>3, <2>4 DEF StartTsx, Counted, Count, CallRecord
  <2> HIDE DEF r3
  <2> QED
    BY <1>5, <2>1, <2>5 DEF CallRecord
<1> HIDE DEF r4
<1>6. r2 \in CallRecord /\ Timed(r2) /\ Onward(r0, r2) /\ r2.invite = "proceeding"
      /\ r2.inv = r0.inv
  <2>1. CASE put
    <3>1. Timed(r4)
      BY <1>1, <1>2, <1>5, <2>1 DEF Timed
    <3>2. Onward(r0, r4)
      BY <1>1, <1>5, <2>1 DEF Onward, Rank
    <3> QED
      BY <1>5, <2>1, <3>1, <3>2
  <2>2. CASE ~put
    BY <1>3, <1>4, <2>2
  <2> QED
    BY <2>1, <2>2
<1> HIDE DEF r2
<1>7. h \in CallRecord /\ Timed(h) /\ Onward(r0, h)
  <2>1. CASE early
    <3>1. /\ r5 \in CallRecord /\ r5.inv = "EARLY" /\ r5.invite = r2.invite
          /\ r5.cancel = r2.cancel /\ r5.bye = r2.bye /\ r5.peer = r2.peer
          /\ r5.armed = r2.armed
      BY <1>6 DEF CallRecord
    <3> HIDE DEF r5
    <3>2. Timed(r5)
      BY <1>6, <2>1, <3>1 DEF Timed
    <3>3. Onward(r0, r5)
      BY <1>6, <2>1, <3>1 DEF Onward
    <3> QED
      BY <2>1, <3>1, <3>2, <3>3
  <2>2. CASE ~early
    BY <1>6, <2>2
  <2> QED
    BY <2>1, <2>2
<1> HIDE DEF h
<1> QED
  BY <1>1, <1>3, <1>4, <1>7, DispatchTimed

(* The 200 to the INVITE. *)
LEMMA RxAnswerTimed ==
  ASSUME IInv, IInv', TimedInv, NEW c \in Call, RxAnswer(c)
  PROVE  TimedInv' /\ NoStepBack
<1> DEFINE r0 == call[c]
           r == EndTsx(r0, "invite")
           r1 == [r EXCEPT !.inv = "CONNECTING"]
           h == IF r.inv \in {"CALLING", "EARLY"} THEN r1 ELSE r
           msgs == IF reg THEN {"ACK"} ELSE {}
<1>1. /\ r0.invite \in {"calling", "proceeding"} /\ r0.dlg = "live"
      /\ Step(c, Dispatch(r, h), msgs)
  BY DEF RxAnswer, Step, Unanswered
<1>2. r0 \in CallRecord /\ Timed(r0) /\ Counted(r0)
  BY <1>1, LiveTimed, LiveCall
<1>3. Counted(r)
  BY <1>1, <1>2, EndCounted DEF Kind, Pending
<1>4. /\ r \in CallRecord /\ r.invite = "terminated" /\ r.inv = r0.inv
      /\ r.cancel = r0.cancel /\ r.bye = r0.bye /\ r.peer = r0.peer /\ r.armed = r0.armed
  BY <1>2, <1>3 DEF EndTsx, Counted, Count, CallRecord
<1> HIDE DEF r
<1>5. /\ r1 \in CallRecord /\ r1.inv = "CONNECTING" /\ r1.invite = r.invite
      /\ r1.cancel = r.cancel /\ r1.bye = r.bye /\ r1.peer = r.peer /\ r1.armed = r.armed
  BY <1>4 DEF CallRecord
<1> HIDE DEF r1
<1>6. ASSUME NEW u \in {r, h}
      PROVE  u \in CallRecord /\ Timed(u) /\ Onward(r0, u)
  <2>1. /\ u \in CallRecord /\ u.invite = "terminated"
        /\ u.inv = r0.inv \/ (u.inv = "CONNECTING" /\ r0.inv # "DISCONNECTED")
        /\ u.cancel = r0.cancel /\ u.bye = r0.bye /\ u.peer = r0.peer /\ u.armed = r0.armed
    BY <1>4, <1>5
  <2>2. Timed(u)
    BY <1>2, <2>1 DEF Timed
  <2>3. Onward(r0, u)
    BY <1>1, <2>1 DEF Onward, Rank
  <2> QED
    BY <2>1, <2>2, <2>3
<1> HIDE DEF h
<1> QED
  BY <1>1, <1>6, DispatchTimed

(* The 200 again. *)
LEMMA RxAnswerAgainTimed ==
  ASSUME IInv, IInv', TimedInv, NEW c \in Call, RxAnswerAgain(c)
  PROVE  TimedInv' /\ NoStepBack
<1> DEFINE r0 == call[c]
           r1 == [r0 EXCEPT !.inv = "CONFIRMED"]
           r == IF r0.inv = "CONNECTING" THEN r1 ELSE r0
<1>1. r0.invite = "terminated" /\ r0.dlg = "live" /\ Step(c, r, {"ACK"})
  BY DEF RxAnswerAgain, Step
<1>2. r0 \in CallRecord /\ Timed(r0)
  BY <1>1, LiveTimed
<1>3. /\ r1 \in CallRecord /\ r1.inv = "CONFIRMED" /\ r1.invite = r0.invite
      /\ r1.cancel = r0.cancel /\ r1.bye = r0.bye /\ r1.peer = r0.peer /\ r1.armed = r0.armed
  BY <1>2 DEF CallRecord
<1> HIDE DEF r1
<1>4. /\ r \in CallRecord /\ r.invite = "terminated"
      /\ r.inv = r0.inv \/ (r.inv = "CONFIRMED" /\ r0.inv = "CONNECTING")
      /\ r.cancel = r0.cancel /\ r.bye = r0.bye /\ r.peer = r0.peer /\ r.armed = r0.armed
  BY <1>1, <1>2, <1>3
<1> HIDE DEF r
<1>5. Timed(r)
  BY <1>2, <1>4 DEF Timed
<1>6. Onward(r0, r)
  BY <1>1, <1>4 DEF Onward, Rank
<1> QED
  BY <1>1, <1>4, <1>5, <1>6, LoopTimed

(* A failure response: the transaction waits in Completed, for timer D. *)
LEMMA RxFailureTimed ==
  ASSUME IInv, IInv', TimedInv, NEW c \in Call, RxFailure(c)
  PROVE  TimedInv' /\ NoStepBack
<1> DEFINE r0 == call[c]
           r == [r0 EXCEPT !.invite = "completed"]
           h == IF r.inv \in {"CALLING", "EARLY"} THEN Disconnect(r) ELSE r
<1>1. /\ r0.invite \in {"calling", "proceeding"} /\ r0.dlg = "live"
      /\ Step(c, Dispatch(r, h), {})
  BY DEF RxFailure, Step, Unanswered
<1>2. r0 \in CallRecord /\ Timed(r0) /\ Counted(r0)
  BY <1>1, LiveTimed, LiveCall
<1>3. Counted(r)
  BY <1>1, <1>2, MoveCounted DEF Kind, Pending
<1>4. /\ r \in CallRecord /\ r.invite = "completed" /\ r.inv = r0.inv
      /\ r.cancel = r0.cancel /\ r.bye = r0.bye /\ r.peer = r0.peer /\ r.armed = r0.armed
  BY <1>2, <1>3 DEF Counted, Count, CallRecord
<1> HIDE DEF r
<1>5. ASSUME NEW u \in {r, h}
      PROVE  u \in CallRecord /\ Timed(u) /\ Onward(r0, u)
  <2>1. Disconnect(r) \in CallRecord
    BY <1>3, DisconnectCounted DEF Counted, Count
  <2>2. /\ u \in CallRecord /\ u.invite = "completed"
        /\ u.inv = r0.inv \/ u.inv = "DISCONNECTED"
        /\ u.cancel = r0.cancel /\ u.bye = r0.bye /\ u.peer = r0.peer /\ u.armed = r0.armed
    BY <1>4, <2>1, DisconnectFields
  <2>3. Timed(u)
    BY <1>1, <1>2, <2>2 DEF Timed
  <2>4. Onward(r0, u)
    BY <1>1, <2>2 DEF Onward, Rank
  <2> QED
    BY <2>2, <2>3, <2>4
<1> HIDE DEF h
<1> QED
  BY <1>1, <1>5, DispatchTimed

(* The camera's BYE: a session that is EARLY gets a timeout for its INVITE. *)
LEMMA RxByeTimed ==
  ASSUME IInv, IInv', TimedInv, NEW c \in Call, RxBye(c)
  PROVE  TimedInv' /\ NoStepBack
<1> DEFINE r0 == call[c]
           r == [r0 EXCEPT !.peer = "completed", !.tsxs = @ + 1]
           a == [r EXCEPT !.armed = @ \/ r.inv = "EARLY"]
           h == IF r.inv = "CALLING" THEN r ELSE Disconnect(a)
<1>1. /\ r0.peer = "none" /\ r0.dlg = "live" /\ Step(c, Dispatch(r, h), {})
  BY DEF RxBye, Step
<1>2. r0 \in CallRecord /\ Timed(r0) /\ Counted(r0) /\ r0.inv # "NULL"
  BY <1>1, LiveTimed, LiveCall
<1>3. r \in CallRecord
  <2>1. r0.tsxs + 1 \in 0..4
    <3>1. r0.tsxs \in 0..4 /\ r0.tsxs = Sum(r0) /\ ~Pending(r0.peer)
      BY <1>1, <1>2 DEF Counted, Count, Pending, CallRecord
    <3> HIDE DEF r0
    <3>2. r0.tsxs # 4
      BY <3>1 DEF Sum, B
    <3> QED
      BY <3>1, <3>2
  <2>2. "completed" \in TsxState /\ "peer" \in Kind
    BY DEF TsxState, Kind
  <2> QED
    BY <1>2, <2>1, <2>2, TsxsSet
<1>4. /\ r.peer = "completed" /\ r.invite = r0.invite /\ r.inv = r0.inv
      /\ r.cancel = r0.cancel /\ r.bye = r0.bye /\ r.armed = r0.armed /\ r.sess = r0.sess
  BY <1>2 DEF CallRecord
<1> HIDE DEF r
<1>5. /\ a \in CallRecord /\ a.inv = r.inv /\ a.peer = r.peer /\ a.invite = r.invite
      /\ a.cancel = r.cancel /\ a.bye = r.bye /\ a.sess = r.sess
      /\ (r.armed => a.armed) /\ (r.inv = "EARLY" => a.armed)
  BY <1>3 DEF CallRecord
<1> HIDE DEF a
<1>6. Disconnect(a) \in CallRecord
  <2>1. a.inv # "DISCONNECTED" => a.sess - 1 \in 0..1
    BY <1>2, <1>4, <1>5 DEF Counted, Count, B
  <2> QED
    BY <1>5, <2>1, SessSet DEF Disconnect
<1>7. ASSUME NEW u \in {r, h}
      PROVE  u \in CallRecord /\ Timed(u) /\ Onward(r0, u)
  <2>1. /\ u \in CallRecord /\ u.invite = r0.invite /\ u.cancel = r0.cancel /\ u.bye = r0.bye
        /\ u.peer = "completed" /\ (r0.armed => u.armed)
        /\ \/ u.inv = r0.inv
           \/ u.inv = "DISCONNECTED" /\ r0.inv # "CALLING" /\ (r0.inv = "EARLY" => u.armed)
    <3>1. CASE u = r
      BY <1>3, <1>4, <3>1
    <3>2. CASE r.inv # "CALLING" /\ u = Disconnect(a)
      <4>1. /\ u.inv = "DISCONNECTED" /\ u.invite = a.invite /\ u.cancel = a.cancel
            /\ u.bye = a.bye /\ u.peer = a.peer /\ u.armed = a.armed
        BY <1>5, <3>2, DisconnectFields
      <4> QED
        BY <1>4, <1>5, <1>6, <3>2, <4>1
    <3> QED
      BY <3>1, <3>2
  <2>2. r0.inv \in {"NULL", "CALLING", "EARLY", "CONNECTING", "CONFIRMED", "DISCONNECTED"}
    BY <1>2 DEF CallRecord
  <2>3. Timed(u)
    BY <1>2, <2>1, <2>2 DEF Timed
  <2>4. Onward(r0, u)
    BY <1>1, <2>1 DEF Onward, Rank
  <2> QED
    BY <2>1, <2>3, <2>4
<1> HIDE DEF h
<1> QED
  BY <1>1, <1>7, DispatchTimed

(* The final response to our BYE: the INVITE was over when it was sent. *)
LEMMA RxByeFinalTimed ==
  ASSUME IInv, IInv', TimedInv, NEW c \in Call, RxByeFinal(c)
  PROVE  TimedInv' /\ NoStepBack
<1> DEFINE r0 == call[c]
           r == [r0 EXCEPT !.bye = "completed"]
           h == Disconnect(r)
<1>1. /\ r0.bye = "calling" /\ r0.dlg = "live" /\ Step(c, Dispatch(r, h), {})
  BY DEF RxByeFinal, Step
<1>2. r0 \in CallRecord /\ Timed(r0) /\ Counted(r0)
  BY <1>1, LiveTimed, LiveCall
<1>3. Counted(r)
  BY <1>1, <1>2, MoveCounted DEF Kind, Pending
<1>4. /\ r \in CallRecord /\ r.bye = "completed" /\ r.inv = r0.inv /\ r.invite = r0.invite
      /\ r.cancel = r0.cancel /\ r.peer = r0.peer /\ r.armed = r0.armed
  BY <1>2, <1>3 DEF Counted, Count, CallRecord
<1> HIDE DEF r
<1>5. ASSUME NEW u \in {r, h}
      PROVE  u \in CallRecord /\ Timed(u) /\ Onward(r0, u)
  <2>1. Disconnect(r) \in CallRecord
    BY <1>3, DisconnectCounted DEF Counted, Count
  <2>2. /\ u \in CallRecord /\ u.bye = "completed" /\ u.invite = r0.invite
        /\ u.inv = r0.inv \/ u.inv = "DISCONNECTED"
        /\ u.cancel = r0.cancel /\ u.peer = r0.peer /\ u.armed = r0.armed
    BY <1>4, <2>1, DisconnectFields
  <2>3. Timed(u)
    BY <1>1, <1>2, <2>2 DEF Timed
  <2>4. Onward(r0, u)
    BY <1>1, <2>2 DEF Onward, Rank
  <2> QED
    BY <2>2, <2>3, <2>4
<1> HIDE DEF h
<1> QED
  BY <1>1, <1>5, DispatchTimed

(* The final response to our CANCEL. *)
LEMMA RxCancelFinalTimed ==
  ASSUME IInv, IInv', TimedInv, NEW c \in Call, RxCancelFinal(c)
  PROVE  TimedInv' /\ NoStepBack
<1> DEFINE r0 == call[c]
           u == [r0 EXCEPT !.cancel = "completed"]
<1>1. r0.cancel = "calling" /\ r0.dlg = "live" /\ Step(c, u, {})
  BY DEF RxCancelFinal, Step
<1>2. r0 \in CallRecord /\ Timed(r0)
  BY <1>1, LiveTimed
<1>3. /\ u \in CallRecord /\ u.cancel = "completed" /\ u.inv = r0.inv /\ u.invite = r0.invite
      /\ u.bye = r0.bye /\ u.peer = r0.peer /\ u.armed = r0.armed
  BY <1>2 DEF CallRecord, TsxState
<1> HIDE DEF u
<1>4. Timed(u)
  BY <1>1, <1>2, <1>3 DEF Timed
<1>5. Onward(r0, u)
  BY <1>1, <1>3 DEF Onward, Rank
<1> QED
  BY <1>1, <1>3, <1>4, <1>5, LoopTimed

(* A timer: of the INVITE, which is then over; of our CANCEL, which has     *)
(* given the INVITE a timeout; of our BYE, sent when the INVITE was over;   *)
(* or of the camera's BYE, which leaves the session alone.                  *)
LEMMA TimeoutTimed ==
  ASSUME IInv, IInv', TimedInv, NEW c \in Call, NEW k \in Kind, Timeout(c, k)
  PROVE  TimedInv' /\ NoStepBack
<1> DEFINE r0 == call[c]
           r == EndTsx(r0, k)
           h == IF r0[k] = "completed" THEN r ELSE Disconnect(r)
<1>1. /\ r0[k] \in {"calling", "proceeding", "completed"}
      /\ r0.dlg = "live" /\ Step(c, Dispatch(r, h), {})
  BY DEF Timeout, Ticking, Step
<1>2. r0 \in CallRecord /\ Timed(r0) /\ Counted(r0)
  BY <1>1, LiveTimed, LiveCall
<1>3. Counted(r)
  BY <1>1, <1>2, EndCounted DEF Pending
<1>4. /\ r \in CallRecord /\ r.inv = r0.inv /\ r.armed = r0.armed /\ r[k] = "terminated"
      /\ \A l \in Kind \ {k} : r[l] = r0[l]
  BY <1>2, <1>3 DEF EndTsx, Counted, Count, CallRecord, Kind
<1> HIDE DEF r
<1>5. Disconnect(r) \in CallRecord
  BY <1>3, DisconnectCounted DEF Counted, Count
<1>6. ASSUME NEW u \in {r, h}
      PROVE  u \in CallRecord /\ Timed(u) /\ Onward(r0, u)
  <2>1. /\ u \in CallRecord /\ u.armed = r0.armed /\ u[k] = "terminated"
        /\ \A l \in Kind \ {k} : u[l] = r0[l]
        /\ u.inv = r0.inv \/ (u.inv = "DISCONNECTED" /\ r0[k] # "completed")
    <3>1. \A l \in Kind : Disconnect(r)[l] = r[l]
      BY <1>4, DisconnectFields DEF Kind
    <3> QED
      BY <1>4, <1>5, <3>1, DisconnectFields
  <2>2. CASE k = "invite"
    <3>1. /\ u.invite = "terminated" /\ u.cancel = r0.cancel /\ u.bye = r0.bye
          /\ u.peer = r0.peer /\ (r0.inv = "DISCONNECTED" => u.inv = "DISCONNECTED")
          /\ u.armed = r0.armed
      BY <2>1, <2>2 DEF Kind
    <3>2. Timed(u)
      BY <1>2, <3>1 DEF Timed
    <3>3. Onward(r0, u)
      BY <3>1 DEF Onward, Rank
    <3> QED
      BY <2>1, <3>2, <3>3
  <2>3. CASE k = "cancel"
    <3>1. /\ u.cancel = "terminated" /\ u.invite = r0.invite /\ u.bye = r0.bye
          /\ u.peer = r0.peer /\ u.armed = r0.armed /\ r0.cancel # "none"
          /\ u.inv = r0.inv \/ u.inv = "DISCONNECTED"
      BY <1>1, <2>1, <2>3 DEF Kind
    <3>2. Timed(u)
      <4>1. r0.inv # "NULL"
        BY <1>2 DEF Counted, Count
      <4> QED
        BY <1>2, <3>1, <4>1 DEF Timed
    <3>3. Onward(r0, u)
      BY <3>1 DEF Onward, Rank
    <3> QED
      BY <2>1, <3>2, <3>3
  <2>4. CASE k = "bye"
    <3>1. /\ u.bye = "terminated" /\ u.invite = r0.invite /\ u.cancel = r0.cancel
          /\ u.peer = r0.peer /\ u.armed = r0.armed /\ r0.bye # "none"
          /\ u.inv = r0.inv \/ u.inv = "DISCONNECTED"
      BY <1>1, <2>1, <2>4 DEF Kind
    <3>2. Timed(u)
      BY <1>2, <3>1 DEF Timed
    <3>3. Onward(r0, u)
      BY <3>1 DEF Onward, Rank
    <3> QED
      BY <2>1, <3>2, <3>3
  <2>5. CASE k = "peer"
    <3>1. r0.peer = "completed"
      BY <1>1, <1>2, <2>5 DEF Timed
    <3>2. /\ u.peer = "terminated" /\ u.invite = r0.invite /\ u.cancel = r0.cancel
          /\ u.bye = r0.bye /\ u.armed = r0.armed /\ u.inv = r0.inv
      BY <2>1, <2>5, <3>1 DEF Kind
    <3>3. Timed(u)
      BY <1>2, <3>2 DEF Timed
    <3>4. Onward(r0, u)
      BY <3>2 DEF Onward, Rank
    <3> QED
      BY <2>1, <3>3, <3>4
  <2> QED
    BY <2>2, <2>3, <2>4, <2>5 DEF Kind
<1> HIDE DEF h
<1> QED
  BY <1>1, <1>6, DispatchTimed

(* The camera and most of the GUI thread leave the calls alone. *)
LEMMA QuietTimed ==
  ASSUME IInv, TimedInv, call' = call, cur' = cur,
         cur \in Call => PlaceTimed(call[cur], gui', tdata')
  PROVE  TimedInv' /\ NoStepBack
<1>1. ASSUME NEW d \in Call
      PROVE  Onward(call[d], call'[d]) /\ Timed(call'[d])
  <2>1. call[d] \in CallRecord /\ Timed(call[d])
    BY DEF IInv, TypeOK, TimedInv
  <2> QED
    BY <2>1 DEF Onward, Rank
<1> QED
  BY <1>1 DEF TimedInv, NoStepBack

(* A step of sendBye on its call. *)
LEMMA ByeTimed ==
  ASSUME IInv, IInv', TimedInv, cur \in Call, cur' = cur, NEW u,
         call' = [call EXCEPT ![cur] = u], Timed(u), Onward(call[cur], u),
         PlaceTimed(u, gui', tdata')
  PROVE  TimedInv' /\ NoStepBack
<1>1. NoStepBack /\ \A d \in Call : Timed(call'[d])
  BY RecordStep
<1>2. call'[cur'] = u
  BY DEF IInv, TypeOK
<1> QED
  BY <1>1, <1>2 DEF TimedInv

(* A new call: its INVITE is under way, or was refused at once. *)
LEMMA SendInviteTimed ==
  ASSUME IInv, IInv', process = "up", TimedInv, SendInvite
  PROVE  TimedInv' /\ NoStepBack
<1> DEFINE c == plays + 1
           r == [NoCall EXCEPT !.dlg = "live", !.inv = "CALLING", !.sess = 1]
           s == StartTsx(r, "invite")
           over == [r EXCEPT !.invite = "terminated"]
<1>1. /\ gui = "invite" /\ gui' = "idle"
      /\ \/ call' = [call EXCEPT ![c] = s]
         \/ call' = [call EXCEPT ![c] = Refused(r, "invite")]
  BY DEF SendInvite
<1>2. c \in Call /\ c > plays
  <2>1. plays < MaxCalls
    BY <1>1 DEF SendInvite, IInv, GuiInv
  <2> QED
    BY <2>1, BoundAssumption DEF IInv, TypeOK, Call
<1>3. call[c] = NoCall
  BY <1>2 DEF IInv, GuiInv, CallInv
<1>4. NoCall \in CallRecord
  BY DEF NoCall, CallRecord, TsxState
<1>5. /\ NoCall.inv = "NULL" /\ NoCall.invite = "none" /\ NoCall.cancel = "none"
      /\ NoCall.bye = "none" /\ NoCall.peer = "none" /\ NoCall.armed = FALSE
  BY DEF NoCall
<1>6. /\ r \in CallRecord /\ r.inv = "CALLING" /\ r.invite = "none" /\ r.cancel = "none"
      /\ r.bye = "none" /\ r.peer = "none" /\ r.armed = FALSE
  <2>1. 1 \in 0..1
    OBVIOUS
  <2> QED
    BY <1>4, <1>5, <2>1 DEF CallRecord
<1> HIDE DEF r
<1>7. /\ s.inv = "CALLING" /\ s.invite = "calling" /\ s.cancel = "none"
      /\ s.bye = "none" /\ s.peer = "none" /\ s.armed = FALSE
  BY <1>6 DEF StartTsx, CallRecord
<1> HIDE DEF s
<1>8. /\ over \in CallRecord /\ over.inv = "CALLING" /\ over.invite = "terminated"
      /\ over.cancel = "none" /\ over.bye = "none" /\ over.peer = "none" /\ over.armed = FALSE
  BY <1>6 DEF CallRecord, TsxState
<1>9. Refused(r, "invite") = Unlock(Disconnect(over))
  BY <1>6 DEF Refused
<1>12. Disconnect(over).dlg = over.dlg
  BY <1>8, DisconnectFields
<1> HIDE DEF over
<1> DEFINE d == Disconnect(over)
           u == Unlock(d)
<1>10. /\ d.inv = "DISCONNECTED" /\ d.invite = "terminated" /\ d.cancel = "none"
       /\ d.bye = "none" /\ d.peer = "none" /\ d.armed = FALSE
  BY <1>8, DisconnectFields
<1>11. /\ u.inv = "DISCONNECTED" /\ u.invite = "terminated" /\ u.cancel = "none"
       /\ u.bye = "none" /\ u.peer = "none" /\ u.armed = FALSE
  <2>1. Counted(r) /\ ~Pending(r.invite)
    <3>1. NoCall.tsxs = 0
      BY DEF NoCall
    <3>2. r.dlg = "live" /\ r.sess = 1 /\ r.tsxs = 0
      BY <1>4, <3>1 DEF CallRecord, r
    <3>3. Sum(r) = 0
      BY <1>6 DEF Sum, B, Pending
    <3> QED
      BY <1>6, <3>2, <3>3 DEF Counted, Count, B, Pending
  <2>2. d \in CallRecord
    BY <2>1, RefusedCounted DEF Counted, Count, over, Kind
  <2> HIDE DEF d
  <2> QED
    BY <1>10, <2>2, UnlockRest
<1> HIDE DEF u
<1>13. CASE call' = [call EXCEPT ![c] = s]
  <2>1. Timed(s) /\ Onward(call[c], s)
    BY <1>3, <1>5, <1>7 DEF Timed, Onward, Rank
  <2> HIDE DEF c
  <2>2. NoStepBack /\ \A e \in Call : Timed(call'[e])
    BY <1>2, <1>13, <2>1, RecordStep
  <2> QED
    BY <1>1, <2>2 DEF TimedInv, PlaceTimed
<1>14. CASE call' = [call EXCEPT ![c] = Refused(r, "invite")]
  <2>1. Timed(u) /\ Onward(call[c], u)
    BY <1>3, <1>5, <1>11 DEF Timed, Onward, Rank
  <2>3. call' = [call EXCEPT ![c] = u]
    BY <1>9, <1>14 DEF u
  <2> HIDE DEF c
  <2>2. NoStepBack /\ \A e \in Call : Timed(call'[e])
    BY <1>2, <2>1, <2>3, RecordStep
  <2> QED
    BY <1>1, <2>2 DEF TimedInv, PlaceTimed
<1> QED
  BY <1>1, <1>13, <1>14

(* A BYE is asked for when the INVITE is over. *)
LEMMA EndSessionTimed ==
  ASSUME IInv, IInv', process = "up", TimedInv, EndSession
  PROVE  TimedInv' /\ NoStepBack
<1> DEFINE r == call[cur]
           u == [r EXCEPT !.ended = "BYE"]
<1>1. ~Dead /\ gui = "end" /\ cur' = cur /\ found' = Found(r)
  BY DEF EndSession, SendByeOnly
<1>2. cur \in Call /\ r \in CallRecord /\ Timed(r) /\ r.inv # "NULL"
  BY <1>1, CurCall, LiveTimed
<1>3. CASE Found(r) = "established"
  <2>1. gui' = "send" /\ tdata' = "BYE" /\ call' = [call EXCEPT ![cur] = u]
    BY <1>3, <1>2 DEF EndSession, IInv, TypeOK
  <2>2. r.invite = "terminated"
    BY <1>2, <1>3 DEF Found, Timed
  <2>3. /\ u.inv = r.inv /\ u.invite = r.invite /\ u.cancel = r.cancel /\ u.bye = r.bye
        /\ u.peer = r.peer /\ u.armed = r.armed
    BY <1>2 DEF CallRecord
  <2> HIDE DEF u
  <2>4. Timed(u) /\ Onward(r, u)
    BY <1>2, <2>3 DEF Timed, Onward, Rank
  <2>5. PlaceTimed(u, gui', tdata')
    BY <2>1, <2>2, <2>3 DEF PlaceTimed
  <2> QED
    BY <1>1, <1>2, <2>1, <2>4, <2>5, ByeTimed
<1>4. CASE Found(r) # "established"
  <2>1. call' = call /\ tdata' = tdata /\ gui' \in {"ringing", "send"}
    BY <1>4 DEF EndSession
  <2>2. tdata = "garbage"
    BY <1>1 DEF IInv, CurInv
  <2>3. PlaceTimed(r, gui', tdata')
    BY <2>1, <2>2 DEF PlaceTimed
  <2> QED
    BY <1>1, <2>1, <2>3, QuietTimed
<1> QED
  BY <1>3, <1>4

(* A CANCEL is made when a provisional response has been read. *)
LEMMA ReadTimed ==
  ASSUME IInv, process = "up", TimedInv, CheckInvite \/ ReadStatus \/ CreateCancel
  PROVE  TimedInv' /\ NoStepBack
<1> DEFINE r == call[cur]
<1>1. /\ ~Dead /\ gui \in {"ringing", "status", "cancel"}
      /\ UNCHANGED <<call, cur, tdata>>
  BY DEF CheckInvite, ReadStatus, CreateCancel, SendByeOnly
<1>2. cur \in Call /\ r \in CallRecord /\ Timed(r) /\ r.inv # "NULL"
  BY <1>1, CurCall, LiveTimed
<1>3. tdata = "garbage"
  BY <1>1, Reading DEF ReadPlace
<1>4. gui' \in {"cancel", "timeout"} => Rank(r.invite) >= 2
  <2>1. CASE CheckInvite
    BY <2>1 DEF CheckInvite
  <2>2. CASE ReadStatus
    BY <1>2, <2>2 DEF ReadStatus, Timed, Rank
  <2>3. CASE CreateCancel
    BY <1>2, <2>3 DEF CreateCancel, TimedInv, PlaceTimed
  <2> QED
    BY <2>1, <2>2, <2>3
<1>5. PlaceTimed(r, gui', tdata')
  BY <1>1, <1>3, <1>4 DEF PlaceTimed
<1> QED
  BY <1>1, <1>5, QuietTimed

LEMMA DelayTimed ==
  ASSUME IInv, IInv', process = "up", TimedInv, DelayCancel
  PROVE  TimedInv' /\ NoStepBack
<1> DEFINE r == call[cur]
           u == [r EXCEPT !.pendCancel = TRUE, !.ended = "NULL"]
<1>1. ~Dead /\ cur' = cur /\ tdata' = "NULL" /\ gui' = "send"
  BY DEF DelayCancel, SendByeOnly
<1>2. cur \in Call /\ r \in CallRecord /\ Timed(r) /\ r.inv # "NULL"
  BY <1>1, CurCall, LiveTimed
<1>3. call' = [call EXCEPT ![cur] = u]
  BY <1>2 DEF DelayCancel, IInv, TypeOK
<1>4. /\ u.inv = r.inv /\ u.invite = r.invite /\ u.cancel = r.cancel /\ u.bye = r.bye
      /\ u.peer = r.peer /\ u.armed = r.armed
  BY <1>2 DEF CallRecord
<1> HIDE DEF u
<1>5. Timed(u) /\ Onward(r, u)
  BY <1>2, <1>4 DEF Timed, Onward, Rank
<1>6. PlaceTimed(u, gui', tdata')
  BY <1>1 DEF PlaceTimed
<1> QED
  BY <1>1, <1>2, <1>3, <1>5, <1>6, ByeTimed

(* The INVITE's timeout is armed, or the INVITE is over. *)
LEMMA SetTimeoutTimed ==
  ASSUME IInv, IInv', process = "up", TimedInv, SetTimeout
  PROVE  TimedInv' /\ NoStepBack
<1> DEFINE r == call[cur]
           u == [r EXCEPT !.armed = @ \/ ~InviteGone, !.ended = "CANCEL"]
<1>1. ~Dead /\ cur' = cur /\ gui = "timeout"
  BY DEF SetTimeout, SendByeOnly
<1>2. cur \in Call /\ r \in CallRecord /\ Timed(r) /\ r.inv # "NULL"
  BY <1>1, CurCall, LiveTimed
<1>3. Rank(r.invite) >= 2 /\ PlaceTimed(r, gui, tdata)
  BY <1>1, <1>2 DEF TimedInv, PlaceTimed
<1>4. CASE /\ tdata' = "CANCEL" /\ gui' = "send"
           /\ call' = [call EXCEPT ![cur].armed = @ \/ ~InviteGone, ![cur].ended = "CANCEL"]
  <2>1. call' = [call EXCEPT ![cur] = u]
    BY <1>2, <1>4 DEF IInv, TypeOK
  <2>2. /\ u.inv = r.inv /\ u.invite = r.invite /\ u.cancel = r.cancel /\ u.bye = r.bye
        /\ u.peer = r.peer /\ (r.armed => u.armed) /\ (InviteGone \/ u.armed)
    BY <1>2 DEF CallRecord
  <2>3. InviteGone => r.invite = "terminated"
    BY <1>2, <1>3 DEF InviteGone, Pending, Rank, CallRecord, TsxState
  <2> HIDE DEF u
  <2>4. Timed(u) /\ Onward(r, u)
    BY <1>2, <2>2 DEF Timed, Onward, Rank
  <2>5. PlaceTimed(u, gui', tdata')
    BY <1>3, <1>4, <2>2, <2>3 DEF PlaceTimed
  <2> QED
    BY <1>1, <1>2, <2>1, <2>4, <2>5, ByeTimed
<1>5. CASE UNCHANGED <<call, gui, tdata>>
  BY <1>1, <1>3, <1>5, QuietTimed
<1> QED
  BY <1>4, <1>5 DEF SetTimeout

(* What has been asked for is sent, or refused: both fit the INVITE.        *)
LEMMA SendMsgTimed ==
  ASSUME IInv, IInv', process = "up", TimedInv, SendMsg
  PROVE  TimedInv' /\ NoStepBack
<1> DEFINE r == call[cur]
           k == IF tdata = "BYE" THEN "bye" ELSE "cancel"
           s == StartTsx(r, k)
           e == [r EXCEPT !.ended = "unsent"]
<1>1. /\ gui = "send" /\ ~Dead /\ tdata \in {"CANCEL", "BYE"} /\ gui' = "terminate" /\ cur' = cur
      /\ \/ call' = [call EXCEPT ![cur] = s]
         \/ call' = [call EXCEPT ![cur] = Refused(e, k)]
  BY DEF SendMsg, SendByeOnly
<1>2. cur \in Call /\ r \in CallRecord /\ Timed(r) /\ Counted(r) /\ r.inv # "NULL"
  BY <1>1, CurCall, LiveTimed
<1>3. /\ k \in {"cancel", "bye"} /\ r[k] = "none"
      /\ k = "cancel" => Rank(r.invite) >= 2 /\ (r.armed \/ r.invite = "terminated")
      /\ k = "bye" => r.invite = "terminated"
  <2>1. PlaceInv(r, gui, tdata, found)
    BY <1>1 DEF IInv, CurInv, ByePlace
  <2>2. PlaceTimed(r, gui, tdata)
    BY <1>2 DEF TimedInv
  <2> QED
    BY <1>1, <2>1, <2>2 DEF PlaceInv, PlaceTimed
<1>4. k = "cancel" => r.invite \notin {"none", "calling"}
  BY <1>3 DEF Rank
<1>5. \A u : PlaceTimed(u, gui', tdata')
  BY <1>1 DEF PlaceTimed
<1>6. ASSUME NEW u, call' = [call EXCEPT ![cur] = u],
             \A l \in Kind \ {k} : u[l] = r[l], u[k] \in {"calling", "terminated"},
             u.inv = r.inv \/ u.inv = "DISCONNECTED", u.armed = r.armed
      PROVE  TimedInv' /\ NoStepBack
  <2>1. CASE k = "bye"
    <3>1. /\ u.invite = r.invite /\ u.cancel = r.cancel /\ u.peer = r.peer
          /\ u.bye \in {"calling", "terminated"} /\ r.bye = "none"
      BY <1>3, <1>6, <2>1 DEF Kind
    <3>2. Timed(u)
      BY <1>2, <1>3, <1>6, <2>1, <3>1 DEF Timed
    <3>3. Onward(r, u)
      BY <1>6, <3>1 DEF Onward, Rank
    <3> QED
      BY <1>1, <1>2, <1>6, <1>5, <3>2, <3>3, ByeTimed
  <2>2. CASE k = "cancel"
    <3>1. /\ u.invite = r.invite /\ u.bye = r.bye /\ u.peer = r.peer
          /\ u.cancel \in {"calling", "terminated"} /\ r.cancel = "none"
      BY <1>3, <1>6, <2>2 DEF Kind
    <3>2. Timed(u)
      BY <1>2, <1>3, <1>4, <1>6, <2>2, <3>1 DEF Timed
    <3>3. Onward(r, u)
      BY <1>6, <3>1 DEF Onward, Rank
    <3> QED
      BY <1>1, <1>2, <1>6, <1>5, <3>2, <3>3, ByeTimed
  <2> QED
    BY <1>3, <2>1, <2>2
<1> HIDE DEF k
<1>7. CASE call' = [call EXCEPT ![cur] = s]
  <2>1. /\ s.inv = r.inv /\ s[k] = "calling" /\ (\A l \in Kind \ {k} : s[l] = r[l])
        /\ s.armed = r.armed
    BY <1>2, <1>3 DEF StartTsx, CallRecord, Kind
  <2> HIDE DEF s, r
  <2> QED
    BY <1>6, <1>7, <2>1
<1>8. CASE call' = [call EXCEPT ![cur] = Refused(e, k)]
  <2> DEFINE over == [e EXCEPT ![k] = "terminated"]
  <2>1. /\ e \in CallRecord /\ e.dlg = r.dlg /\ e.inv = r.inv /\ e.tsxs = r.tsxs
        /\ e.sess = r.sess /\ e.armed = r.armed /\ \A l \in Kind : e[l] = r[l]
    BY <1>2 DEF CallRecord, Kind
  <2> HIDE DEF e
  <2>2. Counted(e) /\ ~Pending(e[k])
    <3>1. Counted(e)
      BY <1>2, <2>1, SameCounted DEF Counted, Count
    <3> QED
      BY <1>3, <2>1, <3>1 DEF Pending, Kind
  <2>3. over \in CallRecord /\ Disconnect(over) \in CallRecord
    <3>1. k \in {"invite", "cancel", "bye"}
      BY <1>3
    <3>2. Counted(over) /\ Counted(Disconnect(over))
      BY <2>2, <3>1, RefusedCounted
    <3> QED
      BY <3>2 DEF Counted, Count
  <2>4. /\ over.inv = r.inv /\ over.armed = r.armed /\ over[k] = "terminated"
        /\ \A l \in Kind \ {k} : over[l] = r[l]
    BY <1>3, <2>1 DEF CallRecord, Kind
  <2> HIDE DEF over, r
  <2>5. PICK v \in {over, Disconnect(over)} : Refused(e, k) = Unlock(v)
    BY DEF Refused, over
  <2>6. /\ v \in CallRecord /\ (v.inv = r.inv \/ v.inv = "DISCONNECTED")
        /\ v.armed = r.armed /\ v[k] = "terminated" /\ \A l \in Kind \ {k} : v[l] = r[l]
    <3>1. \A l \in Kind : Disconnect(over)[l] = over[l]
      BY <2>3, DisconnectFields DEF Kind
    <3> QED
      BY <1>3, <2>3, <2>4, <2>5, <3>1, DisconnectFields DEF Kind
  <2> DEFINE w == Unlock(v)
  <2>7. /\ w.inv = v.inv /\ w.armed = v.armed /\ \A l \in Kind : w[l] = v[l]
    BY <2>6, UnlockRest DEF Kind
  <2>8. call' = [call EXCEPT ![cur] = w]
    BY <1>8, <2>5
  <2> HIDE DEF w
  <2>9. /\ \A l \in Kind \ {k} : w[l] = r[l]
        /\ w[k] \in {"calling", "terminated"}
        /\ w.inv = r.inv \/ w.inv = "DISCONNECTED"
        /\ w.armed = r.armed
    BY <1>3, <2>6, <2>7 DEF Kind
  <2> QED
    BY <1>6, <2>8, <2>9
<1> QED
  BY <1>1, <1>7, <1>8

(* pjsip_inv_terminate ends the INVITE's transaction with the session. *)
LEMMA TerminateTimed ==
  ASSUME IInv, IInv', process = "up", TimedInv, Terminate
  PROVE  TimedInv' /\ NoStepBack
<1> DEFINE r == call[cur]
           e == IF Pending(r.invite) THEN EndTsx(r, "invite") ELSE r
           d == Disconnect(e)
           u == Unlock(d)
<1>1. ~Dead /\ gui' = "unregister" /\ cur' = cur /\ call' = [call EXCEPT ![cur] = u]
  BY DEF Terminate, SendByeOnly
<1>2. cur \in Call /\ r \in CallRecord /\ Timed(r) /\ Counted(r) /\ r.inv # "NULL"
  BY <1>1, CurCall, LiveTimed
<1>3. /\ Counted(e) /\ e \in CallRecord /\ e.invite = "terminated"
      /\ e.cancel = r.cancel /\ e.bye = r.bye /\ e.peer = r.peer /\ e.armed = r.armed
  <2>1. CASE Pending(r.invite)
    <3> DEFINE t == EndTsx(r, "invite")
    <3>1. Counted(t)
      BY <1>2, <2>1, EndCounted DEF Kind
    <3>2. /\ t.invite = "terminated" /\ t.cancel = r.cancel /\ t.bye = r.bye
          /\ t.peer = r.peer /\ t.armed = r.armed
      BY <1>2 DEF EndTsx, CallRecord
    <3> HIDE DEF t
    <3>3. e = t
      BY <2>1 DEF t
    <3> HIDE DEF e
    <3> QED
      BY <3>1, <3>2, <3>3 DEF Counted, Count
  <2>2. CASE ~Pending(r.invite)
    <3>1. r.invite = "terminated"
      BY <1>2, <2>2 DEF Timed, Pending, CallRecord, TsxState
    <3> QED
      BY <1>2, <2>2, <3>1
  <2> QED
    BY <2>1, <2>2
<1> HIDE DEF e
<1>4. /\ d \in CallRecord /\ d.inv = "DISCONNECTED" /\ d.invite = "terminated"
      /\ d.cancel = r.cancel /\ d.bye = r.bye /\ d.peer = r.peer /\ d.armed = r.armed
  <2>1. d \in CallRecord
    BY <1>3, DisconnectCounted DEF Counted, Count
  <2> QED
    BY <1>3, <2>1, DisconnectFields
<1> HIDE DEF d
<1>5. /\ u.inv = "DISCONNECTED" /\ u.invite = "terminated"
      /\ u.cancel = r.cancel /\ u.bye = r.bye /\ u.peer = r.peer /\ u.armed = r.armed
  BY <1>4, UnlockRest
<1> HIDE DEF u
<1>6. Timed(u)
  BY <1>2, <1>5 DEF Timed
<1>7. Onward(r, u)
  BY <1>2, <1>5 DEF Onward, Rank, CallRecord, TsxState
<1>8. PlaceTimed(u, gui', tdata')
  BY <1>1 DEF PlaceTimed
<1> QED
  BY <1>1, <1>2, <1>6, <1>7, <1>8, ByeTimed

LEMMA RxTimed ==
  ASSUME IInv, IInv', TimedInv, NEW c \in Call, Rx(c)
  PROVE  TimedInv' /\ NoStepBack
BY RxProvisionalTimed, RxAnswerTimed, RxAnswerAgainTimed, RxFailureTimed, RxByeTimed,
   RxByeFinalTimed, RxCancelFinalTimed DEF Rx

LEMMA DeviceQuiet ==
  ASSUME NEW c \in Call, Device(c)
  PROVE  UNCHANGED <<call, gui, tdata, cur>>
BY DEF Device, DevInvite, DevAnswer, DevRefuse, DevAck, DevCancel, DevBye, DevHangUp,
   Camera, guiVars

LEMMA NextTimed == IInv /\ IInv' /\ TimedInv /\ [Next]_vars => TimedInv' /\ NoStepBack
<1> SUFFICES ASSUME IInv, IInv', TimedInv, [Next]_vars
             PROVE  TimedInv' /\ NoStepBack
  OBVIOUS
<1>1. ASSUME UNCHANGED <<call, cur>>,
             UNCHANGED <<gui, tdata>> \/ gui' \in {"idle", "invite", "end", "terminate"}
      PROVE  TimedInv' /\ NoStepBack
  BY <1>1, QuietTimed DEF TimedInv, PlaceTimed
<1>2. CASE Next
  <2>1. process = "up"
    BY <1>2 DEF Next
  <2>2. CASE Play \/ Stop
    BY <1>1, <2>2 DEF Play, Stop
  <2>3. CASE SendInviteStep
    <3>1. CASE SendInvite
      BY <2>1, <3>1, SendInviteTimed
    <3>2. CASE SendInviteBadUri \/ SendInviteRefused \/ SendInviteStale
      BY <1>1, <3>2 DEF SendInviteBadUri, SendInviteRefused, SendInviteStale
    <3> QED
      BY <2>3, <3>1, <3>2 DEF SendInviteStep
  <2>4. CASE EndSessionStep
    BY <2>1, <2>4, EndSessionTimed, ReadTimed, DelayTimed, SetTimeoutTimed DEF EndSessionStep
  <2>5. CASE SendByeStep
    <3>1. CASE SendMsg \/ Terminate
      BY <2>1, <3>1, SendMsgTimed, TerminateTimed
    <3>2. CASE SendNull \/ Unregister \/ UseDead
      BY <1>1, <3>2 DEF SendNull, Unregister, UseDead, End, SendByeOnly
    <3> QED
      BY <2>4, <2>5, <3>1, <3>2 DEF SendByeStep
  <2>6. CASE \E c \in Call : Rx(c) \/ Device(c) \/ \E k \in Kind : Timeout(c, k)
    BY <1>1, <2>6, RxTimed, DeviceQuiet, TimeoutTimed
  <2> QED
    BY <1>2, <2>2, <2>3, <2>5, <2>6 DEF Next, GuiWork
<1>3. CASE UNCHANGED vars
  BY <1>1, <1>3 DEF vars, guiVars
<1> QED
  BY <1>2, <1>3

LEMMA InitTimed == Init => TimedInv
<1>1. Timed(NoCall)
  BY DEF NoCall, Timed
<1> QED
  BY <1>1 DEF Init, TimedInv, PlaceTimed

LEMMA TimedInvariance == Spec => [](IInv /\ TimedInv) /\ [][NoStepBack]_vars
<1>1. IInv /\ TimedInv /\ [Next]_vars => IInv' /\ TimedInv' /\ NoStepBack
  BY NextIInv, NextTimed
<1>2. IInv /\ TimedInv /\ [Next]_vars => (IInv /\ TimedInv)'
  BY <1>1
<1>3. IInv /\ TimedInv /\ [Next]_vars => [NoStepBack]_vars
  BY <1>1
<1> QED
  BY <1>2, <1>3, InitIInv, InitTimed, PTL DEF Spec

LEMMA TimedLeft == IInv /\ TimedInv => EndedCallIsTimed
<1> SUFFICES ASSUME IInv, TimedInv, NEW c \in Call,
                    call[c].inv = "DISCONNECTED", call[c].dlg = "live"
             PROVE  Under(call[c]) # {} /\ \A k \in Under(call[c]) : Ticking(call[c], k)
  BY DEF EndedCallIsTimed
<1>1. /\ call[c] \in CallRecord /\ Timed(call[c]) /\ call[c].sess = 0
      /\ call[c].tsxs = Sum(call[c]) /\ call[c].sess + call[c].tsxs > 0
  BY DEF IInv, CallInv, Good, Count, B, TimedInv
<1>2. Under(call[c]) # {}
  <2>1. \E k \in Kind : Pending(call[c][k])
    BY <1>1 DEF Sum, B, Kind
  <2> QED
    BY <2>1 DEF Under
<1>3. ASSUME NEW k \in Kind, Pending(call[c][k])
      PROVE  Ticking(call[c], k)
  BY <1>1, <1>3 DEF Timed, Ticking, Pending, Kind
<1> QED
  BY <1>2, <1>3 DEF Under

-----------------------------------------------------------------------------
(* The theorems *)

(* The types of the application's and the calls' state. *)
THEOREM TypeCorrect == Spec => []TypeOK
<1>1. IInv => TypeOK
  BY DEF IInv
<1> QED
  BY <1>1, Invariance, PTL

(* The two reference counts of every dialog are exact, and it is freed with *)
(* the last of them: whatever the order in which sendBye, the camera, the   *)
(* network and the timers end the call.                                     *)
THEOREM CountsAreExact == Spec => []DialogLifetime
BY Invariance, LifetimeInv, PTL

(* Between the calls of sendBye, and between the reads that its first one   *)
(* makes without a lock, the event loop cannot take the dialog away, unless *)
(* the transport refused the request.                                       *)
THEOREM SendByeIsSafe == Spec => []SendByeHoldsDialog
BY Invariance, HoldsInv, PTL

(* onStop uses memory that is freed or was never written only when the call *)
(* is over already, or was answered while pjsip_inv_end_session read it as  *)
(* ringing.                                                                 *)
THEOREM UndefinedOnlyWhenOver == Spec => []UndefinedNeedsDeadCall
<1>1. IInv => UndefinedNeedsDeadCall
  BY DEF IInv, CurInv, UndefinedNeedsDeadCall
<1> QED
  BY <1>1, Invariance, PTL

(* A second onPlay gets to the stale module and dialog only past the        *)
(* receiver of the first, which it must leave behind on its port.           *)
THEOREM StaleOnlyWhenLeaked == Spec => []StaleNeedsLeak
<1>1. IInv => StaleNeedsLeak
  BY DEF IInv, GuiInv, StaleNeedsLeak
<1> QED
  BY <1>1, Invariance, PTL

(* A call that sendBye found established is taken leave of: a camera left   *)
(* streaming was cancelled too late, or the transport refused the request.  *)
THEOREM LeftStreamingOnlyByCancel == Spec => []AbandonedOnlyByCancel
BY Invariance, AbandonedInv, PTL

(* A call that is over waits for timers and for nothing else: something of  *)
(* it is left, and whatever is left is a transaction that its own timer     *)
(* ends, so that neither a silent camera nor a lost message keeps it.       *)
THEOREM OnlyTimersAreLeft == Spec => []EndedCallIsTimed
BY TimedInvariance, TimedLeft, PTL

(* And no step of anybody sets it back: what is over stays over, and a      *)
(* transaction only ever comes nearer to its end.                           *)
THEOREM NothingIsSetBack == Spec => [][NoStepBack]_vars
BY TimedInvariance, PTL

=============================================================================
