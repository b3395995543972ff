--------------------------- MODULE MediaPlay_proofs ---------------------------
(* Theorems about MediaPlay for any number of clicks, ports and frames, and  *)
(* their proofs.                                                             *)
EXTENDS MediaPlay, SequenceTheorems, TLAPS

-----------------------------------------------------------------------------
(* Where each receiver is, given what the GUI thread does *)

(* A receiver that does not exist yet is in no use at all; a stopped one has *)
(* given up session and port, unless it is just being destroyed.             *)
Unused(i) == rx[i].pc = "none" /\ rx[i].holds = {} /\ i \notin stopped
InUse(i) ==
  /\ rx[i].pc # "none"
  /\ rx[i].pc = "done" => rx[i].over
  /\ i \in stopped => rx[i].over
  /\ rx[i].over => rx[i].session = "destroyed" \/ (gui \in {"destroy", "bye"} /\ obj = i)
  /\ rx[i].session = "destroyed" => rx[i].holds = {}
  /\ rx[i].session # "none"
  /\ rx[i].session = "closing" => rx[i].over
  /\ i < plays /\ i \notin forgotten => i \in stopped
Place ==
  /\ gui \in {"destroy", "bye", "free", "join"} => obj \in 1..plays /\ rx[obj].over
  /\ gui \in {"destroy", "free", "join"} => rx[obj].session # "closing"
  /\ \A i \in 1..plays : InUse(i)
  /\ \A i \in Id : i > plays => Unused(i)
  /\ \A k \in 1..Len(queue) : queue[k] <= plays

PlaceInv == TypeOK /\ Place

LEMMA Numbers ==
  ASSUME TypeOK
  PROVE  /\ plays \in 0..MaxPlays /\ plays \in Nat /\ MaxPlays \in Nat /\ MaxFrames \in Nat
         /\ frames \in 0..MaxFrames
         /\ rx \in [Id -> Receiver] /\ \A i \in 1..plays : i \in Id
BY BoundAssumption DEF TypeOK, Id

LEMMA PlaceInit == Init => PlaceInv
<1> SUFFICES ASSUME Init PROVE PlaceInv
  OBVIOUS
<1>1. NoReceiver \in Receiver
  BY BoundAssumption DEF NoReceiver, Receiver
<1>2. queue \in Seq(Id) /\ Len(queue) = 0
  BY EmptySeq DEF Init
<1>3. TypeOK
  <2>1. rx \in [Id -> Receiver] /\ stray \in [Id -> Nat]
    BY <1>1 DEF Init
  <2>2. plays \in 0..MaxPlays /\ obj \in 0..plays /\ newest \in 0..plays
        /\ frames \in 0..MaxFrames
    BY BoundAssumption DEF Init
  <2> QED BY <1>2, <2>1, <2>2 DEF Init, TypeOK
<1>4. Place
  BY <1>2, BoundAssumption DEF Init, Place, Unused, NoReceiver, Id
<1> QED BY <1>3, <1>4 DEF PlaceInv

(* Only the record of a receiver in use changes, and not what the others see. *)
LEMMA PlaceReplace ==
  ASSUME PlaceInv, NEW i \in 1..plays, NEW r \in Receiver,
         rx' = [rx EXCEPT ![i] = r], UNCHANGED <<plays, gui, obj, stopped, forgotten>>,
         r.over = rx[i].over, r.session = rx[i].session, r.holds = rx[i].holds,
         r.pc # "none", r.pc = "done" => r.over
  PROVE  /\ rx' \in [Id -> Receiver]
         /\ \A j \in 1..plays' : InUse(j)'
         /\ \A j \in Id : j > plays' => Unused(j)'
         /\ gui' \in {"destroy", "bye", "free", "join"} => obj' \in 1..plays' /\ rx'[obj'].over
         /\ gui' \in {"destroy", "free", "join"} => rx'[obj'].session # "closing"
<1>1. i \in Id /\ rx \in [Id -> Receiver] /\ plays \in Nat /\ \A j \in 1..plays : j \in Id
  BY Numbers DEF PlaceInv
<1>2. rx' \in [Id -> Receiver] /\ rx'[i] = r /\ \A j \in Id : j # i => rx'[j] = rx[j]
  BY <1>1
<1>3. ASSUME NEW j \in 1..plays PROVE InUse(j)'
  <2>1. InUse(j) /\ j \in Id
    BY <1>1 DEF PlaceInv, Place
  <2>2. CASE j = i
    BY <1>2, <2>1, <2>2 DEF InUse
  <2>3. CASE j # i
    BY <1>2, <2>1, <2>3 DEF InUse
  <2> QED BY <2>2, <2>3
<1>4. ASSUME NEW j \in Id, j > plays PROVE Unused(j)'
  <2>1. j # i /\ Unused(j)
    BY <1>1, <1>4 DEF PlaceInv, Place
  <2> QED BY <1>2, <2>1 DEF Unused
<1>5. \A j \in Id : rx'[j].over = rx[j].over /\ rx'[j].session = rx[j].session
  BY <1>2
<1>6. gui \in {"destroy", "bye", "free", "join"} => obj \in 1..plays /\ rx[obj].over
  BY DEF PlaceInv, Place
<1>7. gui \in {"destroy", "free", "join"} => rx[obj].session # "closing"
  BY DEF PlaceInv, Place
<1> QED BY <1>1, <1>2, <1>3, <1>4, <1>5, <1>6, <1>7

LEMMA PlaceGoto ==
  ASSUME PlaceInv, NEW i \in 1..plays,
         NEW place \in {"top", "poll", "first", "inner", "get", "process", "next", "done"}, Goto(i, place),
         place = "done" => rx[i].over
  PROVE  PlaceInv'
<1> DEFINE r == [rx[i] EXCEPT !.pc = place]
<1>1. /\ rx' = [rx EXCEPT ![i] = r]
      /\ UNCHANGED <<frames, queue, plays, gui, obj, closing, process, stopped, forgotten, newest, stray>>
  BY DEF Goto, guiVars, history
<1>2. rx[i] \in Receiver
  BY Numbers DEF PlaceInv
<1>3. r \in Receiver /\ r.pc = place /\ r.over = rx[i].over /\ r.session = rx[i].session
      /\ r.holds = rx[i].holds
  BY <1>2 DEF Receiver
<1> HIDE DEF r
<1>4. /\ rx' \in [Id -> Receiver]
      /\ \A j \in 1..plays' : InUse(j)'
      /\ \A j \in Id : j > plays' => Unused(j)'
      /\ gui' \in {"destroy", "bye", "free", "join"} => obj' \in 1..plays' /\ rx'[obj'].over
      /\ gui' \in {"destroy", "free", "join"} => rx'[obj'].session # "closing"
  BY <1>1, <1>3, PlaceReplace
<1> QED BY <1>1, <1>4 DEF PlaceInv, TypeOK, Place

LEMMA PlaceEnd ==
  ASSUME PlaceInv, NEW why \in {"exit", "race", "bind", "wild", "freed", "overflow", "abort"}, End(why)
  PROVE  PlaceInv'
BY DEF End, guiVars, history, PlaceInv, TypeOK, Place, InUse, Unused

LEMMA PlaceEmit ==
  ASSUME PlaceInv, NEW i \in 1..plays, Emit(i)
  PROVE  PlaceInv'
<1> DEFINE r == [rx[i] EXCEPT !.pc = "inner"]
<1>1. /\ rx' = [rx EXCEPT ![i] = r] /\ queue' = Append(queue, i) /\ rx[i].pc = "process"
      /\ UNCHANGED <<plays, gui, obj, closing, process, stopped, forgotten, newest, stray>>
  BY DEF Emit, guiVars, history
<1>2. rx[i] \in Receiver /\ i \in Id /\ plays \in Nat /\ MaxFrames \in Nat
  BY Numbers DEF PlaceInv
<1>4. frames' \in 0..MaxFrames
  <2>1. frames < MaxFrames /\ frames' = frames + 1 /\ frames \in 0..MaxFrames
    BY Numbers DEF Emit, PlaceInv
  <2> QED BY <1>2, <2>1
<1>5. r \in Receiver /\ r.pc = "inner" /\ r.over = rx[i].over /\ r.session = rx[i].session
      /\ r.holds = rx[i].holds
  BY <1>2 DEF Receiver
<1> HIDE DEF r
<1>6. /\ rx' \in [Id -> Receiver]
      /\ \A j \in 1..plays' : InUse(j)'
      /\ \A j \in Id : j > plays' => Unused(j)'
      /\ gui' \in {"destroy", "bye", "free", "join"} => obj' \in 1..plays' /\ rx'[obj'].over
      /\ gui' \in {"destroy", "free", "join"} => rx'[obj'].session # "closing"
  BY <1>1, <1>5, PlaceReplace
<1>7. queue' \in Seq(Id) /\ \A k \in 1..Len(queue') : queue'[k] <= plays
  <2>1. queue \in Seq(Id) /\ \A k \in 1..Len(queue) : queue[k] <= plays
    BY DEF PlaceInv, TypeOK, Place
  <2>2. /\ queue' \in Seq(Id) /\ Len(queue') = Len(queue) + 1 /\ Len(queue) \in Nat
        /\ \A k \in 1..Len(queue) : queue'[k] = queue[k]
        /\ queue'[Len(queue) + 1] = i
    BY <1>1, <1>2, <2>1, AppendProperties, LenProperties
  <2> QED BY <1>2, <2>1, <2>2
<1> QED BY <1>1, <1>4, <1>6, <1>7 DEF PlaceInv, TypeOK, Place

LEMMA PlaceRun ==
  ASSUME PlaceInv, NEW i \in Id, RunStep(i)
  PROVE  PlaceInv' /\ i \in 1..plays
<1>1. i \in 1..plays
  <2>1. rx[i].pc # "none"
    BY DEF RunStep, TestOver, Poll, GotoFirst, TestInner, GetNextPacket, GotoNext, ProcessRTPPacket, Collect, Emit, BadCopy, Race
  <2>2. i \in Nat /\ i >= 1 /\ plays \in Nat
    BY Numbers DEF PlaceInv, Id
  <2> QED BY <2>1, <2>2 DEF PlaceInv, Place, Unused
<1>2. CASE TestOver(i)
  BY <1>1, <1>2, PlaceGoto DEF TestOver
<1>3. CASE Poll(i)
  BY <1>1, <1>3, PlaceGoto, PlaceEnd DEF Poll
<1>4. CASE GotoFirst(i) \/ GotoNext(i)
  BY <1>1, <1>4, PlaceGoto DEF GotoFirst, GotoNext
<1>5. CASE TestInner(i)
  BY <1>1, <1>5, PlaceGoto DEF TestInner
<1>6. CASE GetNextPacket(i)
  BY <1>1, <1>6, PlaceGoto DEF GetNextPacket
<1>7. CASE Collect(i)
  BY <1>1, <1>7, PlaceGoto DEF Collect
<1>8. CASE Emit(i)
  BY <1>1, <1>8, PlaceEmit
<1>9. CASE BadCopy(i) \/ Race(i)
  BY <1>1, <1>9, PlaceEnd DEF BadCopy, Race
<1> QED BY <1>1, <1>2, <1>3, <1>4, <1>5, <1>6, <1>7, <1>8, <1>9 DEF RunStep, ProcessRTPPacket

(* The two ways into destroy(): onStop, and the window's end. *)
LEMMA PlaceDestroy ==
  ASSUME PlaceInv, NEW i \in 1..plays, Destroy(i), gui \in {"idle", "join"},
         stopped' \in {stopped, stopped \cup {i}},
         UNCHANGED <<plays, frames, queue, process, forgotten, newest, stray>>, closing' \in BOOLEAN
  PROVE  PlaceInv'
<1> DEFINE r == [rx[i] EXCEPT !.over = TRUE]
<1>1. rx' = [rx EXCEPT ![i] = r] /\ gui' = "destroy" /\ obj' = i
  BY DEF Destroy
<1>2. rx[i] \in Receiver /\ i \in Id /\ plays \in Nat /\ rx \in [Id -> Receiver]
      /\ \A j \in 1..plays : j \in Id
  BY Numbers DEF PlaceInv
<1>3. r \in Receiver /\ r.over /\ r.pc = rx[i].pc /\ r.session = rx[i].session
      /\ r.holds = rx[i].holds
  BY <1>2 DEF Receiver
<1> HIDE DEF r
<1>4. rx' \in [Id -> Receiver] /\ rx'[i] = r /\ \A j \in Id : j # i => rx'[j] = rx[j]
  BY <1>1, <1>2, <1>3
<1>5. \A j \in 1..plays : InUse(j)
  BY DEF PlaceInv, Place
<1>6. ASSUME NEW j \in 1..plays PROVE InUse(j)'
  <2>1. CASE j = i
    BY <1>1, <1>3, <1>4, <1>5, <2>1 DEF InUse
  <2>2. CASE j # i
    BY <1>1, <1>2, <1>4, <1>5, <2>2 DEF InUse
  <2> QED BY <2>1, <2>2
<1>7. ASSUME NEW j \in Id, j > plays PROVE Unused(j)'
  <2>1. j # i /\ Unused(j)
    BY <1>2, <1>7 DEF PlaceInv, Place
  <2> QED BY <1>4, <2>1 DEF Unused
<1>8. rx[i].session # "closing"
  BY <1>5 DEF InUse
<1> QED BY <1>1, <1>2, <1>3, <1>4, <1>6, <1>7, <1>8 DEF PlaceInv, TypeOK, Place

LEMMA PlaceOnPlay ==
  ASSUME PlaceInv, NEW p \in Port, OnPlay(p)
  PROVE  PlaceInv'
<1>1. CASE \E i \in Id : p \in rx[i].holds
  BY <1>1, PlaceEnd DEF OnPlay
<1>2. CASE ~\E i \in Id : p \in rx[i].holds
  <2> DEFINE n == plays + 1
  <2>1. /\ plays' = n /\ rx' = [rx EXCEPT ![n] = New(p)] /\ gui = "idle" /\ plays < MaxPlays
        /\ forgotten' = forgotten \cup ({plays} \ ({0} \cup stopped))
        /\ UNCHANGED <<frames, queue, gui, obj, closing, process, stopped, newest, stray>>
    BY <1>2 DEF OnPlay
  <2>2. /\ plays \in Nat /\ MaxPlays \in Nat /\ MaxFrames \in Nat /\ rx \in [Id -> Receiver]
        /\ plays \in 0..MaxPlays
    BY Numbers DEF PlaceInv
  <2>3. n \in Id /\ n \in 1..MaxPlays /\ n > plays
    BY <2>1, <2>2 DEF Id
  <2>4. New(p) \in Receiver /\ New(p).pc = "top" /\ ~New(p).over /\ New(p).session = "created"
    BY <2>2 DEF New, Receiver
  <2>5. rx' \in [Id -> Receiver] /\ rx'[n] = New(p) /\ \A j \in Id : j # n => rx'[j] = rx[j]
    BY <2>1, <2>2, <2>3, <2>4
  <2>6. n \notin stopped
    BY <2>3 DEF PlaceInv, Place, Unused
  <2>7. ASSUME NEW j \in 1..plays' PROVE InUse(j)'
    <3>1. CASE j = n
      BY <2>1, <2>2, <2>4, <2>5, <2>6, <3>1 DEF InUse
    <3>2. CASE j # n
      <4>1. j \in 1..plays /\ j \in Id
        BY <2>1, <2>2, <3>2 DEF Id
      <4>2. InUse(j) /\ rx'[j] = rx[j]
        BY <2>5, <3>2, <4>1 DEF PlaceInv, Place
      <4>3. j < n /\ j \notin forgotten' => j \in stopped
        <5>1. CASE j = plays
          BY <2>1, <4>1, <5>1
        <5>2. CASE j # plays
          BY <2>1, <2>2, <4>1, <4>2, <5>2 DEF InUse
        <5> QED BY <5>1, <5>2
      <4> QED BY <2>1, <4>2, <4>3 DEF InUse
    <3> QED BY <3>1, <3>2
  <2>8. ASSUME NEW j \in Id, j > plays' PROVE Unused(j)'
    <3>1. j # n /\ j > plays
      BY <2>1, <2>2, <2>8 DEF Id
    <3> QED BY <2>1, <2>5, <3>1 DEF PlaceInv, Place, Unused
  <2>9. queue \in Seq(Id) /\ \A k \in 1..Len(queue) : queue[k] <= plays'
    <3>1. queue \in Seq(Id)
      BY DEF PlaceInv, TypeOK
    <3>2. ASSUME NEW k \in 1..Len(queue) PROVE queue[k] <= plays'
      <4>1. queue[k] \in Id
        BY <3>1, ElementOfSeq
      <4>2. queue[k] \in Nat
        BY <2>2, <4>1 DEF Id
      <4>3. queue[k] <= plays
        BY DEF PlaceInv, Place
      <4> HIDE DEF n
      <4> QED BY <2>1, <2>2, <4>2, <4>3 DEF n
    <3> QED BY <3>1, <3>2
  <2>10. plays' \in 0..MaxPlays /\ obj \in 0..plays' /\ newest \in 0..plays'
         /\ forgotten' \subseteq Id
    <3>1. obj \in 0..plays /\ newest \in 0..plays /\ forgotten \subseteq Id
      BY DEF PlaceInv, TypeOK
    <3>2. plays # 0 => plays \in Id
      BY <2>2 DEF Id
    <3>3. forgotten' \subseteq Id
      BY <2>1, <3>1, <3>2
    <3>4. plays' \in 0..MaxPlays
      BY <2>1, <2>2
    <3>5. obj \in 0..plays' /\ newest \in 0..plays'
      BY <2>1, <2>2, <3>1
    <3> QED BY <3>3, <3>4, <3>5
  <2>11. TypeOK'
    BY <2>1, <2>5, <2>9, <2>10 DEF PlaceInv, TypeOK
  <2> HIDE DEF n
  <2> QED BY <2>1, <2>7, <2>8, <2>9, <2>11 DEF PlaceInv, Place
<1> QED BY <1>1, <1>2

(* A step that ends a part of destroy(): the receiver at hand may change its *)
(* session and lose its port.                                                *)
LEMMA PlaceSession ==
  ASSUME PlaceInv, NEW r \in Receiver, obj \in 1..plays, rx' = [rx EXCEPT ![obj] = r],
         UNCHANGED <<plays, frames, queue, obj, closing, process, history>>,
         r.over, rx[obj].over, r.pc = rx[obj].pc,
         \/ gui' = "bye" /\ gui \in {"destroy", "bye"} /\ r.session # "none"
            /\ (r.session = "destroyed" => r.holds = {})
         \/ gui' \in {"idle", "free"} /\ r.session = "destroyed" /\ r.holds = {}
  PROVE  PlaceInv'
<1>1. obj \in Id /\ rx \in [Id -> Receiver] /\ plays \in Nat /\ \A j \in 1..plays : j \in Id
  BY Numbers DEF PlaceInv
<1>2. rx' \in [Id -> Receiver] /\ rx'[obj] = r /\ \A j \in Id : j # obj => rx'[j] = rx[j]
  BY <1>1
<1>3. UNCHANGED <<stopped, forgotten, newest, stray>>
  BY DEF history
<1>4. ASSUME NEW j \in 1..plays PROVE InUse(j)'
  <2>1. InUse(j) /\ j \in Id
    BY <1>1 DEF PlaceInv, Place
  <2>2. CASE j = obj
    BY <1>2, <1>3, <2>1, <2>2 DEF InUse
  <2>3. CASE j # obj
    BY <1>2, <1>3, <2>1, <2>3 DEF InUse
  <2> QED BY <2>2, <2>3
<1>5. ASSUME NEW j \in Id, j > plays PROVE Unused(j)'
  <2>1. j # obj /\ Unused(j)
    BY <1>1, <1>5 DEF PlaceInv, Place
  <2> QED BY <1>2, <1>3, <2>1 DEF Unused
<1> QED BY <1>2, <1>3, <1>4, <1>5 DEF PlaceInv, TypeOK, Place

LEMMA PlaceGui ==
  ASSUME PlaceInv, GuiStep
  PROVE  PlaceInv'
<1>0. /\ plays \in Nat /\ rx \in [Id -> Receiver] /\ \A j \in 1..plays : j \in Id
      /\ gui \in {"destroy", "bye", "free", "join"} => obj \in 1..plays /\ rx[obj].over
  BY Numbers DEF PlaceInv, Place
<1>1. CASE \E p \in Port : OnPlay(p)
  BY <1>1, PlaceOnPlay
<1>2. CASE OnStop
  <2>1. plays \in 1..plays
    BY <1>0, <1>2 DEF OnStop
  <2>2. Destroy(plays) /\ gui = "idle" /\ stopped' = stopped \cup {plays} /\ closing' \in BOOLEAN
        /\ UNCHANGED <<plays, frames, queue, process, forgotten, newest, stray>>
    BY <1>2 DEF OnStop, PlaceInv, TypeOK
  <2> QED BY <2>1, <2>2, PlaceDestroy
<1>3. CASE OnStopWild
  BY <1>3, PlaceEnd DEF OnStopWild
<1>4. CASE Close
  <2>1. CASE plays = 0
    BY <1>4, <2>1 DEF Close, PlaceInv, TypeOK, Place, InUse, Unused, history
  <2>2. CASE plays # 0
    <3>1. 1 \in 1..plays
      BY <1>0, <2>2
    <3>2. Destroy(1) /\ gui = "idle" /\ closing' \in BOOLEAN
          /\ UNCHANGED <<plays, frames, queue, process, stopped, forgotten, newest, stray>>
      BY <1>4, <2>2 DEF Close, history
    <3> QED BY <3>1, <3>2, PlaceDestroy
  <2> QED BY <2>1, <2>2
<1>5. CASE OnRecvedFrame
  <2>1. queue \in Seq(Id) /\ queue # <<>> /\ \A k \in 1..Len(queue) : queue[k] <= plays
    BY <1>5 DEF OnRecvedFrame, PlaceInv, TypeOK, Place
  <2>2. /\ queue' \in Seq(Id) /\ Len(queue) \in Nat /\ Len(queue) # 0
        /\ Len(queue') = Len(queue) - 1 /\ Head(queue) = queue[1] /\ queue[1] \in Id
        /\ \A k \in 1..Len(queue') : queue'[k] = queue[k + 1]
    BY <1>5, <2>1, HeadTailProperties, LenProperties, EmptySeq DEF OnRecvedFrame
  <2>3. \A k \in 1..Len(queue') : queue'[k] <= plays
    BY <2>1, <2>2
  <2>4. Head(queue) \in 0..plays
    <3>1. queue[1] <= plays
      BY <2>1, <2>2
    <3>2. queue[1] \in Nat
      BY <2>2, BoundAssumption DEF Id
    <3> QED BY <1>0, <2>2, <3>1, <3>2
  <2>5. newest' \in 0..plays /\ stray' \in [Id -> Nat]
    <3>1. newest \in 0..plays /\ stray \in [Id -> Nat] /\ Head(queue) \in Id /\ plays' = plays
      BY <1>5, <2>2 DEF OnRecvedFrame, guiVars, PlaceInv, TypeOK
    <3>2. CASE Head(queue) < newest
      <4>1. stray' = [stray EXCEPT ![Head(queue)] = @ + 1] /\ newest' = newest
        BY <1>5, <3>2 DEF OnRecvedFrame
      <4>2. stray[Head(queue)] + 1 \in Nat
        BY <3>1
      <4> QED BY <3>1, <4>1, <4>2
    <3>3. CASE ~(Head(queue) < newest)
      <4>1. newest' = Head(queue) /\ stray' = stray
        BY <1>5, <3>3 DEF OnRecvedFrame
      <4> QED BY <2>4, <3>1, <4>1
    <3> QED BY <3>2, <3>3
  <2>6. UNCHANGED <<rx, frames, plays, gui, obj, closing, process, stopped, forgotten>>
    BY <1>5 DEF OnRecvedFrame, guiVars
  <2> QED BY <2>2, <2>3, <2>5, <2>6 DEF PlaceInv, TypeOK, Place, InUse, Unused
<1>6. CASE ByeDestroyBegin
  <2>1. CASE rx[obj].session = "created"
    <3> DEFINE r == [rx[obj] EXCEPT !.session = "closing"]
    <3>1. obj \in 1..plays /\ rx[obj] \in Receiver /\ rx[obj].over
      BY <1>0, <1>6 DEF ByeDestroyBegin
    <3>2. r \in Receiver /\ r.over /\ r.pc = rx[obj].pc
          /\ r.session = "closing"
      BY <3>1 DEF Receiver
    <3>3. rx' = [rx EXCEPT ![obj] = r] /\ gui' = "bye" /\ gui = "destroy"
          /\ UNCHANGED <<plays, frames, queue, obj, closing, process, history>>
      BY <1>6, <2>1 DEF ByeDestroyBegin
    <3> HIDE DEF r
    <3> QED BY <3>1, <3>2, <3>3, PlaceSession
  <2>2. CASE rx[obj].session # "created"
    <3>1. /\ gui = "destroy" /\ gui' = AfterDestroy
          /\ UNCHANGED <<rx, plays, frames, queue, obj, closing, process, stopped, forgotten, newest, stray>>
      BY <1>6, <2>2 DEF ByeDestroyBegin, history
    <3>2. obj \in 1..plays /\ rx[obj].over /\ InUse(obj) /\ rx[obj] \in Receiver
          /\ rx[obj].session # "closing"
      BY <1>0, <3>1 DEF PlaceInv, Place
    <3>3. rx[obj].session = "destroyed"
      BY <2>2, <3>2 DEF InUse, Receiver
    <3>4. gui' \in {"idle", "free"}
      BY <3>1 DEF AfterDestroy
    <3>5. ASSUME NEW j \in 1..plays PROVE InUse(j)'
      <4>1. InUse(j)
        BY DEF PlaceInv, Place
      <4> QED BY <3>1, <3>3, <3>4, <4>1 DEF InUse
    <3> QED BY <3>1, <3>2, <3>3, <3>4, <3>5 DEF PlaceInv, TypeOK, Place, Unused
  <2> QED BY <2>1, <2>2
<1>7. CASE ByeDestroyEnd
  <2> DEFINE r == [rx[obj] EXCEPT !.session = "destroyed", !.holds = {}]
  <2>1. obj \in 1..plays /\ rx[obj] \in Receiver /\ rx[obj].over
    BY <1>0, <1>7 DEF ByeDestroyEnd
  <2>2. r \in Receiver /\ r.over /\ r.pc = rx[obj].pc
        /\ r.session = "destroyed" /\ r.holds = {}
    BY <2>1 DEF Receiver
  <2>3. rx' = [rx EXCEPT ![obj] = r] /\ gui' \in {"idle", "free"}
        /\ UNCHANGED <<plays, frames, queue, obj, closing, process, history>>
    BY <1>0, <1>7, <2>1 DEF ByeDestroyEnd, AfterDestroy
  <2> HIDE DEF r
  <2> QED BY <2>1, <2>2, <2>3, PlaceSession
<1>8. CASE DeleteThread
  <2>1. CASE rx[obj].pc # "done"
    BY <1>8, <2>1, PlaceEnd DEF DeleteThread
  <2>2. CASE rx[obj].pc = "done" /\ obj = plays
    BY <1>8, <2>2 DEF DeleteThread, PlaceInv, TypeOK, Place, InUse, Unused, history
  <2>3. CASE rx[obj].pc = "done" /\ obj # plays
    <3>1. obj + 1 \in 1..plays
      BY <1>0, <1>8, <2>3 DEF DeleteThread
    <3>2. Destroy(obj + 1) /\ gui = "join" /\ closing' \in BOOLEAN
          /\ UNCHANGED <<plays, frames, queue, process, stopped, forgotten, newest, stray>>
      BY <1>8, <2>3 DEF DeleteThread, history, PlaceInv, TypeOK
    <3> QED BY <3>1, <3>2, PlaceDestroy
  <2> QED BY <2>1, <2>2, <2>3
<1>9. CASE Free
  BY <1>9 DEF Free, history, PlaceInv, TypeOK, Place, InUse, Unused
<1> QED BY <1>1, <1>2, <1>3, <1>4, <1>5, <1>6, <1>7, <1>8, <1>9 DEF GuiStep

LEMMA PlaceNext == PlaceInv /\ [Next]_vars => PlaceInv'
<1> SUFFICES ASSUME PlaceInv, [Next]_vars PROVE PlaceInv'
  OBVIOUS
<1>1. CASE UNCHANGED vars
  BY <1>1 DEF vars, guiVars, history, PlaceInv, TypeOK, Place, InUse, Unused
<1> QED BY <1>1, PlaceRun, PlaceGui DEF Next

(* The type invariant holds in every state of every window. *)
THEOREM TypeCorrect == Spec => []TypeOK
<1>1. PlaceInv => TypeOK
  BY DEF PlaceInv
<1> QED BY <1>1, PlaceInit, PlaceNext, PTL DEF Spec

(* No port is held by a stopped receiver when the user may click, so only an *)
(* unstopped one can make init fail.                                         *)
THEOREM BindNeedsUnstoppedHolds == Spec => []BindNeedsUnstopped
<1>1. Init => BindNeedsUnstopped
  BY DEF Init, BindNeedsUnstopped
<1>2. PlaceInv /\ BindNeedsUnstopped /\ [Next]_vars => BindNeedsUnstopped'
  <2> SUFFICES ASSUME PlaceInv, BindNeedsUnstopped, Next PROVE BindNeedsUnstopped'
    BY DEF vars, guiVars, history, BindNeedsUnstopped
  <2>1. process = "up"
    BY DEF Next
  <2>2. CASE \E p \in Port : OnPlay(p) /\ \E i \in Id : p \in rx[i].holds
    <3>1. PICK p \in Port, i \in Id : OnPlay(p) /\ p \in rx[i].holds
      BY <2>2
    <3>2. gui = "idle" /\ UNCHANGED <<plays, stopped>>
      BY <3>1 DEF OnPlay, End, guiVars, history
    <3>3. i \in 1..plays
      BY <3>1, Numbers DEF PlaceInv, Place, Unused, Id
    <3>4. i \notin stopped
      BY <3>1, <3>2, <3>3 DEF PlaceInv, Place, InUse
    <3> QED BY <3>2, <3>3, <3>4 DEF BindNeedsUnstopped
  <2>3. CASE ~\E p \in Port : OnPlay(p) /\ \E i \in Id : p \in rx[i].holds
    <3>1. process' # "bind"
      BY <2>1, <2>3 DEF Next, GuiStep, OnPlay, OnStop, OnStopWild, Close, OnRecvedFrame,
                        ByeDestroyBegin, ByeDestroyEnd, Free, DeleteThread, RunStep, TestOver, Poll,
                        GotoFirst, TestInner, GetNextPacket, GotoNext, ProcessRTPPacket, Collect, Emit, BadCopy, Race, Goto, End
    <3> QED BY <3>1 DEF BindNeedsUnstopped
  <2> QED BY <2>2, <2>3
<1> QED BY <1>1, <1>2, PlaceInit, PlaceNext, PTL DEF Spec

(* With every thread out of run() no step of the window ends the program.    *)
THEOREM QuietIsSafeHolds == Spec => QuietIsSafe
<1>1. PlaceInv /\ [Next]_vars
        => [plays > 0 /\ (\A i \in 1..plays : rx[i].pc = "done") => process' = process]_vars
  <2> SUFFICES ASSUME PlaceInv, Next, plays > 0, \A i \in 1..plays : rx[i].pc = "done"
               PROVE  process' = process
    BY DEF vars
  <2>1. CASE \E i \in Id : RunStep(i)
    <3>1. PICK i \in Id : RunStep(i)
      BY <2>1
    <3>2. rx[i].pc = "done"
      BY <3>1, PlaceRun
    <3> QED BY <3>1, <3>2 DEF RunStep, TestOver, Poll, GotoFirst, TestInner, GetNextPacket, GotoNext,
                              ProcessRTPPacket, Collect, Emit, BadCopy, Race
  <2>2. CASE \E p \in Port : OnPlay(p)
    <3>1. PICK p \in Port : OnPlay(p)
      BY <2>2
    <3>2. gui = "idle"
      BY <3>1 DEF OnPlay
    <3>3. ASSUME NEW i \in Id PROVE rx[i].holds = {}
      <4>1. CASE i \in 1..plays
        BY <3>2, <4>1 DEF PlaceInv, Place, InUse
      <4>2. CASE i \notin 1..plays
        <5>1. i > plays
          BY <4>2, Numbers DEF PlaceInv, Id
        <5> QED BY <5>1 DEF PlaceInv, Place, Unused
      <4> QED BY <4>1, <4>2
    <3> QED BY <3>1, <3>3 DEF OnPlay
  <2>3. CASE DeleteThread
    <3>1. obj \in 1..plays
      BY <2>3 DEF DeleteThread, PlaceInv, Place
    <3> QED BY <2>3, <3>1 DEF DeleteThread
  <2>4. CASE OnStop \/ OnStopWild \/ Close \/ OnRecvedFrame \/ ByeDestroyBegin \/ ByeDestroyEnd \/ Free
    BY <2>4 DEF OnStop, OnStopWild, Close, OnRecvedFrame, ByeDestroyBegin, ByeDestroyEnd, Free
  <2> QED BY <2>1, <2>2, <2>3, <2>4 DEF Next, GuiStep
<1> QED BY <1>1, PlaceInit, PlaceNext, PTL DEF Spec, QuietIsSafe

-----------------------------------------------------------------------------
(* Frames of an old call *)

(* The frame at place k of the queue will be a stray one of receiver i. *)
Late(i, k) ==
  /\ queue[k] = i
  /\ newest > i \/ \E l \in 1..(k - 1) : queue[l] > i

(* All in all receiver i has one stray frame: seen, queued, or still to be   *)
(* emitted by a thread that is past the inner test.                          *)
Fades(i) ==
  /\ stray[i] <= 1 /\ (stray[i] > 0 => newest > i)
  /\ \A k, l \in 1..Len(queue) : Late(i, k) /\ Late(i, l) => k = l
  /\ \A k \in 1..Len(queue) : Late(i, k) => stray[i] = 0
  /\ rx[i].pc \in {"get", "process"} =>
       stray[i] = 0 /\ \A k \in 1..Len(queue) : ~Late(i, k)
FadeInv == \A i \in Id : i \notin forgotten => Fades(i)

LEMMA QueueType ==
  ASSUME PlaceInv
  PROVE  /\ queue \in Seq(Id) /\ Len(queue) \in Nat /\ newest \in Nat /\ newest <= plays
         /\ \A k \in 1..Len(queue) : queue[k] \in Id /\ queue[k] \in Nat /\ queue[k] <= plays
         /\ \A i \in Id : i \in Nat /\ stray[i] \in Nat
<1>1. queue \in Seq(Id) /\ newest \in 0..plays /\ plays \in Nat /\ stray \in [Id -> Nat]
      /\ \A k \in 1..Len(queue) : queue[k] <= plays
  BY Numbers DEF PlaceInv, TypeOK, Place
<1>2. Len(queue) \in Nat /\ \A k \in 1..Len(queue) : queue[k] \in Id
  BY <1>1, LenProperties, ElementOfSeq
<1>3. \A i \in Id : i \in Nat
  BY BoundAssumption DEF Id
<1> QED BY <1>1, <1>2, <1>3

(* Nothing of the receiver in use is a stray frame. *)
LEMMA NoneLaterYet ==
  ASSUME PlaceInv, FadeInv, NEW i \in Id, i \notin forgotten, ~rx[i].over, i <= plays
  PROVE  stray[i] = 0 /\ (\A k \in 1..Len(queue) : ~Late(i, k))
<1>1. /\ i \in Nat /\ stray[i] \in Nat /\ newest \in Nat /\ newest <= plays /\ Len(queue) \in Nat
      /\ \A k \in 1..Len(queue) : queue[k] \in Nat /\ queue[k] <= plays
  BY QueueType
<1>2. i \in 1..plays /\ plays \in Nat
  BY Numbers DEF PlaceInv, Id
<1>3. i = plays
  BY <1>2 DEF PlaceInv, Place, InUse
<1>4. stray[i] = 0
  BY <1>1, <1>3 DEF FadeInv, Fades
<1>5. ASSUME NEW k \in 1..Len(queue) PROVE ~Late(i, k)
  <2>1. \A l \in 1..(k - 1) : l \in 1..Len(queue)
    BY <1>1
  <2>2. \A l \in 1..(k - 1) : queue[l] <= i
    BY <1>1, <1>3, <2>1
  <2>3. \A l \in 1..(k - 1) : ~(queue[l] > i)
    BY <1>1, <2>1, <2>2
  <2> QED BY <1>1, <1>3, <2>3 DEF Late
<1> QED BY <1>4, <1>5

(* A step in which neither a frame is posted nor one is taken. *)
LEMMA FadeKeep ==
  ASSUME PlaceInv, FadeInv, UNCHANGED <<queue, newest, stray>>, forgotten \subseteq forgotten',
         \A i \in Id : rx'[i].pc \in {"get", "process"} =>
           rx[i].pc \in {"get", "process"} \/ (i <= plays /\ ~rx[i].over)
  PROVE  FadeInv'
<1> SUFFICES ASSUME NEW i \in Id, i \notin forgotten' PROVE Fades(i)'
  BY DEF FadeInv
<1>1. i \notin forgotten /\ Fades(i)
  BY DEF FadeInv
<1>2. \A k : Late(i, k)' <=> Late(i, k)
  BY DEF Late
<1>3. rx'[i].pc \in {"get", "process"} =>
        stray[i] = 0 /\ \A k \in 1..Len(queue) : ~Late(i, k)
  <2>1. CASE rx[i].pc \in {"get", "process"}
    BY <1>1, <2>1 DEF Fades
  <2>2. CASE i <= plays /\ ~rx[i].over
    BY <1>1, <2>2, NoneLaterYet
  <2> QED BY <2>1, <2>2
<1> QED BY <1>1, <1>2, <1>3 DEF Fades

(* The one frame past the inner test is posted. *)
LEMMA FadeEmit ==
  ASSUME PlaceInv, FadeInv, NEW j \in Id, Emit(j)
  PROVE  FadeInv'
<1> SUFFICES ASSUME NEW i \in Id, i \notin forgotten' PROVE Fades(i)'
  BY DEF FadeInv
<1>1. /\ rx' = [rx EXCEPT ![j].pc = "inner"] /\ queue' = Append(queue, j)
      /\ rx[j].pc = "process" /\ UNCHANGED <<forgotten, newest, stray>>
  BY DEF Emit, history
<1>2. Fades(i) /\ queue \in Seq(Id) /\ Len(queue) \in Nat /\ rx \in [Id -> Receiver]
      /\ newest \in Nat
  BY <1>1, QueueType, Numbers DEF FadeInv, PlaceInv
<1>3. /\ Len(queue') = Len(queue) + 1 /\ queue'[Len(queue) + 1] = j
      /\ \A k \in 1..Len(queue) : queue'[k] = queue[k]
  BY <1>1, <1>2, AppendProperties
<1>4. ASSUME NEW k \in 1..Len(queue), Late(i, k)' PROVE Late(i, k)
  <2>1. \A l \in 1..(k - 1) : queue'[l] = queue[l]
    BY <1>2, <1>3
  <2> QED BY <1>1, <1>3, <1>4, <2>1 DEF Late
<1>5. CASE i # j
  <2>1. queue'[Len(queue')] # i
    BY <1>3, <1>5
  <2>2. \A k \in 1..Len(queue') : Late(i, k)' => k \in 1..Len(queue) /\ Late(i, k)
    <3> SUFFICES ASSUME NEW k \in 1..Len(queue'), Late(i, k)'
                 PROVE  k \in 1..Len(queue) /\ Late(i, k)
      OBVIOUS
    <3>1. k # Len(queue')
      BY <2>1 DEF Late
    <3>2. k \in 1..Len(queue)
      BY <1>2, <1>3, <3>1
    <3> QED BY <1>4, <3>2
  <2>3. rx'[i] = rx[i]
    BY <1>1, <1>2, <1>5
  <2> QED BY <1>1, <1>2, <2>2, <2>3 DEF Fades
<1>6. CASE i = j
  <2>1. stray[i] = 0 /\ \A k \in 1..Len(queue) : ~Late(i, k)
    BY <1>1, <1>2, <1>6 DEF Fades
  <2>2. \A k \in 1..Len(queue') : Late(i, k)' => k = Len(queue) + 1
    BY <1>2, <1>3, <1>4, <2>1
  <2>3. rx'[i].pc = "inner"
    <3>1. rx'[j] = [rx[j] EXCEPT !.pc = "inner"] /\ rx[j] \in Receiver
      BY <1>1, <1>2
    <3> QED BY <1>6, <3>1 DEF Receiver
  <2> QED BY <1>1, <1>2, <2>1, <2>2, <2>3 DEF Fades
<1> QED BY <1>5, <1>6

(* The decoder takes the oldest frame: it was the stray one, or none of i's. *)
LEMMA FadeTake ==
  ASSUME PlaceInv, FadeInv, OnRecvedFrame
  PROVE  FadeInv'
<1> SUFFICES ASSUME NEW i \in Id, i \notin forgotten' PROVE Fades(i)'
  BY DEF FadeInv
<1> DEFINE h == queue[1]
<1>1. /\ queue # <<>> /\ queue' = Tail(queue) /\ UNCHANGED <<rx, forgotten>>
      /\ IF Head(queue) < newest
         THEN stray' = [stray EXCEPT ![Head(queue)] = @ + 1] /\ newest' = newest
         ELSE newest' = Head(queue) /\ stray' = stray
  BY DEF OnRecvedFrame, guiVars
<1>2. /\ Fades(i) /\ queue \in Seq(Id) /\ Len(queue) \in Nat /\ newest \in Nat
      /\ i \in Nat /\ stray[i] \in Nat /\ stray \in [Id -> Nat]
  BY <1>1, QueueType DEF FadeInv, PlaceInv, TypeOK
<1>3. /\ Len(queue) # 0 /\ Head(queue) = h /\ Len(queue') = Len(queue) - 1
      /\ \A k \in 1..Len(queue') : queue'[k] = queue[k + 1]
  BY <1>1, <1>2, HeadTailProperties, EmptySeq
<1>4. 1 \in 1..Len(queue) /\ h \in Id /\ h \in Nat
  <2>1. 1 \in 1..Len(queue)
    BY <1>2, <1>3
  <2> QED BY <2>1, QueueType
<1> HIDE DEF h
<1>5. newest' \in Nat /\ newest <= newest' /\ (newest' > i => newest > i \/ h > i)
  BY <1>1, <1>2, <1>3, <1>4
<1>6. ASSUME NEW k \in 1..Len(queue'), Late(i, k)' PROVE k + 1 \in 1..Len(queue) /\ Late(i, k + 1)
  <2>1. k \in Nat /\ k >= 1 /\ k + 1 \in 1..Len(queue)
    BY <1>2, <1>3
  <2>2. queue[k + 1] = i
    BY <1>3, <1>6 DEF Late
  <2>3. CASE newest' > i
    <3>1. CASE newest > i
      BY <2>1, <2>2, <3>1 DEF Late
    <3>2. CASE h > i
      <4>1. 1 \in 1..(k + 1 - 1) /\ queue[1] > i
        BY <2>1, <3>2 DEF h
      <4> QED BY <2>1, <2>2, <4>1 DEF Late
    <3> QED BY <1>5, <2>3, <3>1, <3>2
  <2>4. CASE ~(newest' > i)
    <3>1. PICK l \in 1..(k - 1) : queue'[l] > i
      BY <1>6, <2>4 DEF Late
    <3>2. l \in 1..Len(queue') /\ l + 1 \in 1..(k + 1 - 1)
      BY <1>2, <1>3, <2>1
    <3>3. queue[l + 1] > i
      BY <1>3, <3>1, <3>2
    <3> QED BY <2>1, <2>2, <3>2, <3>3 DEF Late
  <2> QED BY <2>3, <2>4
<1>7. CASE h = i /\ h < newest
  <2>1. stray'[i] = stray[i] + 1 /\ newest' = newest /\ newest > i
    BY <1>1, <1>2, <1>3, <1>4, <1>7
  <2>2. Late(i, 1)
    BY <1>7, <2>1 DEF Late, h
  <2>3. stray[i] = 0 /\ rx[i].pc \notin {"get", "process"}
    BY <1>2, <1>4, <2>2 DEF Fades
  <2>4. ASSUME NEW k \in 1..Len(queue'), Late(i, k)' PROVE FALSE
    <3>1. k + 1 \in 1..Len(queue) /\ Late(i, k + 1)
      BY <1>6, <2>4
    <3>2. k + 1 = 1
      BY <1>2, <1>4, <2>2, <3>1 DEF Fades
    <3> QED BY <3>2
  <2> QED BY <1>1, <2>1, <2>3, <2>4 DEF Fades
<1>8. CASE ~(h = i /\ h < newest)
  <2>1. stray'[i] = stray[i]
    BY <1>1, <1>2, <1>3, <1>4, <1>8
  <2>2. stray'[i] > 0 => newest' > i
    BY <1>2, <1>5, <2>1 DEF Fades
  <2>3. \A k, l \in 1..Len(queue') : Late(i, k)' /\ Late(i, l)' => k = l
    <3> SUFFICES ASSUME NEW k \in 1..Len(queue'), NEW l \in 1..Len(queue'),
                        Late(i, k)', Late(i, l)'
                 PROVE  k = l
      OBVIOUS
    <3>1. k + 1 \in 1..Len(queue) /\ Late(i, k + 1) /\ l + 1 \in 1..Len(queue) /\ Late(i, l + 1)
      BY <1>6
    <3>2. k + 1 = l + 1
      BY <1>2, <3>1 DEF Fades
    <3> QED BY <3>2
  <2>4. \A k \in 1..Len(queue') : Late(i, k)' => stray'[i] = 0
    BY <1>2, <1>6, <2>1 DEF Fades
  <2>5. rx'[i].pc \in {"get", "process"} =>
          stray'[i] = 0 /\ \A k \in 1..Len(queue') : ~Late(i, k)'
    BY <1>1, <1>2, <1>6, <2>1 DEF Fades
  <2> QED BY <1>2, <2>1, <2>2, <2>3, <2>4, <2>5 DEF Fades
<1> QED BY <1>7, <1>8

LEMMA FadeStep ==
  ASSUME PlaceInv, FadeInv, [Next]_vars
  PROVE  FadeInv'
<1>0. rx \in [Id -> Receiver] /\ plays \in Nat /\ \A i \in 1..plays : i \in Id
  BY Numbers DEF PlaceInv
<1>1. CASE OnRecvedFrame
  BY <1>1, FadeTake
<1>2. CASE \E j \in Id : RunStep(j)
  <2>1. PICK j \in Id : RunStep(j)
    BY <1>2
  <2>2. j \in 1..plays
    BY <2>1, PlaceRun
  <2>3. CASE Emit(j)
    BY <2>3, FadeEmit
  <2>4. CASE \E place \in {"top", "poll", "first", "inner", "get", "process", "next", "done"} :
               /\ Goto(j, place)
               /\ place \in {"get", "process"} => rx[j].pc = "get" \/ ~rx[j].over
    <3>1. PICK place \in {"top", "poll", "first", "inner", "get", "process", "next", "done"} :
               /\ Goto(j, place)
               /\ place \in {"get", "process"} => rx[j].pc = "get" \/ ~rx[j].over
      BY <2>4
    <3>2. rx' = [rx EXCEPT ![j].pc = place] /\ UNCHANGED <<queue, newest, stray, forgotten>>
      BY <3>1 DEF Goto, history
    <3>3. rx'[j] = [rx[j] EXCEPT !.pc = place] /\ rx[j] \in Receiver
          /\ \A i \in Id : i # j => rx'[i] = rx[i]
      BY <1>0, <3>2
    <3>4. rx'[j].pc = place
      BY <3>3 DEF Receiver
    <3>5. j <= plays
      BY <1>0, <2>2
    <3>6. \A i \in Id : rx'[i].pc \in {"get", "process"} =>
            rx[i].pc \in {"get", "process"} \/ (i <= plays /\ ~rx[i].over)
      BY <3>1, <3>3, <3>4, <3>5
    <3> QED BY <3>2, <3>6, FadeKeep
  <2>5. CASE \E why : End(why)
    BY <2>5, FadeKeep DEF End, history
  <2> QED BY <2>1, <2>3, <2>4, <2>5
          DEF RunStep, TestOver, Poll, GotoFirst, TestInner, GetNextPacket, GotoNext, ProcessRTPPacket,
              Collect, BadCopy, Race
<1>3. CASE \E p \in Port : OnPlay(p)
  <2>1. PICK p \in Port : OnPlay(p)
    BY <1>3
  <2>2. CASE \E i \in Id : p \in rx[i].holds
    BY <2>1, <2>2, FadeKeep DEF OnPlay, End, history
  <2>3. CASE ~\E i \in Id : p \in rx[i].holds
    <3>1. rx' = [rx EXCEPT ![plays + 1] = New(p)] /\ forgotten \subseteq forgotten'
          /\ UNCHANGED <<queue, newest, stray>>
      BY <2>1, <2>3 DEF OnPlay
    <3>2. \A i \in Id : rx'[i] = rx[i] \/ rx'[i] = New(p)
      BY <1>0, <3>1
    <3>3. New(p).pc = "top"
      BY DEF New
    <3>4. \A i \in Id : rx'[i].pc \in {"get", "process"} => rx[i].pc \in {"get", "process"}
      BY <3>2, <3>3
    <3> QED BY <3>1, <3>4, FadeKeep
  <2> QED BY <2>2, <2>3
<1>4. CASE OnStop \/ OnStopWild \/ Close \/ ByeDestroyBegin \/ ByeDestroyEnd \/ Free \/ DeleteThread
  <2>1. UNCHANGED <<queue, newest, stray, forgotten>>
    BY <1>4 DEF OnStop, OnStopWild, Close, ByeDestroyBegin, ByeDestroyEnd, Free, DeleteThread, End, history
  <2>2. ASSUME NEW i \in Id PROVE rx'[i].pc = rx[i].pc
    <3>1. rx[i] \in Receiver
      BY <1>0
    <3>2. CASE UNCHANGED rx
      BY <3>2
    <3>3. CASE \E j, b : rx' = [rx EXCEPT ![j].over = b]
      <4>1. PICK j, b : rx' = [rx EXCEPT ![j].over = b]
        BY <3>3
      <4>2. rx'[i] = rx[i] \/ rx'[i] = [rx[i] EXCEPT !.over = b]
        BY <1>0, <4>1
      <4> QED BY <3>1, <4>2 DEF Receiver
    <3>4. CASE rx' = [rx EXCEPT ![obj].session = "closing"]
      <4>1. rx'[i] = rx[i] \/ rx'[i] = [rx[i] EXCEPT !.session = "closing"]
        BY <1>0, <3>4
      <4> QED BY <3>1, <4>1 DEF Receiver
    <3>5. CASE rx' = [rx EXCEPT ![obj].session = "destroyed", ![obj].holds = {}]
      <4>1. rx'[i] = rx[i] \/ rx'[i] = [rx[i] EXCEPT !.session = "destroyed", !.holds = {}]
        BY <1>0, <3>5
      <4> QED BY <3>1, <4>1 DEF Receiver
    <3> QED BY <1>4, <3>2, <3>3, <3>4, <3>5
            DEF OnStop, OnStopWild, Close, ByeDestroyBegin, ByeDestroyEnd, Free, DeleteThread, End, Destroy
  <2> QED BY <2>1, <2>2, FadeKeep
<1>5. CASE UNCHANGED vars
  BY <1>5, FadeKeep DEF vars, history
<1> QED BY <1>1, <1>2, <1>3, <1>4, <1>5 DEF Next, GuiStep

(* After the first frame of a later call the decoder sees at most one frame  *)
(* of a call that was stopped before its successor was started.              *)
THEOREM OldCallFadesOutHolds == Spec => []OldCallFadesOut
<1>1. Init => FadeInv
  BY BoundAssumption DEF Init, FadeInv, Fades, Late, NoReceiver, Id
<1>2. FadeInv => OldCallFadesOut
  BY DEF FadeInv, Fades, OldCallFadesOut
<1>3. PlaceInv /\ FadeInv /\ [Next]_vars => FadeInv'
  BY FadeStep
<1> QED BY <1>1, <1>2, <1>3, PlaceInit, PlaceNext, PTL DEF Spec

=============================================================================
