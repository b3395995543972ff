------------------------- MODULE RecverInPlay_proofs -------------------------
(* The proof that a receiver of RtpRecver is a receiver of MediaPlay, for   *)
(* every set of sources, number of packets, frame structure, buffer size    *)
(* and network.                                                             *)
EXTENDS RecverInPlay, RtpRecver_proofs

-----------------------------------------------------------------------------
(* Where the GUI thread is, given the object's flags and its memory *)

Shape ==
  /\ ~made => Init
  /\ gui # "idle" => brecvOver
  /\ dtor => gui # "idle"
  /\ memory = "freed" <=> gui \in {"join", "gone"}
  /\ gui = "gone" => pc = "done"

PlayInv == TypeInv /\ Shape

playVars == <<vars, recordVars>>

LEMMA PlayInvInit == PlayInit => PlayInv
BY TypeInit DEF PlayInit, PlayInv, Shape, Init

(* A step of the object is a step of RtpRecver. *)
LEMMA PlayStep == [OnPlay \/ Live]_playVars => [Next]_vars
BY DEF OnPlay, Live, playVars

LEMMA ShapeGui ==
  ASSUME TypeInv, Shape, made, made' = made, GuiStep
  PROVE  Shape'
BY DEF GuiStep, Stop, Delete, DestroyStep, ByeDestroyBegin, ByeDestroyEnd, Free, DeleteThread,
       OnRecvedFrame, AfterDestroy, GuiOnly, guiVars, runVars, Shape, TypeInv, TypeOK

LEMMA ShapeRun ==
  ASSUME Shape, made, made' = made, UNCHANGED guiVars, pc = "done" => pc' = pc
  PROVE  Shape'
BY DEF Shape, guiVars

LEMMA ShapeStep == PlayInv /\ [OnPlay \/ Live]_playVars => PlayInv'
<1> SUFFICES ASSUME PlayInv, [OnPlay \/ Live]_playVars PROVE PlayInv'
  OBVIOUS
<1>1. TypeInv'
  BY PlayStep, TypeNext DEF PlayInv
<1>2. CASE OnPlay
  BY <1>1, <1>2 DEF OnPlay, vars, guiVars, runVars, PlayInv, Shape
<1>3. CASE Live /\ GuiStep
  BY <1>1, <1>3, ShapeGui DEF Live, PlayInv
<1>4. CASE Live /\ ~GuiStep
  <2>1. UNCHANGED guiVars /\ (pc = "done" => pc' = pc)
    BY <1>4 DEF Live, Next, RunStep, TestOver, Poll, GotoFirst, TestInner, GetNextPacket, GotoNext,
                ProcessRTPPacket, BadCopy, RaceInRun, Race, RunOnly, Send, Lose, runVars
  <2> QED BY <1>1, <1>4, <2>1, ShapeRun DEF Live, PlayInv
<1>5. CASE UNCHANGED playVars
  BY <1>1, <1>5 DEF playVars, recordVars, vars, netVars, runVars, asmVars, outVars, guiVars, PlayInv, Shape, Init
<1> QED BY <1>2, <1>3, <1>4, <1>5

-----------------------------------------------------------------------------
(* The steps of MediaPlay's single receiver *)

(* A change of the object is a change of MediaPlay's only record. *)
LEMMA OnlyRecord ==
  ASSUME NEW r, NEW s
  PROVE  /\ [i \in 1..1 |-> r][1] = r
         /\ [[i \in 1..1 |-> r] EXCEPT ![1] = s] = [i \in 1..1 |-> s]
OBVIOUS

LEMMA ConstantAppend ==
  ASSUME NEW n \in Nat
  PROVE  [k \in 1..(n + 1) |-> 1] = Append([k \in 1..n |-> 1], 1)
<1> DEFINE s == [k \in 1..n |-> 1]
<1>1. s \in Seq({1}) /\ Len(s) = n
  OBVIOUS
<1>2. /\ Append(s, 1) \in Seq({1}) /\ Len(Append(s, 1)) = n + 1
      /\ \A k \in 1..n : Append(s, 1)[k] = s[k]
      /\ Append(s, 1)[n + 1] = 1
  BY <1>1, AppendProperties
<1>3. Append(s, 1) = [k \in 1..(n + 1) |-> Append(s, 1)[k]]
  BY <1>2
<1>4. \A k \in 1..(n + 1) : Append(s, 1)[k] = 1
  <2>1. \A k \in 1..(n + 1) : k = n + 1 \/ k \in 1..n
    OBVIOUS
  <2> QED BY <1>2, <2>1
<1> QED BY <1>3, <1>4

LEMMA ReceiversMade ==
  ASSUME made
  PROVE  /\ receivers = [i \in 1..1 |-> Object] /\ receivers[1] = Object
         /\ Object.pc = pc /\ Object.over = brecvOver /\ Object.session = session
         /\ 1 \in MediaPlay!Id
BY DEF receivers, Object, MediaPlay!Id

(* Nothing is told to the GUI thread, and it does nothing itself. *)
Silent == UNCHANGED <<events, brecvOver, gui, dtor, made, frames, clicked, shown>>

LEMMA SilentRest ==
  ASSUME Silent
  PROVE  UNCHANGED <<MediaPlay!guiVars, MediaPlay!history, frames, [k \in 1..Len(events) |-> 1]>>
BY DEF Silent, MediaPlay!guiVars, MediaPlay!history

(* The thread moves to another place in run(). *)
LEMMA MapPlace ==
  ASSUME made, UNCHANGED <<made, session, brecvOver>>
  PROVE  receivers' = [receivers EXCEPT ![1].pc = pc']
<1>1. made' /\ UNCHANGED <<session, brecvOver>>
  OBVIOUS
<1>2. Object' = [Object EXCEPT !.pc = pc']
  BY <1>1 DEF Object
<1>3. receivers' = [i \in 1..1 |-> Object']
  BY <1>1 DEF receivers
<1>4. receivers' = [receivers EXCEPT ![1] = Object']
  <2>1. PICK r, s : r = Object /\ s = Object'
    OBVIOUS
  <2>2. receivers = [i \in 1..1 |-> r] /\ receivers' = [i \in 1..1 |-> s]
    BY <1>3, <2>1, ReceiversMade
  <2>3. receivers' = [receivers EXCEPT ![1] = s]
    BY <2>2, OnlyRecord
  <2> QED BY <2>1, <2>3
<1> QED BY <1>2, <1>4, ReceiversMade

LEMMA MapGoto ==
  ASSUME made, Silent, UNCHANGED <<session, process>>
  PROVE  MediaPlay!Goto(1, pc')
<1>1. receivers' = [receivers EXCEPT ![1].pc = pc']
  BY MapPlace DEF Silent
<1> QED BY <1>1, SilentRest DEF MediaPlay!Goto

LEMMA MapEnd ==
  ASSUME made, Silent, UNCHANGED <<session, pc>>
  PROVE  MediaPlay!End(process')
<1>1. receivers' = receivers
  BY DEF receivers, Object, NoObject, Silent
<1> QED BY <1>1, SilentRest DEF MediaPlay!End

(* A step that neither posts nor shows a frame, and is no Stop. *)
LEMMA SilentStep ==
  ASSUME TypeInv, Live, events' = events, UNCHANGED guiVars
  PROVE  Silent
<1>1. Len(events) \in Nat
  BY LenProperties DEF TypeInv, TypeOK
<1>2. ~Posts /\ ~Shows
  BY <1>1 DEF Posts, Shows
<1>3. gui' = gui
  BY DEF guiVars
<1>4. ~Stops
  BY <1>3 DEF Stops
<1> QED BY <1>2, <1>4 DEF Live, Silent, guiVars

(* A packet is collected, or its frame is posted and counted. *)
LEMMA MapProcess ==
  ASSUME TypeInv, Shape, Live, ProcessRTPPacket
  PROVE  MediaPlay!ProcessRTPPacket(1)
<1>1. /\ made /\ made' /\ pc = "process" /\ pc' = "inner" /\ memory = "alloc"
      /\ UNCHANGED <<session, process>> /\ UNCHANGED guiVars
  BY DEF Live, ProcessRTPPacket
<1>2. ~MediaPlay!Freed(1) /\ receivers[1].pc = "process"
  BY <1>1, ReceiversMade DEF Shape, MediaPlay!Freed
<1>3. CASE events' = events
  <2>1. Silent
    BY <1>1, <1>3, SilentStep
  <2>2. MediaPlay!Goto(1, pc')
    BY <1>1, <2>1, MapGoto
  <2> QED BY <1>1, <1>2, <2>2 DEF MediaPlay!ProcessRTPPacket, MediaPlay!Collect
<1>4. CASE events' # events
  <2>1. PICK e \in Event : events' = Append(events, e)
    BY <1>4, ProcessEffect
  <2>2. events \in Seq(Event) /\ Len(events) \in Nat /\ Len(events') = Len(events) + 1
    BY <2>1, AppendProperties, LenProperties DEF TypeInv, TypeOK
  <2>3. Posts /\ ~Shows
    BY <2>2 DEF Posts, Shows
  <2>4. UNCHANGED <<brecvOver, gui, dtor>> /\ ~Stops
    BY <1>1 DEF guiVars, Stops
  <2>5. /\ frames < MaxFrames /\ frames' = frames + 1
        /\ UNCHANGED <<clicked, shown, made>>
    BY <2>3, <2>4 DEF Live
  <2>6. [k \in 1..Len(events) |-> 1]' = Append([k \in 1..Len(events) |-> 1], 1)
    <3>1. PICK n \in Nat : n = Len(events)
      BY <2>2
    <3>2. [k \in 1..(n + 1) |-> 1] = Append([k \in 1..n |-> 1], 1)
      BY ConstantAppend
    <3> QED BY <2>2, <3>1, <3>2
  <2>7. receivers' = [receivers EXCEPT ![1].pc = "inner"]
    BY <1>1, <2>4, <2>5, MapPlace
  <2>8. UNCHANGED <<MediaPlay!guiVars, MediaPlay!history>>
    BY <2>4, <2>5 DEF MediaPlay!guiVars, MediaPlay!history
  <2> QED BY <1>1, <1>2, <2>5, <2>6, <2>7, <2>8 DEF MediaPlay!ProcessRTPPacket, MediaPlay!Emit
<1> QED BY <1>3, <1>4

LEMMA MapRun ==
  ASSUME TypeInv, Shape, Live, RunStep
  PROVE  MediaPlay!RunStep(1)
<1>1. made /\ TypeOK /\ receivers[1].pc = pc /\ receivers[1].over = brecvOver
      /\ receivers[1].session = session
  BY ReceiversMade DEF Live, TypeInv
<1>2. CASE ProcessRTPPacket
  BY <1>2, MapProcess DEF MediaPlay!RunStep
<1>3. CASE ~ProcessRTPPacket /\ process' = process
  <2>1. events' = events /\ UNCHANGED guiVars /\ session' = session
    BY <1>3 DEF RunStep, TestOver, Poll, GotoFirst, TestInner, GetNextPacket, GotoNext, BadCopy,
                RaceInRun, Race, RunOnly, outVars, Live, Next
  <2>2. MediaPlay!Goto(1, pc')
    BY <1>1, <1>3, <2>1, SilentStep, MapGoto
  <2>3. CASE TestOver
    BY <1>1, <2>2, <2>3 DEF TestOver, MediaPlay!RunStep, MediaPlay!TestOver
  <2>4. CASE Poll
    BY <1>1, <1>3, <2>2, <2>4 DEF Poll, Live, Next, MediaPlay!RunStep, MediaPlay!Poll
  <2>5. CASE GotoFirst
    BY <1>1, <2>2, <2>5 DEF GotoFirst, WithData, MediaPlay!RunStep, MediaPlay!GotoFirst, MediaPlay!MayHaveData
  <2>6. CASE TestInner
    BY <1>1, <2>2, <2>6 DEF TestInner, MediaPlay!RunStep, MediaPlay!TestInner
  <2>7. CASE GetNextPacket
    BY <1>1, <2>2, <2>7 DEF GetNextPacket, WithData, MediaPlay!RunStep, MediaPlay!GetNextPacket, MediaPlay!MayHaveData
  <2>8. CASE GotoNext
    BY <1>1, <2>2, <2>8 DEF GotoNext, WithData, MediaPlay!RunStep, MediaPlay!GotoNext, MediaPlay!MayHaveData
  <2>9. CASE BadCopy \/ RaceInRun
    BY <1>3, <2>9 DEF BadCopy, RaceInRun, Race, Live, Next
  <2> QED BY <1>3, <2>3, <2>4, <2>5, <2>6, <2>7, <2>8, <2>9 DEF RunStep
<1>4. CASE ~ProcessRTPPacket /\ process' # process
  <2>1. (Poll /\ session = "destroyed" /\ process' = "exit") \/ BadCopy \/ RaceInRun
    BY <1>4 DEF RunStep, TestOver, Poll, GotoFirst, TestInner, GetNextPacket, GotoNext, RunOnly
  <2>2. events' = events /\ UNCHANGED guiVars /\ UNCHANGED <<session, pc>>
    BY <2>1 DEF Poll, BadCopy, RaceInRun, Race, outVars, runVars, Live, Next
  <2>3. MediaPlay!End(process')
    BY <1>1, <2>2, SilentStep, MapEnd
  <2>4. CASE Poll /\ session = "destroyed" /\ process' = "exit"
    BY <1>1, <2>3, <2>4 DEF Poll, MediaPlay!RunStep, MediaPlay!Poll
  <2>5. CASE BadCopy
    <3>1. pc = "process" /\ (IF memory = "freed" THEN process' = "freed" ELSE process' = "overflow")
      BY <2>5 DEF BadCopy
    <3>2. memory = "freed" <=> MediaPlay!Freed(1)
      BY <3>1 DEF Shape, MediaPlay!Freed
    <3> QED BY <1>1, <2>3, <3>1, <3>2 DEF MediaPlay!RunStep, MediaPlay!BadCopy
  <2>6. CASE RaceInRun
    BY <1>1, <2>3, <2>6 DEF RaceInRun, Race, MediaPlay!RunStep, MediaPlay!Race
  <2> QED BY <2>1, <2>4, <2>5, <2>6
<1> QED BY <1>2, <1>3, <1>4

-----------------------------------------------------------------------------
(* The GUI thread *)

(* The record of the object, with some of its fields replaced. *)
LEMMA RecordChange ==
  ASSUME NEW r \in MediaPlay!Receiver
  PROVE  /\ [r EXCEPT !.over = TRUE]
              = [holds |-> r.holds, session |-> r.session, over |-> TRUE, pc |-> r.pc]
         /\ [r EXCEPT !.session = "destroyed", !.holds = {}]
              = [holds |-> {}, session |-> "destroyed", over |-> r.over, pc |-> r.pc]
<1>1. [r EXCEPT !.over = TRUE]
        = [holds |-> r.holds, session |-> r.session, over |-> TRUE, pc |-> r.pc]
  <2> DEFINE q == [r EXCEPT !.over = TRUE]
  <2>1. /\ q \in MediaPlay!Receiver /\ q.over
        /\ q.session = r.session /\ q.holds = r.holds /\ q.pc = r.pc
    BY DEF MediaPlay!Receiver
  <2> HIDE DEF q
  <2>2. q.over = TRUE /\ q = [holds |-> q.holds, session |-> q.session, over |-> q.over, pc |-> q.pc]
    BY <2>1 DEF MediaPlay!Receiver
  <2> QED BY <2>1, <2>2 DEF q
<1>2. [r EXCEPT !.session = "destroyed"]
        = [holds |-> r.holds, session |-> "destroyed", over |-> r.over, pc |-> r.pc]
  BY DEF MediaPlay!Receiver
<1>3. [[r EXCEPT !.session = "destroyed"] EXCEPT !.holds = {}]
        = [holds |-> {}, session |-> "destroyed", over |-> r.over, pc |-> r.pc]
  <2> DEFINE q == [r EXCEPT !.session = "destroyed"]
  <2>1. q \in MediaPlay!Receiver /\ q.session = "destroyed" /\ q.over = r.over /\ q.pc = r.pc
    BY DEF MediaPlay!Receiver
  <2> HIDE DEF q
  <2>2. [q EXCEPT !.holds = {}] = [holds |-> {}, session |-> q.session, over |-> q.over, pc |-> q.pc]
    BY <2>1 DEF MediaPlay!Receiver
  <2> QED BY <2>1, <2>2 DEF q
<1> QED BY <1>1, <1>3

LEMMA ObjectType ==
  ASSUME TypeOK
  PROVE  Object \in MediaPlay!Receiver
BY DEF TypeOK, Object, MediaPlay!Receiver

(* In destroy() and behind it MediaPlay works on its only receiver. *)
LEMMA AtObject ==
  ASSUME Shape, made, gui # "idle"
  PROVE  brecvOver /\ (IF brecvOver THEN 1 ELSE 0) = 1
BY DEF Shape

LEMMA NewRecord ==
  ASSUME made, made', NEW s, Object' = s
  PROVE  receivers' = [receivers EXCEPT ![1] = s]
<1>1. PICK r : r = Object
  OBVIOUS
<1>2. receivers = [i \in 1..1 |-> r] /\ receivers' = [i \in 1..1 |-> s]
  BY <1>1, ReceiversMade DEF receivers
<1> QED BY <1>2, OnlyRecord

LEMMA SameRecord ==
  ASSUME UNCHANGED <<made, session, brecvOver, pc>>
  PROVE  receivers' = receivers
BY DEF receivers, Object

(* A step of the GUI thread that neither posts, shows nor clicks Stop. *)
LEMMA GuiRest ==
  ASSUME TypeInv, Live, events' = events, ~Stops
  PROVE  UNCHANGED <<made, frames, clicked, shown>>
<1>1. Len(events) \in Nat
  BY LenProperties DEF TypeInv, TypeOK
<1>2. ~Posts /\ ~Shows
  BY <1>1 DEF Posts, Shows
<1> QED BY <1>2 DEF Live

LEMMA MapDestroy ==
  ASSUME TypeInv, made, made', gui' = "destroy", UNCHANGED <<session, pc>>, brecvOver' = TRUE
  PROVE  MediaPlay!Destroy(1)
<1>1. Object' = [Object EXCEPT !.over = TRUE]
  <2>1. Object \in MediaPlay!Receiver
    BY ObjectType DEF TypeInv
  <2>2. Object' = [holds |-> Object.holds, session |-> Object.session, over |-> TRUE, pc |-> Object.pc]
    BY DEF Object
  <2> QED BY <2>1, <2>2, RecordChange
<1>2. PICK s : s = Object'
  OBVIOUS
<1>3. receivers' = [receivers EXCEPT ![1] = s]
  BY <1>2, NewRecord
<1>4. receivers' = [receivers EXCEPT ![1].over = TRUE]
  BY <1>1, <1>2, <1>3, ReceiversMade
<1> QED BY <1>4 DEF MediaPlay!Destroy

LEMMA MapStop ==
  ASSUME TypeInv, Shape, Live, Stop
  PROVE  MediaPlay!OnStop
<1>1. /\ made /\ made' /\ gui = "idle" /\ gui' = "destroy" /\ brecvOver' = TRUE
      /\ UNCHANGED <<dtor, session, pc, process, events>>
  BY DEF Live, Stop, GuiOnly, runVars, outVars
<1>2. Stops /\ Len(events) \in Nat
  BY <1>1, LenProperties DEF Stops, Shape, TypeInv, TypeOK
<1>3. clicked' = TRUE /\ UNCHANGED <<frames, shown>>
  <2>1. ~Posts /\ ~Shows
    BY <1>1, <1>2 DEF Posts, Shows
  <2> QED BY <1>2, <2>1 DEF Live
<1>4. MediaPlay!Destroy(1)
  BY <1>1, MapDestroy
<1> QED BY <1>1, <1>3, <1>4 DEF MediaPlay!OnStop

LEMMA MapDelete ==
  ASSUME TypeInv, Shape, Live, Delete
  PROVE  MediaPlay!Close
<1>1. /\ made /\ made' /\ gui = "idle" /\ gui' = "destroy" /\ brecvOver' = TRUE /\ dtor' = TRUE
      /\ UNCHANGED <<session, pc, process, events>>
  BY DEF Live, Delete, GuiOnly, runVars, outVars
<1>2. ~Stops
  BY <1>1 DEF Stops
<1>3. UNCHANGED <<made, frames, clicked, shown>>
  BY <1>1, <1>2, GuiRest
<1>4. MediaPlay!Destroy(1)
  BY <1>1, MapDestroy
<1> QED BY <1>1, <1>3, <1>4 DEF MediaPlay!Close, MediaPlay!history

LEMMA MapBegin ==
  ASSUME TypeInv, Shape, Live, ByeDestroyBegin
  PROVE  MediaPlay!ByeDestroyBegin
<1>1. /\ made /\ made' /\ gui = "destroy" /\ gui' # "destroy"
      /\ UNCHANGED <<brecvOver, dtor, pc, process, events>>
  BY DEF Live, ByeDestroyBegin, GuiOnly, runVars, outVars, AfterDestroy
<1>2. UNCHANGED <<made, frames, clicked, shown>>
  BY <1>1, GuiRest DEF Stops
<1>3. brecvOver /\ receivers[1].session = session
  BY <1>1, AtObject, ReceiversMade
<1>4. CASE session = "created"
  <2>1. session' = "closing" /\ gui' = "bye"
    BY <1>4 DEF ByeDestroyBegin
  <2>2. Object' = [Object EXCEPT !.session = "closing"]
    BY <1>1, <1>4, <2>1 DEF Object
  <2>3. PICK s : s = Object'
    OBVIOUS
  <2>4. receivers' = [receivers EXCEPT ![1] = s]
    BY <1>1, <2>3, NewRecord
  <2>5. receivers' = [receivers EXCEPT ![1].session = "closing"]
    BY <1>1, <2>2, <2>3, <2>4, ReceiversMade
  <2> QED BY <1>1, <1>2, <1>3, <1>4, <2>1, <2>5 DEF MediaPlay!ByeDestroyBegin, MediaPlay!history
<1>5. CASE session # "created"
  <2>1. session' = session /\ gui' = AfterDestroy
    BY <1>5 DEF ByeDestroyBegin
  <2>2. receivers' = receivers
    BY <1>1, <1>2, <2>1, SameRecord
  <2> QED BY <1>1, <1>2, <1>3, <1>5, <2>1, <2>2
          DEF MediaPlay!ByeDestroyBegin, MediaPlay!AfterDestroy, AfterDestroy, MediaPlay!history
<1> QED BY <1>4, <1>5

LEMMA MapEnded ==
  ASSUME TypeInv, Shape, Live, ByeDestroyEnd
  PROVE  MediaPlay!ByeDestroyEnd
<1>1. /\ made /\ made' /\ gui = "bye" /\ gui' = AfterDestroy /\ session' = "destroyed"
      /\ UNCHANGED <<brecvOver, dtor, pc, process, events>>
  BY DEF Live, ByeDestroyEnd, runVars, outVars
<1>2. UNCHANGED <<made, frames, clicked, shown>>
  BY <1>1, GuiRest DEF Stops
<1>3. brecvOver
  BY <1>1, AtObject
<1>4. Object' = [Object EXCEPT !.session = "destroyed", !.holds = {}]
  <2>1. Object \in MediaPlay!Receiver
    BY ObjectType DEF TypeInv
  <2>2. Object' = [holds |-> {}, session |-> "destroyed", over |-> Object.over, pc |-> Object.pc]
    BY <1>1 DEF Object
  <2> QED BY <2>1, <2>2, RecordChange
<1>5. PICK s : s = Object'
  OBVIOUS
<1>6. receivers' = [receivers EXCEPT ![1] = s]
  BY <1>1, <1>5, NewRecord
<1>7. receivers' = [receivers EXCEPT ![1].session = "destroyed", ![1].holds = {}]
  BY <1>1, <1>4, <1>5, <1>6, ReceiversMade
<1> QED BY <1>1, <1>2, <1>3, <1>7
        DEF MediaPlay!ByeDestroyEnd, MediaPlay!AfterDestroy, AfterDestroy, MediaPlay!history

LEMMA MapFree ==
  ASSUME TypeInv, Shape, Live, Free
  PROVE  MediaPlay!Free
<1>1. /\ gui = "free" /\ gui' = "join"
      /\ UNCHANGED <<brecvOver, dtor, pc, session, process, events>>
  BY DEF Free, GuiOnly, runVars, outVars
<1>2. UNCHANGED <<made, frames, clicked, shown>>
  BY <1>1, GuiRest DEF Stops
<1>3. receivers' = receivers
  BY <1>1, <1>2, SameRecord
<1> QED BY <1>1, <1>2, <1>3 DEF MediaPlay!Free, MediaPlay!history

LEMMA MapJoin ==
  ASSUME TypeInv, Shape, Live, DeleteThread
  PROVE  MediaPlay!DeleteThread
<1>1. /\ made /\ gui = "join"
      /\ IF pc = "done" THEN gui' = "gone" /\ process' = process
                        ELSE process' = "abort" /\ gui' = gui
      /\ UNCHANGED <<brecvOver, dtor, pc, session, events>>
  BY DEF Live, DeleteThread, GuiOnly, runVars, outVars
<1>2. UNCHANGED <<made, frames, clicked, shown>>
  BY <1>1, GuiRest DEF Stops
<1>3. receivers' = receivers
  BY <1>1, <1>2, SameRecord
<1>4. brecvOver /\ receivers[1].pc = pc
  BY <1>1, AtObject, ReceiversMade
<1> QED BY <1>1, <1>2, <1>3, <1>4
        DEF MediaPlay!DeleteThread, MediaPlay!End, MediaPlay!guiVars, MediaPlay!history

LEMMA ConstantTail ==
  ASSUME NEW n \in Nat, n # 0
  PROVE  LET s == [k \in 1..n |-> 1] IN
         s # <<>> /\ Head(s) = 1 /\ Tail(s) = [k \in 1..(n - 1) |-> 1]
<1> DEFINE s == [k \in 1..n |-> 1]
<1>1. s \in Seq({1}) /\ Len(s) = n
  OBVIOUS
<1>2. s # <<>>
  BY <1>1, EmptySeq
<1>3. /\ Head(s) = s[1] /\ Tail(s) \in Seq({1}) /\ Len(Tail(s)) = n - 1
      /\ \A k \in 1..(n - 1) : Tail(s)[k] = s[k + 1]
  BY <1>1, <1>2, HeadTailProperties
<1>4. \A k \in 1..(n - 1) : Tail(s)[k] = 1
  <2>1. \A k \in 1..(n - 1) : k + 1 \in 1..n
    OBVIOUS
  <2> QED BY <1>3, <2>1
<1>5. Tail(s) = [k \in 1..(n - 1) |-> Tail(s)[k]]
  BY <1>3
<1> QED BY <1>2, <1>3, <1>4, <1>5

LEMMA MapShow ==
  ASSUME TypeInv, Shape, Live, OnRecvedFrame
  PROVE  MediaPlay!OnRecvedFrame
<1>1. /\ made /\ gui = "idle" /\ events # <<>> /\ events' = Tail(events)
      /\ UNCHANGED <<brecvOver, dtor, gui, pc, session, process>>
  BY DEF Live, OnRecvedFrame, guiVars, runVars
<1>2. /\ Len(events) \in Nat /\ Len(events) # 0 /\ Len(events') = Len(events) - 1
  BY <1>1, HeadTailProperties, LenProperties, EmptySeq DEF TypeInv, TypeOK
<1>3. Shows /\ ~Posts /\ ~Stops
  BY <1>1, <1>2 DEF Shows, Posts, Stops
<1>4. shown' = TRUE /\ UNCHANGED <<made, frames, clicked>>
  BY <1>3 DEF Live
<1>5. /\ [k \in 1..Len(events) |-> 1] # <<>> /\ Head([k \in 1..Len(events) |-> 1]) = 1
      /\ [k \in 1..Len(events) |-> 1]' = Tail([k \in 1..Len(events) |-> 1])
  <2>1. PICK n \in Nat : n = Len(events) /\ n # 0
    BY <1>2
  <2> QED BY <1>2, <2>1, ConstantTail
<1>6. receivers' = receivers
  BY <1>1, <1>4, SameRecord
<1> QED BY <1>1, <1>4, <1>5, <1>6 DEF MediaPlay!OnRecvedFrame, MediaPlay!guiVars

LEMMA MapGui ==
  ASSUME TypeInv, Shape, Live, GuiStep
  PROVE  MediaPlay!GuiStep
BY MapStop, MapDelete, MapBegin, MapEnded, MapFree, MapJoin, MapShow
   DEF GuiStep, DestroyStep, MediaPlay!GuiStep

-----------------------------------------------------------------------------
(* The click that makes the object, the network, and the refinement *)

LEMMA MapMake ==
  ASSUME Shape, OnPlay
  PROVE  MediaPlay!OnPlay(port) /\ process = "up"
<1>1. /\ ~made /\ made' = TRUE /\ UNCHANGED <<vars, frames, clicked, shown>>
  BY DEF OnPlay
<1>2. /\ session = "created" /\ brecvOver = FALSE /\ pc = "top" /\ gui = "idle" /\ process = "up"
  BY <1>1 DEF Shape, Init
<1>3. UNCHANGED <<session, brecvOver, pc, gui, dtor, process, events>>
  BY <1>1 DEF vars, guiVars, runVars, outVars
<1>4. Object' = MediaPlay!New(port)
  BY <1>2, <1>3 DEF Object, MediaPlay!New
<1>5. receivers = [i \in 1..1 |-> NoObject] /\ receivers' = [i \in 1..1 |-> MediaPlay!New(port)]
  BY <1>1, <1>4 DEF receivers
<1>6. receivers' = [receivers EXCEPT ![0 + 1] = MediaPlay!New(port)]
  BY <1>5
<1>7. ~\E i \in MediaPlay!Id : port \in receivers[i].holds
  BY <1>5 DEF NoObject, MediaPlay!Id
<1>8. {} = {} \cup ({0} \ ({0} \cup (IF clicked THEN {1} ELSE {})))
  OBVIOUS
<1> QED BY <1>1, <1>2, <1>3, <1>6, <1>7, <1>8 DEF MediaPlay!OnPlay

LEMMA MapSame ==
  ASSUME UNCHANGED <<made, session, brecvOver, pc, events, gui, dtor, process, frames, clicked, shown>>
  PROVE  UNCHANGED MediaPlay!vars
BY SameRecord DEF MediaPlay!vars, MediaPlay!guiVars, MediaPlay!history

LEMMA RefineMediaPlay ==
  ASSUME PlayInv, [OnPlay \/ Live]_playVars
  PROVE  [MediaPlay!Next]_(MediaPlay!vars)
<1>1. CASE OnPlay
  BY <1>1, MapMake DEF PlayInv, MediaPlay!Next, MediaPlay!GuiStep
<1>2. CASE Live /\ RunStep
  <2>1. MediaPlay!RunStep(1) /\ process = "up" /\ 1 \in MediaPlay!Id
    BY <1>2, MapRun, ReceiversMade DEF PlayInv, Live, Next
  <2> QED BY <2>1 DEF MediaPlay!Next
<1>3. CASE Live /\ GuiStep
  <2>1. MediaPlay!GuiStep /\ process = "up"
    BY <1>3, MapGui DEF PlayInv, Live, Next
  <2> QED BY <2>1 DEF MediaPlay!Next
<1>4. CASE Live /\ ((\E s \in Src : Send(s)) \/ (\E p \in net : Lose(p)))
  <2>1. events' = events /\ UNCHANGED guiVars /\ UNCHANGED <<session, pc, process>>
    BY <1>4 DEF Send, Lose, outVars, runVars
  <2>2. Silent
    BY <1>4, <2>1, SilentStep DEF PlayInv
  <2> QED BY <2>1, <2>2, MapSame DEF Silent
<1>5. CASE UNCHANGED playVars
  BY <1>5, MapSame DEF playVars, recordVars, vars, guiVars, runVars, outVars
<1> QED BY <1>1, <1>2, <1>3, <1>4, <1>5 DEF Live, Next

LEMMA RefinePlayInit == PlayInit => MediaPlay!Init
<1> SUFFICES ASSUME PlayInit PROVE MediaPlay!Init
  OBVIOUS
<1>1. Len(events) = 0
  BY EmptySeq DEF PlayInit, Init
<1>2. [k \in 1..Len(events) |-> 1] = <<>>
  BY <1>1
<1>3. receivers = [i \in 1..1 |-> NoObject]
  BY DEF PlayInit, receivers
<1> QED BY <1>2, <1>3 DEF PlayInit, Init, MediaPlay!Init, MediaPlay!Id, MediaPlay!NoReceiver, NoObject

(* Every behaviour of one RtpRecver, seen through its port, its session, its *)
(* stop, its place in run() and the frames it posts, is one that MediaPlay   *)
(* allows a receiver.                                                        *)
THEOREM ReceiverIsReceiver == PlaySpec => ImplementsMediaPlay
<1>1. PlayInv /\ [OnPlay \/ Live]_playVars => PlayInv'
  BY ShapeStep
<1>2. PlayInv /\ [OnPlay \/ Live]_playVars => [MediaPlay!Next]_(MediaPlay!vars)
  BY RefineMediaPlay
<1> QED BY <1>1, <1>2, PlayInvInit, RefinePlayInit, PTL
        DEF PlaySpec, ImplementsMediaPlay, MediaPlay!Spec, playVars

=============================================================================
