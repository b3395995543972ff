--------------------------- MODULE RtpRecver_proofs ---------------------------
(* Theorems about RtpRecver for every set of sources, number of packets,     *)
(* frame structure, buffer size and network, and their proofs.               *)
EXTENDS RtpRecver, SequenceTheorems, WellFoundedInduction, TLAPS

-----------------------------------------------------------------------------
(* Lemmas on what the modules compute *)

Less == {p \in Nat \X Nat : p[1] < p[2]}

LEMMA LessIsWellFounded == IsWellFoundedOn(Less, Nat)
BY NatLessThanWellFounded DEF OpToRel, Less

(* Every set of numbers that is not empty has a least element. *)
LEMMA LeastNumber ==
  ASSUME NEW S \in SUBSET Nat, S # {}
  PROVE  \E x \in S : \A y \in S : x <= y
<1>1. PICK x \in S : \A y \in S : <<y, x>> \notin Less
  BY LessIsWellFounded, WFMin
<1>2. \A y \in S : ~(y < x)
  BY <1>1 DEF Less
<1> QED BY <1>2

(* Select finds the least element: the next source, the next packet. *)
LEMMA SelectLeast ==
  ASSUME NEW S \in SUBSET Nat, S # {}
  PROVE  Select(S) \in S /\ \A y \in S : Select(S) <= y
BY LeastNumber DEF Select

-----------------------------------------------------------------------------
(* Type correctness *)

(* The type invariant and what keeps it: a packet is in hand while it is     *)
(* processed.                                                                *)
TypeInv == TypeOK /\ (pc = "process" => pack \in Packet)

LEMMA TypeInit == Init => TypeInv
<1> SUFFICES ASSUME Init PROVE TypeInv
  OBVIOUS
<1>1. buf \in Seq(Packet) /\ events \in Seq(Event)
  BY EmptySeq DEF Init
<1>2. /\ net \subseteq Packet /\ sent \in [Src -> 0..N] /\ dups \in 0..MaxDup
      /\ list \in [Src -> SUBSET (1..N)] /\ valid \subseteq Src
      /\ last \in 0..N /\ late \in Nat
  BY PacketAssumption, BoundAssumption DEF Init
<1>3. junk \in Garbage \cup {0}
  BY DEF Init
<1> QED BY <1>1, <1>2, <1>3 DEF Init, TypeInv, TypeOK

LEMMA TypeNetwork ==
  ASSUME TypeInv, \/ \E s \in Src : Send(s)
                  \/ \E p \in net : Lose(p)
  PROVE  TypeInv'
<1>1. CASE \E s \in Src : Send(s)
  <2>1. PICK s \in Src : Send(s)
    BY <1>1
  <2>2. sent[s] \in 0..N /\ sent[s] + 1 \in 1..N
    BY <2>1, PacketAssumption DEF TypeInv, TypeOK, Send
  <2>3. net' \subseteq Packet
    BY <2>1, <2>2 DEF TypeInv, TypeOK, Send, Packet
  <2>4. sent' \in [Src -> 0..N]
    BY <2>1, <2>2, PacketAssumption DEF TypeInv, TypeOK, Send
  <2> QED
    BY <2>1, <2>3, <2>4
    DEF TypeInv, TypeOK, Send, runVars, asmVars, outVars, guiVars
<1>2. CASE \E p \in net : Lose(p)
  BY <1>2 DEF TypeInv, TypeOK, Lose, runVars, asmVars, outVars, guiVars
<1> QED BY <1>1, <1>2

(* What processing a packet does, without the existential of the emission. *)
LEMMA ProcessEffect ==
  ASSUME TypeInv, ProcessRTPPacket
  PROVE  LET f == Append(buf, pack)
             e == [packets |-> f, junk |-> junk, gap |-> gap \/ Skipped(pack[2])]
         IN /\ pack \in Packet /\ pack[2] \in 1..N /\ f \in Seq(Packet) /\ e \in Event
            /\ last' = pack[2]
            /\ \/ /\ events' = Append(events, e) /\ TRUE \in HasVideo(f)
                  /\ late' = IF brecvOver THEN late + 1 ELSE late
                  /\ pack[2] \in Marker
               \/ events' = events /\ late' = late
            /\ \/ pack[2] \in Marker /\ buf' = <<>> /\ junk' = 0 /\ gap' = FALSE
               \/ pack[2] \notin Marker /\ buf' = f /\ junk' = junk /\ gap' = e.gap
<1>1. pc = "process" /\ pack \in Packet /\ buf \in Seq(Packet) /\ junk \in Garbage \cup {0}
      /\ gap \in BOOLEAN
  BY DEF ProcessRTPPacket, TypeInv, TypeOK
<1>2. pack[2] \in 1..N /\ Append(buf, pack) \in Seq(Packet)
  BY <1>1, AppendProperties DEF Packet
<1>3. [packets |-> Append(buf, pack), junk |-> junk, gap |-> gap \/ Skipped(pack[2])] \in Event
  BY <1>1, <1>2 DEF Event, Skipped
<1>4. CASE pack[2] \in Marker
  <2>1. PICK found \in HasVideo(Append(buf, pack)) :
          IF found
          THEN /\ events' = Append(events, [packets |-> Append(buf, pack), junk |-> junk,
                                            gap |-> gap \/ Skipped(pack[2])])
               /\ late' = IF brecvOver THEN late + 1 ELSE late
          ELSE UNCHANGED outVars
    BY <1>4 DEF ProcessRTPPacket
  <2>2. HasVideo(Append(buf, pack)) \subseteq BOOLEAN
    BY DEF HasVideo
  <2>3. CASE found
    <3>1. found = TRUE
      BY <2>2, <2>3
    <3> QED BY <1>1, <1>2, <1>3, <1>4, <2>1, <3>1 DEF ProcessRTPPacket
  <2>4. CASE ~found
    BY <1>1, <1>2, <1>3, <1>4, <2>1, <2>4 DEF ProcessRTPPacket, outVars
  <2> QED BY <2>3, <2>4
<1>5. CASE pack[2] \notin Marker
  BY <1>1, <1>2, <1>3, <1>5 DEF ProcessRTPPacket, outVars
<1> QED BY <1>4, <1>5

LEMMA TypeProcess ==
  ASSUME TypeInv, ProcessRTPPacket
  PROVE  TypeInv'
<1> DEFINE f == Append(buf, pack)
           e == [packets |-> f, junk |-> junk, gap |-> gap \/ Skipped(pack[2])]
<1>1. /\ pack[2] \in 1..N /\ f \in Seq(Packet) /\ e \in Event /\ last' = pack[2]
      /\ \/ events' = Append(events, e) \/ events' = events
      /\ late' \in {late, late + 1}
      /\ \/ buf' = <<>> /\ junk' = 0 /\ gap' = FALSE
         \/ buf' = f /\ junk' = junk /\ gap' = e.gap
  BY ProcessEffect
<1> HIDE DEF f, e
<1>2. events \in Seq(Event) /\ late \in Nat /\ junk \in Garbage \cup {0}
  BY DEF TypeInv, TypeOK
<1>3. events' \in Seq(Event)
  BY <1>1, <1>2, AppendProperties
<1>4. late' \in Nat /\ last' \in 0..N
  BY <1>1, <1>2
<1>5. buf' \in Seq(Packet) /\ junk' \in Garbage \cup {0} /\ gap' \in BOOLEAN
  BY <1>1, <1>2, EmptySeq DEF Event
<1> QED
  BY <1>3, <1>4, <1>5 DEF ProcessRTPPacket, TypeInv, TypeOK, netVars, guiVars

LEMMA TypeRun ==
  ASSUME TypeInv, RunStep
  PROVE  TypeInv'
<1> USE DEF TypeInv, TypeOK, netVars, runVars, asmVars, outVars, guiVars
<1>1. CASE TestOver
  BY <1>1 DEF TestOver, RunOnly
<1>2. CASE Poll
  <2>1. CASE session # "destroyed"
    <3>1. PICK got \in SUBSET net : Receive(got)
      BY <1>2, <2>1 DEF Poll, Arrivals
    <3>2. list' \in [Src -> SUBSET (1..N)]
      BY <3>1 DEF Receive
    <3>3. net' \subseteq Packet /\ dups' \in 0..MaxDup /\ valid' \subseteq Src
      BY <3>1, BoundAssumption DEF Receive
    <3> QED BY <1>2, <2>1, <3>2, <3>3 DEF Poll
  <2>2. CASE session = "destroyed"
    BY <1>2, <2>2 DEF Poll
  <2> QED BY <2>1, <2>2
<1>3. CASE GotoFirst
  <2>1. WithData \in SUBSET Nat /\ WithData \subseteq Src
    BY PacketAssumption DEF WithData
  <2>2. WithData # {} => Select(WithData) \in Src
    BY <2>1, SelectLeast
  <2> QED BY <1>3, <2>2 DEF GotoFirst, RunOnly
<1>4. CASE TestInner
  BY <1>4 DEF TestInner, RunOnly
<1>5. CASE GetNextPacket
  <2>1. CASE src \in WithData
    <3>1. src \in Src /\ list[src] \in SUBSET (1..N) /\ list[src] # {}
      BY <2>1 DEF WithData
    <3>2. Select(list[src]) \in 1..N
      BY <3>1, SelectLeast
    <3>3. /\ pack' = <<src, Select(list[src])>>
          /\ list' = [list EXCEPT ![src] = @ \ {Select(list[src])}]
      BY <1>5, <2>1 DEF GetNextPacket
    <3>4. pack' \in Packet
      BY <3>1, <3>2, <3>3 DEF Packet
    <3>5. list' \in [Src -> SUBSET (1..N)]
      BY <3>1, <3>3
    <3> QED BY <1>5, <2>1, <3>4, <3>5 DEF GetNextPacket
  <2>2. CASE src \notin WithData
    BY <1>5, <2>2 DEF GetNextPacket
  <2> QED BY <2>1, <2>2
<1>6. CASE GotoNext
  <2>1. {s \in WithData : src < s} \in SUBSET Nat /\ WithData \subseteq Src
    BY PacketAssumption DEF WithData
  <2>2. {s \in WithData : src < s} # {} => Select({s \in WithData : src < s}) \in Src
    BY <2>1, SelectLeast
  <2> QED BY <1>6, <2>2 DEF GotoNext, RunOnly
<1>7. CASE ProcessRTPPacket
  BY <1>7, TypeProcess
<1>8. CASE BadCopy
  BY <1>8 DEF BadCopy, Skipped
<1>9. CASE RaceInRun
  BY <1>9 DEF RaceInRun, Race
<1> QED BY <1>1, <1>2, <1>3, <1>4, <1>5, <1>6, <1>7, <1>8, <1>9 DEF RunStep

LEMMA TypeGui ==
  ASSUME TypeInv, GuiStep
  PROVE  TypeInv'
<1> USE DEF TypeInv, TypeOK, GuiOnly, netVars, runVars, asmVars, outVars, guiVars
<1>1. CASE Stop
  BY <1>1 DEF Stop
<1>2. CASE Delete
  BY <1>2 DEF Delete
<1>3. CASE ByeDestroyBegin
  BY <1>3 DEF ByeDestroyBegin, AfterDestroy
<1>4. CASE ByeDestroyEnd
  BY <1>4 DEF ByeDestroyEnd, AfterDestroy
<1>5. CASE Free
  BY <1>5 DEF Free
<1>6. CASE DeleteThread
  BY <1>6 DEF DeleteThread
<1>7. CASE OnRecvedFrame
  BY <1>7 DEF OnRecvedFrame
<1> QED BY <1>1, <1>2, <1>3, <1>4, <1>5, <1>6, <1>7 DEF GuiStep, DestroyStep

LEMMA TypeNext == TypeInv /\ [Next]_vars => TypeInv'
<1> SUFFICES ASSUME TypeInv, [Next]_vars PROVE TypeInv'
  OBVIOUS
<1>1. CASE UNCHANGED vars
  BY <1>1 DEF TypeInv, TypeOK, vars, netVars, runVars, asmVars, outVars, guiVars
<1> QED BY <1>1, TypeNetwork, TypeRun, TypeGui DEF Next

(* The type invariant holds in every state of every receiver. *)
THEOREM TypeCorrect == Spec => []TypeOK
<1>1. TypeInv => TypeOK
  BY DEF TypeInv
<1> QED BY <1>1, TypeInit, TypeNext, PTL DEF Spec

-----------------------------------------------------------------------------
(* Stopping *)

(* The stop flag is read before every packet: a late frame has used up the   *)
(* one packet that was past the test.                                        *)
LateInv ==
  /\ late \in {0, 1}
  /\ ~brecvOver => late = 0
  /\ late = 1 => pc \notin {"get", "process"}

LEMMA LateStep == TypeInv /\ LateInv /\ [Next]_vars => LateInv'
<1> SUFFICES ASSUME TypeInv, LateInv, [Next]_vars PROVE LateInv'
  OBVIOUS
<1>0. brecvOver \in BOOLEAN
  BY DEF TypeInv, TypeOK
<1>1. CASE ProcessRTPPacket
  <2>1. late = 0 /\ pc' = "inner" /\ brecvOver' = brecvOver
    BY <1>1 DEF LateInv, ProcessRTPPacket, guiVars
  <2>2. late' = late \/ late' = IF brecvOver THEN late + 1 ELSE late
    BY <1>1, ProcessEffect
  <2> QED BY <2>1, <2>2 DEF LateInv
<1>2. CASE TestInner
  BY <1>0, <1>2 DEF LateInv, TestInner, RunOnly, outVars, guiVars
<1>3. CASE RunStep /\ ~ProcessRTPPacket /\ ~TestInner
  <2>1. UNCHANGED <<late, brecvOver>>
    BY <1>3 DEF RunStep, TestOver, Poll, GotoFirst, GetNextPacket, GotoNext, BadCopy,
                RaceInRun, Race, RunOnly, outVars, guiVars
  <2>2. pc' \in {"get", "process"} => pc \in {"get", "process"}
    BY <1>3 DEF RunStep, TestOver, Poll, GotoFirst, GetNextPacket, GotoNext, BadCopy,
                RaceInRun, Race, runVars
  <2> QED BY <2>1, <2>2 DEF LateInv
<1>4. CASE GuiStep
  <2>1. UNCHANGED <<late, pc>> /\ (brecvOver => brecvOver')
    BY <1>4 DEF GuiStep, DestroyStep, Stop, Delete, ByeDestroyBegin, ByeDestroyEnd, Free,
                DeleteThread, OnRecvedFrame, GuiOnly, outVars, runVars, guiVars
  <2> QED BY <2>1 DEF LateInv
<1>5. CASE \E s \in Src : Send(s)
  BY <1>5 DEF LateInv, Send, outVars, runVars, guiVars
<1>6. CASE \E p \in net : Lose(p)
  BY <1>6 DEF LateInv, Lose, outVars, runVars, guiVars
<1>7. CASE UNCHANGED vars
  BY <1>7 DEF LateInv, vars, outVars, runVars, guiVars
<1> QED BY <1>1, <1>2, <1>3, <1>4, <1>5, <1>6, <1>7 DEF Next

(* At most one frame is emitted after m_brecvOver is set. *)
THEOREM OneLateFrameHolds == Spec => []OneLateFrame
<1>1. Init => LateInv
  BY DEF Init, LateInv
<1>2. LateInv => OneLateFrame
  BY DEF LateInv, OneLateFrame
<1> QED BY <1>1, <1>2, LateStep, TypeInit, TypeNext, PTL DEF Spec

(* What StopEndsThread needs besides fairness: once m_brecvOver is set the   *)
(* thread polls no more and takes no further packet, and what is left of the *)
(* walk over the sources goes from one source to a later one.                *)
StopAdvances ==
  brecvOver =>
    /\ brecvOver'
    /\ pc' \in {"poll", "get"} => pc' = pc
    /\ pc = "next" /\ pc' = "inner" => src \in Src /\ src' \in Src /\ src < src'
    /\ pc = "done" => pc' = "done"

(* The walk is at a source.                                                  *)
Walking == pc \in {"inner", "get", "process", "next"} => src \in Src

LEMMA WalkStep == TypeInv /\ Walking /\ [Next]_vars => Walking' /\ StopAdvances
<1> SUFFICES ASSUME TypeInv, Walking, [Next]_vars PROVE Walking' /\ StopAdvances
  OBVIOUS
<1>1. CASE UNCHANGED runVars /\ (brecvOver => brecvOver')
  BY <1>1 DEF Walking, StopAdvances, runVars
<1>2. WithData \in SUBSET Src
  BY DEF WithData, TypeInv, TypeOK
<1>3. \A S \in SUBSET Src : S # {} => Select(S) \in S
  BY SelectLeast, PacketAssumption
<1>4. CASE GotoFirst
  <2>1. /\ pc = "first" /\ brecvOver' = brecvOver
        /\ \/ pc' = "top"
           \/ pc' = "inner" /\ src' = Select(WithData) /\ WithData # {}
    BY <1>4 DEF GotoFirst, RunOnly, guiVars
  <2> QED BY <1>2, <1>3, <2>1 DEF Walking, StopAdvances
<1>5. CASE GotoNext
  <2> DEFINE rest == {s \in WithData : src < s}
  <2>1. /\ pc = "next" /\ brecvOver' = brecvOver
        /\ \/ pc' = "top"
           \/ pc' = "inner" /\ src' = Select(rest) /\ rest # {}
    BY <1>5 DEF GotoNext, RunOnly, guiVars
  <2>2. rest # {} => Select(rest) \in Src /\ src < Select(rest)
    BY <1>2, <1>3
  <2>3. src \in Src
    BY <2>1 DEF Walking
  <2> QED BY <2>1, <2>2, <2>3 DEF Walking, StopAdvances
<1>6. CASE TestOver \/ Poll \/ TestInner \/ GetNextPacket \/ ProcessRTPPacket
  <2>1. /\ brecvOver' = brecvOver /\ src' = src
        /\ \/ pc = "top" /\ pc' = IF brecvOver THEN "done" ELSE "poll"
           \/ pc = "poll" /\ pc' \in {"first", "poll"}
           \/ pc = "inner" /\ pc' = IF brecvOver THEN "next" ELSE "get"
           \/ pc = "get" /\ pc' \in {"process", "next"}
           \/ pc = "process" /\ pc' = "inner"
    BY <1>6 DEF TestOver, Poll, TestInner, GetNextPacket, ProcessRTPPacket, RunOnly, guiVars
  <2> QED BY <2>1 DEF Walking, StopAdvances
<1>7. CASE BadCopy \/ RaceInRun
  BY <1>1, <1>7 DEF BadCopy, RaceInRun, Race, guiVars
<1>8. CASE GuiStep
  BY <1>1, <1>8 DEF GuiStep, DestroyStep, Stop, Delete, ByeDestroyBegin, ByeDestroyEnd, Free,
                    DeleteThread, OnRecvedFrame, GuiOnly, guiVars
<1>9. CASE (\E s \in Src : Send(s)) \/ (\E p \in net : Lose(p))
  BY <1>1, <1>9 DEF Send, Lose, guiVars
<1>10. CASE UNCHANGED vars
  BY <1>1, <1>10 DEF vars, guiVars
<1> QED BY <1>4, <1>5, <1>6, <1>7, <1>8, <1>9, <1>10 DEF Next, RunStep

(* A stopped receiver only goes towards its end: it finishes the packet in   *)
(* hand and at most one walk over the sources.                               *)
THEOREM StopOnlyAdvances == Spec => [][StopAdvances]_vars
<1>1. Init => Walking
  BY DEF Init, Walking
<1>2. TypeInv /\ Walking /\ [Next]_vars => [StopAdvances]_vars
  BY WalkStep
<1> QED BY <1>1, <1>2, WalkStep, TypeInit, TypeNext, PTL DEF Spec

-----------------------------------------------------------------------------
(* Damaged frames *)

(* Without duplicates a packet is in one place at a time: on its way, in     *)
(* jrtplib or in hand; and the last one processed is in none of them.        *)
OnePlace ==
  /\ \A s \in Src : last <= sent[s]
  /\ \A p \in net : p[2] <= sent[p[1]] /\ p[2] \notin list[p[1]] /\ p[2] # last
  /\ \A s \in Src : \A n \in list[s] : n <= sent[s] /\ n # last
  /\ pc = "process" =>
       /\ pack[2] <= sent[pack[1]] /\ pack[2] # last
       /\ pack \notin net /\ pack[2] \notin list[pack[1]]

LEMMA OnePlaceInit == Init => OnePlace
BY DEF Init, OnePlace

LEMMA OnePlaceSend ==
  ASSUME TypeInv, OnePlace, NEW s \in Src, Send(s), OneSource
  PROVE  OnePlace'
<1>1. /\ sent[s] \in 0..N /\ last \in 0..N /\ sent \in [Src -> 0..N]
      /\ net \subseteq Packet /\ list \in [Src -> SUBSET (1..N)]
      /\ pc = "process" => pack \in Packet
  BY DEF TypeInv, TypeOK
<1>2. /\ sent' = [sent EXCEPT ![s] = @ + 1] /\ net' = net \cup {<<s, sent[s] + 1>>}
      /\ UNCHANGED <<pc, pack, last, list>>
  BY DEF Send, runVars, asmVars
<1>3. \A t \in Src : sent'[t] = sent[t] + 1 /\ t = s
  BY <1>1, <1>2 DEF OneSource
<1>4. N \in Nat
  BY PacketAssumption
<1>5. \A t \in Src : last' <= sent'[t]
  BY <1>1, <1>2, <1>3 DEF OnePlace
<1>6. \A t \in Src : \A n \in list'[t] : n <= sent'[t] /\ n # last'
  BY <1>1, <1>2, <1>3, <1>4 DEF OnePlace
<1>7. ASSUME NEW p \in net'
      PROVE  p[2] <= sent'[p[1]] /\ p[2] \notin list'[p[1]] /\ p[2] # last'
  <2>1. CASE p \in net
    <3>1. p[1] \in Src /\ p[2] \in 1..N
      BY <1>1, <2>1 DEF Packet
    <3>2. p[2] <= sent[p[1]] /\ p[2] \notin list[p[1]] /\ p[2] # last
      BY <2>1 DEF OnePlace
    <3> QED BY <1>1, <1>2, <1>3, <3>1, <3>2
  <2>2. CASE p = <<s, sent[s] + 1>>
    <3>1. sent[s] + 1 \notin list[s] /\ sent[s] + 1 # last
      BY <1>1 DEF OnePlace
    <3>2. p[1] = s /\ p[2] = sent[s] + 1
      BY <2>2
    <3> QED BY <1>1, <1>2, <1>3, <3>1, <3>2
  <2> QED BY <1>2, <2>1, <2>2
<1>8. ASSUME pc' = "process"
      PROVE  /\ pack'[2] <= sent'[pack'[1]] /\ pack'[2] # last'
             /\ pack' \notin net' /\ pack'[2] \notin list'[pack'[1]]
  <2>1. pc = "process" /\ pack[1] \in Src /\ pack[2] \in 1..N
    BY <1>1, <1>2, <1>8 DEF Packet
  <2>2. /\ pack[2] <= sent[pack[1]] /\ pack[2] # last
        /\ pack \notin net /\ pack[2] \notin list[pack[1]]
    BY <2>1 DEF OnePlace
  <2>3. pack # <<s, sent[s] + 1>>
    BY <1>1, <1>3, <2>1, <2>2
  <2> QED BY <1>1, <1>2, <1>3, <2>1, <2>2, <2>3
<1> QED BY <1>5, <1>6, <1>7, <1>8 DEF OnePlace

LEMMA OnePlacePoll ==
  ASSUME TypeInv, OnePlace, Poll, dups' = 0
  PROVE  OnePlace'
<1>1. UNCHANGED <<sent, last>> /\ pc' # "process"
  BY DEF Poll, asmVars, TypeInv, TypeOK
<1>2. CASE session = "destroyed"
  <2>1. UNCHANGED <<list, net, pc, pack>> /\ pc = "poll"
    BY <1>2 DEF Poll
  <2> QED BY <1>1, <2>1 DEF OnePlace
<1>3. CASE session # "destroyed"
  <2>1. PICK got \in SUBSET net : Receive(got)
    BY <1>3 DEF Poll, Arrivals
  <2>2. net' = net \ got
    BY <2>1 DEF Receive, TypeInv, TypeOK
  <2>3. list' = [s \in Src |-> list[s] \cup {n \in 1..N : <<s, n>> \in got}]
    BY <2>1 DEF Receive
  <2>4. pc' = "first"
    BY <1>3 DEF Poll
  <2>5. ASSUME NEW p \in net'
        PROVE  p[2] <= sent[p[1]] /\ p[2] \notin list'[p[1]] /\ p[2] # last
    <3>1. p \in net /\ p \notin got /\ p[1] \in Src /\ p = <<p[1], p[2]>>
      BY <2>2 DEF TypeInv, TypeOK, Packet
    <3>2. list'[p[1]] = list[p[1]] \cup {n \in 1..N : <<p[1], n>> \in got}
      BY <2>3, <3>1
    <3> QED BY <3>1, <3>2 DEF OnePlace
  <2>6. ASSUME NEW s \in Src, NEW n \in list'[s]
        PROVE  n <= sent[s] /\ n # last
    <3>1. n \in list[s] \/ <<s, n>> \in net
      BY <2>3
    <3>2. <<s, n>>[1] = s /\ <<s, n>>[2] = n
      OBVIOUS
    <3> QED BY <3>1, <3>2 DEF OnePlace
  <2> QED BY <1>1, <2>4, <2>5, <2>6 DEF OnePlace
<1> QED BY <1>2, <1>3

LEMMA OnePlaceGet ==
  ASSUME TypeInv, OnePlace, GetNextPacket
  PROVE  OnePlace'
<1>1. UNCHANGED <<sent, last, net>>
  BY DEF GetNextPacket, netVars, asmVars
<1>2. CASE src \notin WithData
  BY <1>1, <1>2 DEF GetNextPacket, OnePlace
<1>3. CASE src \in WithData
  <2> DEFINE n == Select(list[src])
  <2>1. src \in Src /\ list[src] \in SUBSET (1..N) /\ list[src] # {}
    BY <1>3 DEF WithData, TypeInv, TypeOK
  <2>2. n \in list[src]
    BY <2>1, SelectLeast
  <2>3. pack' = <<src, n>> /\ list' = [list EXCEPT ![src] = @ \ {n}]
    BY <1>3 DEF GetNextPacket
  <2> HIDE DEF n
  <2>4. list'[src] = list[src] \ {n} /\ \A s \in Src : list'[s] \subseteq list[s]
    BY <2>1, <2>3 DEF TypeInv, TypeOK
  <2>5. pack'[1] = src /\ pack'[2] = n
    BY <2>3
  <2>6. pack' \notin net
    BY <2>2, <2>3 DEF OnePlace
  <2>7. \A p \in net : p[1] \in Src
    BY DEF TypeInv, TypeOK, Packet
  <2> QED BY <1>1, <2>1, <2>2, <2>4, <2>5, <2>6, <2>7 DEF OnePlace
<1> QED BY <1>2, <1>3

LEMMA OnePlaceProcess ==
  ASSUME TypeInv, OnePlace, ProcessRTPPacket, OneSource
  PROVE  OnePlace'
<1>1. UNCHANGED <<sent, net, list>> /\ pc = "process" /\ pc' = "inner"
  BY DEF ProcessRTPPacket, netVars
<1>2. last' = pack[2] /\ pack \in Packet
  BY ProcessEffect
<1>3. /\ pack[2] <= sent[pack[1]] /\ pack \notin net /\ pack[2] \notin list[pack[1]]
  BY <1>1 DEF OnePlace
<1>4. pack[1] \in Src /\ pack = <<pack[1], pack[2]>> /\ \A s \in Src : s = pack[1]
  BY <1>2 DEF Packet, OneSource
<1>5. \A p \in net : p[1] = pack[1] /\ p = <<p[1], p[2]>>
  BY <1>4 DEF TypeInv, TypeOK, Packet
<1>6. \A p \in net : p[2] # pack[2]
  BY <1>3, <1>4, <1>5
<1>7. \A s \in Src : \A n \in list[s] : n # pack[2]
  BY <1>3, <1>4
<1> QED BY <1>1, <1>2, <1>3, <1>4, <1>6, <1>7 DEF OnePlace

LEMMA OnePlaceStep ==
  ASSUME TypeInv, OnePlace, [Next]_vars, OneSource, dups' = 0
  PROVE  OnePlace'
<1>1. CASE \E s \in Src : Send(s)
  BY <1>1, OnePlaceSend
<1>2. CASE \E p \in net : Lose(p)
  BY <1>2 DEF Lose, OnePlace, runVars, asmVars
<1>3. CASE Poll
  BY <1>3, OnePlacePoll
<1>4. CASE GetNextPacket
  BY <1>4, OnePlaceGet
<1>5. CASE ProcessRTPPacket
  BY <1>5, OnePlaceProcess
<1>6. CASE RunStep /\ ~Poll /\ ~GetNextPacket /\ ~ProcessRTPPacket
  <2>1. UNCHANGED <<sent, net, list, last, pack>>
    BY <1>6 DEF RunStep, TestOver, GotoFirst, TestInner, GotoNext, BadCopy, RaceInRun, Race,
                RunOnly, netVars, runVars, asmVars
  <2>2. pc' = "process" => pc = "process"
    BY <1>6 DEF RunStep, TestOver, GotoFirst, TestInner, GotoNext, BadCopy, RaceInRun, Race,
                runVars
  <2> QED BY <2>1, <2>2 DEF OnePlace
<1>7. CASE ByeDestroyEnd
  BY <1>7 DEF ByeDestroyEnd, OnePlace, TypeInv, TypeOK, Packet, netVars, runVars, asmVars
<1>8. CASE GuiStep /\ ~ByeDestroyEnd
  <2>1. UNCHANGED <<sent, net, list, last, pack, pc>>
    BY <1>8 DEF GuiStep, DestroyStep, Stop, Delete, ByeDestroyBegin, Free, DeleteThread,
                OnRecvedFrame, GuiOnly, netVars, runVars, asmVars
  <2> QED BY <2>1 DEF OnePlace
<1>9. CASE UNCHANGED vars
  BY <1>9 DEF vars, OnePlace, netVars, runVars, asmVars
<1> QED BY <1>1, <1>2, <1>3, <1>4, <1>5, <1>6, <1>7, <1>8, <1>9 DEF Next

(* What the buffer holds while nothing was reported: the packets from a      *)
(* first one to the last one, all of them, none a marker.  The first one     *)
(* opens a frame, or follows the packet with number 0, which nobody misses;  *)
(* garbage is in front of it only if it is the first of all.                 *)
Begins(a) == Opens(a) \/ (FirstNumber = 0 /\ a = 2)
Prefix(s, a) == a <= last /\ (\A i \in a..last : i \notin Marker) /\ buf = Run(s, a, last)
FrameInv ==
  /\ last = 0 => buf = <<>>
  /\ buf = <<>> => last = 0 \/ (last \in Marker /\ junk = 0)
  /\ buf # <<>> /\ ~gap =>
       \E s \in Src, a \in 1..N :
         Begins(a) /\ Prefix(s, a) /\ (junk > 0 => SeqNo(a) \in {0, 1})

LEMMA RunAppend ==
  ASSUME NEW s, NEW a \in Nat, NEW b \in Nat, a <= b + 1
  PROVE  Append(Run(s, a, b), <<s, b + 1>>) = Run(s, a, b + 1) /\ Len(Run(s, a, b)) = b - a + 1
<1> DEFINE r == Run(s, a, b)
           k == b - a + 1
           S == {s} \X Int
<1>1. k \in Nat /\ r = [i \in 1..k |-> <<s, a + i - 1>>]
  BY DEF Run
<1>2. \A i \in 1..k : <<s, a + i - 1>> \in S
  OBVIOUS
<1>3. r \in Seq(S) /\ Len(r) = k
  <2> HIDE DEF r, k, S
  <2>1. r \in [1..k -> S]
    BY <1>1, <1>2
  <2>2. Seq(S) = UNION {[1..m -> S] : m \in Nat}
    OBVIOUS
  <2>3. r \in Seq(S)
    BY <1>1, <2>1, <2>2
  <2>4. DOMAIN r = 1..k
    BY <2>1
  <2>5. Len(r) \in Nat /\ DOMAIN r = 1..Len(r)
    BY <2>3, LenProperties
  <2>6. ASSUME NEW m \in Nat, NEW n \in Nat, 1..m = 1..n PROVE m = n
    <3>1. \A i \in Nat : 1 <= i /\ i <= m <=> 1 <= i /\ i <= n
      BY <2>6
    <3> QED BY <3>1
  <2> QED BY <1>1, <2>3, <2>4, <2>5, <2>6
<1>4. /\ <<s, b + 1>> \in S
  OBVIOUS
<1>5. /\ Len(Append(r, <<s, b + 1>>)) = k + 1
      /\ \A i \in 1..k : Append(r, <<s, b + 1>>)[i] = r[i]
      /\ Append(r, <<s, b + 1>>)[k + 1] = <<s, b + 1>>
      /\ Append(r, <<s, b + 1>>) \in Seq(S)
  BY <1>3, <1>4, AppendProperties
<1>6. Append(r, <<s, b + 1>>) = [i \in 1..(k + 1) |-> <<s, a + i - 1>>]
  <2> HIDE DEF r, S
  <2>1. \A i \in 1..(k + 1) : Append(r, <<s, b + 1>>)[i] = <<s, a + i - 1>>
    BY <1>1, <1>5
  <2> QED BY <1>5, <2>1, LenProperties
<1> QED BY <1>3, <1>6 DEF Run

(* A packet that is not reported is the next one, or the first of all.       *)
LEMMA NextOrFirst ==
  ASSUME NEW n \in 1..N, last \in 0..N, n # last, ~Skipped(n)
  PROVE  \/ last = 0 /\ Begins(n) /\ SeqNo(n) \in {0, 1}
         \/ last # 0 /\ n = last + 1
<1>1. N \in Nat /\ FirstNumber \in Nat /\ n \in Nat /\ last \in Nat
  BY PacketAssumption
<1>2. SeqNo(n) - m_lastSeqNumber \in {0, 1}
  BY DEF Skipped
<1>3. SeqNo(n) = FirstNumber + n - 1
  BY DEF SeqNo
<1>4. CASE last = 0
  <2>1. m_lastSeqNumber = 0
    BY <1>4 DEF m_lastSeqNumber
  <2>2. SeqNo(n) \in {0, 1}
    BY <1>1, <1>2, <1>3, <2>1
  <2>3. n = 1 \/ (FirstNumber = 0 /\ n = 2)
    BY <1>1, <1>3, <2>2
  <2>4. Begins(n)
    BY <2>3 DEF Begins, Opens
  <2> QED BY <1>4, <2>2, <2>4
<1>5. CASE last # 0
  <2>1. m_lastSeqNumber = FirstNumber + last - 1
    BY <1>5 DEF m_lastSeqNumber, SeqNo
  <2> QED BY <1>1, <1>2, <1>5, <1>3, <2>1
<1> QED BY <1>4, <1>5

(* The beginning of a frame grows by the next packet. *)
LEMMA PrefixGrows ==
  ASSUME TypeInv, OneSource, NEW s \in Src, NEW a \in 1..N, Prefix(s, a),
         pack \in Packet, pack[2] = last + 1
  PROVE  /\ a <= pack[2] /\ \A i \in a..(pack[2] - 1) : i \notin Marker
         /\ Append(buf, pack) = Run(s, a, pack[2])
<1>0. pack[1] \in Src /\ pack = <<pack[1], pack[2]>>
  BY DEF Packet
<1>1. pack[1] = s /\ pack = <<pack[1], pack[2]>> /\ last \in 0..N /\ N \in Nat
  BY <1>0, PacketAssumption DEF OneSource, TypeInv, TypeOK
<1>2. a \in Nat /\ last \in Nat /\ a <= last + 1 /\ buf = Run(s, a, last)
  BY <1>1 DEF Prefix
<1>3. Append(Run(s, a, last), <<s, last + 1>>) = Run(s, a, last + 1)
  BY <1>2, RunAppend
<1>4. a <= pack[2] /\ \A i \in a..(pack[2] - 1) : i \notin Marker
  BY <1>2 DEF Prefix
<1> QED BY <1>1, <1>2, <1>3, <1>4

(* And it begins with one packet. *)
LEMMA PrefixStarts ==
  ASSUME pack \in Packet, buf = <<>>
  PROVE  /\ pack[1] \in Src /\ pack[2] \in 1..N
         /\ \A i \in pack[2]..(pack[2] - 1) : i \notin Marker
         /\ Append(buf, pack) = Run(pack[1], pack[2], pack[2])
<1>1. pack = <<pack[1], pack[2]>> /\ pack[1] \in Src /\ pack[2] \in 1..N /\ N \in Nat
  BY PacketAssumption DEF Packet
<1>2. Append(buf, pack) = Run(pack[1], pack[2], pack[2])
  BY <1>1 DEF Run
<1>3. \A i \in pack[2]..(pack[2] - 1) : i \notin Marker
  BY <1>1
<1> QED BY <1>1, <1>2, <1>3

(* What processing makes of the buffer while nothing was reported.           *)
Unreported(s, a) ==
  /\ Begins(a) /\ a <= pack[2] /\ \A i \in a..(pack[2] - 1) : i \notin Marker
  /\ Append(buf, pack) = Run(s, a, pack[2])
  /\ junk > 0 => SeqNo(a) \in {0, 1}

LEMMA FrameProcess ==
  ASSUME TypeInv, OnePlace, FrameInv, ProcessRTPPacket, OneSource
  PROVE  /\ FrameInv'
         /\ gap \/ Skipped(pack[2]) \/ \E s \in Src, a \in 1..N : Unreported(s, a)
<1> DEFINE n == pack[2]
<1>1. /\ pc = "process" /\ pack \in Packet /\ buf \in Seq(Packet) /\ last \in 0..N
      /\ gap \in BOOLEAN /\ junk \in Nat
  BY BoundAssumption DEF ProcessRTPPacket, TypeInv, TypeOK
<1>2. n \in 1..N /\ N \in Nat
  BY <1>1, PacketAssumption DEF Packet
<1>3. n # last
  BY <1>1 DEF OnePlace
<1>4. /\ last' = n
      /\ \/ n \in Marker /\ buf' = <<>> /\ junk' = 0 /\ gap' = FALSE
         \/ n \notin Marker /\ buf' = Append(buf, pack) /\ junk' = junk
            /\ gap' = (gap \/ Skipped(n))
  BY ProcessEffect
<1>5. ASSUME ~gap, ~Skipped(n)
      PROVE  \E s \in Src, a \in 1..N : Unreported(s, a)
  <2>1. \/ last = 0 /\ Begins(n) /\ SeqNo(n) \in {0, 1}
        \/ last # 0 /\ n = last + 1
    BY <1>1, <1>2, <1>3, <1>5, NextOrFirst
  <2>2. CASE buf = <<>>
    <3>1. Begins(n) /\ (junk > 0 => SeqNo(n) \in {0, 1})
      <4>1. CASE last = 0
        BY <2>1, <4>1
      <4>2. CASE last # 0
        <5>1. last \in Marker /\ junk = 0 /\ n - 1 = last
          BY <1>1, <1>2, <2>1, <2>2, <4>2 DEF FrameInv
        <5>2. Begins(n)
          BY <1>1, <1>2, <5>1 DEF Begins, Opens
        <5> QED BY <5>1, <5>2
      <4> QED BY <4>1, <4>2
    <3>2. Unreported(pack[1], n)
      BY <1>1, <1>2, <2>2, <3>1, PrefixStarts DEF Unreported
    <3> QED BY <1>1, <1>2, <2>2, <3>2, PrefixStarts
  <2>3. CASE buf # <<>>
    <3>1. PICK s \in Src, a \in 1..N :
            Begins(a) /\ Prefix(s, a) /\ (junk > 0 => SeqNo(a) \in {0, 1})
      BY <1>5, <2>3 DEF FrameInv
    <3>2. last # 0
      BY <2>3 DEF FrameInv
    <3>3. Unreported(s, a)
      BY <1>1, <2>1, <3>1, <3>2, PrefixGrows DEF Unreported
    <3> QED BY <3>3
  <2> QED BY <2>2, <2>3
<1>6. Append(buf, pack) # <<>>
  BY <1>1, AppendProperties
<1>7. FrameInv'
  <2>1. CASE n \in Marker
    BY <1>2, <1>4, <2>1 DEF FrameInv
  <2>2. CASE n \notin Marker
    <3>1. buf' = Append(buf, pack) /\ gap' = (gap \/ Skipped(n)) /\ junk' = junk
      BY <1>4, <2>2
    <3>2. ASSUME ~gap'
          PROVE  \E s \in Src, a \in 1..N :
                   /\ Begins(a) /\ Prefix(s, a)'
                   /\ junk' > 0 => SeqNo(a) \in {0, 1}
      <4>1. PICK s \in Src, a \in 1..N : Unreported(s, a)
        BY <1>5, <3>1, <3>2
      <4>2. \A i \in a..n : i \notin Marker
        BY <1>2, <2>2, <4>1 DEF Unreported
      <4>3. Prefix(s, a)'
        BY <1>4, <3>1, <4>1, <4>2 DEF Prefix, Unreported, Run
      <4> QED BY <3>1, <4>1, <4>3 DEF Unreported
    <3>3. (\E s \in Src, a \in 1..N :
             Begins(a) /\ Prefix(s, a) /\ (junk > 0 => SeqNo(a) \in {0, 1}))' \/ gap'
      BY <3>2 DEF Begins, Opens, SeqNo
    <3> QED BY <1>2, <1>4, <1>6, <3>1, <3>3 DEF FrameInv
  <2> QED BY <2>1, <2>2
<1> QED BY <1>5, <1>7

LEMMA FrameStep ==
  ASSUME TypeInv, OnePlace, FrameInv, [Next]_vars, OneSource
  PROVE  FrameInv'
<1>1. CASE ProcessRTPPacket
  BY <1>1, FrameProcess
<1>2. CASE BadCopy
  <2>1. UNCHANGED <<buf, last, junk>> /\ (gap => gap')
    BY <1>2 DEF BadCopy
  <2> QED BY <2>1 DEF FrameInv, Prefix
<1>3. CASE ~ProcessRTPPacket /\ ~BadCopy
  <2>1. UNCHANGED asmVars
    BY <1>3 DEF Next, RunStep, TestOver, Poll, GotoFirst, TestInner, GetNextPacket, GotoNext,
                RaceInRun, Race, RunOnly, GuiStep, DestroyStep, Stop, Delete, ByeDestroyBegin,
                ByeDestroyEnd, Free, DeleteThread, OnRecvedFrame, GuiOnly, Send, Lose, vars
  <2> QED BY <2>1 DEF FrameInv, Prefix, asmVars
<1> QED BY <1>1, <1>2, <1>3

Reported(e) ==
  \/ e.gap
  \/ Whole(e.packets) /\ e.junk = 0
  \/ /\ SeqNo(e.packets[1][2]) \in {0, 1}
     /\ \/ Whole(e.packets)
        \/ FirstNumber = 0 /\ Headless(e.packets)
AllReported == \A i \in 1..Len(events) : Reported(events[i])

LEMMA ReportedStep ==
  ASSUME TypeInv, OnePlace, FrameInv, AllReported, [Next]_vars, OneSource
  PROVE  AllReported'
<1>0. events \in Seq(Event)
  BY DEF TypeInv, TypeOK
<1>1. CASE ProcessRTPPacket
  <2> DEFINE f == Append(buf, pack)
             e == [packets |-> f, junk |-> junk, gap |-> gap \/ Skipped(pack[2])]
  <2>1. /\ e \in Event /\ pack[2] \in 1..N
        /\ (events' = Append(events, e) /\ pack[2] \in Marker) \/ events' = events
    BY <1>1, ProcessEffect
  <2>2. CASE events' = Append(events, e) /\ pack[2] \in Marker
    <3>1. Reported(e)
      <4>1. CASE gap \/ Skipped(pack[2])
        BY <4>1 DEF Reported
      <4>2. CASE ~(gap \/ Skipped(pack[2]))
        <5>1. PICK s \in Src, a \in 1..N : Unreported(s, a)
          BY <1>1, <4>2, FrameProcess
        <5>2. a \in 1..pack[2] /\ f = Run(s, a, pack[2])
          BY <2>1, <5>1, PacketAssumption DEF Unreported
        <5>3. f[1][2] = a
          BY <2>1, <5>2 DEF Run
        <5>4. junk \in Nat
          BY BoundAssumption DEF TypeInv, TypeOK
        <5>5. junk = 0 \/ SeqNo(f[1][2]) \in {0, 1}
          BY <5>1, <5>3, <5>4 DEF Unreported
        <5>6. CASE Opens(a)
          <6>1. IsFrame(f, pack[2])
            BY <5>1, <5>2, <5>6 DEF IsFrame, Unreported
          <6>2. Whole(f)
            BY <2>2, <6>1 DEF Whole
          <6> QED BY <5>5, <6>2 DEF Reported
        <5>7. CASE ~Opens(a)
          <6>1. FirstNumber = 0 /\ a = 2 /\ 1 \notin Marker
            BY <5>1, <5>7 DEF Unreported, Begins, Opens
          <6>2. \A i \in 1..(pack[2] - 1) : i \notin Marker
            <7> SUFFICES ASSUME NEW i \in 1..(pack[2] - 1), i # 1 PROVE i \notin Marker
              BY <6>1
            <7>1. i \in 2..(pack[2] - 1)
              BY <2>1
            <7> QED BY <5>1, <6>1, <7>1 DEF Unreported
          <6>3. 1 \in 1..pack[2]
            BY <2>1
          <6>4. IsFrame(Run(s, 1, pack[2]), pack[2])
            BY <6>2, <6>3 DEF IsFrame, Opens
          <6>5. Headless(f)
            BY <2>2, <5>2, <6>1, <6>4 DEF Headless
          <6>6. SeqNo(f[1][2]) = 1
            BY <5>3, <6>1 DEF SeqNo
          <6> QED BY <6>1, <6>5, <6>6 DEF Reported
        <5> QED BY <5>6, <5>7
      <4> QED BY <4>1, <4>2
    <3> HIDE DEF e
    <3>2. /\ Len(events') = Len(events) + 1 /\ Len(events) \in Nat
          /\ \A i \in 1..Len(events) : events'[i] = events[i]
          /\ events'[Len(events) + 1] = e
      BY <1>0, <2>1, <2>2, AppendProperties, LenProperties
    <3> QED BY <3>1, <3>2 DEF AllReported, Reported
  <2>3. CASE events' = events
    BY <2>3 DEF AllReported, Reported
  <2> QED BY <2>1, <2>2, <2>3
<1>2. CASE OnRecvedFrame
  <2>1. events # <<>> /\ events' = Tail(events)
    BY <1>2 DEF OnRecvedFrame
  <2>2. /\ Len(events) \in Nat /\ Len(events') = Len(events) - 1
        /\ \A i \in 1..Len(events') : events'[i] = events[i + 1]
    BY <1>0, <2>1, HeadTailProperties, LenProperties
  <2> QED BY <2>2 DEF AllReported, Reported
<1>3. CASE ~ProcessRTPPacket /\ ~OnRecvedFrame
  <2>1. UNCHANGED events
    BY <1>3 DEF Next, RunStep, TestOver, Poll, GotoFirst, TestInner, GetNextPacket, GotoNext,
                BadCopy, RaceInRun, Race, RunOnly, GuiStep, DestroyStep, Stop, Delete,
                ByeDestroyBegin, ByeDestroyEnd, Free, DeleteThread, GuiOnly, Send, Lose, vars,
                outVars
  <2> QED BY <2>1 DEF AllReported, Reported
<1> QED BY <1>1, <1>2, <1>3

LEMMA OverflowStep ==
  ASSUME TypeInv, SingleStream => OnePlace /\ FrameInv, OverflowIsReported, [Next]_vars,
         SingleStream, TailFits
  PROVE  process' = "overflow" => gap' \/ junk' > 0
<1>1. CASE BadCopy
  <2> SUFFICES ASSUME process' = "overflow", ~gap', ~(junk' > 0) PROVE FALSE
    OBVIOUS
  <2>1. /\ pc = "process" /\ pack \in Packet /\ buf \in Seq(Packet) /\ last \in 0..N
        /\ junk \in Nat /\ N \in Nat
    <3>1. pc = "process"
      BY <1>1 DEF BadCopy
    <3>2. pack \in Packet /\ buf \in Seq(Packet) /\ last \in 0..N /\ junk \in Garbage \cup {0}
      BY <3>1 DEF TypeInv, TypeOK
    <3> QED BY <3>1, <3>2, PacketAssumption, BoundAssumption
  <2>2. ~gap /\ ~Skipped(pack[2]) /\ junk = 0 /\ Len(buf) >= BUFFERSIZE
    <3>1. gap' = (gap \/ Skipped(pack[2])) /\ junk' = junk
      BY <1>1 DEF BadCopy
    <3>2. junk + Len(buf) >= BUFFERSIZE
      BY <1>1 DEF BadCopy
    <3>3. ~(gap \/ Skipped(pack[2]))
      BY <3>1
    <3>4. junk = 0
      BY <2>1, <3>1
    <3>5. Len(buf) \in Nat
      BY <2>1, LenProperties
    <3> QED BY <3>2, <3>3, <3>4, <3>5
  <2>3. pack[2] \in 1..N /\ pack[2] # last
    BY <2>1 DEF OnePlace, Packet
  <2>4. last # 0 => pack[2] = last + 1
    BY <2>1, <2>2, <2>3, NextOrFirst
  <2>5. \A a, n \in 1..N : a <= n /\ (\A i \in a..(n - 1) : i \notin Marker) => n - a < BUFFERSIZE
    BY DEF TailFits
  <2>6. CASE buf = <<>>
    <3>1. Len(buf) = 0
      BY <2>6
    <3>2. pack[2] - pack[2] < BUFFERSIZE
      BY <2>3, <2>5
    <3> QED BY <2>2, <2>3, <3>1, <3>2, BoundAssumption
  <2>7. CASE buf # <<>>
    <3>1. PICK s \in Src, a \in 1..N : Prefix(s, a)
      BY <2>2, <2>7 DEF FrameInv
    <3>2. a <= last /\ buf = Run(s, a, last) /\ \A i \in a..last : i \notin Marker
      BY <3>1 DEF Prefix
    <3>3. Len(buf) = last - a + 1
      <4>1. a \in Nat /\ last \in Nat /\ a <= last + 1
        BY <2>1, <3>2
      <4>2. Len(Run(s, a, last)) = last - a + 1
        BY <4>1, RunAppend
      <4> QED BY <3>2, <4>2
    <3>4. pack[2] = last + 1
      BY <2>4, <2>7 DEF FrameInv
    <3>5. pack[2] - a < BUFFERSIZE
      <4>1. a <= pack[2] /\ \A i \in a..(pack[2] - 1) : i \notin Marker
        BY <2>1, <3>2, <3>4
      <4> QED BY <2>3, <2>5, <4>1
    <3> QED BY <2>1, <2>2, <3>3, <3>4, <3>5, BoundAssumption
  <2> QED BY <2>6, <2>7
<1>2. CASE Next /\ ~BadCopy
  <2>1. process = "up" /\ process' # "overflow"
    BY <1>2 DEF Next, RunStep, TestOver, Poll, GotoFirst, TestInner, GetNextPacket, GotoNext,
                ProcessRTPPacket, RaceInRun, Race, RunOnly, GuiStep, DestroyStep, Stop, Delete,
                ByeDestroyBegin, ByeDestroyEnd, Free, DeleteThread, OnRecvedFrame, Send, Lose
  <2> QED BY <2>1
<1>3. CASE UNCHANGED vars
  BY <1>3 DEF vars, asmVars, OverflowIsReported
<1> QED BY <1>1, <1>2, <1>3

(* The inductive invariant of a receiver with one sender and no duplicates.  *)
StreamInv ==
  /\ TypeInv
  /\ SingleStream => OnePlace /\ FrameInv /\ AllReported
  /\ OverflowIsReported

(* What was not duplicated up to a step was not duplicated before it.        *)
LEMMA SingleBefore == TypeInv /\ [Next]_vars /\ SingleStream' => SingleStream /\ dups' = 0
<1> SUFFICES ASSUME TypeInv, [Next]_vars, OneSource, dups' = 0 PROVE dups = 0
  BY DEF SingleStream, OneSource
<1>1. dups \in Nat
  BY BoundAssumption DEF TypeInv, TypeOK
<1>2. CASE Poll
  <2>1. dups' = dups \/ dups' = dups + 1
    BY <1>2 DEF Poll, Receive
  <2> QED BY <1>1, <2>1
<1>3. CASE ~Poll
  <2>1. UNCHANGED dups
    BY <1>3 DEF Next, RunStep, TestOver, GotoFirst, TestInner, GetNextPacket, GotoNext,
                ProcessRTPPacket, BadCopy, RaceInRun, Race, RunOnly, GuiStep, DestroyStep,
                Stop, Delete, ByeDestroyBegin, ByeDestroyEnd, Free, DeleteThread,
                OnRecvedFrame, GuiOnly, Send, Lose, vars, netVars
  <2> QED BY <2>1
<1> QED BY <1>2, <1>3

LEMMA StreamInit == Init => StreamInv
<1> SUFFICES ASSUME Init PROVE StreamInv
  OBVIOUS
<1>1. buf = <<>> /\ last = 0 /\ process = "up"
  BY DEF Init
<1>2. FrameInv
  BY <1>1 DEF FrameInv
<1>3. OverflowIsReported
  BY <1>1 DEF OverflowIsReported
<1>4. Len(events) = 0
  BY DEF Init
<1>5. AllReported
  BY <1>4 DEF AllReported
<1> QED BY <1>2, <1>3, <1>5, TypeInit, OnePlaceInit DEF StreamInv

LEMMA StreamStep == StreamInv /\ [Next]_vars => StreamInv'
<1> SUFFICES ASSUME StreamInv, [Next]_vars PROVE StreamInv'
  OBVIOUS
<1>1. TypeInv'
  BY TypeNext DEF StreamInv
<1>2. ASSUME SingleStream' PROVE OnePlace' /\ FrameInv' /\ AllReported'
  <2>1. SingleStream /\ OneSource /\ dups' = 0
    BY <1>2, SingleBefore DEF StreamInv, SingleStream
  <2> QED BY <2>1, OnePlaceStep, FrameStep, ReportedStep DEF StreamInv
<1>3. OverflowIsReported'
  <2> SUFFICES ASSUME SingleStream', TailFits PROVE (process = "overflow" => gap \/ junk > 0)'
    BY DEF OverflowIsReported, TailFits
  <2>1. SingleStream
    BY SingleBefore DEF StreamInv
  <2> QED BY <2>1, OverflowStep DEF StreamInv
<1> QED BY <1>1, <1>2, <1>3 DEF StreamInv

(* Damage to a frame that is handed over was reported, for every frame       *)
(* structure, first number, loss and reordering; the packet with number 0    *)
(* and the garbage of m_bufferSize, in the first frame, are all that is not. *)
THEOREM DamageIsReportedHolds == Spec => []DamageIsReported
<1>1. StreamInv => DamageIsReported
  BY DEF StreamInv, DamageIsReported, AllReported, Reported
<1> QED BY <1>1, StreamInit, StreamStep, PTL DEF Spec

(* The copy runs past a buffer that fits the sender's frames only after a    *)
(* report, or with garbage in m_bufferSize.                                  *)
THEOREM OverflowIsReportedHolds == Spec => []OverflowIsReported
<1>1. StreamInv => OverflowIsReported
  BY DEF StreamInv
<1> QED BY <1>1, StreamInit, StreamStep, PTL DEF Spec

-----------------------------------------------------------------------------
(* A faithful network: the stream of whole frames *)

(* One sender; nothing is lost, reordered or duplicated; m_bufferSize is 0.  *)
Faithful == OneSource /\ MaxDup = 0 /\ Faults = {} /\ Garbage \subseteq {0}

(* How far run() has come in the sender's sequence. *)
Position == IF pc = "process" THEN pack[2] ELSE last

(* The packets behind that position wait in jrtplib, the later ones on the   *)
(* network, none is missing (until the session is destroyed) and the one in  *)
(* hand is the successor of the last one.                                    *)
NothingMissing ==
  session # "destroyed" =>
    \A s \in Src, n \in 1..N :
      Position < n /\ n <= sent[s] => n \in list[s] \/ <<s, n>> \in net
InOrder ==
  /\ \A s \in Src : \A n \in list[s] : Position < n
  /\ \A p \in net : Position < p[2]
  /\ \A s \in Src, p \in net : \A n \in list[s] : n < p[2]
  /\ pc = "process" => pack[2] = last + 1

(* The buffer holds the beginning of a frame, whatever number it began with. *)
Undamaged ==
  /\ junk = 0
  /\ buf # <<>> => \E s \in Src, a \in 1..N : Opens(a) /\ Prefix(s, a)
OrderInv == Faithful /\ NothingMissing /\ InOrder /\ Undamaged

LEMMA OrderInit == Init /\ Faithful => OrderInv
BY PacketAssumption DEF Init, OrderInv, InOrder, NothingMissing, Undamaged, Prefix, Position, Faithful

LEMMA OrderSend ==
  ASSUME TypeInv, OnePlace, OrderInv, NEW s \in Src, Send(s)
  PROVE  OrderInv'
<1>1. /\ sent[s] \in 0..N /\ last \in 0..N /\ sent \in [Src -> 0..N] /\ N \in Nat
      /\ net \subseteq Packet /\ list \in [Src -> SUBSET (1..N)]
      /\ pc = "process" => pack \in Packet
  BY PacketAssumption DEF TypeInv, TypeOK
<1>2. /\ sent' = [sent EXCEPT ![s] = @ + 1] /\ net' = net \cup {<<s, sent[s] + 1>>}
      /\ UNCHANGED <<pc, pack, last, list, session, junk, buf>>
  BY DEF Send, runVars, asmVars
<1>3. \A t \in Src : t = s
  BY DEF OrderInv, Faithful, OneSource
<1>4. Position' = Position
  BY <1>2 DEF Position
<1>5. Position \in Nat /\ Position <= sent[s]
  <2>1. CASE pc = "process"
    <3>1. pack[1] \in Src /\ pack[2] \in 1..N
      BY <1>1, <2>1 DEF Packet
    <3>2. pack[2] <= sent[s]
      BY <1>3, <2>1, <3>1 DEF OnePlace
    <3> QED BY <2>1, <3>1, <3>2 DEF Position
  <2>2. CASE pc # "process"
    BY <1>1, <2>2 DEF Position, OnePlace
  <2> QED BY <2>1, <2>2
<1>6. sent'[s] = sent[s] + 1 /\ <<s, sent[s] + 1>>[2] = sent[s] + 1
  BY <1>1, <1>2
<1>7. InOrder'
  <2>1. \A p \in net' : Position < p[2]
    BY <1>1, <1>2, <1>5, <1>6 DEF OrderInv, InOrder
  <2>2. \A t \in Src : \A n \in list[t] : n < sent[s] + 1
    BY <1>1, <1>3 DEF OnePlace
  <2>3. \A t \in Src, p \in net' : \A n \in list[t] : n < p[2]
    BY <1>2, <1>6, <2>2 DEF OrderInv, InOrder
  <2> QED BY <1>2, <1>4, <2>1, <2>3 DEF OrderInv, InOrder
<1>8. NothingMissing'
  <2> SUFFICES ASSUME session' # "destroyed", NEW t \in Src, NEW n \in 1..N,
                      Position < n, n <= sent'[t]
               PROVE  n \in list[t] \/ <<t, n>> \in net'
    BY <1>2, <1>4 DEF NothingMissing
  <2>1. t = s
    BY <1>3
  <2>2. CASE n = sent[s] + 1
    BY <1>2, <2>1, <2>2
  <2>3. CASE n # sent[s] + 1
    <3>1. n <= sent[s]
      BY <1>1, <1>6, <2>1, <2>3
    <3>2. n \in list[t] \/ <<t, n>> \in net
      BY <1>2, <2>1, <3>1 DEF OrderInv, NothingMissing
    <3> QED BY <1>2, <3>2
  <2> QED BY <2>2, <2>3
<1> QED BY <1>2, <1>7, <1>8 DEF OrderInv, Undamaged, Prefix, Faithful, OneSource

LEMMA OrderPoll ==
  ASSUME TypeInv, OrderInv, Poll
  PROVE  OrderInv'
<1>1. /\ UNCHANGED <<sent, last, session, junk, buf>> /\ pc = "poll" /\ pc' # "process"
      /\ net \subseteq Packet /\ list \in [Src -> SUBSET (1..N)] /\ last \in 0..N /\ N \in Nat
  BY PacketAssumption DEF Poll, asmVars, TypeInv, TypeOK
<1>2. Position = last /\ Position' = last
  BY <1>1 DEF Position
<1>3. CASE session = "destroyed"
  <2>1. UNCHANGED <<list, net>>
    BY <1>3 DEF Poll
  <2> QED BY <1>1, <1>2, <1>3, <2>1
          DEF OrderInv, InOrder, NothingMissing, Undamaged, Prefix, Faithful, OneSource
<1>4. CASE session # "destroyed"
  <2>1. PICK got \in Arrivals : Receive(got)
    BY <1>4 DEF Poll
  <2>2. got \subseteq net /\ \A p \in got, q \in net : q[1] = p[1] /\ q[2] < p[2] => q \in got
    BY DEF Arrivals, OrderInv, Faithful
  <2>3. net' = net \ got
    BY <2>1, BoundAssumption DEF Receive, TypeInv, TypeOK, OrderInv, Faithful, OneSource
  <2>4. list' = [s \in Src |-> list[s] \cup {n \in 1..N : <<s, n>> \in got}]
    BY <2>1 DEF Receive
  <2>5. \A p \in net : p[1] \in Src /\ p[2] \in 1..N /\ p = <<p[1], p[2]>>
    BY <1>1 DEF Packet
  <2>6. ASSUME NEW s \in Src, NEW n \in list'[s]
        PROVE  Position < n /\ \A q \in net' : n < q[2]
    <3>1. n \in list[s] \/ <<s, n>> \in got
      BY <2>4
    <3>2. CASE n \in list[s]
      BY <2>3, <3>2 DEF OrderInv, InOrder
    <3>3. CASE <<s, n>> \in got
      <4>1. <<s, n>>[1] = s /\ <<s, n>>[2] = n /\ <<s, n>> \in net
        BY <2>2, <3>3
      <4>2. Position < n /\ n \in 1..N
        BY <2>5, <4>1 DEF OrderInv, InOrder
      <4>3. ASSUME NEW q \in net' PROVE n < q[2]
        <5>1. q \in net /\ q \notin got
          BY <2>3
        <5>2. q[1] = s
          BY <2>5, <5>1 DEF OrderInv, Faithful, OneSource
        <5>3. ~(q[2] < n)
          BY <2>2, <3>3, <4>1, <5>1, <5>2
        <5>4. q[2] # n
          BY <2>5, <3>3, <5>1, <5>2
        <5> QED BY <2>5, <4>2, <5>1, <5>3, <5>4
      <4> QED BY <4>2, <4>3
    <3> QED BY <3>1, <3>2, <3>3
  <2>7. ASSUME NEW s \in Src, NEW n \in 1..N, Position < n, n <= sent[s]
        PROVE  n \in list'[s] \/ <<s, n>> \in net'
    <3>1. n \in list[s] \/ <<s, n>> \in net
      BY <1>4, <2>7 DEF OrderInv, NothingMissing
    <3> QED BY <2>3, <2>4, <3>1
  <2>8. InOrder'
    BY <1>1, <1>2, <2>3, <2>6 DEF OrderInv, InOrder
  <2>9. NothingMissing'
    BY <1>1, <1>2, <2>7 DEF NothingMissing
  <2> QED BY <1>1, <2>8, <2>9 DEF OrderInv, Undamaged, Prefix, Faithful, OneSource
<1> QED BY <1>3, <1>4

(* The packet that jrtplib hands out is the one the sender sent next. *)
LEMMA OrderGet ==
  ASSUME TypeInv, OnePlace, OrderInv, GetNextPacket
  PROVE  OrderInv'
<1>1. /\ UNCHANGED <<sent, last, net, session, junk, buf>> /\ pc = "get"
      /\ net \subseteq Packet /\ list \in [Src -> SUBSET (1..N)] /\ last \in 0..N /\ N \in Nat
      /\ sent \in [Src -> 0..N]
  BY PacketAssumption DEF GetNextPacket, netVars, asmVars, TypeInv, TypeOK
<1>2. Position = last
  BY <1>1 DEF Position
<1>3. CASE src \notin WithData
  <2>1. UNCHANGED <<list, pack>> /\ pc' = "next"
    BY <1>3 DEF GetNextPacket
  <2>2. Position' = last
    BY <1>1, <2>1 DEF Position
  <2> QED BY <1>1, <1>2, <2>1, <2>2
          DEF OrderInv, InOrder, NothingMissing, Undamaged, Prefix, Faithful, OneSource
<1>4. CASE src \in WithData
  <2> DEFINE n == Select(list[src])
  <2>1. src \in Src /\ list[src] \in SUBSET (1..N) /\ list[src] # {} /\ session # "destroyed"
    BY <1>4 DEF WithData, TypeInv, TypeOK
  <2>2. n \in list[src] /\ \A k \in list[src] : n <= k
    BY <2>1, SelectLeast
  <2>3. pack' = <<src, n>> /\ list' = [list EXCEPT ![src] = @ \ {n}] /\ pc' = "process"
    BY <1>4 DEF GetNextPacket
  <2> HIDE DEF n
  <2>4. n \in 1..N /\ last < n /\ n <= sent[src]
    BY <1>2, <2>1, <2>2 DEF OrderInv, InOrder, OnePlace
  <2>5. n = last + 1
    <3> SUFFICES ASSUME last + 1 < n PROVE FALSE
      BY <1>1, <2>4
    <3>1. last + 1 \in 1..N /\ last < last + 1 /\ last + 1 <= sent[src]
      BY <1>1, <2>1, <2>4
    <3>2. last + 1 \in list[src] \/ <<src, last + 1>> \in net
      BY <1>2, <2>1, <3>1 DEF OrderInv, NothingMissing
    <3>3. last + 1 \notin list[src]
      BY <2>1, <2>2, <2>4, <3>1
    <3>4. <<src, last + 1>> \notin net
      <4>1. <<src, last + 1>>[2] = last + 1
        OBVIOUS
      <4>2. <<src, last + 1>> \in net => n < last + 1
        BY <2>1, <2>2, <4>1 DEF OrderInv, InOrder
      <4> QED BY <2>4, <3>1, <4>2
    <3> QED BY <3>2, <3>3, <3>4
  <2>6. Position' = n /\ pack'[2] = n
    BY <2>3 DEF Position
  <2>7. list'[src] = list[src] \ {n} /\ \A s \in Src : s = src
    BY <1>1, <2>1, <2>3 DEF OrderInv, Faithful, OneSource
  <2>8. \A k \in list'[src] : n < k
    BY <2>1, <2>2, <2>4, <2>7
  <2>9. \A p \in net : n < p[2]
    BY <2>1, <2>2 DEF OrderInv, InOrder
  <2>10. \A p \in net : \A k \in list'[src] : k < p[2]
    BY <2>1, <2>7 DEF OrderInv, InOrder
  <2>11. InOrder'
    BY <1>1, <2>5, <2>6, <2>7, <2>8, <2>9, <2>10 DEF InOrder
  <2>12. ASSUME NEW k \in 1..N, n < k, k <= sent[src]
         PROVE  k \in list'[src] \/ <<src, k>> \in net
    <3>1. last < k
      BY <1>1, <2>4, <2>12
    <3>2. k \in list[src] \/ <<src, k>> \in net
      BY <1>2, <2>1, <2>12, <3>1 DEF OrderInv, NothingMissing
    <3>3. k # n
      BY <2>4, <2>12
    <3> QED BY <2>7, <3>2, <3>3
  <2>13. NothingMissing'
    BY <1>1, <2>6, <2>7, <2>12 DEF NothingMissing
  <2> QED BY <1>1, <2>11, <2>13 DEF OrderInv, Undamaged, Prefix, Faithful, OneSource
<1> QED BY <1>3, <1>4

(* The frame in the buffer grows by the packet in hand, which is the next. *)
LEMMA FrameGrows ==
  ASSUME TypeInv, FrameInv, OrderInv, pc = "process"
  PROVE  \E s \in Src, a \in 1..N :
           /\ Opens(a) /\ a <= pack[2] /\ \A i \in a..(pack[2] - 1) : i \notin Marker
           /\ Append(buf, pack) = Run(s, a, pack[2])
<1>1. pack \in Packet /\ pack[2] \in 1..N /\ last \in 0..N /\ N \in Nat
  BY PacketAssumption DEF TypeInv, TypeOK, Packet
<1>2. pack[2] = last + 1
  BY DEF OrderInv, InOrder
<1>3. CASE buf = <<>>
  <2>1. Opens(pack[2])
    BY <1>1, <1>2, <1>3 DEF FrameInv, Opens
  <2> QED BY <1>1, <1>3, <2>1, PrefixStarts
<1>4. CASE buf # <<>>
  <2>1. PICK s \in Src, a \in 1..N : Opens(a) /\ Prefix(s, a)
    BY <1>4 DEF OrderInv, Undamaged
  <2>2. OneSource
    BY DEF OrderInv, Faithful
  <2> QED BY <1>1, <1>2, <2>1, <2>2, PrefixGrows
<1> QED BY <1>3, <1>4

LEMMA OrderProcess ==
  ASSUME TypeInv, FrameInv, OrderInv, ProcessRTPPacket
  PROVE  OrderInv'
<1>1. UNCHANGED <<sent, net, list, session>> /\ pc = "process" /\ pc' = "inner"
  BY DEF ProcessRTPPacket, netVars
<1>2. /\ last' = pack[2] /\ pack[2] \in 1..N
      /\ \/ pack[2] \in Marker /\ junk' = 0 /\ buf' = <<>>
         \/ pack[2] \notin Marker /\ junk' = junk /\ buf' = Append(buf, pack)
  BY ProcessEffect
<1>3. last \in 0..N /\ N \in Nat /\ pack[2] = last + 1
  BY <1>1, PacketAssumption DEF TypeInv, TypeOK, OrderInv, InOrder
<1>4. Position = pack[2] /\ Position' = pack[2]
  BY <1>1, <1>2 DEF Position
<1>5. Undamaged'
  <2>1. CASE pack[2] \in Marker
    BY <1>2, <2>1 DEF Undamaged
  <2>2. CASE pack[2] \notin Marker
    <3>1. PICK s \in Src, a \in 1..N :
            /\ Opens(a) /\ a <= pack[2] /\ \A i \in a..(pack[2] - 1) : i \notin Marker
            /\ Append(buf, pack) = Run(s, a, pack[2])
      BY <1>1, FrameGrows
    <3>2. \A i \in a..pack[2] : i \notin Marker
      BY <1>2, <2>2, <3>1
    <3>3. Prefix(s, a)'
      BY <1>2, <2>2, <3>1, <3>2 DEF Prefix, Run
    <3>4. Opens(a)'
      BY <3>1 DEF Opens
    <3>5. junk' = 0
      BY <1>2 DEF OrderInv, Undamaged
    <3> QED BY <3>3, <3>4, <3>5 DEF Undamaged
  <2> QED BY <2>1, <2>2
<1>6. InOrder' /\ NothingMissing'
  BY <1>1, <1>4 DEF OrderInv, InOrder, NothingMissing
<1> QED BY <1>5, <1>6 DEF OrderInv, Faithful, OneSource

LEMMA OrderStep ==
  ASSUME TypeInv, OnePlace, FrameInv, OrderInv, [Next]_vars
  PROVE  OrderInv'
<1>1. CASE \E s \in Src : Send(s)
  BY <1>1, OrderSend
<1>2. CASE \E p \in net : Lose(p)
  BY <1>2 DEF Lose, OrderInv, Faithful
<1>3. CASE Poll
  BY <1>3, OrderPoll
<1>4. CASE GetNextPacket
  BY <1>4, OrderGet
<1>5. CASE ProcessRTPPacket
  BY <1>5, OrderProcess
<1>6. CASE BadCopy
  <2>1. UNCHANGED <<sent, net, list, session, last, pack, pc, junk, buf>>
    BY <1>6 DEF BadCopy, netVars, runVars
  <2> QED BY <2>1
          DEF OrderInv, InOrder, NothingMissing, Undamaged, Prefix, Position, Faithful, OneSource
<1>7. CASE RunStep /\ ~Poll /\ ~GetNextPacket /\ ~ProcessRTPPacket /\ ~BadCopy
  <2>1. UNCHANGED <<sent, net, list, last, pack, session, junk, buf>>
    BY <1>7 DEF RunStep, TestOver, GotoFirst, TestInner, GotoNext, RaceInRun, Race,
                RunOnly, netVars, runVars, asmVars
  <2>2. pc' = "process" <=> pc = "process"
    BY <1>7 DEF RunStep, TestOver, GotoFirst, TestInner, GotoNext, RaceInRun, Race,
                runVars
  <2> QED BY <2>1, <2>2
          DEF OrderInv, InOrder, NothingMissing, Undamaged, Prefix, Position, Faithful, OneSource
<1>8. CASE ByeDestroyEnd
  <2>1. session' = "destroyed" /\ list' = [s \in Src |-> {}]
        /\ UNCHANGED <<sent, net, last, pack, pc, junk, buf>>
    BY <1>8 DEF ByeDestroyEnd, netVars, runVars, asmVars
  <2> QED BY <2>1
          DEF OrderInv, InOrder, NothingMissing, Undamaged, Prefix, Position, Faithful, OneSource
<1>9. CASE GuiStep /\ ~ByeDestroyEnd
  <2>1. UNCHANGED <<sent, net, list, last, pack, pc, junk, buf>>
        /\ (session' # "destroyed" => session # "destroyed")
    BY <1>9 DEF GuiStep, DestroyStep, Stop, Delete, ByeDestroyBegin, Free, DeleteThread,
                OnRecvedFrame, GuiOnly, netVars, runVars, asmVars
  <2> QED BY <2>1
          DEF OrderInv, InOrder, NothingMissing, Undamaged, Prefix, Position, Faithful, OneSource
<1>10. CASE UNCHANGED vars
  BY <1>10 DEF vars, netVars, runVars, asmVars, OrderInv, InOrder, NothingMissing, Undamaged,
               Prefix, Position, Faithful, OneSource
<1> QED BY <1>1, <1>2, <1>3, <1>4, <1>5, <1>6, <1>7, <1>8, <1>9, <1>10 DEF Next

(* A bounded set of numbers has a greatest one, or is empty. *)
LEMMA LatestGreatest ==
  ASSUME NEW S \in SUBSET Nat, NEW b \in Nat, \A k \in S : k <= b
  PROVE  Latest(S) \in S \cup {0} /\ \A k \in S : k <= Latest(S)
<1> DEFINE Above == {u \in Nat : \A k \in S : k <= u}
<1>1. PICK m \in Above : \A u \in Above : m <= u
  <2>1. Above # {} /\ Above \in SUBSET Nat
    OBVIOUS
  <2> QED BY <2>1, LeastNumber
<1>2. m \in S \cup {0}
  <2> SUFFICES ASSUME m \notin S, m # 0 PROVE FALSE
    OBVIOUS
  <2>1. m - 1 \in Nat /\ \A k \in S : k <= m - 1
    OBVIOUS
  <2>2. m - 1 \in Above
    BY <2>1
  <2>3. m <= m - 1
    BY <1>1, <2>2
  <2> QED BY <2>1, <2>3
<1>3. \E u \in S \cup {0} : \A k \in S : k <= u
  BY <1>1, <1>2
<1> QED BY <1>3 DEF Latest

Emitted == Latest({m \in Video : m <= last})
Markers == [i \in 1..Len(events) |-> events[i].packets[Len(events[i].packets)][2]]

LEMMA VideoNumbers == Video \subseteq 1..N /\ N \in Nat
BY PacketAssumption

(* The queue of the abstract stream grows by the marker of the frame. *)
LEMMA MarkersAppend ==
  ASSUME TypeInv, NEW e \in Event, events' = Append(events, e)
  PROVE  Markers' = Append(Markers, e.packets[Len(e.packets)][2])
<1> DEFINE x == e.packets[Len(e.packets)][2]
           k == Len(events)
           S == {Markers[i] : i \in 1..k} \cup {x}
<1>1. events \in Seq(Event) /\ k \in Nat
  BY LenProperties DEF TypeInv, TypeOK
<1>2. /\ Len(events') = k + 1
      /\ \A i \in 1..k : events'[i] = events[i]
      /\ events'[k + 1] = e
  BY <1>1, AppendProperties
<1>3. Markers \in Seq(S) /\ Len(Markers) = k /\ x \in S
  <2>1. Markers = [i \in 1..k |-> Markers[i]]
    BY DEF Markers
  <2>2. \A i \in 1..k : Markers[i] \in S
    OBVIOUS
  <2> HIDE DEF k, S
  <2>3. Markers \in [1..k -> S]
    BY <2>1, <2>2
  <2>4. Markers \in Seq(S)
    BY <1>1, <2>3
  <2>5. DOMAIN Markers = 1..k /\ Len(Markers) \in Nat /\ DOMAIN Markers = 1..Len(Markers)
    BY <2>3, <2>4, LenProperties
  <2>6. ASSUME NEW m \in Nat, NEW n \in Nat, 1..m = 1..n PROVE m = n
    <3>1. \A i \in Nat : 1 <= i /\ i <= m <=> 1 <= i /\ i <= n
      BY <2>6
    <3> QED BY <3>1
  <2>7. Len(Markers) = k
    BY <1>1, <2>5, <2>6
  <2>8. x \in S
    BY DEF S
  <2> QED BY <2>4, <2>7, <2>8
<1> HIDE DEF x, S
<1>4. /\ Append(Markers, x) \in Seq(S) /\ Len(Append(Markers, x)) = k + 1
      /\ \A i \in 1..k : Append(Markers, x)[i] = Markers[i]
      /\ Append(Markers, x)[k + 1] = x
  BY <1>3, AppendProperties
<1>5. DOMAIN Append(Markers, x) = 1..(k + 1)
  BY <1>4, LenProperties
<1>6. Markers' = [i \in 1..(k + 1) |-> events'[i].packets[Len(events'[i].packets)][2]]
  BY <1>2 DEF Markers
<1>7. \A i \in 1..k : Markers[i] = events[i].packets[Len(events[i].packets)][2]
  BY DEF Markers
<1>8. \A i \in 1..(k + 1) : Append(Markers, x)[i] = Markers'[i]
  <2> TAKE i \in 1..(k + 1)
  <2>1. CASE i = k + 1
    BY <1>1, <1>2, <1>4, <1>6, <2>1 DEF x
  <2>2. CASE i # k + 1
    <3>1. i \in 1..k
      BY <1>1, <2>2
    <3> QED BY <1>2, <1>4, <1>6, <1>7, <3>1
  <2> QED BY <2>1, <2>2
<1> QED BY <1>4, <1>5, <1>6, <1>8 DEF x

(* It shrinks by its oldest marker when the GUI thread takes a frame. *)
LEMMA MarkersTail ==
  ASSUME TypeInv, events # <<>>, events' = Tail(events)
  PROVE  Markers # <<>> /\ Markers' = Tail(Markers)
<1> DEFINE k == Len(events)
           S == {Markers[i] : i \in 1..k}
<1>1. events \in Seq(Event) /\ k \in Nat /\ k # 0
  BY LenProperties, EmptySeq DEF TypeInv, TypeOK
<1>2. Len(events') = k - 1 /\ \A i \in 1..(k - 1) : events'[i] = events[i + 1]
  BY <1>1, HeadTailProperties
<1>3. Markers \in Seq(S) /\ Len(Markers) = k
  <2>1. Markers = [i \in 1..k |-> Markers[i]]
    BY DEF Markers
  <2>2. \A i \in 1..k : Markers[i] \in S
    OBVIOUS
  <2> HIDE DEF k, S
  <2>3. Markers \in [1..k -> S]
    BY <2>1, <2>2
  <2>4. Markers \in Seq(S)
    BY <1>1, <2>3
  <2>5. DOMAIN Markers = 1..k /\ Len(Markers) \in Nat /\ DOMAIN Markers = 1..Len(Markers)
    BY <2>3, <2>4, LenProperties
  <2>6. ASSUME NEW m \in Nat, NEW n \in Nat, 1..m = 1..n PROVE m = n
    <3>1. \A i \in Nat : 1 <= i /\ i <= m <=> 1 <= i /\ i <= n
      BY <2>6
    <3> QED BY <3>1
  <2>7. Len(Markers) = k
    BY <1>1, <2>5, <2>6
  <2> QED BY <2>4, <2>7
<1> HIDE DEF S
<1>4. Markers # <<>>
  BY <1>1, <1>3
<1>5. /\ Tail(Markers) \in Seq(S) /\ Len(Tail(Markers)) = k - 1
      /\ \A i \in 1..(k - 1) : Tail(Markers)[i] = Markers[i + 1]
  BY <1>3, <1>4, HeadTailProperties
<1>6. DOMAIN Tail(Markers) = 1..(k - 1)
  BY <1>5, LenProperties
<1>7. Markers' = [i \in 1..(k - 1) |-> events'[i].packets[Len(events'[i].packets)][2]]
  BY <1>2 DEF Markers
<1>8. \A i \in 1..k : Markers[i] = events[i].packets[Len(events[i].packets)][2]
  BY DEF Markers
<1>9. \A i \in 1..(k - 1) : Tail(Markers)[i] = Markers'[i]
  <2> TAKE i \in 1..(k - 1)
  <2>1. i + 1 \in 1..k
    BY <1>1
  <2> QED BY <1>2, <1>5, <1>7, <1>8, <2>1
<1>10. Markers' = Tail(Markers)
  <2>1. ASSUME NEW t \in Seq(S), DOMAIN t = 1..(k - 1)
        PROVE  t = [i \in 1..(k - 1) |-> t[i]]
    BY <2>1, SeqDef
  <2>2. Tail(Markers) = [i \in 1..(k - 1) |-> Tail(Markers)[i]]
    BY <1>5, <1>6, <2>1
  <2> QED BY <1>7, <1>9, <2>2
<1> QED BY <1>4, <1>10

(* At a marker the frame is whole, so the decoder finds video in it exactly  *)
(* if the sender put some there.                                             *)
LEMMA ProcessEmits ==
  ASSUME TypeInv, OnePlace, FrameInv, OrderInv, ProcessRTPPacket
  PROVE  /\ last' = last + 1 /\ last' \in 1..N
         /\ \/ last' \in Video /\ Markers' = Append(Markers, last')
            \/ last' \notin Video /\ events' = events
<1> DEFINE n == pack[2]
           f == Append(buf, pack)
           e == [packets |-> f, junk |-> junk, gap |-> gap \/ Skipped(n)]
<1>1. /\ pc = "process" /\ pack \in Packet /\ n \in 1..N /\ f \in Seq(Packet) /\ e \in Event
      /\ last' = n /\ buf \in Seq(Packet)
  BY ProcessEffect DEF ProcessRTPPacket, TypeInv, TypeOK
<1>2. n = last + 1 /\ junk = 0
  BY <1>1 DEF OrderInv, InOrder, Undamaged
<1>3. Len(f) = Len(buf) + 1 /\ f[Len(f)] = pack
  BY <1>1, AppendProperties
<1>4. CASE n \in Marker
  <2>1. PICK found \in HasVideo(f) :
          IF found THEN events' = Append(events, e) ELSE events' = events
    BY <1>4 DEF ProcessRTPPacket, outVars
  <2>2. PICK s \in Src, a \in 1..N :
          /\ Opens(a) /\ a <= n /\ \A i \in a..(n - 1) : i \notin Marker
          /\ f = Run(s, a, n)
    BY <1>1, FrameGrows
  <2>3. Whole(f)
    <3>1. a \in 1..n
      BY <1>1, <2>2, PacketAssumption
    <3>2. IsFrame(f, n)
      BY <2>2, <3>1 DEF IsFrame
    <3> QED BY <1>4, <3>2 DEF Whole
  <2>4. found \in BOOLEAN /\ (found <=> n \in Video)
    BY <1>2, <1>3, <2>3 DEF HasVideo
  <2>5. CASE n \in Video
    <3>1. events' = Append(events, e)
      BY <2>1, <2>4, <2>5
    <3>2. e.packets = f
      OBVIOUS
    <3> HIDE DEF e
    <3>3. Markers' = Append(Markers, e.packets[Len(e.packets)][2])
      BY <1>1, <3>1, MarkersAppend
    <3> QED BY <1>1, <1>2, <1>3, <2>5, <3>2, <3>3
  <2>6. CASE n \notin Video
    BY <1>1, <1>2, <2>1, <2>4, <2>6
  <2> QED BY <2>5, <2>6
<1>5. CASE n \notin Marker
  <2>1. events' = events
    BY <1>5 DEF ProcessRTPPacket, outVars
  <2> QED BY <1>1, <1>2, <1>5, <2>1, PacketAssumption
<1> QED BY <1>4, <1>5

(* The last emitted frame moves on to the packet just processed, if that is  *)
(* the marker of a frame with video, and stays otherwise.                    *)
LEMMA EmittedMoves ==
  ASSUME TypeInv, last' = last + 1, last' \in 1..N
  PROVE  /\ last' \in Video => /\ Emitted' = last' /\ Emitted < last'
                               /\ \A k \in Video : k <= Emitted \/ last' <= k
         /\ last' \notin Video => Emitted' = Emitted
<1> DEFINE S == {m \in Video : m <= last}
           T == {m \in Video : m <= last'}
<1>1. last \in Nat /\ last' \in Nat /\ Video \subseteq Nat
  BY VideoNumbers DEF TypeInv, TypeOK
<1>2. S \in SUBSET Nat /\ T \in SUBSET Nat /\ (\A k \in S : k <= last) /\ \A k \in T : k <= last'
  BY <1>1
<1>3. Emitted = Latest(S) /\ Emitted' = Latest(T)
  BY DEF Emitted, Latest
<1>4. Emitted \in S \cup {0} /\ \A k \in S : k <= Emitted
  BY <1>1, <1>2, <1>3, LatestGreatest
<1>5. Emitted' \in T \cup {0} /\ \A k \in T : k <= Emitted'
  BY <1>1, <1>2, <1>3, LatestGreatest
<1>6. CASE last' \in Video
  <2>1. last' \in T /\ last' <= Emitted'
    BY <1>1, <1>5, <1>6
  <2>2. Emitted' = last'
    BY <1>1, <1>5, <2>1
  <2>3. Emitted < last'
    BY <1>1, <1>4
  <2>4. \A k \in Video : k <= Emitted \/ last' <= k
    BY <1>1, <1>4
  <2> QED BY <1>6, <2>2, <2>3, <2>4
<1>7. CASE last' \notin Video
  <2>1. \A m \in Video : m <= last <=> m <= last'
    BY <1>1, <1>7
  <2>2. S = T
    BY <2>1
  <2> QED BY <1>3, <1>7, <2>2
<1> QED BY <1>6, <1>7

FaithInv == StreamInv /\ OrderInv

LEMMA FaithfulParts == FaithInv => TypeInv /\ OnePlace /\ FrameInv /\ OrderInv
<1> SUFFICES ASSUME FaithInv PROVE TypeInv /\ OnePlace /\ FrameInv /\ OrderInv
  OBVIOUS
<1>1. TypeInv /\ OrderInv /\ MaxDup = 0 /\ OneSource
  BY DEF FaithInv, StreamInv, OrderInv, Faithful
<1>2. dups = 0
  BY <1>1 DEF TypeInv, TypeOK
<1> QED BY <1>1, <1>2 DEF FaithInv, StreamInv, SingleStream

LEMMA RefineInit == Init => FrameStream!Init
<1> SUFFICES ASSUME Init PROVE FrameStream!Init
  OBVIOUS
<1>1. last = 0 /\ events = <<>>
  BY DEF Init
<1>2. {m \in Video : m <= last} = {}
  <2>1. \A m \in Video : m \in Nat /\ ~(m <= 0)
    BY VideoNumbers
  <2> QED BY <1>1, <2>1
<1>3. Latest({}) = 0
  BY DEF Latest
<1>4. Latest({m \in Video : m <= last}) = 0
  BY <1>2, <1>3
<1>5. Len(events) = 0
  BY <1>1
<1>6. Markers = <<>>
  BY <1>5 DEF Markers
<1> QED BY <1>4, <1>6 DEF FrameStream!Init, Markers

(* Every step of the receiver is an emission of the next frame with video,   *)
(* a delivery of the oldest one, or nothing the decoder could see.           *)
LEMMA RefineStep ==
  ASSUME FaithInv, [Next]_vars
  PROVE  [FrameStream!Next]_<<Emitted, Markers>>
<1>0. TypeInv /\ OnePlace /\ FrameInv /\ OrderInv
  BY FaithfulParts
<1>1. CASE ProcessRTPPacket
  <2>1. /\ last' = last + 1 /\ last' \in 1..N
        /\ \/ last' \in Video /\ Markers' = Append(Markers, last')
           \/ last' \notin Video /\ events' = events
    BY <1>0, <1>1, ProcessEmits
  <2>2. CASE last' \in Video
    <3>1. /\ Emitted' = last' /\ Emitted < last'
          /\ \A k \in Video : k <= Emitted \/ last' <= k
      BY <1>0, <2>1, <2>2, EmittedMoves
    <3>2. PICK n \in Video : n = last'
      BY <2>2
    <3>3. FrameStream!Emit(n)
      BY <2>1, <2>2, <3>1, <3>2 DEF FrameStream!Emit, Emitted, Markers
    <3> QED BY <3>3 DEF FrameStream!Next
  <2>3. CASE last' \notin Video
    <3>1. Emitted' = Emitted
      BY <1>0, <2>1, <2>3, EmittedMoves
    <3>2. Markers' = Markers
      BY <2>1, <2>3 DEF Markers
    <3> QED BY <3>1, <3>2
  <2> QED BY <2>2, <2>3
<1>2. CASE OnRecvedFrame
  <2>1. events # <<>> /\ events' = Tail(events) /\ last' = last
    BY <1>2 DEF OnRecvedFrame, asmVars
  <2>2. Markers # <<>> /\ Markers' = Tail(Markers)
    BY <1>0, <2>1, MarkersTail
  <2>3. Emitted' = Emitted
    BY <2>1 DEF Emitted
  <2>4. FrameStream!Deliver
    BY <2>2, <2>3 DEF FrameStream!Deliver, Emitted, Markers
  <2> QED BY <2>4 DEF FrameStream!Next
<1>3. CASE ~ProcessRTPPacket /\ ~OnRecvedFrame
  <2>1. UNCHANGED <<last, events>>
    BY <1>3 DEF Next, RunStep, TestOver, Poll, GotoFirst, TestInner, GetNextPacket, GotoNext,
                BadCopy, RaceInRun, Race, RunOnly, GuiStep, DestroyStep, Stop, Delete,
                ByeDestroyBegin, ByeDestroyEnd, Free, DeleteThread, GuiOnly, Send, Lose, vars,
                asmVars, outVars
  <2> QED BY <2>1 DEF Emitted, Markers
<1> QED BY <1>1, <1>2, <1>3

(* With one sender and a network that neither loses, reorders nor duplicates *)
(* its packets, run() and the GUI thread implement the stream of frames with *)
(* video: in the sender's order, none skipped, none twice, however Poll cuts *)
(* the packets into batches and whenever the receiver is stopped.            *)
THEOREM StreamIsImplemented == Faithful /\ Spec => ImplementsFrameStream
<1>1. Faithful /\ Init => FaithInv
  BY StreamInit, OrderInit DEF FaithInv
<1>2. FaithInv /\ [Next]_vars => FaithInv'
  <2> SUFFICES ASSUME FaithInv, [Next]_vars PROVE FaithInv'
    OBVIOUS
  <2>1. TypeInv /\ OnePlace /\ FrameInv /\ OrderInv
    BY FaithfulParts
  <2> QED BY <2>1, StreamStep, OrderStep DEF FaithInv
<1>3. FaithInv /\ [Next]_vars
        => [FrameStream!Next]_<<Latest({m \in Video : m <= last}),
                                [i \in 1..Len(events) |->
                                   events[i].packets[Len(events[i].packets)][2]]>>
  BY RefineStep DEF Emitted, Markers
<1> QED BY <1>1, <1>2, <1>3, RefineInit, PTL DEF Spec, ImplementsFrameStream, FrameStream!Spec

=============================================================================
