--------------------------- MODULE PsToH264_proofs ---------------------------
(***************************************************************************)
(* Proofs about the in-place extraction, for every set of frames and every *)
(* bound on the length fields.  One inductive invariant carries them: the  *)
(* write position stays behind the read position because each section      *)
(* yields less than it is long, and the read position is at most one       *)
(* section beyond the received bytes because nothing is found behind them. *)
(***************************************************************************)
EXTENDS PsToH264, TLAPS

(* The parser's place in the frame, while it is parsing. *)
Place == pc = "parse" => w <= pos /\ pos <= frame.size + MaxLen + 5

IInv ==
  /\ TypeOK /\ frame \in Frames
  /\ Place
  /\ pc = "head" => w = 0
  /\ read <= frame.size + MaxLen + PackHead

(* What is known of the section at NextPack: it starts inside the received  *)
(* bytes.                                                                   *)
LEMMA HereFacts ==
  ASSUME IInv, Found
  PROVE  /\ Here \in Section
         /\ Here.len \in 0..MaxLen /\ Here.stuff \in 0..255 /\ Here.k \in Nat
         /\ Here.whole \in BOOLEAN
         /\ pos \in Nat /\ pos < frame.size /\ w <= pos /\ frame.size \in Nat
         /\ MaxLen \in Nat
<1>1. Here \in Section /\ pos \in Nat /\ pos < frame.size /\ frame.size \in Nat /\ MaxLen \in Nat
  BY FramesAssumption DEF IInv, Found, Here
<1>2. QED  BY <1>1 DEF Section, Found

(* Every step of the loop that finds no section stops without reading more  *)
(* than a start code there.                                                 *)
LEMMA FrameFacts ==
  ASSUME IInv
  PROVE  /\ frame.size \in Nat /\ frame.stuffing \in 0..7 /\ MaxLen \in Nat
         /\ pos \in Nat /\ left \in Int /\ w \in Nat /\ read \in Nat
BY FramesAssumption DEF IInv, TypeOK

LEMMA InitIInv == Init => IInv
<1> SUFFICES ASSUME Init PROVE IInv
  OBVIOUS
<1>1. frame \in Frames /\ frame.size \in Nat /\ MaxLen \in Nat
  BY FramesAssumption DEF Init
<1>2. QED  BY <1>1 DEF Init, IInv, TypeOK, Place, PackHead

(* Pes preserves the invariant: what is written ends before the next header. *)
LEMMA PesIInv ==
  ASSUME IInv, Pes
  PROVE  IInv'
<1>1. Found /\ PayloadLen >= 0 /\ pc = "parse"
  BY DEF Pes, At
<1>2. /\ Here.len \in 0..MaxLen /\ Here.stuff \in 0..255 /\ Here.k \in Nat
      /\ Here.whole \in BOOLEAN
      /\ pos \in Nat /\ pos < frame.size /\ w <= pos /\ frame.size \in Nat
      /\ MaxLen \in Nat
  BY <1>1, HereFacts
<1>3. /\ PayloadLen \in Nat /\ PayloadLen = Here.len - 3 - Here.stuff
      /\ PayloadAt + PayloadLen = pos + 6 + Here.len
  BY <1>1, <1>2 DEF PayloadLen, PayloadAt, PesHead
<1>4. w' \in Nat /\ w' <= w + PayloadLen
  <2>1. w \in Nat  BY FrameFacts
  <2>2. w' = w \/ w' = w + PayloadLen  BY DEF Pes, Copy, Advance
  <2>3. QED  BY <2>1, <2>2, <1>3
<1>5. out' \in Seq([k : Nat, whole : BOOLEAN, garbled : BOOLEAN])
  <2>1. out \in Seq([k : Nat, whole : BOOLEAN, garbled : BOOLEAN])
    BY DEF IInv, TypeOK
  <2>2. CASE PayloadLen = 0
    BY <2>1, <2>2 DEF Pes, Copy
  <2>3. CASE PayloadLen # 0
    <3>1. PICK g \in BOOLEAN :
            out' = Append(out, [k |-> Here.k, whole |-> Here.whole, garbled |-> g])
      BY <2>3 DEF Pes, Copy
    <3>2. [k |-> Here.k, whole |-> Here.whole, garbled |-> g]
            \in [k : Nat, whole : BOOLEAN, garbled : BOOLEAN]
      BY <1>2
    <3>3. QED  BY <2>1, <3>1, <3>2
  <2>4. QED  BY <2>2, <2>3
<1>6. read' \in Nat /\ read' <= frame.size + MaxLen + PackHead
  <2>1. read \in Nat /\ read <= frame.size + MaxLen + PackHead
    BY DEF IInv, TypeOK
  <2>2. read' = read \/ read' = PayloadAt + PayloadLen
    BY DEF Pes, Reads
  <2>3. QED  BY <2>1, <2>2, <1>2, <1>3 DEF PackHead
<1>7. frame' = frame
  BY DEF Pes
<1>8. CASE Rest <= 0
  <2>1. pc' = "done" /\ pos' = pos /\ left' = left
    BY <1>8 DEF Pes
  <2>2. QED  BY <2>1, <1>4, <1>5, <1>6, <1>7 DEF IInv, TypeOK, Place, PackHead
<1>9. CASE ~(Rest <= 0)
  <2>1. pc' = pc /\ pos' = pos + 6 + Here.len /\ left' = Rest
    BY <1>9, <1>2 DEF Pes, StartCode
  <2>2. left \in Int /\ left' \in Int /\ pos' \in Nat
    BY <2>1, <1>2, FrameFacts DEF Rest, StartCode
  <2>3. w' <= pos' /\ pos' <= frame.size + MaxLen + 5
    BY <2>1, <1>2, <1>3, <1>4, FrameFacts
  <2>4. QED
    BY <2>1, <2>2, <2>3, <1>1, <1>4, <1>5, <1>6, <1>7 DEF IInv, TypeOK, Place, PackHead
<1>10. QED  BY <1>8, <1>9

(* Skipping a header or a stream map moves the read position only. *)
LEMMA SkipIInv ==
  ASSUME IInv, Found, pc = "parse", SkipSection
  PROVE  IInv'
<1>1. /\ Here.len \in 0..MaxLen /\ pos \in Nat /\ pos < frame.size /\ w <= pos
      /\ frame.size \in Nat /\ MaxLen \in Nat
  BY HereFacts
<1>2. /\ pos' = pos + Here.len + 6 /\ left' = left - Here.len - 6
      /\ frame' = frame /\ pc' = pc /\ w' = w /\ out' = out
      /\ read' = read \/ read' = pos + 6
  BY DEF SkipSection, Skippable, Reads
<1>3. left \in Int /\ w \in Nat /\ read \in Nat
  BY FrameFacts
<1>4. w' <= pos' /\ pos' <= frame.size + MaxLen + 5 /\ pos' \in Nat /\ left' \in Int
  BY <1>1, <1>2, <1>3
<1>5. read' \in Nat /\ read' <= frame.size + MaxLen + PackHead
  BY <1>1, <1>2, <1>3 DEF IInv, PackHead
<1>6. QED
  BY <1>2, <1>3, <1>4, <1>5 DEF IInv, TypeOK, Place, PackHead

(* Giving up leaves everything as it is but the mark of what was read. *)
LEMMA FinishIInv ==
  ASSUME IInv, pc = "parse", frame' = frame, pos' = pos, left' = left, w' = w, out' = out,
         pc' \in {"done", "abort"},
         NEW n \in 0..9, read' = read \/ (read' = pos + n)
  PROVE  IInv'
<1>1. /\ pos \in Nat /\ read \in Nat /\ frame.size \in Nat /\ MaxLen \in Nat
  BY FrameFacts
<1>2. pos <= frame.size + MaxLen + 5
  BY DEF IInv, Place
<1>3. read' \in Nat /\ read' <= frame.size + MaxLen + 14
  BY <1>1, <1>2 DEF IInv, PackHead
<1>4. QED
  BY <1>3 DEF IInv, TypeOK, Place, PackHead

LEMMA StepIInv ==
  ASSUME IInv, Next
  PROVE  IInv'
<1>1. CASE PackHeader
  <2>1. /\ frame' = frame /\ w' = w /\ out' = out /\ w = 0
        /\ pos' = 14 + frame.stuffing /\ left' = frame.size - 14 - frame.stuffing
        /\ pc' = IF left' < 4 THEN "done" ELSE "parse"
        /\ read' = read \/ read' = 14
    BY <1>1 DEF PackHeader, PackHead, Reads, IInv
  <2>2. frame.stuffing \in 0..7 /\ frame.size \in Nat /\ MaxLen \in Nat /\ read \in Nat
    BY FrameFacts
  <2>3. pos' \in Nat /\ left' \in Int /\ pc' \in {"parse", "done"} /\ w' <= pos'
    BY <2>1, <2>2
  <2>4. pc' = "parse" => pos' <= frame.size + MaxLen + 5
    BY <2>1, <2>2
  <2>5. read' \in Nat /\ read' <= frame.size + MaxLen + 14
    BY <2>1, <2>2 DEF IInv, PackHead
  <2>6. QED
    BY <2>1, <2>3, <2>4, <2>5 DEF IInv, TypeOK, Place, PackHead
<1>2. CASE LoopEnd
  BY <1>2, FinishIInv DEF LoopEnd, Finish
<1>3. CASE Unknown
  <2>1. read' = read \/ read' = pos + 4
    BY <1>3 DEF Unknown, Reads, StartCode
  <2>2. QED  BY <1>3, <2>1, FinishIInv DEF Unknown, Finish
<1>4. CASE Title
  <2>1. pc = "parse" /\ Found  BY <1>4 DEF Title, At
  <2>2. CASE frame.size < Skippable
    <3>1. read' = read \/ read' = pos + 4
      BY <1>4, <2>2 DEF Title, Reads, StartCode
    <3>2. QED  BY <1>4, <2>1, <2>2, <3>1, FinishIInv DEF Title, Finish
  <2>3. CASE ~(frame.size < Skippable)
    BY <1>4, <2>1, <2>3, SkipIInv DEF Title
  <2>4. QED  BY <2>2, <2>3
<1>5. CASE Map
  <2>1. pc = "parse" /\ Found  BY <1>5 DEF Map, At
  <2>2. CASE Fewer(left, Skippable)
    <3>1. read' = read \/ read' = pos + 4
      BY <1>5, <2>2 DEF Map, Reads, StartCode
    <3>2. QED  BY <1>5, <2>1, <2>2, <3>1, FinishIInv DEF Map, Finish
  <2>3. CASE ~Fewer(left, Skippable)
    BY <1>5, <2>1, <2>3, SkipIInv DEF Map
  <2>4. QED  BY <2>2, <2>3
<1>6. CASE Pes
  BY <1>6, PesIInv
<1>7. CASE PesShort
  <2>1. read' = read \/ read' = pos + 4
    BY <1>7 DEF PesShort, Reads, StartCode
  <2>2. QED  BY <1>7, <2>1, FinishIInv DEF PesShort, Finish, At
<1>8. CASE PesNegative
  <2>1. read' = read \/ read' = pos + 9
    BY <1>8 DEF PesNegative, Reads, PesHead
  <2>2. QED  BY <1>8, <2>1, FinishIInv DEF PesNegative, At
<1>9. QED
  BY <1>1, <1>2, <1>3, <1>4, <1>5, <1>6, <1>7, <1>8 DEF Next

(* The inductive invariant holds in every reachable state. *)
THEOREM Inductive == Spec => []IInv
<1>1. IInv /\ [Next]_vars => IInv'
  <2> SUFFICES ASSUME IInv, [Next]_vars PROVE IInv'
    OBVIOUS
  <2>1. CASE Next  BY <2>1, StepIInv
  <2>2. CASE UNCHANGED vars
    BY <2>2 DEF vars, IInv, TypeOK, Place
  <2>3. QED  BY <2>1, <2>2
<1>2. QED  BY <1>1, InitIInv, PTL DEF Spec

(* Every reachable state of the extraction has its type. *)
THEOREM TypeCorrect == Spec => []TypeOK
<1>1. IInv => TypeOK  BY DEF IInv
<1>2. QED  BY <1>1, Inductive, PTL

(* GetH246FromPs never overwrites, with the payload it moves to the front,  *)
(* a byte of the frame that it has still to parse.                          *)
THEOREM UnreadIsIntactHolds == Spec => []UnreadIsIntact
<1>1. IInv => UnreadIsIntact  BY DEF IInv, Place, UnreadIsIntact
<1>2. QED  BY <1>1, Inductive, PTL

(* Whatever the length fields say, GetH246FromPs reads at most one section  *)
(* beyond the bytes that were received.                                     *)
THEOREM OneSectionBeyondHolds == Spec => []OneSectionBeyond
<1>1. IInv => OneSectionBeyond  BY DEF IInv, OneSectionBeyond
<1>2. QED  BY <1>1, Inductive, PTL

-----------------------------------------------------------------------------
(* What is copied, and in which order *)

(* A section of video adds one block for it at the end of out, or, without   *)
(* a payload, none.                                                          *)
LEMMA PesOut ==
  ASSUME IInv, Pes
  PROVE  \/ PayloadLen = 0 /\ out' = out
         \/ /\ PayloadLen > 0 /\ Len(out') = Len(out) + 1
            /\ \A i \in 1..Len(out) : out'[i] = out[i]
            /\ out'[Len(out) + 1].k = Here.k /\ out'[Len(out) + 1].whole = Here.whole
<1>1. /\ Found /\ PayloadLen >= 0 /\ Copy
  BY DEF Pes, At
<1>2. Here.len \in 0..MaxLen /\ Here.stuff \in 0..255 /\ MaxLen \in Nat
  BY <1>1, HereFacts
<1>3. PayloadLen \in Int /\ out \in Seq([k : Nat, whole : BOOLEAN, garbled : BOOLEAN])
  <2>1. PayloadLen \in Int
    BY <1>2 DEF PayloadLen
  <2>2. QED  BY <2>1 DEF IInv, TypeOK
<1>4. CASE PayloadLen = 0
  BY <1>1, <1>4 DEF Copy
<1>5. CASE PayloadLen # 0
  <2>1. PICK g \in BOOLEAN :
          out' = Append(out, [k |-> Here.k, whole |-> Here.whole, garbled |-> g])
    BY <1>1, <1>5 DEF Copy
  <2>2. QED  BY <1>1, <1>3, <1>5, <2>1
<1>6. QED  BY <1>4, <1>5

(* Every step leaves the frame alone, and a step that stays in the loop      *)
(* moves NextPack forward, past the section it stood at.                     *)
LEMMA LoopAdvances ==
  ASSUME IInv, Next, pc = "parse"
  PROVE  /\ frame' = frame
         /\ pc' = "parse" => Found /\ pos' = End(frame, pos) /\ pos' >= pos + 6
         /\ ~Pes => out' = out
<1>1. /\ frame' = frame
      /\ ~Pes => out' = out
  BY DEF Next, PackHeader, LoopEnd, Unknown, Title, Map, Pes, PesShort, PesNegative, SkipSection,
         Finish
<1>2. ASSUME pc' = "parse" PROVE Found /\ pos' = End(frame, pos) /\ pos' >= pos + 6
  <2>1. Found /\ pos' = pos + Here.len + 6
    <3>1. CASE Title \/ Map
      <4>1. Found /\ SkipSection
        BY <1>2, <3>1 DEF Title, Map, At, Finish
      <4>2. QED  BY <4>1 DEF SkipSection, Skippable
    <3>2. CASE Pes
      <4>1. Found /\ pos' = pos + 4 + 2 + Here.len
        BY <1>2, <3>2 DEF Pes, At, StartCode
      <4>2. Here.len \in Nat /\ pos \in Nat
        BY <4>1, HereFacts
      <4>3. QED  BY <4>1, <4>2
    <3>3. ~(PackHeader \/ LoopEnd \/ Unknown \/ PesShort \/ PesNegative)
      BY <1>2 DEF PackHeader, LoopEnd, Unknown, PesShort, PesNegative, Finish
    <3>4. QED  BY <3>1, <3>2, <3>3 DEF Next
  <2>2. Here.len \in Nat /\ pos \in Nat
    BY <2>1, HereFacts
  <2>3. QED  BY <2>1, <2>2 DEF End, Here, Skippable
<1>3. QED  BY <1>1, <1>2

(* The blocks so far are from sections in front of every one still to come. *)
DamageInv ==
  /\ DamageStaysLocal
  /\ pc = "head" => out = <<>>
  /\ pc = "parse" =>
       \A i \in DOMAIN out : \A q \in DOMAIN frame.at : q >= pos =>
         out[i].k < frame.at[q].k /\ (out[i].whole \/ frame.at[q].whole)

LEMMA DamagePes ==
  ASSUME IInv, DamageInv, Pes
  PROVE  DamageInv'
<1>1. pc = "parse" /\ Found /\ frame' = frame /\ frame \in Frames /\ Next
  BY DEF Pes, At, IInv, Next
<1>2. /\ Here = frame.at[pos] /\ pos \in DOMAIN frame.at /\ pos \in Nat
      /\ DOMAIN frame.at \subseteq Nat
  BY <1>1, FrameFacts, FramesAssumption DEF Found, Here
<1>3. /\ out \in Seq([k : Nat, whole : BOOLEAN, garbled : BOOLEAN]) /\ Len(out) \in Nat
      /\ DOMAIN out = 1..Len(out)
      /\ out' \in Seq([k : Nat, whole : BOOLEAN, garbled : BOOLEAN])
      /\ DOMAIN out' = 1..Len(out')
  BY PesIInv DEF IInv, TypeOK
<1>4. \A q \in DOMAIN frame.at : q > pos =>
        Here.k < frame.at[q].k /\ (Here.whole \/ frame.at[q].whole)
  BY <1>1, <1>2, NetworkAssumption DEF OneLoss
<1>5. \A i \in DOMAIN out : out[i].k < Here.k /\ (out[i].whole \/ Here.whole)
  BY <1>1, <1>2 DEF DamageInv
<1>6. pc' # "head"
  BY <1>1 DEF Pes
<1>7. pc' = "parse" => pos' > pos /\ pos' \in Nat
  BY <1>1, <1>2, LoopAdvances, PesIInv DEF IInv, TypeOK
<1>8. CASE out' = out
  <2>1. DamageStaysLocal'
    BY <1>8 DEF DamageInv, DamageStaysLocal
  <2>2. ASSUME pc' = "parse", NEW i \in DOMAIN out, NEW q \in DOMAIN frame.at, q >= pos'
        PROVE  out[i].k < frame.at[q].k /\ (out[i].whole \/ frame.at[q].whole)
    <3>1. q >= pos
      BY <1>2, <1>7, <2>2
    <3>2. QED  BY <1>1, <3>1 DEF DamageInv
  <2>3. QED  BY <1>1, <1>6, <1>8, <2>1, <2>2 DEF DamageInv
<1>9. CASE ~(out' = out)
  <2>1. /\ Len(out') = Len(out) + 1
        /\ \A i \in 1..Len(out) : out'[i] = out[i]
        /\ out'[Len(out) + 1].k = Here.k /\ out'[Len(out) + 1].whole = Here.whole
    BY <1>9, PesOut
  <2>2. ASSUME NEW i \in 1..Len(out')
        PROVE  \/ i \in 1..Len(out) /\ out'[i] = out[i]
               \/ i = Len(out) + 1 /\ out'[i].k = Here.k /\ out'[i].whole = Here.whole
    BY <1>3, <2>1
  <2>3. DamageStaysLocal'
    <3>1. SUFFICES ASSUME NEW i \in 1..Len(out'), NEW j \in 1..Len(out'), i < j
                   PROVE  out'[i].k < out'[j].k /\ (out'[i].whole \/ out'[j].whole)
      BY <1>3 DEF DamageStaysLocal
    <3>2. i \in 1..Len(out) /\ out'[i] = out[i]
      BY <1>3, <2>1, <3>1
    <3>3. CASE j \in 1..Len(out) /\ out'[j] = out[j]
      BY <1>3, <3>1, <3>2, <3>3 DEF DamageInv, DamageStaysLocal
    <3>4. CASE j = Len(out) + 1 /\ out'[j].k = Here.k /\ out'[j].whole = Here.whole
      BY <1>3, <1>5, <3>2, <3>4
    <3>5. QED  BY <2>2, <3>3, <3>4
  <2>4. ASSUME pc' = "parse", NEW i \in 1..Len(out'), NEW q \in DOMAIN frame.at, q >= pos'
        PROVE  out'[i].k < frame.at[q].k /\ (out'[i].whole \/ frame.at[q].whole)
    <3>1. q > pos /\ q >= pos
      BY <1>2, <1>7, <2>4
    <3>2. CASE i \in 1..Len(out) /\ out'[i] = out[i]
      BY <1>1, <1>3, <3>1, <3>2 DEF DamageInv
    <3>3. CASE i = Len(out) + 1 /\ out'[i].k = Here.k /\ out'[i].whole = Here.whole
      BY <1>4, <3>1, <3>3
    <3>4. QED  BY <2>2, <3>2, <3>3
  <2>5. QED  BY <1>1, <1>3, <1>6, <2>3, <2>4 DEF DamageInv
<1>10. QED  BY <1>8, <1>9

LEMMA DamageStep ==
  ASSUME IInv, DamageInv, Next
  PROVE  DamageInv'
<1>1. CASE PackHeader
  <2>1. out' = <<>> /\ pc' # "head"
    BY <1>1 DEF PackHeader, DamageInv
  <2>2. DOMAIN out' = {}
    BY <2>1
  <2>3. QED  BY <2>1, <2>2 DEF DamageInv, DamageStaysLocal
<1>2. CASE Pes
  BY <1>2, DamagePes
<1>3. CASE ~PackHeader /\ ~Pes
  <2>1. pc = "parse"
    BY <1>3 DEF Next, LoopEnd, Unknown, Title, Map, PesShort, PesNegative, At
  <2>2. frame' = frame /\ out' = out /\ pc' # "head"
    BY <1>3, <2>1, LoopAdvances DEF Next, LoopEnd, Unknown, Title, Map, PesShort, PesNegative,
                                   Finish, SkipSection
  <2>3. pos \in Nat /\ frame \in Frames /\ DOMAIN frame.at \subseteq Nat
    BY FrameFacts, FramesAssumption DEF IInv
  <2>4. ASSUME pc' = "parse", NEW i \in DOMAIN out, NEW q \in DOMAIN frame.at, q >= pos'
        PROVE  out[i].k < frame.at[q].k /\ (out[i].whole \/ frame.at[q].whole)
    <3>1. pos' >= pos + 6 /\ pos' = pos + 6 + Here.len /\ Here.len \in Nat
      BY <2>1, <2>4, LoopAdvances, HereFacts DEF End, Here, Skippable
    <3>2. q >= pos
      BY <2>3, <2>4, <3>1
    <3>3. QED  BY <2>1, <3>2 DEF DamageInv
  <2>5. QED  BY <2>1, <2>2, <2>4 DEF DamageInv, DamageStaysLocal
<1>4. QED  BY <1>1, <1>2, <1>3

(* A lost packet spoils at most one block of video, and the blocks that      *)
(* GetH246FromPs hands on keep their order, none twice, wherever the parser  *)
(* resumes or gives up.                                                      *)
THEOREM DamageStaysLocalHolds == Spec => []DamageStaysLocal
<1>1. Init => DamageInv
  <2>1. Init => DOMAIN out = {}
    BY DEF Init
  <2>2. QED  BY <2>1 DEF Init, DamageInv, DamageStaysLocal
<1>2. IInv /\ DamageInv /\ [Next]_vars => DamageInv'
  <2> SUFFICES ASSUME IInv, DamageInv, [Next]_vars PROVE DamageInv'
    OBVIOUS
  <2>1. CASE Next  BY <2>1, DamageStep
  <2>2. CASE UNCHANGED vars
    BY <2>2 DEF vars, DamageInv, DamageStaysLocal
  <2>3. QED  BY <2>1, <2>2
<1>3. DamageInv => DamageStaysLocal
  BY DEF DamageInv
<1>4. QED  BY <1>1, <1>2, <1>3, Inductive, PTL DEF Spec

-----------------------------------------------------------------------------
(* A frame that arrived whole *)

(* Up to offset p exactly the video of the sections there was copied. *)
Extracted(p) ==
  /\ Len(out) <= Len(frame.video)
  /\ \A i \in 1..Len(out) : out[i].k = frame.video[i] /\ out[i].whole
  /\ {out[i].k : i \in 1..Len(out)} = {frame.at[q].k : q \in {r \in VideoAt(frame) : r < p}}

(* Of a whole frame what is left is what there is from NextPack on, and      *)
(* NextPack is at a section that is followed, or at the one that ends it.    *)
WholeInv ==
  ~frame.lost =>
    /\ pc # "abort"
    /\ pc = "head" => out = <<>>
    /\ pc = "parse" =>
         /\ left = frame.size - pos /\ First(frame) <= pos
         /\ pos = frame.size \/ pos \in DOMAIN frame.at
         /\ \A q \in DOMAIN frame.at : q < pos => frame.at[q].id # "other"
         /\ Extracted(pos)
    /\ pc = "done" => Extracted(frame.size)

(* The assumptions, for the frame under work. *)
LEMMA WholeFacts ==
  ASSUME IInv, ~frame.lost
  PROVE  /\ Intact(frame) /\ OneLoss(frame)
         /\ DOMAIN frame.at \subseteq {p \in Nat : p < frame.size}
         /\ \A p \in DOMAIN frame.at : frame.at[p] \in Section
         /\ frame.video \in Seq(Nat) /\ DOMAIN frame.video = 1..Len(frame.video)
         /\ Len(frame.video) \in Nat /\ frame.size \in Nat /\ pos \in Nat
         /\ out \in Seq([k : Nat, whole : BOOLEAN, garbled : BOOLEAN])
         /\ Len(out) \in Nat /\ DOMAIN out = 1..Len(out)
<1>1. frame \in Frames
  BY DEF IInv
<1>2. /\ frame.video \in Seq(Nat) /\ frame.size \in Nat
      /\ DOMAIN frame.at \subseteq {p \in Nat : p < frame.size}
      /\ \A p \in DOMAIN frame.at : frame.at[p] \in Section
  BY <1>1, FramesAssumption
<1>3. out \in Seq([k : Nat, whole : BOOLEAN, garbled : BOOLEAN]) /\ pos \in Nat
  BY DEF IInv, TypeOK
<1>4. Intact(frame) /\ OneLoss(frame)
  BY <1>1, NetworkAssumption
<1>5. QED  BY <1>2, <1>3, <1>4

(* Extracted depends on p only through the video sections in front of p. *)
LEMMA ExtractedAt ==
  ASSUME NEW p, NEW r, Extracted(p), \A q \in VideoAt(frame) : q < p <=> q < r
  PROVE  Extracted(r)
<1>1. {q \in VideoAt(frame) : q < p} = {q \in VideoAt(frame) : q < r}
  OBVIOUS
<1>2. QED  BY <1>1 DEF Extracted

(* Extracted speaks of the frame and of what was copied only. *)
LEMMA ExtractedSame ==
  ASSUME NEW p, Extracted(p), frame' = frame, out' = out
  PROVE  Extracted(p)'
<1>1. VideoAt(frame)' = VideoAt(frame)
  BY DEF VideoAt, Followed, Payload
<1>2. {out[i].k : i \in 1..Len(out)}' = {out[i].k : i \in 1..Len(out)}
  OBVIOUS
<1>3. {frame.at[q].k : q \in {r \in VideoAt(frame) : r < p}}'
        = {frame.at[q].k : q \in {r \in VideoAt(frame) : r < p}}
  BY <1>1
<1>4. /\ Len(out) <= Len(frame.video)
      /\ \A i \in 1..Len(out) : out[i].k = frame.video[i] /\ out[i].whole
      /\ {out[i].k : i \in 1..Len(out)} = {frame.at[q].k : q \in {r \in VideoAt(frame) : r < p}}
  BY DEF Extracted
<1>5. /\ Len(out') <= Len(frame'.video)
      /\ \A i \in 1..Len(out') : out'[i].k = frame'.video[i] /\ out'[i].whole
  BY <1>4
<1>6. QED  BY <1>2, <1>3, <1>4, <1>5 DEF Extracted

(* With all of it copied, out is the video of the frame. *)
LEMMA ExtractedAll ==
  ASSUME IInv, ~frame.lost, Extracted(frame.size)
  PROVE  [i \in DOMAIN out |-> out[i].k] = frame.video
<1> DEFINE n == Len(out)
<1>1. /\ n \in Nat /\ Len(frame.video) \in Nat /\ n <= Len(frame.video)
      /\ \A i \in 1..n : out[i].k = frame.video[i]
      /\ DOMAIN out = 1..n /\ DOMAIN frame.video = 1..Len(frame.video)
      /\ frame.video \in Seq(Nat)
  BY WholeFacts DEF Extracted
<1>2. {r \in VideoAt(frame) : r < frame.size} = VideoAt(frame)
  BY WholeFacts DEF VideoAt, Followed
<1>3. {out[i].k : i \in 1..n} = {frame.at[q].k : q \in VideoAt(frame)}
  BY <1>2 DEF Extracted
<1>4. n = Len(frame.video)
  <2> SUFFICES ASSUME n < Len(frame.video) PROVE FALSE
    BY <1>1
  <2>1. n + 1 \in 1..Len(frame.video)
    BY <1>1
  <2>2. frame.video[n + 1] \in {out[i].k : i \in 1..n}
    BY <1>1, <1>3, <2>1, WholeFacts DEF Intact
  <2>3. PICK i \in 1..n : frame.video[n + 1] = frame.video[i]
    BY <1>1, <2>2
  <2>4. i \in 1..Len(frame.video) /\ i < n + 1
    BY <1>1
  <2>5. \A a, b \in 1..Len(frame.video) : a < b => frame.video[a] < frame.video[b]
    BY <1>1, WholeFacts DEF Intact
  <2>6. frame.video[i] < frame.video[n + 1] /\ frame.video[i] \in Nat
    BY <1>1, <2>1, <2>4, <2>5
  <2>7. QED  BY <2>3, <2>6
<1>5. frame.video = [i \in 1..n |-> frame.video[i]]
  BY <1>1, <1>4
<1>6. [i \in DOMAIN out |-> out[i].k] = [i \in 1..n |-> frame.video[i]]
  BY <1>1
<1>7. QED  BY <1>5, <1>6

(* The section at NextPack, while a whole frame is parsed: it ends where the *)
(* next one starts or the frame ends, and if it is video it counts.          *)
LEMMA WholeHere ==
  ASSUME IInv, WholeInv, ~frame.lost, pc = "parse", Found, Here.id # "other"
  PROVE  /\ pos \in Followed(frame)
         /\ \A q \in DOMAIN frame.at : q < End(frame, pos) <=> q <= pos
         /\ \A q \in DOMAIN frame.at : q <= pos => frame.at[q].id # "other"
         /\ End(frame, pos) = frame.size \/ End(frame, pos) \in DOMAIN frame.at
         /\ End(frame, pos) = pos + 6 + Here.len /\ Here.len \in Nat
         /\ End(frame, pos) <= frame.size
<1>1. pos \in DOMAIN frame.at /\ Here = frame.at[pos]
  BY DEF Found, Here
<1>2. \A q \in DOMAIN frame.at : q <= pos => frame.at[q].id # "other"
  <2> SUFFICES ASSUME NEW q \in DOMAIN frame.at, q <= pos PROVE frame.at[q].id # "other"
    OBVIOUS
  <2>1. q \in Nat /\ pos \in Nat
    BY WholeFacts
  <2>2. CASE q = pos
    BY <1>1, <2>2
  <2>3. CASE q < pos
    BY <2>3 DEF WholeInv
  <2>4. QED  BY <2>1, <2>2, <2>3
<1>3. pos \in Followed(frame)
  BY <1>1, <1>2 DEF Followed
<1>4. Here.len \in Nat /\ End(frame, pos) = pos + 6 + Here.len
  BY <1>1, HereFacts DEF End, Skippable
<1>5. /\ End(frame, pos) = frame.size \/ End(frame, pos) \in DOMAIN frame.at
      /\ \A q \in DOMAIN frame.at : pos < q => End(frame, pos) <= q
  BY <1>1, WholeFacts DEF Intact
<1>6. \A q \in DOMAIN frame.at : q < End(frame, pos) <=> q <= pos
  <2> SUFFICES ASSUME NEW q \in DOMAIN frame.at PROVE q < End(frame, pos) <=> q <= pos
    OBVIOUS
  <2>1. q \in Nat /\ pos \in Nat
    BY WholeFacts
  <2>2. pos < q => End(frame, pos) <= q
    BY <1>5
  <2>3. QED  BY <1>4, <2>1, <2>2
<1>7. End(frame, pos) <= frame.size
  BY <1>4, <1>5, WholeFacts
<1>8. QED  BY <1>2, <1>3, <1>4, <1>5, <1>6, <1>7

(* Past a section that is not video, or has no payload, nothing is missing. *)
LEMMA WholeSkip ==
  ASSUME IInv, WholeInv, ~frame.lost, pc = "parse", Found, Here.id # "other",
         Here.id = "E0" => PayloadLen = 0
  PROVE  Extracted(End(frame, pos))
<1>1. pos \notin VideoAt(frame)
  <2>1. Here.id = "E0" => Payload(frame, pos) = 0
    BY HereFacts DEF PayloadLen, Payload, Here
  <2>2. QED  BY <2>1 DEF VideoAt, Here
<1>2. \A q \in VideoAt(frame) : q < pos <=> q < End(frame, pos)
  <2> SUFFICES ASSUME NEW q \in VideoAt(frame) PROVE q < pos <=> q < End(frame, pos)
    OBVIOUS
  <2>1. q \in DOMAIN frame.at /\ q # pos /\ q \in Nat /\ pos \in Nat
    BY <1>1, WholeFacts DEF VideoAt, Followed
  <2>2. q < End(frame, pos) <=> q <= pos
    BY <2>1, WholeHere
  <2>3. QED  BY <2>1, <2>2
<1>3. Extracted(pos)
  BY DEF WholeInv
<1>4. QED  BY <1>2, <1>3, ExtractedAt

(* The next block of video is the next one that the frame names. *)
LEMMA NextVideo ==
  ASSUME IInv, WholeInv, ~frame.lost, pc = "parse", pos \in VideoAt(frame)
  PROVE  Len(out) + 1 <= Len(frame.video) /\ frame.video[Len(out) + 1] = frame.at[pos].k
<1> DEFINE n == Len(out)
           v == frame.video
<1>1. /\ n \in Nat /\ Len(v) \in Nat /\ n <= Len(v) /\ \A i \in 1..Len(v) : v[i] \in Nat
      /\ \A i \in 1..n : out[i].k = v[i]
      /\ {out[i].k : i \in 1..n} = {frame.at[q].k : q \in {r \in VideoAt(frame) : r < pos}}
  <2>1. Extracted(pos)
    BY DEF WholeInv
  <2>2. n \in Nat /\ Len(v) \in Nat /\ v \in Seq(Nat)
    BY WholeFacts
  <2>3. n <= Len(v) /\ \A i \in 1..n : out[i].k = v[i]
    BY <2>1 DEF Extracted
  <2>4. {out[i].k : i \in 1..n} = {frame.at[q].k : q \in {r \in VideoAt(frame) : r < pos}}
    BY <2>1 DEF Extracted
  <2>5. \A i \in 1..Len(v) : v[i] \in Nat
    BY <2>2
  <2>6. QED  BY <2>2, <2>3, <2>4, <2>5
<1>2. /\ {v[i] : i \in 1..Len(v)} = {frame.at[p].k : p \in VideoAt(frame)}
      /\ \A i, j \in 1..Len(v) : i < j => v[i] < v[j]
  BY WholeFacts DEF Intact
<1>3. \A p, q \in VideoAt(frame) : p < q => frame.at[p].k < frame.at[q].k
  BY WholeFacts DEF OneLoss, VideoAt, Followed
<1>4. \A p \in VideoAt(frame) : p \in Nat /\ frame.at[p].k \in Nat
  BY WholeFacts DEF VideoAt, Followed, Section
<1>5. frame.at[pos].k \in {frame.at[p].k : p \in VideoAt(frame)}
  OBVIOUS
<1>6. PICK m \in 1..Len(v) : v[m] = frame.at[pos].k
  BY <1>2, <1>5
<1>7. m > n
  <2> SUFFICES ASSUME m <= n PROVE FALSE
    BY <1>1, <1>6
  <2>1. m \in 1..n /\ out[m].k = v[m]
    BY <1>1, <1>6
  <2>2. v[m] \in {frame.at[q].k : q \in {r \in VideoAt(frame) : r < pos}}
    BY <1>1, <2>1
  <2>3. PICK q \in VideoAt(frame) : q < pos /\ frame.at[q].k = v[m]
    BY <2>2
  <2>4. QED  BY <1>3, <1>4, <1>6, <2>3
<1>8. m = n + 1
  <2> SUFFICES ASSUME m > n + 1 PROVE FALSE
    BY <1>1, <1>6, <1>7
  <2>1. n + 1 \in 1..Len(v) /\ v[n + 1] < v[m]
    BY <1>1, <1>2, <1>6
  <2>2. v[n + 1] \in {frame.at[p].k : p \in VideoAt(frame)}
    BY <1>2, <2>1
  <2>3. PICK q \in VideoAt(frame) : frame.at[q].k = v[n + 1]
    BY <2>2
  <2>4. q < pos
    BY <1>3, <1>4, <1>6, <2>1, <2>3
  <2>5. v[n + 1] \in {out[i].k : i \in 1..n}
    BY <1>1, <2>3, <2>4
  <2>6. PICK i \in 1..n : v[i] = v[n + 1]
    BY <1>1, <2>5
  <2>7. i \in 1..Len(v) /\ i < n + 1
    BY <1>1
  <2>8. v[i] < v[n + 1] /\ v[i] \in Nat
    BY <1>1, <1>2, <2>1, <2>7
  <2>9. QED  BY <2>6, <2>8
<1>9. QED  BY <1>1, <1>6, <1>8

(* A section with a payload is copied as the next block. *)
LEMMA WholePes ==
  ASSUME IInv, WholeInv, ~frame.lost, Pes, NEW e \in Nat, e = End(frame, pos)
  PROVE  Extracted(e)'
<1>1. /\ pc = "parse" /\ Found /\ Here.id = "E0" /\ PayloadLen >= 0 /\ frame' = frame
      /\ Here = frame.at[pos]
  BY DEF Pes, At, Here
<1>3. \A q \in DOMAIN frame.at : q < e <=> q <= pos
  BY <1>1, WholeHere
<1>4. ASSUME out' = out, PayloadLen = 0
      PROVE  Extracted(e)'
  <2>1. Extracted(e)
    BY <1>1, <1>4, WholeSkip
  <2>2. QED  BY <1>1, <1>4, <2>1, ExtractedSame
<1>5. ASSUME PayloadLen > 0, Len(out') = Len(out) + 1,
             \A i \in 1..Len(out) : out'[i] = out[i],
             out'[Len(out) + 1].k = Here.k, out'[Len(out) + 1].whole = Here.whole
      PROVE  Extracted(e)'
  <2> DEFINE n == Len(out)
  <2>1. n \in Nat /\ Extracted(pos) /\ Here.whole
    BY <1>1, WholeFacts DEF WholeInv, Intact, Found
  <2>2. pos \in VideoAt(frame)
    <3>1. Payload(frame, pos) > 0
      BY <1>1, <1>5, HereFacts DEF Payload, PayloadLen
    <3>2. QED  BY <1>1, <3>1, WholeHere DEF VideoAt
  <2>3. n + 1 <= Len(frame.video) /\ frame.video[n + 1] = Here.k
    BY <1>1, <2>2, NextVideo
  <2>4. \A i \in 1..(n + 1) : out'[i].k = frame.video[i] /\ out'[i].whole
    <3> SUFFICES ASSUME NEW i \in 1..(n + 1) PROVE out'[i].k = frame.video[i] /\ out'[i].whole
      OBVIOUS
    <3>1. CASE i \in 1..n
      BY <1>5, <2>1, <3>1 DEF Extracted
    <3>2. CASE i = n + 1
      BY <1>5, <2>1, <2>3, <3>2
    <3>3. QED  BY <2>1, <3>1, <3>2
  <2>5. {out'[i].k : i \in 1..(n + 1)} = {out[i].k : i \in 1..n} \cup {Here.k}
    <3>1. \A i \in 1..n : out'[i].k = out[i].k /\ i \in 1..(n + 1)
      BY <1>5, <2>1
    <3>2. \A i \in 1..(n + 1) : i \in 1..n \/ i = n + 1
      BY <2>1
    <3>3. out'[n + 1].k = Here.k /\ n + 1 \in 1..(n + 1)
      BY <1>5, <2>1
    <3>4. QED  BY <3>1, <3>2, <3>3
  <2>6. {r \in VideoAt(frame) : r < e} = {r \in VideoAt(frame) : r < pos} \cup {pos}
    <3>1. \A r \in VideoAt(frame) : r < e <=> r < pos \/ r = pos
      BY <1>3, WholeFacts DEF VideoAt, Followed
    <3>2. QED  BY <2>2, <3>1
  <2>7. {out'[i].k : i \in 1..(n + 1)}
          = {frame.at[q].k : q \in {r \in VideoAt(frame) : r < e}}
    BY <1>1, <2>1, <2>5, <2>6 DEF Extracted
  <2>8. VideoAt(frame)' = VideoAt(frame)
    BY <1>1 DEF VideoAt, Followed, Payload
  <2>9. QED  BY <1>1, <1>5, <2>3, <2>4, <2>7, <2>8 DEF Extracted
<1>6. QED  BY <1>4, <1>5, PesOut

LEMMA WholeNextPes ==
  ASSUME IInv, WholeInv, ~frame.lost, Pes
  PROVE  WholeInv'
<1>1. /\ pc = "parse" /\ Found /\ Here.id = "E0" /\ frame' = frame
      /\ left = frame.size - pos /\ First(frame) <= pos
  BY DEF Pes, At, WholeInv
<1>2. PICK e \in Nat : e = End(frame, pos)
  BY <1>1, WholeHere, WholeFacts
<1>3. /\ \A q \in DOMAIN frame.at : q < e <=> q <= pos
      /\ \A q \in DOMAIN frame.at : q <= pos => frame.at[q].id # "other"
      /\ e = frame.size \/ e \in DOMAIN frame.at
      /\ e = pos + 6 + Here.len /\ Here.len \in Nat /\ e <= frame.size
  BY <1>1, <1>2, WholeHere
<1>4. Extracted(e)'
  BY <1>2, WholePes
<1>5. Rest = frame.size - e /\ pos \in Nat /\ frame.size \in Nat
  <2>1. pos \in Nat /\ frame.size \in Nat
    BY WholeFacts
  <2>2. QED  BY <1>1, <1>3, <2>1 DEF Rest, StartCode
<1>6. CASE Rest <= 0
  <2>1. pc' = "done" /\ e = frame.size
    BY <1>3, <1>5, <1>6 DEF Pes
  <2>2. QED  BY <1>1, <1>4, <2>1 DEF WholeInv
<1>7. CASE ~(Rest <= 0)
  <2>1. pc' = "parse" /\ pos' = e /\ left' = frame.size - e
    BY <1>1, <1>3, <1>5, <1>7 DEF Pes, StartCode
  <2>2. First(frame)' <= pos'
    <3>1. First(frame)' = First(frame) /\ First(frame) \in Nat
      BY <1>1, FrameFacts DEF First, PackHead
    <3>2. QED  BY <1>1, <1>3, <1>5, <2>1, <3>1
  <2>3. Extracted(pos)'
    BY <1>4, <2>1 DEF Extracted
  <2>4. \A q \in DOMAIN frame.at : q < e => frame.at[q].id # "other"
    BY <1>3
  <2>5. QED  BY <1>1, <1>3, <2>1, <2>2, <2>3, <2>4 DEF WholeInv
<1>8. QED  BY <1>6, <1>7

LEMMA WholeNextSkip ==
  ASSUME IInv, WholeInv, ~frame.lost, pc = "parse", Found, Here.id \in {"BB", "BC"}, SkipSection
  PROVE  WholeInv'
<1>1. /\ frame' = frame /\ pc' = "parse" /\ out' = out
      /\ left = frame.size - pos /\ First(frame) <= pos
      /\ pos' = pos + Here.len + 6 /\ left' = left - Here.len - 6
  BY DEF SkipSection, Skippable, WholeInv
<1>2. PICK e \in Nat : e = End(frame, pos)
  BY WholeHere, WholeFacts
<1>3. /\ \A q \in DOMAIN frame.at : q < e <=> q <= pos
      /\ \A q \in DOMAIN frame.at : q <= pos => frame.at[q].id # "other"
      /\ e = frame.size \/ e \in DOMAIN frame.at
      /\ e = pos + 6 + Here.len /\ Here.len \in Nat
  BY <1>2, WholeHere
<1>4. Extracted(e)
  BY <1>2, WholeSkip
<1>5. pos \in Nat /\ frame.size \in Nat /\ First(frame) \in Nat
  BY WholeFacts, FrameFacts DEF First, PackHead
<1>6. pos' = e /\ left' = frame.size - e /\ First(frame) <= e
  BY <1>1, <1>3, <1>5
<1>7. Extracted(pos)'
  <2>1. Extracted(e)'
    BY <1>1, <1>4, ExtractedSame
  <2>2. QED  BY <1>6, <2>1 DEF Extracted
<1>8. First(frame)' = First(frame)
  BY <1>1 DEF First
<1>9. \A q \in DOMAIN frame.at : q < e => frame.at[q].id # "other"
  BY <1>3
<1>10. QED  BY <1>1, <1>3, <1>6, <1>7, <1>8, <1>9 DEF WholeInv

(* The parser gives up a whole frame only at its end, or at a section that   *)
(* is not followed: then all is extracted.                                   *)
LEMMA WholeStop ==
  ASSUME IInv, WholeInv, ~frame.lost, pc = "parse",
         (pos \in DOMAIN frame.at) => frame.at[pos].id = "other"
  PROVE  Extracted(frame.size)
<1>1. /\ pos = frame.size \/ pos \in DOMAIN frame.at
      /\ Extracted(pos)
  BY DEF WholeInv
<1>2. \A q \in VideoAt(frame) : q < pos <=> q < frame.size
  <2> SUFFICES ASSUME NEW q \in VideoAt(frame) PROVE q < pos <=> q < frame.size
    OBVIOUS
  <2>1. /\ q \in DOMAIN frame.at /\ q \in Nat /\ q < frame.size
        /\ \A r \in DOMAIN frame.at : r <= q => frame.at[r].id # "other"
    BY WholeFacts DEF VideoAt, Followed
  <2>2. CASE pos = frame.size
    BY <2>1, <2>2
  <2>3. CASE pos \in DOMAIN frame.at
    <3>1. ~(pos <= q) /\ pos \in Nat
      BY <2>1, <2>3, WholeFacts
    <3>2. QED  BY <2>1, <3>1
  <2>4. QED  BY <1>1, <2>2, <2>3
<1>3. QED  BY <1>1, <1>2, ExtractedAt

(* A section of a whole frame that the loop has reached is long enough to be *)
(* read, and the loop runs while there is one.                               *)
LEMMA WholeReads ==
  ASSUME IInv, WholeInv, ~frame.lost, pc = "parse"
  PROVE  /\ w <= pos
         /\ Fewer(left, StartCode) => pos \notin DOMAIN frame.at
         /\ pos \in DOMAIN frame.at =>
              /\ Found /\ Here = frame.at[pos] /\ ~Fewer(left, Skippable)
              /\ ~(frame.size < Skippable)
              /\ Here.id = "E0" => ~Fewer(left, PesHead) /\ PayloadLen >= 0
<1>1. w <= pos /\ left = frame.size - pos
  BY DEF WholeInv, IInv, Place
<1>2. ASSUME pos \in DOMAIN frame.at
      PROVE  /\ Found /\ Here = frame.at[pos] /\ ~Fewer(left, Skippable)
             /\ ~(frame.size < Skippable) /\ ~Fewer(left, StartCode)
             /\ Here.id = "E0" => ~Fewer(left, PesHead) /\ PayloadLen >= 0
  <2>1. Found /\ Here = frame.at[pos]
    BY <1>1, <1>2 DEF Found, Here
  <2>2. /\ Here.len \in Nat /\ Here.stuff \in 0..255 /\ frame.size \in Nat /\ pos \in Nat
    BY <2>1, HereFacts
  <2>3. End(frame, pos) <= frame.size /\ End(frame, pos) = pos + 6 + Here.len
    <3>1. End(frame, pos) = frame.size \/ End(frame, pos) \in DOMAIN frame.at
      BY <1>2, WholeFacts DEF Intact
    <3>2. End(frame, pos) = pos + 6 + Here.len
      BY <2>1 DEF End, Skippable
    <3>3. QED  BY <2>2, <3>1, <3>2, WholeFacts
  <2>4. left >= 6 + Here.len
    BY <1>1, <2>2, <2>3
  <2>5. ~Fewer(left, Skippable) /\ ~Fewer(left, StartCode) /\ ~(frame.size < Skippable)
    BY <2>2, <2>3, <2>4 DEF Fewer, Skippable, StartCode
  <2>6. ASSUME Here.id = "E0" PROVE ~Fewer(left, PesHead) /\ PayloadLen >= 0
    <3>1. Payload(frame, pos) >= 0
      BY <1>2, <2>1, <2>6, WholeFacts DEF Intact
    <3>2. PayloadLen >= 0 /\ PayloadLen = Here.len - 3 - Here.stuff
      BY <2>1, <2>2, <3>1 DEF Payload, PayloadLen
    <3>3. left >= 9
      <4>1. Here.len >= 3
        BY <2>2, <3>2
      <4>2. left \in Int
        BY <1>1, <2>2
      <4>3. QED  BY <2>2, <2>4, <4>1, <4>2
    <3>4. QED  BY <3>2, <3>3 DEF Fewer, PesHead
  <2>7. QED  BY <2>1, <2>5, <2>6
<1>3. QED  BY <1>1, <1>2

LEMMA WholeStep ==
  ASSUME IInv, WholeInv, Next
  PROVE  WholeInv'
<1>1. frame' = frame
  BY DEF Next, PackHeader, LoopEnd, Unknown, Title, Map, Pes, PesShort, PesNegative, SkipSection,
         Finish
<1> SUFFICES ASSUME ~frame.lost PROVE WholeInv'
  BY <1>1 DEF WholeInv
<1>2. CASE PackHeader
  <2>1. /\ out' = <<>> /\ out = <<>> /\ pos' = First(frame)
        /\ left' = frame.size - PackHead - frame.stuffing
        /\ pc' = IF left' < 4 THEN "done" ELSE "parse"
    BY <1>2 DEF PackHeader, WholeInv, First
  <2>2. First(frame) = PackHead + frame.stuffing /\ First(frame) \in Nat /\ frame.size \in Nat
        /\ left' = frame.size - First(frame)
    <3>1. frame.stuffing \in Nat /\ frame.size \in Nat
      BY FrameFacts
    <3>2. QED  BY <2>1, <3>1 DEF First, PackHead
  <2>3. /\ First(frame) = frame.size \/ First(frame) \in DOMAIN frame.at
        /\ \A p \in DOMAIN frame.at : First(frame) <= p /\ p \in Nat
    BY WholeFacts DEF Intact
  <2>4. \A p \in DOMAIN frame.at : ~(p < First(frame))
    BY <2>2, <2>3
  <2>5. Extracted(First(frame))
    <3>1. {r \in VideoAt(frame) : r < First(frame)} = {}
      BY <2>4 DEF VideoAt, Followed
    <3>2. Len(out) = 0 /\ 1..Len(out) = {}
      BY <2>1
    <3>3. QED  BY <3>1, <3>2, WholeFacts DEF Extracted
  <2>6. CASE left' < 4
    <3>1. First(frame) \notin DOMAIN frame.at
      <4> SUFFICES ASSUME First(frame) \in DOMAIN frame.at PROVE FALSE
        OBVIOUS
      <4>1. /\ End(frame, First(frame)) = First(frame) + 6 + frame.at[First(frame)].len
            /\ frame.at[First(frame)].len \in Nat
        BY WholeFacts DEF End, Skippable, Section
      <4>2. End(frame, First(frame)) <= frame.size
        BY WholeFacts, <4>1, <2>2 DEF Intact
      <4>3. QED  BY <2>2, <2>6, <4>1, <4>2
    <3>2. First(frame) = frame.size
      BY <2>3, <3>1
    <3>3. Extracted(frame.size)'
      BY <1>1, <2>1, <2>5, <3>2, ExtractedSame
    <3>4. QED  BY <1>1, <2>1, <2>6, <3>3 DEF WholeInv
  <2>7. CASE ~(left' < 4)
    <3>1. Extracted(pos)' /\ First(frame)' = First(frame)
      <4>1. PICK p : p = First(frame)
        OBVIOUS
      <4>2. Extracted(p)'
        BY <1>1, <2>1, <2>5, <4>1, ExtractedSame
      <4>3. pos' = p
        BY <2>1, <4>1
      <4>4. QED  BY <1>1, <4>2, <4>3 DEF Extracted, First
    <3>2. QED  BY <1>1, <2>1, <2>2, <2>3, <2>4, <2>7, <3>1 DEF WholeInv
  <2>8. QED  BY <2>6, <2>7
<1>3. CASE Pes
  BY <1>3, WholeNextPes
<1>4. CASE (Title \/ Map) /\ SkipSection
  <2>1. pc = "parse" /\ Found /\ Here.id \in {"BB", "BC"}
    BY <1>4 DEF Title, Map, At
  <2>2. QED  BY <1>4, <2>1, WholeNextSkip
<1>5. CASE (Title \/ Map) /\ ~SkipSection
  <2>1. /\ pc = "parse" /\ Found
        /\ \/ frame.size < Skippable
           \/ Fewer(left, Skippable)
    <3>1. CASE Title
      BY <1>5, <3>1 DEF Title, At
    <3>2. CASE Map
      BY <1>5, <3>2 DEF Map, At
    <3>3. QED  BY <1>5, <3>1, <3>2
  <2>2. pos \in DOMAIN frame.at
    BY <2>1 DEF Found
  <2>3. QED  BY <2>1, <2>2, WholeReads
<1>6. CASE PesShort \/ PesNegative
  <2>1. /\ pc = "parse" /\ Found /\ Here.id = "E0"
        /\ Fewer(left, PesHead) \/ PayloadLen < 0
    BY <1>6 DEF PesShort, PesNegative, At
  <2>2. pos \in DOMAIN frame.at /\ PayloadLen \in Int
    BY <2>1, HereFacts DEF Found, PayloadLen
  <2>3. QED  BY <2>1, <2>2, WholeReads
<1>7. CASE LoopEnd \/ Unknown
  <2>1. /\ pc = "parse" /\ pc' = "done" /\ out' = out
        /\ Fewer(left, StartCode) \/ (Found => Here.id = "other")
    BY <1>7 DEF LoopEnd, Unknown, Finish
  <2>2. pos \in DOMAIN frame.at => frame.at[pos].id = "other"
    BY <2>1, WholeReads
  <2>3. Extracted(frame.size)
    BY <2>1, <2>2, WholeStop
  <2>4. Extracted(frame.size)'
    <3>1. PICK p : p = frame.size
      OBVIOUS
    <3>2. Extracted(p)'
      BY <1>1, <2>1, <2>3, <3>1, ExtractedSame
    <3>3. QED  BY <1>1, <3>1, <3>2
  <2>5. QED  BY <1>1, <2>1, <2>4 DEF WholeInv
<1>8. QED  BY <1>2, <1>3, <1>4, <1>5, <1>6, <1>7 DEF Next

(* A frame that arrived whole yields the payload of each of its sections of  *)
(* video, once and in order, up to the first section that is not followed.   *)
THEOREM WholeFrameExtractedHolds == Spec => []WholeFrameExtracted
<1>1. Init => WholeInv
  BY DEF Init, WholeInv
<1>2. IInv /\ WholeInv /\ [Next]_vars => WholeInv'
  <2> SUFFICES ASSUME IInv, WholeInv, [Next]_vars PROVE WholeInv'
    OBVIOUS
  <2>1. CASE Next  BY <2>1, WholeStep
  <2>2. CASE UNCHANGED vars
    <3>1. frame' = frame /\ out' = out /\ pos' = pos /\ pc' = pc /\ left' = left
      BY <2>2 DEF vars
    <3>2. ASSUME NEW p, Extracted(p) PROVE Extracted(p)'
      BY <3>1, <3>2, ExtractedSame
    <3>3. ASSUME Extracted(pos) PROVE Extracted(pos)'
      <4>1. PICK p : p = pos
        OBVIOUS
      <4>2. Extracted(p)
        BY <3>3, <4>1
      <4>3. Extracted(p)' /\ pos' = p
        BY <3>1, <3>2, <4>1, <4>2
      <4>4. QED  BY <4>3 DEF Extracted
    <3>4. ASSUME Extracted(frame.size) PROVE Extracted(frame.size)'
      <4>1. PICK p : p = frame.size
        OBVIOUS
      <4>2. Extracted(p)
        BY <3>4, <4>1
      <4>3. Extracted(p)' /\ frame.size' = p
        BY <3>1, <3>2, <4>1, <4>2
      <4>4. QED  BY <4>3 DEF Extracted
    <3>5. First(frame)' = First(frame)
      BY <3>1 DEF First
    <3>6. QED  BY <3>1, <3>3, <3>4, <3>5 DEF WholeInv
  <2>3. QED  BY <2>1, <2>2
<1>3. IInv /\ WholeInv => WholeFrameExtracted
  <2> SUFFICES ASSUME IInv, WholeInv, ~frame.lost
               PROVE  /\ pc # "abort"
                      /\ pc = "done" => [i \in DOMAIN out |-> out[i].k] = frame.video
                      /\ \A i \in DOMAIN out : out[i].whole
    BY DEF WholeFrameExtracted
  <2>1. pc # "abort"
    BY DEF WholeInv
  <2>2. pc = "done" => [i \in DOMAIN out |-> out[i].k] = frame.video
    BY ExtractedAll DEF WholeInv
  <2>3. \A i \in DOMAIN out : out[i].whole
    <3>1. CASE pc = "head"
      <4>1. DOMAIN out = {}
        BY <3>1 DEF WholeInv
      <4>2. QED  BY <4>1
    <3>2. CASE pc = "parse" \/ pc = "done"
      BY <3>2, WholeFacts DEF WholeInv, Extracted
    <3>3. QED  BY <2>1, <3>1, <3>2 DEF IInv, TypeOK
  <2>4. QED  BY <2>1, <2>2, <2>3
<1>4. QED  BY <1>1, <1>2, <1>3, Inductive, PTL DEF Spec

-----------------------------------------------------------------------------
(* What Terminates rests on: no turn of the loop in GetH246FromPs leaves    *)
(* NextPack where it was, and none but the last begins behind the received  *)
(* bytes.  A frame therefore takes a sixth of its size in turns and one     *)
(* more at most, whatever leftlength has become.                            *)
THEOREM EveryTurnAdvances ==
  Spec => [][pc = "parse" /\ pc' = "parse" => pos < frame.size /\ pos' >= pos + Skippable]_vars
<1>1. IInv /\ Next => (pc = "parse" /\ pc' = "parse" => pos < frame.size /\ pos' >= pos + Skippable)
  <2> SUFFICES ASSUME IInv, Next, pc = "parse", pc' = "parse"
               PROVE  pos < frame.size /\ pos' >= pos + Skippable
    OBVIOUS
  <2>1. Found /\ pos' >= pos + 6
    BY LoopAdvances
  <2>2. QED  BY <2>1, HereFacts DEF Skippable
<1>2. QED  BY <1>1, Inductive, PTL DEF Spec

=============================================================================
