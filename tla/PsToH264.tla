------------------------------ MODULE PsToH264 ------------------------------
(***************************************************************************)
(* PsToH264::GetH246FromPs: takes the H.264 payload out of an assembled    *)
(* MPEG program stream frame, in place.  The pack header (BA) is skipped,  *)
(* then one section after the other: video (E0) is moved to the front of   *)
(* the buffer, the system header (BB) and the stream map (BC) are skipped, *)
(* anything else ends the frame.                                           *)
(*                                                                         *)
(* A frame is what m_frameBuffer holds: size bytes as received, and zeros  *)
(* from there to the end of the buffer.  Of its bytes the model keeps the  *)
(* offsets at which a start code stands, and the fields read behind it.  A *)
(* lost RTP packet takes its bytes out of the middle; H.264 data contains  *)
(* no start code with one of the three stream ids.                         *)
(***************************************************************************)
EXTENDS Integers, Sequences

CONSTANTS
  Frames,   \* the frames the receiver may assemble
  MaxLen    \* the largest 16-bit length field

Section ==
  [id : {"E0", "BB", "BC", "other"}, k : Nat,  \* which section of the frame it is
   len : 0..MaxLen, stuff : 0..255,            \* PackLength, stuffing_length, as read
   whole : BOOLEAN]                            \* no byte of it was lost

(* at: the sections found in the received bytes, by offset.  video: the     *)
(* sections with payload that the camera sent in this frame.                *)
ASSUME FramesAssumption ==
  /\ MaxLen \in Nat
  /\ \A f \in Frames :
       /\ f.size \in Nat /\ f.stuffing \in 0..7
       /\ f.video \in Seq(Nat) /\ f.lost \in BOOLEAN
       /\ DOMAIN f.at \subseteq {p \in Nat : p < f.size}
       /\ \A p \in DOMAIN f.at : f.at[p] \in Section

StartCode == 4     \* sizeof(pack_start_code)
PackHead  == 14    \* sizeof(program_stream_pack_header)
Skippable == 6     \* sizeof(pack_title_header), sizeof(program_stream_map)
PesHead   == 9     \* sizeof(program_stream_e)

(* What the sender and the network make of a frame.  The sections of f that *)
(* are followed to their end, and those of them that carry video:           *)
First(f)      == PackHead + f.stuffing
End(f, p)     == p + Skippable + f.at[p].len
Payload(f, p) == f.at[p].len - 3 - f.at[p].stuff
Followed(f) == {p \in DOMAIN f.at : \A q \in DOMAIN f.at : q <= p => f.at[q].id # "other"}
VideoAt(f)  == {p \in Followed(f) : f.at[p].id = "E0" /\ Payload(f, p) > 0}

(* Sections stand in the order of sending, and one packet is lost at most:  *)
(* it damages the section it begins in, and the one it ends in has lost its *)
(* start code and is not found.                                             *)
OneLoss(f) ==
  \A p, q \in DOMAIN f.at : p < q =>
    f.at[p].k < f.at[q].k /\ (f.at[p].whole \/ f.at[q].whole)

(* The sections of a frame that arrived whole lie end to end behind the     *)
(* pack header, and video names those with a payload in their order.        *)
Intact(f) ==
  /\ First(f) = f.size \/ First(f) \in DOMAIN f.at
  /\ \A p \in DOMAIN f.at :
       /\ First(f) <= p /\ f.at[p].whole /\ (f.at[p].id = "E0" => Payload(f, p) >= 0)
       /\ End(f, p) = f.size \/ End(f, p) \in DOMAIN f.at
       /\ \A q \in DOMAIN f.at : p < q => End(f, p) <= q
  /\ {f.video[i] : i \in DOMAIN f.video} = {f.at[p].k : p \in VideoAt(f)}
  /\ \A i, j \in DOMAIN f.video : i < j => f.video[i] < f.video[j]

ASSUME NetworkAssumption ==
  \A f \in Frames : OneLoss(f) /\ (~f.lost => Intact(f))

VARIABLES
  frame,   \* the frame under work
  pc,      \* "head", "parse", "done"; "abort": a copy of a negative length
  pos,     \* NextPack, as an offset into the buffer
  left,    \* leftlength
  w,       \* buffer, the place to write to; h264length
  out,     \* what was copied: section number and whether it is its payload
  read     \* the end of the furthest read so far

vars == <<frame, pc, pos, left, w, out, read>>

Init ==
  /\ frame \in Frames
  /\ pc = "head" /\ pos = 0 /\ left = 0 /\ w = 0 /\ out = <<>> /\ read = 0

Reads(to) == read' = IF to > read THEN to ELSE read

(* leftlength is an int and sizeof is not: a negative one compares as huge. *)
Fewer(n, size) == n \in 0..(size - 1)

(* ProgramStreamPackHeader; the start code of the pack is not looked at. *)
PackHeader ==
  /\ pc = "head"
  /\ pos' = PackHead + frame.stuffing
  /\ left' = frame.size - PackHead - frame.stuffing
  /\ pc' = IF left' < 4 THEN "done" ELSE "parse"
  /\ Reads(PackHead)
  /\ UNCHANGED <<frame, w, out>>

(* The section at NextPack: its header is still there if nothing was moved  *)
(* over it.  Behind the received bytes the buffer is zero.                  *)
Found == pos \in DOMAIN frame.at /\ w <= pos
Here == frame.at[pos]
At(id) == pc = "parse" /\ ~Fewer(left, StartCode) /\ Found /\ Here.id = id

Finish == pc' = "done" /\ UNCHANGED <<frame, pos, left, w, out>>

LoopEnd == pc = "parse" /\ Fewer(left, StartCode) /\ Finish /\ UNCHANGED read

SkipAByte ==                 \* mutant: resynchronises instead of giving up
  /\ pc = "parse" /\ ~Fewer(left, StartCode) /\ (Found => Here.id = "other")
  /\ pos' = pos + 1 /\ left' = left - 1 /\ Reads(pos + StartCode)
  /\ UNCHANGED <<frame, pc, w, out>>

Unknown ==
  /\ pc = "parse" /\ ~Fewer(left, StartCode) /\ (Found => Here.id = "other")
  /\ Finish /\ Reads(pos + StartCode)

PayloadLen == Here.len - 2 - 1 - Here.stuff
PayloadAt  == pos + PesHead + Here.stuff

(* The move of the payload to the front.  memcpy on regions that overlap is *)
(* undefined: it moves them all the same, or garbles them.                  *)
Overlap == w + PayloadLen > PayloadAt

AdvanceByTotal ==            \* mutant: buffer += *h264length
  w' = w + (w + PayloadLen)
Advance ==
  w' = w + PayloadLen

Copy ==
  IF PayloadLen = 0 THEN UNCHANGED <<w, out>>
  ELSE /\ Advance
       /\ \E garbled \in BOOLEAN :
            /\ garbled => Overlap
            /\ out' = Append(out, [k |-> Here.k, whole |-> Here.whole, garbled |-> garbled])

Rest == left - Here.len - StartCode - 2

PesDropsLast ==              \* mutant: the payload is not copied when Pes returns 0
  /\ At("E0") /\ ~Fewer(left, PesHead) /\ PayloadLen >= 0
  /\ IF Rest <= 0 THEN pc' = "done" /\ UNCHANGED <<pos, left, w, out>>
     ELSE pos' = pos + StartCode + 2 + Here.len /\ left' = Rest /\ Copy /\ UNCHANGED pc
  /\ Reads(PayloadAt + PayloadLen)
  /\ UNCHANGED frame

PesStays ==                  \* mutant: leftlength moves on, NextPack does not
  /\ At("E0") /\ ~Fewer(left, PesHead) /\ PayloadLen >= 0
  /\ Copy
  /\ left' = Rest /\ pc' = IF Rest <= 0 THEN "done" ELSE "parse"
  /\ Reads(PayloadAt + PayloadLen)
  /\ UNCHANGED <<frame, pos>>

(* Pes: a section that reaches the end of the frame, or beyond it, is the   *)
(* last one, and is copied as long as it says it is.                        *)
Pes ==
  /\ At("E0") /\ ~Fewer(left, PesHead) /\ PayloadLen >= 0
  /\ Copy
  /\ IF Rest <= 0 THEN pc' = "done" /\ UNCHANGED <<pos, left>>
     ELSE pos' = pos + StartCode + 2 + Here.len /\ left' = Rest /\ UNCHANGED pc
  /\ Reads(PayloadAt + PayloadLen)
  /\ UNCHANGED frame

PesShort == At("E0") /\ Fewer(left, PesHead) /\ Finish /\ Reads(pos + StartCode)

PesMovesBack ==              \* mutant: the length is not looked at
  /\ At("E0") /\ ~Fewer(left, PesHead) /\ PayloadLen < 0
  /\ Advance /\ pc' = "done" /\ Reads(pos + PesHead)
  /\ UNCHANGED <<frame, pos, left, out>>

(* memcpy with a length below zero *)
PesNegative ==
  /\ At("E0") /\ ~Fewer(left, PesHead) /\ PayloadLen < 0
  /\ pc' = "abort" /\ Reads(pos + PesHead)
  /\ UNCHANGED <<frame, pos, left, w, out>>

SkipNothing ==               \* mutant: NextPack is not moved on
  Reads(pos + Skippable) /\ UNCHANGED <<frame, pc, pos, left, w, out>>

SkipSection ==
  /\ pos' = pos + Here.len + Skippable
  /\ left' = left - Here.len - Skippable
  /\ Reads(pos + Skippable)
  /\ UNCHANGED <<frame, pc, w, out>>

(* The system header is tested against the length of the whole frame. *)
Title ==
  /\ At("BB")
  /\ IF frame.size < Skippable THEN Finish /\ Reads(pos + StartCode) ELSE SkipSection
Map ==
  /\ At("BC")
  /\ IF Fewer(left, Skippable) THEN Finish /\ Reads(pos + StartCode) ELSE SkipSection

Next ==
  \/ PackHeader \/ LoopEnd \/ Unknown \/ Title \/ Map
  \/ Pes \/ PesShort \/ PesNegative

Spec == Init /\ [][Next]_vars
FairSpec == Spec /\ WF_vars(Next)

-----------------------------------------------------------------------------
(* Properties *)

(* The type invariant of the extraction. *)
TypeOK ==
  /\ pc \in {"head", "parse", "done", "abort"}
  /\ pos \in Nat /\ left \in Int /\ w \in Nat /\ read \in Nat
  /\ out \in Seq([k : Nat, whole : BOOLEAN, garbled : BOOLEAN])

(* Moving the payload to the front of the very buffer that is being read    *)
(* never overwrites a byte that is still to be parsed.                      *)
UnreadIsIntact == pc = "parse" => w <= pos

(* leftlength goes below zero, and the loop's unsigned test lets it pass:   *)
(* the parser still stops at the zeros, and whatever the length fields say  *)
(* it reads at most one section beyond what was received.                   *)
OneSectionBeyond == read <= frame.size + MaxLen + PackHead

(* A frame that arrived whole gives the payload of every video section up   *)
(* to the first one that is neither BB, BC nor E0, each once and in order,  *)
(* whatever else stands between them; and it never stops the program.       *)
WholeFrameExtracted ==
  ~frame.lost =>
    /\ pc # "abort"
    /\ pc = "done" => [i \in DOMAIN out |-> out[i].k] = frame.video
    /\ \A i \in DOMAIN out : out[i].whole

(* The damage of a lost packet stays local, wherever the parser resumes or  *)
(* gives up behind it: at most one block of video is spoiled, and the       *)
(* blocks keep the order in which they were sent, none twice.               *)
DamageStaysLocal ==
  \A i, j \in DOMAIN out : i < j =>
    out[i].k < out[j].k /\ (out[i].whole \/ out[j].whole)

(* The loop ends on every frame, the ones with negative leftlength included. *)
Terminates == <>(pc \in {"done", "abort"})

=============================================================================
