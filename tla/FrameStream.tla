----------------------------- MODULE FrameStream -----------------------------
(***************************************************************************)
(* What a receiver promises to the decoder on a faithful network: the      *)
(* frames with video, each named by its marker packet, are emitted in the  *)
(* order of the sender without a gap, and handed over first in, first out. *)
(***************************************************************************)
EXTENDS Naturals, Sequences

CONSTANT Video   \* the marker packets of the frames that carry video

VARIABLES
  emitted,  \* the last frame that was emitted, 0 before the first
  queue     \* the frames emitted and not yet handed to the decoder

Init == emitted = 0 /\ queue = <<>>

(* m is the frame that follows the last one emitted. *)
Emit(m) ==
  /\ emitted < m /\ \A k \in Video : k <= emitted \/ m <= k
  /\ emitted' = m
  /\ queue' = Append(queue, m)

Deliver ==
  /\ queue # <<>>
  /\ queue' = Tail(queue)
  /\ UNCHANGED emitted

Next == Deliver \/ \E m \in Video : Emit(m)

Spec == Init /\ [][Next]_<<emitted, queue>>
=============================================================================
