----------------------------- MODULE RecverInPlay -----------------------------
(***************************************************************************)
(* One RtpRecver, from the click on Play that makes it, as MediaPlay sees  *)
(* it.  MediaPlay reduces a receiver to its port, its session, its stop,   *)
(* its place in run() and the frames it posts; here that reduction is      *)
(* stated as a refinement: what the object of RtpRecver does, packets,     *)
(* sources, buffer and all, MediaPlay allows to a single receiver.         *)
(*                                                                         *)
(* The variables added to RtpRecver only record what has happened, except  *)
(* that nothing happens before the object is made.                         *)
(***************************************************************************)
EXTENDS RtpRecver

CONSTANTS
  port,       \* the receive port of the object
  MaxFrames   \* bound: how many frames with video it posts

VARIABLES
  made,       \* onPlay has made the object
  frames,     \* how many frames it has posted
  clicked,    \* Stop was clicked
  shown       \* the decoder has seen a frame

recordVars == <<made, frames, clicked, shown>>

PlayInit == Init /\ made = FALSE /\ frames = 0 /\ clicked = FALSE /\ shown = FALSE

(* new RtpRecver, init, start *)
OnPlay ==
  /\ ~made /\ made' = TRUE
  /\ UNCHANGED <<vars, frames, clicked, shown>>

Posts == Len(events') > Len(events)
Shows == Len(events') < Len(events)
Stops == gui = "idle" /\ gui' = "destroy" /\ ~dtor'

Live ==
  /\ made /\ Next
  /\ Posts => frames < MaxFrames
  /\ frames' = IF Posts THEN frames + 1 ELSE frames
  /\ clicked' = IF Stops THEN TRUE ELSE clicked
  /\ shown' = IF Shows THEN TRUE ELSE shown
  /\ UNCHANGED made

PlaySpec == PlayInit /\ [][OnPlay \/ Live]_<<vars, recordVars>>

-----------------------------------------------------------------------------
NoObject == [holds |-> {}, session |-> "none", over |-> FALSE, pc |-> "none"]
Object ==
  [holds   |-> IF session = "destroyed" THEN {} ELSE {port},
   session |-> session, over |-> brecvOver, pc |-> pc]

receivers == [i \in 1..1 |-> IF made THEN Object ELSE NoObject]

MediaPlay ==
  INSTANCE MediaPlay WITH
    Port      <- {port},
    MaxPlays  <- 1,
    rx        <- receivers,
    plays     <- IF made THEN 1 ELSE 0,
    queue     <- [k \in 1..Len(events) |-> 1],
    obj       <- IF brecvOver THEN 1 ELSE 0,
    closing   <- dtor,
    stopped   <- IF clicked THEN {1} ELSE {},
    forgotten <- {},
    newest    <- IF shown THEN 1 ELSE 0,
    stray     <- [i \in 1..1 |-> 0]

(* The receiver of RtpRecver does nothing that MediaPlay does not expect of *)
(* a receiver: what is checked and proved of the window's receivers there   *)
(* leaves out no step of run(), destroy() or the destructor.                *)
ImplementsMediaPlay == MediaPlay!Spec

=============================================================================
