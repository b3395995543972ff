------------------------------ MODULE MediaPlay ------------------------------
(***************************************************************************)
(* All the receivers of one window.  onPlay makes a new RtpRecver at every *)
(* click and forgets the one before, which lives on as a child of the      *)
(* window; onStop knows the last one only.  A receiver that was stopped    *)
(* may still be in run() when the next one starts, and all of them post    *)
(* their frames to the one event queue from which onRecvedFrame feeds the  *)
(* one decoder.  The window's end deletes them in the order of creation.   *)
(*                                                                         *)
(* Each receiver is RtpRecver reduced to what the others can notice: its   *)
(* port, its session, its stop, its place in run() and the frames it       *)
(* posts; RecverInPlay shows that RtpRecver implements it.  The SIP call   *)
(* of a click is in SipCall; it shares with this module the GUI thread and *)
(* the port, and its sendInvite and sendBye come after the step modelled   *)
(* here, within the same click.                                            *)
(***************************************************************************)
EXTENDS Naturals, Sequences

CONSTANTS
  Port,       \* the receive ports the user enters
  MaxPlays,   \* bound: how often Play is clicked
  MaxFrames   \* bound: how many frames with video reach the window

ASSUME BoundAssumption == MaxPlays \in Nat /\ MaxFrames \in Nat

VARIABLES
  rx,         \* the receivers, in the order of creation
  plays,      \* how many there are; the last one is m_rtpRecver
  frames,     \* how many frames were posted
  queue,      \* frames posted to the GUI thread: the receivers they are from
  gui,        \* the GUI thread's place in a click or in the window's end
  obj,        \* the receiver it works on
  closing,    \* the window is being destroyed
  process,    \* "up", or why the program is over
  \* history
  stopped,    \* the receivers for which Stop was clicked
  forgotten,  \* the receivers replaced by a Play without a Stop before it
  newest,     \* the latest receiver of which the decoder has seen a frame
  stray       \* frames the decoder saw after a frame of a later receiver

history == <<stopped, forgotten, newest, stray>>
guiVars == <<plays, gui, obj, closing>>
vars == <<rx, frames, queue, guiVars, process, history>>

Id == 1..MaxPlays
(* holds: the port that the session has bound *)
NoReceiver == [holds |-> {}, session |-> "none", over |-> FALSE, pc |-> "none"]

Init ==
  /\ rx = [i \in Id |-> NoReceiver] /\ plays = 0 /\ frames = 0 /\ queue = <<>>
  /\ gui = "idle" /\ obj = 0 /\ closing = FALSE /\ process = "up"
  /\ stopped = {} /\ forgotten = {} /\ newest = 0 /\ stray = [i \in Id |-> 0]

-----------------------------------------------------------------------------
(* The thread of receiver i: run() *)

Goto(i, place) ==
  /\ rx' = [rx EXCEPT ![i].pc = place]
  /\ UNCHANGED <<frames, queue, guiVars, process, history>>

End(why) ==
  /\ process' = why
  /\ UNCHANGED <<rx, frames, queue, guiVars, history>>

TestOver(i) ==
  /\ rx[i].pc = "top"
  /\ Goto(i, IF rx[i].over THEN "done" ELSE "poll")

(* Poll and checkerror *)
Poll(i) ==
  /\ rx[i].pc = "poll"
  /\ IF rx[i].session = "destroyed" THEN End("exit") ELSE Goto(i, "first")

(* A destroyed session has no source with data, and no packet. *)
MayHaveData(i) == rx[i].session # "destroyed"

GotoFirst(i) ==
  /\ rx[i].pc = "first"
  /\ Goto(i, "top") \/ (MayHaveData(i) /\ Goto(i, "inner"))

TestInner(i) ==
  /\ rx[i].pc = "inner"
  /\ Goto(i, IF rx[i].over THEN "next" ELSE "get")

GetNextPacket(i) ==
  /\ rx[i].pc = "get"
  /\ Goto(i, "next") \/ (MayHaveData(i) /\ Goto(i, "process"))

GotoNext(i) ==
  /\ rx[i].pc = "next"
  /\ Goto(i, "top") \/ (MayHaveData(i) /\ Goto(i, "inner"))

(* m_frameBuffer of receiver i was freed. *)
Freed(i) == gui = "join" /\ obj = i

(* Only a packet that ends a frame with video leaves a trace. *)
Collect(i) ==
  /\ rx[i].pc = "process" /\ ~Freed(i)
  /\ Goto(i, "inner")

Emit(i) ==
  /\ rx[i].pc = "process" /\ ~Freed(i) /\ frames < MaxFrames
  /\ frames' = frames + 1 /\ queue' = Append(queue, i)
  /\ rx' = [rx EXCEPT ![i].pc = "inner"]
  /\ UNCHANGED <<guiVars, process, history>>

ProcessRTPPacket(i) == Collect(i) \/ Emit(i)

(* memcpy into the freed buffer, or past its end *)
BadCopy(i) ==
  /\ rx[i].pc = "process"
  /\ End(IF Freed(i) THEN "freed" ELSE "overflow")

(* Both threads in one jrtplib session *)
Race(i) ==
  /\ rx[i].session = "closing" /\ rx[i].pc \in {"poll", "first", "get", "next"}
  /\ End("race")

RunStep(i) ==
  \/ TestOver(i) \/ Poll(i) \/ GotoFirst(i) \/ TestInner(i) \/ GetNextPacket(i) \/ GotoNext(i)
  \/ ProcessRTPPacket(i) \/ BadCopy(i) \/ Race(i)

-----------------------------------------------------------------------------
(* The GUI thread *)

New(p) == [holds |-> {p}, session |-> "created", over |-> FALSE, pc |-> "top"]

(* new RtpRecver, init, start.  init ends the program if the port is bound: *)
(* a receiver keeps its port until BYEDestroy has closed the socket.        *)
OnPlay(p) ==
  /\ gui = "idle" /\ plays < MaxPlays
  /\ IF \E i \in Id : p \in rx[i].holds
     THEN End("bind")
     ELSE /\ plays' = plays + 1
          /\ rx' = [rx EXCEPT ![plays + 1] = New(p)]
          /\ forgotten' = forgotten \cup ({plays} \ ({0} \cup stopped))
          /\ UNCHANGED <<frames, queue, gui, obj, closing, process, stopped, newest, stray>>

(* destroy() on receiver i, from its first statement *)
Destroy(i) ==
  /\ rx' = [rx EXCEPT ![i].over = TRUE]
  /\ gui' = "destroy" /\ obj' = i

HangUpOnly ==              \* mutant: onStop ends the call, not the receiver
  /\ gui = "idle" /\ plays > 0
  /\ stopped' = stopped \cup {plays}
  /\ UNCHANGED <<rx, frames, queue, guiVars, process, forgotten, newest, stray>>

OnStop ==
  /\ gui = "idle" /\ plays > 0
  /\ Destroy(plays)
  /\ stopped' = stopped \cup {plays}
  /\ UNCHANGED <<plays, frames, queue, closing, process, forgotten, newest, stray>>

(* Before the first Play m_rtpRecver is not initialised. *)
OnStopWild ==
  /\ gui = "idle" /\ plays = 0
  /\ End("wild")

(* ~MediaClient is over, ~QWidget deletes the children; there is no return  *)
(* to the event loop.                                                       *)
Close ==
  /\ gui = "idle" /\ closing' = TRUE
  /\ IF plays = 0
     THEN gui' = "gone" /\ UNCHANGED <<rx, obj>>
     ELSE Destroy(1)
  /\ UNCHANGED <<plays, frames, queue, process, history>>

AfterDestroy == IF closing THEN "free" ELSE "idle"

ByeDestroyBegin ==
  /\ gui = "destroy"
  /\ IF rx[obj].session = "created"
     THEN rx' = [rx EXCEPT ![obj].session = "closing"] /\ gui' = "bye"
     ELSE gui' = AfterDestroy /\ UNCHANGED rx
  /\ UNCHANGED <<plays, frames, queue, obj, closing, process, history>>

ByeDestroyLater ==         \* mutant: destroy() does not wait for the session
  /\ gui = "bye" /\ gui' = AfterDestroy
  /\ UNCHANGED <<rx, plays, frames, queue, obj, closing, process, history>>

ByeDestroyEnd ==
  /\ gui = "bye" /\ gui' = AfterDestroy
  /\ rx' = [rx EXCEPT ![obj].session = "destroyed", ![obj].holds = {}]
  /\ UNCHANGED <<plays, frames, queue, obj, closing, process, history>>

(* ~RtpRecver, after destroy() *)
Free ==
  /\ gui = "free" /\ gui' = "join"
  /\ UNCHANGED <<rx, plays, frames, queue, obj, closing, process, history>>

DeleteOneMore ==           \* mutant: the end of the children is missed
  /\ gui = "join" /\ rx[obj].pc = "done" /\ Destroy(obj + 1)
  /\ UNCHANGED <<plays, frames, queue, closing, process, history>>

(* ~QThread ends the program if the thread is still in run(). *)
DeleteThread ==
  /\ gui = "join"
  /\ IF rx[obj].pc # "done"
     THEN End("abort")
     ELSE /\ IF obj = plays
             THEN gui' = "gone" /\ UNCHANGED <<rx, obj>>
             ELSE Destroy(obj + 1)
          /\ UNCHANGED <<plays, frames, queue, closing, process, history>>

(* Qt keeps posted events in their order: the decoder gets the oldest frame. *)
OnRecvedFrame ==
  /\ gui = "idle" /\ queue # <<>>
  /\ queue' = Tail(queue)
  /\ LET i == Head(queue) IN
     IF i < newest
     THEN stray' = [stray EXCEPT ![i] = @ + 1] /\ UNCHANGED newest
     ELSE newest' = i /\ UNCHANGED stray
  /\ UNCHANGED <<rx, frames, guiVars, process, stopped, forgotten>>

GuiStep ==
  \/ \E p \in Port : OnPlay(p)
  \/ OnStop \/ OnStopWild \/ Close \/ OnRecvedFrame
  \/ ByeDestroyBegin \/ ByeDestroyEnd \/ Free \/ DeleteThread

Next ==
  /\ process = "up"
  /\ GuiStep \/ \E i \in Id : RunStep(i)

Spec == Init /\ [][Next]_vars

-----------------------------------------------------------------------------
(* Properties *)

Receiver ==
  [holds : SUBSET Port, session : {"none", "created", "closing", "destroyed"},
   over : BOOLEAN,
   pc : {"none", "top", "poll", "first", "inner", "get", "process", "next", "done"}]

(* The type invariant: the values the variables of one window take.         *)
TypeOK ==
  /\ rx \in [Id -> Receiver] /\ plays \in 0..MaxPlays /\ frames \in 0..MaxFrames /\ queue \in Seq(Id)
  /\ gui \in {"idle", "destroy", "bye", "free", "join", "gone"}
  /\ obj \in 0..plays /\ closing \in BOOLEAN
  /\ process \in {"up", "exit", "race", "bind", "wild", "freed", "overflow", "abort"}
  /\ stopped \subseteq Id /\ forgotten \subseteq Id
  /\ newest \in 0..plays /\ stray \in [Id -> Nat]

(* onStop neither waits for the thread nor empties the event queue, and all *)
(* calls share one decoder.  Still an old call fades out: once the decoder  *)
(* has seen a later call, at most one more frame of an earlier one reaches  *)
(* it, unless that one was replaced without a Stop and so runs on.          *)
OldCallFadesOut == \A i \in Id : i \notin forgotten => stray[i] <= 1

(* init ends the program if the port is taken.  Whoever stops every call    *)
(* before the next never meets that, although the old receiver is not       *)
(* deleted and its thread may still run: destroy() has freed the port.      *)
BindNeedsUnstopped == process = "bind" => \E i \in 1..plays : i \notin stopped

(* When every thread has left run(), whatever the user did before, no click *)
(* ends the program: no port is held, nothing is freed under a thread.      *)
QuietIsSafe ==
  [][plays > 0 /\ (\A i \in 1..plays : rx[i].pc = "done") => process' = process]_vars

=============================================================================
