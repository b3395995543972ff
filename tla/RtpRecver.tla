------------------------------ MODULE RtpRecver ------------------------------
(***************************************************************************)
(* One RtpRecver object of src/rtprecver.cpp from `new' to its destructor: *)
(* the receive thread run() (Poll, walk the sources, collect the payloads  *)
(* of a PS frame, emit it at the marker), the GUI thread that stops or     *)
(* deletes the object while run() is working, and the datagrams of the     *)
(* sending device, which UDP may lose, reorder and duplicate.              *)
(*                                                                         *)
(* jrtplib is a library outside the program: its session is the variable   *)
(* `session' and one set of received packets per source.  It is built      *)
(* without thread support (src/jrtplib/include/rtpconfig.h defines no      *)
(* RTP_SUPPORT_THREAD), so BeginDataAccess takes no lock and the two       *)
(* threads meet inside one unprotected session.  It is built with          *)
(* RTP_SUPPORT_PROBATION, and the program leaves the default type,         *)
(* ProbationStore, in place: the packets of a new source are kept, but     *)
(* nothing of them is handed out until the source is validated.            *)
(*                                                                         *)
(* A payload is the packet it came in; every payload has length 1.         *)
(***************************************************************************)
EXTENDS Integers, Sequences

CONSTANTS
  Src,        \* the synchronisation sources (SSRC) that send to the port
  N,          \* packets 1..N are sent by each source, in this order
  FirstNumber,\* the sequence number of packet 1; each camera picks its own
  Marker,     \* the packets that carry the RTP marker: the last of a PS frame
  Video,      \* the markers of the frames in which PsToH264 finds video
  BUFFERSIZE, \* how many payloads m_frameBuffer holds
  Garbage,    \* what m_bufferSize may hold before anything is written to it
  Faults,     \* what the network does: a subset of {"lose", "reorder"}
  MaxDup,     \* bound: how many datagrams the network may deliver twice
  None        \* no source selected, no packet in hand

ASSUME PacketAssumption ==
  /\ Src \subseteq Nat /\ N \in Nat /\ FirstNumber \in Nat
  /\ Marker \subseteq 1..N
  /\ Video \subseteq Marker
ASSUME BoundAssumption ==
  BUFFERSIZE \in Nat /\ Garbage \subseteq Nat /\ MaxDup \in Nat
ASSUME NoneAssumption == None \notin Src \X (1..N) /\ None \notin Src

VARIABLES
  net,        \* datagrams on their way, or in the socket buffer
  sent,       \* how many packets each source has sent
  dups,       \* how many datagrams were delivered twice so far
  list,       \* jrtplib's packets of each source, sorted by sequence number
  valid,      \* the sources that are off probation
  session,    \* m_rtpSession
  brecvOver,  \* m_brecvOver
  pc,         \* the receive thread's place in run()
  src,        \* jrtplib's current source
  pack,       \* the packet in hand in run()
  junk,       \* payload lengths of garbage in front of the buffer's content
  buf,        \* m_frameBuffer[0 .. m_bufferSize), m_bufferSize = junk + Len(buf)
  last,       \* the packet whose number m_lastSeqNumber is; 0 before the first
  gap,        \* "Got packet error" was printed since the buffer was last reset
  events,     \* sigRecvedFrame events queued for the GUI thread
  late,       \* frames emitted since m_brecvOver was set
  gui,        \* the GUI thread's place in destroy() and ~RtpRecver()
  dtor,       \* destroy() was called by the destructor
  memory,     \* the malloc'ed block of m_frameBuffer
  process     \* "up", or why the program is over

netVars  == <<net, sent, dups, valid>>
runVars  == <<pc, src, pack>>
asmVars  == <<junk, buf, last, gap>>
outVars  == <<events, late>>
guiVars  == <<brecvOver, gui, dtor, memory>>
vars == <<netVars, runVars, asmVars, outVars, guiVars, list, session, process>>

Packet == Src \X (1..N)

(***************************************************************************)
(* The frames of the sender: frame m is the packets that follow the        *)
(* previous marker, up to and including the marker m.                      *)
(***************************************************************************)
Opens(n) == n = 1 \/ n - 1 \in Marker
Run(s, a, b) == [i \in 1..(b - a + 1) |-> <<s, a + i - 1>>]
IsFrame(f, m) ==
  \E s \in Src, a \in 1..m :
    /\ Opens(a) /\ \A i \in a..(m - 1) : i \notin Marker
    /\ f = Run(s, a, m)
Whole(f) == \E m \in Marker : IsFrame(f, m)

Init ==
  /\ net = {} /\ sent = [s \in Src |-> 0] /\ dups = 0
  /\ list = [s \in Src |-> {}] /\ valid = {}
  /\ session = "created" /\ brecvOver = FALSE
  /\ pc = "top" /\ src = None /\ pack = None
  /\ junk \in Garbage /\ buf = <<>> /\ last = 0 /\ gap = FALSE
  /\ events = <<>> /\ late = 0
  /\ gui = "idle" /\ dtor = FALSE /\ memory = "alloc" /\ process = "up"

-----------------------------------------------------------------------------
(* The network *)

SendPastEnd(s) ==          \* mutant
  /\ sent[s] <= N
  /\ sent' = [sent EXCEPT ![s] = @ + 1]
  /\ net' = net \cup {<<s, sent[s] + 1>>}
  /\ UNCHANGED <<dups, valid, runVars, asmVars, outVars, guiVars, list, session, process>>

Send(s) ==
  /\ sent[s] < N
  /\ sent' = [sent EXCEPT ![s] = @ + 1]
  /\ net' = net \cup {<<s, sent[s] + 1>>}
  /\ UNCHANGED <<dups, valid, runVars, asmVars, outVars, guiVars, list, session, process>>

Lose(p) ==
  /\ "lose" \in Faults /\ p \in net
  /\ net' = net \ {p}
  /\ UNCHANGED <<sent, dups, valid, runVars, asmVars, outVars, guiVars, list, session, process>>

(* What one Poll can find in the socket buffer. *)
Arrivals ==
  {got \in SUBSET net :
     "reorder" \notin Faults =>
       \A p \in got, q \in net : q[1] = p[1] /\ q[2] < p[2] => q \in got}

-----------------------------------------------------------------------------
(* The receive thread: run() *)

RunOnly == UNCHANGED <<netVars, asmVars, outVars, guiVars, list, session, process>>

(* The session is being torn down by the GUI thread: undefined behaviour. *)
Race ==
  /\ session = "closing"
  /\ process' = "race"
  /\ UNCHANGED <<netVars, runVars, asmVars, outVars, guiVars, list, session>>

TestOver ==
  /\ pc = "top"
  /\ pc' = IF brecvOver THEN "done" ELSE "poll"
  /\ UNCHANGED <<src, pack>> /\ RunOnly

(* RTP_PROBATIONCOUNT is 2: three packets that arrive in sequence validate *)
(* their source; its CNAME does so at any time, in an RTCP packet.  Left   *)
(* out: a source forgotten after minutes of silence, and the oldest packet *)
(* dropped when a source on probation has too many of them (to run() that  *)
(* is a packet lost on the network).                                       *)
Orderly == "reorder" \notin Faults /\ MaxDup = 0
InARow(S) == \E n \in S : {n + 1, n + 2} \subseteq S

Receive(got) ==
  /\ list' = [s \in Src |-> list[s] \cup {n \in 1..N : <<s, n>> \in got}]
  /\ \/ net' = net \ got /\ UNCHANGED dups
     \/ /\ dups < MaxDup /\ dups' = dups + 1
        /\ \E p \in got : net' = (net \ got) \cup {p}
  /\ valid' \in {v \in SUBSET Src : valid \subseteq v}
  /\ Orderly => {s \in Src : InARow(list'[s])} \subseteq valid'

PollWaitsForData ==        \* mutant: a socket that blocks
  /\ pc = "poll" /\ session # "destroyed" /\ net # {}
  /\ \E got \in Arrivals \ {{}} : Receive(got)
  /\ pc' = "first"
  /\ UNCHANGED <<process, sent, src, pack, asmVars, outVars, guiVars, session>>

Poll ==
  /\ pc = "poll"
  /\ \/ /\ session # "destroyed"
        /\ \E got \in Arrivals : Receive(got)
        /\ pc' = "first" /\ UNCHANGED process
     \/ /\ session = "destroyed"      \* checkerror(status): exit(-1)
        /\ process' = "exit"
        /\ UNCHANGED <<list, net, dups, valid, pc>>
  /\ UNCHANGED <<sent, src, pack, asmVars, outVars, guiVars, session>>

(* The sources with data; jrtplib walks its table in the order of insertion. *)
SecondPacket ==            \* mutant: a source counts from its second packet on
  IF session = "destroyed" THEN {} ELSE {s \in valid : \E m, n \in list[s] : m # n}

WithData == IF session = "destroyed" THEN {} ELSE {s \in valid : list[s] # {}}
Select(S) == CHOOSE s \in S : \A t \in S : s <= t

GotoFirst ==
  /\ pc = "first"
  /\ IF WithData = {}
     THEN pc' = "top" /\ UNCHANGED src
     ELSE pc' = "inner" /\ src' = Select(WithData)
  /\ UNCHANGED pack /\ RunOnly

TestNothing ==             \* mutant: m_brecvOver is not tested here
  /\ pc = "inner" /\ pc' = "get"
  /\ UNCHANGED <<src, pack>> /\ RunOnly

TestInner ==
  /\ pc = "inner"
  /\ pc' = IF brecvOver THEN "next" ELSE "get"
  /\ UNCHANGED <<src, pack>> /\ RunOnly

GetNextPacket ==
  /\ pc = "get"
  /\ IF src \in WithData
     THEN LET n == Select(list[src]) IN
          /\ pack' = <<src, n>>
          /\ list' = [list EXCEPT ![src] = @ \ {n}]
          /\ pc' = "process"
     ELSE pc' = "next" /\ UNCHANGED <<pack, list>>
  /\ UNCHANGED <<src, netVars, asmVars, outVars, guiVars, session, process>>

GotoNext ==
  /\ pc = "next"
  /\ LET rest == {s \in WithData : src < s} IN
     IF rest = {}
     THEN pc' = "top" /\ src' = None
     ELSE pc' = "inner" /\ src' = Select(rest)
  /\ UNCHANGED pack /\ RunOnly

(* jrtplib extends the 16 bits of a packet, so the numbers do not wrap.     *)
SeqNo(n) == FirstNumber + n - 1
m_lastSeqNumber == IF last = 0 THEN 0 ELSE SeqNo(last)

(* uint32_t - int: a number below the last one wraps around and is "> 1" too *)
SkippedSigned(n) == SeqNo(n) - m_lastSeqNumber > 1   \* mutant: compared as int
Skipped(n) == SeqNo(n) - m_lastSeqNumber \notin {0, 1}

(* GetH246FromPs returns a length > 0: decided by the content of a whole   *)
(* frame; anything may come out of a damaged one.                          *)
HasAnything(f) == BOOLEAN          \* mutant

HasVideo(f) ==
  {found \in BOOLEAN :
     junk = 0 /\ Whole(f) => (found <=> f[Len(f)][2] \in Video)}

ProcessRTPPacket ==
  /\ pc = "process" /\ memory = "alloc" /\ junk + Len(buf) < BUFFERSIZE
  /\ LET n == pack[2]
         f == Append(buf, pack)
         seen == gap \/ Skipped(n)
     IN /\ last' = n
        /\ IF n \in Marker
           THEN /\ \E found \in HasVideo(f) :
                     IF found
                     THEN /\ events' = Append(events, [packets |-> f, junk |-> junk, gap |-> seen])
                          /\ late' = IF brecvOver THEN late + 1 ELSE late
                     ELSE UNCHANGED outVars
                /\ buf' = <<>> /\ junk' = 0 /\ gap' = FALSE
           ELSE buf' = f /\ gap' = seen /\ UNCHANGED <<junk, outVars>>
  /\ pack' = None /\ pc' = "inner"
  /\ UNCHANGED <<src, netVars, guiVars, list, session, process>>

(* memcpy past the end of m_frameBuffer, or into the freed block. *)
BadCopy ==
  /\ pc = "process"
  /\ \/ memory = "freed" /\ process' = "freed"
     \/ memory = "alloc" /\ junk + Len(buf) >= BUFFERSIZE /\ process' = "overflow"
  /\ gap' = (gap \/ Skipped(pack[2]))     \* printed before the copy
  /\ UNCHANGED <<netVars, runVars, junk, buf, last, outVars, guiVars, list, session>>

RaceInRun == pc \in {"poll", "first", "get", "next"} /\ Race

RunStep ==
  \/ TestOver \/ Poll \/ GotoFirst \/ TestInner \/ GetNextPacket \/ GotoNext
  \/ ProcessRTPPacket \/ BadCopy \/ RaceInRun

-----------------------------------------------------------------------------
(* The GUI thread *)

GuiOnly == UNCHANGED <<netVars, runVars, asmVars, outVars, list>>

(* onStop calls destroy(); it may do so again on the same object. *)
Stop ==
  /\ gui = "idle" /\ gui' = "destroy" /\ brecvOver' = TRUE
  /\ UNCHANGED <<dtor, memory, session, process>> /\ GuiOnly

(* ~RtpRecver: the parent widget deletes its children at the program's end. *)
Delete ==
  /\ gui = "idle" /\ gui' = "destroy" /\ dtor' = TRUE /\ brecvOver' = TRUE
  /\ UNCHANGED <<memory, session, process>> /\ GuiOnly

AfterDestroy == IF dtor THEN "free" ELSE "idle"

(* BYEDestroy returns at once from a session that is not created.  It does *)
(* not wait for a BYE either: this program never sends on the session.     *)
ByeDestroyBegin ==
  /\ gui = "destroy"
  /\ IF session = "created"
     THEN session' = "closing" /\ gui' = "bye"
     ELSE UNCHANGED session /\ gui' = AfterDestroy
  /\ UNCHANGED <<brecvOver, dtor, memory, process>> /\ GuiOnly

ByeDestroyEnd ==
  /\ gui = "bye" /\ gui' = AfterDestroy
  /\ session' = "destroyed" /\ list' = [s \in Src |-> {}]
  /\ UNCHANGED <<brecvOver, dtor, memory, process, netVars, runVars, asmVars, outVars>>

Free ==
  /\ gui = "free" /\ gui' = "join" /\ memory' = "freed"
  /\ UNCHANGED <<brecvOver, dtor, session, process>> /\ GuiOnly

(* ~QThread ends the program if the thread is still in run(). *)
DeleteThread ==
  /\ gui = "join"
  /\ IF pc = "done"
     THEN gui' = "gone" /\ UNCHANGED process
     ELSE process' = "abort" /\ UNCHANGED gui
  /\ UNCHANGED <<brecvOver, dtor, memory, session>> /\ GuiOnly

(* The GUI thread's event loop hands the oldest queued frame to onRecvedFrame. *)
OnRecvedFrame ==
  /\ gui = "idle" /\ events # <<>>
  /\ events' = Tail(events)
  /\ UNCHANGED <<late, netVars, runVars, asmVars, guiVars, list, session, process>>

DestroyStep == ByeDestroyBegin \/ ByeDestroyEnd \/ Free \/ DeleteThread
GuiStep == Stop \/ Delete \/ DestroyStep \/ OnRecvedFrame

Next ==
  /\ process = "up"
  /\ \/ RunStep
     \/ GuiStep
     \/ \E s \in Src : Send(s)
     \/ \E p \in net : Lose(p)

(* Both threads are scheduled; nobody has to press a button or to look at a *)
(* frame, and the network owes nothing.                                     *)
Fairness ==
  /\ WF_vars(process = "up" /\ RunStep)
  /\ WF_vars(process = "up" /\ DestroyStep)

Spec == Init /\ [][Next]_vars
FairSpec == Spec /\ Fairness

-----------------------------------------------------------------------------
(* Properties *)

Event == [packets : Seq(Packet), junk : Garbage \cup {0}, gap : BOOLEAN]

(* The type invariant: the values every variable of one receiver takes.    *)
TypeOK ==
  /\ net \subseteq Packet /\ sent \in [Src -> 0..N] /\ dups \in 0..MaxDup
  /\ list \in [Src -> SUBSET (1..N)] /\ valid \subseteq Src
  /\ session \in {"created", "closing", "destroyed"}
  /\ brecvOver \in BOOLEAN /\ dtor \in BOOLEAN
  /\ pc \in {"top", "poll", "first", "inner", "get", "process", "next", "done"}
  /\ src \in Src \cup {None} /\ pack \in Packet \cup {None}
  /\ junk \in Garbage \cup {0} /\ buf \in Seq(Packet)
  /\ last \in 0..N /\ gap \in BOOLEAN
  /\ events \in Seq(Event) /\ late \in Nat
  /\ gui \in {"idle", "destroy", "bye", "free", "join", "gone"}
  /\ memory \in {"alloc", "freed"}
  /\ process \in {"up", "exit", "race", "overflow", "freed", "abort"}

(* One sender and no duplicates: the case the sequence check is written for. *)
OneSource == \A s, t \in Src : s = t
SingleStream == OneSource /\ dups = 0

(* The first frame of the stream without its first packet.                  *)
Headless(f) == \E s \in Src, m \in Marker : IsFrame(Run(s, 1, m), m) /\ f = Run(s, 2, m)

(* ProcessRTPPacket collects payloads until a marker whatever is missing    *)
(* between them.  A frame handed to the decoder that is not exactly one     *)
(* frame of the sender was announced by a "Got packet error" line while it  *)
(* was collected, with two exceptions, both in the very first frame of a    *)
(* camera that counts from 0 or 1, which 0 in m_lastSeqNumber makes look    *)
(* like the next one: the packet with number 0 is missed silently, and so   *)
(* is the garbage that an uninitialised m_bufferSize puts in front.         *)
DamageIsReported ==
  SingleStream =>
    \A i \in 1..Len(events) :
      LET e == events[i] IN
        \/ e.gap
        \/ Whole(e.packets) /\ e.junk = 0
        \/ /\ SeqNo(e.packets[1][2]) \in {0, 1}
           /\ \/ Whole(e.packets)
              \/ FirstNumber = 0 /\ Headless(e.packets)

(* m_frameBuffer has room for every frame of the sender, and nothing checks *)
(* the room: the payloads run past its end only after a lost packet was     *)
(* reported in the same buffer, or with garbage in m_bufferSize.            *)
TailFits ==
  \A a, n \in 1..N :
    a <= n /\ (\A i \in a..(n - 1) : i \notin Marker) => n - a < BUFFERSIZE
OverflowIsReported ==
  SingleStream /\ TailFits =>
    (process = "overflow" => gap \/ junk > 0)

(* run() tests m_brecvOver before each packet: after it is set at most one  *)
(* more frame reaches the GUI thread, however many packets wait in jrtplib. *)
OneLateFrame == late <= 1

(* destroy() ends run(), with no wait() to enforce it: the thread leaves,   *)
(* or the program is over.                                                  *)
StopEndsThread == gui = "bye" ~> (pc = "done" \/ process # "up")

(* What jrtplib has queued for a source that is off probation is processed, *)
(* unless the receiver is stopped first: nothing is left lying until more   *)
(* packets come.                                                            *)
EverySourceDrains ==
  \A s \in Src :
    s \in valid /\ list[s] # {} ~> (list[s] = {} \/ brecvOver \/ process # "up")

(* On a network that neither loses, reorders nor duplicates, and with       *)
(* m_bufferSize at 0, the object implements the stream of whole frames of   *)
(* FrameStream: in the sender's order, none skipped, none torn.             *)
Latest(S) == CHOOSE m \in S \cup {0} : \A k \in S : k <= m
FrameStream ==
  INSTANCE FrameStream WITH
    emitted <- Latest({m \in Video : m <= last}),
    queue   <- [i \in 1..Len(events) |-> events[i].packets[Len(events[i].packets)][2]]
ImplementsFrameStream == FrameStream!Spec

=============================================================================
