# SimpleSipClient: models, checks and proofs

SimpleSipClient is a small GB28181 client: a Qt window registers at a SIP server, starts a
video call to a camera, receives an MPEG program stream over RTP, takes the H.264 out of it,
decodes and shows it. The program itself is about 1900 lines under `src/*.cpp`,
`src/decoder` and `src/frameresolve`; everything else in the repository is vendored (pjproject
2.9 as `src/pjlibs`, jrtplib headers and a binary).

What makes it worth modelling is not its size. Four threads (GUI, `RtpRecver::run`,
`eventloop_thread`, `keepAlive_thread`) share state with no lock of the program's own; the GUI
thread drives pjsip while the event loop serves answers on the same objects; an unreliable
network sits under both SIP and RTP; and buffers are parsed and rewritten in place.

## 1. Inventory

| component (source) | state | operations | talks to |
|---|---|---|---|
| RTP receiver `RtpRecver` (`rtprecver.cpp`) | jrtplib session, `m_brecvOver`, frame buffer and `m_bufferSize`, `m_lastSeqNumber` | `init`, `run`, `ProcessRTPPacket`, `destroy`, destructor | camera (RTP), GUI thread (queued signal), `PsToH264` |
| Program stream parser `PsToH264` (`pstoh264.cpp`) | read and write position in one buffer, `leftlength` | `GetH246FromPs`, `ProgramStreamPackHeader`, `Pes` | called by the receiver |
| Video call (`mediaclient.cpp`: `onPlay`, `onStop`, `sendInvite`, `sendBye`, `call_on_send_ack`) | `m_invsession`, `m_invitedlg`, `m_invInit`; in pjsip the INVITE session, dialog, transactions, module table | play, stop, and every SIP message or timer of a call | camera (SIP), event loop, receiver |
| Registration and keep-alive (`registerClient`, `unregisterClient`, `sendKeepAlive`; `sip_reg.c`) | one `pjsip_regc` per click, `m_sipClientparam`, `m_tsxContext` | register, unregister, challenge, 423, refresh, time-out, keep-alive | SIP server, event loop |
| Start-up and shutdown (`main`, `startEventLoop`, `~MediaClient`, `destroy`) | `quit_flag`, the two threads, pool, endpoint | start, close, join, destroy | all of the above |
| Transactions and timer heap (`sip_transaction.c`, `timer.c`) | per transaction: state, two timers, transport flags, the count of its group lock | create, send, receive, time-out, retransmit, late completion of a send, terminate, shut down | dialog or registration client above, transport and event loop below, GUI thread through `sendBye` |
| Playing: all receivers of a window (`onPlay`, `onStop`, `onRecvedFrame`, `~QWidget`) | `m_rtpRecver`, the receivers as children of the window, the event queue | play, stop, decode a frame, close | receivers, decoder |
| Incoming requests (`on_rx_request`) | none; a server transaction per request | answers 200 | event loop, transactions |
| Access server link `Access` (`access.cpp`) | web socket, heartbeat timer, `m_sms`, `m_smsStarted` | connect, login, heartbeat, start stream, `stopSMS` | stream server link |
| Stream server link `SMS` (`sms.cpp`) | TCP socket, `m_seq`, `m_bfirstIFrame` | connect, login, heartbeat, slice and write a frame | access link |
| Decoder, picture, form | ffmpeg context, last picture, text fields | decode, paint, read the form | receiver's frames |

Calls go downwards from the GUI thread; responses, requests and timers come back in the event
loop; frames come back through a queued Qt connection. There is no other channel.

Hard behaviour, and what correctness means there, component by component:

* **Receiver**: loss, reordering and duplication; sources on probation; a stop or a deletion at any
  point of `run`; an uninitialised `m_bufferSize`. Correct: no damaged frame passes unreported but
  for the camera's very first, the buffer overflows only after a reported gap or with garbage in
  `m_bufferSize`, a stop ends the thread, and at most one frame comes late.
* **Playing**: each click makes another receiver, and the one before lives on; one port, one event
  queue and one decoder for all. Correct: an old call fades out of the picture, who stops before
  playing again always finds the port free, and once the threads are at rest no click is fatal.
* **Parser**: `int` against `sizeof`, lengths taken from the wire, source and destination in one
  buffer. Correct: nothing unread is overwritten, reads stay within one section of the
  received bytes, a whole frame yields exactly its video, damage stays local, the loop ends.
* **Call**: four pjsip calls in `sendBye` with nothing locked across them, the first of them
  (`pjsip_inv_end_session`) without a lock at all, each racing the event loop; ignored return
  values; messages that cross, repeat or never come; a second Play on another port. Correct:
  reference counts of dialogs are exact; freed or unwritten memory is touched only where the call
  was over, or where its answer was served inside `pjsip_inv_end_session`; no call is left streaming
  but for a CANCEL that crossed its answer or a request the transport refused; ended calls are freed.
* **Transactions**: two threads, two locks in opposite orders, timers and sends that complete
  late. Correct: the group lock counts its users exactly, nobody works in freed memory, the user
  is told of the states in their order and of the end before the memory goes, a retransmission
  that was put off is not forgotten, and every transaction ends.
* **Registration, shutdown**: several registrations with timers; challenge and 423 loops; a refresh
  timer with a smallest delay against short grants; keep-alive asleep through the shutdown; endpoint
  destroyed with one of two threads joined. Correct: no refresh is lost to PJSIP_EBUSY, a binding
  that is counted on lapses only when it was granted for hardly longer than the margin, the
  unregistration is final unless it raced, the joined thread is off the endpoint, closing ends the
  program.

The hazards at their lines are listed in `PROJECT.json`.

## 2. Modules

| module | stands for | its TLC module |
|---|---|---|
| `RtpRecver` | `RtpRecver` object from `init` to its destructor, over an external jrtplib session and network | `MCRtpRecver` |
| `FrameStream` | abstract: the video frames in order, each once, through one queue | (used as a property by `RtpRecver`) |
| `RtpRecver_proofs` | theorems, the refinement of `FrameStream` among them | |
| `MediaPlay` | all the receivers of a window, its event queue and its end | `MCMediaPlay` |
| `MediaPlay_proofs` | theorems | |
| `RecverInPlay` | one `RtpRecver` from the click that makes it, mapped to a receiver of `MediaPlay` | (proved, no run) |
| `RecverInPlay_proofs` | the refinement of `MediaPlay` by `RtpRecver` | |
| `PsToH264` | `GetH246FromPs` and its two helpers | `MCPsToH264` |
| `PsToH264_proofs` | theorems | |
| `SipCall` | `onPlay`/`onStop` and the pjsip call under them | `MCSipCall` |
| `SipCall_proofs` | theorems | |
| `Transaction` | one transaction, client or server, INVITE or not, between event loop and GUI thread | `MCTransaction` |
| `TsxLife` | abstract: what a transaction promises to its user | (used as a property by `Transaction`) |
| `Transaction_proofs` | theorems, the refinement among them | |
| `Lifecycle` | registration, keep-alive, event loop, shutdown | `MCLifecycle` |
| `Lifecycle_proofs` | theorems | |
| `Renewal` | `schedule_registration`'s delay against the server's clock | `MCRenewal` |
| `Renewal_proofs` | theorems | |

### RtpRecver

`pc` is the place in `run()`: `TestOver`, `Poll`, `GotoFirst`, `TestInner`, `GetNextPacket`,
`ProcessRTPPacket`, `GotoNext` are the statements at which another thread can get in between.
The GUI thread's `destroy` and destructor are steps of their own (`Stop`, `Delete`,
`ByeDestroyBegin`, `ByeDestroyEnd`, `Free`, `DeleteThread`). jrtplib is built here without
`RTP_SUPPORT_THREAD`, so a session torn down while `run` is inside it is undefined behaviour:
the action `Race` ends the program as `"race"`. A payload is the packet it came in and has
length 1; `BUFFERSIZE` counts payloads. A camera's first packet has the number `FirstNumber`, any
number; `m_lastSeqNumber` starts at 0 whatever that is, so the number 0 is missed silently when it
is lost. `m_bufferSize` before its first assignment is any value of `Garbage`. jrtplib is built with
`RTP_SUPPORT_PROBATION` and the program leaves the default type, `ProbationStore`: `valid` are the
sources that are off probation, and `WithData` knows only those. `Poll` may validate any source (a
CNAME in RTCP does), and on an orderly network it must validate one that has three numbers in a row;
that a packet out of order sets the count back is over-approximated by leaving validation open then. What `GetH246FromPs` finds in a frame is known for a whole frame (`Video`)
and arbitrary for a damaged one.

### MediaPlay

The composition of several receivers behind one GUI thread. `rx[i]` is the receiver of the i-th
click, `RtpRecver` reduced to what the others notice: the port it `holds`, its session, its
`over` flag and its place in `run`, which is the place of `RtpRecver`, action by action. What `Poll`
finds, which packets there are and what the buffer holds is left open: `ProcessRTPPacket(i)` either
ends a frame with video (`Emit`) or not (`Collect`), and `BadCopy` may happen wherever a packet is
in hand. `m_rtpRecver` is receiver `plays`: `OnPlay` overwrites it, so earlier
receivers are reached only by the window's end (`Close`, then `Destroy`, `Free` and `DeleteThread`
for each child in the order of creation). `queue` is the GUI thread's event queue; an entry is the
receiver the frame is from, which is all that tells frames apart here. `process` says why the
program is over: `"bind"` (the port is taken, `checkerror`), `"exit"` (`Poll` on a closed session),
`"race"` (two threads in one session), `"freed"` (the frame buffer is gone), `"overflow"` (past its
end), `"abort"` (`~QThread` on a running thread), `"wild"` (Stop before the first Play reads
`m_rtpRecver` uninitialised). `stopped`, `forgotten`, `newest` and `stray` are history variables.
Two ports of `Port` do not overlap: jrtplib takes even numbers only and uses each with its
successor. The SIP side of a click and the shutdown before `~QWidget` are in `SipCall` and `Lifecycle`.

### RecverInPlay

That the reduction leaves nothing out is a theorem, not a matter of reading: `RecverInPlay` adds to
`RtpRecver` the click that makes the object and three records (`frames` posted, `clicked`: Stop was,
`shown`: the decoder saw a frame), and maps the result to a `MediaPlay` of one receiver (`Object`,
`receivers`). The records take part in no guard but the bound on `frames`. What `MediaPlay` proves of a
receiver's threads, session and memory therefore leaves out no step of `run()`, `destroy()` or the
destructor.

### PsToH264

A frame is abstracted to the offsets of start codes and the fields behind each. The C code
compares a signed `leftlength` with an unsigned `sizeof`: `Fewer` is that comparison. The
buffer behind the received bytes is zero. A header that lost bytes may claim any length. Source and
destination of `memcpy` overlap for ordinary frames, which C leaves undefined; the model
lets such a copy come out whole or garbled (`Overlap`), and `WholeFrameExtracted` is about the
positions and order of what is copied.

Two assumptions on the frames say what the sender and the network do; TLC evaluates them on every
frame of the run. `OneLoss`: sections stand in the order of sending, and one lost packet damages one section
that is still found (the section it ends in has lost its start code). `Intact`, of frames that
arrived whole: the sections lie end to end from the pack header (`First`) to the last byte, each ends
(`End`) where the next one starts, and `video` lists those with payload (`VideoAt`) in their order.

### SipCall

`call[c]` holds the dialog's life and its two reference counts, the INVITE session's state, and
the four transactions a call can have. A pjsip call of the GUI thread that takes the dialog's lock is
one step; between two of them the event loop may run (`Rx`, `Timeout`). `pjsip_inv_end_session`
takes no lock, so it is a chain of steps, one for each thing it reads or makes: `EndSession` reads
`inv->state`, `CheckInvite` `inv->invite_tsx` for the assertion, `ReadStatus` the status code through
`invite_tsx`, which may be NULL by then, `DelayCancel` sets `pending_cancel`, `CreateCancel` and
`SetTimeout` make the CANCEL and arm the INVITE. `found` is a history variable: what `inv->state` was
read to be. When the 200 is served in between, the assertion aborts or the function returns with
`tdata` unwritten, and `sendBye` sends that (`UseDead`).
`net[c]` is a set that only grows: a message once sent may arrive late, repeatedly or never.
Camera actions (`Dev...`) are external. Of the receive ports, which the form lets the user change
before every Play, the module keeps whether the one entered is taken: `Play` finds it taken
(`RtpRecver::init` ends the program) or free, and `leaked` says that a receiver nobody points to any
more holds one. Assumptions, all named in the module: transaction timers (5 s and more) do not
fire inside `sendBye`, sending an ACK or a response does not fail, nor does the postponed CANCEL.

### Transaction

`tsx` is the `pjsip_transaction`: its state, class of status code, `timeout` and `retransmit`
(is the timer in the heap), `id` (`timeout_timer.id`), `refs` (the count of the group lock),
`own` (the reference of `tsx_create`), `registered` (in the hash table), and the transport flags.
`flight` is the send that is not yet complete: on the transaction's own transport
(`transport_callback` will come), by way of the resolver (`send_msg_callback`), or a resolver
send that `tsx_set_state` has detached (`mod_data` set to NULL). `pendSend` and `pendResched`
are the flags of the same names.

What runs under the group lock is one step, with one exception, and what is looked at without it is
a step of its own: `send_msg_callback` tests `mod_data` before it takes the lock (`ResolvedSend`)
and not again after (`SendMsgCallback`), so that `pjsip_tsx_terminate` may come in between and the
late send is served on a terminated transaction (`TooLate`). The exception: `tsx_set_state` calls the
transaction user in the middle, and the user needs its dialog's lock, which the GUI thread may
hold. So a handler (`TimerEvent`, `Recv`, `ResolvedSend`, `PostedError`) ends where the user is to
be told: `loop.pc = "tell"`, and `Tell` goes on from there, with what the handler still has to do
(`AfterTell`). `loop.how` says whether the group lock is held meanwhile: it is for a
message or a failed send, it is released for a time-out (`"unlocked"`) and for a posted transport
error (`"posted"`). `pj_timer_heap_poll` takes an entry out before it calls it, so `Fire` and
`TimerEvent` are two steps and another thread gets in between. A message is looked up (`Lookup`)
before it is handled (`Recv`).

`app` is the GUI thread's way through `sendBye`: `EndSession` reads `invite_tsx`, `AppSetTimeout`
sets its timeout under `mutex_b` alone, `LockDialog` and `Terminate` are the two lock
acquisitions of `pjsip_inv_terminate`. `pjsip_tsx_set_timeout` touches the timer only, so it
commutes with the parts of a handler that do not, and one step is enough for it.

`fault` ends a behaviour at undefined behaviour: `"freed"` is a timeout set on a transaction
that was freed after `invite_tsx` was read without a lock; `"uninitialised"` is
`on_rx_request` going on with a `tsx` that `pjsip_tsx_create_uas` has not set, because the
transaction of the retransmitted request is terminated but still in the table. Both are reachable;
no document of the repository excludes them, so no run claims so. `lost` remembers that the
error of a late send has taken the place of the timer that was to destroy the transaction.

Time is abstract, and the transport is UDP to one address. Not modelled: reliable transports,
a second address, the layer's stop (`PENDING_DESTROY`), the transport's state callback, failures
to allocate. `TsxLife` is what `SipCall` and `Lifecycle` rely on when they count a
transaction out with the report of its end.

### Lifecycle

`gui` is the place in `~MediaClient`; `keepalive` and `loop` are the two thread functions;
`regc[r]` is a client registration (operation, pending transaction, credentials given, refresh timer,
the value of `expires_hdr` as `expires` and `regc->expires` as `grant`, each of which may be
missing). A 423 is checked against `expires_hdr` only if there is one, and `set_expires` drops the header
when the new value is the one granted before: from then on any Min-Expires is taken for a longer one
(`RxTooBrief`), and a server that answers 423 each time is asked again without end.
A binding may run out at any time (`Expire`); how the refresh timer stands to that is in `Renewal`. `Last` is the registration that `unregisterClient` makes.
`AssertFails` is `PJ_ASSERT_RETURN`: a debug build ends there, a release build returns. A
thread that uses the destroyed endpoint, or a join on a descriptor whose pool was released, ends
the program as `"wild"`; for the pool both outcomes are possible because the caching pool
may keep the block. `farewell` is a history variable: whether an unREGISTER was accepted, and
whether a REGISTER for the same server was under way when it was sent or sent after it.
A message stands for all its retransmissions and does not outlive its transaction; a server keeps
to one realm. A handler of the event loop is one step although `sip_reg.c` releases the lock of the
registration around callbacks and sends (1344, 1431): nobody else uses a registration once its first
request is sent. `Unregister` is `unregisterClient` and the release of the pool, the first line of
`destroy`. A program that was aborted or has gone wild is followed no further. Not in this module: INVITE and MESSAGE transactions; incoming requests are in
`Transaction`.

### Renewal

The one question of `Lifecycle` that needs numbers: seconds. `Delay` is the arithmetic of
`schedule_registration`: the interval less `DELAY_BEFORE_REFRESH`, not longer than the interval
before, not shorter than `DELAY_BEFORE_REFRESH`. The server's `lease` and the client's `timer` run down
with every `Tick`; a message is under way for at most `Trip`. The last of the three limits makes a
short grant lapse with the timer running; `LapsesOnlyIfShort` says how short it has to be.

`registerClient`, `unregisterClient`, `sendBye`, `Decoder::init` and `Decoder::decode` reach the end of a
non-void function without `return`. No caller reads the value; the models treat the call as
returning.

## 3. Runs

Every run is in `PROJECT.json` with its properties; every property of a passing run has a mutant
of a modelled definition that violates it under the same configuration.

| run | bounds | what it shows |
|---|---|---|
| `rtp` | 1 source, 4 packets from number 0 on, in frames of 2; buffer of 2; `m_bufferSize` starts at 0 or 1; loss, reordering, one duplicate | `DamageIsReported`, `OverflowIsReported`, `OneLateFrame`, `StopEndsThread`, `EverySourceDrains` |
| `rtp_ideal` | 5 packets from number 7 on, in frames of 2, 1, 2, the second without video, on a faithful network | refinement: `ImplementsFrameStream` |
| `play` | 3 plays, 2 ports (symmetric), 4 frames in all | `OldCallFadesOut`, `BindNeedsUnstopped`, `QuietIsSafe` |
| `ps` | every layout of up to 3 sections of 7 shapes, pack stuffing 0 or 2, in packets of 32 bytes with none or any one (but the last) lost; cut length fields 0, 2, 40 or 200 | the five invariants of the parser and `Terminates` |
| `call` | 2 calls | `DialogLifetime`, `SendByeHoldsDialog`, `UndefinedNeedsDeadCall`, `StaleNeedsLeak`, `AbandonedOnlyByCancel`, `EndedCallIsFreed` |
| `call_null`, `call_cancel` | 1 call | violations, below |
| `transaction` | one transaction of each of the four kinds | `RefsAreHeld`, `UsersHoldTsx`, `NothingForgotten`, `RetransmitArmed`, `EveryTransactionEnds`, and the refinement `ImplementsTsxLife` |
| `transaction_deadlock` | the same | violation, below |
| `lifecycle` | 1 server, 1 click and the final registration, intervals up to 2 with 1 asked for, stale limit 2 | `OneLateKeepAlive`, `KeepAliveOffEndpoint`, `NeverBusy`, `GoneForGood`, `UnregisterOnly`, `CloseEnds`, `AttemptEnds` |
| `renewal` | margin of 5 s as in the code, trips of up to 2 s, grants of 0, 3, 5, 9, 10, 12 and 20 s | `LapsesOnlyIfShort` |
| `lifecycle_destroy` | 1 server, 1 click | violation, below |

Why these bounds are enough. *Receiver*: two frames of two packets are the smallest stream in which a
lost marker joins two frames, a first packet is missing from a frame that is not the first, and a
buffer of the size of the largest frame overflows on the joined one. `FirstNumber` 0 is the case in
which the sequence check misses a packet; any other is in `rtp_ideal` and, with every number of
sources, in the proofs. The properties of damage speak of the stream up to its first duplicate
(`SingleStream`), the others of all of it. One source is enough for `EverySourceDrains` to have
probation, a stop and the end of the walk in its way; that the walk passes from one source to the
next is in `StopAdvances`, for any number. *Playing*: `OldCallFadesOut`
and `BindNeedsUnstopped` compare two receivers; a third lets one be stopped, one forgotten and one
current at once; a second stray frame needs three frames, a fourth lets a third receiver take part; two ports
give Play after Play both outcomes. The proofs cover any number. *Parser*: three sections give each kind a predecessor and a
successor; 32-byte packets cut headers, payloads and whole sections. *Call*: a second call is what
module registration and late messages of the first call need; a third adds nothing that a second
does not have, as `sendBye` frees all shared state. The bound is on calls that are begun: a Play on top
of a call, with `m_invInit` set, is always possible. *Transaction*:
transactions share no state but the table they are found in, so one of each kind shows all that a
transaction can do; nothing in the module grows, so no bound is needed. *Lifecycle*: one
registration and the last one show every race between the unREGISTER and an earlier REGISTER;
more clicks multiply registrations that do not touch each other, and the proofs cover any
number; with 1 asked for and intervals up to 2 a 423 can ask for a shorter, the same, a longer and
the granted interval. *Renewal*: the grants are on both sides of twice the margin, where `Delay`
changes, and of the shortest that lasts with these trips; the margin is greater than two trips. Unbounded counters are bounded by `N`, `MaxDup`, `MaxCalls`, `MaxClicks`, `MaxPlays`, `MaxFrames`,
`MaxRaise` (the longest interval a server asks for or grants), `Trip` and by
`lateSends` counting to 2.

`CHECK_DEADLOCK FALSE` is set but for `renewal`: in all other modules the program, the stream or the
transaction ends.

### What the violation runs show

* `call_null`: a stop before any provisional response makes `sendBye` pass NULL to
  `pjsip_inv_send_msg`, whose first statement asserts that it is not NULL.
* `call_cancel`: `sip_inv.h` promises that a CANCEL put off for want of a provisional response is
  sent when one comes; `sendBye` terminates the session at once, and it never is.
* `transaction_deadlock`: `sip_ua_layer.c:900-902` avoids a deadlock on the dialog's lock by
  releasing the UA layer's mutex and trying again. The transaction's group lock, in whose handler it
  runs, stays taken; `pjsip_inv_terminate` of `sendBye` holds the dialog and waits for that group
  lock. A response that arrives while the user stops the call freezes both threads.
* `lifecycle_destroy`: `sip_endpoint.h` asks the application to have its transactions
  terminated before `pjsip_endpt_destroy`; the unREGISTER is still pending then.

### Fairness

* `RtpRecver`: weak on the receive thread and on the GUI thread inside `destroy`. Nothing is assumed
  of the user or the network.
* `MediaPlay`, `Renewal`: none; they state safety only.
* `PsToH264`: weak on `Next`; it is one call.
* `SipCall`: weak on GUI work that has begun and on each transaction timer, which is served whenever
  the GUI thread is not inside `sendBye`. `DeliveringSpec`,
  which only `call_cancel` uses, adds that provisional responses are delivered: the
  violation has to hold on a good network.
* `Transaction`: weak on what the event loop has begun and on `Terminate`, whose lock, once free, is
  free again and again; strong on each timer and on the completion of a pending send. A timer in
  the heap is cancelled and set again only finitely often by the code, and the heap is polled in
  the order of the expiry times; strong fairness is the untimed form of that. No message, no
  hang-up and no success of a send is assumed.
* `Lifecycle`: weak on each step of the threads and of the shutdown; strong on `Handle(r)`, as
  every turn of the event loop polls all timers and sockets but may be between two turns; weak on
  "a request is delivered or lost". Nobody has to click or to close the window.

## 4. Proofs

Proved for every value of the constants, from the named assumptions on them only:

| theorem of `Spec` | module | rests on |
|---|---|---|
| `TypeOK` | all but `RecverInPlay_proofs` | type invariants; `pack` is a packet while `pc = "process"` |
| `DamageIsReported` | `RtpRecver_proofs` | `StreamInv`: with one source and no duplicates, and no gap reported, the buffer is a run of consecutive packets (`FrameInv`) that opens at a frame, or at packet 2 of a camera that counts from 0 (`Begins`); `AllReported` the same for the queue; `OnePlace` (a packet is in one place at a time) gives the case of a repeated number |
| `OverflowIsReported` | `RtpRecver_proofs` | the same, and that such a run is a proper part of a frame that fits |
| `OneLateFrame` | `RtpRecver_proofs` | `LateInv`: once `m_brecvOver` is set only a packet already taken is processed |
| `StopAdvances`, of every step | `RtpRecver_proofs` | safety half of `StopEndsThread`; `Walking`: the walk is at a source, and `SelectLeast` finds the next one behind it |
| `ImplementsFrameStream`, if `Faithful` | `RtpRecver_proofs` | `OrderInv`: behind the packet in hand nothing is missing between jrtplib and the network, and the one in hand is the successor of the last; with `FrameInv` the frame at a marker is whole |
| `BindNeedsUnstopped`, `QuietIsSafe` | `MediaPlay_proofs` | `PlaceInv`: where the GUI thread is, given each receiver's session; a port is held only by a session that is not destroyed, and a thread is done only after its stop |
| `OldCallFadesOut` | `MediaPlay_proofs` | `FadeInv`: all in all a receiver has one stray frame, which is seen, or queued behind a later receiver's, or in the hands of a thread past the inner test |
| `UnreadIsIntact` | `PsToH264_proofs` | `IInv`: a section yields less than it is long, so `w <= pos` is kept |
| `OneSectionBeyond` | `PsToH264_proofs` | `IInv`: nothing is found behind the received bytes, so `pos` passes them at most once |
| `WholeFrameExtracted` | `PsToH264_proofs` | `WholeInv`: in a whole frame the parser stands at a section or at the end, and `out` is exactly the video behind it, in order (`Extracted`); the next number of `video` is the section's own, because numbers and offsets grow together |
| `DamageStaysLocal` | `PsToH264_proofs` | `DamageInv`: each block so far is from a section in front of every one still to come, and of two such at most one is damaged; with `OneLoss` |
| `EveryTurnAdvances` | `PsToH264_proofs` | safety half of `Terminates`: a turn that goes on begins inside the received bytes and moves at least six bytes on |
| `ReceiverIsReceiver` (`PlaySpec => ImplementsMediaPlay`) | `RecverInPlay_proofs` | `Shape`: the GUI thread's place against the flags and the memory; one lemma for each action of `RtpRecver`, naming the action of `MediaPlay` it is |
| `OneLateKeepAlive`, `KeepAliveOffEndpoint` | `Lifecycle_proofs` | `ThreadInv`: the shutdown's place against the keep-alive thread's |
| `NeverBusy` | `Lifecycle_proofs` | `HandlerCases`: a handler sends only with its timer off, and arms only when idle |
| `UnregisterOnly` | `Lifecycle_proofs` | `LastInv`: the last registration has no automatic refresh, so neither 423 nor a timer turns it into a REGISTER |
| `GoneForGood` | `Lifecycle_proofs` | `FarewellInv`: after the unREGISTER, if it did not race, no REGISTER for the server in the form is under way anywhere |
| `LapsesOnlyIfShort` | `Renewal_proofs` | `LeaseInv`: in each part of the cycle at least `Slack` of the lease is left, less the trips made so far |
| `ClosingAdvances`, of every step | `Lifecycle_proofs` | safety half of `CloseEnds`: after `quit_flag` no thread comes back to an earlier place |
| `AttemptAdvances`, of every step | `Lifecycle_proofs` | safety half of `AttemptEnds`: interval asked for, credentials given, stage of the message grow in this order of weight, or the answer to a 423 drops the Expires header, which needs an interval granted before; `NeverBusy` keeps the refresh timer out, `Fresh` a new click |
| `DialogLifetime` | `SipCall_proofs` | `Good`: the counts of a record are right before its dialog is unlocked (`Counted`), and unlocking frees it with the last; `UnderSum` turns the sum into the cardinality |
| `SendByeHoldsDialog` | `SipCall_proofs` | `CurInv` and `PlaceInv`: what `found` and `tdata` say of the session at each place of `sendBye`, and `Held`: the session or a transaction that only a timer ends keeps the dialog |
| `UndefinedNeedsDeadCall` | `SipCall_proofs` | `PlaceInv`: what each place of `sendBye` knows of the call, given what `inv->state` was read to be; `OpenInv`: an INVITE that is gone from a session that rang has been answered, or the session is over |
| `StaleNeedsLeak` | `SipCall_proofs` | `GuiInv`: with `m_invInit` set and the GUI thread idle the last receiver holds its port, so who gets past `RtpRecver::init` has left it behind |
| `AbandonedOnlyByCancel` | `SipCall_proofs` | `History`: a session that ended without `sendBye` while the camera had not ended was never acknowledged; `EndInv`: a BYE made is a BYE sent, or refused by the transport |
| `EndedCallIsTimed` | `SipCall_proofs` | safety half of `EndedCallIsFreed`; `TimedInv`: who asks for the end of a call while its INVITE rings (`sendBye`'s CANCEL, the camera's BYE) also gives the INVITE a timeout |
| `NoStepBack`, of every step | `SipCall_proofs` | the other part of it, from the same invariant: the session and its four transactions only go forward |
| `RefsAreHeld` | `Transaction_proofs` | one lemma for each operator on a transaction: what it adds to the count it adds to the users |
| `UsersHoldTsx` | `Transaction_proofs` | the same, and `LifeInv`: the transaction's own reference goes in the step that tells of Destroyed |
| `NothingForgotten` | `Transaction_proofs` | safety half of `EveryTransactionEnds`; `EndInv`: what ends a transaction is its timer, the user who lets it ring (`Ends`), or what the event loop has in hand (`InHand`); `RefsAreHeld` turns "no timer, no send" into "freed" |
| `RetransmitArmed` | `Transaction_proofs` | `RetransmitInv`: the same while the loop is inside a handler |
| `ImplementsTsxLife` | `Transaction_proofs` | `LoopInv`, `AppInv`: what the loop has still to tell is the state the transaction is in; `TooLateFacts`: a send served after the end leaves the end alone |

Why the invariants had to be strengthened: `GoneForGood` speaks of what the server holds, and is
kept only because no message that could bind again is under way; that in turn holds only because a
registration is active for a real server alone (`ServerInv`) and the last registration is for the
server in the form (`LastInv`). Likewise `DamageIsReported` needs to know what the buffer holds
*before* the marker arrives.

`Faithful`, the hypothesis of `StreamIsImplemented`, is the promise of `FrameStream` made exact: one
sender, nothing lost, reordered or duplicated, `m_bufferSize` at 0. How the packets are cut into
frames and which of them carry video stays arbitrary, as do the cuts that `Poll` makes and the moment
of a stop; `OrderInv` holds without a bound on what waits in jrtplib. The abstract emission needs the
greatest marker so far, and `LatestGreatest` gives it from the well-foundedness of the naturals.

`OldCallFadesOut` is not inductive: the one stray frame moves from the thread to the queue to the
decoder. `Fades(i)` counts it in all three places, and `NoneLaterYet` starts the count: while a
receiver may still post freely, no later one exists unless it was forgotten.

`Transaction_proofs` proves the refinement in full: the initial states map to initial states and
every action to a step of `TsxLife` or a stutter. Each action has one lemma that gives the
inductive invariant and the abstract step together, because the second needs what the first says
of the handler's outcome. The constant is only assumed to be a set of the four kinds.

`SipCall_proofs` splits its invariant by call: every handler and every step of the GUI thread
replaces one call's record, so `LoopStep` (event loop), `ByeStep` (`sendBye`) and `CameraStep` say
once what such a step must keep, and each handler is then one lemma about a record. Two things had
to be added to what the properties say: that the timers do not fire while `sendBye` runs is used in
`Moves` (a completed transaction stays until the GUI thread is idle), and `History` ties a call's
record to the messages sent for it. The constants are only assumed to be a number and a value
outside the numbers.

`Lifecycle_proofs` splits its invariant into the threads and the registrations, which share no
variable but `gui` and `param`: each step then disturbs one half only, and every handler of the
event loop is reduced to one of two shapes (`Send` or `Finish` by a registration) by
`HandlerCases` before the invariant is looked at.

Model-checked only: the seven liveness properties `StopEndsThread`, `EverySourceDrains`, `Terminates`,
`EndedCallIsFreed`, `CloseEnds`, `AttemptEnds` and `EveryTransactionEnds`, because fairness and ENABLED are
beyond the prover used. What they need besides fairness is proved for six of them (the "safety half"
in the table: a measure that every step brings nearer to its end, or that something which ends it is
always armed); only `EverySourceDrains` has no such theorem, because other sources may go on sending
and its progress lies in the order of the walk alone. Every invariant and every safety property of an action that a run checks is
also proved. `EveryTransactionEnds` excuses, by name, a call that rings on, a lost timer, the deadlock
and undefined behaviour. `AttemptEnds` excuses an attempt whose Expires header the code has dropped:
it may be asked for a longer interval any number of times.

## 5. Not modelled

* `Access`, `SMS`: the relay to a stream server. Only `MediaClient::initRecver` creates an `Access`
  and only an `Access` creates an `SMS`; the single call of `initRecver`, `main.cpp:16`, is commented
  out, so no state of theirs is one the program can be in.
* `Decoder`, `ImageLabel`, `setUpUI`: calls into ffmpeg and Qt; no protocol or shared state. The order in
  which frames of several calls reach the decoder is in `MediaPlay`.
* `queryDeviveInfo`, `messageResolve`: never called.
* The races of `keepAlive_thread` with the GUI thread on `QString` members: their outcome lies
  inside `QString`. The conversion `toShort` of ports.
* pjsip beyond what a call and a registration of this program reach: callee side, presence,
  conferencing, re-INVITE, UPDATE, PRACK, forking, authentication of INVITE, transports.
* jrtplib beyond the walk over the sources, their validation by probation and their queues: its time-out
  of a silent source is left out.
* The other vendored libraries, build files. They are why the share of mapped lines is small:
  the program has about 1900 lines of its own, the repository some 485,000, nearly all of them
  pjproject (twice, with the copied headers). Of these the models take what decides the fate of this
  program's calls, registrations and transactions; the media, NAT and DNS libraries, the accounts
  and calls of pjsua and the tables of the codecs are linked or merely present, and the program
  never calls them.

## 6. Plan

In order of importance; the first nine are done.

1. `RtpRecver` with `FrameStream` (abstract), runs and proofs.
2. `SipCall`, runs.
3. `PsToH264`, run and proofs.
4. `Lifecycle`, run and proofs.
5. `Transaction` with `TsxLife` (abstract), runs and proofs, the refinement included.
6. `SipCall_proofs`.
7. The refinement of `FrameStream` proved step by step.
8. The composition `MediaPlay`, run and proofs.
9. The refinement of `MediaPlay` by `RtpRecver` (`RecverInPlay`), proved; the parser's two properties of
   whole and damaged frames, proved. `Renewal`, run and proofs.
10. Left: `SipCall` and `MediaPlay` behind one GUI thread together with `Lifecycle`, for a call that
   is open when the window closes; until now they meet in the assumption that a call's port is the
   receiver's and in the order of steps within a click. The reliable transports of `Transaction`.
