# VizBench in TLA+

VizBench is a framework of FreeFrame (FFGL) plugins that turn cursors (TUIO over
OSC, a depth camera over shared memory) and MIDI into graphics and MIDI. This
directory models the part of it where timing decides: the MIDI scheduler, the
list it keeps its events in, the server's cursors with the brushes that follow
them, the notes that cursors play through the scheduler, the shared memory the outlines
of hands come through, the sockets of the HTTP server, the requests and OSC messages
that are put together from what the sockets read, and the server's life inside its host,
from the start of its threads to their end. TLC checks the models on small instances
(`*.cfg`), TLAPS proves the safety of the scheduler and its list, of the notes, the cursors, the
shared memory, the sockets, what is read from them, and the server's life for all of them (`*Proofs.tla`).

Paths below are relative to `src/src/Viz/` unless they start with `src/`.

## The system

| Component | State | Operations | Who calls it |
|---|---|---|---|
| `VizScheduler` | two lists of events ("scheduled", the queue), a mutex for each, the current click, notes down, MIDI streams | `Queue*`, `Schedule*`, `ANO`, `SetClicksPerSecond`, `Callback`, `StartMidi`, `Stop` | PortTime's timer thread calls `Callback`; everybody else the rest |
| `VizSchedEventList` | doubly linked list ordered by click | `InsertEvent`, `PopFirst`, `DeleteAll`, `DeleteAllId`, `DeleteAllBefore`, counts | the scheduler |
| `VizSchedEvent`, `MidiMsg`, `MidiPhrase` | click, cursor id, loop length and fade; the message or the phrase | constructors, `MidiPhrase::insert` | all that make MIDI |
| `CursorBehaviour` | parameters and looping of a region; the pending note-off of a cursor | `_genNormalMidi`, `_genArpeggiatedMidi`, `_genControlMidi`, `_set_looping` | cursor callbacks |
| `VizServer` | list of cursors and its mutex; maps of callbacks | `processOsc`, `_setCursor`, `_touchCursorSid`, `_checkCursorUp`, JSON API, registration of callbacks, `Start`, `Stop` | network thread, timer thread, render threads |
| Shared memory (`mmtt_sharedmem.h`, `UT_SharedMem`, `UT_Mutex`) | three buffers of outlines | `_checkSharedMem`; the writer, with `grab_unused_buffer` (only declared, `mmtt_sharedmem.h:160`), is another program | tracker process, timer thread |
| `Vizlet` | connected, enabled, its own lock | `ProcessOpenGL`, `vizlet_cursor`, `vizlet_midiinput`, ... | host's render thread; callbacks |
| `VizDaemon` | servers, flags of a shutdown | network thread, destructor | `VizServer` |
| `VizHttpServer`, `VizSocket` | list of connections, buffers, web socket clients | `Check`, `SendTo`, `Remove`, frames | network thread; senders |
| `VizSprite`, graphics | sprites and their paths | add, advance, draw | plugins |
| FFFF host | pipelines of FFGL plugins; the request that waits for a frame | load, play, `submitJson`, `checkAndExecuteJSON` | main thread; network thread |
| Plugins | | `VizLooper`, `VizMidi4` queue MIDI; the others draw | host |

How they interact. A cursor message reaches `VizServer::_setCursor` on the
network thread, which holds the lock on the cursors and calls the vizlets' cursor
callbacks; `CursorBehaviour` makes note-ons and note-offs of them and hands
these to the *queue* of the scheduler, for a click in the future. The timer
thread calls `VizScheduler::Callback` once in a few milliseconds: it computes
the click, tells its click client (the server: cursors that were not touched for
100 ms go up here, on this thread), then, if it gets the lock of "scheduled" at
once, plays what is due, moves the queue over and polls MIDI input. An event that
loops and a phrase that has more units go back through the queue. The click client
also looks into the shared memory, where a tracker leaves outlines of hands, and makes
cursors of them.

The host starts and stops the server on its main thread, which also draws. The network
thread reads requests over HTTP and OSC; those for the host ("ffff.") it hands to
the main thread, which executes them between two frames, and waits for the answer.

What is hard. Four kinds of threads meet in two lists; a third one walks both
without a lock (`QueueRemoveBefore`); the timer thread gives up when a lock is
held; the same event object is used again and again; the click of an event
changes between the lists; a note-on and its note-off take separate ways, from
separate threads, and must arrive in order. The hazards, each at its line, are in
`PROJECT.json`.

What makes each component correct:

- scheduler: nothing is lost, doubled, or done early; a pass over the due events
  ends; a clear is final; locks are given back; what is queued is done in the end.
- list: time-ordered and stable; links intact; nothing deleted is touched.
- cursor notes: no note sticks; a held note stays; silence when all cursors are up.
- cursors: one cursor per session id and source; every cursor goes up once.
- shared memory: the buffer that is displayed is the newest whole one; the tracker always
  finds a free one; the segment of a tracker that is gone is let go.
- sockets, HTTP: every open socket is listed once and closed once; the limit of 63
  sockets; every client is served in its turn; messages arrive whole and one after
  the other; requests come apart as they were sent.
- daemon, host: a request is executed once, by the main thread, before it is answered;
  stopping ends; nothing is called after it was removed or deleted.

## Modules

| Module | Models | Source |
|---|---|---|
| `EventList` | the operations of the list, on sequences | `VIzSchedEventList.cpp` |
| `Timeline` | abstract: what the scheduler promises | |
| `Scheduler` | both lists, their locks, callback and callers | `VizScheduler.cpp/.h`, `VizSchedEvent.cpp` |
| `MCScheduler` | instances of it | |
| `EventQueue` | abstract: a time-ordered sequence and the popped events | |
| `SchedEventList` | the links, one iteration of a loop at a time | `VIzSchedEventList.cpp` |
| `MCSchedEventList` | instances of it | |
| `CursorNotes` | cursors that play notes, composed with `Scheduler` | `CursorBehaviour.cpp`, `VizServer.cpp` |
| `MCCursorNotes` | instances of it | |
| `CursorLife` | abstract: what the server promises about cursors | |
| `Cursors` | list of cursors, lock, timeout, messages, brushes | `VizServer.cpp`, `Vizlet.cpp`, `CursorBehaviour.cpp`, `VizBrush.cpp` |
| `MCCursors` | instances of it | |
| `SocketServer` | the HTTP server's list of sockets, its wait, sending, peers | `VizSocket.cpp/.h`, `VizHttpServer.cpp` |
| `MCSocketServer` | an instance of it | |
| `JsonCalls` | abstract: what `submitJson` promises its caller | |
| `ServerLife` | start and stop, frames, the three threads, the hand-off of requests | `VizServer.cpp`, `VizDaemon.cpp`, `VizScheduler.cpp`, `FFFF.cpp`, `VizOscManager.cpp` |
| `MCServerLife` | instances of it | |
| `SharedMem` | three buffers, header and mutex, the segment, tracker and readers | `VizServer.cpp`, `mmtt_sharedmem.h`, `UT_SharedMem.cpp` |
| `MCSharedMem` | an instance of it | |
| `Streams` | HTTP requests and SLIP messages out of pieces | `VizHttpServer.cpp`, `VizOscTcpInput.cpp`, `VizSocket.cpp` |
| `MCStreams` | an instance of it | |
| `EventListProofs` | lemmas on `EventList` | |
| `CursorNotesProofs` | no note is stuck, with one quantum | |
| `SchedEventListProofs` | the links are a sequence, and implement `EventQueue` | |
| `NetworkProofs` | theorems on `SocketServer` and `Streams` | |
| `SchedulerProofs`, `CursorsProofs`, `ServerLifeProofs`, `SharedMemProofs` | theorems on the modules they are named for | |

`Scheduler` and `CursorNotes` extend `EventList`; `Scheduler` instantiates
`Timeline`, `SchedEventList` instantiates `EventQueue`, `Cursors` instantiates
`CursorLife` and `ServerLife` instantiates `JsonCalls`, each with a refinement mapping. So a list is a sequence wherever its clients are modelled, and
`SchedEventList` shows once that the pointers are that sequence.

### Scheduler

State: `scheduled` and `queue` (`m_scheduled`, `m_queue`) as sequences of events;
`sched_lock`, `queue_lock`; `currentclick`; `pc` of every thread; `hand`, the
phrase that `DoEventAndDelete` will requeue, and `playing`, the message
`DoMidiMsgEvent` is about to send; `nevents`; `removal`, the arguments of a
`QueueRemoveBefore` between its two halves; `notesdown`; and `sounding`, what
sounds on the MIDI output (outside the program). An event has an id (the address
of its object), and two fields that the program does not have: `part`, which
tells the events that a looping phrase sheds from the phrase, and the history
variable `started`.

| Label of the callback | Code | Actions |
|---|---|---|
| `idle` | `Callback` has not been called | `AdvanceTime`, `SameClick` |
| `click` | click client, then `TryLockScheduled` | `ClickClient`, `TryLockScheduled` |
| `removing` | `QueueRemoveBefore` of a click client, between its two lists | `RemoveFromQueue` |
| `due` | `while` over due events, `PopFirst`, `DoEventAndDelete` | `DoMidiMsg`, `DoMidiPhrase`, `LockQueue` |
| `play` | `DoMidiMsgEvent`, then requeueing of a phrase | `SendMidiMsg` |
| `move` | `_addQueueToScheduled`, unlocking, periodic ANO | `AddQueueToScheduled`, `UnlockScheduled` |
| `poll` | polling of MIDI input, merging, plugins that answer it | `PollMidiInput`, `PollDone` |

Granularity. What happens under the queue's lock is one step. `Schedule*` is two,
taking the lock and the rest, so that the callback's `TryLockScheduled` can fail.
`QueueRemoveBefore` takes no lock and is one step per list. Playing is a step of
its own because the queue's lock is taken and given back around it, so others
get between. `SetClicksPerSecond`, `ANO` and `ClearNotesDown` are a step each. What the callback itself calls, it calls from `click` (plugins that
advance, and cursors that go up or that `_checkSharedMem` moves, which queue and
remove) and from `poll` (`m_midiinput_client`, by which `VizLooper` echoes notes).

Data. A message is a unit: kind, note (channel and pitch), velocity. MIDI outputs
are one. Clicks are integers up to `MaxClick`; at the cap time goes on being
"later" (`AdvanceTime` is enabled for ever), so that liveness is not an artefact
of the cap. The percent of the fade stands for the double `m_loopfade`; the
rounding is the code's.

The refinement maps the pending events of `Timeline` to both lists and `hand` together,
and its `turn` to the callback's label (`Turn`, which counts `removing` as `click`): only so can it tell an event that somebody
cleared from one that the callback lost.

Two inputs are left out, because the program dereferences a NULL `mp` on them
(`VizSchedEvent.cpp:11`): a controller on a merged MIDI input, and a controller in
a looping phrase. The guards that exclude them say so.

### SchedEventList

`first`, `last`, `next`, `prev` are the pointers, `live` the allocated events, and
a deleting loop stands at `loop.e` between two iterations. `Spec` runs every
operation under the lock, as the comments of the code assume; `UnlockedSpec`
lets the other threads' one-step operations come between the iterations of
`DeleteAllBefore`, as they may in `QueueRemoveBefore`. The step of a loop counts
as atomic; finer tearing of the links is not modelled, and not needed to show
the defect.

### CursorNotes

Composes `Scheduler` (with no other callers) with cursors. `_setCursor` brings a cursor
down, moves it, drags it to another pitch, and so calls `QueueRemoveBefore` and queues
a note-on for the next multiple of the quantum. Two threads run it (`Setters`): the network
thread at any time, the callback in its click client, from the shared memory; the callback
also lets cursors up there. Pitch and quantum stand for the position. The cursors' lock
is held over the three steps of a note-on, `setting` says where its holder is, and
`_checkCursorUp` needs it (`TryLockCursors`). The callback leaves its client
only when its `_setCursor` has returned (`ClientReturned`). A new event gets some free
address, always the same one for the same free ones (`NewId`): events are told apart by their
addresses, and nothing depends on which they are. Within one click the code
looks into the shared memory first and lets cursors up then; the model has any order.
Looping is off.

### Cursors

State: `cursors` (`m_cursors`) by cursor id, `next_cursorid`; `sid`, `source` and
`age` of each cursor, the age being the time since `m_lasttouchedInSeconds`, which
stops just above `Timeout` because all later ages are alike; `cursors_lock`; where
the network and the timer thread are; `tracked`, the `m_cursors` of each brush;
`pending`, the brush whose note-off is in the cursor's `m_pending_noteoff`; and the
history variable `owed`, the note-ons each brush has begun for a cursor and not ended.

| Label | Code | Actions |
|---|---|---|
| `idle` (network) | between messages | `OscSet`, `OscAlive` |
| `touch` | `_touchCursorSid` after `_getCursor` has unlocked | `Touch` |
| `idle` (timer) | `_advanceClickTo` is called | `CheckSharedMem` |
| `outlines` | `_processCursorsFromBuff`, then `TryLockCursors` | `ProcessOutline`, `TryLockCursors` |
| `set` (both) | `_setCursor` with the lock | `NewCursor`, `DragCursor` |
| `check` | `_checkCursorUp`, one iteration a step | `CursorUp`, `CursorStays`, `CheckDone` |

The callbacks of all brushes are part of the step that calls them, under the lock
and in the order of their map (`LastOf`): each brush does what
`VizBrush::processCursor` does with `_trackCursors` and `_genNormalMidi`. `Touch`
writes through a pointer that may be stale: then it hits free memory, or a cursor
allocated later. `SetEnableInput`, `SetSidrange` and `SetMidiParams` are the host and the JSON API,
which take no lock on the cursors. `normal` says whether a brush makes held notes:
`_cursorMidi` returns if there are no parameters, as after a file that could not be read,
and makes phrases, each of which ends its own notes, if they say `arpeggiate`. `Players` are the
brushes that hear a session and make held notes. A lost message is one that does not come; a
late or repeated one is one that comes again. No callback throws (a hazard of its own).

### SocketServer

`VizHttpServer::Check` on the network thread, its `VizSocket`, and the peers. `list` is
`mk_Data`, of which the first listens; `connected` is `E_Connected`; `wait_index` is
`mu32_WaitIndex`. A connection has its handle, `b_Closed`, `b_Shutdown`, and `rest`, the
pieces in `s8_SendBuf`. The others are the system's and the peers' state: `open` handles,
the network events on `record`, `gone` peers, sockets that are `blocked` until FD_WRITE;
and the history variables `expects`, how many pieces of its last message a peer has yet
to get, and `torn`, whether it got pieces of two messages mixed.

| Label | Code | Actions |
|---|---|---|
| `loop` | `ProcessEvents` up to the search for an event | `RemoveClosed`, `Wait` |
| `wait` | `WSAWaitForMultipleEvents` | `WakeUp` |
| `event` | the event of `list[wait_index]` | `Accept`, `Serve`, `ServeFails` |
| `check` | `Check` with data that was read | `Unfinished`, `Respond`, `Upgrade` |
| `hello` | `InitializeWebSocket`, between its two messages | `Hello` |

The peers (`Call`, `PeerWrites`, `PeerReads`, `PeerGoes`) come between any two of these.
A closed handle may be given to a new connection at once. A message has pieces: `SendTo`
sends some, and buffers the others if the system takes no more. `RespondToGetOrPost`
with `DisconnectClient` behind it is `Respond`. What a request says, and whether it is
complete, is a choice. `h_ExitTimer`, which `SendTo` sets, only makes the search go on
at event 1, where it is in turn.

This is the 32-bit build: the 64-bit one passes no `AcceptCondition` and follows the 0
that `Add` returns when the list is full (`VizSocket.cpp:495`). Left out besides: the lock
between threads, `ConnectTo`, system calls that fail for lack of resources, an error in
sending behind a good read in one event (it deletes the buffer that `Check` then
reads), and `_WebSocket_Clients`, which only `SendAllWebSocketClients` walks; nothing in
the repository calls that.

### ServerLife

Three threads by their labels: `main` (`VizServer::Start` inside `new VizDaemon`,
`StartMidi`, frames, `VizServer::Stop`), `net` (`network_input_threadfunc` with its two
`Check`s, a request, `submitJson`) and `timer` (`VizScheduler::Callback`). The objects
that one thread deletes and another uses are "live", "freed" or "null": `delete` and the
assignment of NULL are two steps, and between them a test for NULL passes. What is used
after it was freed may go well or end the process (`UseAfterFree`).

| Place | Code | Actions |
|---|---|---|
| `main` | start | `NewDaemon`, `PtStart`, `StartMidi`, `AddFFFFCallback` |
| | a frame | `LockJson`, `ExecuteJson`, `UnlockJson`, `Draw` |
| | stop | `PtStop`, `SchedulerStopped`, `DeleteScheduler`, `DeleteDaemon`, `HttpIsGone`, `DeleteOsc`, `ShutDaemonDown`, `Join`, `DeleteProcessors` |
| `net` | a round | `NetTop`, `NetHttp`, `NetOsc`, `NetCheck`, `NetRequest`, `NetScheduled` |
| | `submitJson` | `Submit`, `CondWait`, `WakeUp`, `TakeResult`, `ReturnResult` |
| `timer` | `Callback` | `Callback`, `AdvanceTime`, `EventsDone` |

The hand-off has `_json_mutex`, the condition variable (`signaled`, and wake-ups for no
reason), `m_json_pending`, the request and its result; `ran` and `answer` are history.
A result is named by the request whose execution it is of. Failures of the constructor
of the daemon, of `StartMidi` and of a frame end the process (`Exit`). `timeKillEvent` does
not wait for a call that is under way. Left out: the 100 ms that the network thread sleeps
at first and between rounds, what requests do, and `SetShouldBeShutdown` of `m_oscinput`,
which nothing calls.

### SharedMem

The segment that a tracker creates and `VizServer::_checkSharedMem` reads: `holders` (who
has it open), `detach` (the owner has closed), `mutex`, the header, and for each of the
three buffers `buff_inuse` and its `content`, a frame's number or 0 while it is written.
A reader is a program with a `VizServer`: `OpenOutlines`, `LockOutlines`, then under the mutex
`WrongVersion`, `NothingNew`, `TooOld` or `TakeFrame` with `ProcessCursors` behind it. `Rotate` is
the exchange of the buffers in the reader. The tracker's code is not in the repository; its
steps (`CreateSharedMem`, `InitHeader`, `GrabUnusedBuffer`, `Publish`, closing, crashing) are those
the header and the reader are written for, and are marked external. It may stop at any
step and start again.

Assumed of the tracker: it fills a buffer without the mutex and publishes it with it,
`seqnum` is below 0 until the first frame, and a number does not come again after a
restart. Left out: resizing, a mutex that is not had within 5 s (the result of `lock` is
not looked at), failing system calls.

### Streams

What `VizHttpServer` and `VizOscTcpInput` make of the bytes they read. The latter is in the
source but does not run: `VizOscManager` sets `m_tcp` to NULL and has its construction commented
out (`VizOscManager.cpp:17-18`), so OSC comes by UDP only. The model of it says what the class
does, and what would be had by constructing it. A stream is a sequence
of tokens: bytes for SLIP, words and ends of lines for HTTP.

The peer. It sends one line, one token of data or one byte of a message at a time (`SendLine`,
`SendData`, `SendMore`, and `SlipBegin`, `SlipSend`, `SlipEnd`, which are `SendToSLIPServer`);
`wire` is all it has sent, `sent` and `ends` say what the lines or messages were and where on
the wire they end. Peers keep to the protocols; they end lines with CR NL or NL, and may send
an end of line behind the data of a POST.

The thread. `HttpRead` and `OscRead` take any number of the next tokens (FD_READ) while the
peer goes on sending. The loops over what came take one step each time round: `PullLine` is
`CollectHttpRequest`'s loop with `CollectHttpHeader` and `CollectPostData`, and `Collected` is
what `Check` does then, which answers and disconnects, or upgrades; `ProcessOneOscMessage` finds
the next message with `SlipBoundaries`, `Unescape` takes one byte or one escape from it, and
`ProcessReceivedPacket` hands it on and drops its bytes. `step` is where the thread is, and
`taken` how much of the wire it has read. `NextPeer` is another peer in the same place of the
list, whenever the thread waits and whatever the one before has left; `cList::Add` clears the
place. What the client of a web socket sends later is left out, and what `Check` sends comes in
`SocketServer`.

`RequestsWhole` and `MessagesWhole` compare what was answered or processed with what was
`sent`: each once, as it was sent, not before its last token was read, and not later than the
next wait.

## Runs

| Run | Checks | Distinct states |
|---|---|---|
| `scheduler_all` | `TypeOK`, `Exclusion`, `StartedIsScheduled`, `ListsTimeOrdered`, `EachEventOnce`, `ClearStopsPlayback`, `NothingJoinsPass`, `ImplementsTimeline` | 1 438 166 |
| `scheduler_live` | `QueueDrains`, `DueIsDone`, `LocksComeFree` | 87 485 |
| `list_links` | `TypeOK`, `CheckSanity`, `LoopEventIsLive`, `ImplementsEventQueue` | about 91 000 |
| `notes` | `NoStuckNote`, `NotesEnd` | 237 648 |
| `cursors` | `CursorsTypeOK`, `TrackedAreLive`, `NotesReleased`, `ImplementsCursorLife`, `AbandonedGoesUp`, `TimerReturns` | 232 508 |
| `sockets` | `SocketsTypeOK`, `EverySocketOnce`, `ConnectedIsTrue`, `WholeMessages`, `GoneIsRemoved`, `RestIsSent` | 311 123 |
| `server` | `ListenersOutliveNetwork`, `PendingHasCaller`, `ImplementsCalls`, `AnsweredWhileDrawn`, `StopEnds` | 29 631 |
| `shared_mem` | `AlwaysAFreeBuffer`, `NewestWholeFrame`, `NewIsTaken`, `ClosedComesBack` | 105 837 |
| `streams` | `RequestsWhole`, `MessagesWhole` | 1 154 421 |
| `list_unlocked` | `LoopEventIsLive`, violated | |
| `notes_two_quants` | `NoStuckNote`, violated | |
| `server_shutdown` | `SubmittedIsAnswered`, violated | |

Run one with `tlc -workers 2 -config notes.cfg MCCursorNotes`.

Bounds, and why they are enough:

- `EventIds` bounds the live objects, not how many events there are over time: ids are
  used again. `scheduler_all` has two with all ten operations. A looping phrase of three
  units sheds an event that is in the lists with the rest of the phrase and with
  another event: three events, the fewest at which two have an order around a third.
- `MaxClick` 1 in that run: an event is due, not due, or (looping and phrases
  add to the click) later than every click; the order of the lists needs no more.
- One caller besides the callback: the callback's click client queues as well,
  and callers meet each other only under the locks. The proofs are for any number.
- The fade is 25 %: a loop has three repetitions (velocities 64, 16, 4) and the
  last one is below `MIN_VELOCITY`.
- `notes`: `MaxClick` 4 is two quanta of two clicks, so a cursor can go down, be
  dragged and go up within one quantum or across two; nothing is queued that could
  not be played before the cap, and the callback sets a cursor only if what it
  queues fits (`HasRoom`), as it could not return from its client otherwise.
  Two cursors, two pitches.
- `list_links`: three events reach every branch of insertion and deletion.
- `cursors`: two session ids, each with both sources, and two cursors over time
  (`MaxCursor`): both can live at once, or the second comes after the first has gone,
  so that a stale pointer has both outcomes; of two brushes one
  hears both sessions and one the second, so that the sessions have one brush and two,
  as a pipeline's plugins may share theirs; `Timeout` 1, with ages 0 (fresh), 1 (not due) and 2 (due). The host
  changes one brush (`MaxChanges` 1), at any time.
- `sockets`: a limit of three sockets, so that one listens, two are connected and a third
  peer is refused; three handles, one more than can be open, so that a new connection gets
  a handle that was closed or a fresh one; messages of one or two pieces (`MaxPieces`), so
  that all, a part or none is sent at once.
- `server`: two requests for the host, so that one can follow another, and one for the
  server itself; each comes over HTTP or OSC, at any time or never.
- `shared_mem`: two readers, the fewest that can take a frame from each other; three frames
  are one displayed last, one to be displayed next, one being constructed.
- `streams`: headers of at most five lines and bodies of at most two tokens, an end of line
  among them, so that each header a method looks at comes in any order; two OSC messages of one
  to three bytes, with all bytes that SLIP escapes. That reaches every cut of a stream within
  an escape, a line or a body, and every pair of bytes next to each other and to an END.

Symmetry is over event ids, cursors and callers, and only in runs without
liveness properties.

Deadlock is checked in all of them but `server` and `server_shutdown`, where the program
ends (`stopped`, `exit`).

Fairness. `SF(AdvanceTime)`: the timer keeps calling (PortTime is periodic) and
it is not always at the same click; strong, because a call at the same click
disables it for a while. `SF(TryLockScheduled)`: click clients make finitely many calls and
return; strong, because a `QueueRemoveBefore` of theirs disables it for a while.
`WF(WithinCallback)`: a callback that runs goes on.
`WF(WithinCall(t))`: a thread that has begun a call goes on. No caller has to call
and no MIDI input has to come. `QueueDrains` and `DueIsDone` assume
`LockGetsFree`: from some time on no caller holds the lock of "scheduled". Without
it they are false, and rightly: TryLock may meet a taken lock each time, and the
code gives up for that tick ("we just give up"). `LocksComeFree` needs no such
assumption: it says that nobody waits for a list for ever because its lock is kept, by the
callback, which takes one lock within the other and runs `ScheduleClear`'s code with its own
lock held, or by a caller. In `CursorNotes` the same holds of the callback and its client.

In `Cursors`: `WF(Elapse)`, time goes on; `WF` of the timer's next call and of both
threads' steps once begun; `SF(ProcessOutline)`, because a mutex that is free again
and again is got in the end by who waits for it. No message and no frame has to come.
`AbandonedGoesUp` assumes that `TryLockCursors` succeeds again and again, and says
that a cursor then either goes up for good or is touched again and again: for a
cursor with silent senders it is the former. It holds whatever the host does.

In `SocketServer`: `WF(ServerStep)`, the network thread calls `Check` again and again. No
peer has to do anything. `GoneIsRemoved` holds though the other peer writes all the time,
by the search in turn. `RestIsSent` assumes that the peer goes on reading, and leaves out
connections that were shut down (see below).

In `ServerLife`: `WF` of the main thread, of the network thread and of a callback that is
under way; `SF(Submit)` and `SF(Woken)`, because the main thread has `_json_mutex` only for a
moment of each frame and sleeps without it. No spurious wake-up and no request has to
come, and no window has to be closed. `StopEnds` leaves out that the network thread waits for a
frame (`server_shutdown`) and that `pthread_create` failed (`~VizDaemon` then waits for a thread
that does not exist, `VizDaemon.cpp:91`).

In `SharedMem`: `WF` of a reader, which checks at every click, `SF(LockOutlines)`, and
`WF(CreateSharedMem)`: a tracker that is to start tries until it can. It need not make
frames, and may crash. `NewIsTaken` says of each reader that it takes a new frame or the tracker has closed.

## What the runs found

- `list_unlocked`: `DeleteAllBefore` assumes the lock, `QueueRemoveBefore` does
  not take it (`VizScheduler.cpp:190`). The walk goes on from an event that the
  callback popped or deleted.
- `notes_two_quants`: the note-off is quantized to stay behind its note-on, but
  with the quantum of where the cursor is when it goes up. With a smaller one it
  comes first and the note sticks (`CursorBehaviour.cpp:487`).
- `server_shutdown`: the window is closed after the network thread has handed a request
  over. The main thread draws no frame any more, so the request is never executed; it waits
  in `~VizDaemon` for the network thread, which waits for the frame.

### Seen without a run

- `TrackedAreLive`, `NotesReleased` and `ImplementsCursorLife` say something only as long as
  the host has left the brushes alone (`HostWasQuiet`); without that condition TLC violates
  them. A brush that is disabled, disconnected or given other session ids or parameters
  while a cursor is down does not hear of its up, or makes nothing of it (`Vizlet.cpp:326`), keeps the pointer to the deleted
  cursor and reads it in `_genControlMidi`.
- `NotesReleased` says exactly when a note is left over: a cursor has one pending note-off
  for all brushes, so where two that share its session id both play, as FFFF lets the plugins
  of a pipeline do, the second one replaces the first one's, whose note never ends
  (`CursorBehaviour.cpp:416`). TLC and the proof have both sides of it: with two players there
  always is such a note, with one there never is.
- "If you hold a cursor down, the note will stay on until you release the cursor or move to
  a cursor position assigned to a different pitch" (`CursorBehaviour.cpp:432`): away from
  a pitch and back to it within a quantum, the old note's note-off comes after the new
  note-on too, and ends the note that is held (471).
- The events a looping phrase is turned into get the fade factor 0 and are never played
  (`VizScheduler.cpp:833`).
- `SetClicksPerSecond` computes the current click anew (`VizScheduler.cpp:951`): called
  while a cursor is down it may set time back. With this operation in `notes`, TLC finds a
  note-off that is queued for an earlier click than its note-on: the note sticks.
- `UseAfterFree` in `ServerLife`: `timeKillEvent` does not wait for a callback, so a callback
  may be in a scheduler that `VizServer::Stop` has deleted. `StopEnds` counts a process that
  ends of it as ended; that it does not happen is not true.
- `RestIsSent` leaves out connections that were shut down, and TLC violates it otherwise.
  `Check` calls `DisconnectClient` right behind `RespondToGetOrPost`; if `SendTo` could send
  only a part of the answer, all events of the socket but FD_CLOSE are dropped from then
  on (`VizSocket.cpp:464`), FD_WRITE too, and the rest that "will be sent when FD_WRITE
  becomes signaled" (`VizSocket.cpp:908`) never is. A long answer to a slow client is cut.
- A tracker that crashes leaves `detach` unset. A reader compares `seqnum` (`VizServer.cpp:1480`)
  before it looks at the time of the last update (1485): it sees nothing new, never finds
  the data too old, and keeps the segment open, so that a tracker that is started again
  gets ERROR_ALREADY_EXISTS. `ClosedComesBack` therefore speaks of a tracker that has
  closed; without that condition TLC violates it.
- `ClearCallbacksWithPrefix` (`VizServer.cpp:170`), which a pipeline that is cleared calls
  (`FFGLPipeline.h:220`), removes by `m_cb` what the map has by its handle: nothing is
  removed, and the loop, which ends when no callback with the prefix is left, goes on for
  ever unless the plugins have removed theirs before.

## Proofs

`tlapm SchedulerProofs.tla`, and so on for the modules below, checks them (they take some
minutes from nothing).

### The scheduler

These theorems assume only `ThreadsAssumption` (the threads are distinct) and
`DataAssumption` (phrases are ordered by click, as `MidiPhrase::insert` keeps
them; velocities are 7 bits; fades are percents).

| Theorem | For every value of the constants |
|---|---|
| `TypeCorrect` | `Spec => []TypeOK` |
| `TimeOrder` | `Spec => []ListsTimeOrdered` |
| `MutualExclusion` | `Spec => []Exclusion` |
| `StartedStaysScheduled` | `Spec => []StartedIsScheduled` |
| `ClearIsFinal` | `Spec => ClearStopsPlayback` |
| `PassesAreFinite` | `Spec => NothingJoinsPass` |
| `EventsAreInOnePlace` | `Spec => []EachEventOnce` |
| `SchedulerImplementsTimeline` | `Spec => ImplementsTimeline` |
| `LoopsFadeBelowNinety` | a loop's velocity falls at each repetition, whatever it is, just if the fade is below 90 % |

The argument. `TypeOK` is not inductive: `SendMidiMsg` sends `playing[1]`, so it
must be known that the callback plays something at the label `play`, and holds
nothing elsewhere (`HandsFull`); `TypeInv` is the two together. That a requeued
event is an event again needs that a faded velocity stays within 0..127
(`FadedVelocityType`) and that the rest of a phrase has a click no smaller
(`RestOfPhraseType`, from the order of its units). `PlaysOne` collects what
`DoMidiMsg` and `DoMidiPhrase` do to the lists; types, order and `NothingJoinsPass`
all use it. Order is kept by `InsertEventOrdered` and `WithoutOrdered`
(`EventListProofs`). `StartedIsScheduled` needs `NoneStartedInQueue`: what has begun
is in the queue only while the callback has the lock; it is carried by `Exclusion`
and the fact that the lock is given back only when the queue is empty. `ClearIsFinal`
then follows in one step: whoever clears has the lock, so the callback has not.

For the last two, `StepKinds` sorts the steps by what they do to the
events: one comes (`AddsEvent`), some go (`RemovesEvents`), one moves between the lists or
none does (`MovesEvents`), or the callback does the head of `scheduled` (`DoesHead`), which it
plays, plays and repeats, or lets fade out. `EachEventOnce` is not inductive: a phrase sheds
parts that keep its id, and a part's number is the length the phrase had when it was shed.
`PartsShrink` says that a phrase is shorter than the number of every part with its id, so the
next part is new. A loop that fades out clears the events of its cursor, and Timeline
speaks of the events of a cursor only: `LoopsHaveCursor` says a looping event has one.
`CallsAreOffered` says that who is within `QueueRemoveBefore` or `ScheduleClear`, the callback's
clients included, was allowed to begin it, which Timeline's `Clear` asks for. Each kind of step is then one of Timeline's,
or a stutter.

### The list

They assume `ListAssumption`: the addresses are finitely many and NULL is none, clicks are
numbers. `ListTypes` says that the list holds what is allocated and not popped. `Spec` is the list under its lock (`list_unlocked` shows what happens without).

| Theorem | For every value of the constants |
|---|---|
| `ListTypes` | `Spec => []TypeOK` |
| `ListIsSane` | `Spec => []CheckSanity` |
| `LoopsStayOnLiveEvents` | `Spec => []LoopEventIsLive` |
| `ListImplementsEventQueue` | `Spec => ImplementsEventQueue` |

The argument. `Represents(s, k)` says that the links are the sequence `s`, from `m_first` to
NULL and back (`IsChain`), and that a deleting loop is at its position `k` (`LoopAt`): what
`DeleteAll` has passed is deleted but linked, what the others have passed was spared. That
some `s` and `k` do is the inductive invariant (`ListInv`). `Splices` and `Cuts` say which four
pointers have to change for `s` to gain or lose an element, and the four cases of InsertEvent
and the three of unlinking change just these. `Reached`, the traversal, is a recursive
function, which the prover cannot unfold; `ChainIsContents` shows that it follows the
chain by the least position where it would not (`Least`, from the well-founded inclusion of
finite sets). For the refinement, the position InsertEvent comes to is the only one behind
what is not later and in front of what is (`InsertPositionUnique`), and there is only one way
of leaving positions out (`PicksUnique`), so that what a loop has still to delete stays the
same when it deletes one (`WithoutRemoved`): its iterations are stutters of EventQueue.

### The notes

| Theorem | For every value of the constants |
|---|---|
| `NoNoteIsStuck` | one quantum, no merged input: `NotesSpec => []NoStuckNote` |

It assumes `NotesAssumption` (a quantum is positive, the cursors' velocity makes a note-on,
only cursors use the scheduler) besides the scheduler's assumptions, and has two conditions of
its own. `SingleQuant`: with two quanta the property is false (`notes_two_quants`). `~ MidiMerge`:
what plays on a MIDI input may end, or not end, what it likes.

The argument. That there is silence at the end says nothing of the steps before, so the
invariant (`NotesInv`) says of every note-on on its way that a note-off of the same cursor and
note is behind it, in its list or in the one that is played later, and not earlier by its click
(`OnsEnd`); or its cursor still holds the note, and every note-on of that cursor has a click no
later than its `noteon_click` (`OnsNotLater`). A note that sounds has a note-off on its way, or
is held (`EndsIn`). Four facts keep this. `DeleteAllBefore` spares note-offs, and leaves what it
spares in order (`OffsAreSpared`, `OnsEndDelete`). InsertEvent puts an event behind those with
its click, so a note-off that comes later ends up behind its note-on although both have the same
click (`OnsEndInsert`); the head of the queue is moved in front of its note-off or
behind its note-on (`EndsMoved`). The note-off of a drag is later than the last
note-on by definition; that of a cursor that goes up is not earlier because time does not
go back and quantizing keeps the order of times, for one quantum (`QuantizeLater`, `ClocksOK`:
this is where two quanta fail). And while `_setCursor` is between its steps, with the cursors
locked, the cursor holds nothing: the note-off of its old note has been sent (`Holds`); if it is
the callback that sets it, the callback is in its client, so no event moves meanwhile
(`InClient`). TLC
checked `NotesInv` on the instance of `notes` first.

### The cursors

They assume `CursorsAssumption` (the threads are distinct, the bounds are numbers); the regions
of the brushes are any sets of session ids, shared ones included. The last three
properties carry the condition `HostWasQuiet` themselves.

| Theorem | For every value of the constants |
|---|---|
| `CursorsTypeCorrect` | `CursorsSpec => []CursorsTypeOK` |
| `OneCursorPerSession` | `CursorsSpec => []UniqueSessions` |
| `FollowedExist` | `CursorsSpec => []TrackedAreLive` |
| `NotesAreReleased` | `CursorsSpec => []NotesReleased` |
| `CursorsImplementCursorLife` | `CursorsSpec => ImplementsCursorLife` |

The argument. `StepKinds` sorts every step: a cursor comes, is dragged, goes up, or
nothing happens to cursors and brushes. The type invariant needs that live ids are
below `next_cursorid` (so that a new one is new) and that a pending note-off belongs
to a note that was begun (so that `owed` does not fall below 0). `Following` is the
heart: until the host changes a brush `tracked[b]` is exactly the set of live cursors in the
region of `b`, because the up of a cursor reaches just the brushes that its down
reached. `TrackedAreLive` and the `Up` step of the refinement follow from it. `NotesOwed`
is `NotesReleased` made inductive: a live cursor with one player is owed one
note-off, by the brush whose note-off it keeps (`LiveOwed`); one with several players is owed
two at least, by a brush besides or by a brush twice (`TwoOwed`), since each drag that ends one note
begins another; and its up ends just one.

### The sockets

They assume `SocketsAssumption`: the listening socket's handle is no peer's, the limit is
at least 1.

| Theorem | For every value of the constants |
|---|---|
| `SocketsTypeCorrect` | `SocketsSpec => []SocketsTypeOK` |
| `SocketsAreListedOnce` | `SocketsSpec => []EverySocketOnce` |
| `ConnectedWhilePeers` | `SocketsSpec => []ConnectedIsTrue` |
| `MessagesAreWhole` | `SocketsSpec => []WholeMessages` |

The argument. The invariants hold together (`SocketsInv`): that `SendRest` leaves
`expects` a number rests on `WholeMessages`; that the connection which is served has a
peer's handle rests on `EverySocketOnce` and on `EventInList` (the event is one of the
list's, and not the listening socket's once data was read); that a new connection starts
with nothing expected rests on `ClosedIsForgotten`. `RemoveKeeps` is the move into the gap,
`SendToKeeps` and `ServeKeeps` are sending; both use `SameSockets`, that a connection
which is put back with its handle leaves the list's handles alone.

### What is read from the sockets

They assume `StreamsAssumption`: content-length headers are told from the other words, and
have numbers. The three bounds are any numbers, so that headers, data and messages have any
length.

| Theorem | For every value of the constants |
|---|---|
| `StreamsMessagesWhole` | `StreamsSpec => []MessagesWhole` |
| `StreamsRequestsWhole` | `StreamsSpec => []RequestsWhole` |

The argument. `StreamsInv` has three parts. `PeerInv` says of the wire what the peer has put
there: the ends rise, line `k` is between end `k - 1` and end `k` with its only NL last
(`RequestOnWire`), and so is message `k`, with positions `at[j]` where each of its bytes, or its
escape, begins (`MessageAt`, `Positions`). Peers only append, so nothing of it changes
(`SentMessagesStay`, `LineStays`). The second part says where the thread is: so many lines or
messages are used, and *the buffer is the slice of the wire from the end of the last of them to*
`taken`. This makes every property of a buffer one of the wire, whatever the pieces were
(`LineInBuffer`, `ByteInBuffer`). The third says what it has made of them: `Fields`, what a
connection knows after `k` lines, and `Unescaping`, that the bytes in `m_oscmsg` are the first
of the message and `p` is where its next one begins.

The heart of SLIP is that an END within a message always has an ESC in front of it, and the
END that ends it never has: the sender writes ESC as the pair ESC ESC2, so no message ends in
ESC on the wire. So the first END without an ESC in the buffer, its first byte aside, is the
end of the next message, or there is none and the message is not complete (`SlipBuffer`,
`NoBoundaries`); without the pair, `SlipBoundaries` would go past an END. For requests the three
phases `InHeader`, `InData` and `Answered` follow each other; `Complete` is false in the first
two when the thread waits, because no NL is left in the buffer (`NoLine`), or less data than
declared. Data is not looked at for NL: the buffer goes to `CollectPostData` whole.

No length is a variable of an induction here: a step adds one line, byte or message to what
the invariant has, which is why the loops are steps of the model and not recursive operators.
TLC checked `StreamsInv` on the instance of `streams` first.

### The server's life

They assume `LifeAssumption`: the requests for the host are among the requests.

| Theorem | For every value of the constants |
|---|---|
| `LifeTypeCorrect` | `LifeSpec => []LifeTypeOK` |
| `ListenersAreLast` | `LifeSpec => []ListenersOutliveNetwork` |
| `PendingIsWaitedFor` | `LifeSpec => []PendingHasCaller` |
| `HandOffImplementsCalls` | `LifeSpec => ImplementsCalls` |

The argument. All are conjuncts of `LifeInv`, or follow from it. `ran` stays within 0..1
only because a request is executed while it is pending, and is pending once (`HandOffInv`,
which also says whose result is in `m_json_result`). That `m_json_params` has a caller rests
on `RequestInv`: the network thread has a request just while it is at one. The listeners
go last because the main thread comes to `processors` through `Join`, or because no thread was
created (`ThreadInv`, `StopInv`). `StepKinds` sorts the steps; those that leave the hand-off
alone (`Untouched`) are stutters of `JsonCalls`, and `Submit`, `ExecuteJson` and `ReturnResult`
are its `Call`, `Execute` and `Answer`.

### The shared memory

They assume `SharedMemAssumption` (tracker and readers are distinct), and hold for any
number of readers and frames.

| Theorem | For every value of the constants |
|---|---|
| `ShmTypeCorrect` | `ShmSpec => []ShmTypeOK` |
| `ThreeBuffersAreEnough` | `ShmSpec => []AlwaysAFreeBuffer` |
| `ReadersSeeTheNewestFrame` | `ShmSpec => []NewestWholeFrame` |

The argument. `BuffersInv` is that a buffer is in use just while it has one of three roles, and
one role at most. A tracker that looks for a buffer has none under construction, so two
are in use at most: there is a free one. `ContentInv` is that, once a frame was published,
the buffer that would be displayed (`Displayed`: the next one, or else the last one) is whole
and the newest; `GrabUnusedBuffer` cannot take it, as it is in use. `NewestWholeFrame` is of the
buffer that a reader *has* displayed, so it also needs the mutex (`MutexInv`): nobody
else publishes or rotates while it reads.

### What is not proved

Every invariant that a passing run checks is proved, and so are the refinements and the two
action properties of the scheduler. Only model-checked: liveness (`QueueDrains`, `DueIsDone`,
`LocksComeFree`, `NotesEnd`, `AbandonedGoesUp`, `TimerReturns`, `GoneIsRemoved`, `RestIsSent`,
`AnsweredWhileDrawn`, `StopEnds`, `NewIsTaken`, `ClosedComesBack`), which the prover does not
do: ENABLED and fairness are out of its reach. Induction over data is, too; what loops do is
proved where the model takes a step for each iteration. `NoStuckNote` is proved for one
quantum; for two it is false.

## Not modelled

- Parsing and printing (MIDI bytes, JSON, the contents of OSC packets) and the MIDI file
  reader: sequential, no state is left behind.
- The maps of callbacks in `VizServer`: the callback and the network thread walk them while
  render threads change them, without a lock. That is a data race with no defined outcome,
  so nothing could be said of them; it is listed as a hazard.
- The methods of the JSON API, most of which set or read one parameter, and parameters.
- Sprites and drawing; the list of sprites has a lock that all its operations take.
- The maze and life engines: sequential, for the display.
- Loading of plugins and pipelines in the host: one thread, bound to OpenGL and DLLs.
- The HTTP client and Bonjour, which are thin wrappers.
- In `CursorNotes`: looping, controllers, arpeggiated notes; the values of the parameters.
- What `VizOscUdpInput` reads: a packet is a message.

`src/other` is vendored, and most of the repository's lines; PortTime appears only as the
periodic caller. `ScheduleMidiMsg` exists in the code without callers and is modelled all
the same.

## Plan

Done: the list, the scheduler, its abstract timeline, notes of cursors, the server's
cursors and their abstract life, the HTTP server's sockets, requests and SLIP messages, the
shared memory, the server's life and its hand-off of requests.

Every invariant and refinement that a passing run checks is proved. Next would be `CursorNotes` with
looping and arpeggiated notes, and the callback maps once they have a lock.
