# sonic-bridge in TLA+

Specifications, model-checking runs and proofs for
[sonic-bridge](../src/README.md), live one-to-many audio: a *source* captures
audio and streams it over TCP to the *relay*, which fans it out to *listeners*,
browsers on a WebSocket and media players on an endless WAV file.

    Module           Models                                             Proofs about it
    Queue.tla        internal/queue: Offer against its reader           EncodeProofs.tla
    Stream.tla       internal/stream: one source, many listeners        StreamProofs.tla
    Ingest.tla       internal/relay/ingest.go: TCP sources              StreamProofs.tla
                     (EXTENDS Stream)
    Stats.tla        internal/relay/status.go: /stats                   StreamProofs.tla
                     (EXTENDS Ingest)
    WebSocket.tla    internal/relay/deliver.go: /listen                 WebSocketProofs.tla
                     (EXTENDS Ingest)
    Delivery.tla     what a /listen client is promised (abstract)
    Wav.tla          internal/relay/deliver.go: /stream.wav             WavProofs.tla
                     (EXTENDS Ingest)
    Gate.tla         internal/audio/activity.go: suppression            EncodeProofs.tla
    SourceLink.tla   a source's TCP connection, from the relay's end    SourceLinkProofs.tla
    Console.tla      internal/source: the console's goroutines          ConsoleProofs.tla
                     (EXTENDS SourceLink)
    Esp32.tla        esp32/src/main.cpp: the firmware's tasks           Esp32Proofs.tla
                     (EXTENDS SourceLink)
    SourceWire.tla   what the relay hears from either (abstract)
    Player.tla       relay/web/index.html: the page's callbacks         PlayerProofs.tla
    Playback.tla     relay/web/playback-processor.js: the jitter buffer PlayerProofs.tla

Every `X.cfg` is the instance of `X.tla` that TLC checks (`Ingest`'s properties
are checked with those of `Stats`, in `Stats.cfg`); `QueueDiscard.cfg` and
`PlayerSilent.cfg` are second runs of `Queue` and `Player`, and are findings.
The modules meet at what one promises the next: a source keeps to `SourceWire`,
which `Ingest` accepts; `Ingest` feeds `Stream`; `WebSocket` keeps to
`Delivery`, whose messages `Player` is sent; and `Playback` relies on positions
that advance, as `Ingest` shows they do.

`PROJECT.json` maps each definition to the lines it models and lists the runs,
the hazards and the theorems.

## 1. The system

### Components

| Component | State it keeps | Operations | What makes it correct |
| --- | --- | --- | --- |
| `internal/queue` | a buffered Go channel | `Offer`: three non-blocking selects | never blocks; drops the oldest only; nothing vanishes unreported |
| `internal/stream` | the live source's format, the state new listeners get, listeners and their queues, counters; one RWMutex | acquire, release, publish, attach, detach, deliver | one source at a time; sessions reach listeners in order; no send on a closed channel; a slow listener hurts nobody else |
| relay ingest | one goroutine per TCP connection, its deadline, `nextPosition` | accept, read header, claim, read records or frames, release | the stream is released when and only when its holder ends; positions advance |
| relay, `/listen` | per client: announced format and epoch | announce, send, "waiting", refuse, ping | the client is never sent anything it would decode wrongly; it catches up; it is detached when gone |
| relay, `/stream.wav` | per request: first packet, quiet, ticker | wait, header, frames, zeros | one session per file, zeros only for declared silence, ends with its session |
| relay, `/stats` | none; reads the relay's counters one by one | report | what it reports adds up |
| relay lifecycle, static files | two servers under one context | run, shut down | both end when one does |
| activity gate | a delay line, a detector's counters | push a frame | lead-in complete, positions continuous |
| console | two bounded queues, connection, quiet/heartbeat state | capture, encode, transmit, reconnect | capture never blocks; the relay always learns live/quiet; no backlog after a reconnect |
| ESP32 firmware | a FreeRTOS queue, two tasks | same as the console | same |
| player page | AudioContext, socket, format, promise chain | start, stop, apply format, play, reconnect | one socket and one graph at a time |
| player worklet | ring buffer, positions, quiet | receive, append, process | gaps, silence and tails told apart |
| codecs and formats | none | mu-law, header, WAV header | inverse up to quantisation, bounds |

### How they interact

A source's goroutine calls the stream (`acquire`, `PublishRecord`,
`ReleaseSource`) and, inside those calls and under `Stream.mu`, offers packets
to each listener's queue with `queue.Offer`. A listener's goroutine receives
from its queue *without* the lock and writes to its client; it takes the lock
only to attach and detach. So three kinds of goroutine meet at a queue: the lock
holder between two selects of `Offer`, the reader, and whoever waits to
detach. Nothing flows back: a listener that falls behind is only noticed by its
count of drops.

### What is hard

* the reader runs between the selects of `Offer`, and the loop over listeners
  is not atomic with respect to readers;
* a full queue may drop any packet, also those that begin, silence or end a
  session;
* packets of ended sessions are still queued while the next session runs, in
  another format or the same;
* a source may die without closing; a client may vanish without closing;
* delivery to a client takes several writes that fail independently;
* silence is not sent, so "nothing arrives" has several meanings;
* a source captures on while it dials, and what it then discards may be the
  only record that told of a change;
* the page's functions await in the middle, and anything may be pressed, closed
  or announced meanwhile.

The full list is `hazards` in `PROJECT.json`, each at its line, with the
properties that would catch it.

## 2. The models

Names are the code's where the code has a name. Operators commented as
"mutated" are broken variants of the definition they precede; nothing in a
specification uses them. They document which mistake each property catches.

### Queue

One producer inside `Offer`, one reader. `select` is the select statement to
run next; a call is `OfferSend`, or `OfferFull`, `OfferEvict`, `OfferResend`,
with `Receive` possible between any two. Items are numbered as offered. One
producer per channel is what all callers have: the stream offers under its
mutex, each capture stage is one goroutine.

*Run `queue`* (`Capacity` 3, 7 items). The capacity leaves room for empty,
partly filled and full, and more than twice as many items as places let a
queue overflow, drain and overflow again. `CHECK_DEADLOCK FALSE`, since the
producer stops after its last item.

* `WindowIsNewest`: the queue is always the newest items, contiguous, in order;
* `NewestSurvives`: after a call the item is in the queue or was received;
* `NothingVanishes`: received, queued or evicted. Its consequence is that the
  `default` of the third select is dead code for a single producer;
* `EveryDiscardIsReported`: false results never under-count discards (they may
  over-count: a full queue drained by the reader gives false without a loss);
* `OfferReturns`: a call returns even if the reader never runs again.

*Run `queue_discard`* is a finding: the comment on `Offer` says it discards "to
make room when the queue is full", but the reader may have made room after the
first select, and the second discards an item nevertheless. It does no harm to
the callers.

### Stream

What an operation does under the lock before its loop over the listeners is one
action; the loop is then run by `deliver`, one select of `queue.Offer` at a
time. The lock is held just while `todo` is not empty, and `Unlocked` guards
every operation that takes it. `Receive` needs no lock. A packet's frame is
represented by the format it was encoded in, which is what "stale frame" can be
told by.

`current` is the state for new listeners; `Published`, `Opened`, `Closed` build
the packets. Abstractions: positions and suppressed time count frames; a
listener's count of drops is kept as zero or not (`dropped`). Bounds:
`MaxEpoch` sessions, records up to `MaxPosition`, `MaxBroadcasts` broadcasts,
after which nothing is published but sessions may still open and close, so that
the run cannot end in the middle of a session for lack of steps.

*Run `stream`* (2 listeners, 2 formats, queues of 2, 2 sessions, 3 broadcasts):
two listeners so that the loop can be interrupted between them, two formats and
two sessions so that packets can be confused, three broadcasts so that a queue
of two overflows.

* `NoSendOnClosedChannel`: the loop never reaches a listener that detached;
* `ListenersLearnTheState`: the newest packet a listener has or will get is the
  state of the stream. Exception, and the code's intent: a legacy session is
  not announced before its first frame;
* `SessionsInOrder`: epochs grow, nothing but "waiting" follows "waiting" within
  one, and its format does not change;
* `GapsAreCounted`: a listener with no counted drop has every frame of a legacy
  session since its first, and its end;
* `BroadcastEnds`: the loop ends whatever readers do.

### Ingest and Stats

Adds the goroutine of each TCP connection (`phase`) and the peer's death
(`PeerDies`): it stops sending and does not close. `ReadRecord` is the whole
round of `readTcpFrames`' loop up to the return of `PublishRecord`;
`CountIngress` follows without the lock. Every error path is `HeaderFails` or
`ReadFails`, the latter with the deferred `ReleaseSource`. `timeline` is a
history variable: time the sources declared, sent or suppressed. `HeaderRefused`
is the header that `ClaimSource` turns away: that handler must return without
releasing a stream it never owned.

`Stats` adds a request to `/stats`. `handleStats` reads `ingressAudioBytes`
early and `PublishedFrames` late; in between it takes the stream's lock twice, so
any number of frames may be published. `LoadIngress` and `Respond` are the two
reads, every step of `Ingest` may come between them, and `before` remembers what
was published at the first.

*Run `ingest`* (2 connections, 1 listener, 2 formats, queue of 2, 3 broadcasts,
one request at a time, any number of them): two connections so that one is
refused while the other holds the stream, and takes over later; three
broadcasts overflow the queue, and let two frames come between the reads of a
request.

* `SourceHasOneReader`: the stream's source is the one connection being read;
* `FramesMatchTheirFormat`: a frame's packet declares the frame's format;
* `PositionsAdvance`: along everything a listener receives of a session;
* `TimeIsCountedOnce`: published and suppressed time never exceed declared time;
* `StatsAddUp`: no response has more audio received than published, although
  the counts are read at different moments, nor does it lack more than the
  frame in flight of what was published when its reads began. Frames that are
  published between the reads are reported as published only, however many
  they are;
* `DeadSourceIsDropped`: a silent dead source loses the stream.

### Delivery and WebSocket

`Delivery` is what a client may rely on: sessions announced one by one, never
twice or out of order; each binary message belongs to the last announcement,
with growing positions in a sparse session; "waiting" ends a session; a version
1 client is sent nothing sparse. `WebSocket` adds the goroutine of each client
to `Ingest`, one write at a time, each of which may fail. `client` records what
was written. `PeerDies` is left out here: to a listener a dead source is a
pause.

*Run `websocket`* (1 connection, 1 client, 1 format, queue of 1, 2 sessions, 5
broadcasts). A queue of one makes every broadcast after the first drop
something, which is where announcements and payloads come apart; sessions of
the same format are the hard case for `packet.Format != announced ||
packet.Epoch != epoch`.

* `ProtocolKept`: `WebSocketSpec` implements `Delivery!Spec` (refinement; the
  mapping is the variable `client`);
* `DrainedClientKnows`: with an empty queue the client knows which session is
  on and where it is, or that there is none; of a legacy session, which nothing
  announces, it knows from the first frame on;
* `ClientsCatchUp`: once publishing pauses, every client gets to know the state
  or is cut off. While publishing goes on the code promises no such thing: a
  client that is slower than the source, and whose writes each succeed within
  the timeout, stays behind for as long as that lasts. In the run publishing
  always pauses, since `MaxBroadcasts` bounds it; what it shows is that no
  pattern of drops before the pause leaves a client with a state that is over;
* `GoneClientIsDetached`: pings notice a client that vanished.

### Wav

The goroutine of a `/stream.wav` request: `WaitForPacket` (`waitForPacket`),
then `pumpWav`'s two nested loops. `file` is the last audio frame written and
whether zeros follow it. The ticker may fire at any moment while it runs; its
pace is not modelled. Bounds as for `websocket`, with one position more, so
that a quiet gap lies between two frames.

* `FileIsOneSession`: every frame written is of the header's session and later
  than the last one;
* `ZerosAreDeclared`: the step that begins zeros follows a quiet record;
* `DrainedFileFollowsSource`: an open file with an empty queue is of the session
  that is on, and the ticker runs just if that session is quiet;
* `FileEnds`: a file of a session that ended is ended, also if "waiting" was
  dropped and the next session looks the same.

### Gate

`Push` of the gate, with the part of `Activity.Active` that decides when sound
has settled. What the filters make of the samples comes down to one input per
frame, whether it changed the background; the first frame always does. The ring
is modelled with its index and fill, positions in samples. `changes` and
`records` are history.

*Run `gate`* (3 frames of delay, frames of 2 samples, settling after 5, 11
frames; every sequence of changes). `Settle` is no multiple of the frame, so
that the comparison matters, and just longer than the line, which is the
tightest case the program accepts (`Run` of source.go rejects a shorter
one); eleven frames pass the line three times.

* `RecordsAreTheFrames`: what leaves are the frames pushed, in order, each once,
  at the position of its first sample, `Depth` frames late;
* `SoundIsSentAroundChanges`: sent are exactly the frames near a change, the
  lead-in before it and the settling period after. The code looks only at the two
  ends of the line, so this holds because `Settle` exceeds the line.

### SourceWire, SourceLink, Console and Esp32

`SourceWire` is what the relay may count on: on each connection positions grow,
and none was queued for transmission before the connection. Frames that at that
moment are still in the capture queue or in the gate's delay line become records
later, and may be sent. `SourceLink` is the relay's end: whether
the connection is open, the last record and how long ago it came. Time passes in
frames. A relay that closes is noticed by a write that fails, sooner or later.

`Console` has the three goroutines of `Run`. Capture's queue is a number, as its
frames are alike until `encode` numbers them. While the gate's delay line fills
`encode` has nothing to offer (`FillLine`); from then on each frame gives a
record (`Push`). The queue of records is offered to
in two steps, since `transmit` receives in between. `transmit` dials, discards
what was queued meanwhile, selects, skips or takes, and writes; `waited` is how
long a blocking call has lasted, which `WriteTimeout` and `ReconnectDelay` end.
`Skip` is the coalescing of quiet records up to the heartbeat.

*Run `console`* (queues of 2, a line of 2, heartbeat 2, timeout 2, delay 1, 5
records) and *run `esp32`* (the same, 6 records). A queue of two can be empty,
partly filled and full, the console can connect before and while the line fills,
and one heartbeat plus a blocked write fit into the records. The relay's own timeout
is not modelled: it is two heartbeats (10 s against 5 s), and the property is
that a heartbeat is never that late. That leaves out a write blocked for its whole
timeout of 5 s, which is a broken connection anyway.

* `KeepsToTheWire`: `Console` and `Esp32` implement `SourceWire!Spec` (refinement;
  the mapping counts what was queued and takes the relay's end);
* `RelayKnowsTheState`: when the source has caught up, the relay knows that it is
  quiet, or its last audio record; a new connection of the console is told with
  the first record the gate returns: with the first frame, unless the program
  just started and the delay line (200 ms) is filling;
* `SilenceIsNotDeath`: however long the silence, a record comes every heartbeat,
  give or take the frame the timers are counted in. The firmware's microphone may
  fail to yield frames (`ReadFails`), and that time is added (`missed`);
* `RunReturns` (`Console`): `Run` returns when it is told to stop, whatever
  blocks `transmit` and wherever the other goroutines are. That those end too is
  not claimed: `encode` ends with the context, and a capture device when its
  driver returns.

`Esp32` has two tasks, where `captureTask` preempts the other between any two
steps. `transmitTask` asks twice in each round whether it is connected
(`AskConnected` for `wasConnected`, then `ensureRelay`). When the connection
breaks in between, the new one is made with the `quiet` of the old, and may be
told nothing of a silence until the old heartbeat is due. The properties are
stated with that: the relay may not know yet, but not for more than one
heartbeat (`SilenceIsNotDeath`), so the source is not dropped.

### Player

Each action is what the page runs between two awaits. Handlers of messages are
chained, so there is one `handler` at a time; `start` and `stop` are not, so there
are sets and counts of them (`starting`, `stopping`). `misplayed` is history: a
frame went to a graph of another rate, under another session's format, or
behind another session's samples. A handler may run later here than the
microtask that would run it, which allows more orders than the browser does.
Contexts that could not be opened are forgotten; they play nothing.

*Run `player`* (two rates, 2 sockets, 3 contexts, 2 sessions a connection, 2
queued messages, one start that awaits at a time and two stops). A rebuild needs
a second rate; two sessions let one take over from the other while a handler
awaits; a connection being closed and its successor need two sockets; a start, a
rebuild and an abandoned one need three contexts. Otherwise the button may be
pressed at any moment and any number of times: stop while a start, a rebuild or
another stop awaits, start while stops await.

* `FramesFitTheGraph`: no frame is decoded or played as another session's;
* `StopLeavesNothing`: stopped and settled, there is no timer, connection or
  running graph;
* `Reconnects`: a listening player has a connection, again and again.

The page does not keep two calls of `start` apart. Pressed for `start`, `stop` and
`start` again while the first still awaits its graph, both continuations open a
socket, `socket` remembers one, and the other is never closed. From then on
(`doubled`) the page promises neither of the first two properties, so they are
stated of a page where no such call was made yet. With `MaxStarts` 1 the run has
only such pages; with 2, and without `~doubled`, TLC finds both violated. The
theorems hold for any `MaxStarts` and show that nothing else a user can do breaks
them. The case is in `hazards`. Another is within the properties: `stop`'s last
lines may clear the format a later session has set, and its frames are dropped
until the next announcement.

*Run `player_silent`* is a finding: a connection that ends while the graph is being
rebuilt (`Start` .. `Rebuild`, `SocketCloses`, `RebuildClosed`, `Retry`,
`Announce`, `ApplyFormat`) leaves a page that says it is live, with no
worklet and nothing that will make one. The README promises that once the button
is pressed frames pass through the worklet.

### Playback

A sample is its place on the source's timeline, and whether it is audio or
stands for declared silence. The ring is what it holds, in order. Messages come
with growing positions, skipping any, so every pattern of drops and suppressed
silence occurs; pulls come at any moment. The early return for a stale position
can then not be reached, and the statistics posted to the page, which nothing
reads, are left out.

*Run `playback`* (ring of 11, prefill 4, frames of 3, quantum 2, 8 frames, one
reset). No number divides another, so that the ring, the prefill and the quantum
are passed in the middle of a frame; the ring takes three frames and not four.

* `RingKeepsTime`: what is buffered has no hole and no repeat, up to where the next
  frame is expected, whatever heartbeats fell into a silence;
* `LossIsReported`: a message never loses buffered audio without an underrun or a
  drop being counted. Exception, and the code's intent: a declared silence too long
  for the ring;
* `TailIsPlayed`: what came before a silence is played, however short.

### Fairness

| Assumption | Why the code justifies it |
| --- | --- |
| WF on the selects of `Offer` / `deliver` | the goroutine is runnable, no select blocks |
| SF on `DeadlinePasses` | `SetReadDeadline` precedes every read (ingest.go:67, 107), and `ReleaseSource` gets the lock: Go's mutex does not starve a waiter |
| WF on a client's `TakePacket` and `HandleStep` | the goroutine runs; each write ends within `writeTimeout` (deliver.go:278, 198) |
| SF on `PingFails` | a failed ping cancels the context (deliver.go:64-67); a Go select chooses at random among ready cases |
| SF on `Return` | `Detach` needs the lock, see above |
| WF on `Console`'s `EncodeStep` and `TransmitStep` | goroutines run, and every blocking call of `transmit` has a timeout |
| WF on `Player`'s `StartStep`, `HandlerStep` and `Retry` | the browser settles its promises and fires its timers |
| WF on `Playback`'s `Process` | the audio device pulls while the graph runs |

Nothing is assumed of readers in `Queue`, `Stream` and `Ingest`, nor of sources,
clients, relays that close connections, users, or how long a session lasts.

### Type invariants

`Stream`'s is part of its run. The others (`<Module>TypeOK`, or the typed parts
of the inductive invariant) are proved, which leaves nothing for a run to show:
as theorems of their own for `Queue`, `Gate`, `Stream`, `Ingest`, `WebSocket` and
`Wav`, and as parts of the invariants of `Console`, `Esp32`, `Playback` and
`Player`.

## 3. The proofs

TLAPS proves, for every value of the constants, every safety property that a
run checks, and both refinements:

| Module | Theorems | What they state |
| --- | --- | --- |
| `EncodeProofs` | `QueueTypeCorrect`, `QueueHoldsTheNewest`, `QueueNewestSurvives`, `QueueAccountsForEveryItem`, `QueueReportsEveryDiscard` | `Queue`'s invariants |
| | `GateTypeCorrect`, `GateReturnsEveryFrame`, `GateSendsSoundAroundChanges` | `Gate`'s |
| `StreamProofs` | `StreamTypeCorrect`, `StreamNeverSendsOnClosed`, `StreamInformsListeners`, `StreamKeepsSessionsInOrder`, `StreamCountsEveryGap` | `Stream`'s |
| | `IngestTypeCorrect`, `StreamHasOneReader`, `FramesNeverMismatch`, `PositionsNeverGoBack`, `TimeNeverCountsTwice` | `Ingest`'s |
| | `IngestDrivesTheStream` | a behaviour of `Ingest` is one of `Stream` |
| | `StatsNeverDisagree` | `Stats`'s |
| `WebSocketProofs` | `RelayKeepsItsPromise` | `WebSocket` implements `Delivery` |
| | `WebSocketTypeCorrect`, `DrainedClientsKnow` | its invariants |
| `WavProofs` | `WavTypeCorrect`, `DrainedFilesFollow`, `FilesAreOneSession`, `ZerosAreOnlyDeclared` | `Wav`'s properties |
| `ConsoleProofs` | `ConsoleKeepsToTheWire` | `Console` implements `SourceWire` |
| | `ConsoleTellsTheState`, `ConsoleBeatsInTime` | its invariants |
| `Esp32Proofs` | `Esp32KeepsToTheWire`, `Esp32TellsTheState`, `Esp32BeatsInTime` | the same of `Esp32` |
| `PlayerProofs` | `PlaybackRingKeepsTime`, `PlaybackReportsLoss` | `Playback`'s |
| | `PlayerFitsFrames`, `PlayerStopsCleanly` | `Player`'s |

`SourceLinkProofs` holds what `ConsoleProofs` and `Esp32Proofs` share.

The assumptions are those the modules declare: capacities are positive numbers,
the bounds are natural numbers, `NoListener` and `NoFormat` are no members, sample
rates are positive (format.go:55), and the frames of `Gate`'s line but one are
shorter than its settling period, which `Run` and the firmware's assertion keep
above the lead-in.

*Queue.* The invariants are not inductive: at the second and third select they
need to know that the call has an item (`CallHasItem`) and, at the third, that
there is room (`RoomWasMade`: the second select made it, and only a reader ran
since). The invariant is their conjunction; each action preserves it.

*Gate.* The line is a ring with one index, and the code decides what to send
from two flags only: whether sound was active when the frame entered, and
whether it is when the frame leaves. The invariant ties each filled slot to the
frame it holds, by the index and the fill (`LineHolds`, `LineFills`), and the
detector's counter to the time since the last change (`StableMeasures`).
`TheEndsDecide` is the heart: a change while the frame was in the line still
makes sound active when it leaves, because `Settle` is longer than the line, so
the two ends decide for everything in between.

*Stream.* Each invariant speaks of one listener's *backlog*: the packet it holds
and those queued behind it. `IInv` says for each attached listener
(`BacklogOK`) that the backlog is `Ordered` and precedes the current state;
that unless its turn is still to come its last packet is the current state
(`Informed`); and that if it counted no drop the backlog is `Complete`, up to
the packet on its way to it. This needs `OutgoingIsCurrent` (what the loop
delivers is the state the stream is in, which holds as the lock excludes a
second broadcast), `SourceState` (`source` and `current` agree), and
`OfferState` (the third select has room, so it never fails). The first part of
the module proves what append, receive and evict do to a backlog, for any
packets; the second applies that to each action. That a new state may
follow the current one is where the code's details matter: a session opens with
a larger epoch, a record keeps epoch and format, "waiting" keeps the epoch.

*Ingest.* Each action of a connection is an action of `Stream` or leaves it
alone, so `Stream`'s theorems hold of the relay. What is added is that the
connections agree with the stream (the one being read is `source`), and that
everything in a backlog is `Behind` what its session may publish next and
`Rising` along the backlog, of which an eviction leaves a part. For the time,
a quiet frame is declared before it is counted, and `TimeLeft` is what is
between.

*Stats.* The count of ingress bytes lags what was published by the frames in
flight, of which there is at most one, since one connection is read. A request
remembers such a state, and `published` only grows until it responds
(`PublishedGrows`).

*WebSocket.* What a client was told is looked at as one more packet, its `View`,
in front of the one its goroutine holds and those that are queued: what holds
along a backlog holds of what is written next. Each write then is the step of
`Delivery` that the stage of the goroutine says, or a stutter, and each other
step one of `Ingest`. That the goroutine's locals (`announced`, `epoch`) are what
the client was told, also when a write failed, is the rest of the invariant.

*Wav.* Of a file the last frame written precedes the packet in hand if that is
of the file's session and not its announcement, and `quiet` is the state of the
packet dealt with last. A packet of a later session has a larger epoch, however
many were dropped in between, which is what ends the file.

*Console and ESP32.* To `SourceWire`, what matters is the order of positions and
that no record is older than its connection. The invariant says that what is
queued ascends above a floor: the record in hand, the last that arrived, or the
end of the timeline when the connection was made, once the backlog is discarded.
Each action keeps that order (`SourceLinkProofs` proves what offering and receiving
do to it) and maps to one step of `SourceWire` or to none. While the backlog is
being discarded there is no floor, and nothing is written either. For what the
relay knows, the newest record is followed through the queue, which may drop
others but not that one, until it is written or skipped; it is only skipped when
`quiet` says that the relay was told, and no longer ago than a heartbeat.

*Playback.* The ring is a *stretch* of the timeline: its samples are consecutive
frames, or silence it was told of, and the next frame expected follows the last.
Two stretches that meet are one (`StretchesJoin`), and one that loses its first
samples is one (`StretchShortens`); `append`, overflow and pulls are made of these.
A buffer that is only added to keeps all it held unless a drop is counted
(`KeepCountsWhatGoes`), so audio is lost without a drop only where a frame begins
the buffer anew.

*Player.* `GraphIInv` says who owns what across the awaits: the page has one
connection and one graph, a start that awaits finds no connection and the graph
it made or none, and a handler that awaits knows from `socket` whether anything
intervened (`StartsAlone`, `RebuildsAlone`). `FramesIInv` looks at the messages
that wait: those of the page's connection are the last of them, and a record
that is next of it (`Due`) is of the format the page is in, at the graph's rate
and behind samples of the same session, unless it has no worklet, or is of the
session the awaiting handler is about to adopt. All of it is inductive while no
two starts await (`OneStart`), and they do not until one is `doubled`
(`StartsAreCounted`), which stays so for good. The code does not keep the user
from that call; the invariant says what holds until it is made.

Only model-checked: liveness, which is out of the prover's reach with the
ENABLED that fairness is made of: `OfferReturns`, `BroadcastEnds`,
`DeadSourceIsDropped`, `ClientsCatchUp`, `GoneClientIsDetached`, `FileEnds`,
`RunReturns`, `Reconnects` and `TailIsPlayed`. The two findings are violations,
which only a run can show.

## 4. Not modelled

Byte layouts, logging, counters that only feed logs, and rates (the pace of the
WAV ticker, retries of a failing accept) are abstracted from the modelled parts.
Not modelled at all:

* *the relay's lifecycle* (`relay.Run`): one join of two servers; how `Shutdown`
  drains the handlers is decided inside net/http;
* *the other fields of `/stats`*: each is read once and related to no other;
* *codecs, formats, WAV headers, tones*: pure functions of a byte or a header, which
  the repository's tests cover over all codes and by a digest of the wire; the
  models keep a format as a value;
* *the filters of `Activity`*: floating point; what they decide is an input of `Gate`;
* *audio devices*: I/O of an external library. That frames come, are dropped and end
  is in `Console`; a console device that stops yielding frames without an error
  is not (see `hazards`);
* *command lines, build, deployment, scripts*: not part of the running system.

## 5. What is left

Every safety property that a run checks has a theorem. What would say more
about the system:

* a theorem of `Console` and `Esp32` that composes their `SourceWire` with
  `Ingest`'s assumption that a source's positions grow, stated in the README
  only;
* `Playback` under `Player`'s resets: that a session's frames find an empty ring.
