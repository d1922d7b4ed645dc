# ZeroFeed: TLA+ models, model checking and proofs

ZeroFeed is an end-to-end encrypted 1-to-N feed: a *publisher* and its
*subscribers* meet on a *relay* by session ID, agree on a key, and the relay
broadcasts encrypted frames from memory. This directory models the concurrent
parts of the Go code, checks them with TLC and proves the central results with
TLAPS.

## The system and its modules

| Part (source) | Module | Correspondence |
|---|---|---|
| Relay registry and sessions (`pkg/relay/server.go`, `session.go`) | `RelayServer` | one goroutine per connection; an action is one critical section of `srv.mu` or `session.mu`, or one send. A session object is named by the connection that created it, so stale pointers are visible. A one-shot request (`lookupSession`, `ForwardSyncReq`) uses a session it does not belong to; a session may grow old at any place of its handlers (`Age`) |
| Replay buffer (`pkg/feed/ringbuffer.go`) | `RingBuffer`, abstract `ReplayLog` | slots, `head`, `tail`, `size`; the log is the plain sequence of the latest messages |
| Publisher engine (`pkg/feed/publisher.go`) | `Publisher` | publishing goroutines, `handleSyncRequests`, `TriggerRekey`, `Close`; `mu`, `writeMu`, `rekeyMu` are locks |
| Subscriber engine (`pkg/feed/subscriber.go`) | `Subscriber` | the stream goroutine (read, rekey, deduplicate, reconnect, handshake); `Close` and cancellation at any time |
| Admission (`pkg/relay/ratelimit.go`, accept loops and `handleConnection` in `server.go`, `server_quic.go`) | `Admission` | acceptors test and count in two steps; a ban record keeps the time left of its ban; the first frame decides whether a failure is recorded |
| Joining (`Connect`, `CompleteHandshake` of both engines, the relay's forwarding) | `Handshake` | one publisher, several subscribers; the publisher reads all of them from one connection and its answers are broadcast. A subscriber verifies and confirms (`AcceptAnswer`) before it installs its key (`InstallKey`), which may fail |
| One session's fan-out (`pkg/relay/session.go`, the loops of `server.go`) | `Fanout` | the publisher's handler copies the subscriber list, queues a frame for each and waits for full queues to drain; one `writeLoop` per subscriber; removal and closing at any time |
| File transfer (`SendFile`, chunk acknowledgements, the file part of `SubscribeStream`) | `FileTransfer` | the sender with its window and pauses, the acknowledgement channel, and per subscriber a queue of payloads that may have gaps, and files whose creation, writing or reading may fail |
| Wiping (`pkg/crypto/memzero.go`, `main.go`) | `WipeRegistry` | main, the signal goroutine and the reader of standard input on the registry's lists; `Close` as the one wiper, and the goroutines that send frames under the engine's `mu` and `writeMu` |
| Envelopes on a byte stream (`pkg/protocol/envelope.go`, `pkg/relay/proxy_proto.go`, `websocket.go`) | `Wire` | tokens stand for runs of bytes; a read returns any part of what has arrived; torn writes, expired deadlines, PROXY look-ahead, WebSocket fragments and pings; padding as operators |
| Publisher, relay and subscriber together | `Feed` | extends `Publisher` and `Subscriber`; the relay appends what the publisher writes to the inbox of a registered subscriber and forwards requests back |

`ReplayLog` is used by `Publisher` and `Subscriber`, and `RingBuffer` is shown
to implement it, so the engines rely on what the array really does. `RelayServer`
sends to a subscriber in one step, which `Fanout` takes apart; `FileTransfer`
starts from what `Feed` shows of payloads (in order, each once, with gaps); the
frames that the other modules exchange whole are what `Wire` cuts into bytes.
`MCRelayServer` adds the symmetry set and the bounds for TLC, `MCFileTransfer` the
sizes of the files.

Data is abstracted: the k-th key of the ratchet is the number k, a payload is
its index, a PAKE exchange is the number of the object that began it, and
encryption records key, number and content. The network drops connections;
rekey thresholds may be reached at any payload. History variables
(`introduced`, `fed`, `sealed`, `wire`, `published`, `delivered`, `newest`, `inOrder`,
`evicted`, `recent`, `verified`, `calm`, `foreign`, `harmed`, `ended`, `slow`, `tears`,
`lost`) record what happened; of these only the counters with a bound
(`tears`, `lost`) appear in guards.

## Runs

Deadlock is not checked anywhere: peers may leave, streams end, and the bounds
stop the inputs.

Passing runs:

| Run | Instance | Shows |
|---|---|---|
| `relay` | 3 connections, 2 IDs, symmetric; at most one session beyond the grace period or one removal of a subscriber under way, and shutdown before any session is that old | `NoSessionLeak`, `IntroducedPeers`, `OnePublisher`, `SessionIsolation`, `GaugeExact` |
| `ring` | capacity 3, numbers 1..7 in any order, 1 payload | `ScrubbedOutside`, `MissReported`, `ImplementsLog` |
| `publisher` | stream, file, sync, closer; 2 payloads, 1 rekey, 1 request | `NonceUnique`, `CloseIsLast`, `StreamDecrypts`, `ResidueBounded` |
| `subscriber` | buffer of 2, 1 drop, 2 attempts, numbers 1..2, keys 0..1, fair | `DeliveredOnce`, `ResidueAfterClose`, `CancelEndsStream` |
| `feed` | 2 payloads, 1 rekey, 2 requests, 1 drop | `DeliveredAsPublished`, `UnbrokenDelivery`, `StreamKept`, `ReplayFillsGap` |
| `admission` | 4 connections, 1 address, 2 acceptors, limit 2, 3 attempts, fair clock | `LimitOvershoot`, `WindowRespected`, `BanEnds` |
| `handshake` | 2 subscribers, patience 4, fair | `ReadyMeansVerified`, `FirstPeerServed` |
| `fanout` | 2 subscribers, queue 2, watermarks 1 and 0, 3 frames, fair | `QueueBelowHigh`, `OnlySlowPruned`, `OrderedRun`, `FanoutReturns`, `SubscribersReleased` |
| `file` | 2 subscribers, 1 name, window 2, acknowledgement channel of 1, transfers of 4 and of 3 chunks, 1 fault (a gap, a failing file operation or an edited source), fair | `VerdictExact`, `Backpressure`, `SendFileReturns` |
| `wipe` | 2 chunks, fair | `NothingForgotten`, `CleanExit`, `SignalEnds` |
| `wire` | 3 frames of up to 2 tokens, 2 tears, 2 expired deadlines, 2 pings or empty frames, fair | `Undamaged`, `DamageConfined`, `PaddingInverse`, `AllDecoded` |

The feed run uses a view without the histories `wire` and `sealed`, which no guard
or property of `Feed` reads.

The relay run's constraint (`Bounded`) is there for time only: all its properties are
proved without it.

Why the bounds are enough: three connections give a publisher, a subscriber and
a third party that comes too early, too late or twice; capacity 3 with
seven numbers wraps the ring more than twice, also after a wipe, with gaps and out of order;
two payloads with a
rekey between them cover both sides of a key change in every step of a second
goroutine; one drop gives a full reconnection, handshake and replay; four
connections at a limit of two let both acceptors find the last place, and let a
connection admitted before a ban fail during it; two subscribers already send
four `InitSub` frames to a publisher that reads four; two subscribers with a queue
of two and three frames let one of them stall, be waited for, given up on and
removed while the other one goes on; a file of four chunks needs the window of two
twice, two subscribers acknowledge each of them, and a second transfer of the same
name, longer than a window, meets the first one's late acknowledgements and its
leftovers; two chunks leave one registered before and one after
a `WipeAll`; three frames give a frame before, in and after a tear.

One run refutes a statement of the repository (details under `findings` in
`PROJECT.json`): `publisher_close` shows that `mu` and `writeMu` are taken in
opposite orders, so that `Close` and a sender can wait for each other.

`StreamDecrypts` is about a lone writer (one publishing goroutine, no replay):
numbering, sealing and sending are separate steps of `PublishPayload`, so with
`SendFile` next to `PublishStream` it does not hold.
`ResidueBounded` and `ResidueAfterClose` bound what a push that comes after the wipe
of `Close` leaves behind; they do not exclude it. `CancelEndsStream` is about an
engine that is open when its context is cancelled. `MissReported` is about numbers that
are pushed in increasing order, which two publishers need not do.
`StreamKept` is likewise about a feed without requests and drops: a replay sealed
before a rekey and sent after it ends the stream of other subscribers.

`ReplayFillsGap` asks for a publisher that is quiet while the subscriber
reconnects (`calm`), and `Undamaged` and `AllDecoded` leave out a client that
sends no PROXY header to a relay that trusts one. `Backpressure` counts the late
acknowledgements of earlier transfers (`foreign`) and stops at a pause that ran
out; every subscriber acknowledges each full window, so with more subscribers than
the window has chunks the sender may run away from all of them, and the bound says
by how much. The file that is edited under the sender's hands keeps its length.
`CleanExit` promises the engine's secrets only after `PublishStream`, and `SignalEnds`
makes an exception of `LockCycle`, the deadlock that `publisher_close` is about.

The models also reach, and no run forbids:

- relay: an earlier handler's `removeSession`, which goes by ID, closes the
  successor session of a peer that is still registering (`session.go:220` says
  such a session is kept); a peer registers between the reaper's check and its
  close and is disconnected;
- joining: a subscriber that joins during another's handshake reads the broadcast
  answer as its own and gives up;
- stream: a live frame overtakes the replay, which is then dropped as duplicate;
  a reconnection installs its socket and its key after the subscriber's `Close`; a nil cipher
  is used after `Close` ran during a rekey (`panicked`, in both engines); the
  subscriber pushes into a buffer that `Close` has wiped;
- files: acknowledgements of an earlier transfer are credited to the next; with
  `--file` nobody reads them, so every window ends in a pause that runs out;
  downloads of the same name share a path; a payload whose sending failed is still
  replayed;
- wiping: after a signal and an early return of `runMain`, the second `WipeAll`
  finds empty lists and the process may exit while the first is still zeroing; what
  is registered after the last `WipeAll` took the lists stays;
- bytes: without a PROXY header a trusting relay loses the bytes it looked at
  (`proxy_proto.go:26` says the header is stripped "if present"); a frame to the
  publisher that a deadline tears is followed by the next one.

## Fairness

- `Publisher`: goroutines keep running and Go mutexes are starvation free
  (strong fairness of each goroutine's own steps). Input is not forced.
- `Subscriber`: the stream goroutine keeps running (dialling and handshakes
  time out); cancelling leads to `Close` (the watcher) and `Close` to
  cancelling (the signal handler).
- `Admission`: time goes on (`Tick`); no connection is forced to do anything.
- `Handshake`: the relay, the publisher and each subscriber handle the frames
  they have. Joining, leaving and timing out are not forced.
- `Fanout`: the publisher's handler, each `writeLoop`, the closing of a socket and
  a subscriber's handler keep running: every wait in them has a timeout. Neither
  frames nor subscribers nor the end of a session are forced.
- `FileTransfer`: the sender keeps running, its pauses are bounded by a timer.
  Subscribers and acknowledgements are not forced.
- `WipeRegistry`: `WipeAll` and the deferred calls keep running; a frame
  that is being sent is sent when the lock is free, and `runMain` returns once the
  context is cancelled (strong fairness: heartbeats may come in between, and the
  `select` of `PublishStream` chooses among what is ready). Signals and input are not forced.
- `Wire`: what is in flight arrives and a reader with input reads.

## Proofs

Every theorem holds for all values of the constants that meet the named
assumptions. Each proof follows the same plan: an invariant that is inductive, a
lemma for each action or group of actions, and a last step that combines them.

| Module | Theorems (the property of a run that each one states) |
|---|---|
| `RelayServerProofs` | `TypeCorrect`, `NoLeak` (`NoSessionLeak`), `SinglePublisher` (`OnePublisher`), `Introduction` (`IntroducedPeers`), `Isolation` (`SessionIsolation`), `GaugeIsExact` (`GaugeExact`) |
| `FanoutProofs` | `Watermarks` (`QueueBelowHigh`), `OwnFault` (`OnlySlowPruned`), `Order` (`OrderedRun`) |
| `StorageProofs` | ring: `Scrubbed` (`ScrubbedOutside`), `MissIsReported` (`MissReported`), `Refinement` (`ImplementsLog`); wiping: `NoSecretForgotten` (`NothingForgotten`), `ExitIsClean` (`CleanExit`) |
| `FileTransferProofs` | `VerdictIsExact` (`VerdictExact`) |
| `WindowProofs` | `SenderHeldBack` (`Backpressure`) |
| `ConnectionProofs` | admission: `Overshoot` (`LimitOvershoot`), `Window` (`WindowRespected`); padding: `PadRoundTrip`, `PayloadSurvivesPadding` (`PaddingInverse`); handshake: `ReadyPeerVerified` (`ReadyMeansVerified`) |
| `PublisherProofs` | `NonceUniqueness` (`NonceUnique`), `CloseLast` (`CloseIsLast`), `ResidueIsBounded` (`ResidueBounded`), `StreamAlwaysDecrypts` (`StreamDecrypts`) |
| `FeedProofs` | `OutputOnce` (`DeliveredOnce`), `ClosedKeepsOne` (`ResidueAfterClose`), `FeedImplementsPublisher`, `OutputInOrder` (`DeliveredAsPublished`), `NoGapWithoutDrop` (`UnbrokenDelivery`), `StreamIsKept` (`StreamKept`) |

What the inductive invariants add, and why:

- **Relay.** `IInv` adds that a session object is held by its creator, that the
  registry maps open objects under the ID of their creator, who the members of a
  session are and in which step their handlers can be, that closed objects have
  closed members, which handler owns an open session, and that the reaper's targets
  are mapped. The sender of a one-shot request owns no session and takes part in no
  introduction or fan-out. The gauge counts finite sets, so its proof also shows that finitely
  many sessions are mapped.
- **Fan-out.** `Water` says how far a queue can have grown at each step and who will
  wait for it; `Ordered` and `Unbroken` relate the queue to the frame in the writer's
  hands and to the last one written.
- **Ring.** `RInv` adds that `tail` is `size` slots after `head`; `OrderInv` that numbers
  pushed in increasing order are live in that order, above what was overwritten.
- **Wiping.** Who holds the locks, that what is pinned is registered, what main has
  zeroed by each step, and that a `WipeAll` has lists in hand only between taking and
  returning them.
- **Files, verdict.** `FileInv(s)` describes one subscriber: its queue is in the
  order of publishing (`QueueInv`); what is left of a transfer whose size it knows
  has no holes (`SizeInv`); each transfer is to come, missed in part, running or
  ended (`HistoryInv`); and the file on disk is everything so far, or has already
  gone wrong in a way that no later chunk repairs (`Download`, with `Complete` and
  `Spoilt`). The last part needs that a chunk of an edited file, or one written in
  part, differs from the original at its place, and that a file never holds more
  chunks than were counted.
- **Files, backpressure.** `AckInv` keeps an account: chunks sent beyond the ones not
  acknowledged, acks in the channel and acks under way are paid for by full windows
  of some subscriber (the set `Acked` of pairs of a subscriber and a window) or by
  acks of earlier transfers. Were every subscriber behind the bound, `Acked` would be
  smaller than the product of the subscribers and the windows, too small for what was
  sent.
- **Admission.** `Room`: the counted connections and the acceptors about to count one
  stay below the limit plus the number of acceptors. `Remembered` relates the ages of
  an address's latest failures to what its record holds: it counts at least the
  recent ones, and the ban of a full record outlasts them.
- **Padding.** `PrefixInverse`: the four bytes of the length read back to it.
- **Handshake.** `ConfirmInv`: a confirmation on its way was sent by a subscriber that
  has verified the publisher's tag.
- **Publisher.** `NonceUnique` speaks of what was sealed only, so `IInv` adds
  `OneContent`: a number stands for one content wherever it appears, in a publisher's
  hands, buffered, copied for a replay or sealed, and is not above the counter. A draw
  takes a fresh number (`Draw`, `SealFresh`), every later step moves or seals what
  the number already stands for (`Keep`, `SealKnown`). `Places` says what a goroutine
  holds at each step and `Locks` that `Close` holds `mu` from the CLOSE frame until
  the connection is gone. `ResidueInv` counts the goroutines that are past `Push`
  after `Close`; `Lone` says which key a lone publisher's next frame is under, given
  the rekey frames on the wire; `Ordered` and `Gapless` that its payloads get their
  numbers and reach the wire in order.
- **Subscriber and feed.** `SubInv` relates `lastSeqNum` and the output for
  arbitrary frames; `Residue` that a closed engine's buffer is empty while it still
  has a message in hand. `FeedInv` adds to it and to the publisher's invariant that
  whatever travels was sealed. `FeedImplementsPublisher` then carries the publisher's
  theorems over to `Feed`. For a subscriber that never lost its connection `Steady`
  says how much of the wire it has read, `Complete` that this is what it has put out,
  and `Follower` that its key is the one announced by what it has read.

The theorems about `Feed` have the hypothesis `OnePublisher`: only one goroutine has
published so far. Payloads are numbered as they are taken, so with `SendFile` next to
`PublishStream` order is not defined by the model's numbers.

The assumptions are `RelayAssumption`, `FanoutAssumption` (`Low < High < QueueSize`),
`RingAssumption` and `SubscriberAssumption` (a positive capacity), `WipeAssumption`,
`FileAssumption` (a positive window; sizes are numbers), `AdmissionAssumption`
(limit, attempts and ban are positive, records are kept at least as long as a ban lasts,
acceptors are finitely many), `WireAssumption` (payload lengths fit the header's 32 bits)
and `PublisherAssumption` (no goroutine has two roles); they also say that nil is not a
value. TLC evaluates them in the runs. The type invariants (`TypeOK`) are conjuncts of
the inductive invariants and proved with them; that of `RelayServer` is also checked by
its run.

Only model-checked:

- all liveness (`CancelEndsStream`, `BanEnds`, `FirstPeerServed`, `FanoutReturns`,
  `SubscribersReleased`, `SendFileReturns`, `SignalEnds`, `AllDecoded`): fairness and
  `ENABLED` are outside the prover;
- `Undamaged` and `DamageConfined`: the byte stream is the concatenation of the
  encodings of a sequence of frames, and what decoding it gives back is an induction
  over that sequence, which the prover cannot do;
- `ReplayFillsGap`: it needs an account of every frame between the publisher's replay
  and the subscriber's key exchange, over any number of reconnections.

## Not modelled

- Cryptographic primitives (`cipher.go`, `pake.go`): keys and exchanges are
  numbers; what a cipher promises is assumed.
- Dialling, TLS, QUIC and the list of relays: network I/O that keeps no state
  between calls; a dial succeeds or fails.
- `Wire` does not tell versions apart (`envelope.go:88-91`) and leaves out payload
  bytes that imitate the magic; WebSocket upgrade and writing are I/O.
- `UnregisterBuffer`, `ClearWipers` and `RecordSuccess` have no caller, and
  `SetEnabled` is only called before the relay serves; nothing bounds the growth of
  the wipe registry.
- Invites, session IDs, logging, metrics other than the session gauge, progress
  output, text sanitising, flags and the WASM front end: formatting, hashing and
  user interface without protocol state.
- With several subscribers `Feed` would be out of TLC's reach; others appear as
  requests there, and with their queues in `Fanout`.
