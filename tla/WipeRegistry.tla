---------------------------- MODULE WipeRegistry -----------------------------
(***************************************************************************)
(* The global wiping registry (pkg/crypto/memzero.go) in a publishing      *)
(* process (main.go): which secrets are zeroed by the time it exits.  Three *)
(* goroutines use it: main, which wipes when runMain returns; the signal   *)
(* goroutine, which wipes before it cancels the context; and the reader,   *)
(* which registers every chunk of standard input.  main, the reader and    *)
(* handleSyncRequests also send frames, under the engine's two locks.      *)
(*                                                                         *)
(* A buffer is registered once, and dirty until it is zeroed.  Key stands  *)
(* for the secrets the engine zeroes in its Close, which is the one wiper. *)
(***************************************************************************)
EXTENDS Naturals, FiniteSets

CONSTANTS
  Chunks,  \* chunks of standard input
  Pass,    \* passBytes of runPublish
  Key,     \* secrets of the engine
  None     \* nobody holds a lock

\* The goroutines that call WipeAll, and those that send frames: main publishes the
\* stream or the file of --file, the reader the files of /send, sync the replays.
Wipes == {"main", "signal"}
Senders == {"main", "reader", "sync"}

ASSUME WipeAssumption ==
  Pass # Key /\ {Pass, Key} \cap Chunks = {} /\ None \notin Wipes \cup Senders

VARIABLES
  pc,                 \* goroutine -> what it does next
  wiperMu,            \* holder of wiperMu
  registeredBuffers,  \* as in the code
  pinnedBuffers,      \* as in the code
  registeredWipers,   \* the engine's wiper is registered
  mu, closed,         \* the engine's lock and flag
  writeMu,            \* the sender that holds the engine's writeMu
  buffers,            \* WipeAll's local variable, per goroutine
  wipers,             \* WipeAll's local variable, per goroutine
  cancelled,          \* the context is done
  inHand,             \* chunk that the reader has read and not registered yet
  dirty,              \* buffers that are not zero
  streamed            \* history: runMain left through PublishStream

registry == <<registeredBuffers, pinnedBuffers, registeredWipers>>
engine == <<mu, closed, writeMu>>
locals == <<buffers, wipers>>
wipeVars == <<pc, wiperMu, registry, engine, locals, cancelled, inHand, dirty, streamed>>

WipeInit ==
  /\ pc = [g \in Wipes \cup {"reader"} |-> IF g = "main" THEN "pass" ELSE "off"]
  /\ wiperMu = None /\ registeredBuffers = {} /\ pinnedBuffers = {}
  /\ registeredWipers = FALSE
  /\ mu = None /\ closed = FALSE /\ writeMu = None
  /\ buffers = [g \in Wipes |-> {}] /\ wipers = [g \in Wipes |-> FALSE]
  /\ cancelled = FALSE /\ inHand = {} /\ dirty = {} /\ streamed = FALSE

Goto(g, label) == pc' = [pc EXCEPT ![g] = label]

\* The process is there as long as main has not returned.
Running == pc["main"] # "exited"

-----------------------------------------------------------------------------
(* The registry.  Its critical sections are steps of their own where the   *)
(* code does more than one thing under the lock.                           *)

RegisterBuffer(b) ==
  /\ wiperMu = None
  /\ registeredBuffers' = registeredBuffers \cup {b}
  /\ pinnedBuffers' = pinnedBuffers \cup {b}
  /\ UNCHANGED registeredWipers

\* Unpins b, and overwrites it; the registry keeps it.
ZeroBytes(b) ==
  /\ wiperMu = None
  /\ pinnedBuffers' = pinnedBuffers \ {b}
  /\ dirty' = dirty \ {b}
  /\ UNCHANGED <<registeredBuffers, registeredWipers>>

\* WipeAll locks wiperMu ...
WipeLock(g) ==
  /\ Running /\ pc[g] = "lock" /\ wiperMu = None
  /\ wiperMu' = g
  /\ Goto(g, "take")
  /\ UNCHANGED <<registry, engine, locals, cancelled, inHand, dirty, streamed>>

\* Faulty variant of WipeTake: runs the wipers under the lock.
WipeTakeHolding(g) ==
  /\ Running /\ pc[g] = "take"
  /\ buffers' = [buffers EXCEPT ![g] = registeredBuffers]
  /\ wipers' = [wipers EXCEPT ![g] = registeredWipers]
  /\ registeredBuffers' = {} /\ registeredWipers' = FALSE /\ pinnedBuffers' = {}
  /\ Goto(g, "wipers")
  /\ UNCHANGED <<wiperMu, engine, cancelled, inHand, dirty, streamed>>

\* ... takes the lists and the pins, and unlocks.
WipeTake(g) ==
  /\ Running /\ pc[g] = "take"
  /\ buffers' = [buffers EXCEPT ![g] = registeredBuffers]
  /\ wipers' = [wipers EXCEPT ![g] = registeredWipers]
  /\ registeredBuffers' = {} /\ registeredWipers' = FALSE /\ pinnedBuffers' = {}
  /\ wiperMu' = None
  /\ Goto(g, "wipers")
  /\ UNCHANGED <<engine, cancelled, inHand, dirty, streamed>>

\* After the wipers it zeroes the buffers.
WipeZero(g, b) ==
  /\ Running /\ pc[g] = "zero" /\ b \in buffers[g]
  /\ ZeroBytes(b)
  /\ buffers' = [buffers EXCEPT ![g] = @ \ {b}]
  /\ UNCHANGED <<pc, wiperMu, engine, wipers, cancelled, inHand, streamed>>

\* Faulty variant of WipeReturns: resets the registry only now.
WipeReturnsReset(g) ==
  /\ Running /\ pc[g] = "zero" /\ buffers[g] = {}
  /\ Goto(g, IF g = "main" THEN "exited" ELSE "done")
  /\ cancelled' = (cancelled \/ g = "signal")
  /\ registeredBuffers' = {} /\ pinnedBuffers' = {} /\ registeredWipers' = FALSE
  /\ UNCHANGED <<wiperMu, engine, locals, inHand, dirty, streamed>>

\* WipeAll returns: main exits, and the signal goroutine cancels the context.
WipeReturns(g) ==
  /\ Running /\ pc[g] = "zero" /\ buffers[g] = {}
  /\ Goto(g, IF g = "main" THEN "exited" ELSE "done")
  /\ cancelled' = (cancelled \/ g = "signal")
  /\ UNCHANGED <<wiperMu, registry, engine, locals, inHand, dirty, streamed>>

-----------------------------------------------------------------------------
(* PublisherEngine.Close, called by the wiper and when PublishStream ends. *)

\* Where g goes on after Close.
AfterClose(g) ==
  /\ Goto(g, IF pc[g] = "stream" THEN "defer" ELSE "zero")
  /\ wipers' = IF pc[g] = "stream" THEN wipers ELSE [wipers EXCEPT ![g] = FALSE]

Closing(g) == pc[g] = "stream" \/ (pc[g] = "wipers" /\ wipers[g])

\* Faulty variant of CloseLock: only tests the flag.
CloseLockFlag(g) ==
  /\ Running /\ Closing(g) /\ mu # g
  /\ IF closed THEN AfterClose(g) /\ UNCHANGED engine
               ELSE mu' = g /\ closed' = TRUE /\ UNCHANGED <<writeMu, pc, wipers>>
  /\ UNCHANGED <<wiperMu, registry, buffers, cancelled, inHand, dirty, streamed>>

\* mu is locked; the second caller finds the engine closed and returns.
CloseLock(g) ==
  /\ Running /\ Closing(g) /\ mu = None
  /\ IF closed THEN AfterClose(g) /\ UNCHANGED engine
               ELSE mu' = g /\ closed' = TRUE /\ UNCHANGED <<writeMu, pc, wipers>>
  /\ UNCHANGED <<wiperMu, registry, buffers, cancelled, inHand, dirty, streamed>>

\* The first caller waits for writeMu, still holding mu, to write the CLOSE frame;
\* then it closes the connection, zeroes the secrets and unlocks mu.  (An engine
\* that is not connected needs no writeMu, but then it has no senders.)
CloseWipes(g) ==
  /\ Running /\ mu = g /\ writeMu = None
  /\ ZeroBytes(Key)
  /\ mu' = None /\ AfterClose(g)
  /\ UNCHANGED <<wiperMu, closed, writeMu, buffers, cancelled, inHand, streamed>>

NoWipers(g) ==
  /\ Running /\ pc[g] = "wipers" /\ ~wipers[g]
  /\ Goto(g, "zero")
  /\ UNCHANGED <<wiperMu, registry, engine, locals, cancelled, inHand, dirty, streamed>>

-----------------------------------------------------------------------------
(* sendFrame                                                               *)

\* Where g may send: in SendFile or PublishStream, for /send, or in a replay.
MaySend(g) ==
  /\ g = "main" => pc["main"] \in {"run", "publish"}
  /\ g = "reader" => pc["reader"] = "read"
  /\ g = "sync" => pc["reader"] # "off"

\* It locks writeMu ...
LockWrite(g) ==
  /\ Running /\ MaySend(g) /\ writeMu = None
  /\ writeMu' = g
  /\ UNCHANGED <<pc, wiperMu, registry, mu, closed, locals, cancelled, inHand, dirty,
                 streamed>>

\* ... and getConn waits for mu.  The connection of a closed engine is gone: the
\* error makes SendFile or PublishStream return, unless the frame was a heartbeat,
\* and is ignored by the others.
SendFrame(g) ==
  /\ Running /\ writeMu = g /\ mu = None
  /\ writeMu' = None
  /\ IF g = "main" /\ closed
     THEN \/ /\ Goto("main", IF pc["main"] = "publish" THEN "stream" ELSE "defer")
             /\ streamed' = (pc["main"] = "publish")
          \/ pc["main"] = "publish" /\ UNCHANGED <<pc, streamed>>
     ELSE UNCHANGED <<pc, streamed>>
  /\ UNCHANGED <<wiperMu, registry, mu, closed, locals, cancelled, inHand, dirty>>

-----------------------------------------------------------------------------
(* main, the signal goroutine and the reader                               *)

\* runPublish registers the passphrase ...
RegisterPass ==
  /\ pc["main"] = "pass"
  /\ RegisterBuffer(Pass) /\ dirty' = dirty \cup {Pass}
  /\ Goto("main", "engine")
  /\ UNCHANGED <<wiperMu, engine, locals, cancelled, inHand, streamed>>

\* ... NewPublisherEngine its wiper, and setupSignalContext starts the goroutine.
RegisterWiper ==
  /\ pc["main"] = "engine" /\ wiperMu = None
  /\ registeredWipers' = TRUE /\ dirty' = dirty \cup {Key}
  /\ pc' = [pc EXCEPT !["main"] = "run", !["signal"] = "idle"]
  /\ UNCHANGED <<wiperMu, registeredBuffers, pinnedBuffers, engine, locals, cancelled,
                 inHand, streamed>>

\* The session is up: the reader starts, and main enters PublishStream.
StartStream ==
  /\ pc["main"] = "run" /\ writeMu # "main"
  /\ pc' = [pc EXCEPT !["main"] = "publish", !["reader"] = "read"]
  /\ UNCHANGED <<wiperMu, registry, engine, locals, cancelled, inHand, dirty, streamed>>

\* Connect or CompleteHandshake fails, or a file was sent: runPublish returns, and
\* nobody but a wiper closes the engine.
EarlyReturn ==
  /\ pc["main"] = "run" /\ writeMu # "main"
  /\ Goto("main", "defer")
  /\ UNCHANGED <<wiperMu, registry, engine, locals, cancelled, inHand, dirty, streamed>>

\* PublishStream ends with its input, with an error or with the context, and its
\* deferred Close runs.
StreamReturns ==
  /\ pc["main"] = "publish" /\ writeMu # "main"
  /\ Goto("main", "stream") /\ streamed' = TRUE
  /\ UNCHANGED <<wiperMu, registry, engine, locals, cancelled, inHand, dirty>>

\* The deferred ZeroBytes(passBytes), after which main calls WipeAll.
DeferredZero ==
  /\ pc["main"] = "defer"
  /\ ZeroBytes(Pass)
  /\ Goto("main", "lock")
  /\ UNCHANGED <<wiperMu, engine, locals, cancelled, inHand, streamed>>

\* A signal arrives: the goroutine calls WipeAll.
Signal ==
  /\ Running /\ pc["signal"] = "idle"
  /\ Goto("signal", "lock")
  /\ UNCHANGED <<wiperMu, registry, engine, locals, cancelled, inHand, dirty, streamed>>

ReadChunk(b) ==
  /\ Running /\ pc["reader"] = "read" /\ writeMu # "reader" /\ b \notin dirty \cup registeredBuffers
  /\ b \notin UNION {buffers[g] : g \in Wipes}
  /\ inHand' = {b} /\ dirty' = dirty \cup {b}
  /\ Goto("reader", "register")
  /\ UNCHANGED <<wiperMu, registry, engine, locals, cancelled, streamed>>

RegisterChunk(b) ==
  /\ Running /\ pc["reader"] = "register" /\ b \in inHand
  /\ RegisterBuffer(b)
  /\ inHand' = {}
  /\ Goto("reader", "read")
  /\ UNCHANGED <<wiperMu, engine, locals, cancelled, dirty, streamed>>

-----------------------------------------------------------------------------

Wiping(g) ==
  WipeLock(g) \/ WipeTake(g) \/ NoWipers(g) \/ WipeReturns(g) \/ CloseLock(g) \/ CloseWipes(g)
    \/ \E b \in buffers[g] : WipeZero(g, b)

WipeNext ==
  \/ \E g \in Wipes : Wiping(g)
  \/ RegisterPass \/ RegisterWiper \/ StartStream \/ EarlyReturn \/ StreamReturns
  \/ DeferredZero \/ Signal
  \/ \E g \in Senders : LockWrite(g) \/ SendFrame(g)
  \/ \E b \in Chunks : ReadChunk(b) \/ RegisterChunk(b)

WipeSpec == WipeInit /\ [][WipeNext]_wipeVars

\* Goroutines that can go on do; Connect, CompleteHandshake and PublishStream
\* return once the context is done and the connection closed, between two frames
\* that they send.
WipeFairSpec ==
  /\ WipeSpec
  /\ \A g \in Wipes : WF_wipeVars(Wiping(g))
  /\ \A g \in Senders : WF_wipeVars(SendFrame(g))
  /\ WF_wipeVars(DeferredZero)
  /\ SF_wipeVars(cancelled /\ (EarlyReturn \/ StreamReturns))
  /\ WF_wipeVars(\E b \in Chunks : RegisterChunk(b))

-----------------------------------------------------------------------------
(* Properties                                                              *)

\* What a goroutine may do next.
Labels == {"off", "idle", "pass", "engine", "run", "publish", "stream", "defer", "lock",
           "take", "wipers", "zero", "exited", "done", "read", "register"}

\* Type correctness (proved in StorageProofs).
WipeTypeOK ==
  /\ pc \in [Wipes \cup {"reader"} -> Labels]
  /\ buffers \in [Wipes -> SUBSET (Chunks \cup {Pass})] /\ wipers \in [Wipes -> BOOLEAN]
  /\ registeredBuffers \subseteq Chunks \cup {Pass}
  /\ writeMu \in Senders \cup {None} /\ mu \in Wipes \cup {None} /\ wiperMu \in Wipes \cup {None}
  /\ registeredWipers \in BOOLEAN /\ closed \in BOOLEAN /\ streamed \in BOOLEAN

\* What WipeAll of goroutine g has taken and not zeroed yet.
Unfinished(g) == buffers[g] \cup (IF wipers[g] \/ mu = g THEN {Key} ELSE {})

\* Every secret is accounted for, at every moment and in particular when the
\* process exits: what is not zero is registered, in the reader's hands, or in the
\* hands of a WipeAll that has not returned.  Two concurrent calls of WipeAll, a
\* chunk registered between them and a Close by two goroutines lose no secret.
NothingForgotten ==
  pc["main"] \notin {"pass", "engine"} =>
    dirty \subseteq inHand \cup registeredBuffers \cup Unfinished("main")
             \cup Unfinished("signal") \cup (IF registeredWipers THEN {Key} ELSE {})

\* The passphrase is zero when the process exits, and so are the engine's secrets
\* if it leaves through PublishStream, whatever the signal goroutine is doing.
CleanExit ==
  pc["main"] = "exited" => Pass \notin dirty /\ (streamed => Key \notin dirty)

\* Close has mu and waits for writeMu, a sender has writeMu and waits for mu: they
\* wait for ever (CloseReturns of Publisher).
LockCycle == mu # None /\ writeMu # None

\* A signal ends the process, unless the wiper and a sender block each other with
\* the engine's two locks: nothing else can keep WipeAll from returning, neither
\* wiperMu, which the wipers take again, nor the WipeAll of main.
SignalEnds == pc["signal"] = "lock" ~> pc["main"] = "exited" \/ LockCycle
=============================================================================
