------------------------------ MODULE Publisher ------------------------------
(***************************************************************************)
(* The publisher engine (pkg/feed/publisher.go): the goroutines that       *)
(* publish, rekey, answer subscribers and close, on the state they share.  *)
(*                                                                         *)
(* p.mu, p.writeMu and p.rekeyMu are modelled as locks.  A critical        *)
(* section that takes no other lock is one action; Close holds p.mu, and   *)
(* sendFrame holds p.writeMu, across several.  The k-th key of the ratchet *)
(* is the number k, and payloads are numbered in the order they come in.   *)
(***************************************************************************)
EXTENDS ReplayLog, FiniteSets

CONSTANTS
  Streams,      \* goroutines running PublishStream
  Files,        \* goroutines running SendFile next to it
  Syncers,      \* goroutines running handleSyncRequests
  Closers,      \* goroutines calling Close from outside (the signal wiper)
  MaxPayloads,  \* bound: payloads to publish
  MaxRekeys,    \* bound: rekeys the thresholds ask for
  MaxRequests,  \* bound: subscriber frames handled
  None          \* nil

Writers == Streams \cup Files
Threads == Writers \cup Syncers \cup Closers

ASSUME PublisherAssumption ==
  /\ MaxPayloads \in Nat /\ MaxRekeys \in Nat /\ MaxRequests \in Nat
  /\ None \notin Threads /\ None \notin Nat
  /\ Streams \cap Files = {} /\ Syncers \cap Closers = {}
  /\ Writers \cap (Syncers \cup Closers) = {}

VARIABLES
  pc,           \* thread -> the step it is at
  load,         \* writer -> the payload it publishes and, later, its number
  out,          \* thread -> the frame it hands to sendFrame
  items,        \* syncer -> the buffered messages it still has to replay
  mu,           \* holder of p.mu, when held across actions (only by Close)
  writeMu,      \* holder of p.writeMu
  rekeyMu,      \* holder of p.rekeyMu
  key,          \* the key of p.cipher, None once closed
  masterKey,    \* p.masterKey
  connected,    \* p.conn is not nil
  broken,       \* the connection fails every write from now on
  closed,       \* p.closed
  seqCounter,   \* p.seqCounter
  wire,         \* the frames written to the connection
  sealed,       \* history: what was encrypted under which key and number
  payloads, rekeys, requests,  \* how many of each have been started
  published     \* history: the goroutines that have published

\* ReplayLog declares replay, the contents of p.replayBuffer.
lockVars  == <<mu, writeMu, rekeyMu>>
keyVars   == <<key, masterKey>>
connVars  == <<connected, broken, closed>>
countVars == <<payloads, rekeys, requests, published>>
vars == <<pc, load, out, items, lockVars, keyVars, connVars, seqCounter, wire, sealed,
          countVars, replay>>

Init ==
  /\ pc    = [t \in Threads |-> IF t \in Closers THEN "close" ELSE "idle"]
  /\ out   = [t \in Threads |-> None]
  /\ load  = [t \in Writers |-> None]
  /\ items = [t \in Syncers |-> <<>>]
  /\ mu = None /\ writeMu = None /\ rekeyMu = None
  /\ key = 0 /\ masterKey = 0
  /\ connected = TRUE /\ broken = FALSE /\ closed = FALSE
  /\ seqCounter = 0 /\ wire = <<>> /\ sealed = {}
  /\ payloads = 0 /\ rekeys = 0 /\ requests = 0 /\ published = {}
  /\ LogInit

GoTo(t, state) == pc' = [pc EXCEPT ![t] = state]

\* A publishing goroutine that fails: PublishStream returns and its deferred
\* Close runs, SendFile just returns.
Fail(t) == GoTo(t, IF t \in Streams THEN "close" ELSE "finished")

\* A panic ends the process and with it every goroutine.
Panic == pc' = [t \in Threads |-> "panicked"]

\* cipher.Encrypt of body under number seq, for a frame of this kind.
Sealed(kind, seq, body) == [kind |-> kind, seq |-> seq, body |-> body, key |-> key]

-----------------------------------------------------------------------------
(* sendFrame                                                               *)

\* The next step of t when its frame was written (ok) or not.
AfterSend(t, ok) ==
  LET kind == out[t].kind
  IN  IF t \in Syncers THEN GoTo(t, IF kind = "step2" THEN "idle" ELSE "replay")
      ELSE IF kind = "rekey" THEN GoTo(t, IF ok THEN "rekey_update" ELSE "rekey_end")
      ELSE IF ok \/ kind = "heartbeat" THEN GoTo(t, "idle")
      ELSE Fail(t)

LockWrite(t) ==
  /\ pc[t] = "send" /\ writeMu = None
  /\ writeMu' = t
  /\ GoTo(t, "write")
  /\ UNCHANGED <<load, out, items, mu, rekeyMu, keyVars, connVars, seqCounter, wire,
                 sealed, countVars, replay>>

\* Faulty variant of WriteFrame: writes on a connection it looked up earlier.
WriteFrameStaleConn(t) ==
  /\ pc[t] = "write"
  /\ wire' = IF ~broken /\ out[t].kind # "heartbeat" THEN Append(wire, out[t]) ELSE wire
  /\ AfterSend(t, ~broken)
  /\ writeMu' = None
  /\ out' = [out EXCEPT ![t] = None]
  /\ UNCHANGED <<load, items, mu, rekeyMu, keyVars, connVars, seqCounter, sealed,
                 countVars, replay>>

\* getConn, which needs p.mu, and Encode.
WriteFrame(t) ==
  /\ pc[t] = "write" /\ mu = None
  /\ LET ok == connected /\ ~broken
     IN  /\ wire' = IF ok /\ out[t].kind # "heartbeat" THEN Append(wire, out[t]) ELSE wire
         /\ AfterSend(t, ok)
  /\ writeMu' = None
  /\ out' = [out EXCEPT ![t] = None]
  /\ UNCHANGED <<load, items, mu, rekeyMu, keyVars, connVars, seqCounter, sealed,
                 countVars, replay>>

-----------------------------------------------------------------------------
(* PublishStream, SendFile and PublishPayload                              *)

\* A payload arrives; PublishPayload adds up its bytes and reads the rekey
\* thresholds, which may be reached at any time.
BeginPayload(t) ==
  /\ t \in Writers /\ pc[t] = "idle" /\ payloads < MaxPayloads /\ mu = None
  /\ payloads' = payloads + 1 /\ published' = published \cup {t}
  /\ load' = [load EXCEPT ![t] = [body |-> payloads + 1, seq |-> 0]]
  /\ \/ rekeys < MaxRekeys /\ rekeys' = rekeys + 1 /\ GoTo(t, "rekey")
     \/ UNCHANGED rekeys /\ GoTo(t, "get_cipher")
  /\ UNCHANGED <<out, items, lockVars, keyVars, connVars, seqCounter, wire, sealed,
                 requests, replay>>

\* The heartbeat ticker of PublishStream.
Heartbeat(t) ==
  /\ t \in Streams /\ pc[t] = "idle"
  /\ out' = [out EXCEPT ![t] = [kind |-> "heartbeat"]]
  /\ GoTo(t, "send")
  /\ UNCHANGED <<load, items, lockVars, keyVars, connVars, seqCounter, wire, sealed,
                 countVars, replay>>

\* The input ends or the context is cancelled.
EndOfInput(t) ==
  /\ t \in Writers /\ pc[t] = "idle"
  /\ Fail(t)
  /\ UNCHANGED <<load, out, items, lockVars, keyVars, connVars, seqCounter, wire,
                 sealed, countVars, replay>>

GetCipher(t) ==
  /\ pc[t] = "get_cipher" /\ mu = None
  /\ IF key = None THEN Fail(t) ELSE GoTo(t, "number")
  /\ UNCHANGED <<load, out, items, lockVars, keyVars, connVars, seqCounter, wire,
                 sealed, countVars, replay>>

\* atomic.AddUint64(&p.seqCounter, 1)
Number(t) ==
  /\ pc[t] = "number"
  /\ seqCounter' = seqCounter + 1
  /\ load' = [load EXCEPT ![t].seq = seqCounter + 1]
  /\ GoTo(t, "push")
  /\ UNCHANGED <<out, items, lockVars, keyVars, connVars, wire, sealed, countVars,
                 replay>>

PushReplay(t) ==
  /\ pc[t] = "push"
  /\ Push(load[t])
  /\ GoTo(t, "seal")
  /\ UNCHANGED <<load, out, items, lockVars, keyVars, connVars, seqCounter, wire,
                 sealed, countVars>>

\* Encrypt fails once the cipher is closed.
Seal(t) ==
  /\ pc[t] = "seal"
  /\ IF key = None
     THEN Fail(t) /\ UNCHANGED <<out, sealed>>
     ELSE LET frame == Sealed("data", load[t].seq, load[t].body)
          IN  /\ sealed' = sealed \cup {frame}
              /\ out' = [out EXCEPT ![t] = frame]
              /\ GoTo(t, "send")
  /\ load' = [load EXCEPT ![t] = None]
  /\ UNCHANGED <<items, lockVars, keyVars, connVars, seqCounter, wire, countVars,
                 replay>>

-----------------------------------------------------------------------------
(* TriggerRekey                                                            *)

LockRekey(t) ==
  /\ pc[t] = "rekey" /\ rekeyMu = None
  /\ rekeyMu' = t
  /\ GoTo(t, "rekey_read")
  /\ UNCHANGED <<load, out, items, mu, writeMu, keyVars, connVars, seqCounter, wire,
                 sealed, countVars, replay>>

ReadKey(t) ==
  /\ pc[t] = "rekey_read" /\ mu = None
  /\ GoTo(t, IF key = None THEN "rekey_end" ELSE "rekey_seal")
  /\ UNCHANGED <<load, out, items, lockVars, keyVars, connVars, seqCounter, wire,
                 sealed, countVars, replay>>

\* The rekey frame carries the salt; it takes a sequence number of its own.
SealRekey(t) ==
  /\ pc[t] = "rekey_seal"
  /\ seqCounter' = seqCounter + 1
  /\ IF key = None
     THEN GoTo(t, "rekey_end") /\ UNCHANGED <<out, sealed>>
     ELSE LET frame == Sealed("rekey", seqCounter + 1, 0)
          IN  /\ sealed' = sealed \cup {frame}
              /\ out' = [out EXCEPT ![t] = frame]
              /\ GoTo(t, "send")
  /\ UNCHANGED <<load, items, lockVars, keyVars, connVars, wire, countVars, replay>>

\* Faulty variant of UpdateKey: the key announced on the wire is not taken up.
UpdateKeySkipped(t) ==
  /\ pc[t] = "rekey_update" /\ mu = None
  /\ rekeyMu' = None
  /\ GoTo(t, "get_cipher")
  /\ UNCHANGED <<load, out, items, mu, writeMu, keyVars, connVars, seqCounter, wire,
                 sealed, countVars, replay>>

\* p.cipher.UpdateKey dereferences p.cipher, which Close may have set to nil.
UpdateKey(t) ==
  /\ pc[t] = "rekey_update" /\ mu = None
  /\ IF key = None
     THEN Panic /\ UNCHANGED <<rekeyMu, keyVars>>
     ELSE /\ key' = key + 1 /\ masterKey' = key + 1
          /\ rekeyMu' = None
          /\ GoTo(t, "get_cipher")
  /\ UNCHANGED <<load, out, items, mu, writeMu, connVars, seqCounter, wire, sealed,
                 countVars, replay>>

\* TriggerRekey returns early; PublishPayload ignores its error.
EndRekey(t) ==
  /\ pc[t] = "rekey_end"
  /\ rekeyMu' = None
  /\ GoTo(t, "get_cipher")
  /\ UNCHANGED <<load, out, items, mu, writeMu, keyVars, connVars, seqCounter, wire,
                 sealed, countVars, replay>>

-----------------------------------------------------------------------------
(* handleSyncRequests and replaySyncForSubscriber                          *)

\* A subscriber's InitSub arrives.
ReceiveInitSub(t) ==
  /\ t \in Syncers /\ pc[t] = "idle" /\ connected /\ ~broken /\ requests < MaxRequests
  /\ requests' = requests + 1
  /\ GoTo(t, "join")
  /\ UNCHANGED <<load, out, items, lockVars, keyVars, connVars, seqCounter, wire,
                 sealed, payloads, rekeys, published, replay>>

\* The joining subscriber is sent the master key, unless Close wiped it.
WrapMasterKey(t) ==
  /\ pc[t] = "join" /\ mu = None
  /\ IF masterKey = None
     THEN GoTo(t, "idle") /\ UNCHANGED out
     ELSE /\ out' = [out EXCEPT ![t] = [kind |-> "step2", key |-> masterKey]]
          /\ GoTo(t, "send")
  /\ UNCHANGED <<load, items, lockVars, keyVars, connVars, seqCounter, wire, sealed,
                 countVars, replay>>

\* A SyncReq arrives and the messages it asks for are copied.
ReceiveSyncReq(t, last) ==
  /\ t \in Syncers /\ pc[t] = "idle" /\ connected /\ ~broken /\ requests < MaxRequests
  /\ requests' = requests + 1
  /\ items' = [items EXCEPT ![t] = GetAfter(last)]
  /\ GoTo(t, "sync")
  /\ UNCHANGED <<load, out, lockVars, keyVars, connVars, seqCounter, wire, sealed,
                 payloads, rekeys, published, replay>>

\* getCipher and getConn: Close clears both in one critical section.
CheckOpen(t) ==
  /\ pc[t] = "sync" /\ mu = None
  /\ IF key = None \/ ~connected
     THEN GoTo(t, "idle") /\ items' = [items EXCEPT ![t] = <<>>]
     ELSE GoTo(t, "replay") /\ UNCHANGED items
  /\ UNCHANGED <<load, out, lockVars, keyVars, connVars, seqCounter, wire, sealed,
                 countVars, replay>>

\* Faulty variant of ReplayItem: numbers the replayed frames anew.
ReplayItemRenumbered(t) ==
  /\ pc[t] = "replay" /\ key # None
  /\ \E i \in DOMAIN items[t] :
       /\ \A j \in DOMAIN items[t] : i <= j
       /\ items' = [items EXCEPT ![t] = [j \in DOMAIN items[t] \ {i} |-> items[t][j]]]
       /\ LET frame == Sealed("data", seqCounter, items[t][i].body)
          IN  sealed' = sealed \cup {frame} /\ out' = [out EXCEPT ![t] = frame]
       /\ GoTo(t, "send")
  /\ UNCHANGED <<load, lockVars, keyVars, connVars, seqCounter, wire, countVars, replay>>

\* The oldest copied message is encrypted under the current key and its
\* original number; once the cipher is closed it is skipped.
ReplayItem(t) ==
  /\ pc[t] = "replay"
  /\ \E i \in DOMAIN items[t] :
       /\ \A j \in DOMAIN items[t] : i <= j
       /\ items' = [items EXCEPT ![t] = [j \in DOMAIN items[t] \ {i} |-> items[t][j]]]
       /\ IF key = None
          THEN UNCHANGED <<pc, out, sealed>>
          ELSE LET frame == Sealed("data", items[t][i].seq, items[t][i].body)
               IN  /\ sealed' = sealed \cup {frame}
                   /\ out' = [out EXCEPT ![t] = frame]
                   /\ GoTo(t, "send")
  /\ UNCHANGED <<load, lockVars, keyVars, connVars, seqCounter, wire, countVars, replay>>

ReplayDone(t) ==
  /\ pc[t] = "replay" /\ DOMAIN items[t] = {}
  /\ GoTo(t, "idle")
  /\ UNCHANGED <<load, out, items, lockVars, keyVars, connVars, seqCounter, wire,
                 sealed, countVars, replay>>

\* The connection is gone, or the context was cancelled.
StopSync(t) ==
  /\ t \in Syncers /\ pc[t] = "idle"
  /\ GoTo(t, "finished")
  /\ UNCHANGED <<load, out, items, lockVars, keyVars, connVars, seqCounter, wire,
                 sealed, countVars, replay>>

-----------------------------------------------------------------------------
(* Close                                                                   *)

LockClose(t) ==
  /\ pc[t] = "close" /\ mu = None
  /\ IF closed
     THEN GoTo(t, "finished") /\ UNCHANGED <<mu, closed>>
     ELSE /\ mu' = t /\ closed' = TRUE
          /\ GoTo(t, IF connected THEN "close_write" ELSE "close_keys")
  /\ UNCHANGED <<load, out, items, writeMu, rekeyMu, keyVars, connected, broken,
                 seqCounter, wire, sealed, countVars, replay>>

\* The CLOSE frame, under p.writeMu while p.mu is held.
WriteClose(t) ==
  /\ pc[t] = "close_write" /\ writeMu = None
  /\ wire' = IF broken THEN wire ELSE Append(wire, [kind |-> "close"])
  /\ GoTo(t, "close_keys")
  /\ UNCHANGED <<load, out, items, lockVars, keyVars, connVars, seqCounter, sealed,
                 countVars, replay>>

\* After the flush delay: connection, cipher, master key and passphrase.
DropKeys(t) ==
  /\ pc[t] = "close_keys"
  /\ connected' = FALSE /\ key' = None /\ masterKey' = None
  /\ GoTo(t, "close_wipe")
  /\ UNCHANGED <<load, out, items, lockVars, broken, closed, seqCounter, wire, sealed,
                 countVars, replay>>

\* Faulty variant of WipeReplay: leaves the buffer as it is.
WipeReplaySkipped(t) ==
  /\ pc[t] = "close_wipe"
  /\ mu' = None
  /\ GoTo(t, "finished")
  /\ UNCHANGED <<load, out, items, writeMu, rekeyMu, keyVars, connVars, seqCounter,
                 wire, sealed, countVars, replay>>

WipeReplay(t) ==
  /\ pc[t] = "close_wipe"
  /\ Wipe
  /\ mu' = None
  /\ GoTo(t, "finished")
  /\ UNCHANGED <<load, out, items, writeMu, rekeyMu, keyVars, connVars, seqCounter,
                 wire, sealed, countVars>>

\* The relay or the network drops the connection.
ConnectionLost ==
  /\ connected /\ ~broken
  /\ broken' = TRUE
  /\ UNCHANGED <<pc, load, out, items, lockVars, keyVars, connected, closed, seqCounter,
                 wire, sealed, countVars, replay>>

-----------------------------------------------------------------------------

Send(t)  == LockWrite(t) \/ WriteFrame(t)
Rekey(t) == LockRekey(t) \/ ReadKey(t) \/ SealRekey(t) \/ UpdateKey(t) \/ EndRekey(t)
Publish(t) == GetCipher(t) \/ Number(t) \/ PushReplay(t) \/ Seal(t)
Input(t) == BeginPayload(t) \/ Heartbeat(t) \/ EndOfInput(t)
Request(t) ==
  ReceiveInitSub(t) \/ StopSync(t) \/ \E last \in 0..seqCounter : ReceiveSyncReq(t, last)
Answer(t) == WrapMasterKey(t) \/ CheckOpen(t) \/ ReplayItem(t) \/ ReplayDone(t)
Close(t) == LockClose(t) \/ WriteClose(t) \/ DropKeys(t) \/ WipeReplay(t)

\* What a goroutine does by itself, with no input from outside.
Run(t) == Send(t) \/ Rekey(t) \/ Publish(t) \/ Answer(t) \/ Close(t)

Next ==
  \/ \E t \in Threads : Run(t) \/ Input(t) \/ Request(t)
  \/ ConnectionLost

Spec == Init /\ [][Next]_vars

\* Goroutines keep running and Go's mutexes are starvation free.
FairSpec == Spec /\ \A t \in Threads : SF_vars(Run(t))

-----------------------------------------------------------------------------
(* Properties                                                              *)

Frames ==
  [kind : {"data", "rekey"}, seq : Nat, body : Nat, key : Nat]
  \cup [kind : {"step2"}, key : Nat] \cup [kind : {"close", "heartbeat"}]

\* What a goroutine may do next.
Labels ==
  {"idle", "rekey", "rekey_read", "rekey_seal", "rekey_update", "rekey_end",
   "get_cipher", "number", "push", "seal", "send", "write", "join", "sync",
   "replay", "close", "close_write", "close_keys", "close_wipe", "finished", "panicked"}

\* A payload and its number.
Message == [body : Nat, seq : Nat]

\* Type correctness (proved in PublisherProofs); the stored master key
\* is always the key of the cipher.
TypeOK ==
  /\ pc \in [Threads -> Labels]
  /\ load \in [Writers -> Message \cup {None}]
  /\ out \in [Threads -> Frames \cup {None}]
  /\ DOMAIN items = Syncers /\ items = [t \in Syncers |-> items[t]]
  /\ \A t \in Syncers : \A i \in DOMAIN items[t] : items[t][i] \in Message
  /\ mu \in Threads \cup {None}
  /\ key \in Nat \cup {None} /\ masterKey = key
  /\ connected \in BOOLEAN /\ closed \in BOOLEAN
  /\ payloads \in Nat /\ seqCounter \in Nat
  /\ wire \in Seq(Frames)
  /\ replay \in Seq(Message)

\* A nonce is the sequence number: under one key, a number is only ever used
\* for one frame with one content, although publishers, the rekey and replays
\* draw and reuse numbers concurrently (PublishPayload, TriggerRekey,
\* replaySyncForSubscriber).
NonceUnique ==
  \A e, f \in sealed : e.key = f.key /\ e.seq = f.seq => e = f

\* Close's CLOSE frame is the last frame of the connection: no goroutine writes
\* after it, although sendFrame and Close look the connection up separately.
CloseIsLast ==
  \A i \in 1..Len(wire) : wire[i].kind = "close" => i = Len(wire)

\* A peer that holds key k after frame n can open every later frame, advancing
\* its key at each rekey frame.
Follows(n, k) ==
  \A i \in (n + 1)..Len(wire) :
    wire[i].kind \in {"data", "rekey"} =>
      wire[i].key = k + Cardinality({j \in (n + 1)..(i - 1) : wire[j].kind = "rekey"})

\* So far only one goroutine has published, and nothing was replayed.
LoneWriter == requests = 0 /\ \A t, u \in published : t = u

\* As long as one goroutine publishes, the subscriber of the initial handshake
\* can open the whole stream, rekeys and Close at any time included.
StreamDecrypts == LoneWriter => Follows(0, 0)

\* Close wipes the replay buffer while publishers may be between getCipher and
\* Push, so payloads may enter it afterwards; but each publishing goroutine adds
\* at most one, and only on its way out of PublishPayload: nothing that was
\* buffered before survives, and an engine that is closed buffers nothing more.
ResidueBounded ==
  closed /\ mu = None /\ (\A t \in Threads : pc[t] # "panicked") =>
    Len(replay) <= Cardinality({t \in Writers : pc[t] \in {"seal", "close", "finished"}})

\* Close's comment: Close terminates the session; every call returns.
CloseReturns ==
  \A t \in Streams \cup Closers : pc[t] = "close" ~> pc[t] = "finished"
=============================================================================
