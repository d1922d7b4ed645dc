-------------------------------- MODULE Feed ---------------------------------
(***************************************************************************)
(* A publisher and one of its subscribers, connected by the relay.         *)
(*                                                                         *)
(* The relay broadcasts every frame the publisher writes to the            *)
(* subscribers registered at that moment and forwards InitSub and SyncReq  *)
(* frames to the publisher (ForwardFromPublisher, ForwardToPublisher).     *)
(* Requests of other subscribers reach the publisher too, and this         *)
(* subscriber sees the answers.  The subscriber is not closed here         *)
(* (Subscriber covers that); its connection may be dropped.                *)
(***************************************************************************)
EXTENDS Publisher, Subscriber

VARIABLES
  asker,   \* the PAKE exchange handleSyncRequests answers, None: another's
  calm     \* history: the publisher was idle at every drop, and nothing
           \* was published or replayed to others since the first

\* The subscriber's variables but its two queues.
readerVars == <<spc, frame, retries, sConn, link, sKey, pake, pakes, pass, lastSeqNum,
               ring, delivered, sClosed, cancelled, drops>>
feedVars   == <<vars, readerVars, inbox, toPub, asker, calm>>

FeedInit == Init /\ SubInit /\ asker = None /\ calm = FALSE

\* Faulty variant of Broadcast: forwards a frame only to an idle subscriber.
BroadcastToIdle ==
  LET Addressed(f) == IF f.kind = "step2"
                      THEN [kind |-> "step2", key |-> f.key, to |-> asker] ELSE f
      new == SubSeq(wire', Len(wire) + 1, Len(wire'))
  IN  inbox' = IF link = "joined" /\ inbox = <<>>
               THEN inbox \o [i \in 1..Len(new) |-> Addressed(new[i])] ELSE inbox

\* What the publisher writes is queued for a subscriber that is registered.
Broadcast ==
  LET Addressed(f) == IF f.kind = "step2"
                      THEN [kind |-> "step2", key |-> f.key, to |-> asker] ELSE f
      new == SubSeq(wire', Len(wire) + 1, Len(wire'))
  IN  inbox' = IF link = "joined"
               THEN inbox \o [i \in 1..Len(new) |-> Addressed(new[i])] ELSE inbox

PublisherStep(t) ==
  /\ Run(t) \/ Input(t) \/ StopSync(t)
  /\ Broadcast
  /\ calm' = (calm /\ payloads' = payloads)
  /\ UNCHANGED <<readerVars, toPub, asker>>

\* handleSyncRequests decodes the next frame of this subscriber.
HandleInitSub(t) ==
  /\ toPub # <<>> /\ Head(toPub).kind = "init"
  /\ ReceiveInitSub(t)
  /\ asker' = Head(toPub).pake /\ toPub' = Tail(toPub)
  /\ UNCHANGED <<readerVars, inbox, calm>>

HandleSyncReq(t) ==
  /\ toPub # <<>> /\ Head(toPub).kind = "sync"
  /\ ReceiveSyncReq(t, Head(toPub).last)
  /\ toPub' = Tail(toPub)
  /\ UNCHANGED <<readerVars, inbox, asker, calm>>

\* ... or a frame of another subscriber.
HandleOther(t) ==
  /\ \/ ReceiveInitSub(t) /\ asker' = None /\ UNCHANGED calm
     \/ /\ \E last \in 0..seqCounter : ReceiveSyncReq(t, last)
        /\ calm' = FALSE /\ UNCHANGED asker
  /\ UNCHANGED <<readerVars, inbox, toPub>>

SubscriberStep ==
  /\ \/ SubRun /\ UNCHANGED calm
     \/ /\ LinkDown
        /\ calm' = ((drops = 0 \/ calm) /\ \A t \in Threads : pc[t] = "idle")
  /\ UNCHANGED <<vars, asker>>

FeedNext ==
  \/ \E t \in Threads : PublisherStep(t)
  \/ \E t \in Syncers : HandleInitSub(t) \/ HandleSyncReq(t) \/ HandleOther(t)
  \/ SubscriberStep

FeedSpec == FeedInit /\ [][FeedNext]_feedVars

\* For TLC: the state without the publisher's histories wire and sealed.  No
\* guard and no property of this module reads them; Broadcast only looks at
\* what a step appends.
FeedView == <<pc, load, out, items, lockVars, keyVars, connVars, seqCounter, countVars,
              replay, readerVars, inbox, toPub, asker, calm>>

-----------------------------------------------------------------------------
(* Properties.  Payloads are numbered in the order they are published, so  *)
(* they are about a publisher with one publishing goroutine.               *)

\* End to end, across drops, replays, rekeys and other subscribers' replays:
\* what comes out was published, and payloads come out in the order in which
\* they went in, none twice (PublishPayload to SubscribeStream's output).
DeliveredAsPublished ==
  /\ \A i \in 1..Len(delivered) : delivered[i].body \in 1..payloads
  /\ \A i, j \in 1..Len(delivered) : i < j => delivered[i].body < delivered[j].body

\* A subscriber that never lost its connection has no gap in its output: it
\* has the payloads 1 to n, although rekeys take numbers out of the sequence
\* and replays for other subscribers repeat numbers on its connection.
UnbrokenDelivery ==
  drops = 0 => \A i \in 1..Len(delivered) : delivered[i].body = i

\* The publisher and the relay have nothing more for the subscriber, which is
\* connected and waits for the next frame.
Quiet ==
  /\ spc = "read" /\ link = "joined" /\ inbox = <<>> /\ toPub = <<>>
  /\ \A t \in Threads : pc[t] = "idle"

\* README: the replay buffer and the automatic reconnect give stream replay
\* upon Wi-Fi drops.  Provided the publisher is quiet from the first drop on
\* (calm: a frame published or replayed meanwhile may overtake the answer, and
\* what it overtakes is never asked for again), the subscriber ends up with
\* every message that the publisher still buffers, whichever frames the drops
\* destroyed and however often it redials.
ReplayFillsGap ==
  Quiet /\ drops > 0 /\ calm =>
    \A i \in 1..Len(replay) : \E j \in 1..Len(delivered) : delivered[j].seq = replay[i].seq

\* A subscriber that never lost its connection is not thrown out by a frame that
\* its key does not open, over all rekeys, as long as nothing is replayed to
\* others: what the publisher sends follows the ratchet (TriggerRekey,
\* SubscribeStream).
StreamKept == drops = 0 /\ requests = 0 /\ spc = "finished" => frame.kind = "close"
=============================================================================
