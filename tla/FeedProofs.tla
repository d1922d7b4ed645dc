------------------------------ MODULE FeedProofs ------------------------------
(***************************************************************************)
(* The subscriber, on its own and behind the relay.                        *)
(*                                                                         *)
(* First the subscriber by itself, with whatever frames arrive: its output *)
(* has no repetition and Close leaves at most the message in hand in its   *)
(* buffer, unless the engine gets a key again.  Then the                   *)
(* publisher, the relay and the subscriber together: Feed implements       *)
(* Publisher, and what the subscriber puts out is what one goroutine       *)
(* published, in that order.  A subscriber that never lost its connection  *)
(* reads the wire as it was written: it misses nothing and follows every   *)
(* rekey.                                                                  *)
(***************************************************************************)
EXTENDS Feed, PublisherProofs

-----------------------------------------------------------------------------
(* The subscriber *)

\* What the relay may forward.
Incoming ==
  [kind : {"data", "rekey"}, seq : Nat, body : Nat, key : Nat]
  \cup [kind : {"step2"}, key : Nat, to : Nat \cup {None, Nil}] \cup [kind : {"close"}]

SubTypes ==
  /\ inbox \in Seq(Incoming) /\ frame \in Incoming \cup {Nil}
  /\ delivered \in Seq(Message) /\ ring \in Seq(Message)
  /\ lastSeqNum \in Nat /\ pakes \in Nat /\ pake \in Nat \cup {Nil}
  /\ spc \in {"open", "dedup", "store"} => frame \in Incoming /\ frame.kind \in {"data", "rekey"}
  /\ spc \in {"dedup", "store"} => frame.kind = "data"

\* lastSeqNum is the highest number of the output; it runs ahead of it between
\* the deduplication and the output.
Deduplicated ==
  /\ \A i \in 1..Len(delivered) : delivered[i].seq <= lastSeqNum
  /\ spc = "store" => /\ frame.seq = lastSeqNum
                      /\ \A i \in 1..Len(delivered) : delivered[i].seq < lastSeqNum
  /\ DeliveredOnce

\* What the output is built from.
dataOf == <<lastSeqNum, ring, delivered>>

SubInv == SubTypes /\ Deduplicated

\* The tail of a sequence.
LEMMA TailOf ==
  ASSUME NEW S, NEW q \in Seq(S), q # <<>>
  PROVE  /\ Tail(q) \in Seq(S) /\ Len(Tail(q)) = Len(q) - 1
         /\ \A i \in 1..(Len(q) - 1) : Tail(q)[i] = q[i + 1]
OBVIOUS

\* A sequence with an element more.
LEMMA AppendTo ==
  ASSUME NEW S, NEW q \in Seq(S), NEW e \in S
  PROVE  /\ Append(q, e) \in Seq(S) /\ Len(Append(q, e)) = Len(q) + 1
         /\ Append(q, e)[Len(q) + 1] = e
         /\ \A i \in 1..Len(q) : Append(q, e)[i] = q[i]
OBVIOUS

\* What may be in the tail ...
LEMMA Remaining ==
  ASSUME NEW S, NEW q \in Seq(S), q # <<>>, NEW p, p = Tail(q)
  PROVE  \A i \in 1..Len(p) : i + 1 \in 1..Len(q) /\ p[i] = q[i + 1]
BY TailOf

\* ... and in the longer sequence.
LEMMA Added ==
  ASSUME NEW S, NEW q \in Seq(S), NEW e \in S
  PROVE  /\ Append(q, e) \in Seq(S)
         /\ \A i \in 1..Len(Append(q, e)) :
              (i \in 1..Len(q) /\ Append(q, e)[i] = q[i]) \/ Append(q, e)[i] = e
BY AppendTo

\* A message of a sequence has a number and a body.
LEMMA MessageNumbers ==
  ASSUME NEW s \in Seq(Message), NEW i \in 1..Len(s)
  PROVE  s[i] \in Message /\ s[i].seq \in Nat /\ s[i].body \in Nat
<1>1. s[i] \in Message
  OBVIOUS
<1>. QED  BY <1>1, Zenon DEF Message

\* The steps that touch neither the output nor what it is built from.
LEMMA SubFrame ==
  ASSUME SubInv, inbox' \in Seq(Incoming), UNCHANGED <<frame, dataOf>>,
         pakes' \in Nat, pake' \in Nat \cup {Nil},
         \/ spc' = spc
         \/ spc' \notin {"open", "dedup", "store"}
         \/ spc = "open" /\ spc' = "dedup" /\ frame.kind = "data"
  PROVE  SubInv'
BY Zenon DEF SubInv, SubTypes, Deduplicated, dataOf, DeliveredOnce

\* The subscriber's steps keep its invariant.
LEMMA SubStep ==
  ASSUME SubInv, SubRun \/ SubClose \/ Cancel \/ LinkDown
  PROVE  SubInv'
<1>. USE DEF SubGoTo, streamVars, linkVars, subKeyVars, dataVars, endVars
<1>0. SubTypes
  BY Zenon DEF SubInv
<1>01. <<>> \in Seq(Incoming)
  OBVIOUS
<1>1. CASE LoopTop \/ ReadError \/ GetRekeyKey \/ ApplyRekey
  BY <1>0, <1>1, SubFrame DEF LoopTop, ReadError, GetRekeyKey, ApplyRekey,
     SubTypes, dataOf
<1>2. CASE OpenFrame
  BY <1>0, <1>2, SubFrame, Zenon DEF OpenFrame, SubTypes, dataOf
<1>3. CASE Reconnect
  <2>1. /\ inbox' = inbox \/ inbox' = <<>>
        /\ UNCHANGED <<frame, lastSeqNum, ring, delivered, sClosed>>
        /\ spc' \notin {"open", "dedup", "store"}
        /\ (pakes' = pakes /\ pake' = pake) \/ (pakes' = pakes + 1 /\ pake' = pakes + 1)
    BY <1>3, Zenon DEF Reconnect, GiveUp, TryAgain, NewPake, DialFails,
       Dial, SetConn, SendInitSub
  <2>2. inbox' \in Seq(Incoming)
    BY <1>0, <1>01, <2>1, Zenon DEF SubTypes
  <2>3. pakes' \in Nat /\ pake' \in Nat \cup {Nil}
    <3>1. pakes \in Nat /\ pake \in Nat \cup {Nil}
      BY <1>0, Zenon DEF SubTypes
    <3>2. pakes + 1 \in Nat
      BY <3>1
    <3>. QED  BY <2>1, <3>1, <3>2, Zenon
  <2>. QED  BY <2>1, <2>2, <2>3, SubFrame, Zenon DEF dataOf
<1>4. CASE HandshakeFails \/ PakeUpdate \/ PakeConfirm \/ PakeSessionKey
             \/ SetCipher \/ DropConn \/ SendSyncRequest
  BY <1>0, <1>4, SubFrame DEF HandshakeFails, PakeUpdate, PakeConfirm,
     PakeSessionKey, SetCipher, DropConn, SendSyncRequest, SubTypes, dataOf
<1>5. CASE Cancel \/ LinkDown
  <2>1. /\ inbox' = inbox \/ inbox' = <<>>
        /\ UNCHANGED <<spc, frame, lastSeqNum, ring, delivered, sClosed, pakes, pake>>
    BY <1>5, Zenon DEF Cancel, LinkDown
  <2>. QED  BY <1>0, <1>01, <2>1, SubFrame, Zenon DEF SubTypes, dataOf
<1>6. CASE ReadFrame \/ HandshakeFrame
  <2>1. /\ inbox # <<>> /\ frame' = Head(inbox) /\ inbox' = Tail(inbox)
        /\ UNCHANGED <<lastSeqNum, ring, delivered, pake, pakes, sClosed>>
    BY <1>6, Zenon DEF ReadFrame, HandshakeFrame
  <2>2. frame' \in Incoming /\ inbox' \in Seq(Incoming)
    BY <1>0, <2>1 DEF SubTypes
  <2>3. /\ spc' \notin {"dedup", "store"}
        /\ spc' = "open" => frame'.kind \in {"data", "rekey"}
    BY <1>6, Zenon DEF ReadFrame, HandshakeFrame
  <2>. QED  BY <2>1, <2>2, <2>3, Zenon DEF SubInv, SubTypes, Deduplicated, DeliveredOnce
<1>7. CASE Deduplicate
  <2>1. frame \in Incoming /\ frame.kind = "data" /\ frame.seq \in Nat
    BY <1>0, <1>7, Zenon DEF Deduplicate, SubTypes, Incoming
  <2>2. UNCHANGED <<inbox, frame, ring, delivered, pake, pakes, sClosed>>
    BY <1>7, Zenon DEF Deduplicate
  <2>3. \/ spc' = "top" /\ lastSeqNum' = lastSeqNum
        \/ spc' = "store" /\ lastSeqNum' = frame.seq /\ lastSeqNum < frame.seq
    BY <1>0, <1>7, <2>1 DEF Deduplicate, SubTypes
  <2>4. SubTypes'
    BY <1>0, <2>1, <2>2, <2>3 DEF SubTypes
  <2>5. \A i \in 1..Len(delivered) : delivered[i].seq \in Nat
    BY <1>0, MessageNumbers DEF SubTypes
  <2>6. Deduplicated'
    <3>1. lastSeqNum \in Nat /\ \A i \in 1..Len(delivered) : delivered[i].seq <= lastSeqNum
      BY <1>0, Zenon DEF SubTypes, SubInv, Deduplicated
    <3>2. \A i \in 1..Len(delivered) : lastSeqNum < frame.seq => delivered[i].seq < frame.seq
      BY <2>1, <2>5, <3>1
    <3>3. CASE spc' = "top" /\ lastSeqNum' = lastSeqNum
      BY <2>2, <3>1, <3>3, Zenon DEF SubInv, Deduplicated, DeliveredOnce
    <3>4. CASE spc' = "store" /\ lastSeqNum' = frame.seq /\ lastSeqNum < frame.seq
      <4>1. \A i \in 1..Len(delivered) : delivered[i].seq < frame.seq
        BY <3>2, <3>4, Zenon
      <4>2. \A i \in 1..Len(delivered) : delivered[i].seq <= frame.seq
        BY <2>1, <2>5, <4>1
      <4>. QED  BY <2>2, <3>4, <4>1, <4>2, Zenon DEF SubInv, Deduplicated, DeliveredOnce
    <3>. QED  BY <2>3, <3>3, <3>4, Zenon
  <2>. QED  BY <2>4, <2>6, Zenon DEF SubInv
<1>8. CASE StoreMessage
  <2>. DEFINE m == [seq |-> frame.seq, body |-> frame.body]
  <2>1. /\ spc = "store" /\ spc' = "top" /\ Ring!Push(m) /\ delivered' = Append(delivered, m)
        /\ UNCHANGED <<inbox, frame, lastSeqNum, pake, pakes, sClosed>>
    BY <1>8, Zenon DEF StoreMessage
  <2>2. m \in Message /\ m.seq = frame.seq
    BY <1>0, <2>1, Zenon DEF SubTypes, Incoming, Message
  <2>. HIDE DEF m
  <2>3. delivered' \in Seq(Message) /\ ring' \in Seq(Message)
    BY <1>0, <2>1, <2>2, SubscriberAssumption DEF SubTypes, Ring!Push
  <2>4. SubTypes'
    BY <1>0, <2>1, <2>3, Zenon DEF SubTypes
  <2>5. \A i \in 1..Len(delivered) : delivered[i].seq \in Nat
    BY <1>0, MessageNumbers DEF SubTypes
  <2>6. \A i \in 1..Len(delivered') : IF i = Len(delivered) + 1 THEN delivered'[i] = m
                                      ELSE i \in 1..Len(delivered) /\ delivered'[i] = delivered[i]
    BY <1>0, <2>1 DEF SubTypes
  <2>7. Deduplicated'
    <3>1. m.seq = lastSeqNum /\ lastSeqNum \in Nat
          /\ \A i \in 1..Len(delivered) : delivered[i].seq < lastSeqNum
      BY <1>0, <2>1, <2>2, Zenon DEF SubInv, SubTypes, Deduplicated
    <3>2. \A i \in 1..Len(delivered') : delivered'[i].seq <= lastSeqNum
      BY <2>5, <2>6, <3>1
    <3>3. DeliveredOnce'
      <4>. SUFFICES ASSUME NEW i \in 1..Len(delivered'), NEW j \in 1..Len(delivered'), i < j
                    PROVE  delivered'[i].seq < delivered'[j].seq
        BY Zenon DEF DeliveredOnce
      <4>1. i # Len(delivered) + 1 /\ Len(delivered') = Len(delivered) + 1 /\ Len(delivered) \in Nat
        BY <1>0, <2>1 DEF SubTypes
      <4>2. CASE j = Len(delivered) + 1
        BY <2>6, <3>1, <4>1, <4>2
      <4>3. CASE j # Len(delivered) + 1
        BY <2>6, <4>1, <4>3 DEF SubInv, Deduplicated, DeliveredOnce
      <4>. QED  BY <4>2, <4>3, Zenon
    <3>. QED  BY <2>1, <3>2, <3>3, Zenon DEF Deduplicated
  <2>. QED  BY <2>4, <2>7, Zenon DEF SubInv
<1>9. CASE SubClose
  <2>1. /\ UNCHANGED <<spc, inbox, frame, lastSeqNum, delivered, pakes>>
        /\ sClosed' /\ ring' = <<>> /\ pake' = Nil
    BY <1>9, Zenon DEF SubClose, Ring!Wipe
  <2>. QED  BY <2>1 DEF SubInv, SubTypes, Deduplicated, DeliveredOnce
<1>. QED
  BY <1>1, <1>2, <1>3, <1>4, <1>5, <1>6, <1>7, <1>8, <1>9, Zenon DEF SubRun, Stream, Handshake

\* Whatever arrives keeps it.
LEMMA SubArrival ==
  ASSUME SubInv, NEW f \in Incoming, inbox' = Append(inbox, f),
         UNCHANGED <<spc, frame, dataOf, pakes, pake, sClosed>>
  PROVE  SubInv'
<1>1. inbox' \in Seq(Incoming)
  BY DEF SubInv, SubTypes
<1>. QED  BY <1>1, SubFrame, Zenon DEF SubInv, SubTypes

\* The subscriber's invariant after the first handshake.
LEMMA SubStarts == SubInit => SubInv
<1>. SUFFICES ASSUME SubInit PROVE SubInv
  BY Zenon
<1>. USE SubscriberAssumption
<1>1. ring = <<>> /\ delivered = <<>> /\ inbox = <<>> /\ Len(delivered) = 0
  BY Zenon DEF SubInit, Ring!LogInit
<1>. QED  BY <1>1 DEF SubInit, SubInv, SubTypes, Deduplicated, DeliveredOnce

\* The subscriber's invariant, with whatever frames arrive.
THEOREM SubscriberInvariance == SubSpec => []SubInv
<1>1. SubInit => SubInv
  BY SubStarts, Zenon
<1>2. SubInv /\ [SubNext]_subVars => SubInv'
  <2>. SUFFICES ASSUME SubInv, [SubNext]_subVars PROVE SubInv'
    BY Zenon
  <2>1. CASE SubRun \/ SubClose \/ Cancel \/ LinkDown
    BY <2>1, SubStep, Zenon
  <2>2. ASSUME NEW f \in Sendable, Arrive(f) PROVE SubInv'
    <3>1. f \in Incoming
      <4>1. pakes \in Nat
        BY Zenon DEF SubInv, SubTypes
      <4>. QED  BY <4>1 DEF Sendable, Incoming
    <3>. QED  BY <2>2, <3>1, SubArrival DEF Arrive, streamVars, subKeyVars,
         dataVars, endVars, dataOf
  <2>3. CASE UNCHANGED subVars
    BY <2>3, SubFrame, Zenon DEF subVars, streamVars, linkVars, subKeyVars,
       dataVars, endVars, dataOf, SubInv, SubTypes
  <2>. QED  BY <2>1, <2>2, <2>3, Zenon DEF SubNext
<1>. QED  BY <1>1, <1>2, PTL DEF SubSpec

\* The output gets messages of strictly increasing numbers, whatever arrives, for
\* any number of drops, reconnections and rekeys (SubscribeStream's
\* deduplication).
THEOREM OutputOnce == SubSpec => []DeliveredOnce
<1>1. SubInv => DeliveredOnce
  BY DEF SubInv, Deduplicated
<1>. QED  BY <1>1, SubscriberInvariance, PTL

\* A closed engine has an empty buffer while the message in hand is still to be
\* pushed; the answer that gives it a key carries one.
Residue ==
  /\ sKey \in Nat \cup {Nil}
  /\ spc \in {"pake_update", "pake_confirm", "pake_key", "set_cipher"} =>
       frame \in Incoming /\ frame.kind = "step2"
  /\ sClosed /\ sKey = Nil =>
       Len(ring) <= 1 /\ (spc \in {"dedup", "store"} => ring = <<>>)

\* The steps that leave the buffer, the key and the frame in hand alone.
LEMMA BufferFrame ==
  ASSUME Residue, UNCHANGED <<frame, ring, sKey, sClosed>>,
         \/ spc' = spc
         \/ spc' \notin {"dedup", "store", "pake_update", "pake_confirm", "pake_key", "set_cipher"}
         \/ spc = "dedup" /\ spc' = "store"
         \/ spc' = "dedup" /\ sKey # Nil
         \/ spc = "pake_update" /\ spc' = "pake_confirm"
         \/ spc = "pake_confirm" /\ spc' = "pake_key"
         \/ spc = "pake_key" /\ spc' = "set_cipher"
  PROVE  Residue'
BY Zenon DEF Residue

\* The subscriber's steps leave at most that message.
LEMMA BufferStep ==
  ASSUME SubTypes, Residue, SubRun \/ SubClose \/ Cancel \/ LinkDown
  PROVE  Residue'
<1>. USE DEF SubGoTo, streamVars, linkVars, subKeyVars, dataVars, endVars
<1>1. CASE LoopTop \/ ReadError \/ GetRekeyKey \/ Deduplicate \/ Cancel \/ LinkDown
  BY <1>1, BufferFrame, Zenon DEF LoopTop, ReadError, GetRekeyKey, Deduplicate, Cancel, LinkDown
<1>2. CASE Reconnect
  BY <1>2, BufferFrame, Zenon DEF Reconnect, GiveUp, TryAgain, NewPake, DialFails,
     Dial, SetConn, SendInitSub
<1>3. CASE HandshakeFails \/ PakeUpdate \/ PakeConfirm \/ PakeSessionKey \/ DropConn
             \/ SendSyncRequest
  BY <1>3, BufferFrame, Zenon DEF HandshakeFails, PakeUpdate, PakeConfirm,
     PakeSessionKey, DropConn, SendSyncRequest
<1>4. CASE OpenFrame
  <2>1. spc = "open" /\ UNCHANGED <<frame, ring, sKey, sClosed>>
        /\ (spc' = "finished" \/ spc' = "rekey_key" \/ (spc' = "dedup" /\ frame.key = sKey))
    BY <1>4, Zenon DEF OpenFrame
  <2>2. frame.key # Nil
    BY <2>1, SubscriberAssumption DEF SubTypes, Incoming
  <2>. QED  BY <2>1, <2>2, BufferFrame, Zenon
<1>5. CASE ReadFrame \/ HandshakeFrame
  <2>1. /\ inbox # <<>> /\ frame' = Head(inbox) /\ UNCHANGED <<ring, sKey, sClosed>>
        /\ spc' \in {"finished", "open", "top", "drop", "pake_update"}
        /\ spc' = "pake_update" => frame'.kind = "step2"
    BY <1>5, Zenon DEF ReadFrame, HandshakeFrame
  <2>2. frame' \in Incoming
    BY <2>1 DEF SubTypes
  <2>. QED  BY <2>1, <2>2, Zenon DEF Residue
<1>6. CASE StoreMessage
  <2>. DEFINE m == [seq |-> frame.seq, body |-> frame.body]
  <2>1. spc = "store" /\ spc' = "top" /\ Ring!Push(m) /\ UNCHANGED <<frame, sKey, sClosed>>
    BY <1>6, Zenon DEF StoreMessage
  <2>2. ASSUME sClosed, sKey = Nil PROVE Len(ring') <= 1
    <3>1. ring = <<>>
      BY <2>1, <2>2, Zenon DEF Residue
    <3>. HIDE DEF m
    <3>2. ring' = <<m>>
      BY <2>1, <3>1, SubscriberAssumption DEF Ring!Push
    <3>. QED  BY <3>2
  <2>. QED  BY <2>1, <2>2, Zenon DEF Residue
<1>7. CASE SetCipher \/ ApplyRekey
  <2>1. sKey' \in Nat \/ (sKey' = sKey /\ spc' = "panicked")
    BY <1>7 DEF SetCipher, ApplyRekey, Residue, Incoming
  <2>2. /\ UNCHANGED <<frame, ring, sClosed>>
        /\ spc' \in {"sync_req", "top", "panicked"}
    BY <1>7, Zenon DEF SetCipher, ApplyRekey
  <2>3. sKey' \in Nat => sKey' # Nil
    BY SubscriberAssumption, Zenon
  <2>. QED  BY <2>1, <2>2, <2>3, Zenon DEF Residue
<1>8. CASE SubClose
  <2>1. UNCHANGED <<spc, frame>> /\ sKey' = Nil /\ ring' = <<>>
    BY <1>8, Zenon DEF SubClose, Ring!Wipe
  <2>. QED  BY <2>1 DEF Residue
<1>. QED
  BY <1>1, <1>2, <1>3, <1>4, <1>5, <1>6, <1>7, <1>8, Zenon DEF SubRun, Stream, Handshake

\* After Close the RAM buffer holds at most the message that was in hand, unless
\* a reconnection under way gives the engine a key again; for every capacity and
\* whatever arrives (Close, ringBuffer.Push).
THEOREM ClosedKeepsOne == SubSpec => []ResidueAfterClose
<1>1. SubInit => Residue
  <2>1. 0 \in Nat /\ 0 # Nil
    BY SubscriberAssumption
  <2>. QED  BY <2>1, Zenon DEF SubInit, Residue
<1>2. SubInv /\ Residue /\ [SubNext]_subVars => Residue'
  <2>. SUFFICES ASSUME SubInv, Residue, [SubNext]_subVars PROVE Residue'
    BY Zenon
  <2>1. CASE SubRun \/ SubClose \/ Cancel \/ LinkDown
    BY <2>1, BufferStep, Zenon DEF SubInv
  <2>2. ASSUME NEW f \in Sendable, Arrive(f) PROVE Residue'
    BY <2>2, BufferFrame, Zenon DEF Arrive, streamVars, subKeyVars, dataVars, endVars
  <2>3. CASE UNCHANGED subVars
    BY <2>3, BufferFrame, Zenon DEF subVars, streamVars, subKeyVars, dataVars, endVars
  <2>. QED  BY <2>1, <2>2, <2>3, Zenon DEF SubNext
<1>3. Residue => ResidueAfterClose
  BY Zenon DEF Residue, ResidueAfterClose
<1>. QED  BY <1>1, <1>2, <1>3, SubscriberInvariance, PTL DEF SubSpec

-----------------------------------------------------------------------------
(* The relay between the two *)

\* What the relay queues for the subscriber when the publisher writes f.
Forwarded(f) ==
  IF f.kind = "step2" THEN [kind |-> "step2", key |-> f.key, to |-> asker] ELSE f

\* What Broadcast does when nothing, or one frame, is written.
LEMMA BroadcastFrame ==
  ASSUME wire \in Seq(Frames), inbox \in Seq(Incoming), Broadcast
  PROVE  /\ wire' = wire => inbox' = inbox
         /\ \A f \in Frames : wire' = Append(wire, f) =>
              inbox' = IF link = "joined" THEN Append(inbox, Forwarded(f)) ELSE inbox
<1>. DEFINE new == SubSeq(wire', Len(wire) + 1, Len(wire'))
            more == [i \in 1..Len(new) |-> Forwarded(new[i])]
<1>1. inbox' = IF link = "joined" THEN inbox \o more ELSE inbox
  BY Zenon DEF Broadcast, Forwarded
<1>2. ASSUME wire' = wire PROVE inbox' = inbox
  <2>1. 1..Len(new) = {}
    BY <1>2
  <2>. HIDE DEF new
  <2>2. more = <<>>
    BY <2>1
  <2>. HIDE DEF more
  <2>. QED  BY <1>1, <2>2
<1>3. ASSUME NEW f \in Frames, wire' = Append(wire, f)
      PROVE  inbox' = IF link = "joined" THEN Append(inbox, Forwarded(f)) ELSE inbox
  <2>1. Len(wire') = Len(wire) + 1 /\ Len(wire) \in Nat
        /\ wire'[Len(wire) + 1] = f /\ wire' \in Seq(Frames)
    BY <1>3
  <2>2. new \in Seq(Frames) /\ Len(new) = 1 /\ new[1] = f
    BY <2>1
  <2>. HIDE DEF new
  <2>3. more = <<Forwarded(f)>>
    BY <2>2
  <2>. HIDE DEF more
  <2>4. inbox \o <<Forwarded(f)>> = Append(inbox, Forwarded(f))
    OBVIOUS
  <2>. QED  BY <1>1, <2>3, <2>4
<1>. QED  BY <1>2, <1>3

\* What the relay forwards to the publisher.
Asks == [kind : {"init"}, pake : Nat \cup {Nil}] \cup [kind : {"sync"}, last : Nat]

\* What travels to the subscriber, what it has in hand and what it has put out
\* was sealed by the publisher; it asks for what follows a number in use.
Flow ==
  /\ toPub \in Seq(Asks) /\ asker \in Nat \cup {None, Nil}
  /\ \A i \in 1..Len(toPub) : toPub[i].kind = "sync" => toPub[i].last <= seqCounter
  /\ lastSeqNum <= seqCounter
  /\ \A i \in 1..Len(inbox) : inbox[i].kind \in Ciphered => inbox[i] \in sealed
  /\ spc \in {"open", "dedup", "store"} => frame \in sealed
  /\ \A i \in 1..Len(delivered) : \E e \in sealed :
       e.kind = "data" /\ e.seq = delivered[i].seq /\ e.body = delivered[i].body

FeedInv == IInv /\ OutSealed /\ SubInv /\ Flow

\* A step of Feed is one of the publisher's, seen by the relay, or one of the
\* subscriber's.
PubMove ==
  /\ [Next]_vars /\ UNCHANGED readerVars
  /\ toPub' = toPub \/ (toPub # <<>> /\ toPub' = Tail(toPub))
  /\ asker' \in Nat \cup {None, Nil}
  /\ Broadcast \/ UNCHANGED <<wire, inbox>>

SubMove == (SubRun \/ LinkDown) /\ UNCHANGED <<vars, asker>>

\* Every step of the feed is one of these.
LEMMA Moves ==
  ASSUME TypeOK, Flow, [FeedNext]_feedVars
  PROVE  PubMove \/ SubMove
<1>1. toPub # <<>> => /\ Head(toPub) \in Asks
                      /\ Head(toPub).kind = "sync" => Head(toPub).last <= seqCounter
  BY DEF Flow
<1>2. asker \in Nat \cup {None, Nil}
  BY Zenon DEF Flow
<1>3. ASSUME NEW t \in Threads, PublisherStep(t) PROVE PubMove
  <2>1. Next
    BY <1>3, Zenon DEF PublisherStep, Next, Request
  <2>. QED  BY <1>2, <1>3, <2>1 DEF PublisherStep, PubMove
<1>4. ASSUME NEW t \in Syncers, HandleInitSub(t) PROVE PubMove
  <2>1. Next
    BY <1>4, Zenon DEF HandleInitSub, Next, Request, Threads
  <2>2. Head(toPub).pake \in Nat \cup {Nil}
    BY <1>1, <1>4, Zenon DEF HandleInitSub, Asks
  <2>3. wire' = wire
    BY <1>4, Zenon DEF HandleInitSub, ReceiveInitSub
  <2>. QED  BY <1>4, <2>1, <2>2, <2>3 DEF HandleInitSub, PubMove
<1>5. ASSUME NEW t \in Syncers, HandleSyncReq(t) PROVE PubMove
  <2>1. Head(toPub).last \in 0..seqCounter
    <3>1. toPub # <<>> /\ Head(toPub).kind = "sync"
      BY <1>5, Zenon DEF HandleSyncReq
    <3>2. Head(toPub).last \in Nat
      BY <1>1, <3>1, Zenon DEF Asks
    <3>. QED  BY <1>1, <3>1, <3>2 DEF TypeOK
  <2>2. Next
    BY <1>5, <2>1, Zenon DEF HandleSyncReq, Next, Request, Threads
  <2>3. wire' = wire
    BY <1>5, Zenon DEF HandleSyncReq, ReceiveSyncReq
  <2>. QED  BY <1>2, <1>5, <2>2, <2>3 DEF HandleSyncReq, PubMove
<1>6. ASSUME NEW t \in Syncers, HandleOther(t) PROVE PubMove
  <2>1. Next
    BY <1>6, Zenon DEF HandleOther, Next, Request, Threads
  <2>2. wire' = wire
    BY <1>6, Zenon DEF HandleOther, ReceiveInitSub, ReceiveSyncReq
  <2>3. asker' = asker \/ asker' = None
    BY <1>6, Zenon DEF HandleOther
  <2>. QED  BY <1>2, <1>6, <2>1, <2>2, <2>3, Zenon DEF HandleOther, PubMove
<1>7. CASE SubscriberStep
  BY <1>7, Zenon DEF SubscriberStep, SubMove
<1>8. CASE UNCHANGED feedVars
  <2>1. UNCHANGED <<vars, wire, readerVars, inbox, toPub, asker>>
    BY <1>8, Zenon DEF feedVars, vars
  <2>. QED  BY <1>2, <2>1 DEF PubMove
<1>. QED  BY <1>3, <1>4, <1>5, <1>6, <1>7, <1>8 DEF FeedNext

\* The publisher's steps.
LEMMA PubMoveFlow ==
  ASSUME FeedInv, PubMove
  PROVE  FeedInv'
<1>1. [Next]_vars /\ UNCHANGED readerVars
  BY Zenon DEF PubMove
<1>2. IInv'
  BY <1>1, IInvStep, Zenon DEF FeedInv
<1>3. OutSealed'
  BY <1>1, OutSealedStep, Zenon DEF FeedInv
<1>4. sealed \subseteq sealed' /\ seqCounter <= seqCounter' /\ seqCounter \in Nat /\ seqCounter' \in Nat
  BY <1>1, <1>2, HistoryGrows DEF FeedInv, IInv, TypeOK
<1>5. /\ inbox \in Seq(Incoming) /\ wire \in Seq(Frames)
      /\ \A i \in 1..Len(inbox) : inbox[i].kind \in Ciphered => inbox[i] \in sealed
  BY Zenon DEF FeedInv, SubInv, SubTypes, Flow, IInv, TypeOK
<1>6. \/ inbox' = inbox
      \/ \E g \in Incoming : inbox' = Append(inbox, g) /\ (g.kind \in Ciphered => g \in sealed)
  <2>1. CASE UNCHANGED <<wire, inbox>>
    BY <2>1, Zenon
  <2>2. CASE Broadcast /\ wire' = wire
    BY <1>5, <2>2, BroadcastFrame
  <2>3. ASSUME Broadcast, NEW f \in Frames, wire' = Append(wire, f), f.kind # "heartbeat",
               f.kind \in Ciphered => f \in sealed
        PROVE  \/ inbox' = inbox
               \/ \E g \in Incoming : /\ inbox' = Append(inbox, g)
                                      /\ g.kind \in Ciphered => g \in sealed
    <3>1. inbox' = inbox \/ inbox' = Append(inbox, Forwarded(f))
      BY <1>5, <2>3, BroadcastFrame
    <3>2. asker \in Nat \cup {None, Nil}
      BY Zenon DEF FeedInv, Flow
    <3>3. Forwarded(f) \in Incoming
      BY <2>3, <3>2 DEF Frames, Incoming, Forwarded
    <3>4. Forwarded(f).kind \in Ciphered => Forwarded(f) \in sealed
      BY <2>3, Zenon DEF Forwarded, Ciphered
    <3>. QED  BY <3>1, <3>3, <3>4
  <2>. QED  BY <1>1, <2>1, <2>2, <2>3, WireGrows DEF FeedInv, PubMove
<1>7. SubInv'
  <2>1. UNCHANGED <<spc, frame, lastSeqNum, ring, delivered, pake, pakes, sClosed>>
    BY <1>1, Zenon DEF readerVars
  <2>2. inbox' \in Seq(Incoming)
    BY <1>5, <1>6
  <2>. QED  BY <2>1, <2>2, SubFrame DEF FeedInv, SubInv, SubTypes, dataOf
<1>8. Flow'
  <2>1. UNCHANGED <<spc, frame, lastSeqNum, delivered>>
    BY <1>1, Zenon DEF readerVars
  <2>2. /\ toPub' \in Seq(Asks)
        /\ \A i \in 1..Len(toPub') : toPub'[i].kind = "sync" => toPub'[i].last <= seqCounter'
    <3>0. toPub \in Seq(Asks)
          /\ \A i \in 1..Len(toPub) : toPub[i].kind = "sync" => toPub[i].last <= seqCounter'
      <4>1. toPub \in Seq(Asks)
            /\ \A i \in 1..Len(toPub) : toPub[i].kind = "sync" => toPub[i].last <= seqCounter
        BY Zenon DEF FeedInv, Flow
      <4>2. ASSUME NEW i \in 1..Len(toPub), toPub[i].kind = "sync" PROVE toPub[i].last \in Nat
        <5>1. toPub[i] \in Asks
          BY <4>1
        <5>. QED  BY <4>2, <5>1, Zenon DEF Asks
      <4>. QED  BY <1>4, <4>1, <4>2
    <3>1. CASE toPub' = toPub
      BY <3>0, <3>1, Zenon
    <3>2. CASE toPub # <<>> /\ toPub' = Tail(toPub)
      <4>1. \A i \in 1..Len(toPub') : i + 1 \in 1..Len(toPub) /\ toPub'[i] = toPub[i + 1]
        BY <3>0, <3>2
      <4>. QED  BY <3>0, <3>2, <4>1
    <3>. QED  BY <3>1, <3>2, Zenon DEF PubMove
  <2>3. lastSeqNum' <= seqCounter'
    BY <1>4, <2>1 DEF FeedInv, Flow, SubInv, SubTypes
  <2>4. \A i \in 1..Len(inbox') : inbox'[i].kind \in Ciphered => inbox'[i] \in sealed'
    <3>1. CASE inbox' = inbox
      BY <1>4, <1>5, <3>1
    <3>2. ASSUME NEW g \in Incoming, inbox' = Append(inbox, g), g.kind \in Ciphered => g \in sealed,
                 NEW i \in 1..Len(inbox'), inbox'[i].kind \in Ciphered
          PROVE  inbox'[i] \in sealed'
      <4>1. (i \in 1..Len(inbox) /\ inbox'[i] = inbox[i]) \/ inbox'[i] = g
        BY <1>5, <3>2
      <4>. QED  BY <1>4, <1>5, <3>2, <4>1
    <3>. QED  BY <1>6, <3>1, <3>2
  <2>5. spc' \in {"open", "dedup", "store"} => frame' \in sealed'
    BY <1>4, <2>1, Zenon DEF FeedInv, Flow
  <2>6. \A i \in 1..Len(delivered') : \E e \in sealed' :
          e.kind = "data" /\ e.seq = delivered'[i].seq /\ e.body = delivered'[i].body
    BY <1>4, <2>1 DEF FeedInv, Flow
  <2>. QED  BY <2>2, <2>3, <2>4, <2>5, <2>6 DEF Flow, PubMove
<1>. QED  BY <1>2, <1>3, <1>7, <1>8 DEF FeedInv

\* Which of the subscriber's steps change its queues, its frame and its output.
LEMMA SubChanges ==
  ASSUME SubMove
  PROVE  /\ toPub' = toPub \/ SendInitSub \/ SendSyncRequest
         /\ \/ inbox' = inbox \/ inbox' = <<>>
            \/ inbox # <<>> /\ inbox' = Tail(inbox) /\ frame' = Head(inbox)
         /\ \/ ReadFrame \/ spc' \notin {"open", "dedup", "store"}
            \/ frame' = frame /\ spc \in {"open", "dedup", "store"}
         /\ Deduplicate \/ lastSeqNum' = lastSeqNum
         /\ StoreMessage \/ delivered' = delivered
BY DEF SubMove, SubRun, Stream, Reconnect, Handshake, LoopTop, ReadFrame,
   ReadError, OpenFrame, GetRekeyKey, ApplyRekey, Deduplicate,
   StoreMessage, GiveUp, TryAgain, NewPake, DialFails, Dial, SetConn,
   SendInitSub, HandshakeFrame, HandshakeFails, PakeUpdate, PakeConfirm,
   PakeSessionKey, SetCipher, DropConn, SendSyncRequest, LinkDown,
   SubGoTo, streamVars, linkVars, subKeyVars, dataVars, endVars

\* The subscriber's steps.
LEMMA SubMoveFlow ==
  ASSUME FeedInv, SubMove
  PROVE  FeedInv'
<1>1. UNCHANGED <<pc, load, out, items, mu, writeMu, rekeyMu, key, masterKey, connected, broken,
                  closed, seqCounter, wire, sealed, payloads, rekeys, requests, published, replay,
                  asker>>
  BY Zenon DEF SubMove, vars, lockVars, keyVars, connVars, countVars
<1>2. IInv'
  BY IInvStep, Zenon DEF FeedInv, SubMove
<1>3. OutSealed'
  BY <1>1, Zenon DEF FeedInv, OutSealed
<1>4. SubInv'
  BY SubStep, Zenon DEF FeedInv, SubMove
<1>5. Flow'
  <2>. USE DEF SubGoTo, streamVars, linkVars, subKeyVars, dataVars, endVars
  <2>0. SubTypes /\ Flow
    BY Zenon DEF FeedInv, SubInv
  <2>01. /\ toPub \in Seq(Asks) /\ inbox \in Seq(Incoming) /\ <<>> \in Seq(Incoming)
         /\ lastSeqNum \in Nat /\ pake \in Nat \cup {Nil} /\ lastSeqNum <= seqCounter
    <3>1. <<>> \in Seq(Incoming)
      OBVIOUS
    <3>. QED  BY <2>0, <3>1, Zenon DEF Flow, SubTypes
  \* the queue to the publisher
  <2>1. /\ toPub' \in Seq(Asks)
        /\ \A i \in 1..Len(toPub') : toPub'[i].kind = "sync" => toPub'[i].last <= seqCounter
    <3>1. CASE toPub' = toPub
      BY <2>0, <3>1, Zenon DEF Flow
    <3>2. ASSUME NEW a \in Asks, toPub' = Append(toPub, a), a.kind = "sync" => a.last <= seqCounter
          PROVE  /\ toPub' \in Seq(Asks)
                 /\ \A i \in 1..Len(toPub') :
                      toPub'[i].kind = "sync" => toPub'[i].last <= seqCounter
      <4>1. /\ toPub' \in Seq(Asks)
            /\ \A i \in 1..Len(toPub') :
                 (i \in 1..Len(toPub) /\ toPub'[i] = toPub[i]) \/ toPub'[i] = a
        <5>1. toPub \in Seq(Asks) /\ a \in Asks
          BY <2>01, Zenon
        <5>2. /\ Append(toPub, a) \in Seq(Asks)
              /\ \A i \in 1..Len(Append(toPub, a)) :
                   (i \in 1..Len(toPub) /\ Append(toPub, a)[i] = toPub[i]) \/ Append(toPub, a)[i] = a
          BY <5>1, Added, Zenon
        <5>. QED  BY <3>2, <5>2, Zenon
      <4>2. ASSUME NEW i \in 1..Len(toPub'), toPub'[i].kind = "sync"
            PROVE  toPub'[i].last <= seqCounter
        <5>1. (i \in 1..Len(toPub) /\ toPub'[i] = toPub[i]) \/ toPub'[i] = a
          BY <4>1, Zenon
        <5>. QED  BY <2>0, <3>2, <4>2, <5>1, Zenon DEF Flow
      <4>. QED  BY <4>1, <4>2, Zenon
    <3>3. CASE SendInitSub
      <4>1. [kind |-> "init", pake |-> pake] \in Asks
        BY <2>01, Zenon DEF Asks
      <4>2. toPub' = toPub \/ toPub' = Append(toPub, [kind |-> "init", pake |-> pake])
        BY <3>3, Zenon DEF SendInitSub
      <4>. QED  BY <3>1, <3>2, <4>1, <4>2, Zenon
    <3>4. CASE SendSyncRequest
      <4>1. [kind |-> "sync", last |-> lastSeqNum] \in Asks
        BY <2>01, Zenon DEF Asks
      <4>2. toPub' = toPub \/ toPub' = Append(toPub, [kind |-> "sync", last |-> lastSeqNum])
        BY <3>4, Zenon DEF SendSyncRequest
      <4>3. [kind |-> "sync", last |-> lastSeqNum].last <= seqCounter
        BY <2>01, Zenon
      <4>. QED  BY <3>1, <3>2, <4>1, <4>2, <4>3, Zenon
    <3>. QED  BY <3>1, <3>3, <3>4, SubChanges, Zenon
  \* what it reads
  <2>3. \A i \in 1..Len(inbox') : inbox'[i].kind \in Ciphered => inbox'[i] \in sealed
    <3>1. CASE inbox # <<>> /\ inbox' = Tail(inbox)
      <4>1. \A i \in 1..Len(inbox') : i + 1 \in 1..Len(inbox) /\ inbox'[i] = inbox[i + 1]
        BY <2>01, <3>1, Remaining, Zenon
      <4>. QED  BY <2>0, <4>1, Zenon DEF Flow
    <3>2. CASE inbox' = <<>>
      <4>1. 1..Len(<<>>) = {}
        OBVIOUS
      <4>. QED  BY <3>2, <4>1, Zenon
    <3>3. CASE inbox' = inbox
      BY <2>0, <3>3, Zenon DEF Flow
    <3>. QED  BY <3>1, <3>2, <3>3, SubChanges, Zenon
  <2>4. spc' \in {"open", "dedup", "store"} => frame' \in sealed
    <3>1. CASE frame' = frame /\ spc \in {"open", "dedup", "store"}
      BY <2>0, <3>1, Zenon DEF Flow
    <3>2. CASE ReadFrame
      <4>1. inbox # <<>> /\ frame' = Head(inbox) /\ (spc' = "open" => frame'.kind \in Ciphered)
            /\ spc' \notin {"dedup", "store"}
        BY <3>2, Zenon DEF ReadFrame, Ciphered
      <4>2. 1 \in 1..Len(inbox) /\ Head(inbox) = inbox[1]
        BY <2>01, <4>1
      <4>. QED  BY <2>0, <4>1, <4>2, Zenon DEF Flow
    <3>. QED  BY <3>1, <3>2, SubChanges, Zenon
  \* what it puts out
  <2>5. lastSeqNum' <= seqCounter
    <3>1. ASSUME Deduplicate PROVE lastSeqNum' = lastSeqNum \/ lastSeqNum' <= seqCounter
      <4>1. frame \in sealed /\ (lastSeqNum' = lastSeqNum \/ lastSeqNum' = frame.seq)
        BY <2>0, <3>1, Zenon DEF Deduplicate, Flow
      <4>. QED  BY <4>1, Zenon DEF FeedInv, IInv, OneContent
    <3>. QED  BY <2>01, <3>1, SubChanges, Zenon
  <2>6. \A i \in 1..Len(delivered') : \E e \in sealed :
          e.kind = "data" /\ e.seq = delivered'[i].seq /\ e.body = delivered'[i].body
    <3>1. CASE delivered' = delivered
      BY <2>0, <3>1, Zenon DEF Flow
    <3>2. CASE StoreMessage
      <4>. DEFINE m == [seq |-> frame.seq, body |-> frame.body]
      <4>1. delivered' = Append(delivered, m) /\ frame \in sealed /\ frame.kind = "data"
        BY <2>0, <3>2, Zenon DEF StoreMessage, Flow, SubTypes
      <4>2. m.seq = frame.seq /\ m.body = frame.body
        BY Zenon
      <4>. HIDE DEF m
      <4>3. \A i \in 1..Len(delivered') :
              (i \in 1..Len(delivered) /\ delivered'[i] = delivered[i]) \/ delivered'[i] = m
        BY <2>0, <4>1, SMTT(30) DEF SubTypes
      <4>. QED  BY <2>0, <4>1, <4>2, <4>3 DEF Flow
    <3>. QED  BY <3>1, <3>2, SubChanges
  <2>. QED  BY <1>1, <2>0, <2>1, <2>3, <2>4, <2>5, <2>6 DEF Flow
<1>. QED  BY <1>2, <1>3, <1>4, <1>5 DEF FeedInv

\* The invariant of the whole: the publisher's, the subscriber's, and what
\* travels between them was sealed.
THEOREM FeedInvariance == FeedSpec => []FeedInv
<1>1. FeedInit => FeedInv
  <2>. SUFFICES ASSUME FeedInit PROVE FeedInv
    OBVIOUS
  <2>1. IInv /\ SubInv
    BY InitInv, SubStarts, Zenon DEF FeedInit
  <2>2. OutSealed
    BY Zenon DEF FeedInit, Init, OutSealed
  <2>3. toPub = <<>> /\ inbox = <<>> /\ delivered = <<>> /\ spc = "top" /\ lastSeqNum = 0
        /\ seqCounter = 0 /\ asker = None
    BY Zenon DEF FeedInit, Init, SubInit
  <2>. QED  BY <2>1, <2>2, <2>3 DEF FeedInv, Flow
<1>2. FeedInv /\ [FeedNext]_feedVars => FeedInv'
  BY Moves, PubMoveFlow, SubMoveFlow, Zenon DEF FeedInv, IInv
<1>. QED  BY <1>1, <1>2, PTL DEF FeedSpec

\* The publisher that serves subscribers through the relay is the publisher that
\* Publisher describes: whatever the subscriber's frames ask of
\* handleSyncRequests, every step of Feed is one of Publisher's, so what is
\* proved of Publisher holds of Feed.
THEOREM FeedImplementsPublisher == FeedSpec => Spec
<1>1. FeedInit => Init
  BY Zenon DEF FeedInit
<1>2. FeedInv /\ [FeedNext]_feedVars => [Next]_vars
  BY Moves, Zenon DEF FeedInv, IInv, PubMove, SubMove
<1>. QED  BY <1>1, <1>2, FeedInvariance, PTL DEF FeedSpec, Spec

-----------------------------------------------------------------------------
(* The order of the output *)

\* What is put out carries the number and the payload of something sealed.
LEMMA OutputCarried ==
  ASSUME FeedInv, NEW i \in 1..Len(delivered)
  PROVE  \E m \in Carried : m.seq = delivered[i].seq /\ m.body = delivered[i].body
<1>1. PICK e \in sealed : e.kind = "data" /\ e.seq = delivered[i].seq /\ e.body = delivered[i].body
  BY Zenon DEF FeedInv, Flow
<1>. QED  BY <1>1, CarriedTypes DEF FeedInv

\* Across drops, replays, rekeys and other subscribers' replays, and for any
\* number of each: what a subscriber puts out was published, and payloads come
\* out in the order in which one goroutine published them, none twice
\* (PublishPayload to SubscribeStream's output).
THEOREM OutputInOrder == FeedSpec => [](OnePublisher => DeliveredAsPublished)
<1>1. FeedInv /\ (OnePublisher => Ordered) => (OnePublisher => DeliveredAsPublished)
  <2>. SUFFICES ASSUME FeedInv, Ordered PROVE DeliveredAsPublished
    BY Zenon
  <2>1. \A i, j \in 1..Len(delivered) : i < j => delivered[i].seq < delivered[j].seq
    BY Zenon DEF FeedInv, SubInv, Deduplicated, DeliveredOnce
  <2>. QED  BY <2>1, OutputCarried DEF Ordered, DeliveredAsPublished
<1>. QED  BY <1>1, FeedInvariance, FeedImplementsPublisher, PayloadOrder, PTL

-----------------------------------------------------------------------------
(* The subscriber reads the wire *)

\* How much of the wire the subscriber has read.
Taken == Len(wire) - Len(inbox)

\* ... and is done with: at these steps it still has the last frame in hand.
Busy == {"open", "rekey_key", "rekey_apply", "dedup", "store"}

Same(g, f) == g.kind = f.kind /\ (f.kind \in Ciphered => g = f)

\* A subscriber that never lost its connection reads the wire as it was written.
Steady ==
  /\ link = "joined" /\ sConn = TRUE /\ sClosed = FALSE /\ cancelled = FALSE /\ sKey \in Nat
  /\ spc \in Busy \cup {"top", "read", "finished"}
  /\ Len(inbox) <= Len(wire)
  /\ \A i \in 1..Len(inbox) : Same(inbox[i], wire[Taken + i])
  /\ spc \in Busy => Taken >= 1 /\ frame = wire[Taken]

\* The number of the last message put out.
LastOut == IF Len(delivered) = 0 THEN 0 ELSE delivered[Len(delivered)].seq

\* Its output has the payloads 1 to n, and these are what it has read.
Complete ==
  /\ \A i \in 1..Len(delivered) : delivered[i].body = i
  /\ \A j \in 1..Taken :
       wire[j].kind = "data" /\ (j < Taken \/ spc \notin {"open", "dedup", "store", "finished"})
         => wire[j].body <= Len(delivered)
  /\ IF spc = "store" THEN frame.body = Len(delivered) + 1 ELSE lastSeqNum = LastOut

\* The publisher's steps leave the reader where it is.
LEMMA SteadyPub ==
  ASSUME FeedInv, Steady, PubMove
  PROVE  /\ Steady' /\ Taken' = Taken /\ Taken \in 0..Len(wire)
         /\ \A j \in 1..Taken : wire'[j] = wire[j]
<1>1. /\ wire \in Seq(Frames) /\ inbox \in Seq(Incoming) /\ Len(wire) \in Nat /\ Len(inbox) \in Nat
  BY DEF FeedInv, IInv, TypeOK, SubInv, SubTypes
<1>2. /\ UNCHANGED <<spc, frame, link, sConn, sClosed, cancelled, sKey>>
      /\ link = "joined" /\ Len(inbox) <= Len(wire)
  BY Zenon DEF PubMove, readerVars, Steady
<1>3. \/ wire' = wire /\ inbox' = inbox
      \/ \E f \in Frames : /\ wire' = Append(wire, f) /\ inbox' = Append(inbox, Forwarded(f))
                           /\ Forwarded(f) \in Incoming
  <2>1. CASE UNCHANGED <<wire, inbox>>
    BY <2>1, Zenon
  <2>2. CASE Broadcast /\ wire' = wire
    BY <1>1, <2>2, BroadcastFrame, Zenon
  <2>3. ASSUME Broadcast, NEW f \in Frames, wire' = Append(wire, f), f.kind # "heartbeat"
        PROVE  inbox' = Append(inbox, Forwarded(f)) /\ Forwarded(f) \in Incoming
    <3>1. inbox' = Append(inbox, Forwarded(f))
      BY <1>1, <1>2, <2>3, BroadcastFrame, Zenon
    <3>2. asker \in Nat \cup {None, Nil}
      BY Zenon DEF FeedInv, Flow
    <3>3. Forwarded(f) \in Incoming
      BY <2>3, <3>2, Zenon DEF Frames, Incoming, Forwarded
    <3>. QED  BY <3>1, <3>3, Zenon
  <2>. QED  BY <2>1, <2>2, <2>3, WireGrows, Zenon DEF FeedInv, PubMove
<1>4. Taken \in 0..Len(wire) /\ \A i \in 1..Len(inbox) : Same(inbox[i], wire[Taken + i])
  BY <1>1, <1>2 DEF Taken, Steady
<1>5. CASE wire' = wire /\ inbox' = inbox
  BY <1>2, <1>4, <1>5, Zenon DEF Steady, Taken
<1>6. ASSUME NEW f \in Frames, wire' = Append(wire, f), inbox' = Append(inbox, Forwarded(f)),
             Forwarded(f) \in Incoming
      PROVE  /\ Steady' /\ Taken' = Taken
             /\ \A j \in 1..Taken : wire'[j] = wire[j]
  <2>1. /\ Len(wire') = Len(wire) + 1 /\ Len(inbox') = Len(inbox) + 1
        /\ wire'[Len(wire) + 1] = f /\ inbox'[Len(inbox) + 1] = Forwarded(f)
        /\ \A j \in 1..Len(wire) : wire'[j] = wire[j]
        /\ \A j \in 1..Len(inbox) : inbox'[j] = inbox[j]
    BY <1>1, <1>6
  <2>2. Taken' = Taken /\ Taken + Len(inbox) = Len(wire) /\ Len(inbox') <= Len(wire')
    BY <1>1, <1>2, <2>1 DEF Taken
  <2>3. Same(Forwarded(f), f)
    BY Zenon DEF Same, Forwarded, Ciphered
  <2>4. \A i \in 1..Len(inbox') : Same(inbox'[i], wire'[Taken + i])
    <3>. SUFFICES ASSUME NEW i \in 1..Len(inbox') PROVE Same(inbox'[i], wire'[Taken + i])
      BY Zenon
    <3>1. CASE i = Len(inbox) + 1
      <4>1. Taken + i = Len(wire) + 1
        BY <1>1, <1>4, <2>2, <3>1
      <4>. QED  BY <2>1, <2>3, <3>1, <4>1
    <3>2. CASE i # Len(inbox) + 1
      <4>1. i \in 1..Len(inbox) /\ Taken + i \in 1..Len(wire)
        BY <1>1, <1>4, <2>1, <2>2, <3>2
      <4>. QED  BY <1>4, <2>1, <4>1
    <3>. QED  BY <3>1, <3>2, Zenon
  <2>5. \A j \in 1..Taken : wire'[j] = wire[j]
    BY <1>1, <1>4, <2>1
  <2>6. spc' \in Busy => Taken' >= 1 /\ frame' = wire'[Taken']
    <3>1. spc \in Busy => Taken >= 1 /\ frame = wire[Taken]
      BY Zenon DEF Steady
    <3>. QED  BY <1>2, <1>4, <2>2, <2>5, <3>1
  <2>. QED  BY <1>2, <2>2, <2>4, <2>5, <2>6 DEF Steady
<1>. QED  BY <1>3, <1>4, <1>5, <1>6

\* Drops are counted.
LEMMA SubDrops ==
  ASSUME SubMove, drops \in Nat
  PROVE  drops' \in Nat /\ (drops' = 0 => drops = 0)
<1>1. drops' = drops \/ drops' = drops + 1
  BY Zenon DEF SubMove, SubRun, Stream, Reconnect, Handshake, LoopTop, ReadFrame,
     ReadError, OpenFrame, GetRekeyKey, ApplyRekey, Deduplicate,
     StoreMessage, GiveUp, TryAgain, NewPake, DialFails, Dial,
     SetConn, SendInitSub, HandshakeFrame, HandshakeFails, PakeUpdate,
     PakeConfirm, PakeSessionKey, SetCipher, DropConn, SendSyncRequest,
     LinkDown, endVars
<1>. QED  BY <1>1

\* While it has not lost its connection the subscriber only reads.
LEMMA SteadyMoves ==
  ASSUME Steady, SubMove, drops \in Nat, drops' = 0
  PROVE  /\ drops = 0
         /\ \/ LoopTop \/ ReadFrame \/ OpenFrame \/ GetRekeyKey \/ ApplyRekey
            \/ Deduplicate \/ StoreMessage
<1>1. ~LinkDown
  BY DEF LinkDown
<1>2. /\ ~ReadError /\ ~Reconnect /\ ~Handshake
  BY Zenon DEF Steady, Busy, ReadError, Reconnect, Handshake, GiveUp, TryAgain,
     NewPake, DialFails, Dial, SetConn, SendInitSub, HandshakeFrame,
     HandshakeFails, PakeUpdate, PakeConfirm, PakeSessionKey, SetCipher,
     DropConn, SendSyncRequest
<1>3. \/ LoopTop \/ ReadFrame \/ OpenFrame \/ GetRekeyKey \/ ApplyRekey
      \/ Deduplicate \/ StoreMessage
  BY <1>1, <1>2 DEF SubMove, SubRun, Stream
<1>. QED  BY <1>3, Zenon DEF LoopTop, ReadFrame, OpenFrame, GetRekeyKey, ApplyRekey,
          Deduplicate, StoreMessage, endVars

\* The next frame is the next of the wire.
LEMMA SteadyRead ==
  ASSUME FeedInv, Steady, ReadFrame, wire' = wire
  PROVE  /\ Taken' = Taken + 1 /\ Taken' \in 1..Len(wire)
         /\ \A i \in 1..Len(inbox') : Same(inbox'[i], wire[Taken' + i])
         /\ Same(frame', wire[Taken'])
         /\ Len(inbox') <= Len(wire)
<1>1. /\ wire \in Seq(Frames) /\ inbox \in Seq(Incoming) /\ Len(wire) \in Nat /\ Len(inbox) \in Nat
  BY DEF FeedInv, IInv, TypeOK, SubInv, SubTypes
<1>2. inbox # <<>> /\ frame' = Head(inbox) /\ inbox' = Tail(inbox)
  BY Zenon DEF ReadFrame
<1>3. /\ Len(inbox') = Len(inbox) - 1 /\ Len(inbox) >= 1 /\ frame' = inbox[1]
      /\ \A i \in 1..Len(inbox') : inbox'[i] = inbox[i + 1]
  <2>1. Len(inbox) >= 1 /\ Head(inbox) = inbox[1]
    BY <1>1, <1>2
  <2>2. /\ Len(Tail(inbox)) = Len(inbox) - 1
        /\ \A i \in 1..Len(Tail(inbox)) : Tail(inbox)[i] = inbox[i + 1]
    BY <1>1, <1>2, TailOf, Zenon
  <2>. QED  BY <1>2, <2>1, <2>2, Zenon
<1>4. Taken' = Taken + 1 /\ Taken' \in 1..Len(wire) /\ Len(inbox') <= Len(wire)
  BY <1>1, <1>3 DEF Taken, Steady
<1>5. \A i \in 1..Len(inbox) : Same(inbox[i], wire[Taken + i])
  BY Zenon DEF Steady
<1>6. ASSUME NEW i \in 1..Len(inbox') PROVE Same(inbox'[i], wire[Taken' + i])
  <2>1. i + 1 \in 1..Len(inbox) /\ Taken' + i = Taken + (i + 1)
    <3>1. Len(inbox') = Len(inbox) - 1 /\ Len(inbox) \in Nat /\ Len(wire) \in Nat
      BY <1>1, <1>3, Zenon
    <3>2. Taken \in Int /\ i \in Int /\ i + 1 \in 1..Len(inbox)
      BY <3>1 DEF Taken
    <3>3. Taken' = Taken + 1
      BY <1>4, Zenon
    <3>. QED  BY <3>2, <3>3
  <2>2. Same(inbox[i + 1], wire[Taken + (i + 1)])
    BY <1>5, <2>1, Zenon
  <2>. QED  BY <1>3, <2>1, <2>2, Zenon
<1>7. Same(frame', wire[Taken'])
  <2>1. 1 \in 1..Len(inbox)
    BY <1>1, <1>3
  <2>. QED  BY <1>3, <1>4, <1>5, <2>1, Zenon
<1>. QED  BY <1>4, <1>6, <1>7

\* The subscriber goes on reading.
LEMMA SteadySub ==
  ASSUME FeedInv, Steady, SubMove, drops \in Nat, drops' = 0
  PROVE  Steady'
<1>1. wire' = wire
  BY Zenon DEF SubMove, vars
<1>. USE DEF SubGoTo, streamVars, linkVars, subKeyVars, dataVars, endVars
<1>2. Nil \notin Nat
  BY SubscriberAssumption
<1>3. CASE ReadFrame
  <2>1. /\ spc' \in {"finished", "open", "top"}
        /\ spc' = "open" => frame'.kind \in Ciphered
        /\ UNCHANGED <<link, sConn, sClosed, cancelled, sKey>>
    BY <1>3, Zenon DEF ReadFrame, Ciphered
  <2>2. spc' \in Busy => Taken' >= 1 /\ frame' = wire'[Taken']
    BY <1>1, <1>3, <2>1, SteadyRead DEF Busy, Same
  <2>. QED  BY <1>1, <1>3, <2>1, <2>2, SteadyRead DEF Steady, Busy
<1>4. CASE LoopTop \/ OpenFrame \/ GetRekeyKey \/ ApplyRekey \/ Deduplicate
             \/ StoreMessage
  <2>1. UNCHANGED <<inbox, frame, link, sConn, sClosed, cancelled>>
    BY <1>4 DEF LoopTop, OpenFrame, GetRekeyKey, ApplyRekey, Deduplicate,
       StoreMessage
  <2>2. /\ spc' \in Busy \cup {"top", "read", "finished"}
        /\ spc' \in Busy => spc \in Busy
    BY <1>2, <1>4 DEF Steady, Busy, LoopTop, OpenFrame, GetRekeyKey, ApplyRekey,
       Deduplicate, StoreMessage
  <2>3. sKey' \in Nat
    <3>1. sKey' = sKey \/ sKey' = sKey + 1
      BY <1>4 DEF LoopTop, OpenFrame, GetRekeyKey, ApplyRekey, Deduplicate,
         StoreMessage
    <3>. QED  BY <3>1 DEF Steady
  <2>4. Taken' = Taken
    BY <1>1, <2>1 DEF Taken
  <2>. QED  BY <1>1, <2>1, <2>2, <2>3, <2>4 DEF Steady
<1>. QED  BY <1>3, <1>4, SteadyMoves

\* A frame that passes the deduplication carries the next payload, one that does
\* not carries a payload that is out already.
LEMMA NextPayload ==
  ASSUME FeedInv, Ordered, Gapless, Steady, Complete, spc = "dedup"
  PROVE  /\ frame.seq \in Nat /\ frame.body \in Nat
         /\ frame.seq <= lastSeqNum => frame.body <= Len(delivered)
         /\ ~(frame.seq <= lastSeqNum) => frame.body = Len(delivered) + 1
<1>. DEFINE n == Len(delivered)
<1>1. n \in Nat /\ delivered \in Seq(Message) /\ lastSeqNum = LastOut
  BY DEF FeedInv, SubInv, SubTypes, Complete
<1>2. frame \in sealed /\ frame.kind = "data" /\ Taken >= 1 /\ frame = wire[Taken]
  BY Zenon DEF FeedInv, SubInv, SubTypes, Flow, Steady, Busy
<1>3. PICK m \in Carried : m.seq = frame.seq /\ m.body = frame.body
  BY <1>2, CarriedTypes, Zenon DEF FeedInv
<1>4. m.seq \in Nat /\ m.body \in Nat /\ m.seq >= 1 /\ m.body >= 1 /\ payloads \in Nat
  BY CarriedTypes DEF Ordered, FeedInv, IInv, TypeOK
<1>5. Taken \in 1..Len(wire)
  BY <1>2 DEF Steady, Taken, FeedInv, IInv, TypeOK, SubInv, SubTypes
<1>6. \A b \in 1..(frame.body - 1) : b <= n
  <2>. SUFFICES ASSUME NEW b \in 1..(frame.body - 1) PROVE b <= n
    BY Zenon
  <2>1. PICK j \in 1..(Taken - 1) : wire[j].kind = "data" /\ wire[j].body = b
    BY <1>2, <1>5, Zenon DEF Gapless
  <2>2. j \in 1..Taken /\ j < Taken
    BY <1>5
  <2>. QED  BY <2>1, <2>2, Zenon DEF Complete
<1>7. frame.body <= n + 1
  <2>1. CASE frame.body = 1
    BY <1>1, <2>1
  <2>2. CASE frame.body # 1
    <3>1. frame.body - 1 \in 1..(frame.body - 1)
      BY <1>3, <1>4, <2>2
    <3>. QED  BY <1>1, <1>3, <1>4, <1>6, <3>1
  <2>. QED  BY <2>1, <2>2, Zenon
<1>8. CASE n = 0
  <2>1. lastSeqNum = 0
    BY <1>1, <1>8 DEF LastOut
  <2>2. ~(frame.seq <= 0)
    BY <1>3, <1>4
  <2>3. frame.body = n + 1
    BY <1>3, <1>4, <1>7, <1>8
  <2>. QED  BY <1>3, <1>4, <2>1, <2>2, <2>3
<1>9. CASE n # 0
  <2>1. n \in 1..Len(delivered) /\ lastSeqNum = delivered[n].seq /\ delivered[n].body = n
    BY <1>1, <1>9 DEF LastOut, Complete
  <2>2. PICK d \in Carried : d.seq = lastSeqNum /\ d.body = n
    BY <2>1, OutputCarried
  <2>3. d.seq \in Nat
    BY CarriedTypes, Zenon DEF FeedInv
  <2>4. /\ m.seq < d.seq => m.body < n
        /\ d.seq < m.seq => n < m.body
        /\ m.seq = d.seq => m.body = n
    BY <2>2, CarriedTypes DEF Ordered, FeedInv
  <2>. QED  BY <1>1, <1>3, <1>4, <1>7, <2>2, <2>3, <2>4
<1>. QED  BY <1>8, <1>9

\* The publisher's steps do not change what the reader has read and put out.
LEMMA CompletePub ==
  ASSUME FeedInv, Steady, Complete, PubMove
  PROVE  Complete'
<1>1. UNCHANGED <<spc, frame, delivered, lastSeqNum>>
  BY Zenon DEF PubMove, readerVars
<1>2. LastOut' = LastOut
  BY <1>1, Zenon DEF LastOut
<1>. QED  BY <1>1, <1>2, SteadyPub DEF Complete

\* The subscriber's steps keep its output complete.
LEMMA CompleteSub ==
  ASSUME FeedInv, Ordered, Gapless, Steady, Complete, SubMove, drops \in Nat, drops' = 0
  PROVE  Complete'
<1>1. wire' = wire
  BY Zenon DEF SubMove, vars
<1>. USE DEF SubGoTo, streamVars, linkVars, subKeyVars, dataVars, endVars
<1>2. Nil \notin Nat /\ sKey \in Nat
  BY SubscriberAssumption, Zenon DEF Steady
<1>3. SubTypes /\ delivered \in Seq(Message) /\ Len(delivered) \in Nat
  BY DEF FeedInv, SubInv, SubTypes
<1>4. Len(wire) \in Nat /\ Len(inbox) \in Nat /\ Taken \in 0..Len(wire)
  BY DEF Steady, Taken, FeedInv, IInv, TypeOK, SubInv, SubTypes
<1>5. CASE ReadFrame
  <2>1. /\ spc = "read" /\ spc' \in {"finished", "open", "top"}
        /\ spc' = "top" => frame'.kind # "data"
        /\ UNCHANGED <<delivered, lastSeqNum>>
    BY <1>2, <1>5, Zenon DEF ReadFrame
  <2>2. LastOut' = LastOut
    BY <2>1, Zenon DEF LastOut
  <2>3. Taken' = Taken + 1 /\ Same(frame', wire[Taken'])
    BY <1>1, <1>5, SteadyRead, Zenon
  <2>4. ASSUME NEW j \in 1..Taken', wire[j].kind = "data", j < Taken' \/ spc' = "top"
        PROVE  wire[j].body <= Len(delivered)
    <3>1. j \in 1..Taken
      BY <1>4, <2>1, <2>3, <2>4 DEF Same
    <3>. QED  BY <2>1, <2>4, <3>1, Zenon DEF Complete
  <2>. QED  BY <1>1, <2>1, <2>2, <2>4, Zenon DEF Complete
<1>6. CASE LoopTop \/ OpenFrame \/ GetRekeyKey \/ ApplyRekey
  <2>1. UNCHANGED <<inbox, frame, delivered, lastSeqNum>> /\ spc # "store" /\ spc' # "store"
    BY <1>6, Zenon DEF LoopTop, OpenFrame, GetRekeyKey, ApplyRekey
  <2>2. LastOut' = LastOut /\ Taken' = Taken
    BY <1>1, <2>1 DEF LastOut, Taken
  <2>3. \/ spc' \in {"open", "dedup", "store", "finished"}
        \/ spc \notin {"open", "dedup", "store", "finished"}
        \/ spc = "open" /\ frame.kind # "data"
    BY <1>6, Zenon DEF LoopTop, OpenFrame, GetRekeyKey, ApplyRekey
  <2>4. spc = "open" => frame = wire[Taken]
    BY Zenon DEF Steady, Busy
  <2>5. ASSUME NEW j \in 1..Taken, wire[j].kind = "data",
               j < Taken \/ spc' \notin {"open", "dedup", "store", "finished"}
        PROVE  wire[j].body <= Len(delivered)
    <3>1. j < Taken \/ j = Taken
      BY <1>4
    <3>. QED  BY <2>3, <2>4, <2>5, <3>1 DEF Complete
  <2>. QED  BY <1>1, <2>1, <2>2, <2>5 DEF Complete
<1>7. CASE Deduplicate
  <2>1. spc = "dedup" /\ UNCHANGED <<inbox, frame, delivered>>
    BY <1>7 DEF Deduplicate
  <2>2. LastOut' = LastOut /\ Taken' = Taken
    BY <1>1, <2>1 DEF LastOut, Taken
  <2>3. frame = wire[Taken]
    BY <2>1 DEF Steady, Busy
  <2>4. \/ spc' = "top" /\ lastSeqNum' = lastSeqNum /\ frame.body <= Len(delivered)
        \/ spc' = "store" /\ frame.body = Len(delivered) + 1
    BY <1>7, <2>1, NextPayload DEF Deduplicate
  <2>5. ASSUME NEW j \in 1..Taken, wire[j].kind = "data", j < Taken \/ spc' = "top"
        PROVE  wire[j].body <= Len(delivered)
    <3>1. j < Taken \/ j = Taken
      BY <1>4
    <3>. QED  BY <2>3, <2>4, <2>5, <3>1 DEF Complete
  <2>. QED  BY <1>1, <2>1, <2>2, <2>4, <2>5 DEF Complete
<1>8. CASE StoreMessage
  <2>. DEFINE m == [seq |-> frame.seq, body |-> frame.body]
  <2>1. /\ spc = "store" /\ spc' = "top" /\ delivered' = Append(delivered, m)
        /\ UNCHANGED <<inbox, frame, lastSeqNum>>
    BY <1>8 DEF StoreMessage
  <2>2. /\ m \in Message /\ m.seq = lastSeqNum /\ m.body = Len(delivered) + 1
        /\ frame = wire[Taken] /\ frame.body = m.body
    BY <1>3, <2>1 DEF SubTypes, Incoming, Message, FeedInv, SubInv, Deduplicated, Complete, Steady, Busy
  <2>. HIDE DEF m
  <2>3. /\ Len(delivered') = Len(delivered) + 1 /\ delivered'[Len(delivered) + 1] = m
        /\ \A i \in 1..Len(delivered) : delivered'[i] = delivered[i]
    BY <1>3, <2>1, <2>2
  <2>4. LastOut' = lastSeqNum' /\ Taken' = Taken
    BY <1>1, <1>3, <2>1, <2>2, <2>3 DEF LastOut, Taken
  <2>5. \A i \in 1..Len(delivered') : delivered'[i].body = i
    <3>. SUFFICES ASSUME NEW i \in 1..Len(delivered') PROVE delivered'[i].body = i
      BY Zenon
    <3>1. i \in 1..Len(delivered) \/ i = Len(delivered) + 1
      BY <1>3, <2>3
    <3>. QED  BY <2>2, <2>3, <3>1, Zenon DEF Complete
  <2>6. ASSUME NEW j \in 1..Taken, wire[j].kind = "data" PROVE wire[j].body <= Len(delivered')
    <3>1. j = Taken \/ wire[j].body <= Len(delivered)
      BY <1>4, <2>1, <2>6 DEF Complete
    <3>2. wire[j].body \in Nat
      <4>1. wire[j] \in Frames
        BY <1>4 DEF FeedInv, IInv, TypeOK
      <4>. QED  BY <2>6, <4>1 DEF Frames
    <3>. QED  BY <1>3, <2>2, <2>3, <3>1, <3>2
  <2>. QED  BY <1>1, <2>1, <2>4, <2>5, <2>6 DEF Complete
<1>. QED  BY <1>5, <1>6, <1>7, <1>8, SteadyMoves

\* A subscriber that never lost its connection.
ReaderInv ==
  /\ drops \in Nat /\ (drops = 0 => Steady)
  /\ OnePublisher => Gapless /\ (drops = 0 => Complete)

\* Every step of Feed keeps what such a subscriber relies on.
LEMMA ReaderStep ==
  ASSUME FeedInv, OnePublisher => Ordered, ReaderInv, [FeedNext]_feedVars
  PROVE  ReaderInv'
<1>1. OnePublisher' => OnePublisher
  BY Moves, PublishedGrows, Zenon DEF FeedInv, IInv, PubMove, SubMove, OnePublisher
<1>2. OnePublisher' => Gapless'
  BY <1>1, Moves, GaplessStep, Zenon DEF FeedInv, IInv, PubMove, SubMove, ReaderInv
<1>3. CASE PubMove
  <2>1. drops' = drops
    BY <1>3 DEF PubMove, readerVars
  <2>. QED  BY <1>1, <1>2, <1>3, <2>1, SteadyPub, CompletePub, Zenon DEF ReaderInv
<1>4. CASE SubMove
  <2>1. drops' \in Nat /\ (drops' = 0 => drops = 0)
    BY <1>4, SubDrops DEF ReaderInv
  <2>. QED  BY <1>1, <1>2, <1>4, <2>1, SteadySub, CompleteSub DEF ReaderInv
<1>. QED  BY <1>3, <1>4, Moves, Zenon DEF FeedInv, IInv

\* A reader that never lost its connection reads the wire, which has no gap.
LEMMA ReaderInvariance == FeedSpec => []ReaderInv
<1>1. FeedInit => ReaderInv
  <2>. SUFFICES ASSUME FeedInit PROVE ReaderInv
    OBVIOUS
  <2>1. /\ wire = <<>> /\ inbox = <<>> /\ delivered = <<>> /\ payloads = 0 /\ spc = "top"
        /\ drops = 0 /\ link = "joined" /\ sConn = TRUE /\ sClosed = FALSE /\ cancelled = FALSE
        /\ sKey = 0 /\ lastSeqNum = 0
    BY Zenon DEF FeedInit, Init, SubInit
  <2>2. Len(wire) = 0 /\ Len(inbox) = 0 /\ Len(delivered) = 0 /\ Taken = 0
    BY <2>1 DEF Taken
  <2>3. Gapless
    BY <2>1, <2>2 DEF Gapless
  <2>4. Steady
    BY <2>1, <2>2 DEF Steady, Busy
  <2>5. Complete
    BY <2>1, <2>2 DEF Complete, LastOut
  <2>. QED  BY <2>1, <2>3, <2>4, <2>5 DEF ReaderInv
<1>2. FeedInv /\ (OnePublisher => Ordered) /\ ReaderInv /\ [FeedNext]_feedVars => ReaderInv'
  BY ReaderStep
<1>. QED  BY <1>1, <1>2, FeedInvariance, FeedImplementsPublisher, PayloadOrder, PTL DEF FeedSpec

\* A subscriber that never lost its connection puts out the payloads 1 to n, in
\* this order, whatever is replayed to others meanwhile and however often the
\* publisher rekeys (PublishPayload, sendFrame, SubscribeStream).
THEOREM NoGapWithoutDrop == FeedSpec => [](OnePublisher => UnbrokenDelivery)
<1>1. ReaderInv => (OnePublisher => UnbrokenDelivery)
  BY Zenon DEF ReaderInv, Complete, UnbrokenDelivery
<1>. QED  BY <1>1, ReaderInvariance, PTL

-----------------------------------------------------------------------------
(* The subscriber follows the ratchet *)

\* The rekey frames among the first n of the wire.
KeysIn(n) == Cardinality({j \in 1..n : wire[j].kind = "rekey"})

Follower ==
  /\ spc \in {"open", "rekey_key", "rekey_apply"} => sKey = KeysIn(Taken - 1)
  /\ spc \in {"rekey_key", "rekey_apply"} => frame.kind = "rekey"
  /\ spc \in {"top", "read", "dedup", "store"} => sKey = KeysIn(Taken)
  /\ spc = "finished" => frame.kind = "close"

\* One more frame counts if it is a rekey frame.
LEMMA KeysInNext ==
  ASSUME NEW n \in Nat
  PROVE  /\ KeysIn(n) \in Nat
         /\ KeysIn(n + 1) = KeysIn(n) + (IF wire[n + 1].kind = "rekey" THEN 1 ELSE 0)
<1>. DEFINE S == {j \in 1..n : wire[j].kind = "rekey"}
<1>1. IsFiniteSet(S) /\ Cardinality(S) \in Nat
  <2>1. IsFiniteSet(1..n)
    BY FS_Interval
  <2>2. S \in SUBSET (1..n)
    BY Zenon
  <2>. HIDE DEF S
  <2>. QED  BY <2>1, <2>2, FS_Subset, FS_CardinalityType
<1>2. {j \in 1..(n + 1) : wire[j].kind = "rekey"}
        = IF wire[n + 1].kind = "rekey" THEN S \cup {n + 1} ELSE S
  <2>1. \A j : j \in 1..(n + 1) <=> j \in 1..n \/ j = n + 1
    OBVIOUS
  <2>. QED  BY <2>1, Zenon
<1>3. n + 1 \notin S
  OBVIOUS
<1>4. Cardinality(S \cup {n + 1}) = Cardinality(S) + 1
  <2>. HIDE DEF S
  <2>. QED  BY <1>1, <1>3, FS_AddElement
<1>5. /\ KeysIn(n) = Cardinality(S)
      /\ KeysIn(n + 1) = Cardinality(IF wire[n + 1].kind = "rekey" THEN S \cup {n + 1} ELSE S)
  BY <1>2, Zenon DEF KeysIn
<1>. HIDE DEF S
<1>. QED  BY <1>1, <1>4, <1>5

\* Frames written later do not count.
LEMMA KeysKept ==
  ASSUME NEW n, \A j \in 1..n : wire'[j] = wire[j]
  PROVE  KeysIn(n)' = KeysIn(n)
<1>1. {j \in 1..n : wire'[j].kind = "rekey"} = {j \in 1..n : wire[j].kind = "rekey"}
  BY Zenon
<1>. QED  BY <1>1, Zenon DEF KeysIn

\* The publisher's steps leave the reader's key the right one.
LEMMA FollowerPub ==
  ASSUME FeedInv, Steady, Follower, PubMove
  PROVE  Follower'
<1>1. UNCHANGED <<spc, frame, sKey>>
  BY Zenon DEF PubMove, readerVars
<1>2. Taken' = Taken /\ Taken \in Nat /\ \A j \in 1..Taken : wire'[j] = wire[j]
  BY SteadyPub
<1>3. \A j \in 1..(Taken - 1) : wire'[j] = wire[j]
  BY <1>2
<1>4. (KeysIn(Taken))' = KeysIn(Taken)
  BY <1>2, KeysKept DEF KeysIn
<1>5. (KeysIn(Taken - 1))' = KeysIn(Taken - 1)
  BY <1>2, <1>3, KeysKept DEF KeysIn
<1>. QED  BY <1>1, <1>4, <1>5 DEF Follower

\* The subscriber's steps keep its key in step with what it has read.
LEMMA FollowerSub ==
  ASSUME FeedInv, Readable(wire), Steady, Follower, SubMove, drops \in Nat, drops' = 0
  PROVE  Follower'
<1>1. wire' = wire
  BY Zenon DEF SubMove, vars
<1>. USE DEF SubGoTo, streamVars, linkVars, subKeyVars, dataVars, endVars
<1>2. Nil \notin Nat /\ sKey \in Nat
  BY SubscriberAssumption DEF Steady
<1>3. Len(wire) \in Nat /\ Taken \in 0..Len(wire)
  BY DEF Steady, Taken, FeedInv, IInv, TypeOK, SubInv, SubTypes
<1>4. spc \in Busy =>
        /\ Taken \in 1..Len(wire) /\ frame = wire[Taken]
        /\ KeysIn(Taken) = KeysIn(Taken - 1) + (IF frame.kind = "rekey" THEN 1 ELSE 0)
        /\ KeysIn(Taken - 1) \in Nat
  <2>. SUFFICES ASSUME spc \in Busy
                PROVE  /\ Taken \in 1..Len(wire) /\ frame = wire[Taken]
                       /\ KeysIn(Taken) = KeysIn(Taken - 1) + (IF frame.kind = "rekey" THEN 1 ELSE 0)
                       /\ KeysIn(Taken - 1) \in Nat
    BY Zenon
  <2>1. Taken \in 1..Len(wire) /\ frame = wire[Taken] /\ Taken - 1 \in Nat /\ (Taken - 1) + 1 = Taken
    BY <1>3 DEF Steady
  <2>. QED  BY <2>1, KeysInNext, Zenon
<1>5. CASE ReadFrame
  <2>1. Taken' = Taken + 1 /\ Same(frame', wire[Taken'])
    BY <1>1, <1>5, SteadyRead, Zenon
  <2>2. /\ spc = "read" /\ sKey' = sKey
        /\ \/ spc' = "finished" /\ frame'.kind = "close"
           \/ spc' = "open"
           \/ spc' = "top" /\ frame'.kind # "rekey"
    BY <1>2, <1>5, Zenon DEF ReadFrame
  <2>3. sKey = KeysIn(Taken)
    BY <2>2 DEF Follower
  <2>4. (KeysIn(Taken - 1))' = KeysIn(Taken)
    BY <1>1, <1>3, <2>1 DEF KeysIn
  <2>5. spc' = "top" => (KeysIn(Taken))' = KeysIn(Taken)
    <3>1. spc' = "top" => wire[Taken + 1].kind # "rekey"
      BY <2>1, <2>2, Zenon DEF Same
    <3>2. (KeysIn(Taken))' = KeysIn(Taken + 1)
      BY <1>1, <2>1, Zenon DEF KeysIn
    <3>3. Taken \in Nat
      BY <1>3
    <3>4. /\ KeysIn(Taken) \in Nat
          /\ KeysIn(Taken + 1) = KeysIn(Taken) + (IF wire[Taken + 1].kind = "rekey" THEN 1 ELSE 0)
      BY <3>3, KeysInNext, Zenon
    <3>. QED  BY <3>1, <3>2, <3>4
  <2>. QED  BY <2>2, <2>3, <2>4, <2>5, Zenon DEF Follower
<1>6. CASE LoopTop \/ OpenFrame \/ GetRekeyKey \/ ApplyRekey \/ Deduplicate
             \/ StoreMessage
  <2>1. UNCHANGED <<inbox, frame>>
    BY <1>6 DEF LoopTop, OpenFrame, GetRekeyKey, ApplyRekey, Deduplicate,
       StoreMessage
  <2>2. (KeysIn(Taken))' = KeysIn(Taken) /\ (KeysIn(Taken - 1))' = KeysIn(Taken - 1)
    BY <1>1, <2>1 DEF KeysIn, Taken
  <2>3. CASE LoopTop
    <3>1. spc = "top" /\ spc' = "read" /\ sKey' = sKey
      BY <2>3, Zenon DEF LoopTop, Steady
    <3>. QED  BY <2>2, <3>1 DEF Follower
  <2>4. CASE OpenFrame
    <3>1. spc = "open" /\ sKey' = sKey /\ frame.kind \in {"data", "rekey"}
      BY <2>4, Zenon DEF OpenFrame, FeedInv, SubInv, SubTypes
    <3>2. frame.key = KeysIn(Taken - 1) /\ sKey = KeysIn(Taken - 1)
      BY <1>4, <3>1 DEF Follower, Readable, KeysIn, Busy
    <3>3. \/ spc' = "dedup" /\ frame.kind = "data"
          \/ spc' = "rekey_key" /\ frame.kind = "rekey"
      BY <2>4, <3>1, <3>2 DEF OpenFrame
    <3>4. frame.kind = "data" => KeysIn(Taken) = KeysIn(Taken - 1)
      BY <1>4, <3>1 DEF Busy
    <3>. QED  BY <2>1, <2>2, <3>1, <3>2, <3>3, <3>4 DEF Follower
  <2>5. CASE GetRekeyKey
    <3>1. spc = "rekey_key" /\ spc' = "rekey_apply" /\ sKey' = sKey
      BY <1>2, <2>5 DEF GetRekeyKey
    <3>. QED  BY <2>1, <2>2, <3>1 DEF Follower
  <2>6. CASE ApplyRekey
    <3>1. spc = "rekey_apply" /\ spc' = "top" /\ sKey' = sKey + 1
      BY <1>2, <2>6 DEF ApplyRekey
    <3>2. sKey + 1 = KeysIn(Taken)
      BY <1>4, <3>1 DEF Follower, Busy
    <3>. QED  BY <2>2, <3>1, <3>2 DEF Follower
  <2>7. CASE Deduplicate \/ StoreMessage
    <3>1. spc \in {"dedup", "store"} /\ spc' \in {"top", "store"} /\ sKey' = sKey
      BY <2>7 DEF Deduplicate, StoreMessage
    <3>. QED  BY <2>2, <3>1 DEF Follower
  <2>. QED  BY <1>6, <2>3, <2>4, <2>5, <2>6, <2>7, Zenon
<1>. QED  BY <1>5, <1>6, SteadyMoves

\* A subscriber that never lost its connection is not thrown out by a frame its
\* key does not open, for any number of rekeys, while one goroutine publishes
\* and nothing is replayed to others (TriggerRekey, SubscribeStream).
THEOREM StreamIsKept == FeedSpec => [](OnePublisher => StreamKept)
<1>. DEFINE I == LoneWriter /\ drops = 0 => Follower
<1>1. FeedInit => I
  <2>. SUFFICES ASSUME FeedInit PROVE Follower
    BY Zenon
  <2>1. wire = <<>> /\ inbox = <<>> /\ spc = "top" /\ sKey = 0
    BY Zenon DEF FeedInit, Init, SubInit
  <2>2. Taken = 0 /\ {j \in 1..0 : wire[j].kind = "rekey"} = {}
    BY <2>1 DEF Taken
  <2>3. KeysIn(Taken) = 0
    BY <2>2, FS_EmptySet, Zenon DEF KeysIn
  <2>. QED  BY <2>1, <2>3 DEF Follower
<1>2. FeedInv /\ StreamInv /\ ReaderInv /\ I /\ [FeedNext]_feedVars => I'
  <2>. SUFFICES ASSUME FeedInv, StreamInv, ReaderInv, I, [FeedNext]_feedVars, LoneWriter', drops' = 0
                PROVE  Follower'
    BY Zenon
  <2>1. LoneWriter
    BY Moves, LoneBefore DEF FeedInv, IInv, PubMove, SubMove, StreamInv
  <2>2. CASE PubMove
    <3>1. drops = 0
      BY <2>2, Zenon DEF PubMove, readerVars
    <3>. QED  BY <2>1, <2>2, <3>1, FollowerPub DEF ReaderInv
  <2>3. CASE SubMove
    <3>1. drops \in Nat /\ drops = 0
      BY <2>3, SubDrops DEF ReaderInv
    <3>. QED  BY <2>1, <2>3, <3>1, FollowerSub DEF ReaderInv, StreamInv
  <2>. QED  BY <2>2, <2>3, Moves DEF FeedInv, IInv
<1>3. I => (OnePublisher => StreamKept)
  BY Zenon DEF OnePublisher, LoneWriter, Follower, StreamKept
<1>. HIDE DEF I
<1>. QED  BY <1>1, <1>2, <1>3, FeedInvariance, FeedImplementsPublisher, StreamInvariance,
          ReaderInvariance, PTL DEF FeedSpec
=============================================================================
