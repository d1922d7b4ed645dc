------------------------------ MODULE WindowProofs ------------------------------
(***************************************************************************)
(* The sender of a file is held back by its subscribers, for any finite    *)
(* set of them and any window.                                             *)
(***************************************************************************)
EXTENDS FileTransferProofs, FiniteSetTheorems

\* The full windows of the current transfer: subscriber p[1] sent its p[2]-th ack.
Acked == {p \in Subs \X (1..sent) : p[2] <= Received(p[1]) \div Window}
\* Acks in the sender's channel.
InChan == IF ackChan = Absent THEN 0 ELSE ackChan

\* The account of the acks: those taken, in the channel and under way are paid for
\* by full windows, or came from an earlier transfer.
AckInv ==
  /\ unacked \in Nat /\ foreign \in Nat /\ ackChan \in Nat \cup {Absent} /\ timedOut \in BOOLEAN
  /\ acks \in [Transfers -> Nat]
  /\ \A t \in Transfers : t > xfer => acks[t] = 0
  /\ spc \in {"idle", "open"} => ackChan = Absent /\ unacked = 0 /\ foreign = 0 /\ ~timedOut
  /\ spc \in {"chunk", "wait"} => ackChan # Absent
  /\ spc = "chunk" => unacked < Window
  /\ spc = "wait" => unacked = Window
  /\ IsFiniteSet(Subs) /\ spc # "idle" /\ ~timedOut =>
       sent - unacked + InChan + acks[xfer] <= Cardinality(Acked) + foreign

\* Whole windows in a number of chunks.
LEMMA Windows ==
  ASSUME NEW a \in Nat, NEW w \in Nat \ {0}
  PROVE  /\ a \div w \in Nat /\ a \div w <= a
         /\ \A b \in Nat : a <= b => a \div w <= b \div w
         /\ (a + 1) % w = 0 => (a + 1) \div w = a \div w + 1 /\ (a + 1) \div w >= 1
OBVIOUS

\* Dividing and multiplying.
LEMMA Shares ==
  ASSUME NEW a \in Nat, NEW n \in Nat \ {0}
  PROVE  /\ a \div n \in Nat /\ n * (a \div n) <= a
         /\ \A b \in Nat : n * b <= a => b <= a \div n
OBVIOUS

\* No subscriber has written more chunks of a transfer than were sent.
LEMMA ReceivedSent ==
  ASSUME TransferInv, spc # "idle", NEW s \in Subs
  PROVE  /\ Received(s) \in Nat /\ Received(s) <= sent
         /\ active[s][xfer] # Absent /\ feed[s] # <<>> => Received(s) + 1 <= sent
<1>0. TransferTypes /\ FileInv(s) /\ xfer \in Transfers /\ sent \in Nat
  BY FileAssumption DEF TransferInv, TransferTypes, Transfers
<1>1. CASE active[s][xfer] = Absent
  BY <1>0, <1>1 DEF Received
<1>2. CASE active[s][xfer] # Absent
  <2>. DEFINE q == feed[s]
              z == active[s][xfer].size
              c == active[s][xfer].count
  <2>1. z \in Nat /\ c \in Nat /\ Announced(s, xfer, z)
    BY <1>0, <1>2, MyTypes
  <2>2. NextPlace(s, z) >= c + 1
    BY <1>0, <1>2 DEF FileInv, DownloadInv, Download, Live
  <2>3. CASE q = <<>>
    BY <1>0, <1>2, <2>1, <2>2, <2>3 DEF NextPlace, Received
  <2>4. CASE q # <<>>
    <3>1. q \in Seq(Payload) /\ Len(q) \in Nat /\ xfer \in Nat
      BY <1>0, MyTypes, Zenon
    <3>2. 1 \in 1..Len(q) /\ Len(q) \in 1..Len(q) /\ q[1] \in Payload
      BY <2>4, <3>1
    <3>3. \A i \in 1..Len(q) : q[i].xfer \in 1..xfer /\ q[i].xfer >= xfer
      BY <1>0, <1>2, Zenon DEF FileInv, QueueInv, HistoryInv
    <3>4. q[1].xfer = xfer /\ q[Len(q)].xfer = xfer
      BY <3>1, <3>2, <3>3
    <3>5. Contiguous(q, xfer, z) /\ Place(q[Len(q)], z) = sent
      BY <1>0, <2>1, <2>4, Zenon DEF FileInv, SizeInv
    <3>6. Place(q[Len(q)], z) = Place(q[1], z) + (Len(q) - 1)
      BY <3>2, <3>4, <3>5 DEF Contiguous
    <3>7. Place(q[1], z) \in Nat /\ NextPlace(s, z) = Place(q[1], z)
      BY <2>1, <2>4, <3>2, PayloadFacts, Zenon DEF NextPlace
    <3>. HIDE DEF q, z, c
    <3>8. c + 1 <= sent
      BY <1>0, <2>1, <2>2, <3>1, <3>2, <3>5, <3>6, <3>7
    <3>. QED  BY <1>0, <1>2, <2>1, <2>4, <3>8 DEF Received, c
  <2>. QED  BY <2>3, <2>4, Zenon
<1>. QED  BY <1>1, <1>2, Zenon

\* Finitely many subscribers send finitely many acks.
LEMMA AckedFinite ==
  ASSUME IsFiniteSet(Subs), NEW n \in Nat, NEW A \in SUBSET (Subs \X (1..n))
  PROVE  IsFiniteSet(A) /\ Cardinality(A) \in Nat /\ Cardinality(A) <= Cardinality(Subs) * n
<1>1. IsFiniteSet(1..n) /\ Cardinality(1..n) = n
  BY FS_Interval
<1>2. IsFiniteSet(Subs \X (1..n)) /\ Cardinality(Subs \X (1..n)) = Cardinality(Subs) * n
  BY <1>1, FS_Product
<1>3. IsFiniteSet(A) /\ Cardinality(A) <= Cardinality(Subs \X (1..n))
  BY <1>2, FS_Subset, Zenon
<1>. QED  BY <1>2, <1>3, FS_CardinalityType, Zenon

\* They do not become fewer while the transfer goes on.
LEMMA AckedGrows ==
  ASSUME IsFiniteSet(Subs), TransferInv, TransferInv', spc # "idle", spc' # "idle", sent <= sent',
         \A s \in Subs : Received(s) <= Received(s)'
  PROVE  /\ Acked \subseteq Acked' /\ Cardinality(Acked) <= Cardinality(Acked')
         /\ Cardinality(Acked) \in Nat /\ Cardinality(Acked') \in Nat
         /\ IsFiniteSet(Acked) /\ IsFiniteSet(Acked')
<1>1. sent \in Nat /\ sent' \in Nat /\ Window \in Nat \ {0}
  BY FileAssumption, Zenon DEF TransferInv, TransferTypes
<1>2. \A s \in Subs : Received(s) \in Nat /\ Received(s)' \in Nat
  <2>1. \A s \in Subs : Received(s) \in Nat
    BY ReceivedSent, Zenon
  <2>2. \A s \in Subs : active'[s][xfer'] = Absent \/ active'[s][xfer'].count \in Nat
    BY FileAssumption DEF TransferInv, TransferTypes, Entry, Transfers
  <2>. QED  BY <2>1, <2>2 DEF Received
<1>3. \A s \in Subs : Received(s) \div Window <= Received(s)' \div Window
                      /\ Received(s) \div Window \in Nat /\ Received(s)' \div Window \in Nat
  BY <1>1, <1>2, Windows
<1>4. Acked \subseteq Acked'
  <2>. SUFFICES ASSUME NEW p \in Acked PROVE p \in Acked'
    BY Zenon
  <2>1. p \in Subs \X (1..sent) /\ p[2] <= Received(p[1]) \div Window
    BY Zenon DEF Acked
  <2>2. p \in Subs \X (1..sent') /\ p[1] \in Subs /\ p[2] \in Nat
    BY <1>1, <2>1
  <2>3. p[2] <= Received(p[1])' \div Window
    BY <1>3, <2>1, <2>2
  <2>. QED  BY <2>2, <2>3 DEF Acked
<1>5. /\ IsFiniteSet(Acked) /\ Cardinality(Acked) \in Nat
      /\ IsFiniteSet(Acked') /\ Cardinality(Acked') \in Nat
  <2>1. Acked \in SUBSET (Subs \X (1..sent)) /\ Acked' \in SUBSET (Subs \X (1..sent'))
    BY Zenon DEF Acked
  <2>. QED  BY <1>1, <2>1, AckedFinite
<1>6. Cardinality(Acked) <= Cardinality(Acked')
  BY <1>4, <1>5, FS_Subset
<1>. QED  BY <1>4, <1>5, <1>6

\* What a subscriber does to the acks under way and to the chunks written: at most
\* one ack more, of a window that was not full before.
LEMMA SubscriberAcks ==
  ASSUME TransferInv, AckInv, NEW s \in Subs, FileStart(s) \/ FileChunk(s) \/ FileEnd(s) \/ Gap(s)
  PROVE  /\ UNCHANGED <<spc, xfer, sent, unacked, foreign, timedOut, ackChan>>
         /\ acks' \in [Transfers -> Nat] /\ \A t \in Transfers : t > xfer => acks'[t] = 0
         /\ spc # "idle" => \A r \in Subs : Received(r) <= Received(r)'
         /\ spc # "idle" => \/ acks'[xfer] = acks[xfer]
                            \/ /\ acks'[xfer] = acks[xfer] + 1 /\ Received(s)' = Received(s) + 1
                               /\ Received(s)' <= sent /\ Received(s)' % Window = 0
<1>. DEFINE q == feed[s]
<1>. PICK u : u = feed[s][1].xfer
  BY Zenon
<1>0. /\ TransferTypes /\ FileInv(s) /\ acks \in [Transfers -> Nat]
      /\ \A t \in Transfers : t > xfer => acks[t] = 0
  BY Zenon DEF TransferInv, AckInv
<1>1. UNCHANGED <<spc, xfer, sent, unacked, foreign, timedOut, ackChan>>
  BY DEF FileStart, FileChunk, FileEnd, Gap, sendVars
<1>2. /\ \A r \in Subs : active[r] \in [Transfers -> Entry \cup {Absent}]
      /\ active \in [Subs -> [Transfers -> Entry \cup {Absent}]]
      /\ spc # "idle" => xfer \in Transfers
      /\ q \in Seq(Payload) /\ Len(q) \in Nat
  BY <1>0, MyTypes DEF TransferTypes, Transfers
<1>3. spc # "idle" => \A r \in Subs : Received(r) \in Nat
  BY ReceivedSent, Zenon
<1>4. ASSUME q # <<>>
      PROVE  /\ 1 \in 1..Len(q) /\ Len(q) \in 1..Len(q) /\ Head(q) = q[1]
             /\ u \in Transfers /\ u <= xfer
  <2>1. 1 \in 1..Len(q) /\ Len(q) \in 1..Len(q) /\ Head(q) = q[1]
    BY <1>2, <1>4
  <2>2. u \in 1..xfer /\ xfer \in 0..MaxTransfers /\ MaxTransfers \in Nat
    BY <1>0, <2>1, FileAssumption DEF FileInv, QueueInv, TransferTypes
  <2>. QED  BY <2>1, <2>2 DEF Transfers
<1>5. CASE Gap(s)
  <2>1. UNCHANGED <<active, acks>>
    BY <1>5, Zenon DEF Gap
  <2>. QED  BY <1>0, <1>1, <1>3, <2>1 DEF Received
<1>6. CASE FileStart(s)
  <2>1. q # <<>> /\ Head(q).tag = "start" /\ acks' = acks
    BY <1>6, Zenon DEF FileStart, Take
  <2>2. active' = active \/ active' = [active EXCEPT ![s][u] = NewEntry(Head(q))]
    BY <1>4, <1>6, <2>1, Zenon DEF FileStart
  <2>3. active[s][u] = Absent
    BY <1>0, <1>4, <2>1, Zenon DEF FileInv, HistoryInv
  <2>4. /\ \A r \in Subs, t \in Transfers : <<r, t>> # <<s, u>> => active'[r][t] = active[r][t]
        /\ active' = active \/ (active'[s][u] = NewEntry(Head(q)) /\ NewEntry(Head(q)).count = 0)
    BY <1>2, <1>4, <2>1, <2>2 DEF NewEntry
  <2>5. spc # "idle" => \A r \in Subs : Received(r) <= Received(r)'
    <3>. SUFFICES ASSUME spc # "idle", NEW r \in Subs PROVE Received(r) <= Received(r)'
      OBVIOUS
    <3>1. CASE r = s /\ u = xfer
      BY <1>1, <2>3, <2>4, <3>1 DEF Received
    <3>2. CASE ~(r = s /\ u = xfer)
      <4>1. active'[r][xfer] = active[r][xfer]
        BY <1>2, <2>4, <3>2
      <4>. QED  BY <1>1, <1>3, <4>1 DEF Received
    <3>. QED  BY <3>1, <3>2, Zenon
  <2>. QED  BY <1>0, <1>1, <2>1, <2>5
<1>7. CASE FileEnd(s)
  <2>1. q # <<>> /\ Head(q).tag = "end"
    BY <1>7 DEF FileEnd, Take
  <2>2. \/ UNCHANGED <<active, acks>>
        \/ acks' = [acks EXCEPT ![u] = @ + 1] /\ active' = [active EXCEPT ![s][u] = Absent]
    BY <1>4, <1>7, <2>1 DEF FileEnd, sendAckFrame
  <2>3. spc # "idle" => u # xfer
    <3>. SUFFICES ASSUME spc # "idle", u = xfer PROVE FALSE
      BY Zenon
    <3>1. q[Len(q)].xfer = xfer /\ q[Len(q)].tag # "end" /\ Ordered(q)
      BY <1>0, <2>1, Zenon DEF FileInv, QueueInv
    <3>2. 1 < Len(q)
      BY <1>2, <1>4, <2>1, <3>1
    <3>3. q[1].xfer < q[Len(q)].xfer
      BY <1>4, <2>1, <3>1, <3>2 DEF Ordered
    <3>4. xfer \in Nat
      BY <1>0, MyTypes, Zenon
    <3>. QED  BY <3>1, <3>3, <3>4
  <2>4. /\ acks' \in [Transfers -> Nat]
        /\ \A t \in Transfers : t # u => acks'[t] = acks[t]
        /\ \A r \in Subs, t \in Transfers : t # u => active'[r][t] = active[r][t]
    <3>1. u \in Transfers /\ acks[u] + 1 \in Nat
      BY <1>0, <1>4, <2>1
    <3>2. acks' \in [Transfers -> Nat] /\ \A t \in Transfers : t # u => acks'[t] = acks[t]
      BY <1>0, <2>2, <3>1, Zenon
    <3>3. \A r \in Subs, t \in Transfers : t # u => active'[r][t] = active[r][t]
      BY <1>2, <2>2, <3>1
    <3>. QED  BY <3>2, <3>3, Zenon
  <2>5. \A t \in Transfers : t > xfer => acks'[t] = 0
    <3>1. xfer \in Nat /\ u <= xfer
      BY <1>0, <1>4, <2>1, MyTypes, Zenon
    <3>. QED  BY <1>0, <1>4, <2>1, <2>4, <3>1 DEF Transfers
  <2>6. spc # "idle" => /\ acks'[xfer] = acks[xfer]
                        /\ \A r \in Subs : active'[r][xfer] = active[r][xfer]
    BY <1>2, <2>3, <2>4, Zenon
  <2>7. spc # "idle" => \A r \in Subs : Received(r) <= Received(r)'
    BY <1>1, <1>3, <2>6 DEF Received
  <2>. QED  BY <1>1, <2>4, <2>5, <2>6, <2>7
<1>8. CASE FileChunk(s)
  <2>. DEFINE af == active[s][u]
  <2>1. q # <<>> /\ Head(q).tag = "chunk"
    BY <1>8 DEF FileChunk, Take
  <2>2. CASE af = Absent
    <3>1. UNCHANGED <<active, acks>>
      BY <1>4, <1>8, <2>1, <2>2 DEF FileChunk
    <3>. QED  BY <1>0, <1>1, <1>3, <3>1 DEF Received
  <2>3. CASE af # Absent
    <3>1. /\ active' = [active EXCEPT ![s][u].count = @ + 1]
          /\ \/ (af.count + 1) % Window = 0 /\ acks' = [acks EXCEPT ![u] = @ + 1]
             \/ acks' = acks
      BY <1>4, <1>8, <2>1, <2>3 DEF FileChunk, sendAckFrame
    <3>2. af \in Entry /\ af.count \in Nat
      BY <1>2, <1>4, <2>1, <2>3 DEF Entry
    <3>3. /\ \A r \in Subs, t \in Transfers : <<r, t>> # <<s, u>> => active'[r][t] = active[r][t]
          /\ active'[s][u] = [af EXCEPT !.count = @ + 1]
      BY <1>2, <1>4, <2>1, <3>1, Zenon
    <3>4. active'[s][u].count = af.count + 1 /\ active'[s][u] # Absent
      <4>1. [af EXCEPT !.count = @ + 1] \in [name : Names, size : Nat, count : Nat]
            /\ [af EXCEPT !.count = @ + 1].count = af.count + 1
        <5>1. af \in [name : Names, size : Nat, count : Nat]
          BY <3>2, FileAssumption DEF Entry
        <5>. HIDE DEF af
        <5>. QED  BY <5>1
      <4>. QED  BY <3>3, <4>1, FileAssumption
    <3>5. acks' \in [Transfers -> Nat] /\ \A t \in Transfers : t # u => acks'[t] = acks[t]
      <4>1. u \in Transfers /\ acks[u] + 1 \in Nat
        BY <1>0, <1>4, <2>1
      <4>. QED  BY <1>0, <3>1, <4>1, Zenon
    <3>6. \A t \in Transfers : t > xfer => acks'[t] = 0
      <4>1. xfer \in Nat /\ u <= xfer
        BY <1>0, <1>4, <2>1, MyTypes, Zenon
      <4>. QED  BY <1>0, <1>4, <2>1, <3>5, <4>1 DEF Transfers
    <3>7. CASE spc # "idle" /\ u = xfer
      <4>1. Received(s) = af.count /\ Received(s)' = af.count + 1 /\ Received(s)' <= sent
        BY <1>1, <2>1, <2>3, <3>2, <3>4, <3>7, ReceivedSent DEF Received
      <4>2. \A r \in Subs \ {s} : Received(r)' = Received(r)
        BY <1>1, <1>2, <3>3, <3>7 DEF Received
      <4>3. \A r \in Subs : Received(r) <= Received(r)'
        BY <1>3, <3>2, <3>7, <4>1, <4>2
      <4>4. \/ acks'[xfer] = acks[xfer]
            \/ acks'[xfer] = acks[xfer] + 1 /\ (af.count + 1) % Window = 0
        BY <1>0, <1>4, <2>1, <3>1, <3>7, Zenon
      <4>. QED  BY <1>1, <3>2, <3>5, <3>6, <4>1, <4>3, <4>4, Zenon
    <3>8. CASE spc # "idle" /\ u # xfer
      <4>1. acks'[xfer] = acks[xfer] /\ \A r \in Subs : active'[r][xfer] = active[r][xfer]
        BY <1>2, <3>3, <3>5, <3>8
      <4>2. \A r \in Subs : Received(r) <= Received(r)'
        BY <1>1, <1>3, <3>8, <4>1 DEF Received
      <4>. QED  BY <1>1, <3>5, <3>6, <4>1, <4>2
    <3>. QED  BY <1>1, <3>5, <3>6, <3>7, <3>8, Zenon
  <2>. QED  BY <2>2, <2>3, Zenon
<1>. QED  BY <1>5, <1>6, <1>7, <1>8, Zenon

\* The acks under way are paid for by full windows after a subscriber's step.
LEMMA SubscriberPays ==
  ASSUME TransferInv, TransferInv', AckInv, NEW s \in Subs,
         FileStart(s) \/ FileChunk(s) \/ FileEnd(s) \/ Gap(s)
  PROVE  AckInv'
<1>0. /\ UNCHANGED <<spc, xfer, sent, unacked, foreign, timedOut, ackChan>>
      /\ acks' \in [Transfers -> Nat] /\ \A t \in Transfers : t > xfer => acks'[t] = 0
      /\ spc # "idle" => \A r \in Subs : Received(r) <= Received(r)'
      /\ spc # "idle" => \/ acks'[xfer] = acks[xfer]
                         \/ /\ acks'[xfer] = acks[xfer] + 1 /\ Received(s)' = Received(s) + 1
                            /\ Received(s)' <= sent /\ Received(s)' % Window = 0
  BY SubscriberAcks
<1>1. ASSUME IsFiniteSet(Subs), spc # "idle", ~timedOut
      PROVE  sent' - unacked' + InChan' + acks'[xfer'] <= Cardinality(Acked') + foreign'
  <2>0. /\ sent \in Nat /\ unacked \in Nat /\ InChan \in Nat /\ foreign \in Nat
        /\ xfer \in Transfers /\ acks[xfer] \in Nat /\ Window \in Nat \ {0}
        /\ sent - unacked + InChan + acks[xfer] <= Cardinality(Acked) + foreign
    <3>1. /\ sent \in Nat /\ unacked \in Nat /\ foreign \in Nat /\ ackChan \in Nat \cup {Absent}
          /\ acks \in [Transfers -> Nat] /\ Window \in Nat \ {0}
          /\ xfer \in 0..MaxTransfers /\ xfer >= 1 /\ MaxTransfers \in Nat
      BY <1>1, FileAssumption, Zenon DEF AckInv, TransferInv, TransferTypes
    <3>2. xfer \in Transfers /\ 0 \in Nat
      BY <3>1 DEF Transfers
    <3>3. acks[xfer] \in Nat /\ InChan \in Nat
      BY <3>1, <3>2, Zenon DEF InChan
    <3>4. sent - unacked + InChan + acks[xfer] <= Cardinality(Acked) + foreign
      BY <1>1, Zenon DEF AckInv
    <3>. QED  BY <3>1, <3>2, <3>3, <3>4, Zenon
  <2>1. InChan' = InChan
    BY <1>0, Zenon DEF InChan
  <2>2. /\ Acked \subseteq Acked' /\ Cardinality(Acked) <= Cardinality(Acked')
        /\ Cardinality(Acked) \in Nat /\ Cardinality(Acked') \in Nat
        /\ IsFiniteSet(Acked) /\ IsFiniteSet(Acked')
    BY <1>0, <1>1, <2>0, AckedGrows
  <2>3. CASE acks'[xfer] = acks[xfer]
    BY <1>0, <2>0, <2>1, <2>2, <2>3
  <2>4. CASE /\ acks'[xfer] = acks[xfer] + 1 /\ Received(s)' = Received(s) + 1
             /\ Received(s)' <= sent /\ Received(s)' % Window = 0
    <3>. DEFINE k == Received(s)' \div Window
                p == <<s, k>>
    <3>1. Received(s) \in Nat
      BY <1>1, ReceivedSent
    <3>2. k = Received(s) \div Window + 1 /\ k >= 1 /\ k \in Nat /\ k <= Received(s)'
          /\ Received(s) \div Window \in Nat
      <4>. PICK a \in Nat : a = Received(s)
        BY <3>1, Zenon
      <4>1. Received(s)' = a + 1 /\ (a + 1) % Window = 0 /\ a + 1 \in Nat
        BY <2>4
      <4>2. /\ (a + 1) \div Window = a \div Window + 1 /\ (a + 1) \div Window >= 1
            /\ a \div Window \in Nat
        BY <2>0, <4>1, Windows
      <4>3. (a + 1) \div Window \in Nat /\ (a + 1) \div Window <= a + 1
        BY <2>0, <4>1, Windows
      <4>. QED  BY <4>1, <4>2, <4>3
    <3>3. k \in 1..sent'
      BY <1>0, <2>0, <2>4, <3>1, <3>2
    <3>4. p \in Acked'
      BY <3>2, <3>3 DEF Acked
    <3>5. p \notin Acked
      BY <3>2 DEF Acked
    <3>6. IsFiniteSet(Acked \cup {p}) /\ Cardinality(Acked \cup {p}) = Cardinality(Acked) + 1
      BY <2>2, <3>5, FS_AddElement
    <3>7. Cardinality(Acked \cup {p}) <= Cardinality(Acked')
      <4>1. (Acked \cup {p}) \in SUBSET Acked'
        BY <2>2, <3>4, Zenon
      <4>. QED  BY <2>2, <4>1, FS_Subset
    <3>. QED  BY <1>0, <2>0, <2>1, <2>2, <2>4, <3>6, <3>7
  <2>. QED  BY <1>0, <1>1, <2>3, <2>4
<1>. QED  BY <1>0, <1>1, Zenon DEF AckInv

\* Every step preserves the account of the acks.
LEMMA AckStep ==
  ASSUME TransferInv, TransferInv', AckInv, [TransferNext]_transferVars
  PROVE  AckInv'
<1>0. /\ TransferTypes /\ TransferTypes' /\ sent \in Nat /\ unacked \in Nat /\ foreign \in Nat
      /\ ackChan \in Nat \cup {Absent} /\ acks \in [Transfers -> Nat] /\ Absent \notin Nat
      /\ Window \in Nat \ {0} /\ xfer \in Nat /\ xfer' \in Nat
      /\ spc # "idle" => xfer \in Transfers /\ acks[xfer] \in Nat
  BY FileAssumption DEF TransferInv, TransferTypes, AckInv, Transfers
<1>1. ASSUME IsFiniteSet(Subs), spc # "idle", spc' # "idle", sent <= sent', UNCHANGED <<xfer, active>>
      PROVE  /\ Cardinality(Acked) <= Cardinality(Acked')
             /\ Cardinality(Acked) \in Nat /\ Cardinality(Acked') \in Nat
  <2>1. \A s \in Subs : Received(s) <= Received(s)'
    <3>1. \A s \in Subs : Received(s) \in Nat /\ Received(s)' = Received(s)
      BY <1>1, ReceivedSent, Zenon DEF Received
    <3>. QED  BY <3>1
  <2>. QED  BY <1>1, <2>1, AckedGrows
<1>2. CASE \E s \in Subs : FileStart(s) \/ FileChunk(s) \/ FileEnd(s) \/ Gap(s)
  BY <1>2, SubscriberPays, Zenon
<1>3. CASE \E t \in Transfers : \E f \in Files(t) : SendFile(f)
  <2>1. /\ spc = "idle" /\ xfer' = xfer + 1 /\ spc' \in {"idle", "open"}
        /\ UNCHANGED <<sent, unacked, foreign, timedOut, ackChan, acks, active>>
    BY <1>3, Zenon DEF SendFile, recvVars
  <2>2. \A t \in Transfers : t > xfer' => acks'[t] = 0
    BY <1>0, <2>1 DEF AckInv, Transfers
  <2>3. ASSUME IsFiniteSet(Subs), spc' # "idle"
        PROVE  sent' - unacked' + InChan' + acks'[xfer'] <= Cardinality(Acked') + foreign'
    <3>1. sent = 0 /\ unacked = 0 /\ foreign = 0 /\ ackChan = Absent
      BY <1>0, <2>1 DEF TransferTypes, AckInv
    <3>2. xfer' \in Transfers
      BY <1>0, <2>1, <2>3, FileAssumption DEF TransferTypes, Transfers
    <3>3. acks'[xfer'] = 0
      BY <1>0, <2>1, <3>2 DEF AckInv
    <3>4. Cardinality(Acked') \in Nat
      <4>1. Acked' \in SUBSET (Subs \X (1..sent'))
        BY Zenon DEF Acked
      <4>. QED  BY <1>0, <2>1, <2>3, <4>1, AckedFinite, Zenon
    <3>. QED  BY <2>1, <3>1, <3>3, <3>4 DEF InChan
  <2>. QED  BY <1>0, <2>1, <2>2, <2>3 DEF AckInv
<1>4. CASE OpenAckChan
  <2>1. /\ spc = "open" /\ spc' = "chunk" /\ ackChan' = 0
        /\ UNCHANGED <<xfer, sent, unacked, foreign, timedOut, acks, active>>
    BY <1>4, Zenon DEF OpenAckChan, recvVars
  <2>2. InChan' = 0 /\ InChan = 0 /\ unacked = 0
    BY <1>0, <2>1 DEF InChan, AckInv
  <2>. QED  BY <1>0, <1>1, <2>1, <2>2 DEF AckInv
<1>5. CASE SendChunk
  <2>1. /\ spc = "chunk" /\ sent' = sent + 1 /\ unacked' = unacked + 1
        /\ spc' = IF unacked' >= Window THEN "wait" ELSE "chunk"
        /\ UNCHANGED <<xfer, foreign, timedOut, ackChan, acks, active>>
    BY <1>5, Zenon DEF SendChunk, recvVars
  <2>2. InChan' = InChan /\ InChan \in Nat /\ unacked < Window
    BY <1>0, <2>1, Zenon DEF InChan, AckInv
  <2>. QED  BY <1>0, <1>1, <2>1, <2>2 DEF AckInv
<1>6. CASE TakeAck
  <2>1. /\ spc = "wait" /\ spc' = "chunk" /\ ackChan' = ackChan - 1 /\ unacked' = unacked - 1
        /\ ackChan > 0
        /\ UNCHANGED <<xfer, sent, foreign, timedOut, acks, active>>
    BY <1>6, Zenon DEF TakeAck, recvVars
  <2>2. ackChan \in Nat /\ ackChan' \in Nat /\ unacked = Window /\ unacked' \in Nat
    BY <1>0, <2>1 DEF AckInv
  <2>3. InChan' = InChan - 1 /\ InChan \in Nat
    BY <1>0, <2>1, <2>2, Zenon DEF InChan
  <2>. QED  BY <1>0, <1>1, <2>1, <2>2, <2>3 DEF AckInv
<1>7. CASE AckTimeout
  <2>1. /\ spc = "wait" /\ spc' = "chunk" /\ unacked' = 0 /\ timedOut' = TRUE
        /\ UNCHANGED <<xfer, foreign, ackChan, acks>>
    BY <1>7, Zenon DEF AckTimeout
  <2>. QED  BY <1>0, <2>1 DEF AckInv
<1>8. CASE SendEnd \/ Abort \/ SendChunkFails
  <2>1. /\ spc' = "idle" /\ ackChan' = Absent /\ unacked' = 0 /\ foreign' = 0 /\ timedOut' = FALSE
        /\ UNCHANGED <<xfer, acks>>
    BY <1>8, Zenon DEF SendEnd, Abort, SendChunkFails, Return
  <2>. QED  BY <1>0, <2>1, Zenon DEF AckInv
<1>9. CASE EditSource \/ UNCHANGED transferVars
  <2>1. UNCHANGED <<spc, xfer, sent, unacked, foreign, timedOut, ackChan, acks, active>>
    BY <1>9, Zenon DEF EditSource, transferVars, sendVars, recvVars
  <2>2. InChan' = InChan
    BY <2>1 DEF InChan
  <2>3. Acked' = Acked
    BY <2>1, Zenon DEF Acked, Received
  <2>. QED  BY <2>1, <2>2, <2>3 DEF AckInv
<1>10. CASE \E t \in Transfers : HandleChunkAck(t) \/ LoseAck(t)
  <2>. PICK t \in Transfers : HandleChunkAck(t) \/ LoseAck(t)
    BY <1>10, Zenon
  <2>1. /\ UNCHANGED <<spc, xfer, sent, unacked, timedOut, active>>
        /\ acks[t] > 0 /\ acks' = [acks EXCEPT ![t] = acks[t] - 1]
        /\ \/ UNCHANGED <<ackChan, foreign>>
           \/ /\ ackChan # Absent /\ ackChan' = ackChan + 1
              /\ foreign' = IF t = xfer THEN foreign ELSE foreign + 1
    BY DEF HandleChunkAck, LoseAck, sendVars, recvVars
  <2>2. acks[t] - 1 \in Nat
    BY <1>0, <2>1
  <2>3. /\ acks' \in [Transfers -> Nat] /\ acks'[t] = acks[t] - 1
        /\ \A r \in Transfers : r # t => acks'[r] = acks[r]
    BY <1>0, <2>1, <2>2
  <2>4. t <= xfer /\ \A r \in Transfers : r > xfer => acks'[r] = 0
    <3>1. t <= xfer
      BY <1>0, <2>1 DEF AckInv, Transfers
    <3>. QED  BY <1>0, <2>3, <3>1 DEF AckInv, Transfers
  <2>5. Acked' = Acked
    BY <2>1, Zenon DEF Acked, Received
  <2>6. /\ foreign' \in Nat /\ ackChan' \in Nat \cup {Absent} /\ InChan \in Nat /\ InChan' \in Nat
        /\ ackChan' = Absent <=> ackChan = Absent
        /\ \/ InChan' = InChan /\ foreign' = foreign
           \/ /\ InChan' = InChan + 1 /\ ackChan # Absent
              /\ foreign' = IF t = xfer THEN foreign ELSE foreign + 1
    <3>1. CASE UNCHANGED <<ackChan, foreign>>
      BY <1>0, <3>1, Zenon DEF InChan
    <3>2. CASE /\ ackChan # Absent /\ ackChan' = ackChan + 1
               /\ foreign' = IF t = xfer THEN foreign ELSE foreign + 1
      <4>1. ackChan \in Nat /\ ackChan' \in Nat /\ ackChan' # Absent
        BY <1>0, <3>2
      <4>2. InChan = ackChan /\ InChan' = ackChan + 1
        BY <3>2, <4>1, Zenon DEF InChan
      <4>. QED  BY <1>0, <3>2, <4>1, <4>2
    <3>. QED  BY <2>1, <3>1, <3>2, Zenon
  <2>7. ASSUME IsFiniteSet(Subs), spc # "idle", ~timedOut
        PROVE  sent' - unacked' + InChan' + acks'[xfer'] <= Cardinality(Acked') + foreign'
    <3>1. Cardinality(Acked) \in Nat
      BY <1>0, <1>1, <2>1, <2>7
    <3>2. sent - unacked + InChan + acks[xfer] <= Cardinality(Acked) + foreign
      BY <2>7, Zenon DEF AckInv
    <3>3. acks'[xfer] \in Nat /\ acks'[xfer] = IF t = xfer THEN acks[xfer] - 1 ELSE acks[xfer]
      BY <1>0, <2>3, <2>7
    <3>. QED  BY <1>0, <2>1, <2>5, <2>6, <2>7, <3>1, <3>2, <3>3
  <2>. QED  BY <2>1, <2>3, <2>4, <2>6, <2>7 DEF AckInv
<1>. QED  BY <1>2, <1>3, <1>4, <1>5, <1>6, <1>7, <1>8, <1>9, <1>10, Zenon DEF TransferNext, Sender

\* The account of the acks bounds what the sender is ahead: were every subscriber
\* behind the bound, too few windows were full for the chunks sent.
LEMMA AckBound == TransferInv /\ AckInv => Backpressure
<1>. SUFFICES ASSUME TransferInv, AckInv, spc \in {"chunk", "wait"}, ~timedOut,
                     IsFiniteSet(Subs), Subs # {},
                     \A s \in Subs :
                       ~(sent <= Window + foreign + Cardinality(Subs) * (Received(s) \div Window))
              PROVE  FALSE
  BY Zenon DEF Backpressure
<1>. DEFINE n == Cardinality(Subs)
            b == sent - Window - foreign
            k == (b - 1) \div n
<1>0. /\ sent \in Nat /\ Window \in Nat \ {0} /\ foreign \in Nat /\ unacked \in Nat
      /\ unacked <= Window /\ InChan \in Nat /\ acks[xfer] \in Nat
      /\ sent - unacked + InChan + acks[xfer] <= Cardinality(Acked) + foreign
  BY FileAssumption DEF TransferInv, TransferTypes, AckInv, InChan, Transfers
<1>1. n \in Nat \ {0}
  BY FS_CardinalityType, FS_EmptySet, Zenon
<1>2. \A s \in Subs : Received(s) \div Window \in Nat
  BY <1>0, ReceivedSent, Windows, Zenon
<1>3. b >= 1 /\ b - 1 \in Nat /\ \A s \in Subs : n * (Received(s) \div Window) <= b - 1
  <2>1. \A s \in Subs : n * (Received(s) \div Window) \in Nat
    BY <1>1, <1>2
  <2>. HIDE DEF n
  <2>2. \A s \in Subs : sent > Window + foreign + n * (Received(s) \div Window)
    BY <1>0, <2>1 DEF n
  <2>. QED  BY <1>0, <2>1, <2>2
<1>4. k \in Nat /\ n * k <= b - 1 /\ \A s \in Subs : Received(s) \div Window <= k
  <2>. HIDE DEF n, b
  <2>. QED  BY <1>1, <1>2, <1>3, Shares
<1>5. Acked \in SUBSET (Subs \X (1..k))
  <2>. HIDE DEF k
  <2>. SUFFICES ASSUME NEW p \in Acked PROVE p \in Subs \X (1..k)
    BY Zenon
  <2>1. p \in Subs \X (1..sent) /\ p[2] <= Received(p[1]) \div Window
    BY Zenon DEF Acked
  <2>2. p[1] \in Subs /\ p[2] \in 1..sent /\ p = <<p[1], p[2]>>
    BY <2>1
  <2>3. p[2] \in 1..k
    BY <1>0, <1>2, <1>4, <2>1, <2>2
  <2>. QED  BY <2>2, <2>3, Zenon
<1>6. Cardinality(Acked) \in Nat /\ Cardinality(Acked) <= n * k
  <2>. HIDE DEF k
  <2>. QED  BY <1>4, <1>5, AckedFinite
<1>7. n * k \in Nat
  <2>. HIDE DEF k, n
  <2>. QED  BY <1>1, <1>4
<1>. HIDE DEF n, k
<1>. QED  BY <1>0, <1>3, <1>4, <1>6, <1>7

\* Backpressure holds for any number of subscribers, any window and any capacity
\* of the channel: unless a pause ran out, the sender is ahead by a window, and a
\* chunk for every ack of a full window that some subscriber's progress allows.
THEOREM SenderHeldBack == TransferSpec => []Backpressure
<1>1. TransferInit => AckInv
  <2>. SUFFICES ASSUME TransferInit PROVE AckInv
    OBVIOUS
  <2>1. /\ spc = "idle" /\ unacked = 0 /\ foreign = 0 /\ ackChan = Absent /\ timedOut = FALSE
        /\ acks = [t \in Transfers |-> 0]
    BY Zenon DEF TransferInit
  <2>2. acks \in [Transfers -> Nat] /\ \A t \in Transfers : acks[t] = 0
    BY <2>1, Zenon
  <2>. QED  BY <2>1, <2>2 DEF AckInv
<1>2. TransferInv /\ TransferInv' /\ AckInv /\ [TransferNext]_transferVars => AckInv'
  BY AckStep, Zenon
<1>3. TransferInv /\ AckInv => Backpressure
  BY AckBound, Zenon
<1>. QED  BY <1>1, <1>2, <1>3, TransferStarts, TransferStep, PTL DEF TransferSpec
================================================================================
