-------------------------- MODULE FileTransferProofs --------------------------
(***************************************************************************)
(* A subscriber's verdict on a file is right, for any subscribers, names,  *)
(* sizes and windows and any numbers of transfers, gaps and file errors.   *)
(***************************************************************************)
EXTENDS FileTransfer, TLAPS

-----------------------------------------------------------------------------
(* File transfers: what a subscriber's verdict rests on                    *)

\* What is sent, what may be in a subscriber's queue, and what it notes of a file.
AnyFile == [name : Names, size : Nat]
Payload ==
  [tag : {"start"}, xfer : Nat, name : Names, size : Nat]
    \cup [tag : {"chunk"}, xfer : Nat, k : Int \ {0}]
    \cup [tag : {"end"}, xfer : Nat]
Entry == [name : Names, size : Nat, count : Nat]

\* The types of the sender's and the subscribers' variables.
TransferTypes ==
  /\ spc \in {"idle", "open", "chunk", "wait"}
  /\ xfer \in 0..MaxTransfers /\ sent \in Nat
  /\ spc # "idle" => file \in AnyFile /\ xfer >= 1
  /\ spc \in {"idle", "open"} => sent = 0
  /\ feed \in [Subs -> Seq(Payload)]
  /\ active \in [Subs -> [Transfers -> Entry \cup {Absent}]]
  /\ disk \in [Subs -> [Names -> Seq(Int) \cup {Absent}]]
  /\ verdict \in [Subs -> [Transfers -> {"none", "ok", "bad"}]]
  /\ harmed \in [Subs -> SUBSET Transfers]
  /\ ended \in [Subs -> SUBSET Transfers]

\* The place of a payload in a transfer of z chunks: its start, the chunks, its end.
Place(m, z) ==
  IF m.tag = "start" THEN 0
  ELSE IF m.tag = "end" THEN z + 1
  ELSE IF m.k < 0 THEN -m.k ELSE m.k

\* Transfers are published one after the other, each from its start to its end.
Ordered(q) ==
  \A i, j \in 1..Len(q) : i < j =>
    /\ q[i].xfer <= q[j].xfer
    /\ q[i].tag = "end" \/ q[j].tag = "start" => q[i].xfer < q[j].xfer

\* Nothing is missing between two payloads of transfer t.
Contiguous(q, t, z) ==
  \A i, j \in 1..Len(q) :
    i <= j /\ q[i].xfer = t /\ q[j].xfer = t => Place(q[j], z) = Place(q[i], z) + (j - i)

\* Something of transfer t is in the queue.
Holds(q, t) == \E i \in 1..Len(q) : q[i].xfer = t

\* The start of transfer t, of a file of z chunks, is ahead.
Ahead(q, t, z) == \E i \in 1..Len(q) : q[i].tag = "start" /\ q[i].xfer = t /\ q[i].size = z

\* More of transfer t may come to s.
Live(s, t) == Holds(feed[s], t) \/ (t = xfer /\ spc # "idle")

\* Subscriber s knows or will know from its start that transfer t has z chunks.
Announced(s, t, z) ==
  \/ active[s][t] # Absent /\ active[s][t].size = z
  \/ Ahead(feed[s], t, z)

\* What waits for s was published in order; while SendFile runs, last comes what it
\* published last.
QueueInv(s) ==
  LET q == feed[s] IN
  /\ \A i \in 1..Len(q) : q[i].xfer \in 1..xfer
  /\ Ordered(q)
  /\ spc # "idle" /\ q # <<>> => q[Len(q)].xfer = xfer /\ q[Len(q)].tag # "end"

\* What is left of a transfer whose size s knows has no holes, up to what was sent.
SizeInv(s) ==
  \A t \in Transfers, z \in Nat : Announced(s, t, z) =>
    /\ Contiguous(feed[s], t, z)
    /\ t = xfer /\ spc # "idle" =>
         /\ z = file.size
         /\ feed[s] # <<>> => Place(feed[s][Len(feed[s])], z) = sent

\* Each transfer in the life of s: to come, missed in part, running, or ended.
HistoryInv(s) ==
  \A t \in Transfers :
    /\ t \in ended[s] => ~Live(s, t) /\ active[s][t] = Absent
    /\ t > xfer => t \notin ended[s] /\ t \notin harmed[s] /\ active[s][t] = Absent
    /\ active[s][t] # Absent => \A i \in 1..Len(feed[s]) : feed[s][i].xfer >= t
    /\ \A i \in 1..Len(feed[s]) : feed[s][i].tag = "start" /\ feed[s][i].xfer = t =>
         t \notin harmed[s] /\ active[s][t] = Absent
    /\ t <= xfer /\ t \notin harmed[s] /\ t \notin ended[s] /\ active[s][t] = Absent =>
         \E z \in Nat : Ahead(feed[s], t, z)

\* The place of what comes next.
NextPlace(s, z) == IF feed[s] = <<>> THEN sent + 1 ELSE Place(feed[s][1], z)

\* The chunks d are all there is before place p; or one is wrong, or missing.
Complete(d, p) == (\A i \in 1..Len(d) : d[i] = i) /\ p = Len(d) + 1
Spoilt(d, p) == (\E i \in 1..Len(d) : d[i] # i) \/ p > Len(d) + 1

\* What is on disk of transfer t: everything so far, or it will not match.
Download(s, t) ==
  LET af == active[s][t]
      d == disk[s][af.name]
  IN  /\ d \in Seq(Int) /\ Len(d) <= af.count
      /\ NextPlace(s, af.size) >= af.count + 1
      /\ t \notin harmed[s] => Complete(d, NextPlace(s, af.size))
      /\ t \in harmed[s] => Spoilt(d, NextPlace(s, af.size))

\* This holds of every transfer that s may still have to judge.
DownloadInv(s) ==
  \A t \in Transfers : active[s][t] # Absent /\ Live(s, t) => Download(s, t)

\* The inductive invariant of one subscriber.
FileInv(s) == QueueInv(s) /\ SizeInv(s) /\ HistoryInv(s) /\ DownloadInv(s)

\* Every file that is sent has a name and a size.
LEMMA AllFiles == \A t \in Transfers : Files(t) \subseteq AnyFile
<1>1. \A t \in Transfers : Sizes[t] \subseteq Nat
  BY FileAssumption, Zenon DEF Transfers
<1>. QED  BY <1>1, Zenon DEF Files, AnyFile

-----------------------------------------------------------------------------
(* Queues                                                                  *)

\* What a payload is, and that its place is a number.
LEMMA PayloadFacts ==
  ASSUME NEW m \in Payload, NEW z \in Nat
  PROVE  /\ m.tag \in {"start", "chunk", "end"} /\ m.xfer \in Nat
         /\ m.tag = "start" => m.name \in Names /\ m.size \in Nat
         /\ m.tag = "chunk" => m.k \in Int /\ m.k # 0
         /\ Place(m, z) \in Nat
<1>1. /\ m.tag \in {"start", "chunk", "end"} /\ m.xfer \in Nat
      /\ m.tag = "start" => m.name \in Names /\ m.size \in Nat
      /\ m.tag = "chunk" => m.k \in Int /\ m.k # 0
  BY Zenon DEF Payload
<1>2. Place(m, z) \in Nat
  BY <1>1 DEF Place
<1>. QED  BY <1>1, <1>2, Zenon

\* A payload at the end of a queue.
LEMMA Appended ==
  ASSUME NEW q \in Seq(Payload), NEW m \in Payload
  PROVE  /\ Append(q, m) \in Seq(Payload) /\ Len(Append(q, m)) = Len(q) + 1
         /\ Append(q, m) # <<>> /\ Len(q) \in Nat
         /\ Append(q, m)[Len(q) + 1] = m
         /\ \A i \in 1..Len(q) : Append(q, m)[i] = q[i]
         /\ \A i \in 1..Len(q) + 1 : \/ i \in 1..Len(q) /\ Append(q, m)[i] = q[i]
                                     \/ i = Len(q) + 1 /\ Append(q, m)[i] = m
<1>. DEFINE r == Append(q, m)
<1>1. /\ r \in Seq(Payload) /\ Len(r) = Len(q) + 1 /\ Len(q) \in Nat
      /\ r[Len(q) + 1] = m
      /\ \A i \in 1..Len(q) : r[i] = q[i]
  OBVIOUS
<1>. HIDE DEF r
<1>2. \A i \in 1..Len(q) + 1 : \/ i \in 1..Len(q) /\ r[i] = q[i]
                               \/ i = Len(q) + 1 /\ r[i] = m
  BY <1>1
<1>3. r # <<>>
  BY <1>1
<1>. QED  BY <1>1, <1>2, <1>3, Zenon DEF r

\* What an appended payload adds to a queue.
LEMMA AppendedHolds ==
  ASSUME NEW q \in Seq(Payload), NEW m \in Payload, NEW t
  PROVE  /\ Holds(Append(q, m), t) <=> Holds(q, t) \/ t = m.xfer
         /\ \A z : Ahead(Append(q, m), t, z) <=>
              Ahead(q, t, z) \/ (m.tag = "start" /\ m.xfer = t /\ m.size = z)
<1>. DEFINE r == Append(q, m)
<1>1. /\ Len(r) = Len(q) + 1 /\ Len(q) \in Nat /\ r[Len(q) + 1] = m
      /\ \A i \in 1..Len(q) : r[i] = q[i]
      /\ \A i \in 1..Len(q) + 1 : \/ i \in 1..Len(q) /\ r[i] = q[i]
                                  \/ i = Len(q) + 1 /\ r[i] = m
  BY Appended, Zenon
<1>2. Len(q) + 1 \in 1..Len(r) /\ \A i \in 1..Len(q) : i \in 1..Len(r)
  BY <1>1
<1>. HIDE DEF r
<1>3. Holds(r, t) <=> Holds(q, t) \/ t = m.xfer
  BY <1>1, <1>2, Zenon DEF Holds
<1>4. ASSUME NEW z
      PROVE  Ahead(r, t, z) <=> Ahead(q, t, z) \/ (m.tag = "start" /\ m.xfer = t /\ m.size = z)
  BY <1>1, <1>2, Zenon DEF Ahead
<1>. QED  BY <1>3, <1>4, Zenon DEF r

\* The first n payloads of a queue are taken, or missed.
LEMMA Shifted ==
  ASSUME NEW q \in Seq(Payload), NEW n \in 1..Len(q)
  PROVE  LET r == SubSeq(q, n + 1, Len(q)) IN
         /\ r \in Seq(Payload) /\ Len(r) = Len(q) - n /\ Len(r) \in Nat /\ Len(q) \in Nat
         /\ r = <<>> <=> n = Len(q)
         /\ \A i \in 1..Len(r) : i + n \in 1..Len(q) /\ r[i] = q[i + n]
<1>. DEFINE r == SubSeq(q, n + 1, Len(q))
<1>1. Len(q) \in Nat /\ n \in Nat /\ n <= Len(q)
  OBVIOUS
<1>2. r \in Seq(Payload) /\ Len(r) = Len(q) - n
  BY <1>1
<1>3. \A i \in 1..Len(r) : i + n \in 1..Len(q) /\ r[i] = q[i + n]
  BY <1>1, <1>2
<1>. HIDE DEF r
<1>4. r = <<>> <=> Len(r) = 0
  BY <1>2
<1>5. Len(r) \in Nat /\ (r = <<>> <=> n = Len(q))
  BY <1>1, <1>2, <1>4
<1>. QED  BY <1>1, <1>2, <1>3, <1>5, Zenon DEF r

\* Tail is a shift by one.
LEMMA TailShifts ==
  ASSUME NEW q \in Seq(Payload), q # <<>>
  PROVE  Tail(q) = SubSeq(q, 2, Len(q)) /\ Head(q) = q[1] /\ 1 \in 1..Len(q) /\ q[1] \in Payload
OBVIOUS

\* A shift keeps the order.
LEMMA ShiftOrdered ==
  ASSUME NEW q \in Seq(Payload), NEW n \in 1..Len(q), Ordered(q)
  PROVE  Ordered(SubSeq(q, n + 1, Len(q)))
<1>. DEFINE r == SubSeq(q, n + 1, Len(q))
<1>1. Len(q) \in Nat /\ Len(r) \in Nat /\ \A i \in 1..Len(r) : i + n \in 1..Len(q) /\ r[i] = q[i + n]
  BY Shifted, Zenon
<1>. HIDE DEF r
<1>2. Ordered(r)
  BY <1>1 DEF Ordered
<1>. QED  BY <1>2, Zenon DEF r

\* A shift keeps what is there contiguous.
LEMMA ShiftContiguous ==
  ASSUME NEW q \in Seq(Payload), NEW n \in 1..Len(q), NEW t, NEW z \in Nat, Contiguous(q, t, z)
  PROVE  Contiguous(SubSeq(q, n + 1, Len(q)), t, z)
<1>. DEFINE r == SubSeq(q, n + 1, Len(q))
<1>1. Len(q) \in Nat /\ Len(r) \in Nat /\ \A i \in 1..Len(r) : i + n \in 1..Len(q) /\ r[i] = q[i + n]
  BY Shifted, Zenon
<1>. HIDE DEF r
<1>2. ASSUME NEW i \in 1..Len(r), NEW j \in 1..Len(r), i <= j, r[i].xfer = t, r[j].xfer = t
      PROVE  Place(r[j], z) = Place(r[i], z) + (j - i)
  <2>1. Place(q[j + n], z) = Place(q[i + n], z) + ((j + n) - (i + n))
    BY <1>1, <1>2 DEF Contiguous
  <2>. QED  BY <1>1, <1>2, <2>1
<1>3. Contiguous(r, t, z)
  BY <1>2, Zenon DEF Contiguous
<1>. QED  BY <1>3, Zenon DEF r

\* A shift brings no start into the queue.
LEMMA ShiftAhead ==
  ASSUME NEW q \in Seq(Payload), NEW n \in 1..Len(q), NEW t, NEW z,
         Ahead(SubSeq(q, n + 1, Len(q)), t, z)
  PROVE  Ahead(q, t, z)
<1>. DEFINE r == SubSeq(q, n + 1, Len(q))
<1>1. \A i \in 1..Len(r) : i + n \in 1..Len(q) /\ r[i] = q[i + n]
  BY Shifted, Zenon
<1>. HIDE DEF r
<1>2. Ahead(r, t, z)
  BY Zenon DEF r
<1>. QED  BY <1>1, <1>2, Zenon DEF Ahead

\* The next payload of a transfer keeps the order.
LEMMA AppendOrdered ==
  ASSUME NEW q \in Seq(Payload), NEW m \in Payload, Ordered(q),
         \A i \in 1..Len(q) : /\ q[i].xfer <= m.xfer
                              /\ q[i].tag = "end" \/ m.tag = "start" => q[i].xfer < m.xfer
  PROVE  Ordered(Append(q, m))
<1>. DEFINE r == Append(q, m)
<1>1. /\ Len(r) = Len(q) + 1 /\ Len(q) \in Nat /\ r[Len(q) + 1] = m
      /\ \A i \in 1..Len(q) : r[i] = q[i]
  BY Appended, Zenon
<1>. HIDE DEF r
<1>2. ASSUME NEW i \in 1..Len(r), NEW j \in 1..Len(r), i < j
      PROVE  /\ r[i].xfer <= r[j].xfer
             /\ r[i].tag = "end" \/ r[j].tag = "start" => r[i].xfer < r[j].xfer
  <2>1. CASE j = Len(q) + 1
    BY <1>1, <1>2, <2>1
  <2>2. CASE j \in 1..Len(q)
    <3>1. i \in 1..Len(q)
      BY <1>1, <1>2, <2>2
    <3>. QED  BY <1>1, <1>2, <2>2, <3>1, Zenon DEF Ordered
  <2>. QED  BY <1>1, <2>1, <2>2
<1>3. Ordered(r)
  BY <1>2, Zenon DEF Ordered
<1>. QED  BY <1>3, Zenon DEF r

\* A payload whose place is next keeps the queue contiguous.
LEMMA AppendContiguous ==
  ASSUME NEW q \in Seq(Payload), NEW m \in Payload, NEW t, NEW z \in Nat, Contiguous(q, t, z),
         m.xfer = t /\ q # <<>> => q[Len(q)].xfer = t /\ Place(m, z) = Place(q[Len(q)], z) + 1
  PROVE  Contiguous(Append(q, m), t, z)
<1>. DEFINE r == Append(q, m)
<1>1. /\ Len(r) = Len(q) + 1 /\ Len(q) \in Nat /\ r[Len(q) + 1] = m
      /\ \A i \in 1..Len(q) : r[i] = q[i] /\ q[i] \in Payload
      /\ q # <<>> => Len(q) \in 1..Len(q)
      /\ \A i \in 1..Len(q) : q # <<>>
  BY Appended
<1>. HIDE DEF r
<1>2. ASSUME NEW i \in 1..Len(r), NEW j \in 1..Len(r), i <= j, r[i].xfer = t, r[j].xfer = t
      PROVE  Place(r[j], z) = Place(r[i], z) + (j - i)
  <2>1. CASE j = Len(q) + 1 /\ i \in 1..Len(q)
    <3>1. Place(q[Len(q)], z) = Place(q[i], z) + (Len(q) - i)
      BY <1>1, <1>2, <2>1 DEF Contiguous
    <3>2. Place(m, z) = Place(q[Len(q)], z) + 1
      BY <1>1, <1>2, <2>1, Zenon
    <3>3. Place(q[i], z) \in Nat
      BY <1>1, <2>1, PayloadFacts, Zenon
    <3>. QED  BY <1>1, <2>1, <3>1, <3>2, <3>3
  <2>2. CASE j = Len(q) + 1 /\ i = Len(q) + 1
    <3>1. Place(m, z) \in Nat
      BY PayloadFacts, Zenon
    <3>. QED  BY <1>1, <2>2, <3>1
  <2>3. CASE j \in 1..Len(q)
    <3>1. i \in 1..Len(q)
      BY <1>1, <1>2, <2>3
    <3>. QED  BY <1>1, <1>2, <2>3, <3>1, Zenon DEF Contiguous
  <2>. QED  BY <1>1, <2>1, <2>2, <2>3
<1>3. Contiguous(r, t, z)
  BY <1>2, Zenon DEF Contiguous
<1>. QED  BY <1>3, Zenon DEF r

\* A transfer that may go on, and that nothing in the queue comes before, is the
\* one of the first payload.
LEMMA FirstIsLive ==
  ASSUME NEW q \in Seq(Payload), q # <<>>, Ordered(q), NEW x \in Nat, NEW t \in Nat,
         \A i \in 1..Len(q) : q[i].xfer \in 1..x /\ q[i].xfer >= t,
         Holds(q, t) \/ t = x
  PROVE  q[1].xfer = t
<1>1. 1 \in 1..Len(q) /\ Len(q) \in Nat
  OBVIOUS
<1>2. CASE t = x
  BY <1>1, <1>2
<1>3. CASE Holds(q, t)
  <2>1. PICK i \in 1..Len(q) : q[i].xfer = t
    BY <1>3, Zenon DEF Holds
  <2>2. q[1].xfer <= t
    BY <1>1, <2>1 DEF Ordered
  <2>. QED  BY <1>1, <2>2
<1>. QED  BY <1>2, <1>3, Zenon

-----------------------------------------------------------------------------
(* The downloads of a subscriber                                           *)

\* The types of what one subscriber has.
LEMMA MyTypes ==
  ASSUME TransferTypes, NEW s \in Subs
  PROVE  /\ feed[s] \in Seq(Payload) /\ Len(feed[s]) \in Nat
         /\ xfer \in Nat /\ xfer <= MaxTransfers /\ MaxTransfers \in Nat /\ sent \in Nat
         /\ \A t \in Transfers : t \in Nat /\ t >= 1 /\ active[s][t] \in Entry \cup {Absent}
         /\ \A t \in 1..xfer : t \in Transfers
         /\ harmed[s] \subseteq Transfers /\ ended[s] \subseteq Transfers
         /\ \A t \in Transfers : active[s][t] # Absent =>
              /\ active[s][t].name \in Names /\ active[s][t].size \in Nat
              /\ active[s][t].count \in Nat /\ Announced(s, t, active[s][t].size)
<1>1. /\ feed[s] \in Seq(Payload) /\ MaxTransfers \in Nat /\ xfer \in 0..MaxTransfers
      /\ sent \in Nat /\ harmed[s] \subseteq Transfers /\ ended[s] \subseteq Transfers
      /\ \A t \in Transfers : active[s][t] \in Entry \cup {Absent}
  BY FileAssumption DEF TransferTypes
<1>2. \A t \in Transfers : active[s][t] # Absent =>
        /\ active[s][t].name \in Names /\ active[s][t].size \in Nat
        /\ active[s][t].count \in Nat /\ Announced(s, t, active[s][t].size)
  BY <1>1, Zenon DEF Entry, Announced
<1>. QED  BY <1>1, <1>2 DEF Transfers

\* A step that leaves a subscriber and the place of the sender alone.
LEMMA Undisturbed ==
  ASSUME TransferTypes, NEW s \in Subs, FileInv(s),
         feed'[s] = feed[s], active'[s] = active[s], disk'[s] = disk[s],
         harmed'[s] = harmed[s], ended'[s] = ended[s], xfer' = xfer,
         \/ spc' = "idle"
         \/ spc # "idle" /\ spc' # "idle" /\ sent' = sent /\ file' = file
  PROVE  FileInv(s)'
<1>1. QueueInv(s)'
  BY Zenon DEF FileInv, QueueInv
<1>2. \A t \in Transfers, z \in Nat : Announced(s, t, z)' => Announced(s, t, z)
  BY Zenon DEF Announced
<1>3. SizeInv(s)'
  BY <1>2, Zenon DEF FileInv, SizeInv
<1>4. \A t \in Transfers : Live(s, t)' => Live(s, t)
  BY Zenon DEF Live
<1>5. HistoryInv(s)'
  BY <1>4 DEF FileInv, HistoryInv
<1>6. ASSUME NEW t \in Transfers, Live(s, t)', NEW z
      PROVE  NextPlace(s, z)' = NextPlace(s, z)
  <2>1. CASE feed[s] # <<>>
    BY <2>1, Zenon DEF NextPlace
  <2>2. CASE feed[s] = <<>>
    <3>1. ~Holds(feed[s], t)
      BY <2>2 DEF Holds
    <3>. QED  BY <1>6, <2>2, <3>1, Zenon DEF NextPlace, Live
  <2>. QED  BY <2>1, <2>2, Zenon
<1>7. ASSUME NEW t \in Transfers, active'[s][t] # Absent, Live(s, t)' PROVE Download(s, t)'
  <2>1. Download(s, t)
    BY <1>4, <1>7, Zenon DEF FileInv, DownloadInv
  <2>. QED  BY <1>6, <1>7, <2>1, Zenon DEF Download
<1>8. DownloadInv(s)'
  BY <1>7, Zenon DEF DownloadInv
<1>. QED  BY <1>1, <1>3, <1>5, <1>8, Zenon DEF FileInv

\* A transfer begins: its start goes to every queue.
LEMMA StartPublished ==
  ASSUME TransferTypes, NEW s \in Subs, FileInv(s), NEW f \in AnyFile, SendFile(f)
  PROVE  FileInv(s)'
<1>. DEFINE q == feed[s]
            m == Start(xfer + 1, f)
            x == xfer + 1
<1>0. /\ q \in Seq(Payload) /\ Len(q) \in Nat /\ xfer \in Nat /\ sent = 0 /\ spc = "idle"
      /\ \A t \in Transfers : t \in Nat
  BY MyTypes, Zenon DEF SendFile, TransferTypes
<1>1. /\ m \in Payload /\ m.xfer = x /\ m.tag = "start" /\ m.size = f.size /\ f.size \in Nat
      /\ f.size \in Nat /\ Place(m, f.size) = 0
  <2>1. m \in Payload /\ f.size \in Nat
    BY <1>0 DEF Start, Payload, AnyFile
  <2>. QED  BY <2>1, FileAssumption, Zenon DEF Start, Place
<1>2. feed'[s] = Append(q, m) /\ xfer' = x
  BY Zenon DEF SendFile, PublishPayload
<1>3. UNCHANGED <<sent, active, disk, harmed, ended>> /\ (spc' = "idle" \/ file' = f)
  BY Zenon DEF SendFile, recvVars
<1>4. /\ Len(feed'[s]) = Len(q) + 1 /\ feed'[s] # <<>> /\ feed'[s][Len(q) + 1] = m
      /\ \A i \in 1..Len(q) : feed'[s][i] = q[i]
      /\ \A i \in 1..Len(feed'[s]) : \/ i \in 1..Len(q) /\ feed'[s][i] = q[i]
                                     \/ i = Len(q) + 1 /\ feed'[s][i] = m
  BY <1>0, <1>1, <1>2, Appended
<1>5. \A i \in 1..Len(q) : q[i].xfer \in 1..xfer
  BY Zenon DEF FileInv, QueueInv
<1>. HIDE DEF m
<1>6. QueueInv(s)'
  <2>1. Ordered(feed'[s])
    <3>1. \A i \in 1..Len(q) : q[i].xfer <= m.xfer /\ q[i].xfer < m.xfer
      BY <1>0, <1>1, <1>5
    <3>2. Ordered(q)
      BY Zenon DEF FileInv, QueueInv
    <3>. QED  BY <1>0, <1>1, <1>2, <3>1, <3>2, AppendOrdered, Zenon
  <2>2. \A i \in 1..Len(feed'[s]) : feed'[s][i].xfer \in 1..xfer'
    BY <1>0, <1>1, <1>2, <1>4, <1>5
  <2>. QED  BY <1>1, <1>2, <1>4, <2>1, <2>2, Zenon DEF QueueInv
<1>7. ASSUME NEW t \in Transfers PROVE Holds(feed'[s], t) <=> Holds(q, t) \/ t = x
  BY <1>0, <1>1, <1>2, AppendedHolds
<1>8. ASSUME NEW t \in Transfers, NEW z
      PROVE  Ahead(feed'[s], t, z) <=> Ahead(q, t, z) \/ (t = x /\ z = f.size)
  <2>1. Ahead(Append(q, m), t, z) <=>
          Ahead(q, t, z) \/ (m.tag = "start" /\ m.xfer = t /\ m.size = z)
    BY <1>0, <1>1, AppendedHolds
  <2>. QED  BY <1>1, <1>2, <2>1, Zenon
<1>9. ASSUME NEW t \in Transfers, NEW z \in Nat, Announced(s, t, z)'
      PROVE  /\ Contiguous(feed'[s], t, z)
             /\ t = xfer' /\ spc' # "idle" =>
                  /\ z = file'.size
                  /\ feed'[s] # <<>> => Place(feed'[s][Len(feed'[s])], z) = sent'
  <2>0. z \in Nat
    BY FileAssumption, Zenon
  <2>1. CASE t = x
    <3>1. t > xfer /\ active'[s][t] = Absent
      BY <1>0, <1>3, <2>1 DEF FileInv, HistoryInv
    <3>2. ~Ahead(q, t, z)
      BY <1>0, <1>5, <3>1 DEF Ahead
    <3>3. z = f.size
      BY <1>8, <1>9, <3>1, <3>2, Zenon DEF Announced
    <3>4. Contiguous(feed'[s], t, z)
      <4>1. \A i \in 1..Len(feed'[s]) : feed'[s][i].xfer = t => i = Len(q) + 1 /\ feed'[s][i] = m
        BY <1>0, <1>4, <1>5, <3>1
      <4>. QED  BY <1>0, <1>1, <3>3, <4>1 DEF Contiguous
    <3>. QED  BY <1>0, <1>1, <1>3, <1>4, <3>3, <3>4, Zenon
  <2>2. CASE t # x
    <3>1. Announced(s, t, z)
      BY <1>3, <1>8, <1>9, <2>2, Zenon DEF Announced
    <3>2. Contiguous(q, t, z)
      BY <3>1 DEF FileInv, SizeInv
    <3>3. Contiguous(feed'[s], t, z)
      BY <1>0, <1>1, <1>2, <2>0, <2>2, <3>2, AppendContiguous
    <3>. QED  BY <1>2, <2>2, <3>3, Zenon
  <2>. QED  BY <2>1, <2>2, Zenon
<1>10. SizeInv(s)'
  BY <1>9 DEF SizeInv
<1>11. HistoryInv(s)'
  <2>. SUFFICES ASSUME NEW t \in Transfers
       PROVE  /\ t \in ended[s] => ~Live(s, t)' /\ active[s][t] = Absent
              /\ t > x => t \notin ended[s] /\ t \notin harmed[s] /\ active[s][t] = Absent
              /\ active[s][t] # Absent => \A i \in 1..Len(feed'[s]) : feed'[s][i].xfer >= t
              /\ \A i \in 1..Len(feed'[s]) : feed'[s][i].tag = "start" /\ feed'[s][i].xfer = t =>
                   t \notin harmed[s] /\ active[s][t] = Absent
              /\ t <= x /\ t \notin harmed[s] /\ t \notin ended[s] /\ active[s][t] = Absent =>
                   \E z \in Nat : Ahead(feed'[s], t, z)
    BY <1>2, <1>3, Zenon DEF HistoryInv
  <2>1. /\ t \in ended[s] => ~Live(s, t) /\ active[s][t] = Absent
        /\ t > xfer => t \notin ended[s] /\ t \notin harmed[s] /\ active[s][t] = Absent
        /\ active[s][t] # Absent => \A i \in 1..Len(q) : q[i].xfer >= t
        /\ \A i \in 1..Len(q) : q[i].tag = "start" /\ q[i].xfer = t =>
             t \notin harmed[s] /\ active[s][t] = Absent
        /\ t <= xfer /\ t \notin harmed[s] /\ t \notin ended[s] /\ active[s][t] = Absent =>
             \E z \in Nat : Ahead(q, t, z)
    BY DEF FileInv, HistoryInv
  <2>2. t \in ended[s] => ~Live(s, t)'
    BY <1>0, <1>2, <1>7, <2>1 DEF Live
  <2>3. active[s][t] # Absent => \A i \in 1..Len(feed'[s]) : feed'[s][i].xfer >= t
    <3>1. active[s][t] # Absent => t <= xfer /\ \A i \in 1..Len(q) : q[i].xfer >= t
      BY <1>0, <2>1
    <3>2. ASSUME active[s][t] # Absent, NEW i \in 1..Len(feed'[s]) PROVE feed'[s][i].xfer >= t
      <4>1. CASE i \in 1..Len(q) /\ feed'[s][i] = q[i]
        BY <3>1, <3>2, <4>1, Zenon
      <4>2. CASE feed'[s][i] = m
        BY <1>0, <1>1, <3>1, <3>2, <4>2
      <4>. QED  BY <1>4, <4>1, <4>2, Zenon
    <3>. QED  BY <3>2, Zenon
  <2>4. ASSUME NEW i \in 1..Len(feed'[s]), feed'[s][i].tag = "start", feed'[s][i].xfer = t
        PROVE  t \notin harmed[s] /\ active[s][t] = Absent
    <3>1. CASE i \in 1..Len(q) /\ feed'[s][i] = q[i]
      BY <2>1, <2>4, <3>1, Zenon
    <3>2. CASE feed'[s][i] = m
      <4>1. t > xfer
        BY <1>0, <1>1, <2>4, <3>2
      <4>. QED  BY <2>1, <4>1
    <3>. QED  BY <1>4, <3>1, <3>2, Zenon
  <2>5. t <= x /\ t \notin harmed[s] /\ t \notin ended[s] /\ active[s][t] = Absent =>
          \E z \in Nat : Ahead(feed'[s], t, z)
    BY <1>0, <1>1, <1>8, <2>1
  <2>. QED  BY <1>0, <2>1, <2>2, <2>3, <2>4, <2>5
<1>12. ASSUME NEW t \in Transfers, active'[s][t] # Absent, Live(s, t)' PROVE Download(s, t)'
  <2>1. t <= xfer
    BY <1>0, <1>3, <1>12 DEF FileInv, HistoryInv
  <2>2. Holds(q, t)
    BY <1>0, <1>2, <1>7, <1>12, <2>1 DEF Live
  <2>3. Download(s, t)
    BY <1>3, <1>12, <2>2, Zenon DEF FileInv, DownloadInv, Live
  <2>4. q # <<>> /\ 1 \in 1..Len(q)
    BY <1>0, <2>2 DEF Holds
  <2>5. \A z : NextPlace(s, z)' = NextPlace(s, z)
    BY <1>4, <2>4, Zenon DEF NextPlace
  <2>. QED  BY <1>3, <2>3, <2>5, Zenon DEF Download
<1>13. DownloadInv(s)'
  BY <1>12, Zenon DEF DownloadInv
<1>. QED  BY <1>6, <1>10, <1>11, <1>13, Zenon DEF FileInv

\* A transfer goes on, or ends: the next payload goes to every queue.
LEMMA RestPublished ==
  ASSUME TransferTypes, NEW s \in Subs, FileInv(s), NEW m \in Payload,
         spc # "idle", m.xfer = xfer, m.tag # "start", Place(m, file.size) = sent + 1,
         feed'[s] = Append(feed[s], m), xfer' = xfer,
         UNCHANGED <<active, disk, harmed, ended>>,
         \/ spc' = "idle"
         \/ spc' # "idle" /\ m.tag # "end" /\ sent' = sent + 1 /\ file' = file
  PROVE  FileInv(s)'
<1>. DEFINE q == feed[s]
<1>0. /\ q \in Seq(Payload) /\ Len(q) \in Nat /\ xfer \in Nat /\ sent \in Nat
      /\ \A t \in Transfers : t \in Nat
  BY MyTypes, Zenon
<1>1. /\ \A i \in 1..Len(q) : q[i].xfer \in 1..xfer
      /\ Ordered(q)
      /\ q # <<>> => q[Len(q)].xfer = xfer /\ q[Len(q)].tag # "end"
  BY Zenon DEF FileInv, QueueInv
<1>2. /\ Len(feed'[s]) = Len(q) + 1 /\ feed'[s] # <<>> /\ feed'[s][Len(q) + 1] = m
      /\ \A i \in 1..Len(q) : feed'[s][i] = q[i]
      /\ \A i \in 1..Len(feed'[s]) : \/ i \in 1..Len(q) /\ feed'[s][i] = q[i]
                                     \/ i = Len(q) + 1 /\ feed'[s][i] = m
  BY <1>0, Appended
<1>3. \A i \in 1..Len(q) : q # <<>> /\ Len(q) \in 1..Len(q)
  BY <1>0
<1>4. QueueInv(s)'
  <2>1. ASSUME NEW i \in 1..Len(q)
        PROVE  q[i].xfer <= xfer /\ (q[i].tag = "end" => q[i].xfer < xfer)
    <3>1. q[i].xfer <= xfer
      BY <1>0, <1>1
    <3>2. CASE i = Len(q)
      BY <1>1, <1>3, <3>1, <3>2
    <3>3. CASE i < Len(q)
      BY <1>1, <1>3, <3>1, <3>3 DEF Ordered
    <3>. QED  BY <1>0, <3>2, <3>3
  <2>2. Ordered(feed'[s])
    BY <1>0, <1>1, <2>1, AppendOrdered, Zenon
  <2>3. \A i \in 1..Len(feed'[s]) : feed'[s][i].xfer \in 1..xfer'
    <3>1. xfer \in 1..xfer
      BY <1>0 DEF TransferTypes
    <3>. QED  BY <1>1, <1>2, <3>1, Zenon
  <2>. QED  BY <1>2, <2>2, <2>3, Zenon DEF QueueInv
<1>5. ASSUME NEW t PROVE Holds(feed'[s], t) <=> Holds(q, t) \/ t = xfer
  BY <1>0, AppendedHolds
<1>6. ASSUME NEW t, NEW z PROVE Ahead(feed'[s], t, z) <=> Ahead(q, t, z)
  <2>1. Ahead(Append(q, m), t, z) <=>
          Ahead(q, t, z) \/ (m.tag = "start" /\ m.xfer = t /\ m.size = z)
    BY <1>0, AppendedHolds, Zenon
  <2>. QED  BY <2>1, Zenon
<1>7. ASSUME NEW t \in Transfers, NEW z \in Nat, Announced(s, t, z)'
      PROVE  /\ Contiguous(feed'[s], t, z)
             /\ t = xfer' /\ spc' # "idle" =>
                  /\ z = file'.size
                  /\ feed'[s] # <<>> => Place(feed'[s][Len(feed'[s])], z) = sent'
  <2>0. z \in Nat
    BY FileAssumption, Zenon
  <2>1. Announced(s, t, z)
    BY <1>6, <1>7, Zenon DEF Announced
  <2>2. /\ Contiguous(q, t, z)
        /\ t = xfer => z = file.size /\ (q # <<>> => Place(q[Len(q)], z) = sent)
    BY <2>1, Zenon DEF FileInv, SizeInv
  <2>3. m.xfer = t /\ q # <<>> => q[Len(q)].xfer = t /\ Place(m, z) = Place(q[Len(q)], z) + 1
    BY <1>1, <2>2, Zenon
  <2>4. Contiguous(feed'[s], t, z)
    BY <1>0, <2>0, <2>2, <2>3, AppendContiguous, Zenon
  <2>5. t = xfer' /\ spc' # "idle" =>
          z = file'.size /\ Place(feed'[s][Len(feed'[s])], z) = sent'
    BY <1>2, <2>2, Zenon
  <2>. QED  BY <2>4, <2>5, Zenon
<1>8. SizeInv(s)'
  BY <1>7, Zenon DEF SizeInv
<1>9. \A t \in Transfers : Live(s, t)' => Live(s, t)
  BY <1>5, Zenon DEF Live
<1>10. HistoryInv(s)'
  <2>. SUFFICES ASSUME NEW t \in Transfers
       PROVE  /\ t \in ended[s] => ~Live(s, t)' /\ active[s][t] = Absent
              /\ t > xfer => t \notin ended[s] /\ t \notin harmed[s] /\ active[s][t] = Absent
              /\ active[s][t] # Absent => \A i \in 1..Len(feed'[s]) : feed'[s][i].xfer >= t
              /\ \A i \in 1..Len(feed'[s]) : feed'[s][i].tag = "start" /\ feed'[s][i].xfer = t =>
                   t \notin harmed[s] /\ active[s][t] = Absent
              /\ t <= xfer /\ t \notin harmed[s] /\ t \notin ended[s] /\ active[s][t] = Absent =>
                   \E z \in Nat : Ahead(feed'[s], t, z)
    BY Zenon DEF HistoryInv
  <2>1. /\ t \in ended[s] => ~Live(s, t) /\ active[s][t] = Absent
        /\ t > xfer => t \notin ended[s] /\ t \notin harmed[s] /\ active[s][t] = Absent
        /\ active[s][t] # Absent => \A i \in 1..Len(q) : q[i].xfer >= t
        /\ \A i \in 1..Len(q) : q[i].tag = "start" /\ q[i].xfer = t =>
             t \notin harmed[s] /\ active[s][t] = Absent
        /\ t <= xfer /\ t \notin harmed[s] /\ t \notin ended[s] /\ active[s][t] = Absent =>
             \E z \in Nat : Ahead(q, t, z)
    BY Zenon DEF FileInv, HistoryInv
  <2>2. ASSUME active[s][t] # Absent, NEW i \in 1..Len(feed'[s]) PROVE feed'[s][i].xfer >= t
    <3>1. t <= xfer
      BY <1>0, <2>1, <2>2
    <3>2. CASE i \in 1..Len(q) /\ feed'[s][i] = q[i]
      BY <2>1, <2>2, <3>2, Zenon
    <3>3. CASE feed'[s][i] = m
      BY <1>0, <3>1, <3>3
    <3>. QED  BY <1>2, <3>2, <3>3
  <2>3. ASSUME NEW i \in 1..Len(feed'[s]), feed'[s][i].tag = "start", feed'[s][i].xfer = t
        PROVE  t \notin harmed[s] /\ active[s][t] = Absent
    <3>1. i \in 1..Len(q) /\ feed'[s][i] = q[i]
      BY <1>2, <2>3, Zenon
    <3>. QED  BY <2>1, <2>3, <3>1, Zenon
  <2>. QED  BY <1>6, <1>9, <2>1, <2>2, <2>3, Zenon
<1>11. ASSUME NEW t \in Transfers, active'[s][t] # Absent, Live(s, t)' PROVE Download(s, t)'
  <2>1. Download(s, t)
    BY <1>9, <1>11, Zenon DEF FileInv, DownloadInv
  <2>. DEFINE z == active[s][t].size
  <2>2. NextPlace(s, z)' = NextPlace(s, z)
    <3>1. CASE q # <<>>
      <4>1. 1 \in 1..Len(q)
        BY <1>0, <3>1
      <4>. QED  BY <1>2, <3>1, <4>1 DEF NextPlace
    <3>2. CASE q = <<>>
      <4>1. ~Holds(q, t)
        BY <3>2 DEF Holds
      <4>2. t = xfer
        BY <1>9, <1>11, <4>1, Zenon DEF Live
      <4>3. z \in Nat /\ Announced(s, t, z)
        BY <1>11, MyTypes, Zenon
      <4>4. z = file.size
        BY <4>2, <4>3 DEF FileInv, SizeInv
      <4>5. feed'[s][1] = m
        BY <1>2, <3>2
      <4>. QED  BY <1>2, <3>2, <4>4, <4>5, Zenon DEF NextPlace
    <3>. QED  BY <3>1, <3>2, Zenon
  <2>. QED  BY <2>1, <2>2, Zenon DEF Download
<1>12. DownloadInv(s)'
  BY <1>11, Zenon DEF DownloadInv
<1>. QED  BY <1>4, <1>8, <1>10, <1>12 DEF FileInv

\* Payloads leave the queue of s from its front; the sender does nothing.
Leave(s, n) ==
  /\ n \in 1..Len(feed[s]) /\ feed'[s] = SubSeq(feed[s], n + 1, Len(feed[s]))
  /\ UNCHANGED <<spc, xfer, sent, file>>

\* What is left of the queue.
LEMMA Left ==
  ASSUME TransferTypes, NEW s \in Subs, NEW n \in Nat, Leave(s, n)
  PROVE  /\ feed'[s] \in Seq(Payload) /\ Len(feed'[s]) \in Nat
         /\ Len(feed'[s]) = Len(feed[s]) - n /\ n >= 1 /\ n <= Len(feed[s])
         /\ feed'[s] = <<>> <=> n = Len(feed[s])
         /\ \A i \in 1..Len(feed'[s]) : i + n \in 1..Len(feed[s]) /\ feed'[s][i] = feed[s][i + n]
         /\ feed'[s] # <<>> => 1 \in 1..Len(feed'[s]) /\ feed'[s][1] = feed[s][n + 1]
                               /\ feed'[s][Len(feed'[s])] = feed[s][Len(feed[s])]
         /\ 1 \in 1..Len(feed[s]) /\ Len(feed[s]) \in 1..Len(feed[s]) /\ feed[s] # <<>>
<1>. DEFINE q == feed[s]
            r == feed'[s]
<1>1. q \in Seq(Payload) /\ Len(q) \in Nat
  BY MyTypes, Zenon
<1>2. /\ r \in Seq(Payload) /\ Len(r) = Len(q) - n /\ Len(r) \in Nat
      /\ r = <<>> <=> n = Len(q)
      /\ \A i \in 1..Len(r) : i + n \in 1..Len(q) /\ r[i] = q[i + n]
      /\ n \in 1..Len(q)
  <2>. DEFINE p == SubSeq(q, n + 1, Len(q))
  <2>1. n \in 1..Len(q) /\ r = p
    BY Zenon DEF Leave
  <2>2. /\ p \in Seq(Payload) /\ Len(p) = Len(q) - n /\ Len(p) \in Nat
        /\ p = <<>> <=> n = Len(q)
        /\ \A i \in 1..Len(p) : i + n \in 1..Len(q) /\ p[i] = q[i + n]
    BY <1>1, <2>1, Shifted, Zenon
  <2>. HIDE DEF p
  <2>. QED  BY <2>1, <2>2, Zenon
<1>3. q # <<>>
  BY <1>1, <1>2
<1>. HIDE DEF q, r
<1>4. r # <<>> => 1 \in 1..Len(r) /\ r[1] = q[n + 1] /\ r[Len(r)] = q[Len(q)]
  <2>. SUFFICES ASSUME r # <<>> PROVE 1 \in 1..Len(r) /\ r[1] = q[n + 1] /\ r[Len(r)] = q[Len(q)]
    BY Zenon
  <2>1. 1 \in 1..Len(r) /\ Len(r) \in 1..Len(r)
    BY <1>1, <1>2
  <2>2. r[1] = q[1 + n] /\ r[Len(r)] = q[Len(r) + n]
    BY <1>2, <2>1, Zenon
  <2>3. 1 + n = n + 1 /\ Len(r) + n = Len(q)
    BY <1>1, <1>2
  <2>. QED  BY <2>1, <2>2, <2>3, Zenon
<1>. QED  BY <1>1, <1>2, <1>3, <1>4 DEF q, r

\* The queue stays in order, and what is in it was in it.
LEMMA LeaveQueue ==
  ASSUME TransferTypes, NEW s \in Subs, FileInv(s), NEW n \in Nat, Leave(s, n)
  PROVE  /\ QueueInv(s)'
         /\ \A t : Holds(feed'[s], t) => Holds(feed[s], t)
         /\ \A t : Live(s, t)' => Live(s, t)
         /\ \A t, z : Ahead(feed'[s], t, z) => Ahead(feed[s], t, z)
<1>0. /\ feed'[s] \in Seq(Payload) /\ Len(feed'[s]) \in Nat /\ n >= 1 /\ n <= Len(feed[s])
      /\ Len(feed'[s]) = Len(feed[s]) - n
      /\ feed'[s] = <<>> <=> n = Len(feed[s])
      /\ \A i \in 1..Len(feed'[s]) : i + n \in 1..Len(feed[s]) /\ feed'[s][i] = feed[s][i + n]
      /\ feed'[s] # <<>> => 1 \in 1..Len(feed'[s]) /\ feed'[s][1] = feed[s][n + 1]
                            /\ feed'[s][Len(feed'[s])] = feed[s][Len(feed[s])]
      /\ 1 \in 1..Len(feed[s]) /\ Len(feed[s]) \in 1..Len(feed[s]) /\ feed[s] # <<>>
  BY Left, Zenon
<1>1. feed[s] \in Seq(Payload)
  BY MyTypes, Zenon
<1>2. Ordered(feed'[s])
  BY <1>1, ShiftOrdered, Zenon DEF Leave, FileInv, QueueInv
<1>3. QueueInv(s)'
  <2>1. \A i \in 1..Len(feed'[s]) : feed'[s][i].xfer \in 1..xfer
    BY <1>0, Zenon DEF FileInv, QueueInv
  <2>2. spc # "idle" /\ feed'[s] # <<>> =>
          feed'[s][Len(feed'[s])].xfer = xfer /\ feed'[s][Len(feed'[s])].tag # "end"
    BY <1>0, Zenon DEF FileInv, QueueInv
  <2>. QED  BY <1>2, <2>1, <2>2, Zenon DEF Leave, QueueInv
<1>4. \A t : Holds(feed'[s], t) => Holds(feed[s], t)
  BY <1>0, Zenon DEF Holds
<1>5. \A t : Live(s, t)' => Live(s, t)
  BY <1>4, Zenon DEF Live, Leave
<1>6. ASSUME NEW t, NEW z, Ahead(feed'[s], t, z) PROVE Ahead(feed[s], t, z)
  BY <1>1, <1>6, ShiftAhead DEF Leave
<1>. QED  BY <1>3, <1>4, <1>5, <1>6, Zenon

\* What is known of sizes stays right.
LEMMA LeaveSize ==
  ASSUME TransferTypes, NEW s \in Subs, FileInv(s), NEW n \in Nat, Leave(s, n),
         \A t \in Transfers, z \in Nat : Announced(s, t, z)' => Announced(s, t, z)
  PROVE  SizeInv(s)'
<1>. SUFFICES ASSUME NEW t \in Transfers, NEW z \in Nat, Announced(s, t, z)
     PROVE  /\ Contiguous(feed'[s], t, z)
            /\ t = xfer' /\ spc' # "idle" =>
                 /\ z = file'.size
                 /\ feed'[s] # <<>> => Place(feed'[s][Len(feed'[s])], z) = sent'
  BY Zenon DEF SizeInv
<1>1. feed[s] \in Seq(Payload) /\ z \in Nat
  BY MyTypes, Zenon
<1>2. /\ Contiguous(feed[s], t, z)
      /\ t = xfer /\ spc # "idle" =>
           /\ z = file.size
           /\ feed[s] # <<>> => Place(feed[s][Len(feed[s])], z) = sent
  BY Zenon DEF FileInv, SizeInv
<1>3. Contiguous(feed'[s], t, z)
  BY <1>1, <1>2, ShiftContiguous, Zenon DEF Leave
<1>. QED  BY <1>2, <1>3, Left, Zenon DEF Leave

\* The place of what s comes to next moves on by the payloads that left, if the
\* transfer they belong to may go on.
LEMMA LeavePlace ==
  ASSUME TransferTypes, NEW s \in Subs, FileInv(s), NEW n \in Nat, Leave(s, n),
         NEW t \in Transfers, NEW z \in Nat, Announced(s, t, z), Live(s, t)',
         \A i \in 1..Len(feed[s]) : feed[s][i].xfer >= t
  PROVE  /\ feed[s][1].xfer = t /\ Place(feed[s][1], z) \in Nat
         /\ NextPlace(s, z) = Place(feed[s][1], z)
         /\ NextPlace(s, z)' = Place(feed[s][1], z) + n
<1>. DEFINE q == feed[s]
            r == feed'[s]
<1>0. /\ feed'[s] \in Seq(Payload) /\ Len(feed'[s]) \in Nat /\ n >= 1 /\ n <= Len(feed[s])
      /\ Len(feed'[s]) = Len(feed[s]) - n
      /\ feed'[s] = <<>> <=> n = Len(feed[s])
      /\ \A i \in 1..Len(feed'[s]) : i + n \in 1..Len(feed[s]) /\ feed'[s][i] = feed[s][i + n]
      /\ feed'[s] # <<>> => 1 \in 1..Len(feed'[s]) /\ feed'[s][1] = feed[s][n + 1]
                            /\ feed'[s][Len(feed'[s])] = feed[s][Len(feed[s])]
      /\ 1 \in 1..Len(feed[s]) /\ Len(feed[s]) \in 1..Len(feed[s]) /\ feed[s] # <<>>
  BY Left, Zenon
<1>1. q \in Seq(Payload) /\ Len(q) \in Nat /\ z \in Nat /\ t \in Nat /\ xfer \in Nat
  BY MyTypes, Zenon
<1>2. /\ \A i \in 1..Len(q) : q[i].xfer \in 1..xfer
      /\ Ordered(q)
      /\ spc # "idle" => q[Len(q)].xfer = xfer
  BY <1>0, Zenon DEF FileInv, QueueInv
<1>3. q[1].xfer = t
  <2>1. Live(s, t)
    BY LeaveQueue, Zenon
  <2>2. Holds(q, t) \/ t = xfer
    BY <2>1, Zenon DEF Live
  <2>. QED  BY <1>0, <1>1, <1>2, <2>2, FirstIsLive
<1>4. Place(q[1], z) \in Nat
  <2>1. q[1] \in Payload
    BY <1>0, <1>1
  <2>. QED  BY <1>1, <2>1, PayloadFacts, Zenon
<1>5. Contiguous(q, t, z)
  BY Zenon DEF FileInv, SizeInv
<1>6. CASE r = <<>>
  <2>1. ~Holds(r, t)
    BY <1>6 DEF Holds
  <2>2. t = xfer /\ spc # "idle"
    BY <2>1, Zenon DEF Live, Leave
  <2>3. Place(q[Len(q)], z) = sent
    BY <2>2, <1>0, Zenon DEF FileInv, SizeInv
  <2>4. Place(q[Len(q)], z) = Place(q[1], z) + (Len(q) - 1)
    BY <1>1, <1>2, <1>3, <1>5, <2>2, <1>0 DEF Contiguous
  <2>5. NextPlace(s, z)' = sent + 1
    BY <1>6, Zenon DEF NextPlace, Leave
  <2>6. n = Len(q) /\ NextPlace(s, z) = Place(q[1], z)
    BY <1>0, <1>6, Zenon DEF NextPlace
  <2>. HIDE DEF q
  <2>7. sent + 1 = Place(q[1], z) + n
    BY <1>1, <1>4, <2>3, <2>4, <2>6
  <2>. QED  BY <1>3, <1>4, <2>5, <2>6, <2>7 DEF q
<1>7. CASE r # <<>>
  <2>1. QueueInv(s)'
    BY LeaveQueue, Zenon
  <2>2. /\ \A i \in 1..Len(r) : r[i].xfer \in 1..xfer /\ r[i].xfer >= t
        /\ Ordered(r)
    BY <2>1, <1>0, Zenon DEF QueueInv, Leave
  <2>3. r[1].xfer = t
    BY <1>1, <1>7, <2>2, <1>0, FirstIsLive, Zenon DEF Live, Leave
  <2>4. r[1] = q[n + 1] /\ n + 1 \in 1..Len(q) /\ 1 \in 1..Len(q)
    BY <1>1, <1>7, <1>0
  <2>5. Place(q[n + 1], z) = Place(q[1], z) + ((n + 1) - 1)
    BY <1>1, <1>3, <1>5, <2>3, <2>4 DEF Contiguous
  <2>. QED  BY <1>1, <1>3, <1>4, <1>7, <2>4, <2>5, <1>0 DEF NextPlace
<1>. QED  BY <1>6, <1>7, Zenon

\* What Take does to the queue, and that no other download of s goes on.
LEMMA Taken ==
  ASSUME TransferTypes, NEW s \in Subs, FileInv(s), NEW tag, Take(s, tag),
         UNCHANGED <<spc, xfer, sent, file>>
  PROVE  /\ Leave(s, 1)
         /\ Head(feed[s]) = feed[s][1] /\ feed[s][1].tag = tag /\ feed[s][1] \in Payload
         /\ feed[s][1].xfer \in Transfers /\ feed[s][1].xfer \in 1..xfer
         /\ Live(s, feed[s][1].xfer)
         /\ \A i \in 1..Len(feed[s]) : feed[s][i].xfer >= feed[s][1].xfer
         /\ \A i \in 1..Len(feed'[s]) :
              /\ feed'[s][i].xfer >= feed[s][1].xfer
              /\ tag = "end" \/ feed'[s][i].tag = "start" => feed'[s][i].xfer > feed[s][1].xfer
         /\ \A t \in Transfers : active[s][t] # Absent /\ t # feed[s][1].xfer => ~Live(s, t)'
<1>. DEFINE q == feed[s]
            r == feed'[s]
            u == feed[s][1].xfer
<1>1. q \in Seq(Payload) /\ q # <<>> /\ xfer \in Nat /\ \A t \in Transfers : t \in Nat
  BY MyTypes, Zenon DEF Take
<1>2. r = Tail(q)
  BY Zenon DEF Take, TransferTypes
<1>3. /\ Tail(q) = SubSeq(q, 2, Len(q)) /\ Head(q) = q[1] /\ 1 \in 1..Len(q) /\ q[1] \in Payload
  BY <1>1, TailShifts
<1>4. Leave(s, 1)
  BY <1>2, <1>3 DEF Leave
<1>5. q[1].tag = tag
  BY <1>3, Zenon DEF Take
<1>6. /\ Len(r) \in Nat
      /\ \A i \in 1..Len(r) : i + 1 \in 1..Len(q) /\ r[i] = q[i + 1]
  BY <1>4, Left
<1>7. /\ \A i \in 1..Len(q) : q[i].xfer \in 1..xfer
      /\ Ordered(q)
  BY Zenon DEF FileInv, QueueInv
<1>8. u \in 1..xfer /\ u \in Transfers /\ Holds(q, u)
  BY <1>3, <1>7, MyTypes DEF Holds
<1>9. ASSUME NEW i \in 1..Len(r)
      PROVE  r[i].xfer >= u /\ (tag = "end" \/ r[i].tag = "start" => r[i].xfer > u)
  <2>1. i + 1 \in 1..Len(q) /\ 1 < i + 1 /\ r[i] = q[i + 1]
    BY <1>6
  <2>2. u <= q[i + 1].xfer /\ (q[1].tag = "end" \/ q[i + 1].tag = "start" => u < q[i + 1].xfer)
    BY <1>3, <1>7, <2>1 DEF Ordered
  <2>3. u \in Nat /\ q[i + 1].xfer \in Nat
    BY <1>1, <1>7, <1>8, <2>1
  <2>. QED  BY <1>5, <2>1, <2>2, <2>3
<1>10. ASSUME NEW t \in Transfers, active[s][t] # Absent, t # u, Live(s, t)' PROVE FALSE
  <2>1. t <= u
    BY <1>3, <1>10, Zenon DEF FileInv, HistoryInv
  <2>2. CASE Holds(r, t)
    BY <1>1, <1>8, <1>9, <1>10, <2>1, <2>2 DEF Holds
  <2>3. CASE t = xfer
    BY <1>1, <1>8, <1>10, <2>1, <2>3
  <2>. QED  BY <1>10, <2>2, <2>3, Zenon DEF Live
<1>11. ASSUME NEW i \in 1..Len(q) PROVE q[i].xfer >= u
  <2>1. u \in Nat /\ q[i].xfer \in Nat
    BY <1>1, <1>7, <1>8
  <2>2. i # 1 => u <= q[i].xfer
    BY <1>3, <1>7 DEF Ordered
  <2>. QED  BY <2>1, <2>2
<1>. QED  BY <1>3, <1>4, <1>5, <1>8, <1>9, <1>10, <1>11, Zenon DEF Live

\* A download begins: its file could be created.
LEMMA StartTaken ==
  ASSUME TransferTypes, NEW s \in Subs, FileInv(s), FileStart(s), UNCHANGED harmed,
         active' = [active EXCEPT ![s][Head(feed[s]).xfer] = NewEntry(Head(feed[s]))],
         disk' = [disk EXCEPT ![s][Head(feed[s]).name] = <<>>]
  PROVE  FileInv(s)'
<1>. DEFINE q == feed[s]
            r == feed'[s]
            m == feed[s][1]
            u == feed[s][1].xfer
<1>0. UNCHANGED <<spc, xfer, sent, file, harmed, ended>>
  BY Zenon DEF FileStart, sendVars
<1>1. /\ Leave(s, 1) /\ Head(q) = m /\ m.tag = "start" /\ m \in Payload
      /\ u \in Transfers /\ u \in 1..xfer /\ Live(s, u)
      /\ \A i \in 1..Len(q) : q[i].xfer >= u
      /\ \A i \in 1..Len(r) : r[i].xfer >= u /\ (r[i].tag = "start" => r[i].xfer > u)
      /\ \A t \in Transfers : active[s][t] # Absent /\ t # u => ~Live(s, t)'
  BY <1>0, Taken DEF FileStart
<1>2. m.name \in Names /\ m.size \in Nat
  BY <1>1, PayloadFacts, FileAssumption
<1>3. /\ active'[s] = [active[s] EXCEPT ![u] = NewEntry(m)]
      /\ disk'[s] = [disk[s] EXCEPT ![m.name] = <<>>]
  BY <1>1 DEF TransferTypes
<1>4. /\ active'[s][u] = NewEntry(m) /\ NewEntry(m).size = m.size /\ NewEntry(m).count = 0
      /\ NewEntry(m).name = m.name /\ disk'[s][m.name] = <<>>
      /\ \A t \in Transfers : t # u => active'[s][t] = active[s][t]
  BY <1>1, <1>2, <1>3 DEF NewEntry, TransferTypes
<1>5. Ahead(q, u, m.size) /\ Announced(s, u, m.size)
  BY <1>1, Left, Zenon DEF Ahead, Announced
<1>6. /\ QueueInv(s)'
      /\ \A t : Holds(r, t) => Holds(q, t)
      /\ \A t : Live(s, t)' => Live(s, t)
      /\ \A t, z : Ahead(r, t, z) => Ahead(q, t, z)
  BY <1>1, LeaveQueue, Zenon
<1>7. SizeInv(s)'
  <2>1. ASSUME NEW t \in Transfers, NEW z \in Nat, Announced(s, t, z)' PROVE Announced(s, t, z)
    BY <1>4, <1>5, <1>6, <2>1 DEF Announced
  <2>. QED  BY <1>1, <2>1, LeaveSize, Zenon
<1>8. HistoryInv(s)'
  <2>. SUFFICES ASSUME NEW t \in Transfers
       PROVE  /\ t \in ended[s] => ~Live(s, t)' /\ active'[s][t] = Absent
              /\ t > xfer => t \notin ended[s] /\ t \notin harmed[s] /\ active'[s][t] = Absent
              /\ active'[s][t] # Absent => \A i \in 1..Len(r) : r[i].xfer >= t
              /\ \A i \in 1..Len(r) : r[i].tag = "start" /\ r[i].xfer = t =>
                   t \notin harmed[s] /\ active'[s][t] = Absent
              /\ t <= xfer /\ t \notin harmed[s] /\ t \notin ended[s] /\ active'[s][t] = Absent =>
                   \E z \in Nat : Ahead(r, t, z)
    BY <1>0, Zenon DEF HistoryInv
  <2>1. /\ t \in ended[s] => ~Live(s, t) /\ active[s][t] = Absent
        /\ t > xfer => t \notin ended[s] /\ t \notin harmed[s] /\ active[s][t] = Absent
        /\ active[s][t] # Absent => \A i \in 1..Len(q) : q[i].xfer >= t
        /\ \A i \in 1..Len(q) : q[i].tag = "start" /\ q[i].xfer = t =>
             t \notin harmed[s] /\ active[s][t] = Absent
        /\ t <= xfer /\ t \notin harmed[s] /\ t \notin ended[s] /\ active[s][t] = Absent =>
             \E z \in Nat : Ahead(q, t, z)
    BY Zenon DEF FileInv, HistoryInv
  <2>2. \A i \in 1..Len(r) : i + 1 \in 1..Len(q) /\ r[i] = q[i + 1]
    <3>1. 1 \in Nat
      OBVIOUS
    <3>. QED  BY <1>1, <3>1, Left, Zenon
  <2>3. t \in Nat /\ xfer \in Nat /\ Len(q) \in Nat /\ Len(r) = Len(q) - 1
    BY <1>1, Left, MyTypes
  <2>4. CASE t = u
    <3>1. t \notin ended[s] /\ t <= xfer
      BY <1>1, <2>1, <2>3, <2>4
    <3>2. active'[s][t] # Absent
      BY <1>2, <1>4, <2>4, FileAssumption DEF NewEntry
    <3>3. \A i \in 1..Len(r) : r[i].xfer >= t /\ (r[i].tag = "start" => r[i].xfer # t)
      BY <1>1, <2>3, <2>4
    <3>. QED  BY <2>3, <3>1, <3>2, <3>3
  <2>5. CASE t # u
    <3>1. active'[s][t] = active[s][t]
      BY <1>4, <2>5, Zenon
    <3>2. \A z \in Nat : Ahead(q, t, z) => Ahead(r, t, z)
      <4>. SUFFICES ASSUME NEW z \in Nat, NEW i \in 1..Len(q), q[i].tag = "start", q[i].xfer = t,
                           q[i].size = z
           PROVE  Ahead(r, t, z)
        BY Zenon DEF Ahead
      <4>1. i # 1
        BY <2>5
      <4>2. i - 1 \in 1..Len(r) /\ (i - 1) + 1 = i
        BY <2>3, <4>1
      <4>3. r[i - 1] = q[i]
        BY <2>2, <4>2, Zenon
      <4>. QED  BY <4>2, <4>3, Zenon DEF Ahead
    <3>. QED  BY <1>6, <2>1, <2>2, <3>1, <3>2
  <2>. QED  BY <2>4, <2>5, Zenon
<1>9. ASSUME NEW t \in Transfers, active'[s][t] # Absent, Live(s, t)' PROVE Download(s, t)'
  <2>1. t = u
    BY <1>1, <1>4, <1>9, Zenon
  <2>2. PICK z \in Nat : z = m.size
    BY <1>2, Zenon
  <2>3. NextPlace(s, z)' = Place(m, z) + 1
    BY <1>1, <1>5, <1>9, <2>1, <2>2, LeavePlace
  <2>4. Place(m, z) = 0
    BY <1>1, Zenon DEF Place
  <2>5. u \notin harmed'[s]
    BY <1>0, <1>1, Left DEF FileInv, HistoryInv
  <2>6. /\ <<>> \in Seq(Int) /\ Len(<<>>) = 0 /\ 0 <= 0 /\ 1 >= 0 + 1 /\ 1 = 0 + 1
        /\ Complete(<<>>, 1)
    BY DEF Complete
  <2>7. active'[s][t].size = z /\ active'[s][t].count = 0 /\ disk'[s][active'[s][t].name] = <<>>
    BY <1>4, <2>1, <2>2, Zenon
  <2>8. (IF feed'[s] = <<>> THEN sent' + 1 ELSE Place(feed'[s][1], z)) = 1
    BY <2>3, <2>4 DEF NextPlace
  <2>. QED  BY <2>1, <2>5, <2>6, <2>7, <2>8, Zenon DEF Download, NextPlace
<1>10. DownloadInv(s)'
  BY <1>9, Zenon DEF DownloadInv
<1>. QED  BY <1>6, <1>7, <1>8, <1>10 DEF FileInv

\* The histories may grow by the transfers that payloads left of, and by those
\* that end.
LEMMA LeaveHistory ==
  ASSUME TransferTypes, NEW s \in Subs, FileInv(s), NEW n \in Nat, Leave(s, n),
         harmed[s] \subseteq harmed'[s], ended[s] \subseteq ended'[s],
         \A t \in ended'[s] : t \in ended[s] \/ (t <= xfer /\ ~Live(s, t)' /\ active'[s][t] = Absent),
         \A t \in harmed'[s] : t \in harmed[s] \/ \E i \in 1..n : feed[s][i].xfer = t,
         \A i \in 1..n : feed[s][i].tag # "start" \/ feed[s][i].xfer \in harmed'[s],
         \A t \in Transfers : active[s][t] = Absent => active'[s][t] = Absent,
         \A t \in Transfers : t \notin ended'[s] /\ active'[s][t] = Absent => active[s][t] = Absent
  PROVE  HistoryInv(s)'
<1>. DEFINE q == feed[s]
            r == feed'[s]
<1>0. /\ Len(r) \in Nat /\ n >= 1 /\ n <= Len(q) /\ Len(r) = Len(q) - n
      /\ \A i \in 1..Len(r) : i + n \in 1..Len(q) /\ r[i] = q[i + n]
      /\ \A i \in 1..n : i \in 1..Len(q)
      /\ Len(q) \in Nat /\ xfer \in Nat /\ \A t \in Transfers : t \in Nat
      /\ xfer' = xfer
  BY Left, MyTypes DEF Leave
<1>1. /\ \A i \in 1..Len(q) : q[i].xfer \in 1..xfer
      /\ Ordered(q)
  BY Zenon DEF FileInv, QueueInv
<1>2. /\ \A t : Live(s, t)' => Live(s, t)
  BY LeaveQueue, Zenon
<1>. SUFFICES ASSUME NEW t \in Transfers
     PROVE  /\ t \in ended'[s] => ~Live(s, t)' /\ active'[s][t] = Absent
            /\ t > xfer => t \notin ended'[s] /\ t \notin harmed'[s] /\ active'[s][t] = Absent
            /\ active'[s][t] # Absent => \A i \in 1..Len(r) : r[i].xfer >= t
            /\ \A i \in 1..Len(r) : r[i].tag = "start" /\ r[i].xfer = t =>
                 t \notin harmed'[s] /\ active'[s][t] = Absent
            /\ t <= xfer /\ t \notin harmed'[s] /\ t \notin ended'[s] /\ active'[s][t] = Absent =>
                 \E z \in Nat : Ahead(r, t, z)
  BY <1>0, Zenon DEF HistoryInv
<1>3. /\ t \in ended[s] => ~Live(s, t) /\ active[s][t] = Absent
      /\ t > xfer => t \notin ended[s] /\ t \notin harmed[s] /\ active[s][t] = Absent
      /\ active[s][t] # Absent => \A i \in 1..Len(q) : q[i].xfer >= t
      /\ \A i \in 1..Len(q) : q[i].tag = "start" /\ q[i].xfer = t =>
           t \notin harmed[s] /\ active[s][t] = Absent
      /\ t <= xfer /\ t \notin harmed[s] /\ t \notin ended[s] /\ active[s][t] = Absent =>
           \E z \in Nat : Ahead(q, t, z)
  BY Zenon DEF FileInv, HistoryInv
<1>4. t > xfer => t \notin harmed'[s]
  BY <1>0, <1>1, <1>3
<1>5. ASSUME NEW i \in 1..Len(r), r[i].tag = "start", r[i].xfer = t PROVE t \notin harmed'[s]
  <2>1. i + n \in 1..Len(q) /\ q[i + n].tag = "start" /\ q[i + n].xfer = t
    BY <1>0, <1>5, Zenon
  <2>2. t \notin harmed[s]
    BY <1>3, <2>1, Zenon
  <2>3. ASSUME NEW j \in 1..n PROVE q[j].xfer < t
    <3>1. j \in 1..Len(q) /\ j < i + n
      BY <1>0
    <3>. QED  BY <1>1, <2>1, <3>1 DEF Ordered
  <2>. QED  BY <1>0, <2>2, <2>3
<1>6. ASSUME t <= xfer, t \notin harmed'[s], t \notin ended'[s], active'[s][t] = Absent
      PROVE  \E z \in Nat : Ahead(r, t, z)
  <2>1. t \notin harmed[s] /\ t \notin ended[s] /\ active[s][t] = Absent
    BY <1>6, Zenon
  <2>2. PICK z \in Nat : Ahead(q, t, z)
    BY <1>3, <1>6, <2>1
  <2>3. PICK i \in 1..Len(q) : q[i].tag = "start" /\ q[i].xfer = t /\ q[i].size = z
    BY <2>2, Zenon DEF Ahead
  <2>4. i \notin 1..n
    BY <1>6, <2>3, Zenon
  <2>5. i - n \in 1..Len(r) /\ (i - n) + n = i
    BY <1>0, <2>4
  <2>6. r[i - n] = q[i]
    BY <1>0, <2>5, Zenon
  <2>7. Ahead(r, t, z)
    BY <2>3, <2>5, <2>6, Zenon DEF Ahead
  <2>. QED  BY <2>7, Zenon
<1>7. active'[s][t] # Absent => \A i \in 1..Len(r) : r[i].xfer >= t
  BY <1>0, <1>3, Zenon
<1>8. ASSUME NEW i \in 1..Len(r), r[i].tag = "start", r[i].xfer = t PROVE active'[s][t] = Absent
  <2>1. i + n \in 1..Len(q) /\ r[i] = q[i + n]
    BY <1>0, Zenon
  <2>2. active[s][t] = Absent
    BY <1>3, <1>8, <2>1, Zenon
  <2>. QED  BY <2>2, Zenon
<1>9. /\ t \in ended'[s] => ~Live(s, t)' /\ active'[s][t] = Absent
      /\ t > xfer => t \notin ended'[s] /\ active'[s][t] = Absent
  BY <1>0, <1>2, <1>3
<1>. QED  BY <1>4, <1>5, <1>6, <1>7, <1>8, <1>9

\* A chunk v is written after d.
LEMMA Written ==
  ASSUME NEW d \in Seq(Int), NEW v \in Int, NEW p \in Nat
  PROVE  /\ Append(d, v) \in Seq(Int) /\ Len(Append(d, v)) = Len(d) + 1 /\ Len(d) \in Nat
         /\ v = p /\ Complete(d, p) => Complete(Append(d, v), p + 1)
         /\ v = p /\ Spoilt(d, p) => Spoilt(Append(d, v), p + 1)
         /\ v <= 0 => Spoilt(Append(d, v), p + 1)
<1>. DEFINE e == Append(d, v)
<1>. PICK l \in Nat : l = Len(d)
  OBVIOUS
<1>1. /\ e \in Seq(Int) /\ Len(e) = l + 1 /\ e[l + 1] = v
      /\ l + 1 \in 1..Len(e)
      /\ \A i \in 1..l : e[i] = d[i] /\ i \in 1..Len(e)
      /\ \A i \in 1..Len(e) : i \in 1..l \/ i = l + 1
  OBVIOUS
<1>. HIDE DEF e
<1>2. ASSUME v # l + 1 PROVE Spoilt(e, p + 1)
  BY <1>1, <1>2, Zenon DEF Spoilt
<1>3. ASSUME v = p, Complete(d, p) PROVE Complete(e, p + 1)
  <2>1. p = l + 1 /\ \A i \in 1..l : d[i] = i
    BY <1>3, Zenon DEF Complete
  <2>. QED  BY <1>1, <1>3, <2>1, Zenon DEF Complete
<1>4. ASSUME v = p, Spoilt(d, p) PROVE Spoilt(e, p + 1)
  <2>1. CASE p > l + 1
    <3>1. v # l + 1
      BY <1>4, <2>1
    <3>. QED  BY <1>2, <3>1, Zenon
  <2>2. CASE \E i \in 1..l : d[i] # i
    BY <1>1, <2>2, Zenon DEF Spoilt
  <2>. QED  BY <1>4, <2>1, <2>2, Zenon DEF Spoilt
<1>5. v <= 0 => v # l + 1
  OBVIOUS
<1>. QED  BY <1>1, <1>2, <1>3, <1>4, <1>5, Zenon DEF e

\* A chunk is written, in part or not at all, or ignored if there is no entry.
LEMMA ChunkTaken ==
  ASSUME TransferTypes, NEW s \in Subs, FileInv(s), FileChunk(s)
  PROVE  FileInv(s)'
<1>. DEFINE q == feed[s]
            m == feed[s][1]
            u == feed[s][1].xfer
            af == active[s][u]
<1>0. UNCHANGED <<spc, xfer, sent, file, ended>>
  BY Zenon DEF FileChunk, sendVars
<1>1. /\ Leave(s, 1) /\ Head(q) = m /\ m.tag = "chunk" /\ m \in Payload
      /\ u \in Transfers /\ u \in 1..xfer /\ Live(s, u)
      /\ \A i \in 1..Len(q) : q[i].xfer >= u
      /\ \A t \in Transfers : active[s][t] # Absent /\ t # u => ~Live(s, t)'
  BY <1>0, Taken, Zenon DEF FileChunk
<1>2. m.k \in Int /\ m.k # 0
  BY <1>1, PayloadFacts, Zenon
<1>3. harmed'[s] = harmed[s] \/ harmed'[s] = harmed[s] \cup {u}
  BY <1>1, Zenon DEF FileChunk, WriteChunk, FileError, TransferTypes
<1>4. \/ af = Absent /\ UNCHANGED <<active, disk>>
      \/ /\ af # Absent /\ active'[s] = [active[s] EXCEPT ![u].count = @ + 1]
         /\ WriteChunk(s, m, af.name)
  <2>1. \/ af = Absent /\ UNCHANGED <<active, disk>>
        \/ /\ af # Absent /\ active' = [active EXCEPT ![s][u].count = @ + 1]
           /\ WriteChunk(s, m, af.name)
    BY <1>1, Zenon DEF FileChunk
  <2>. QED  BY <2>1 DEF TransferTypes
<1>5. /\ \A t \in Transfers : t # u => active'[s][t] = active[s][t]
      /\ af = Absent => active'[s][u] = Absent
      /\ af # Absent => /\ active'[s][u].name = af.name /\ active'[s][u].size = af.size
                        /\ active'[s][u].count = af.count + 1
                        /\ active'[s][u] \in Entry
  <2>1. af # Absent => af \in Entry
    BY <1>1, MyTypes, Zenon
  <2>2. active[s] \in [Transfers -> Entry \cup {Absent}]
    BY Zenon DEF TransferTypes
  <2>3. CASE af = Absent
    BY <1>4, <2>3, Zenon
  <2>4. CASE af # Absent
    <3>1. /\ active'[s][u] = [af EXCEPT !.count = @ + 1]
          /\ \A t \in Transfers : t # u => active'[s][t] = active[s][t]
      BY <1>1, <1>4, <2>2, <2>4
    <3>2. [af EXCEPT !.count = @ + 1] \in Entry
      BY <2>1, <2>4 DEF Entry
    <3>3. LET e == [af EXCEPT !.count = @ + 1]
          IN  e.name = af.name /\ e.size = af.size /\ e.count = af.count + 1
      BY <2>1, <2>4, Zenon DEF Entry
    <3>. QED  BY <2>4, <3>1, <3>2, <3>3, Zenon
  <2>. QED  BY <2>3, <2>4, Zenon
<1>6. \A t \in Transfers : active'[s][t] = Absent <=> active[s][t] = Absent
  BY <1>5, FileAssumption, Zenon DEF Entry
<1>7. /\ QueueInv(s)'
      /\ \A t : Live(s, t)' => Live(s, t)
      /\ \A t, z : Ahead(feed'[s], t, z) => Ahead(q, t, z)
  BY <1>1, LeaveQueue, Zenon
<1>8. SizeInv(s)'
  <2>1. ASSUME NEW t \in Transfers, NEW z \in Nat, Announced(s, t, z)' PROVE Announced(s, t, z)
    BY <1>5, <1>6, <1>7, <2>1 DEF Announced
  <2>. QED  BY <1>1, <2>1, LeaveSize, Zenon
<1>9. HistoryInv(s)'
  <2>1. \A t \in harmed'[s] : t \in harmed[s] \/ \E i \in 1..1 : q[i].xfer = t
    BY <1>3
  <2>2. \A i \in 1..1 : q[i].tag # "start"
    BY <1>1
  <2>. QED  BY <1>0, <1>1, <1>3, <1>6, <2>1, <2>2, LeaveHistory
<1>10. ASSUME NEW t \in Transfers, active'[s][t] # Absent, Live(s, t)' PROVE Download(s, t)'
  <2>1. t = u /\ af # Absent
    BY <1>1, <1>5, <1>6, <1>10, Zenon
  <2>2. PICK z \in Nat, c \in Nat : z = af.size /\ c = af.count
    BY <1>1, <2>1, MyTypes, Zenon
  <2>3. Announced(s, t, z)
    BY <2>1, <2>2, Zenon DEF Announced
  <2>4. /\ NextPlace(s, z)' = Place(m, z) + 1 /\ NextPlace(s, z) = Place(m, z)
        /\ Place(m, z) \in Nat
    BY <1>1, <1>10, <2>1, <2>3, LeavePlace
  <2>5. Download(s, t)
    BY <1>1, <2>1, Zenon DEF FileInv, DownloadInv
  <2>. DEFINE d == disk[s][af.name]
              e == disk'[s][af.name]
  <2>6. /\ d \in Seq(Int) /\ Len(d) <= c
        /\ Place(m, z) >= c + 1
        /\ t \notin harmed[s] => Complete(d, Place(m, z))
        /\ t \in harmed[s] => Spoilt(d, Place(m, z))
    BY <2>1, <2>2, <2>4, <2>5, Zenon DEF Download
  <2>7. \/ e = Append(d, m.k) /\ (t \in harmed'[s] <=> t \in harmed[s] \/ m.k < 0)
        \/ t \in harmed'[s] /\ (e = d \/ e = Append(d, 0))
    <3>1. af.name \in Names /\ WriteChunk(s, m, af.name)
      BY <1>1, <1>4, <2>1, MyTypes, Zenon
    <3>2. /\ disk \in [Subs -> [Names -> Seq(Int) \cup {Absent}]]
          /\ harmed \in [Subs -> SUBSET Transfers]
      BY Zenon DEF TransferTypes
    <3>3. ASSUME NEW v, disk' = [disk EXCEPT ![s][af.name] = Append(@, v)] PROVE e = Append(d, v)
      BY <3>1, <3>2, <3>3, Zenon
    <3>4. CASE FileError(s, m.xfer)
      <4>1. t \in harmed'[s]
        BY <2>1, <3>2, <3>4, Zenon DEF FileError
      <4>2. disk' = disk => e = d
        BY Zenon
      <4>3. \/ disk' = disk \/ disk' = [disk EXCEPT ![s][af.name] = Append(@, 0)]
            \/ /\ disk' = [disk EXCEPT ![s][af.name] = Append(@, m.k)]
               /\ harmed' = [harmed EXCEPT ![s] = IF m.k < 0 THEN @ \cup {m.xfer} ELSE @]
        BY <3>1, Zenon DEF WriteChunk
      <4>4. harmed' = [harmed EXCEPT ![s] = IF m.k < 0 THEN @ \cup {m.xfer} ELSE @] =>
              (t \in harmed'[s] <=> t \in harmed[s] \/ m.k < 0)
        BY <2>1, <3>2, Zenon
      <4>. QED  BY <3>3, <4>1, <4>2, <4>3, <4>4, Zenon
    <3>5. CASE /\ disk' = [disk EXCEPT ![s][af.name] = Append(@, m.k)]
               /\ harmed' = [harmed EXCEPT ![s] = IF m.k < 0 THEN @ \cup {m.xfer} ELSE @]
      <4>1. t \in harmed'[s] <=> t \in harmed[s] \/ m.k < 0
        BY <2>1, <3>2, <3>5, Zenon
      <4>. QED  BY <3>3, <3>5, <4>1, Zenon
    <3>. QED  BY <3>1, <3>4, <3>5, Zenon DEF WriteChunk
  <2>8. m.k = Place(m, z) \/ m.k < 0
    BY <1>1, Zenon DEF Place
  <2>. HIDE DEF d, e, m
  <2>10. /\ e \in Seq(Int) /\ Len(e) <= c + 1
         /\ t \notin harmed'[s] => Complete(e, Place(m, z) + 1)
         /\ t \in harmed'[s] => Spoilt(e, Place(m, z) + 1)
    <3>. PICK p \in Nat : p = Place(m, z)
      BY <2>4, Zenon
    <3>. PICK v \in Int : v = m.k
      BY <1>2, Zenon
    <3>1. /\ e \in Seq(Int) /\ Len(e) <= c + 1
          /\ t \notin harmed'[s] => Complete(e, p + 1)
          /\ t \in harmed'[s] => Spoilt(e, p + 1)
      <4>1. /\ v = p \/ v < 0
            /\ Len(d) <= c /\ p >= c + 1 /\ d \in Seq(Int)
            /\ t \notin harmed[s] => Complete(d, p)
            /\ t \in harmed[s] => Spoilt(d, p)
            /\ \/ e = Append(d, v) /\ (t \in harmed'[s] <=> t \in harmed[s] \/ v < 0)
               \/ t \in harmed'[s] /\ (e = d \/ e = Append(d, 0))
        BY <2>6, <2>7, <2>8, Zenon
      <4>2. CASE e = d /\ t \in harmed'[s]
        <5>1. Len(d) <= c + 1 /\ Spoilt(d, p + 1)
          BY <4>1 DEF Spoilt
        <5>. QED  BY <4>1, <4>2, <5>1, Zenon
      <4>3. CASE e = Append(d, 0) /\ t \in harmed'[s]
        <5>1. e \in Seq(Int) /\ Len(e) = Len(d) + 1 /\ Len(d) \in Nat /\ Spoilt(e, p + 1)
          BY <4>1, <4>3, Written
        <5>2. Len(e) <= c + 1
          BY <4>1, <5>1
        <5>. QED  BY <4>3, <5>1, <5>2, Zenon
      <4>4. CASE e = Append(d, v) /\ (t \in harmed'[s] <=> t \in harmed[s] \/ v < 0)
        <5>1. /\ e \in Seq(Int) /\ Len(e) = Len(d) + 1 /\ Len(d) \in Nat
              /\ v = p /\ Complete(d, p) => Complete(e, p + 1)
              /\ v = p /\ Spoilt(d, p) => Spoilt(e, p + 1)
              /\ v <= 0 => Spoilt(e, p + 1)
          BY <4>1, <4>4, Written, Zenon
        <5>2. Len(e) <= c + 1 /\ (v < 0 => v <= 0)
          BY <4>1, <5>1
        <5>. QED  BY <4>1, <4>4, <5>1, <5>2, Zenon
      <4>. QED  BY <4>1, <4>2, <4>3, <4>4, Zenon
    <3>. QED  BY <3>1, Zenon
  <2>11. active'[s][t].size = z /\ active'[s][t].count = c + 1 /\ disk'[s][active'[s][t].name] = e
    BY <1>5, <2>1, <2>2, Zenon DEF e
  <2>12. NextPlace(s, z)' = Place(m, z) + 1 /\ Place(m, z) + 1 >= (c + 1) + 1
    BY <2>4, <2>6
  <2>. QED  BY <2>10, <2>11, <2>12, Zenon DEF Download, NextPlace
<1>11. DownloadInv(s)'
  BY <1>10 DEF DownloadInv
<1>. QED  BY <1>7, <1>8, <1>9, <1>11, Zenon DEF FileInv

\* A download ends, and its hash is compared.
LEMMA EndTaken ==
  ASSUME TransferTypes, NEW s \in Subs, FileInv(s), FileEnd(s),
         \A t \in Transfers : verdict[s][t] = "ok" <=> t \in ended[s] /\ t \notin harmed[s]
  PROVE  /\ FileInv(s)'
         /\ \A t \in Transfers : verdict'[s][t] = "ok" <=> t \in ended'[s] /\ t \notin harmed'[s]
<1>. DEFINE q == feed[s]
            r == feed'[s]
            m == feed[s][1]
<1>. PICK u : u = feed[s][1].xfer
  BY Zenon
<1>. DEFINE af == active[s][u]
            good == disk[s][af.name] = [k \in 1..af.size |-> k]
<1>0. UNCHANGED <<spc, xfer, sent, file, disk>>
  BY Zenon DEF FileEnd, sendVars
<1>1. /\ Leave(s, 1) /\ Head(q) = m /\ m.tag = "end" /\ m \in Payload
      /\ u \in Transfers /\ u \in 1..xfer /\ Live(s, u)
      /\ \A i \in 1..Len(q) : q[i].xfer >= u
      /\ \A i \in 1..Len(r) : r[i].xfer > u
      /\ \A t \in Transfers : active[s][t] # Absent /\ t # u => ~Live(s, t)'
  BY <1>0, Taken, Zenon DEF FileEnd
<1>2. ended'[s] = ended[s] \cup {u}
  BY <1>1, Zenon DEF FileEnd, TransferTypes
<1>3. /\ active'[s][u] = Absent
      /\ \A t \in Transfers : t # u => active'[s][t] = active[s][t] /\ verdict'[s][t] = verdict[s][t]
      /\ \/ harmed'[s] = harmed[s] /\ af = Absent /\ verdict'[s][u] = verdict[s][u]
         \/ harmed'[s] = harmed[s] /\ af # Absent /\ verdict'[s][u] = IF good THEN "ok" ELSE "bad"
         \/ harmed'[s] = harmed[s] \cup {u} /\ verdict'[s][u] = verdict[s][u]
  <2>1. /\ active[s] \in [Transfers -> Entry \cup {Absent}]
        /\ verdict[s] \in [Transfers -> {"none", "ok", "bad"}]
    BY Zenon DEF TransferTypes
  <2>2. /\ active \in [Subs -> [Transfers -> Entry \cup {Absent}]]
        /\ verdict \in [Subs -> [Transfers -> {"none", "ok", "bad"}]]
        /\ harmed \in [Subs -> SUBSET Transfers]
    BY Zenon DEF TransferTypes
  <2>3. \/ af = Absent /\ UNCHANGED <<active, verdict, harmed>>
        \/ /\ af # Absent /\ active' = [active EXCEPT ![s][u] = Absent]
           /\ \/ /\ verdict' = [verdict EXCEPT ![s][u] = IF good THEN "ok" ELSE "bad"]
                 /\ UNCHANGED harmed
              \/ harmed' = [harmed EXCEPT ![s] = @ \cup {u}] /\ UNCHANGED verdict
    BY <1>1, Zenon DEF FileEnd, FileError
  <2>. HIDE DEF good
  <2>4. \/ af = Absent /\ UNCHANGED <<active, verdict>> /\ harmed'[s] = harmed[s]
        \/ /\ af # Absent /\ active'[s] = [active[s] EXCEPT ![u] = Absent]
           /\ \/ /\ verdict'[s] = [verdict[s] EXCEPT ![u] = IF good THEN "ok" ELSE "bad"]
                 /\ harmed'[s] = harmed[s]
              \/ harmed'[s] = harmed[s] \cup {u} /\ UNCHANGED verdict
    BY <2>2, <2>3, Zenon
  <2>. QED  BY <1>1, <2>1, <2>4, Zenon
<1>4. /\ QueueInv(s)'
      /\ \A t : Holds(r, t) => Holds(q, t)
      /\ \A t : Live(s, t)' => Live(s, t)
      /\ \A t, z : Ahead(r, t, z) => Ahead(q, t, z)
  BY <1>1, LeaveQueue
<1>5. ~Live(s, u)'
  <2>1. u \in Nat /\ xfer \in Nat
    BY <1>1, MyTypes
  <2>2. ~Holds(r, u)
    BY <1>1, <2>1 DEF Holds
  <2>3. CASE spc = "idle"
    BY <1>0, <2>2, <2>3 DEF Live
  <2>4. CASE spc # "idle"
    <3>1. q[Len(q)].xfer = xfer /\ q[Len(q)].tag # "end"
      BY <1>1, <2>4, Left, Zenon DEF FileInv, QueueInv
    <3>2. r # <<>> /\ r[Len(r)] = q[Len(q)] /\ Len(r) \in 1..Len(r)
      BY <1>1, <3>1, Left
    <3>3. u < xfer
      BY <1>1, <2>1, <3>1, <3>2, Zenon
    <3>. QED  BY <1>0, <2>1, <2>2, <3>3 DEF Live
  <2>. QED  BY <2>3, <2>4, Zenon
<1>6. SizeInv(s)'
  <2>1. ASSUME NEW t \in Transfers, NEW z \in Nat, Announced(s, t, z)' PROVE Announced(s, t, z)
    BY <1>3, <1>4, <2>1 DEF Announced
  <2>. QED  BY <1>1, <2>1, LeaveSize
<1>7. u \notin ended[s] /\ (af = Absent => u \in harmed[s])
  <2>1. /\ u \notin ended[s]
        /\ u \notin harmed[s] /\ af = Absent => \E z \in Nat : Ahead(q, u, z)
    <3>0. u \in 1..xfer /\ xfer \in Nat
      BY <1>1, MyTypes, Zenon
    <3>1. u <= xfer
      BY <3>0
    <3>. QED  BY <1>1, <3>1, Zenon DEF FileInv, HistoryInv
  <2>2. ASSUME NEW z \in Nat PROVE ~Ahead(q, u, z)
    <3>1. \A i \in 1..Len(q) : i # 1 => q[i].xfer > u
      <4>1. \A i \in 1..Len(q) : i # 1 => i - 1 \in 1..Len(r) /\ r[i - 1] = q[i]
        <5>1. /\ Len(r) = Len(q) - 1 /\ Len(q) \in Nat
              /\ \A i \in 1..Len(r) : r[i] = q[i + 1]
          BY <1>1, Left, MyTypes
        <5>. HIDE DEF q, r
        <5>2. ASSUME NEW i \in 1..Len(q), i # 1 PROVE i - 1 \in 1..Len(r) /\ r[i - 1] = q[i]
          <6>1. i - 1 \in 1..Len(r) /\ (i - 1) + 1 = i
            BY <5>1, <5>2
          <6>. QED  BY <5>1, <6>1, Zenon
        <5>. QED  BY <5>2, Zenon
      <4>. QED  BY <1>1, <4>1, Zenon
    <3>2. u \in Nat
      BY <1>1, MyTypes, Zenon
    <3>3. ~(u > u)
      BY <3>2
    <3>. QED  BY <1>1, <3>1, <3>3, Zenon DEF Ahead
  <2>. QED  BY <2>1, <2>2
<1>8. HistoryInv(s)'
  <2>1. \A t \in ended'[s] :
          t \in ended[s] \/ (t <= xfer /\ ~Live(s, t)' /\ active'[s][t] = Absent)
    <3>0. u \in 1..xfer /\ xfer \in Nat
      BY <1>1, MyTypes, Zenon
    <3>1. u <= xfer
      BY <3>0
    <3>. QED  BY <1>2, <1>3, <1>5, <3>1
  <2>2. /\ \A t \in Transfers : active[s][t] = Absent => active'[s][t] = Absent
        /\ \A t \in Transfers : t \notin ended'[s] /\ active'[s][t] = Absent => active[s][t] = Absent
    BY <1>2, <1>3, Zenon
  <2>3. \A i \in 1..1 : q[i].tag # "start"
    BY <1>1
  <2>4. /\ harmed[s] \subseteq harmed'[s] /\ ended[s] \subseteq ended'[s]
        /\ \A t \in harmed'[s] : t \in harmed[s] \/ t = u
    BY <1>2, <1>3, Zenon
  <2>5. 1 \in 1..1 /\ 1 \in Nat
    OBVIOUS
  <2>6. \A t \in harmed'[s] : t \in harmed[s] \/ \E i \in 1..1 : q[i].xfer = t
    BY <2>4, <2>5, Zenon
  <2>. QED  BY <1>1, <2>1, <2>2, <2>3, <2>4, <2>5, <2>6, LeaveHistory, Zenon
<1>9. DownloadInv(s)'
  BY <1>1, <1>3, Zenon DEF DownloadInv
<1>10. FileInv(s)'
  BY <1>4, <1>6, <1>8, <1>9, Zenon DEF FileInv
<1>11. ASSUME af # Absent PROVE good <=> u \notin harmed[s]
  <2>1. PICK z \in Nat, c \in Nat : z = af.size /\ c = af.count
    BY <1>1, <1>11, MyTypes, Zenon
  <2>2. Download(s, u)
    BY <1>1, <1>11, Zenon DEF FileInv, DownloadInv
  <2>3. q # <<>> /\ z \in Nat
    BY <1>1, Left, FileAssumption, Zenon
  <2>4. NextPlace(s, z) = z + 1
    BY <1>1, <2>3, Zenon DEF NextPlace, Place
  <2>. DEFINE d == disk[s][af.name]
  <2>5. /\ d \in Seq(Int)
        /\ u \notin harmed[s] => Complete(d, z + 1)
        /\ u \in harmed[s] => Spoilt(d, z + 1)
    BY <2>1, <2>2, <2>4, Zenon DEF Download
  <2>6. good <=> d = [k \in 1..z |-> k]
    BY <2>1, Zenon
  <2>. HIDE DEF d, good
  <2>7. d = [k \in 1..z |-> k] <=> z = Len(d) /\ \A i \in 1..Len(d) : d[i] = i
    BY <2>3, <2>5
  <2>. QED  BY <2>3, <2>5, <2>6, <2>7 DEF Complete, Spoilt
<1>12. ASSUME NEW t \in Transfers
       PROVE  verdict'[s][t] = "ok" <=> t \in ended'[s] /\ t \notin harmed'[s]
  <2>1. CASE t # u
    <3>1. /\ verdict'[s][t] = verdict[s][t]
          /\ t \in ended'[s] <=> t \in ended[s]
          /\ t \in harmed'[s] <=> t \in harmed[s]
      BY <1>2, <1>3, <2>1, Zenon
    <3>. QED  BY <3>1, Zenon
  <2>2. CASE t = u /\ verdict'[s][u] = verdict[s][u] /\ u \in harmed'[s]
    BY <1>7, <2>2, Zenon
  <2>3. CASE /\ t = u /\ af # Absent /\ harmed'[s] = harmed[s]
             /\ verdict'[s][u] = IF good THEN "ok" ELSE "bad"
    BY <1>2, <1>11, <2>3
  <2>4. af = Absent => u \in harmed[s]
    BY <1>7, Zenon
  <2>. HIDE DEF good
  <2>. QED  BY <1>3, <2>1, <2>2, <2>3, <2>4, Zenon
<1>. QED  BY <1>10, <1>12, Zenon

\* The first n payloads are missed, or they are of no use.
LEMMA Missed ==
  ASSUME TransferTypes, NEW s \in Subs, FileInv(s), NEW n \in 1..Len(feed[s]),
         feed'[s] = SubSeq(feed[s], n + 1, Len(feed[s])),
         harmed'[s] = harmed[s] \cup {feed[s][i].xfer : i \in 1..n},
         UNCHANGED <<spc, xfer, sent, file, active, disk, verdict, ended>>,
         \A t \in Transfers : verdict[s][t] = "ok" <=> t \in ended[s] /\ t \notin harmed[s]
  PROVE  /\ FileInv(s)'
         /\ \A t \in Transfers : verdict'[s][t] = "ok" <=> t \in ended'[s] /\ t \notin harmed'[s]
<1>. DEFINE q == feed[s]
            r == feed'[s]
<1>0. UNCHANGED <<spc, xfer, sent, file, active, disk, verdict, ended>>
  BY Zenon
<1>1. /\ r = SubSeq(q, n + 1, Len(q))
      /\ harmed'[s] = harmed[s] \cup {q[i].xfer : i \in 1..n}
  BY Zenon
<1>2. Leave(s, n) /\ n \in Nat
  <2>1. Leave(s, n)
    BY <1>0, <1>1, Zenon DEF Leave
  <2>2. Len(q) \in Nat /\ n \in 1..Len(q)
    BY MyTypes, Zenon
  <2>3. n \in Nat
    BY <2>2
  <2>. QED  BY <2>1, <2>3, Zenon
<1>3. /\ QueueInv(s)'
      /\ \A t : Live(s, t)' => Live(s, t)
      /\ \A t, z : Ahead(r, t, z) => Ahead(q, t, z)
  BY <1>2, LeaveQueue, Zenon
<1>4. SizeInv(s)'
  <2>1. ASSUME NEW t \in Transfers, NEW z \in Nat, Announced(s, t, z)' PROVE Announced(s, t, z)
    BY <1>0, <1>3, <2>1, Zenon DEF Announced
  <2>. QED  BY <1>2, <2>1, LeaveSize, Zenon
<1>5. HistoryInv(s)'
  <2>1. /\ harmed[s] \subseteq harmed'[s]
        /\ \A t \in harmed'[s] : t \in harmed[s] \/ \E i \in 1..n : q[i].xfer = t
        /\ \A i \in 1..n : q[i].xfer \in harmed'[s]
    BY <1>1, Zenon
  <2>. QED  BY <1>0, <1>2, <2>1, LeaveHistory, Zenon
<1>6. ASSUME NEW t \in Transfers, active'[s][t] # Absent, Live(s, t)' PROVE Download(s, t)'
  <2>1. PICK z \in Nat, c \in Nat : z = active[s][t].size /\ c = active[s][t].count
    BY <1>0, <1>6, MyTypes, Zenon
  <2>2. Announced(s, t, z)
    BY <1>0, <1>6, <2>1, Zenon DEF Announced
  <2>3. \A i \in 1..Len(q) : q[i].xfer >= t
    BY <1>0, <1>6 DEF FileInv, HistoryInv
  <2>4. /\ q[1].xfer = t /\ NextPlace(s, z)' = Place(q[1], z) + n
        /\ NextPlace(s, z) = Place(q[1], z) /\ Place(q[1], z) \in Nat
    BY <1>2, <1>6, <2>2, <2>3, LeavePlace
  <2>5. Download(s, t)
    BY <1>0, <1>3, <1>6 DEF FileInv, DownloadInv
  <2>. DEFINE d == disk[s][active[s][t].name]
  <2>6. d \in Seq(Int) /\ Len(d) <= c /\ Place(q[1], z) >= c + 1
    BY <2>1, <2>4, <2>5, Zenon DEF Download
  <2>7. t \in harmed'[s]
    BY <1>1, <2>4
  <2>8. (IF feed'[s] = <<>> THEN sent' + 1 ELSE Place(feed'[s][1], z)) = Place(q[1], z) + n
    BY <2>4, Zenon DEF NextPlace
  <2>9. Spoilt(d, Place(q[1], z) + n) /\ Place(q[1], z) + n >= c + 1
    <3>. HIDE DEF d
    <3>1. n >= 1 /\ Len(d) \in Nat
      BY <1>2, <2>6, MyTypes
    <3>. QED  BY <1>2, <2>4, <2>6, <3>1 DEF Spoilt
  <2>10. active'[s][t].size = z /\ active'[s][t].count = c /\ disk'[s][active'[s][t].name] = d
    BY <1>0, <2>1, Zenon
  <2>. HIDE DEF d
  <2>. QED  BY <2>6, <2>7, <2>8, <2>9, <2>10, Zenon DEF Download, NextPlace
<1>7. DownloadInv(s)'
  BY <1>6, Zenon DEF DownloadInv
<1>8. ASSUME NEW t \in Transfers
      PROVE  verdict'[s][t] = "ok" <=> t \in ended'[s] /\ t \notin harmed'[s]
  <2>1. t \in ended[s] => ~Holds(q, t)
    BY Zenon DEF FileInv, HistoryInv, Live
  <2>2. t \in ended[s] => t \notin {q[i].xfer : i \in 1..n}
    <3>1. \A i \in 1..n : i \in 1..Len(q)
      BY <1>2, Left, MyTypes
    <3>. QED  BY <2>1, <3>1, Zenon DEF Holds
  <2>. QED  BY <1>0, <1>1, <2>2, Zenon
<1>. QED  BY <1>3, <1>4, <1>5, <1>7, <1>8 DEF FileInv

\* Updates keep the type of a function, and of a function of functions.
LEMMA Updated ==
  ASSUME NEW S, NEW T, NEW f \in [S -> T], NEW a \in S, NEW v \in T
  PROVE  [f EXCEPT ![a] = v] \in [S -> T]
BY Zenon

LEMMA UpdatedTwice ==
  ASSUME NEW R, NEW S, NEW T, NEW f \in [R -> [S -> T]], NEW a \in R, NEW b \in S, NEW v \in T
  PROVE  [f EXCEPT ![a][b] = v] \in [R -> [S -> T]]
BY Zenon

\* Types, step by step: what is published is a payload.
LEMMA TypesPublished ==
  ASSUME TransferTypes, NEW m \in Payload, PublishPayload(m)
  PROVE  feed' \in [Subs -> Seq(Payload)] /\ \A s \in Subs : feed'[s] = Append(feed[s], m)
<1>1. \A s \in Subs : feed[s] \in Seq(Payload)
  BY Zenon DEF TransferTypes
<1>2. \A s \in Subs : Append(feed[s], m) \in Seq(Payload)
  BY <1>1, Appended, Zenon
<1>. QED  BY <1>2, Zenon DEF PublishPayload

\* The payloads of a transfer that goes on.
LEMMA NextPayload ==
  ASSUME TransferTypes, spc # "idle"
  PROVE  /\ LET m == Chunk(xfer, IF edited THEN -(sent + 1) ELSE sent + 1)
            IN  /\ m \in Payload /\ m.xfer = xfer /\ m.tag = "chunk"
                /\ \A z : Place(m, z) = sent + 1
         /\ LET m == End(xfer)
            IN  /\ m \in Payload /\ m.xfer = xfer /\ m.tag = "end"
                /\ \A z : Place(m, z) = z + 1
<1>1. sent \in Nat /\ xfer \in Nat
  BY FileAssumption DEF TransferTypes
<1>2. PICK k \in Int \ {0} : k = (IF edited THEN -(sent + 1) ELSE sent + 1)
                             /\ (IF k < 0 THEN -k ELSE k) = sent + 1
  BY <1>1
<1>3. Chunk(xfer, k) \in Payload /\ Chunk(xfer, k).xfer = xfer /\ Chunk(xfer, k).tag = "chunk"
      /\ Chunk(xfer, k).k = k
  BY <1>1, Zenon DEF Chunk, Payload
<1>4. \A z : Place(Chunk(xfer, k), z) = sent + 1
  BY <1>2, <1>3, Zenon DEF Place
<1>5. /\ End(xfer) \in Payload /\ End(xfer).xfer = xfer /\ End(xfer).tag = "end"
      /\ \A z : Place(End(xfer), z) = z + 1
  BY <1>1, Zenon DEF End, Payload, Place
<1>. QED  BY <1>2, <1>3, <1>4, <1>5

\* The steps of the sender and of the sync handler, as they look to a subscriber.
LEMMA SenderMoves ==
  ASSUME TransferTypes,
         OpenAckChan \/ TakeAck \/ AckTimeout \/ EditSource \/ Abort
           \/ (\E t \in Transfers : HandleChunkAck(t) \/ LoseAck(t)) \/ UNCHANGED transferVars
  PROVE  /\ UNCHANGED <<feed, active, disk, verdict, harmed, ended, xfer>>
         /\ \/ spc' = "idle"
            \/ spc # "idle" /\ spc' # "idle" /\ sent' = sent /\ file' = file
         /\ TransferTypes'
<1>1. /\ UNCHANGED <<feed, active, disk, verdict, harmed, ended, xfer>>
      /\ spc' \in {"idle", "open", "chunk", "wait"}
      /\ \/ spc' = "idle" /\ sent' = 0
         \/ spc # "idle" /\ spc' # "idle" /\ sent' = sent /\ file' = file
            /\ (spc' = "open" => spc = "open")
  BY Zenon DEF OpenAckChan, TakeAck, AckTimeout, EditSource, Abort, HandleChunkAck, LoseAck, Return,
         recvVars, sendVars, transferVars, TransferTypes
<1>2. TransferTypes'
  BY <1>1 DEF TransferTypes
<1>. QED  BY <1>1, <1>2, Zenon

\* A subscriber's entries and files keep their types.
LEMMA TypesTaken ==
  ASSUME TransferTypes, NEW s \in Subs, FileInv(s),
         FileStart(s) \/ FileChunk(s) \/ FileEnd(s) \/ Gap(s)
  PROVE  TransferTypes'
<1>0. UNCHANGED <<spc, xfer, sent, file>>
  BY Zenon DEF FileStart, FileChunk, FileEnd, Gap, sendVars
<1>. SUFFICES /\ feed' \in [Subs -> Seq(Payload)]
              /\ active' \in [Subs -> [Transfers -> Entry \cup {Absent}]]
              /\ disk' \in [Subs -> [Names -> Seq(Int) \cup {Absent}]]
              /\ verdict' \in [Subs -> [Transfers -> {"none", "ok", "bad"}]]
              /\ harmed' \in [Subs -> SUBSET Transfers]
              /\ ended' \in [Subs -> SUBSET Transfers]
  BY <1>0, Zenon DEF TransferTypes
<1>. DEFINE m == feed[s][1]
<1>1. CASE Gap(s)
  <2>1. PICK n \in 1..Len(feed[s]) :
           /\ feed' = [feed EXCEPT ![s] = SubSeq(@, n + 1, Len(@))]
           /\ harmed' = [harmed EXCEPT ![s] = @ \cup {feed[s][i].xfer : i \in 1..n}]
    BY <1>1, Zenon DEF Gap
  <2>2. SubSeq(feed[s], n + 1, Len(feed[s])) \in Seq(Payload)
    BY MyTypes, Shifted, Zenon
  <2>3. {feed[s][i].xfer : i \in 1..n} \subseteq Transfers
    <3>1. \A i \in 1..n : i \in 1..Len(feed[s])
      BY MyTypes
    <3>. QED  BY <3>1, MyTypes, Zenon DEF FileInv, QueueInv
  <2>. QED  BY <1>1, <2>1, <2>2, <2>3, Zenon DEF Gap, TransferTypes
<1>2. ASSUME NEW tag, Take(s, tag)
      PROVE  /\ feed' \in [Subs -> Seq(Payload)] /\ Head(feed[s]) = m /\ m.tag = tag
             /\ m \in Payload /\ m.xfer \in Transfers
             /\ active[s][m.xfer] \in Entry \cup {Absent}
  <2>1. feed' = [feed EXCEPT ![s] = Tail(@)] /\ feed[s] \in Seq(Payload) /\ feed[s] # <<>>
    BY <1>2, MyTypes DEF Take
  <2>2. Tail(feed[s]) \in Seq(Payload)
    BY <2>1
  <2>3. feed' \in [Subs -> Seq(Payload)]
    BY <2>1, <2>2, Zenon DEF TransferTypes
  <2>. QED  BY <1>0, <1>2, <2>3, Taken, MyTypes
<1>3. CASE FileStart(s)
  <2>1. m \in Payload /\ m.tag = "start" /\ m.xfer \in Transfers /\ Head(feed[s]) = m
        /\ feed' \in [Subs -> Seq(Payload)]
    BY <1>2, <1>3, Zenon DEF FileStart
  <2>2. m.name \in Names /\ NewEntry(m) \in Entry /\ <<>> \in Seq(Int)
    <3>1. m.name \in Names /\ m.size \in Nat
      BY <2>1, PayloadFacts, FileAssumption, Zenon
    <3>. QED  BY <3>1 DEF NewEntry, Entry
  <2>3. /\ \/ /\ active' = [active EXCEPT ![s][m.xfer] = NewEntry(m)]
              /\ disk' = [disk EXCEPT ![s][m.name] = <<>>]
              /\ UNCHANGED harmed
           \/ UNCHANGED <<active, disk>> /\ harmed' = [harmed EXCEPT ![s] = @ \cup {m.xfer}]
        /\ UNCHANGED <<verdict, ended>>
    BY <1>3, <2>1, Zenon DEF FileStart, FileError
  <2>. HIDE DEF m
  <2>4. /\ active \in [Subs -> [Transfers -> Entry \cup {Absent}]]
        /\ disk \in [Subs -> [Names -> Seq(Int) \cup {Absent}]]
        /\ harmed \in [Subs -> SUBSET Transfers]
        /\ NewEntry(m) \in Entry \cup {Absent} /\ <<>> \in Seq(Int) \cup {Absent}
        /\ harmed[s] \cup {m.xfer} \in SUBSET Transfers
    BY <2>1, <2>2, Zenon DEF TransferTypes
  <2>5. active' \in [Subs -> [Transfers -> Entry \cup {Absent}]]
    <3>1. [active EXCEPT ![s][m.xfer] = NewEntry(m)] \in [Subs -> [Transfers -> Entry \cup {Absent}]]
      BY <2>1, <2>4, UpdatedTwice
    <3>. QED  BY <2>3, <2>4, <3>1, Zenon
  <2>6. disk' \in [Subs -> [Names -> Seq(Int) \cup {Absent}]]
    <3>1. [disk EXCEPT ![s][m.name] = <<>>] \in [Subs -> [Names -> Seq(Int) \cup {Absent}]]
      BY <2>2, <2>4, UpdatedTwice
    <3>. QED  BY <2>3, <2>4, <3>1, Zenon
  <2>7. harmed' \in [Subs -> SUBSET Transfers]
    BY <2>3, <2>4, Updated, Zenon
  <2>. QED  BY <2>1, <2>3, <2>5, <2>6, <2>7, Zenon DEF TransferTypes
<1>4. CASE FileChunk(s)
  <2>. DEFINE u == m.xfer
              af == active[s][u]
  <2>1. m \in Payload /\ m.tag = "chunk" /\ m.xfer \in Transfers /\ Head(feed[s]) = m
        /\ feed' \in [Subs -> Seq(Payload)] /\ af \in Entry \cup {Absent}
    BY <1>2, <1>4, Zenon DEF FileChunk
  <2>2. m.k \in Int
    BY <2>1, PayloadFacts
  <2>3. /\ \E h \in {harmed[s], harmed[s] \cup {u}} : harmed' = [harmed EXCEPT ![s] = h]
        /\ \/ UNCHANGED <<active, disk>>
           \/ /\ af # Absent
              /\ disk' = disk \/ \E v \in {m.k, 0} : disk' = [disk EXCEPT ![s][af.name] = Append(@, v)]
              /\ active' = [active EXCEPT ![s][u].count = @ + 1]
        /\ UNCHANGED <<verdict, ended>>
    BY <1>4, <2>1, Zenon DEF FileChunk, WriteChunk, FileError
  <2>4. harmed' \in [Subs -> SUBSET Transfers]
    <3>1. /\ harmed \in [Subs -> SUBSET Transfers] /\ harmed[s] \in SUBSET Transfers
          /\ harmed[s] \cup {u} \in SUBSET Transfers
      BY <2>1, Zenon DEF TransferTypes
    <3>2. \A h \in SUBSET Transfers : [harmed EXCEPT ![s] = h] \in [Subs -> SUBSET Transfers]
      BY <3>1, Updated, Zenon
    <3>3. PICK h \in {harmed[s], harmed[s] \cup {u}} : harmed' = [harmed EXCEPT ![s] = h]
      BY <2>3, Zenon
    <3>. QED  BY <3>1, <3>2, <3>3, Zenon
  <2>5. CASE UNCHANGED <<active, disk>>
    BY <2>1, <2>3, <2>4, <2>5, Zenon DEF TransferTypes
  <2>6. CASE /\ af # Absent
             /\ disk' = disk \/ \E v \in {m.k, 0} : disk' = [disk EXCEPT ![s][af.name] = Append(@, v)]
             /\ active' = [active EXCEPT ![s][u].count = @ + 1]
    <3>1. af \in Entry /\ af.name \in Names /\ [af EXCEPT !.count = @ + 1] \in Entry
      <4>. HIDE DEF af
      <4>1. af \in Entry
        BY <2>1, <2>6, Zenon
      <4>. QED  BY <4>1 DEF Entry
    <3>2. Live(s, u)
      BY <1>0, <1>4, Taken, Zenon DEF FileChunk
    <3>3. disk[s][af.name] \in Seq(Int)
      BY <2>1, <2>6, <3>2 DEF FileInv, DownloadInv, Download
    <3>4. ASSUME NEW v \in {m.k, 0} PROVE Append(disk[s][af.name], v) \in Seq(Int)
      <4>. DEFINE d == disk[s][af.name]
      <4>0. d \in Seq(Int)
        BY <3>3, Zenon
      <4>. HIDE DEF d, m
      <4>1. v \in Int
        BY <2>2
      <4>2. Append(d, v) \in Seq(Int)
        BY <4>0, <4>1
      <4>. QED  BY <4>2, Zenon DEF d
    <3>. HIDE DEF m, u
    <3>5. active' \in [Subs -> [Transfers -> Entry \cup {Absent}]]
      BY <2>1, <2>6, <3>1, Zenon DEF TransferTypes, u
    <3>6. disk' \in [Subs -> [Names -> Seq(Int) \cup {Absent}]]
      <4>1. CASE disk' = disk
        BY <4>1, Zenon DEF TransferTypes
      <4>2. ASSUME NEW v \in {m.k, 0}, disk' = [disk EXCEPT ![s][af.name] = Append(@, v)]
            PROVE  disk' \in [Subs -> [Names -> Seq(Int) \cup {Absent}]]
        <5>1. Append(disk[s][af.name], v) \in Seq(Int)
          BY <3>4, Zenon
        <5>. HIDE DEF af
        <5>. QED  BY <3>1, <4>2, <5>1 DEF TransferTypes
      <4>. QED  BY <2>6, <4>1, <4>2, Zenon
    <3>. QED  BY <2>1, <2>3, <2>4, <3>5, <3>6 DEF TransferTypes
  <2>. QED  BY <2>3, <2>5, <2>6
<1>5. CASE FileEnd(s)
  <2>. DEFINE u == m.xfer
              af == active[s][u]
              good == disk[s][af.name] = [k \in 1..af.size |-> k]
  <2>1. u \in Transfers /\ Head(feed[s]) = m /\ feed' \in [Subs -> Seq(Payload)]
    BY <1>2, <1>5 DEF FileEnd
  <2>2. /\ ended' = [ended EXCEPT ![s] = @ \cup {u}]
        /\ UNCHANGED active \/ active' = [active EXCEPT ![s][u] = Absent]
        /\ \/ UNCHANGED verdict
           \/ verdict' = [verdict EXCEPT ![s][u] = IF good THEN "ok" ELSE "bad"]
        /\ UNCHANGED harmed \/ harmed' = [harmed EXCEPT ![s] = @ \cup {u}]
        /\ UNCHANGED disk
    BY <1>5, <2>1, Zenon DEF FileEnd, FileError
  <2>. HIDE DEF u, good
  <2>3. ended' \in [Subs -> SUBSET Transfers] /\ harmed' \in [Subs -> SUBSET Transfers]
    <3>1. /\ harmed \in [Subs -> SUBSET Transfers] /\ harmed[s] \cup {u} \in SUBSET Transfers
          /\ ended \in [Subs -> SUBSET Transfers] /\ ended[s] \cup {u} \in SUBSET Transfers
      BY <2>1, Zenon DEF TransferTypes
    <3>2. [harmed EXCEPT ![s] = @ \cup {u}] \in [Subs -> SUBSET Transfers]
      BY <3>1, Updated, Zenon
    <3>3. [ended EXCEPT ![s] = @ \cup {u}] \in [Subs -> SUBSET Transfers]
      BY <3>1, Updated, Zenon
    <3>. QED  BY <2>2, <3>1, <3>2, <3>3, Zenon
  <2>4. /\ active' \in [Subs -> [Transfers -> Entry \cup {Absent}]]
        /\ verdict' \in [Subs -> [Transfers -> {"none", "ok", "bad"}]]
    <3>1. /\ active \in [Subs -> [Transfers -> Entry \cup {Absent}]]
          /\ verdict \in [Subs -> [Transfers -> {"none", "ok", "bad"}]]
      BY Zenon DEF TransferTypes
    <3>2. active' \in [Subs -> [Transfers -> Entry \cup {Absent}]]
      <4>1. Absent \in Entry \cup {Absent}
        BY Zenon
      <4>2. [active EXCEPT ![s][u] = Absent] \in [Subs -> [Transfers -> Entry \cup {Absent}]]
        BY <2>1, <3>1, <4>1, UpdatedTwice
      <4>. QED  BY <2>2, <3>1, <4>2, Zenon
    <3>3. PICK w \in {"none", "ok", "bad"} : w = IF good THEN "ok" ELSE "bad"
      BY Zenon
    <3>4. verdict' \in [Subs -> [Transfers -> {"none", "ok", "bad"}]]
      <4>1. [verdict EXCEPT ![s][u] = w] \in [Subs -> [Transfers -> {"none", "ok", "bad"}]]
        BY <2>1, <3>1, UpdatedTwice
      <4>. QED  BY <2>2, <3>1, <3>3, <4>1, Zenon
    <3>. QED  BY <3>2, <3>4, Zenon
  <2>. QED  BY <2>1, <2>2, <2>3, <2>4, Zenon DEF TransferTypes
<1>. QED  BY <1>1, <1>3, <1>4, <1>5, Zenon

\* The inductive invariant behind VerdictExact.
TransferInv == TransferTypes /\ (\A s \in Subs : FileInv(s)) /\ VerdictExact

\* A step of one subscriber leaves the others alone.
LEMMA OthersUndisturbed ==
  ASSUME TransferInv, NEW s \in Subs, NEW v \in Subs, v # s,
         FileStart(s) \/ FileChunk(s) \/ FileEnd(s) \/ Gap(s)
  PROVE  /\ FileInv(v)' /\ feed'[v] = feed[v] /\ active'[v] = active[v]
         /\ verdict'[v] = verdict[v] /\ ended'[v] = ended[v] /\ harmed'[v] = harmed[v]
<1>1. UNCHANGED <<spc, xfer, sent, file>>
  BY Zenon DEF FileStart, FileChunk, FileEnd, Gap, sendVars
<1>2. feed'[v] = feed[v]
  BY Zenon DEF FileStart, FileChunk, FileEnd, Gap, Take, TransferInv, TransferTypes
<1>3. active'[v] = active[v]
  BY DEF FileStart, FileChunk, FileEnd, Gap, WriteChunk, FileError, TransferInv, TransferTypes
<1>4. disk'[v] = disk[v]
  BY DEF FileStart, FileChunk, FileEnd, Gap, WriteChunk, FileError, TransferInv, TransferTypes
<1>5. harmed'[v] = harmed[v]
  BY Zenon DEF FileStart, FileChunk, FileEnd, Gap, WriteChunk, FileError, TransferInv, TransferTypes
<1>6. ended'[v] = ended[v] /\ verdict'[v] = verdict[v]
  BY Zenon DEF FileStart, FileChunk, FileEnd, Gap, WriteChunk, FileError, TransferInv, TransferTypes
<1>7. FileInv(v)
  BY Zenon DEF TransferInv
<1>8. \/ spc' = "idle"
      \/ spc # "idle" /\ spc' # "idle" /\ sent' = sent /\ file' = file
  BY <1>1
<1>9. FileInv(v)'
  BY <1>1, <1>2, <1>3, <1>4, <1>5, <1>6, <1>7, <1>8, Undisturbed DEF TransferInv
<1>. QED  BY <1>2, <1>3, <1>5, <1>6, <1>9, Zenon

\* A step of a subscriber keeps the invariant.
LEMMA SubscriberStep ==
  ASSUME TransferInv, NEW s \in Subs, FileStart(s) \/ FileChunk(s) \/ FileEnd(s) \/ Gap(s)
  PROVE  TransferInv'
<1>0. TransferTypes /\ FileInv(s)
      /\ \A t \in Transfers : verdict[s][t] = "ok" <=> t \in ended[s] /\ t \notin harmed[s]
  BY Zenon DEF TransferInv, VerdictExact
<1>1. TransferTypes'
  BY <1>0, TypesTaken
<1>2. /\ FileInv(s)'
      /\ \A t \in Transfers : verdict'[s][t] = "ok" <=> t \in ended'[s] /\ t \notin harmed'[s]
  <2>1. CASE FileStart(s)
    <3>. DEFINE m == Head(feed[s])
    <3>0. UNCHANGED <<spc, xfer, sent, file, verdict, ended>>
      BY <2>1, Zenon DEF FileStart, sendVars
    <3>1. CASE /\ active' = [active EXCEPT ![s][m.xfer] = NewEntry(m)]
               /\ disk' = [disk EXCEPT ![s][m.name] = <<>>] /\ UNCHANGED harmed
      <4>1. FileInv(s)'
        BY <1>0, <2>1, <3>1, StartTaken, Zenon
      <4>. QED  BY <1>0, <3>0, <3>1, <4>1, Zenon
    <3>2. CASE UNCHANGED <<active, disk>> /\ harmed' = [harmed EXCEPT ![s] = @ \cup {m.xfer}]
      <4>1. feed[s] \in Seq(Payload) /\ feed[s] # <<>> /\ feed'[s] = Tail(feed[s])
        BY <1>0, <2>1, Zenon DEF FileStart, Take, TransferTypes
      <4>2. /\ 1 \in 1..Len(feed[s]) /\ 1 + 1 = 2 /\ 1..1 = {1}
            /\ feed'[s] = SubSeq(feed[s], 2, Len(feed[s])) /\ m = feed[s][1]
        BY <4>1, TailShifts
      <4>3. harmed'[s] = harmed[s] \cup {feed[s][i].xfer : i \in 1..1}
        <5>1. {feed[s][i].xfer : i \in {1}} = {m.xfer}
          BY <4>2, Zenon
        <5>2. harmed'[s] = harmed[s] \cup {m.xfer}
          BY <1>0, <3>2, Zenon DEF TransferTypes
        <5>. QED  BY <4>2, <5>1, <5>2, Zenon
      <4>. QED  BY <1>0, <3>0, <3>2, <4>2, <4>3, Missed, Zenon
    <3>. QED  BY <2>1, <3>1, <3>2, Zenon DEF FileStart, FileError
  <2>2. CASE FileChunk(s)
    <3>1. FileInv(s)' /\ UNCHANGED <<verdict, ended>>
      BY <1>0, <2>2, ChunkTaken, Zenon DEF FileChunk
    <3>2. Take(s, "chunk") /\ UNCHANGED <<spc, xfer, sent, file>>
      BY <2>2 DEF FileChunk, sendVars
    <3>3. PICK u \in Transfers : u = feed[s][1].xfer /\ u = Head(feed[s]).xfer /\ Live(s, u)
      BY <1>0, <3>2, Taken, Zenon
    <3>4. u \notin ended[s]
      BY <1>0, <3>3 DEF FileInv, HistoryInv
    <3>5. \A t \in Transfers : t # u => (t \in harmed'[s] <=> t \in harmed[s])
      <4>1. \E h \in {harmed[s], harmed[s] \cup {u}} : harmed' = [harmed EXCEPT ![s] = h]
        BY <2>2, <3>3, Zenon DEF FileChunk, WriteChunk, FileError
      <4>2. harmed'[s] \in {harmed[s], harmed[s] \cup {u}}
        BY <1>0, <4>1, Zenon DEF TransferTypes
      <4>. QED  BY <4>2, Zenon
    <3>. QED  BY <1>0, <3>1, <3>4, <3>5
  <2>3. CASE FileEnd(s)
    BY <1>0, <2>3, EndTaken
  <2>4. CASE Gap(s)
    <3>1. UNCHANGED <<spc, xfer, sent, file, active, disk, verdict, ended>>
      BY <2>4, Zenon DEF Gap, sendVars
    <3>2. PICK n \in 1..Len(feed[s]) :
             /\ feed'[s] = SubSeq(feed[s], n + 1, Len(feed[s]))
             /\ harmed'[s] = harmed[s] \cup {feed[s][i].xfer : i \in 1..n}
      BY <1>0, <2>4, Zenon DEF Gap, TransferTypes
    <3>. QED  BY <1>0, <3>1, <3>2, Missed, Zenon
  <2>. QED  BY <2>1, <2>2, <2>3, <2>4, Zenon
<1>3. ASSUME NEW v \in Subs
      PROVE  /\ FileInv(v)'
             /\ \A t \in Transfers : verdict'[v][t] = "ok" <=> t \in ended'[v] /\ t \notin harmed'[v]
  <2>1. CASE v = s
    BY <1>2, <2>1, Zenon
  <2>2. CASE v # s
    <3>1. /\ FileInv(v)' /\ verdict'[v] = verdict[v] /\ ended'[v] = ended[v]
          /\ harmed'[v] = harmed[v]
      BY <2>2, OthersUndisturbed, Zenon
    <3>. QED  BY <3>1 DEF TransferInv, VerdictExact
  <2>. QED  BY <2>1, <2>2
<1>. QED  BY <1>1, <1>3, Zenon DEF TransferInv, VerdictExact

\* Every step keeps the invariant.
LEMMA TransferStep == TransferInv /\ [TransferNext]_transferVars => TransferInv'
<1>. SUFFICES ASSUME TransferInv, [TransferNext]_transferVars PROVE TransferInv'
  BY Zenon
<1>0. TransferTypes /\ \A s \in Subs : FileInv(s)
  BY DEF TransferInv
<1>1. CASE OpenAckChan \/ TakeAck \/ AckTimeout \/ EditSource \/ Abort
           \/ (\E t \in Transfers : HandleChunkAck(t) \/ LoseAck(t)) \/ UNCHANGED transferVars
  <2>1. /\ UNCHANGED <<feed, active, disk, verdict, harmed, ended, xfer>>
        /\ \/ spc' = "idle"
           \/ spc # "idle" /\ spc' # "idle" /\ sent' = sent /\ file' = file
        /\ TransferTypes'
    BY <1>0, <1>1, SenderMoves
  <2>2. ASSUME NEW s \in Subs PROVE FileInv(s)'
    BY <1>0, <2>1, Undisturbed, Zenon
  <2>. QED  BY <2>1, <2>2, Zenon DEF TransferInv, VerdictExact
<1>2. ASSUME NEW f \in AnyFile, SendFile(f) PROVE TransferInv'
  <2>1. UNCHANGED <<active, disk, verdict, harmed, ended, sent>>
    BY <1>2, Zenon DEF SendFile, recvVars
  <2>2. /\ xfer' = xfer + 1 /\ xfer' \in 0..MaxTransfers /\ xfer' >= 1
        /\ spc' \in {"idle", "open"} /\ (spc' # "idle" => file' \in AnyFile) /\ sent = 0
    BY <1>0, <1>2, FileAssumption DEF SendFile, TransferTypes
  <2>3. Start(xfer + 1, f) \in Payload
    BY <1>0, FileAssumption DEF Start, Payload, AnyFile, TransferTypes
  <2>4. feed' \in [Subs -> Seq(Payload)]
    BY <1>0, <1>2, <2>2, <2>3, TypesPublished, Zenon DEF SendFile
  <2>5. TransferTypes'
    BY <1>0, <2>1, <2>2, <2>4, Zenon DEF TransferTypes
  <2>6. ASSUME NEW s \in Subs PROVE FileInv(s)'
    BY <1>0, <1>2, StartPublished, Zenon
  <2>. QED  BY <2>1, <2>5, <2>6 DEF TransferInv, VerdictExact
<1>3. CASE SendChunk \/ SendChunkFails \/ SendEnd
  <2>1. /\ UNCHANGED <<active, disk, verdict, harmed, ended, xfer>> /\ spc # "idle"
        /\ sent \in Nat /\ file.size \in Nat
    BY <1>0, <1>3, FileAssumption, Zenon
       DEF SendChunk, SendChunkFails, SendEnd, Return, recvVars, TransferTypes, AnyFile
  <2>2. /\ spc' \in {"idle", "open", "chunk", "wait"}
        /\ \/ spc' = "idle" /\ sent' = 0
           \/ spc' \in {"chunk", "wait"} /\ SendChunk /\ sent' = sent + 1 /\ file' = file
    BY <1>3, Zenon DEF SendChunk, SendChunkFails, SendEnd, Return
  <2>3. PICK m \in Payload :
           /\ PublishPayload(m) /\ m.xfer = xfer /\ m.tag # "start"
           /\ Place(m, file.size) = sent + 1
           /\ SendChunk => m.tag # "end"
    <3>1. CASE SendChunk \/ SendChunkFails
      BY <1>0, <2>1, <3>1, NextPayload DEF SendChunk, SendChunkFails
    <3>2. CASE SendEnd
      <4>1. ~SendChunk
        BY <2>1, <3>2 DEF SendChunk, SendEnd
      <4>. QED  BY <1>0, <2>1, <3>2, <4>1, NextPayload DEF SendEnd
    <3>. QED  BY <1>3, <3>1, <3>2
  <2>4. feed' \in [Subs -> Seq(Payload)] /\ \A s \in Subs : feed'[s] = Append(feed[s], m)
    BY <1>0, <2>3, TypesPublished
  <2>5. TransferTypes'
    BY <1>0, <2>1, <2>2, <2>4 DEF TransferTypes
  <2>6. ASSUME NEW s \in Subs PROVE FileInv(s)'
    BY <1>0, <2>1, <2>2, <2>3, <2>4, RestPublished
  <2>. QED  BY <2>1, <2>5, <2>6, Zenon DEF TransferInv, VerdictExact
<1>4. ASSUME NEW s \in Subs, FileStart(s) \/ FileChunk(s) \/ FileEnd(s) \/ Gap(s)
      PROVE  TransferInv'
  BY <1>4, SubscriberStep, Zenon
<1>5. ASSUME NEW t \in Transfers, NEW f \in Files(t) PROVE f \in AnyFile
  BY AllFiles, Zenon
<1>. QED  BY <1>1, <1>2, <1>3, <1>4, <1>5, Zenon DEF TransferNext, Sender

\* Nothing is published in the beginning.
LEMMA TransferStarts == TransferInit => TransferInv
<1>. SUFFICES ASSUME TransferInit PROVE TransferInv
  OBVIOUS
<1>1. TransferTypes
  BY FileAssumption DEF TransferInit, TransferTypes
<1>2. ASSUME NEW s \in Subs PROVE FileInv(s)
  <2>1. feed[s] = <<>> /\ Len(feed[s]) = 0 /\ spc = "idle" /\ ended[s] = {} /\ xfer = 0
        /\ \A t \in Transfers : active[s][t] = Absent /\ t \in Nat /\ t > 0
    BY DEF TransferInit, Transfers
  <2>2. QueueInv(s)
    BY <2>1 DEF QueueInv, Ordered
  <2>3. SizeInv(s)
    BY <2>1 DEF SizeInv, Announced, Ahead
  <2>4. HistoryInv(s)
    BY <2>1 DEF HistoryInv, Live, Holds, TransferInit
  <2>5. DownloadInv(s)
    BY <2>1, Zenon DEF DownloadInv
  <2>. QED  BY <2>2, <2>3, <2>4, <2>5, Zenon DEF FileInv
<1>3. VerdictExact
  BY Zenon DEF TransferInit, VerdictExact
<1>. QED  BY <1>1, <1>2, <1>3 DEF TransferInv

\* The subscriber's verdict on a download is right.
THEOREM VerdictIsExact == TransferSpec => []VerdictExact
<1>. QED  BY TransferStarts, TransferStep, PTL DEF TransferSpec, TransferInv
===============================================================================
