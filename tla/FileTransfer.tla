---------------------------- MODULE FileTransfer -----------------------------
(***************************************************************************)
(* Sending files over a session: PublisherEngine.SendFile with its window  *)
(* of unacknowledged chunks, the sync handler that takes the ChunkAck      *)
(* frames, and the part of SubscribeStream that writes, acknowledges and   *)
(* verifies downloads (pkg/feed/publisher.go, pkg/feed/subscriber.go).     *)
(*                                                                         *)
(* Feed models how payloads travel.  What a subscriber takes from it, in   *)
(* order and each payload once, is what was published except for gaps; so  *)
(* here it is a queue per subscriber that may lose payloads.  A transfer   *)
(* is known by its number, which stands for the transfer ID.               *)
(***************************************************************************)
EXTENDS Integers, Sequences, FiniteSets

CONSTANTS
  Subs,          \* subscribers
  Names,         \* file names
  Window,        \* chunks without an ack before the sender pauses, and chunks
                 \* per ack of a subscriber (16)
  AckCap,        \* capacity of ackChan (10)
  MaxTransfers,  \* bound: files sent
  Sizes,         \* bound: transfer -> sizes of its file, in chunks
  MaxFaults,     \* bound: gaps in what subscribers receive, errors of their file
                 \* systems, and changes of the source file
  Absent         \* no channel, no file

ASSUME FileAssumption ==
  /\ Window \in Nat \ {0} /\ AckCap \in Nat
  /\ MaxTransfers \in Nat /\ MaxFaults \in Nat
  /\ Sizes \in [1..MaxTransfers -> SUBSET Nat]
  /\ Absent \notin Nat \cup [name : Names, size : Nat, count : Nat]

Transfers == 1..MaxTransfers

VARIABLES
  spc,      \* SendFile: idle, open, chunk, wait
  xfer,     \* the current transfer
  file,     \* its name and its size in chunks when it was hashed
  sent,     \* chunks published
  unacked,  \* unackedChunks
  ackChan,  \* acks in p.chunkAckChan
  edited,   \* the source file was changed after it was hashed
  feed,     \* subscriber -> published payloads it has not come to yet
  active,   \* subscriber -> transfer -> its entry of activeFiles: name,
            \* size, and chunkCount
  disk,     \* subscriber -> name -> the chunks in ./downloads/name
  verdict,  \* subscriber -> transfer -> what FileEnd reported
  acks,     \* transfer -> ChunkAck frames on their way to the publisher
  faults,   \* number of gaps, file system errors and changes so far
  harmed,   \* history: subscriber -> transfers of which it missed a payload, got
            \* a chunk that is not what was hashed, or whose file it could not
            \* create, write or read again
  ended,    \* history: subscriber -> transfers whose FileEnd it has come to
  foreign,  \* history: acks of earlier transfers that entered ackChan
  timedOut  \* history: the pause of 200 ms ran out in this transfer

sendVars == <<spc, xfer, file, sent, unacked, foreign, timedOut, edited>>
recvVars == <<active, disk, verdict, faults, harmed, ended>>
transferVars == <<sendVars, ackChan, feed, recvVars, acks>>

Start(t, f) == [tag |-> "start", xfer |-> t, name |-> f.name, size |-> f.size]
Chunk(t, k) == [tag |-> "chunk", xfer |-> t, k |-> k]
End(t) == [tag |-> "end", xfer |-> t]

\* PublishPayload, also if it returns an error because the frame could not be
\* sent: the payload is in the replay buffer by then.
PublishPayload(m) == feed' = [s \in Subs |-> Append(feed[s], m)]

TransferInit ==
  /\ spc = "idle" /\ xfer = 0 /\ file = Absent /\ sent = 0 /\ unacked = 0
  /\ ackChan = Absent /\ edited = FALSE /\ feed = [s \in Subs |-> <<>>]
  /\ active = [s \in Subs |-> [t \in Transfers |-> Absent]]
  /\ disk = [s \in Subs |-> [n \in Names |-> Absent]]
  /\ verdict = [s \in Subs |-> [t \in Transfers |-> "none"]]
  /\ acks = [t \in Transfers |-> 0] /\ faults = 0
  /\ harmed = [s \in Subs |-> {}] /\ ended = [s \in Subs |-> {}] /\ foreign = 0 /\ timedOut = FALSE

-----------------------------------------------------------------------------
(* SendFile                                                                *)

\* SendFile returns: its variables are gone, and the deferred function takes the
\* channel away.
Return ==
  /\ spc' = "idle" /\ ackChan' = Absent
  /\ file' = Absent /\ sent' = 0 /\ unacked' = 0 /\ edited' = FALSE
  /\ foreign' = 0 /\ timedOut' = FALSE
  /\ UNCHANGED xfer

\* The file is hashed and FileStart published; an error of PublishPayload is
\* returned, here and below.
SendFile(f) ==
  /\ spc = "idle" /\ xfer < MaxTransfers
  /\ xfer' = xfer + 1
  /\ PublishPayload(Start(xfer', f))
  /\ \/ spc' = "open" /\ file' = f
     \/ UNCHANGED <<spc, file>>
  /\ UNCHANGED <<sent, unacked, foreign, timedOut, edited, ackChan, recvVars, acks>>

\* ackChan is made, and offered to the sync handler.
OpenAckChan ==
  /\ spc = "open"
  /\ ackChan' = 0 /\ spc' = "chunk"
  /\ UNCHANGED <<xfer, file, sent, unacked, foreign, timedOut, edited, feed, recvVars,
                 acks>>

\* External: someone changes the source file while it is read a second time.
EditSource ==
  /\ spc \in {"open", "chunk", "wait"} /\ sent < file.size /\ ~edited
  /\ faults < MaxFaults /\ faults' = faults + 1
  /\ edited' = TRUE
  /\ UNCHANGED <<spc, xfer, file, sent, unacked, foreign, timedOut, ackChan, feed,
                 active, disk, verdict, harmed, ended, acks>>

\* Faulty variant of SendChunk: pauses one chunk too late.
SendChunkLate ==
  /\ spc = "chunk" /\ sent < file.size
  /\ PublishPayload(Chunk(xfer, IF edited THEN -(sent + 1) ELSE sent + 1))
  /\ sent' = sent + 1 /\ unacked' = unacked + 1
  /\ spc' = IF unacked' > Window THEN "wait" ELSE "chunk"
  /\ UNCHANGED <<xfer, file, foreign, timedOut, edited, ackChan, recvVars, acks>>

\* A chunk of a changed file has a negative number: it is not what was hashed.
SendChunk ==
  /\ spc = "chunk" /\ sent < file.size
  /\ PublishPayload(Chunk(xfer, IF edited THEN -(sent + 1) ELSE sent + 1))
  /\ sent' = sent + 1 /\ unacked' = unacked + 1
  /\ spc' = IF unacked' >= Window THEN "wait" ELSE "chunk"
  /\ UNCHANGED <<xfer, file, foreign, timedOut, edited, ackChan, recvVars, acks>>

TakeAck ==
  /\ spc = "wait" /\ ackChan > 0
  /\ ackChan' = ackChan - 1 /\ unacked' = unacked - 1
  /\ spc' = "chunk"
  /\ UNCHANGED <<xfer, file, sent, foreign, timedOut, edited, feed, recvVars, acks>>

\* Faulty variant of AckTimeout: the pause only ends with an ack.
AckTimeoutNever == FALSE /\ UNCHANGED transferVars

AckTimeout ==
  /\ spc = "wait"
  /\ unacked' = 0 /\ timedOut' = TRUE
  /\ spc' = "chunk"
  /\ UNCHANGED <<xfer, file, sent, foreign, edited, ackChan, feed, recvVars, acks>>

\* The end of the file was read: FileEnd is published, and SendFile returns with
\* or without an error.
SendEnd ==
  /\ spc = "chunk" /\ sent = file.size
  /\ PublishPayload(End(xfer))
  /\ Return
  /\ UNCHANGED <<recvVars, acks>>

\* The source cannot be read, the cipher is gone, or ctx is done in the pause ...
Abort ==
  /\ spc \in {"chunk", "wait"}
  /\ Return
  /\ UNCHANGED <<feed, recvVars, acks>>

\* ... or a chunk's frame cannot be sent.
SendChunkFails ==
  /\ spc = "chunk" /\ sent < file.size
  /\ PublishPayload(Chunk(xfer, IF edited THEN -(sent + 1) ELSE sent + 1))
  /\ Return
  /\ UNCHANGED <<recvVars, acks>>

\* handleSyncRequests takes a ChunkAck frame: whatever its transfer, it goes into
\* ackChan if there is one with room.
HandleChunkAck(t) ==
  /\ acks[t] > 0
  /\ acks' = [acks EXCEPT ![t] = @ - 1]
  /\ IF ackChan # Absent /\ ackChan < AckCap
     THEN ackChan' = ackChan + 1 /\ foreign' = IF t = xfer THEN foreign ELSE foreign + 1
     ELSE UNCHANGED <<ackChan, foreign>>
  /\ UNCHANGED <<spc, xfer, file, sent, unacked, timedOut, edited, feed, recvVars>>
-----------------------------------------------------------------------------
(* SubscribeStream                                                         *)

\* The next payload of subscriber s has this tag, and is taken.
Take(s, tag) ==
  /\ feed[s] # <<>> /\ Head(feed[s]).tag = tag
  /\ feed' = [feed EXCEPT ![s] = Tail(@)]

sendAckFrame(t) == acks' = [acks EXCEPT ![t] = @ + 1]

NewEntry(m) == [name |-> m.name, size |-> m.size, count |-> 0]

\* External: an operation of s on the file of transfer t fails.
FileError(s, t) ==
  /\ faults < MaxFaults /\ faults' = faults + 1
  /\ harmed' = [harmed EXCEPT ![s] = @ \cup {t}]

\* Faulty variant of FileStart: opens an existing file for appending.
FileStartAppend(s) ==
  /\ Take(s, "start")
  /\ LET m == Head(feed[s]) IN
       \/ /\ active' = [active EXCEPT ![s][m.xfer] = NewEntry(m)]
          /\ disk' = [disk EXCEPT ![s][m.name] = IF @ = Absent THEN <<>> ELSE @]
          /\ UNCHANGED <<faults, harmed>>
       \/ FileError(s, m.xfer) /\ UNCHANGED <<active, disk>>
  /\ UNCHANGED <<sendVars, ackChan, verdict, acks, ended>>

\* os.Create empties what an earlier transfer left under this name; when it fails
\* the transfer gets no entry.
FileStart(s) ==
  /\ Take(s, "start")
  /\ LET m == Head(feed[s]) IN
       \/ /\ active' = [active EXCEPT ![s][m.xfer] = NewEntry(m)]
          /\ disk' = [disk EXCEPT ![s][m.name] = <<>>]
          /\ UNCHANGED <<faults, harmed>>
       \/ FileError(s, m.xfer) /\ UNCHANGED <<active, disk>>
  /\ UNCHANGED <<sendVars, ackChan, verdict, acks, ended>>

\* Write, which may write nothing or a part of the chunk (a chunk of number 0):
\* its error is ignored.
WriteChunk(s, m, name) ==
  \/ /\ disk' = [disk EXCEPT ![s][name] = Append(@, m.k)]
     /\ harmed' = [harmed EXCEPT ![s] = IF m.k < 0 THEN @ \cup {m.xfer} ELSE @]
     /\ UNCHANGED faults
  \/ /\ FileError(s, m.xfer)
     /\ disk' = disk \/ disk' = [disk EXCEPT ![s][name] = Append(@, 0)]

\* A chunk is written and every Window-th one acknowledged, unless the transfer
\* has no entry: FileStart was missed or failed.
FileChunk(s) ==
  /\ Take(s, "chunk")
  /\ LET m == Head(feed[s])
         af == active[s][m.xfer]
     IN  IF af = Absent
         THEN /\ harmed' = [harmed EXCEPT ![s] = IF m.k < 0 THEN @ \cup {m.xfer} ELSE @]
              /\ UNCHANGED <<active, disk, acks, faults>>
         ELSE /\ WriteChunk(s, m, af.name)
              /\ active' = [active EXCEPT ![s][m.xfer].count = @ + 1]
              /\ IF (af.count + 1) % Window = 0 THEN sendAckFrame(m.xfer)
                                                ELSE UNCHANGED acks
  /\ UNCHANGED <<sendVars, ackChan, verdict, ended>>

\* The file is closed, acknowledged, and the hash of what is on disk compared;
\* when the file cannot be opened again nothing is reported.
FileEnd(s) ==
  /\ Take(s, "end")
  /\ LET t == Head(feed[s]).xfer
         af == active[s][t]
     IN  /\ ended' = [ended EXCEPT ![s] = @ \cup {t}]
         /\ IF af = Absent THEN UNCHANGED <<active, verdict, acks, faults, harmed>>
            ELSE /\ sendAckFrame(t)
                 /\ active' = [active EXCEPT ![s][t] = Absent]
                 /\ \/ /\ verdict' = [verdict EXCEPT ![s][t] =
                            IF disk[s][af.name] = [k \in 1..af.size |-> k] THEN "ok" ELSE "bad"]
                       /\ UNCHANGED <<faults, harmed>>
                    \/ FileError(s, t) /\ UNCHANGED verdict
  /\ UNCHANGED <<sendVars, ackChan, disk>>

\* External: payloads that never reach s, because it joins later or because they
\* were evicted from the replay buffer while it was away (see Feed).
Gap(s) ==
  /\ faults < MaxFaults
  /\ \E n \in 1..Len(feed[s]) :
       /\ feed' = [feed EXCEPT ![s] = SubSeq(@, n + 1, Len(@))]
       /\ harmed' = [harmed EXCEPT ![s] = @ \cup {feed[s][i].xfer : i \in 1..n}]
  /\ faults' = faults + 1
  /\ UNCHANGED <<sendVars, ackChan, active, disk, verdict, acks, ended>>

\* External: a ChunkAck frame is lost with a connection.
LoseAck(t) ==
  /\ acks[t] > 0
  /\ acks' = [acks EXCEPT ![t] = @ - 1]
  /\ UNCHANGED <<sendVars, ackChan, feed, recvVars>>

-----------------------------------------------------------------------------

Files(t) == [name : Names, size : Sizes[t]]

Sender == OpenAckChan \/ SendChunk \/ TakeAck \/ AckTimeout \/ SendEnd

TransferNext ==
  \/ \E t \in Transfers : t = xfer + 1 /\ \E f \in Files(t) : SendFile(f)
  \/ Sender \/ Abort \/ SendChunkFails \/ EditSource
  \/ \E t \in Transfers : HandleChunkAck(t) \/ LoseAck(t)
  \/ \E s \in Subs : FileStart(s) \/ FileChunk(s) \/ FileEnd(s) \/ Gap(s)

TransferSpec == TransferInit /\ [][TransferNext]_transferVars

\* SendFile's goroutine runs and its timer fires.  Nothing is assumed of the
\* subscribers or of the sync handler, which the --file mode does not start.
TransferFairSpec == TransferSpec /\ WF_transferVars(Sender)

-----------------------------------------------------------------------------
(* Properties                                                              *)

\* A download is reported as verified exactly if its end has arrived, nothing of
\* it was missed, the source did not change under the sender's hands and every
\* file operation succeeded: leftovers of an interrupted transfer of the same name,
\* gaps, chunks without a start, errors of SendFile and ignored errors of Write
\* neither spoil a good download nor pass a damaged one.
VerdictExact ==
  \A s \in Subs, t \in Transfers :
    verdict[s][t] = "ok" <=> t \in ended[s] /\ t \notin harmed[s]

\* Chunks of the current transfer that s has written.
Received(s) == IF active[s][xfer] = Absent THEN 0 ELSE active[s][xfer].count

\* Backpressure: unless a pause ran out, the sender is at most a window ahead of
\* what the fastest subscriber's progress lets it send.  Every subscriber sends an
\* ack for each Window chunks, and every ack lets out one chunk, whoever sent it:
\* up to Window subscribers keep the sender within a window of the fastest, and
\* more of them let it run ahead of every one.
\* A late ack of an earlier transfer, which the sync handler does not tell from
\* one of this transfer, gives away one chunk more.
Backpressure ==
  spc \in {"chunk", "wait"} /\ ~timedOut /\ IsFiniteSet(Subs) /\ Subs # {} =>
    \E s \in Subs :
      sent <= Window + foreign + Cardinality(Subs) * (Received(s) \div Window)

\* SendFile returns, also if no ack ever comes: no subscriber, a stalled one, lost
\* acks, a full channel or no sync handler hold it up for more than its pauses.
SendFileReturns == spc # "idle" ~> spc = "idle"
=============================================================================
