----------------------------- MODULE Subscriber ------------------------------
(***************************************************************************)
(* The subscriber engine (pkg/feed/subscriber.go).  One goroutine runs     *)
(* SubscribeStream and, when the connection fails, reconnectLoop; Close is *)
(* called from other goroutines (the context watcher, the signal wiper) at *)
(* any time and is one critical section of s.mu.                           *)
(*                                                                         *)
(* The k-th key of the ratchet is the number k; a PAKE exchange is named   *)
(* by the number of the PAKE peer object that started it.                  *)
(***************************************************************************)
EXTENDS Integers, Sequences

CONSTANTS
  BufferSize,   \* capacity of s.ringBuffer
  Retries,      \* attempts of one reconnectLoop (10 in the code)
  MaxDrops,     \* bound: connections the network drops
  MaxInbox,     \* bound: frames in flight to the subscriber
  MaxSeq,       \* bound: numbers of the frames that arrive
  MaxKey,       \* bound: keys of the frames that arrive
  Nil           \* nil

ASSUME SubscriberAssumption ==
  /\ BufferSize \in Nat \ {0} /\ Nil \notin Nat
  /\ {Retries, MaxDrops, MaxInbox, MaxSeq, MaxKey} \subseteq Nat

VARIABLES
  spc,          \* the step the stream goroutine is at
  frame,        \* the frame it has decoded
  retries,      \* attempts of the current reconnectLoop
  sConn,        \* s.conn is not nil
  link,         \* the latest socket: "dialed", "joined" (registered) or "down"
  inbox,        \* the frames the relay has queued on that socket
  toPub,        \* the frames the relay forwards to the publisher
  sKey,         \* the key of s.cipher, Nil when nil
  pake,         \* s.pakePeer: the number of its exchange
  pakes,        \* the number of PAKE peers created
  pass,         \* s.passphrase is not nil
  lastSeqNum,   \* s.lastSeqNum
  ring,         \* the contents of s.ringBuffer
  delivered,    \* the messages given to the output, in order
  sClosed,      \* s.closed
  cancelled,    \* the context is cancelled
  drops         \* connections dropped so far

streamVars == <<frame, retries>>
linkVars   == <<sConn, link, inbox, toPub>>
subKeyVars == <<sKey, pake, pakes, pass>>
dataVars   == <<lastSeqNum, ring, delivered>>
endVars    == <<sClosed, cancelled, drops>>
subVars == <<spc, streamVars, linkVars, subKeyVars, dataVars, endVars>>

Ring == INSTANCE ReplayLog WITH Capacity <- BufferSize, replay <- ring

\* The state after the initial Connect and CompleteHandshake.
SubInit ==
  /\ spc = "top" /\ frame = Nil /\ retries = 0
  /\ sConn = TRUE /\ link = "joined" /\ inbox = <<>> /\ toPub = <<>>
  /\ sKey = 0 /\ pake = 0 /\ pakes = 0 /\ pass = TRUE
  /\ lastSeqNum = 0 /\ Ring!LogInit /\ delivered = <<>>
  /\ sClosed = FALSE /\ cancelled = FALSE /\ drops = 0

SubGoTo(state) == spc' = state

-----------------------------------------------------------------------------
(* SubscribeStream                                                         *)

\* The head of the loop: ctx.Done, then getConn and isClosed.
LoopTop ==
  /\ spc = "top"
  /\ SubGoTo(IF cancelled THEN "finished"
             ELSE IF sConn THEN "read"
             ELSE IF sClosed THEN "finished" ELSE "backoff")
  /\ retries' = 0
  /\ UNCHANGED <<frame, linkVars, subKeyVars, dataVars, endVars>>

\* Decode returns a frame; a data or rekey frame is dropped without a cipher.
ReadFrame ==
  /\ spc = "read" /\ link # "down" /\ inbox # <<>>
  /\ frame' = Head(inbox) /\ inbox' = Tail(inbox)
  /\ SubGoTo(IF frame'.kind = "close" THEN "finished"
             ELSE IF frame'.kind \in {"data", "rekey"} /\ sKey # Nil THEN "open"
             ELSE "top")
  /\ UNCHANGED <<retries, sConn, link, toPub, subKeyVars, dataVars, endVars>>

ReadError ==
  /\ spc = "read" /\ link = "down"
  /\ SubGoTo(IF cancelled \/ sClosed THEN "finished" ELSE "backoff")
  /\ UNCHANGED <<streamVars, linkVars, subKeyVars, dataVars, endVars>>

\* Decrypt: a wrong key, or a cipher closed meanwhile, ends the stream.
OpenFrame ==
  /\ spc = "open"
  /\ SubGoTo(IF frame.key # sKey THEN "finished"
             ELSE IF frame.kind = "data" THEN "dedup" ELSE "rekey_key")
  /\ UNCHANGED <<streamVars, linkVars, subKeyVars, dataVars, endVars>>

GetRekeyKey ==
  /\ spc = "rekey_key"
  /\ SubGoTo(IF sKey = Nil THEN "top" ELSE "rekey_apply")
  /\ UNCHANGED <<streamVars, linkVars, subKeyVars, dataVars, endVars>>

\* s.cipher.UpdateKey dereferences s.cipher, which Close may have set to nil.
ApplyRekey ==
  /\ spc = "rekey_apply"
  /\ IF sKey = Nil THEN SubGoTo("panicked") /\ UNCHANGED sKey
                   ELSE SubGoTo("top") /\ sKey' = sKey + 1
  /\ UNCHANGED <<streamVars, linkVars, pake, pakes, pass, dataVars, endVars>>

\* Faulty variant of Deduplicate: lets a repeated number through.
DeduplicateLax ==
  /\ spc = "dedup"
  /\ IF frame.seq < lastSeqNum THEN SubGoTo("top") /\ UNCHANGED lastSeqNum
                               ELSE SubGoTo("store") /\ lastSeqNum' = frame.seq
  /\ UNCHANGED <<streamVars, linkVars, subKeyVars, ring, delivered, endVars>>

\* Sequence deduplication, under s.mu.
Deduplicate ==
  /\ spc = "dedup"
  /\ IF frame.seq <= lastSeqNum THEN SubGoTo("top") /\ UNCHANGED lastSeqNum
                                ELSE SubGoTo("store") /\ lastSeqNum' = frame.seq
  /\ UNCHANGED <<streamVars, linkVars, subKeyVars, ring, delivered, endVars>>

\* ringBuffer.Push, then the output.
StoreMessage ==
  /\ spc = "store"
  /\ LET m == [seq |-> frame.seq, body |-> frame.body]
     IN  Ring!Push(m) /\ delivered' = Append(delivered, m)
  /\ SubGoTo("top")
  /\ UNCHANGED <<streamVars, linkVars, subKeyVars, lastSeqNum, endVars>>

-----------------------------------------------------------------------------
(* reconnectLoop and Connect                                               *)

\* The attempts are used up, or the context was cancelled during the backoff.
GiveUp ==
  /\ spc = "backoff" /\ (cancelled \/ retries = Retries)
  /\ SubGoTo("finished")
  /\ UNCHANGED <<streamVars, linkVars, subKeyVars, dataVars, endVars>>

\* The backoff elapses; getPassphrase.
TryAgain ==
  /\ spc = "backoff" /\ retries < Retries
  /\ retries' = retries + 1
  /\ SubGoTo(IF pass THEN "new_pake" ELSE "finished")
  /\ UNCHANGED <<frame, linkVars, subKeyVars, dataVars, endVars>>

NewPake ==
  /\ spc = "new_pake"
  /\ pakes' = pakes + 1 /\ pake' = pakes + 1
  /\ SubGoTo("dial")
  /\ UNCHANGED <<streamVars, linkVars, sKey, pass, dataVars, endVars>>

DialFails ==
  /\ spc = "dial"
  /\ SubGoTo("backoff")
  /\ UNCHANGED <<streamVars, linkVars, subKeyVars, dataVars, endVars>>

\* The old socket is abandoned.
Dial ==
  /\ spc = "dial" /\ ~cancelled
  /\ link' = "dialed" /\ inbox' = <<>>
  /\ SubGoTo("set_conn")
  /\ UNCHANGED <<streamVars, sConn, toPub, subKeyVars, dataVars, endVars>>

\* s.conn = conn.  A PAKE peer that Close removed cannot be made again, since
\* Close wiped the passphrase as well: Connect closes the socket and fails.
SetConn ==
  /\ spc = "set_conn"
  /\ sConn' = TRUE
  /\ IF pake = Nil THEN link' = "down" /\ SubGoTo("backoff")
                   ELSE UNCHANGED link /\ SubGoTo("init_sub")
  /\ UNCHANGED <<streamVars, inbox, toPub, subKeyVars, dataVars, endVars>>

\* The InitSub frame: the relay registers the subscriber and forwards it.
SendInitSub ==
  /\ spc = "init_sub"
  /\ IF link = "down"
     THEN SubGoTo("backoff") /\ UNCHANGED <<link, toPub>>
     ELSE /\ link' = "joined"
          /\ toPub' = Append(toPub, [kind |-> "init", pake |-> pake])
          /\ SubGoTo("handshake")
  /\ UNCHANGED <<streamVars, sConn, inbox, subKeyVars, dataVars, endVars>>

-----------------------------------------------------------------------------
(* CompleteHandshake                                                       *)

\* The first frame that arrives is taken for the publisher's answer.
HandshakeFrame ==
  /\ spc = "handshake" /\ link # "down" /\ inbox # <<>>
  /\ frame' = Head(inbox) /\ inbox' = Tail(inbox)
  /\ SubGoTo(IF frame'.kind = "step2" THEN "pake_update" ELSE "drop")
  /\ UNCHANGED <<retries, sConn, link, toPub, subKeyVars, dataVars, endVars>>

\* The 5 second deadline passes, or the socket is closed or lost.
HandshakeFails ==
  /\ spc = "handshake"
  /\ SubGoTo("drop")
  /\ UNCHANGED <<streamVars, linkVars, subKeyVars, dataVars, endVars>>

\* s.pakePeer is read without s.mu: Update and SessionKey dereference it,
\* VerifyPeerConfirm and ConfirmTag return an error when it is nil.
PakeUpdate ==
  /\ spc = "pake_update"
  /\ SubGoTo(IF pake = Nil THEN "panicked" ELSE "pake_confirm")
  /\ UNCHANGED <<streamVars, linkVars, subKeyVars, dataVars, endVars>>

\* VerifyPeerConfirm fails on an answer to another exchange.  The KeyConfirm
\* frame that is sent is ignored by handleSyncRequests.
PakeConfirm ==
  /\ spc = "pake_confirm"
  /\ SubGoTo(IF frame.to # pake \/ link = "down" THEN "drop" ELSE "pake_key")
  /\ UNCHANGED <<streamVars, linkVars, subKeyVars, dataVars, endVars>>

PakeSessionKey ==
  /\ spc = "pake_key"
  /\ SubGoTo(IF pake = Nil THEN "panicked" ELSE "set_cipher")
  /\ UNCHANGED <<streamVars, linkVars, subKeyVars, dataVars, endVars>>

\* s.cipher = ciph, whether or not Close has run meanwhile.
SetCipher ==
  /\ spc = "set_cipher"
  /\ sKey' = frame.key
  /\ SubGoTo("sync_req")
  /\ UNCHANGED <<streamVars, linkVars, pake, pakes, pass, dataVars, endVars>>

DropConn ==
  /\ spc = "drop"
  /\ sConn' = FALSE
  /\ link' = IF sConn THEN "down" ELSE link
  /\ SubGoTo("backoff")
  /\ UNCHANGED <<streamVars, inbox, toPub, subKeyVars, dataVars, endVars>>

\* Faulty variant of SendSyncRequest: asks for what follows the next message.
SendSyncRequestLate ==
  /\ spc = "sync_req"
  /\ toPub' = IF sConn /\ link = "joined"
              THEN Append(toPub, [kind |-> "sync", last |-> lastSeqNum + 1]) ELSE toPub
  /\ SubGoTo("top")
  /\ UNCHANGED <<streamVars, sConn, link, inbox, subKeyVars, dataVars, endVars>>

\* SendSyncRequest; its error is ignored.
SendSyncRequest ==
  /\ spc = "sync_req"
  /\ toPub' = IF sConn /\ link = "joined"
              THEN Append(toPub, [kind |-> "sync", last |-> lastSeqNum]) ELSE toPub
  /\ SubGoTo("top")
  /\ UNCHANGED <<streamVars, sConn, link, inbox, subKeyVars, dataVars, endVars>>

-----------------------------------------------------------------------------
(* Close, the context and the network                                      *)

\* Faulty variant of Close: forgets to close the socket.
CloseKeepingSocket ==
  /\ ~sClosed /\ sClosed' = TRUE
  /\ sConn' = FALSE
  /\ sKey' = Nil /\ pake' = Nil /\ pass' = FALSE
  /\ Ring!Wipe
  /\ UNCHANGED <<spc, streamVars, link, inbox, toPub, pakes, lastSeqNum, delivered,
                 cancelled, drops>>

\* Faulty variant of Close: forgets to wipe the buffer.
CloseKeepingBuffer ==
  /\ ~sClosed /\ sClosed' = TRUE
  /\ sConn' = FALSE
  /\ link' = IF sConn THEN "down" ELSE link
  /\ sKey' = Nil /\ pake' = Nil /\ pass' = FALSE
  /\ UNCHANGED <<spc, streamVars, inbox, toPub, pakes, dataVars, cancelled, drops>>

SubClose ==
  /\ ~sClosed /\ sClosed' = TRUE
  /\ sConn' = FALSE
  /\ link' = IF sConn THEN "down" ELSE link
  /\ sKey' = Nil /\ pake' = Nil /\ pass' = FALSE
  /\ Ring!Wipe
  /\ UNCHANGED <<spc, streamVars, inbox, toPub, pakes, lastSeqNum, delivered,
                 cancelled, drops>>

Cancel ==
  /\ ~cancelled /\ cancelled' = TRUE
  /\ UNCHANGED <<spc, streamVars, linkVars, subKeyVars, dataVars, sClosed, drops>>

\* The network or the relay drops the connection, and what is in flight.
LinkDown ==
  /\ link # "down" /\ drops < MaxDrops
  /\ link' = "down" /\ inbox' = <<>> /\ drops' = drops + 1
  /\ UNCHANGED <<spc, streamVars, sConn, toPub, subKeyVars, dataVars, sClosed, cancelled>>

\* What a publisher may have sent; a number stands for one body.
Sendable ==
  {[kind |-> d, seq |-> n, body |-> n, key |-> k] :
     d \in {"data", "rekey"}, n \in 1..MaxSeq, k \in 0..MaxKey}
  \cup [kind : {"step2"}, key : 0..MaxKey, to : {0, pakes}] \cup [kind : {"close"}]

\* The relay forwards some frame of the publisher: in this module, any frame.
Arrive(f) ==
  /\ link = "joined" /\ Len(inbox) < MaxInbox
  /\ inbox' = Append(inbox, f)
  /\ UNCHANGED <<spc, streamVars, sConn, link, toPub, subKeyVars, dataVars, endVars>>

-----------------------------------------------------------------------------

Stream == LoopTop \/ ReadFrame \/ ReadError \/ OpenFrame \/ GetRekeyKey \/ ApplyRekey
            \/ Deduplicate \/ StoreMessage
Reconnect == GiveUp \/ TryAgain \/ NewPake \/ DialFails \/ Dial \/ SetConn \/ SendInitSub
Handshake == HandshakeFrame \/ HandshakeFails \/ PakeUpdate \/ PakeConfirm
               \/ PakeSessionKey \/ SetCipher \/ DropConn \/ SendSyncRequest

\* What the stream goroutine does by itself.
SubRun == Stream \/ Reconnect \/ Handshake

SubNext == SubRun \/ SubClose \/ Cancel \/ LinkDown \/ \E f \in Sendable : Arrive(f)

SubSpec == SubInit /\ [][SubNext]_subVars

\* The goroutine keeps running (dials and handshakes time out), and whoever
\* cancels the context or closes the engine causes the other as well: the
\* signal handler calls both, the watcher in SubscribeStream closes.
SubFairSpec ==
  /\ SubSpec /\ WF_subVars(SubRun)
  /\ WF_subVars(SubClose /\ cancelled) /\ WF_subVars(Cancel /\ sClosed)

-----------------------------------------------------------------------------
(* Properties                                                              *)

\* Whatever the relay delivers, repeats or reorders, and over any number of
\* reconnections and rekeys, the output gets messages of strictly increasing
\* numbers, none of them twice (the deduplication of SubscribeStream, whose
\* lastSeqNum outlives the connection).
DeliveredOnce ==
  \A i, j \in 1..Len(delivered) : i < j => delivered[i].seq < delivered[j].seq

\* Close wipes the RAM buffer while the stream may be between the deduplication
\* and ringBuffer.Push: the message in hand is pushed into the wiped buffer, and it
\* is the only one.  The exception is a reconnection under way at Close that gives
\* the closed engine a key again (SetCipher): it goes on to receive and to buffer.
ResidueAfterClose == sClosed /\ sKey = Nil => Len(ring) <= 1

\* Once the context of an open engine is cancelled the stream ends: the watcher
\* closes the socket that the stream waits on, or the loop sees the context,
\* wherever in a read, a reconnection or a handshake the stream happens to be.
CancelEndsStream == cancelled /\ ~sClosed ~> spc \in {"finished", "panicked"}
=============================================================================
