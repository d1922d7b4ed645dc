------------------------------- MODULE Fanout --------------------------------
(***************************************************************************)
(* How one relay session hands the publisher's frames to its subscribers   *)
(* (pkg/relay/session.go, loopPublisher and loopSubscriber of server.go):  *)
(* the subscribers' send queues and their watermarks, the writeLoop        *)
(* goroutines, the removal of subscribers that cannot keep up, and the end *)
(* of the session.  RelayServer has the registry around the session.       *)
(*                                                                         *)
(* Frames are numbered as the publisher's handler decodes them.  Map       *)
(* iteration visits subscribers in any order, so what is left of a visit   *)
(* is a set; a visit that waits can be taken for one that comes later.     *)
(***************************************************************************)
EXTENDS Integers, Sequences, FiniteSets

CONSTANTS
  Subs,        \* subscriber connections
  QueueSize,   \* SubscriberQueueSize (200)
  High, Low,   \* HighWatermark (160), LowWatermark (80)
  MaxFrames,   \* bound: frames of the publisher
  None         \* no subscriber

ASSUME FanoutAssumption ==
  /\ Low \in Nat /\ High \in Nat /\ QueueSize \in Nat /\ MaxFrames \in Nat
  /\ Low < High /\ High < QueueSize
  /\ None \notin Subs

VARIABLES
  ppc,          \* the publisher's handler: read, copy, send, drain, exit, finished
  frames,       \* frames it has decoded
  todo,         \* ForwardFromPublisher: subscribers left to send it to
  cur,          \* ... the one whose watermark is tested next
  hit,          \* ... highWatermarkHit
  waits,        \* ... the subscribers to wait for
  subscribers,  \* session.subscribers
  closed,       \* session.closed
  failed,       \* subscribers for which SendFrame failed: a goroutine will remove
                \* them, if they are still there
  done,         \* subscribers whose done channel is closed
  wpc,          \* subscriber -> its writeLoop: none, select, write, flush, returned
  queue,        \* subscriber -> sendCh
  taken,        \* subscriber -> the frame that writeLoop encodes
  open,         \* subscribers whose socket is open
  written,      \* subscriber -> the last frame written to its socket, to begin
                \* with the last one it registered too late for
  slow          \* history: open subscribers for which WaitForDrain timed out

pubVars  == <<ppc, frames, todo, cur, hit, waits>>
sessVars == <<subscribers, closed, failed, done>>
loopVars == <<wpc, queue, taken>>
sockVars == <<open, written>>
vars == <<pubVars, sessVars, loopVars, sockVars, slow>>

Init ==
  /\ ppc = "read" /\ frames = 0
  /\ todo = {} /\ cur = None /\ hit = FALSE /\ waits = {}
  /\ subscribers = {} /\ closed = FALSE /\ failed = {} /\ done = {}
  /\ wpc = [s \in Subs |-> "none"]
  /\ queue = [s \in Subs |-> <<>>] /\ taken = [s \in Subs |-> 0]
  /\ open = {} /\ written = [s \in Subs |-> 0]
  /\ slow = {}

-----------------------------------------------------------------------------
(* loopPublisher and ForwardFromPublisher                                  *)

\* Decode returns a frame that is forwarded (heartbeats are not).  It fails once
\* the session is closed, and the publisher's socket with it.
ReadFrame ==
  /\ ppc = "read" /\ ~closed /\ frames < MaxFrames
  /\ frames' = frames + 1
  /\ ppc' = "copy"
  /\ UNCHANGED <<todo, cur, hit, waits, sessVars, loopVars, sockVars, slow>>

\* ForwardFromPublisher copies the subscribers under the session's lock.
CopySubscribers ==
  /\ ppc = "copy"
  /\ todo' = subscribers /\ waits' = subscribers
  /\ ppc' = "send"
  /\ UNCHANGED <<frames, cur, hit, sessVars, loopVars, sockVars, slow>>

\* SendFrame puts the frame into the queue; select may do so for a closed one.
SendFrame(s) ==
  /\ ppc = "send" /\ cur = None /\ s \in todo
  /\ Len(queue[s]) < QueueSize
  /\ queue' = [queue EXCEPT ![s] = Append(@, frames)]
  /\ todo' = todo \ {s} /\ cur' = s
  /\ UNCHANGED <<ppc, frames, hit, waits, sessVars, wpc, taken, sockVars,
                 slow>>

\* Faulty variant of TestWatermark: tests for a full queue.
TestWatermarkFull ==
  /\ ppc = "send" /\ cur # None
  /\ hit' = (hit \/ Len(queue[cur]) >= QueueSize)
  /\ cur' = None
  /\ UNCHANGED <<ppc, frames, todo, waits, sessVars, loopVars, sockVars, slow>>

\* IsHighWatermark
TestWatermark ==
  /\ ppc = "send" /\ cur # None
  /\ hit' = (hit \/ Len(queue[cur]) >= High)
  /\ cur' = None
  /\ UNCHANGED <<ppc, frames, todo, waits, sessVars, loopVars, sockVars, slow>>

\* Faulty variant of SendFails: removes whichever subscriber the loop variable
\* names by the time the goroutine runs.
SendFailsCaptured(s) ==
  /\ ppc = "send" /\ cur = None /\ s \in todo
  /\ s \in done \/ Len(queue[s]) = QueueSize
  /\ todo' = todo \ {s}
  /\ \E r \in waits : failed' = failed \cup {r}
  /\ UNCHANGED <<ppc, frames, cur, hit, waits, subscribers, closed, done,
                 loopVars, sockVars, slow>>

\* The subscriber is closed, or its queue stays full for five seconds; another
\* goroutine will remove it.
SendFails(s) ==
  /\ ppc = "send" /\ cur = None /\ s \in todo
  /\ s \in done \/ Len(queue[s]) = QueueSize
  /\ todo' = todo \ {s}
  /\ failed' = failed \cup {s}
  /\ UNCHANGED <<ppc, frames, cur, hit, waits, subscribers, closed, done,
                 loopVars, sockVars, slow>>

SendDone ==
  /\ ppc = "send" /\ cur = None /\ todo = {}
  /\ ppc' = IF hit THEN "drain" ELSE "read"
  /\ waits' = IF hit THEN waits ELSE {}
  /\ hit' = FALSE
  /\ UNCHANGED <<frames, todo, cur, sessVars, loopVars, sockVars, slow>>

\* Faulty variant of WaitForDrain: waits for the low watermark, come what may.
WaitForDrainPatient(s) ==
  /\ ppc = "drain" /\ s \in waits /\ Len(queue[s]) <= Low
  /\ waits' = waits \ {s}
  /\ UNCHANGED <<ppc, frames, todo, cur, hit, sessVars, loopVars, sockVars, slow>>

\* WaitForDrain: the queue is at the low watermark, the subscriber is closed, or
\* 500 ms have passed.
WaitForDrain(s) ==
  /\ ppc = "drain" /\ s \in waits
  /\ waits' = waits \ {s}
  /\ slow' = IF Len(queue[s]) <= Low \/ s \in done THEN slow ELSE slow \cup {s}
  /\ UNCHANGED <<ppc, frames, todo, cur, hit, sessVars, loopVars, sockVars>>

DrainDone ==
  /\ ppc = "drain" /\ waits = {}
  /\ ppc' = "read"
  /\ UNCHANGED <<frames, todo, cur, hit, waits, sessVars, loopVars, sockVars,
                 slow>>

\* The frame was a Close frame, or the next Decode fails: the publisher left, was
\* silent for five minutes, or was closed.
PublisherGone ==
  /\ ppc = "read"
  /\ ppc' = "exit"
  /\ UNCHANGED <<frames, todo, cur, hit, waits, sessVars, loopVars, sockVars,
                 slow>>
-----------------------------------------------------------------------------
(* The end of a session and of a subscriber                                *)

\* ClientConn.Close
CloseConns(S) == done' = done \cup S /\ slow' = slow \ S

\* RelaySession.Close
CloseSession ==
  /\ closed' = TRUE
  /\ CloseConns(IF closed THEN {} ELSE subscribers)
  /\ subscribers' = IF closed THEN subscribers ELSE {}
  /\ UNCHANGED failed

\* loopPublisher ends with removeSession.
Exit ==
  /\ ppc = "exit"
  /\ CloseSession
  /\ ppc' = "finished"
  /\ UNCHANGED <<frames, todo, cur, hit, waits, loopVars, sockVars>>

\* CloseAll, or the handler of another publisher of this session ID.
Shutdown ==
  /\ ~closed
  /\ CloseSession
  /\ UNCHANGED <<pubVars, loopVars, sockVars>>

\* RegisterSubscriber, which starts writeLoop.  The handler may have looked the
\* session up before it was closed.
Register(s) ==
  /\ wpc[s] = "none"
  /\ subscribers' = subscribers \cup {s}
  /\ wpc' = [wpc EXCEPT ![s] = "select"]
  /\ open' = open \cup {s}
  /\ written' = [written EXCEPT ![s] = IF ppc = "copy" THEN frames - 1 ELSE frames]
  /\ UNCHANGED <<pubVars, closed, failed, done, queue, taken, slow>>

\* Faulty variant of RemoveSubscriber: leaves the connection to its handler.
RemoveSubscriberOnly(s) ==
  /\ subscribers' = subscribers \ {s}
  /\ UNCHANGED <<closed, failed, done, slow>>

RemoveSubscriber(s) ==
  /\ subscribers' = subscribers \ {s}
  /\ CloseConns({s} \cap subscribers)
  /\ UNCHANGED <<closed, failed>>

Prune(s) ==
  /\ s \in failed \cap subscribers
  /\ RemoveSubscriber(s)
  /\ UNCHANGED <<pubVars, loopVars, sockVars>>

\* loopSubscriber: Decode fails because the peer left, was silent for five
\* minutes (nothing is forwarded to keep it), or its socket was closed.  Once the
\* subscriber was removed by others, this changes nothing.
SubscriberExit(s) ==
  /\ s \in subscribers
  /\ RemoveSubscriber(s)
  /\ UNCHANGED <<pubVars, loopVars, sockVars>>

\* The goroutine that ClientConn.Close starts, after 20 ms.
CloseSocket(s) ==
  /\ s \in done \cap open
  /\ open' = open \ {s}
  /\ UNCHANGED <<pubVars, sessVars, loopVars, written, slow>>

-----------------------------------------------------------------------------
(* writeLoop                                                               *)

\* select may still prefer the queue when done is closed.
Take(s) ==
  /\ wpc[s] = "select" /\ queue[s] # <<>>
  /\ taken' = [taken EXCEPT ![s] = Head(queue[s])]
  /\ queue' = [queue EXCEPT ![s] = Tail(@)]
  /\ wpc' = [wpc EXCEPT ![s] = "write"]
  /\ UNCHANGED <<pubVars, sessVars, sockVars, slow>>

Encode(s) ==
  /\ wpc[s] = "write" /\ s \in open
  /\ written' = [written EXCEPT ![s] = taken[s]]
  /\ taken' = [taken EXCEPT ![s] = 0]
  /\ wpc' = [wpc EXCEPT ![s] = "select"]
  /\ UNCHANGED <<pubVars, sessVars, queue, open, slow>>

\* Faulty variant of EncodeFails: goes on with the next frame.
EncodeFailsGoOn(s) ==
  /\ wpc[s] = "write"
  /\ taken' = [taken EXCEPT ![s] = 0]
  /\ wpc' = [wpc EXCEPT ![s] = "select"]
  /\ UNCHANGED <<pubVars, sessVars, queue, sockVars, slow>>

\* The peer does not read for two seconds, or the socket is gone.
EncodeFails(s) ==
  /\ wpc[s] = "write"
  /\ taken' = [taken EXCEPT ![s] = 0]
  /\ wpc' = [wpc EXCEPT ![s] = "returned"]
  /\ CloseConns({s})
  /\ UNCHANGED <<pubVars, subscribers, closed, failed, queue, sockVars>>

NoticeDone(s) ==
  /\ wpc[s] = "select" /\ s \in done
  /\ wpc' = [wpc EXCEPT ![s] = "flush"]
  /\ UNCHANGED <<pubVars, sessVars, queue, taken, sockVars, slow>>

\* What is left of the queue is written ...
Flush(s) ==
  /\ wpc[s] = "flush" /\ queue[s] # <<>> /\ s \in open
  /\ written' = [written EXCEPT ![s] = Head(queue[s])]
  /\ queue' = [queue EXCEPT ![s] = Tail(@)]
  /\ UNCHANGED <<pubVars, sessVars, wpc, taken, open, slow>>

\* ... unless the deadline of one second passes or the socket is closed: from
\* then on every write fails.
FlushFails(s) ==
  /\ wpc[s] = "flush" /\ queue[s] # <<>>
  /\ wpc' = [wpc EXCEPT ![s] = "returned"]
  /\ UNCHANGED <<pubVars, sessVars, queue, taken, sockVars, slow>>

FlushDone(s) ==
  /\ wpc[s] = "flush" /\ queue[s] = <<>>
  /\ wpc' = [wpc EXCEPT ![s] = "returned"]
  /\ UNCHANGED <<pubVars, sessVars, queue, taken, sockVars, slow>>

-----------------------------------------------------------------------------

ForwardFromPublisher ==
  \/ \E s \in Subs : SendFrame(s) \/ SendFails(s) \/ WaitForDrain(s)
  \/ CopySubscribers \/ TestWatermark \/ SendDone \/ DrainDone
writeLoop(s) ==
  Take(s) \/ Encode(s) \/ EncodeFails(s) \/ NoticeDone(s)
    \/ Flush(s) \/ FlushFails(s) \/ FlushDone(s)

Next ==
  \/ ReadFrame \/ ForwardFromPublisher \/ PublisherGone \/ Exit \/ Shutdown
  \/ \E s \in Subs : Register(s) \/ Prune(s) \/ SubscriberExit(s) \/ CloseSocket(s)
                      \/ writeLoop(s)

Spec == Init /\ [][Next]_vars

\* Goroutines keep running and timers fire; a subscriber's handler ends at the
\* latest with its read deadline, since subscribers send no heartbeats.
FairSpec ==
  /\ Spec /\ WF_vars(ForwardFromPublisher \/ Exit)
  /\ \A s \in Subs : /\ WF_vars(writeLoop(s)) /\ WF_vars(CloseSocket(s))
                     /\ WF_vars(SubscriberExit(s))

-----------------------------------------------------------------------------
(* Properties                                                              *)

\* Type correctness (proved in FanoutProofs).
TypeOK ==
  /\ ppc \in {"read", "copy", "send", "drain", "exit", "finished"}
  /\ frames \in Nat /\ hit \in BOOLEAN /\ cur \in Subs \cup {None}
  /\ todo \subseteq Subs /\ waits \subseteq Subs /\ subscribers \subseteq Subs
  /\ wpc \in [Subs -> {"none", "select", "write", "flush", "returned"}]
  /\ queue \in [Subs -> Seq(Nat)] /\ \A s \in Subs : Len(queue[s]) <= QueueSize
  /\ taken \in [Subs -> Nat] /\ written \in [Subs -> Nat]

\* What reaches a subscriber's socket is in the publisher's order.  Unless
\* SendFrame failed for it, it is an unbroken run from its registration on, up
\* to whatever the end of the connection cut off: queueing, failing writes, the
\* flush that races with the closing of the socket and the select between done
\* and sendCh leave no gap.
OrderedRun ==
  [][\A s \in Subs : wpc[s] # "none" /\ written'[s] # written[s] =>
       /\ written'[s] > written[s]
       /\ s \notin failed => written'[s] = written[s] + 1]_vars

\* The watermarks work: the queue of an open subscriber only grows past the high
\* watermark after WaitForDrain has waited for that subscriber in vain.
QueueBelowHigh ==
  \A s \in Subs : Len(queue[s]) > High => s \in slow \/ s \in done

\* Nobody is removed on account of another subscriber being slow: SendFrame only
\* fails for a subscriber that is closed or kept the relay waiting itself.
OnlySlowPruned == failed \subseteq slow \cup done

\* A subscriber that does not read holds the publisher up for a while only: the
\* fan-out of every frame comes to an end (the timeouts of SendFrame, Encode
\* and WaitForDrain).
FanoutReturns == ppc \in {"copy", "send", "drain"} ~> ppc \in {"read", "exit", "finished"}

\* The subscriber's writeLoop has ended and its socket is closed, on which its
\* handler's Decode fails.
Released(s) == wpc[s] = "none" \/ (wpc[s] = "returned" /\ s \notin open)

\* Once the session is closed, every goroutine and socket of its subscribers is
\* released for good, also those of a subscriber that registered too late, was
\* being removed, or had a full queue.
SubscribersReleased == <>closed => <>[](\A s \in Subs : Released(s))
=============================================================================
