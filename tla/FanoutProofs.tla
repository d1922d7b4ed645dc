---------------------------- MODULE FanoutProofs -----------------------------
(***************************************************************************)
(* The fan-out of a session, for any subscribers, queue size, watermarks   *)
(* and number of frames.                                                   *)
(***************************************************************************)
EXTENDS Fanout, TLAPS

\* The tail of a sequence.
LEMMA TailOf ==
  ASSUME NEW S, NEW q \in Seq(S), q # <<>>
  PROVE  /\ Tail(q) \in Seq(S) /\ Len(Tail(q)) = Len(q) - 1
         /\ \A i \in 1..(Len(q) - 1) : Tail(q)[i] = q[i + 1]
OBVIOUS

\* A sequence with an element more.
LEMMA AppendTo ==
  ASSUME NEW S, NEW q \in Seq(S), NEW e \in S
  PROVE  /\ Append(q, e) \in Seq(S) /\ Len(Append(q, e)) = Len(q) + 1
         /\ Append(q, e)[Len(q) + 1] = e
         /\ \A i \in 1..Len(q) : Append(q, e)[i] = q[i]
OBVIOUS

\* The variables of ForwardFromPublisher at rest, and what it still has to do.
Fanning ==
  /\ ppc # "send" => todo = {} /\ cur = None /\ hit = FALSE
  /\ ppc = "send" => todo \subseteq waits /\ cur \notin todo
  /\ ppc = "copy" => frames > 0

\* How far the queue of an open subscriber that never made WaitForDrain time out
\* can have grown: below the high watermark between two frames; up to it once it
\* has the frame, in which case somebody will wait for it.
Water(s) ==
  s \in slow \cup done \/
  /\ ppc \in {"read", "copy", "exit", "finished"} => Len(queue[s]) < High
  /\ ppc = "send" =>
       /\ s \in todo => Len(queue[s]) < High
       /\ Len(queue[s]) <= High
       /\ Len(queue[s]) = High => s \in waits /\ (hit \/ cur = s)
  /\ ppc = "drain" =>
       /\ Len(queue[s]) <= High
       /\ Len(queue[s]) = High => s \in waits

\* The frame before the one at the head of the queue.
Base(s) == IF wpc[s] = "write" THEN taken[s] ELSE written[s]

\* The last frame a subscriber was handed, when nothing failed: the current one
\* is still to come in "copy", and in "send" for the subscribers in todo.
Due(s) == IF ppc = "copy" \/ s \in todo THEN frames - 1 ELSE frames

Writing(s) == wpc[s] \in {"select", "write", "flush"}

\* A subscriber's frames are on the socket, in writeLoop's hands and in the queue
\* in the order they were decoded ...
Ordered(s) ==
  Writing(s) =>
    /\ wpc[s] = "write" => written[s] < taken[s]
    /\ Base(s) <= frames
    /\ s \in todo \/ (ppc = "copy" /\ s \in subscribers) => Base(s) < frames
    /\ \A i \in 1..Len(queue[s]) :
         /\ Base(s) < queue[s][i] /\ queue[s][i] <= frames
         /\ s \in todo \/ (ppc = "copy" /\ s \in subscribers) => queue[s][i] < frames
         /\ \A j \in 1..Len(queue[s]) : i < j => queue[s][i] < queue[s][j]

\* ... and without a gap, if SendFrame never failed.
Unbroken(s) ==
  Writing(s) /\ s \notin failed =>
    /\ wpc[s] = "write" => taken[s] = written[s] + 1
    /\ \A i \in 1..Len(queue[s]) : queue[s][i] = Base(s) + i
    /\ s \in subscribers \cup todo => Base(s) + Len(queue[s]) = Due(s)

\* A connection that is not registered yet has no part in the fan-out.
Absent(s) == wpc[s] = "none" => s \notin subscribers \cup todo \cup failed /\ queue[s] = <<>>

IInv ==
  /\ TypeOK /\ Fanning /\ OnlySlowPruned
  /\ \A s \in Subs : Water(s) /\ Ordered(s) /\ Unbroken(s) /\ Absent(s)

-----------------------------------------------------------------------------
(* TypeOK and the variables of ForwardFromPublisher                         *)

\* The inductive invariant holds initially.
LEMMA InitInv == Init => IInv
<1>. SUFFICES ASSUME Init PROVE IInv
  BY Zenon
<1>. USE FanoutAssumption
<1>1. TypeOK
  <2>1. <<>> \in Seq(Nat) /\ Len(<<>>) = 0
    OBVIOUS
  <2>2. \A s \in Subs : queue[s] \in Seq(Nat) /\ Len(queue[s]) <= QueueSize
    BY <2>1 DEF Init
  <2>. QED  BY <2>2, Zenon DEF Init, TypeOK
<1>2. Fanning /\ OnlySlowPruned
  BY Zenon DEF Init, Fanning, OnlySlowPruned
<1>3. ASSUME NEW s \in Subs
      PROVE  Water(s) /\ Ordered(s) /\ Unbroken(s) /\ Absent(s)
  BY DEF Init, Water, Ordered, Unbroken, Absent, Writing
<1>. QED  BY <1>1, <1>2, <1>3, Zenon DEF IInv

\* What a step may do, one disjunct per action.
LEMMA Steps ==
  ASSUME [Next]_vars
  PROVE  \/ ReadFrame \/ CopySubscribers \/ TestWatermark \/ SendDone \/ DrainDone
         \/ PublisherGone \/ Exit \/ Shutdown
         \/ \E s \in Subs : \/ SendFrame(s) \/ SendFails(s) \/ WaitForDrain(s)
                            \/ Register(s) \/ Prune(s) \/ SubscriberExit(s)
                            \/ CloseSocket(s) \/ Take(s) \/ Encode(s) \/ EncodeFails(s)
                            \/ NoticeDone(s) \/ Flush(s) \/ FlushFails(s) \/ FlushDone(s)
         \/ UNCHANGED vars
BY Zenon DEF Next, ForwardFromPublisher, writeLoop

\* The types are inductive, and so is the state of the fan-out.
LEMMA TypesStep ==
  ASSUME IInv, [Next]_vars
  PROVE  TypeOK' /\ Fanning'
<1>. USE FanoutAssumption DEF IInv, pubVars, sessVars, loopVars, sockVars
<1>1. CASE ReadFrame
  BY <1>1 DEF ReadFrame, TypeOK, Fanning
<1>2. CASE CopySubscribers
  BY <1>2, Zenon DEF CopySubscribers, TypeOK, Fanning
<1>3. CASE TestWatermark
  BY <1>3, Zenon DEF TestWatermark, TypeOK, Fanning
<1>4. CASE SendDone
  BY <1>4, Zenon DEF SendDone, TypeOK, Fanning
<1>5. CASE DrainDone
  BY <1>5, Zenon DEF DrainDone, TypeOK, Fanning
<1>6. CASE PublisherGone
  BY <1>6, Zenon DEF PublisherGone, TypeOK, Fanning
<1>7. CASE Exit
  BY <1>7, Zenon DEF Exit, CloseSession, CloseConns, TypeOK, Fanning
<1>8. CASE Shutdown
  BY <1>8, Zenon DEF Shutdown, CloseSession, CloseConns, TypeOK, Fanning
<1>9. ASSUME NEW s \in Subs, SendFrame(s) PROVE TypeOK' /\ Fanning'
  BY <1>9 DEF SendFrame, TypeOK, Fanning
<1>10. ASSUME NEW s \in Subs, SendFails(s) PROVE TypeOK' /\ Fanning'
  BY <1>10, Zenon DEF SendFails, TypeOK, Fanning
<1>11. ASSUME NEW s \in Subs, WaitForDrain(s) PROVE TypeOK' /\ Fanning'
  BY <1>11, Zenon DEF WaitForDrain, TypeOK, Fanning
<1>12. ASSUME NEW s \in Subs, Register(s) PROVE TypeOK' /\ Fanning'
  BY <1>12 DEF Register, TypeOK, Fanning
<1>13. ASSUME NEW s \in Subs, Prune(s) PROVE TypeOK' /\ Fanning'
  BY <1>13, Zenon DEF Prune, RemoveSubscriber, CloseConns, TypeOK, Fanning
<1>14. ASSUME NEW s \in Subs, SubscriberExit(s) PROVE TypeOK' /\ Fanning'
  BY <1>14, Zenon DEF SubscriberExit, RemoveSubscriber, CloseConns, TypeOK, Fanning
<1>15. ASSUME NEW s \in Subs, CloseSocket(s) PROVE TypeOK' /\ Fanning'
  BY <1>15, Zenon DEF CloseSocket, TypeOK, Fanning
<1>16. ASSUME NEW s \in Subs, Take(s) PROVE TypeOK' /\ Fanning'
  BY <1>16 DEF Take, TypeOK, Fanning
<1>17. ASSUME NEW s \in Subs, Encode(s) PROVE TypeOK' /\ Fanning'
  BY <1>17, Zenon DEF Encode, TypeOK, Fanning
<1>18. ASSUME NEW s \in Subs, EncodeFails(s) PROVE TypeOK' /\ Fanning'
  BY <1>18, Zenon DEF EncodeFails, CloseConns, TypeOK, Fanning
<1>19. ASSUME NEW s \in Subs, NoticeDone(s) PROVE TypeOK' /\ Fanning'
  BY <1>19, Zenon DEF NoticeDone, TypeOK, Fanning
<1>20. ASSUME NEW s \in Subs, Flush(s) PROVE TypeOK' /\ Fanning'
  BY <1>20 DEF Flush, TypeOK, Fanning
<1>21. ASSUME NEW s \in Subs, FlushFails(s) PROVE TypeOK' /\ Fanning'
  BY <1>21, Zenon DEF FlushFails, TypeOK, Fanning
<1>22. ASSUME NEW s \in Subs, FlushDone(s) PROVE TypeOK' /\ Fanning'
  BY <1>22, Zenon DEF FlushDone, TypeOK, Fanning
<1>23. CASE UNCHANGED vars
  BY <1>23, Zenon DEF TypeOK, Fanning, vars
<1>. QED
  BY Steps, <1>1, <1>2, <1>3, <1>4, <1>5, <1>6, <1>7, <1>8, <1>9, <1>10,
     <1>11, <1>12, <1>13, <1>14, <1>15, <1>16, <1>17, <1>18, <1>19, <1>20,
     <1>21, <1>22, <1>23, Zenon

-----------------------------------------------------------------------------
(* The watermarks                                                          *)

\* The bounds on the queues are inductive.
LEMMA WaterStep ==
  ASSUME IInv, [Next]_vars, NEW r \in Subs
  PROVE  Water(r)'
<1>. USE FanoutAssumption DEF IInv, pubVars, sessVars, loopVars, sockVars
<1>1. CASE ReadFrame
  BY <1>1, Zenon DEF ReadFrame, TypeOK, Fanning, Water
<1>2. CASE CopySubscribers
  BY <1>2 DEF CopySubscribers, TypeOK, Fanning, Water
<1>3. CASE TestWatermark
  BY <1>3, Zenon DEF TestWatermark, TypeOK, Fanning, Water
<1>4. CASE SendDone
  BY <1>4 DEF SendDone, TypeOK, Fanning, Water
<1>5. CASE DrainDone
  BY <1>5 DEF DrainDone, TypeOK, Fanning, Water
<1>6. CASE PublisherGone
  BY <1>6, Zenon DEF PublisherGone, TypeOK, Fanning, Water
<1>7. CASE Exit
  BY <1>7, Zenon DEF Exit, CloseSession, CloseConns, TypeOK, Fanning, Water
<1>8. CASE Shutdown
  BY <1>8, Zenon DEF Shutdown, CloseSession, CloseConns, TypeOK, Fanning, Water
<1>9. ASSUME NEW s \in Subs, SendFrame(s) PROVE Water(r)'
  BY <1>9 DEF SendFrame, TypeOK, Fanning, Water
<1>10. ASSUME NEW s \in Subs, SendFails(s) PROVE Water(r)'
  BY <1>10, Zenon DEF SendFails, TypeOK, Fanning, Water
<1>11. ASSUME NEW s \in Subs, WaitForDrain(s) PROVE Water(r)'
  BY <1>11 DEF WaitForDrain, TypeOK, Fanning, Water
<1>12. ASSUME NEW s \in Subs, Register(s) PROVE Water(r)'
  BY <1>12, Zenon DEF Register, TypeOK, Fanning, Water
<1>13. ASSUME NEW s \in Subs, Prune(s) PROVE Water(r)'
  BY <1>13, Zenon DEF Prune, RemoveSubscriber, CloseConns, TypeOK, Fanning, Water
<1>14. ASSUME NEW s \in Subs, SubscriberExit(s) PROVE Water(r)'
  BY <1>14, Zenon DEF SubscriberExit, RemoveSubscriber, CloseConns, TypeOK, Fanning, Water
<1>15. ASSUME NEW s \in Subs, CloseSocket(s) PROVE Water(r)'
  BY <1>15, Zenon DEF CloseSocket, TypeOK, Fanning, Water
<1>16. ASSUME NEW s \in Subs, Take(s) PROVE Water(r)'
  BY <1>16 DEF Take, TypeOK, Fanning, Water
<1>17. ASSUME NEW s \in Subs, Encode(s) PROVE Water(r)'
  BY <1>17, Zenon DEF Encode, TypeOK, Fanning, Water
<1>18. ASSUME NEW s \in Subs, EncodeFails(s) PROVE Water(r)'
  BY <1>18, Zenon DEF EncodeFails, CloseConns, TypeOK, Fanning, Water
<1>19. ASSUME NEW s \in Subs, NoticeDone(s) PROVE Water(r)'
  BY <1>19, Zenon DEF NoticeDone, TypeOK, Fanning, Water
<1>20. ASSUME NEW s \in Subs, Flush(s) PROVE Water(r)'
  BY <1>20 DEF Flush, TypeOK, Fanning, Water
<1>21. ASSUME NEW s \in Subs, FlushFails(s) PROVE Water(r)'
  BY <1>21, Zenon DEF FlushFails, TypeOK, Fanning, Water
<1>22. ASSUME NEW s \in Subs, FlushDone(s) PROVE Water(r)'
  BY <1>22, Zenon DEF FlushDone, TypeOK, Fanning, Water
<1>23. CASE UNCHANGED vars
  BY <1>23, Zenon DEF TypeOK, Fanning, Water, vars
<1>. QED
  BY Steps, <1>1, <1>2, <1>3, <1>4, <1>5, <1>6, <1>7, <1>8, <1>9, <1>10,
     <1>11, <1>12, <1>13, <1>14, <1>15, <1>16, <1>17, <1>18, <1>19, <1>20,
     <1>21, <1>22, <1>23, Zenon

\* Only slow or closed subscribers fail.
LEMMA PrunedStep ==
  ASSUME IInv, [Next]_vars
  PROVE  OnlySlowPruned'
<1>. USE FanoutAssumption DEF IInv, pubVars, sessVars, loopVars, sockVars
<1>1. CASE ReadFrame
  BY <1>1, Zenon DEF ReadFrame, TypeOK, Water, OnlySlowPruned
<1>2. CASE CopySubscribers
  BY <1>2, Zenon DEF CopySubscribers, TypeOK, Water, OnlySlowPruned
<1>3. CASE TestWatermark
  BY <1>3, Zenon DEF TestWatermark, TypeOK, Water, OnlySlowPruned
<1>4. CASE SendDone
  BY <1>4, Zenon DEF SendDone, TypeOK, Water, OnlySlowPruned
<1>5. CASE DrainDone
  BY <1>5, Zenon DEF DrainDone, TypeOK, Water, OnlySlowPruned
<1>6. CASE PublisherGone
  BY <1>6, Zenon DEF PublisherGone, TypeOK, Water, OnlySlowPruned
<1>7. CASE Exit
  BY <1>7, Zenon DEF Exit, CloseSession, CloseConns, TypeOK, Water, OnlySlowPruned
<1>8. CASE Shutdown
  BY <1>8, Zenon DEF Shutdown, CloseSession, CloseConns, TypeOK, Water, OnlySlowPruned
<1>9. ASSUME NEW s \in Subs, SendFrame(s) PROVE OnlySlowPruned'
  BY <1>9, Zenon DEF SendFrame, TypeOK, Water, OnlySlowPruned
<1>10. ASSUME NEW s \in Subs, SendFails(s) PROVE OnlySlowPruned'
  BY <1>10 DEF SendFails, TypeOK, Water, OnlySlowPruned
<1>11. ASSUME NEW s \in Subs, WaitForDrain(s) PROVE OnlySlowPruned'
  BY <1>11, Zenon DEF WaitForDrain, TypeOK, Water, OnlySlowPruned
<1>12. ASSUME NEW s \in Subs, Register(s) PROVE OnlySlowPruned'
  BY <1>12, Zenon DEF Register, TypeOK, Water, OnlySlowPruned
<1>13. ASSUME NEW s \in Subs, Prune(s) PROVE OnlySlowPruned'
  BY <1>13, Zenon DEF Prune, RemoveSubscriber, CloseConns, TypeOK, Water, OnlySlowPruned
<1>14. ASSUME NEW s \in Subs, SubscriberExit(s) PROVE OnlySlowPruned'
  BY <1>14, Zenon DEF SubscriberExit, RemoveSubscriber, CloseConns, TypeOK, Water,
     OnlySlowPruned
<1>15. ASSUME NEW s \in Subs, CloseSocket(s) PROVE OnlySlowPruned'
  BY <1>15, Zenon DEF CloseSocket, TypeOK, Water, OnlySlowPruned
<1>16. ASSUME NEW s \in Subs, Take(s) PROVE OnlySlowPruned'
  BY <1>16, Zenon DEF Take, TypeOK, Water, OnlySlowPruned
<1>17. ASSUME NEW s \in Subs, Encode(s) PROVE OnlySlowPruned'
  BY <1>17, Zenon DEF Encode, TypeOK, Water, OnlySlowPruned
<1>18. ASSUME NEW s \in Subs, EncodeFails(s) PROVE OnlySlowPruned'
  BY <1>18, Zenon DEF EncodeFails, CloseConns, TypeOK, Water, OnlySlowPruned
<1>19. ASSUME NEW s \in Subs, NoticeDone(s) PROVE OnlySlowPruned'
  BY <1>19, Zenon DEF NoticeDone, TypeOK, Water, OnlySlowPruned
<1>20. ASSUME NEW s \in Subs, Flush(s) PROVE OnlySlowPruned'
  BY <1>20, Zenon DEF Flush, TypeOK, Water, OnlySlowPruned
<1>21. ASSUME NEW s \in Subs, FlushFails(s) PROVE OnlySlowPruned'
  BY <1>21, Zenon DEF FlushFails, TypeOK, Water, OnlySlowPruned
<1>22. ASSUME NEW s \in Subs, FlushDone(s) PROVE OnlySlowPruned'
  BY <1>22, Zenon DEF FlushDone, TypeOK, Water, OnlySlowPruned
<1>23. CASE UNCHANGED vars
  BY <1>23, Zenon DEF TypeOK, Water, OnlySlowPruned, vars
<1>. QED
  BY Steps, <1>1, <1>2, <1>3, <1>4, <1>5, <1>6, <1>7, <1>8, <1>9, <1>10,
     <1>11, <1>12, <1>13, <1>14, <1>15, <1>16, <1>17, <1>18, <1>19, <1>20,
     <1>21, <1>22, <1>23, Zenon

-----------------------------------------------------------------------------
(* The order of the frames                                                 *)

\* Nobody takes part before registering.
LEMMA AbsentStep ==
  ASSUME IInv, [Next]_vars, NEW r \in Subs
  PROVE  Absent(r)'
<1>. USE FanoutAssumption DEF IInv, pubVars, sessVars, loopVars, sockVars
<1>1. CASE ReadFrame
  BY <1>1, Zenon DEF ReadFrame, TypeOK, Fanning, Absent
<1>2. CASE CopySubscribers
  BY <1>2, Zenon DEF CopySubscribers, TypeOK, Fanning, Absent
<1>3. CASE TestWatermark
  BY <1>3, Zenon DEF TestWatermark, TypeOK, Fanning, Absent
<1>4. CASE SendDone
  BY <1>4, Zenon DEF SendDone, TypeOK, Fanning, Absent
<1>5. CASE DrainDone
  BY <1>5, Zenon DEF DrainDone, TypeOK, Fanning, Absent
<1>6. CASE PublisherGone
  BY <1>6, Zenon DEF PublisherGone, TypeOK, Fanning, Absent
<1>7. CASE Exit
  BY <1>7, Zenon DEF Exit, CloseSession, CloseConns, TypeOK, Fanning, Absent
<1>8. CASE Shutdown
  BY <1>8, Zenon DEF Shutdown, CloseSession, CloseConns, TypeOK, Fanning, Absent
<1>9. ASSUME NEW s \in Subs, SendFrame(s) PROVE Absent(r)'
  BY <1>9, Zenon DEF SendFrame, TypeOK, Fanning, Absent
<1>10. ASSUME NEW s \in Subs, SendFails(s) PROVE Absent(r)'
  BY <1>10, Zenon DEF SendFails, TypeOK, Fanning, Absent
<1>11. ASSUME NEW s \in Subs, WaitForDrain(s) PROVE Absent(r)'
  BY <1>11, Zenon DEF WaitForDrain, TypeOK, Fanning, Absent
<1>12. ASSUME NEW s \in Subs, Register(s) PROVE Absent(r)'
  BY <1>12, Zenon DEF Register, TypeOK, Fanning, Absent
<1>13. ASSUME NEW s \in Subs, Prune(s) PROVE Absent(r)'
  BY <1>13, Zenon DEF Prune, RemoveSubscriber, CloseConns, TypeOK, Fanning, Absent
<1>14. ASSUME NEW s \in Subs, SubscriberExit(s) PROVE Absent(r)'
  BY <1>14, Zenon DEF SubscriberExit, RemoveSubscriber, CloseConns, TypeOK, Fanning, Absent
<1>15. ASSUME NEW s \in Subs, CloseSocket(s) PROVE Absent(r)'
  BY <1>15, Zenon DEF CloseSocket, TypeOK, Fanning, Absent
<1>16. ASSUME NEW s \in Subs, Take(s) PROVE Absent(r)'
  BY <1>16, Zenon DEF Take, TypeOK, Fanning, Absent
<1>17. ASSUME NEW s \in Subs, Encode(s) PROVE Absent(r)'
  BY <1>17, Zenon DEF Encode, TypeOK, Fanning, Absent
<1>18. ASSUME NEW s \in Subs, EncodeFails(s) PROVE Absent(r)'
  BY <1>18, Zenon DEF EncodeFails, CloseConns, TypeOK, Fanning, Absent
<1>19. ASSUME NEW s \in Subs, NoticeDone(s) PROVE Absent(r)'
  BY <1>19, Zenon DEF NoticeDone, TypeOK, Fanning, Absent
<1>20. ASSUME NEW s \in Subs, Flush(s) PROVE Absent(r)'
  BY <1>20, Zenon DEF Flush, TypeOK, Fanning, Absent
<1>21. ASSUME NEW s \in Subs, FlushFails(s) PROVE Absent(r)'
  BY <1>21, Zenon DEF FlushFails, TypeOK, Fanning, Absent
<1>22. ASSUME NEW s \in Subs, FlushDone(s) PROVE Absent(r)'
  BY <1>22, Zenon DEF FlushDone, TypeOK, Fanning, Absent
<1>23. CASE UNCHANGED vars
  BY <1>23, Zenon DEF TypeOK, Fanning, Absent, vars
<1>. QED
  BY Steps, <1>1, <1>2, <1>3, <1>4, <1>5, <1>6, <1>7, <1>8, <1>9, <1>10,
     <1>11, <1>12, <1>13, <1>14, <1>15, <1>16, <1>17, <1>18, <1>19, <1>20,
     <1>21, <1>22, <1>23, Zenon

\* Frames stay in order.
LEMMA OrderedStep ==
  ASSUME IInv, [Next]_vars, NEW r \in Subs
  PROVE  Ordered(r)'
<1>. USE FanoutAssumption DEF IInv, pubVars, sessVars, loopVars, sockVars
<1>1. CASE ReadFrame
  BY <1>1 DEF ReadFrame, TypeOK, Fanning, Absent, Ordered, Writing, Base
<1>2. CASE CopySubscribers
  BY <1>2 DEF CopySubscribers, TypeOK, Fanning, Absent, Ordered, Writing, Base
<1>3. CASE TestWatermark
  BY <1>3 DEF TestWatermark, TypeOK, Fanning, Absent, Ordered, Writing, Base
<1>4. CASE SendDone
  BY <1>4 DEF SendDone, TypeOK, Fanning, Absent, Ordered, Writing, Base
<1>5. CASE DrainDone
  BY <1>5 DEF DrainDone, TypeOK, Fanning, Absent, Ordered, Writing, Base
<1>6. CASE PublisherGone
  BY <1>6 DEF PublisherGone, TypeOK, Fanning, Absent, Ordered, Writing, Base
<1>7. CASE Exit
  BY <1>7 DEF Exit, CloseSession, CloseConns, TypeOK, Fanning, Absent, Ordered,
     Writing, Base
<1>8. CASE Shutdown
  BY <1>8 DEF Shutdown, CloseSession, CloseConns, TypeOK, Fanning, Absent, Ordered,
     Writing, Base
<1>9. ASSUME NEW s \in Subs, SendFrame(s) PROVE Ordered(r)'
  <2>1. CASE r # s
    BY <1>9, <2>1 DEF SendFrame, TypeOK, Fanning, Absent, Ordered, Writing, Base
  <2>2. CASE r = s
    <3>1. /\ queue'[r] = Append(queue[r], frames) /\ queue[r] \in Seq(Nat) /\ frames \in Nat
          /\ r \in todo /\ r \notin todo' /\ ppc = "send"
          /\ UNCHANGED <<ppc, wpc, taken, written, frames, failed, subscribers>>
      BY <1>9, <2>2, Zenon DEF SendFrame, TypeOK
    <3>2. /\ Len(queue'[r]) = Len(queue[r]) + 1 /\ Len(queue[r]) \in Nat
          /\ \A i \in 1..Len(queue[r]) : queue'[r][i] = queue[r][i] /\ queue[r][i] \in Nat
          /\ queue'[r][Len(queue[r]) + 1] = frames
      BY <3>1, AppendTo
    <3>3. Ordered(r) /\ taken[r] \in Nat /\ written[r] \in Nat
      BY Zenon DEF TypeOK
    <3>. QED  BY <3>1, <3>2, <3>3 DEF Ordered, Writing, Base
  <2>. QED  BY <2>1, <2>2, Zenon
<1>10. ASSUME NEW s \in Subs, SendFails(s) PROVE Ordered(r)'
  BY <1>10 DEF SendFails, TypeOK, Fanning, Absent, Ordered, Writing, Base
<1>11. ASSUME NEW s \in Subs, WaitForDrain(s) PROVE Ordered(r)'
  BY <1>11 DEF WaitForDrain, TypeOK, Fanning, Absent, Ordered, Writing, Base
<1>12. ASSUME NEW s \in Subs, Register(s) PROVE Ordered(r)'
  <2>1. CASE r # s
    BY <1>12, <2>1 DEF Register, TypeOK, Fanning, Absent, Ordered, Writing, Base
  <2>2. CASE r = s
    <3>1. /\ queue'[r] = <<>> /\ wpc'[r] = "select" /\ UNCHANGED <<ppc, frames, todo, failed>>
          /\ written'[r] = IF ppc = "copy" THEN frames - 1 ELSE frames
          /\ r \notin todo
      BY <1>12, <2>2, Zenon DEF Register, TypeOK, Absent
    <3>2. Len(<<>>) = 0
      BY Zenon
    <3>. QED  BY <3>1, <3>2 DEF TypeOK, Fanning, Ordered, Writing, Base
  <2>. QED  BY <2>1, <2>2
<1>13. ASSUME NEW s \in Subs, Prune(s) PROVE Ordered(r)'
  BY <1>13 DEF Prune, RemoveSubscriber, CloseConns, TypeOK, Fanning, Absent,
     Ordered, Writing, Base
<1>14. ASSUME NEW s \in Subs, SubscriberExit(s) PROVE Ordered(r)'
  BY <1>14 DEF SubscriberExit, RemoveSubscriber, CloseConns, TypeOK, Fanning,
     Absent, Ordered, Writing, Base
<1>15. ASSUME NEW s \in Subs, CloseSocket(s) PROVE Ordered(r)'
  BY <1>15 DEF CloseSocket, TypeOK, Fanning, Absent, Ordered, Writing, Base
<1>16. ASSUME NEW s \in Subs, Take(s) PROVE Ordered(r)'
  <2>1. CASE r # s
    BY <1>16, <2>1 DEF Take, TypeOK, Fanning, Absent, Ordered, Writing, Base
  <2>2. CASE r = s
    <3>1. /\ queue'[r] = Tail(queue[r]) /\ queue[r] \in Seq(Nat) /\ queue[r] # <<>>
          /\ taken'[r] = Head(queue[r]) /\ wpc'[r] = "write" /\ wpc[r] = "select"
          /\ UNCHANGED written
          /\ UNCHANGED <<ppc, todo, frames, failed, subscribers>>
      BY <1>16, <2>2, Zenon DEF Take, TypeOK
    <3>2. /\ Len(queue[r]) \in Nat \ {0} /\ Len(queue'[r]) = Len(queue[r]) - 1
          /\ \A i \in 1..(Len(queue[r]) - 1) : queue'[r][i] = queue[r][i + 1]
          /\ \A i \in 1..Len(queue[r]) : queue[r][i] \in Nat
          /\ Head(queue[r]) = queue[r][1]
      BY <3>1, TailOf
    <3>3. Ordered(r) /\ taken[r] \in Nat /\ written[r] \in Nat /\ frames \in Nat
      BY Zenon DEF TypeOK
    <3>. QED  BY <3>1, <3>2, <3>3 DEF Ordered, Writing, Base
  <2>. QED  BY <2>1, <2>2
<1>17. ASSUME NEW s \in Subs, Encode(s) PROVE Ordered(r)'
  BY <1>17, SMTT(30) DEF Encode, TypeOK, Fanning, Absent, Ordered, Writing, Base
<1>18. ASSUME NEW s \in Subs, EncodeFails(s) PROVE Ordered(r)'
  BY <1>18 DEF EncodeFails, CloseConns, TypeOK, Fanning, Absent, Ordered, Writing,
     Base
<1>19. ASSUME NEW s \in Subs, NoticeDone(s) PROVE Ordered(r)'
  BY <1>19, SMTT(30) DEF NoticeDone, TypeOK, Fanning, Absent, Ordered, Writing, Base
<1>20. ASSUME NEW s \in Subs, Flush(s) PROVE Ordered(r)'
  <2>1. CASE r # s
    BY <1>20, <2>1 DEF Flush, TypeOK, Fanning, Absent, Ordered, Writing, Base
  <2>2. CASE r = s
    <3>1. /\ queue'[r] = Tail(queue[r]) /\ queue[r] \in Seq(Nat) /\ queue[r] # <<>>
          /\ written'[r] = Head(queue[r]) /\ wpc'[r] = wpc[r] /\ wpc[r] = "flush"
          /\ UNCHANGED <<ppc, todo, frames, failed, subscribers>>
      BY <1>20, <2>2, Zenon DEF Flush, TypeOK
    <3>2. /\ Len(queue[r]) \in Nat \ {0} /\ Len(queue'[r]) = Len(queue[r]) - 1
          /\ \A i \in 1..(Len(queue[r]) - 1) : queue'[r][i] = queue[r][i + 1]
          /\ \A i \in 1..Len(queue[r]) : queue[r][i] \in Nat
          /\ Head(queue[r]) = queue[r][1]
      BY <3>1, TailOf
    <3>3. Ordered(r) /\ taken[r] \in Nat /\ written[r] \in Nat /\ frames \in Nat
      BY DEF TypeOK
    <3>. QED  BY <3>1, <3>2, <3>3 DEF Ordered, Writing, Base
  <2>. QED  BY <2>1, <2>2
<1>21. ASSUME NEW s \in Subs, FlushFails(s) PROVE Ordered(r)'
  BY <1>21 DEF FlushFails, TypeOK, Fanning, Absent, Ordered, Writing, Base
<1>22. ASSUME NEW s \in Subs, FlushDone(s) PROVE Ordered(r)'
  BY <1>22 DEF FlushDone, TypeOK, Fanning, Absent, Ordered, Writing, Base
<1>23. CASE UNCHANGED vars
  BY <1>23 DEF TypeOK, Fanning, Absent, Ordered, Writing, Base, vars
<1>. QED
  BY Steps, <1>1, <1>2, <1>3, <1>4, <1>5, <1>6, <1>7, <1>8, <1>9, <1>10,
     <1>11, <1>12, <1>13, <1>14, <1>15, <1>16, <1>17, <1>18, <1>19, <1>20,
     <1>21, <1>22, <1>23, Zenon

\* A run of frames that ends before frame f, and f.
LEMMA AppendRun ==
  ASSUME NEW q \in Seq(Nat), NEW f \in Nat, NEW b \in Nat, b + Len(q) = f - 1,
         \A i \in 1..Len(q) : q[i] = b + i
  PROVE  /\ b + Len(Append(q, f)) = f
         /\ \A i \in 1..Len(Append(q, f)) : Append(q, f)[i] = b + i
<1>1. /\ Len(q) \in Nat /\ Len(Append(q, f)) = Len(q) + 1
      /\ \A i \in 1..Len(q) : Append(q, f)[i] = q[i]
      /\ Append(q, f)[Len(q) + 1] = f
  BY AppendTo
<1>. QED  BY <1>1

\* A run of frames without its first.
LEMMA TailRun ==
  ASSUME NEW q \in Seq(Nat), q # <<>>, NEW b \in Nat, \A i \in 1..Len(q) : q[i] = b + i
  PROVE  /\ Head(q) = b + 1 /\ Len(Tail(q)) = Len(q) - 1 /\ Len(q) \in Nat
         /\ \A i \in 1..Len(Tail(q)) : Tail(q)[i] = b + 1 + i
BY TailOf

\* Frames stay without a gap.
LEMMA UnbrokenStep ==
  ASSUME IInv, [Next]_vars, NEW r \in Subs
  PROVE  Unbroken(r)'
<1>. USE FanoutAssumption DEF IInv, pubVars, sessVars, loopVars, sockVars
<1>1. CASE ReadFrame
  BY <1>1 DEF ReadFrame, TypeOK, Fanning, Absent, Unbroken, Writing, Base, Due
<1>2. CASE CopySubscribers
  BY <1>2, Zenon DEF CopySubscribers, TypeOK, Fanning, Absent, Unbroken, Writing, Base, Due
<1>3. CASE TestWatermark
  BY <1>3, Zenon DEF TestWatermark, TypeOK, Fanning, Absent, Unbroken, Writing, Base, Due
<1>4. CASE SendDone
  BY <1>4, Zenon DEF SendDone, TypeOK, Fanning, Absent, Unbroken, Writing, Base, Due
<1>5. CASE DrainDone
  BY <1>5, Zenon DEF DrainDone, TypeOK, Fanning, Absent, Unbroken, Writing, Base, Due
<1>6. CASE PublisherGone
  BY <1>6, Zenon DEF PublisherGone, TypeOK, Fanning, Absent, Unbroken, Writing, Base, Due
<1>7. CASE Exit
  BY <1>7, Zenon DEF Exit, CloseSession, CloseConns, TypeOK, Fanning, Absent, Unbroken,
     Writing, Base, Due
<1>8. CASE Shutdown
  BY <1>8, Zenon DEF Shutdown, CloseSession, CloseConns, TypeOK, Fanning, Absent,
     Unbroken, Writing, Base, Due
<1>9. ASSUME NEW s \in Subs, SendFrame(s) PROVE Unbroken(r)'
  <2>1. CASE r # s
    BY <1>9, <2>1 DEF SendFrame, TypeOK, Fanning, Absent, Unbroken, Writing, Base,
       Due
  <2>2. CASE r = s
    <3>1. /\ queue'[r] = Append(queue[r], frames) /\ queue[r] \in Seq(Nat) /\ frames \in Nat
          /\ r \in todo /\ r \notin todo' /\ ppc = "send"
          /\ UNCHANGED <<ppc, wpc, taken, written, frames, failed, subscribers>>
      BY <1>9, <2>2 DEF SendFrame, TypeOK
    <3>3. Unbroken(r) /\ taken[r] \in Nat /\ written[r] \in Nat
      BY Zenon DEF TypeOK
    <3>4. SUFFICES ASSUME Writing(r), r \notin failed
                   PROVE  Unbroken(r)'
      BY <3>1, Zenon DEF Unbroken, Writing
    <3>5. /\ Base(r)' = Base(r) /\ Base(r) \in Nat /\ Base(r) + Len(queue[r]) = frames - 1
          /\ \A i \in 1..Len(queue[r]) : queue[r][i] = Base(r) + i
          /\ wpc[r] = "write" => taken[r] = written[r] + 1
      BY <3>1, <3>3, <3>4, Zenon DEF Unbroken, Base, Due
    <3>6. PICK b \in Nat : b = Base(r)
      BY <3>5, Zenon
    <3>7. /\ b + Len(queue'[r]) = frames
          /\ \A i \in 1..Len(queue'[r]) : queue'[r][i] = b + i
      <4>1. b + Len(queue[r]) = frames - 1 /\ \A i \in 1..Len(queue[r]) : queue[r][i] = b + i
        BY <3>5, <3>6, Zenon
      <4>2. queue[r] \in Seq(Nat) /\ frames \in Nat /\ b \in Nat
        BY <3>1, <3>6, Zenon
      <4>3. /\ b + Len(Append(queue[r], frames)) = frames
            /\ \A i \in 1..Len(Append(queue[r], frames)) :
                 Append(queue[r], frames)[i] = b + i
        BY <4>1, <4>2, AppendRun, ZenonT(30)
      <4>. QED  BY <3>1, <4>3, Zenon
    <3>8. Due(r)' = frames
      BY <3>1, Zenon DEF Due
    <3>. QED  BY <3>1, <3>5, <3>6, <3>7, <3>8, Zenon DEF Unbroken
  <2>. QED  BY <2>1, <2>2, Zenon
<1>10. ASSUME NEW s \in Subs, SendFails(s) PROVE Unbroken(r)'
  BY <1>10, Zenon DEF SendFails, TypeOK, Fanning, Absent, Unbroken, Writing, Base, Due
<1>11. ASSUME NEW s \in Subs, WaitForDrain(s) PROVE Unbroken(r)'
  BY <1>11, Zenon DEF WaitForDrain, TypeOK, Fanning, Absent, Unbroken, Writing, Base, Due
<1>12. ASSUME NEW s \in Subs, Register(s) PROVE Unbroken(r)'
  <2>1. CASE r # s
    BY <1>12, <2>1 DEF Register, TypeOK, Fanning, Absent, Unbroken, Writing, Base,
       Due
  <2>2. CASE r = s
    <3>1. /\ queue'[r] = <<>> /\ wpc'[r] = "select" /\ UNCHANGED <<ppc, frames, todo, failed>>
          /\ written'[r] = IF ppc = "copy" THEN frames - 1 ELSE frames
          /\ r \notin todo
      BY <1>12, <2>2 DEF Register, TypeOK, Absent
    <3>2. Len(<<>>) = 0
      OBVIOUS
    <3>. QED  BY <3>1, <3>2 DEF TypeOK, Fanning, Unbroken, Writing, Base, Due
  <2>. QED  BY <2>1, <2>2
<1>13. ASSUME NEW s \in Subs, Prune(s) PROVE Unbroken(r)'
  BY <1>13, Zenon DEF Prune, RemoveSubscriber, CloseConns, TypeOK, Fanning, Absent,
     Unbroken, Writing, Base, Due
<1>14. ASSUME NEW s \in Subs, SubscriberExit(s) PROVE Unbroken(r)'
  BY <1>14, Zenon DEF SubscriberExit, RemoveSubscriber, CloseConns, TypeOK, Fanning,
     Absent, Unbroken, Writing, Base, Due
<1>15. ASSUME NEW s \in Subs, CloseSocket(s) PROVE Unbroken(r)'
  BY <1>15, Zenon DEF CloseSocket, TypeOK, Fanning, Absent, Unbroken, Writing, Base, Due
<1>16. ASSUME NEW s \in Subs, Take(s) PROVE Unbroken(r)'
  <2>1. CASE r # s
    BY <1>16, <2>1 DEF Take, TypeOK, Fanning, Absent, Unbroken, Writing, Base, Due
  <2>2. CASE r = s
    <3>1. /\ queue'[r] = Tail(queue[r]) /\ queue[r] \in Seq(Nat) /\ queue[r] # <<>>
          /\ taken'[r] = Head(queue[r]) /\ wpc'[r] = "write" /\ wpc[r] = "select"
          /\ UNCHANGED written
          /\ UNCHANGED <<ppc, todo, frames, failed, subscribers>>
      BY <1>16, <2>2 DEF Take, TypeOK
    <3>2. /\ Len(queue[r]) \in Nat \ {0} /\ Len(queue'[r]) = Len(queue[r]) - 1
          /\ \A i \in 1..(Len(queue[r]) - 1) : queue'[r][i] = queue[r][i + 1]
          /\ \A i \in 1..Len(queue[r]) : queue[r][i] \in Nat
          /\ Head(queue[r]) = queue[r][1]
      BY <3>1, TailOf
    <3>3. Unbroken(r) /\ taken[r] \in Nat /\ written[r] \in Nat /\ frames \in Nat
      BY Zenon DEF TypeOK
    <3>4. SUFFICES ASSUME Writing(r), r \notin failed
                   PROVE  Unbroken(r)'
      BY <3>1, Zenon DEF Unbroken, Writing
    <3>5. /\ Base(r) = written[r] /\ Base(r)' = Base(r) + 1 /\ Due(r)' = Due(r)
          /\ \A i \in 1..Len(queue[r]) : queue[r][i] = Base(r) + i
          /\ r \in subscribers \cup todo => Base(r) + Len(queue[r]) = Due(r)
      BY <3>1, <3>2, <3>3, <3>4, SMTT(30) DEF Unbroken, Base, Due
    <3>6. PICK b \in Nat : b = Base(r)
      BY <3>3, <3>5, Zenon
    <3>7. /\ Len(queue'[r]) = Len(queue[r]) - 1 /\ Len(queue[r]) \in Nat
          /\ \A i \in 1..Len(queue'[r]) : queue'[r][i] = b + 1 + i
      <4>1. \A i \in 1..Len(queue[r]) : queue[r][i] = b + i
        BY <3>5, <3>6, Zenon
      <4>2. /\ Len(Tail(queue[r])) = Len(queue[r]) - 1 /\ Len(queue[r]) \in Nat
            /\ \A i \in 1..Len(Tail(queue[r])) : Tail(queue[r])[i] = b + 1 + i
        BY <3>1, <3>6, <4>1, TailRun, Zenon
      <4>. QED  BY <3>1, <4>2, Zenon
    <3>8. r \in subscribers \cup todo => b + 1 + Len(queue'[r]) = Due(r)'
      <4>1. r \in subscribers \cup todo => b + Len(queue[r]) = Due(r)'
        BY <3>5, <3>6, Zenon
      <4>2. b + 1 + Len(queue'[r]) = b + Len(queue[r])
        BY <3>6, <3>7
      <4>. QED  BY <4>1, <4>2, Zenon
    <3>9. wpc'[r] = "write" => taken'[r] = written'[r] + 1
      BY <3>1, <3>2, <3>3, <3>5, Zenon DEF Base
    <3>. QED  BY <3>1, <3>5, <3>6, <3>7, <3>8, <3>9, Zenon DEF Unbroken
  <2>. QED  BY <2>1, <2>2
<1>17. ASSUME NEW s \in Subs, Encode(s) PROVE Unbroken(r)'
  BY <1>17 DEF Encode, TypeOK, Fanning, Absent, Unbroken, Writing, Base, Due
<1>18. ASSUME NEW s \in Subs, EncodeFails(s) PROVE Unbroken(r)'
  BY <1>18, Zenon DEF EncodeFails, CloseConns, TypeOK, Fanning, Absent, Unbroken, Writing,
     Base, Due
<1>19. ASSUME NEW s \in Subs, NoticeDone(s) PROVE Unbroken(r)'
  BY <1>19 DEF NoticeDone, TypeOK, Fanning, Absent, Unbroken, Writing, Base, Due
<1>20. ASSUME NEW s \in Subs, Flush(s) PROVE Unbroken(r)'
  <2>1. CASE r # s
    BY <1>20, <2>1 DEF Flush, TypeOK, Fanning, Absent, Unbroken, Writing, Base, Due
  <2>2. CASE r = s
    <3>1. /\ queue'[r] = Tail(queue[r]) /\ queue[r] \in Seq(Nat) /\ queue[r] # <<>>
          /\ written'[r] = Head(queue[r]) /\ wpc'[r] = wpc[r] /\ wpc[r] = "flush"
          /\ UNCHANGED <<ppc, todo, frames, failed, subscribers>>
      BY <1>20, <2>2 DEF Flush, TypeOK
    <3>2. /\ Len(queue[r]) \in Nat \ {0} /\ Len(queue'[r]) = Len(queue[r]) - 1
          /\ \A i \in 1..(Len(queue[r]) - 1) : queue'[r][i] = queue[r][i + 1]
          /\ \A i \in 1..Len(queue[r]) : queue[r][i] \in Nat
          /\ Head(queue[r]) = queue[r][1]
      BY <3>1, TailOf
    <3>3. Unbroken(r) /\ taken[r] \in Nat /\ written[r] \in Nat /\ frames \in Nat
      BY DEF TypeOK
    <3>4. SUFFICES ASSUME Writing(r), r \notin failed
                   PROVE  Unbroken(r)'
      BY <3>1, Zenon DEF Unbroken, Writing
    <3>5. /\ Base(r) = written[r] /\ Base(r)' = Base(r) + 1 /\ Due(r)' = Due(r)
          /\ \A i \in 1..Len(queue[r]) : queue[r][i] = Base(r) + i
          /\ r \in subscribers \cup todo => Base(r) + Len(queue[r]) = Due(r)
      BY <3>1, <3>2, <3>3, <3>4, SMTT(30) DEF Unbroken, Base, Due
    <3>6. PICK b \in Nat : b = Base(r)
      BY <3>3, <3>5
    <3>7. /\ Len(queue'[r]) = Len(queue[r]) - 1 /\ Len(queue[r]) \in Nat
          /\ \A i \in 1..Len(queue'[r]) : queue'[r][i] = b + 1 + i
      <4>1. \A i \in 1..Len(queue[r]) : queue[r][i] = b + i
        BY <3>5, <3>6
      <4>2. /\ Len(Tail(queue[r])) = Len(queue[r]) - 1 /\ Len(queue[r]) \in Nat
            /\ \A i \in 1..Len(Tail(queue[r])) : Tail(queue[r])[i] = b + 1 + i
        BY <3>1, <3>6, <4>1, TailRun, Zenon
      <4>. QED  BY <3>1, <4>2, Zenon
    <3>8. r \in subscribers \cup todo => b + 1 + Len(queue'[r]) = Due(r)'
      <4>1. r \in subscribers \cup todo => b + Len(queue[r]) = Due(r)'
        BY <3>5, <3>6
      <4>2. b + 1 + Len(queue'[r]) = b + Len(queue[r])
        BY <3>6, <3>7
      <4>. QED  BY <4>1, <4>2
    <3>9. wpc'[r] = "write" => taken'[r] = written'[r] + 1
      BY <3>1, <3>2, <3>3, <3>5, Zenon DEF Base
    <3>. QED  BY <3>1, <3>5, <3>6, <3>7, <3>8, <3>9, Zenon DEF Unbroken
  <2>. QED  BY <2>1, <2>2
<1>21. ASSUME NEW s \in Subs, FlushFails(s) PROVE Unbroken(r)'
  BY <1>21 DEF FlushFails, TypeOK, Fanning, Absent, Unbroken, Writing, Base, Due
<1>22. ASSUME NEW s \in Subs, FlushDone(s) PROVE Unbroken(r)'
  BY <1>22 DEF FlushDone, TypeOK, Fanning, Absent, Unbroken, Writing, Base, Due
<1>23. CASE UNCHANGED vars
  BY <1>23 DEF TypeOK, Fanning, Absent, Unbroken, Writing, Base, Due, vars
<1>. QED
  BY Steps, <1>1, <1>2, <1>3, <1>4, <1>5, <1>6, <1>7, <1>8, <1>9, <1>10,
     <1>11, <1>12, <1>13, <1>14, <1>15, <1>16, <1>17, <1>18, <1>19, <1>20,
     <1>21, <1>22, <1>23, Zenon

-----------------------------------------------------------------------------

\* Only two steps of its own writeLoop write to a registered subscriber.
LEMMA WrittenSteps ==
  ASSUME IInv, [Next]_vars, NEW r \in Subs, wpc[r] # "none", written'[r] # written[r]
  PROVE  Encode(r) \/ Flush(r)
<1>. USE DEF IInv, TypeOK
<1>1. ~ UNCHANGED sockVars /\ ~ UNCHANGED written
  BY Zenon DEF sockVars
<1>2. ~ (ReadFrame \/ CopySubscribers \/ TestWatermark \/ SendDone \/ DrainDone
         \/ PublisherGone \/ Exit \/ Shutdown \/ UNCHANGED vars)
  BY <1>1, Zenon DEF ReadFrame, CopySubscribers, TestWatermark, SendDone, DrainDone,
              PublisherGone, Exit, Shutdown, vars
<1>3. ASSUME NEW s \in Subs
      PROVE  ~ (\/ SendFrame(s) \/ SendFails(s) \/ WaitForDrain(s) \/ Prune(s)
                \/ SubscriberExit(s) \/ CloseSocket(s) \/ Take(s) \/ EncodeFails(s)
                \/ NoticeDone(s) \/ FlushFails(s) \/ FlushDone(s))
  BY <1>1, Zenon DEF SendFrame, SendFails, WaitForDrain, Prune, SubscriberExit,
     CloseSocket,
              Take, EncodeFails, NoticeDone, FlushFails, FlushDone
<1>4. ASSUME NEW s \in Subs, Register(s) \/ Encode(s) \/ Flush(s) PROVE s = r /\ ~ Register(s)
  BY <1>4, Zenon DEF Register, Encode, Flush
<1>. QED  BY Steps, <1>2, <1>3, <1>4, Zenon

\* Every step preserves the invariant.
LEMMA Inductive == IInv /\ [Next]_vars => IInv'
BY TypesStep, WaterStep, PrunedStep, AbsentStep, OrderedStep, UnbrokenStep, Zenon DEF IInv

\* The inductive invariant holds throughout.
THEOREM Invariance == Spec => []IInv
BY InitInv, Inductive, PTL DEF Spec

\* The watermarks bound the queue of every open subscriber that WaitForDrain never
\* gave up on, whatever the queue size, the watermarks and the other subscribers do.
THEOREM Watermarks == Spec => []QueueBelowHigh
<1>1. IInv => QueueBelowHigh
  BY FanoutAssumption DEF IInv, Water, TypeOK, QueueBelowHigh
<1>. QED  BY <1>1, Invariance, PTL

\* A subscriber is only given up on account of its own queue or connection.
THEOREM OwnFault == Spec => []OnlySlowPruned
<1>1. IInv => OnlySlowPruned
  BY Zenon DEF IInv
<1>. QED  BY <1>1, Invariance, PTL

\* What is written to a subscriber's socket is an unbroken run of the publisher's
\* frames, for any number of frames and subscribers.
THEOREM Order == Spec => OrderedRun
<1>. DEFINE Run == \A s \in Subs : wpc[s] # "none" /\ written'[s] # written[s] =>
                     /\ written'[s] > written[s]
                     /\ s \notin failed => written'[s] = written[s] + 1
<1>1. ASSUME IInv, [Next]_vars PROVE [Run]_vars
  <2>. SUFFICES ASSUME NEW s \in Subs, wpc[s] # "none", written'[s] # written[s]
                PROVE  /\ written'[s] > written[s]
                       /\ s \notin failed => written'[s] = written[s] + 1
    BY Zenon
  <2>1. Encode(s) \/ Flush(s)
    BY <1>1, WrittenSteps, Zenon
  <2>2. queue[s] \in Seq(Nat) /\ written[s] \in Nat /\ taken[s] \in Nat
    BY <1>1, Zenon DEF IInv, TypeOK
  <2>3. CASE Encode(s)
    BY <1>1, <2>2, <2>3, Zenon DEF Encode, IInv, TypeOK, Ordered, Unbroken, Writing
  <2>4. CASE Flush(s)
    <3>1. /\ written'[s] = queue[s][1] /\ 1 \in 1..Len(queue[s]) /\ queue[s][1] \in Nat
          /\ wpc[s] = "flush"
      BY <1>1, <2>2, <2>4, TailOf DEF Flush,
         IInv, TypeOK
    <3>. QED  BY <1>1, <2>2, <3>1, Zenon DEF IInv, Ordered, Unbroken, Writing, Base
  <2>. QED  BY <2>1, <2>3, <2>4, Zenon
<1>. QED  BY <1>1, Invariance, PTL DEF Spec, OrderedRun
=============================================================================
