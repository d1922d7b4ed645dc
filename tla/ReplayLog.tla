------------------------------ MODULE ReplayLog ------------------------------
(***************************************************************************)
(* What the engines rely on from the in-memory replay buffer: it is the    *)
(* sequence of the latest messages, oldest first, never more than its      *)
(* capacity.  RingBuffer implements it with a circular array; Publisher    *)
(* uses it.  Every operation runs under the buffer's own mutex.            *)
(***************************************************************************)
EXTENDS Integers, Sequences

CONSTANT Capacity   \* the number of messages kept in memory

ASSUME CapacityAssumption == Capacity \in Nat \ {0}

VARIABLE replay     \* the buffered messages, [seq, body] records

LogInit == replay = <<>>

\* Push: append the message, dropping the oldest when the buffer is full.
Push(e) ==
  replay' = IF Len(replay) = Capacity THEN Append(Tail(replay), e)
                                      ELSE Append(replay, e)

Wipe == replay' = <<>>

\* GetAfter: the messages newer than last, as a function from their positions
\* (they are sent in the order of the positions).
GetAfter(last) == [i \in {j \in 1..Len(replay) : replay[j].seq > last} |-> replay[i]]

LogNext == Wipe \/ (replay' # <<>> /\ Push(replay'[Len(replay')]))

LogSpec == LogInit /\ [][LogNext]_replay
=============================================================================
