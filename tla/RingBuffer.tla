----------------------------- MODULE RingBuffer ------------------------------
(***************************************************************************)
(* The circular replay buffer (pkg/feed/ringbuffer.go).  A slot holds a    *)
(* sequence number and a payload; a nil payload is a slot whose memory was *)
(* scrubbed and given back to the buffer pool.                             *)
(***************************************************************************)
EXTENDS Integers, Sequences

CONSTANTS Capacity,   \* rb.capacity, positive (NewRingBuffer defaults it to 100)
          Seqs,       \* the sequence numbers that occur
          Bodies,     \* the payloads that occur
          Nil         \* the nil payload

ASSUME RingAssumption ==
  /\ Capacity \in Nat \ {0}
  /\ Seqs \subseteq Nat \ {0}
  /\ Nil \notin Bodies

VARIABLES data,       \* rb.data: slot -> [seq, body]
          head,       \* rb.head: the slot of the oldest message
          tail,       \* rb.tail: the slot of the next message
          size,       \* rb.size
          \* History since the latest Wipe:
          newest,     \* the number pushed last
          inOrder,    \* the numbers were pushed in increasing order
          evicted     \* the numbers that were overwritten

history == <<newest, inOrder, evicted>>
vars == <<data, head, tail, size, history>>

Slots == 0..(Capacity - 1)

\* NewRingBuffer
Init ==
  /\ data = [k \in Slots |-> [seq |-> 0, body |-> Nil]]
  /\ head = 0 /\ tail = 0 /\ size = 0
  /\ newest = 0 /\ inOrder = TRUE /\ evicted = {}

\* Faulty variant of PushMessage: a full buffer keeps its head.
PushMessageStuckHead(s, b) ==
  /\ newest' = s /\ inOrder' = (inOrder /\ s > newest)
  /\ data' = [data EXCEPT ![tail] = [seq |-> s, body |-> b]]
  /\ tail' = (tail + 1) % Capacity
  /\ size' = IF size = Capacity THEN size ELSE size + 1
  /\ UNCHANGED <<head, evicted>>

\* Push, with whatever number the caller has: publishPayload draws the number
\* and pushes in two steps, so two publishers may push theirs in either order,
\* and a rekey frame takes a number that is never pushed.
PushMessage(s, b) ==
  /\ newest' = s /\ inOrder' = (inOrder /\ s > newest)
  /\ LET full == size = Capacity
     IN  /\ head' = IF full THEN (head + 1) % Capacity ELSE head
         /\ size' = (IF full THEN size - 1 ELSE size) + 1
         /\ evicted' = IF full THEN evicted \cup {data[head].seq} ELSE evicted
  /\ data' = [data EXCEPT ![tail] = [seq |-> s, body |-> b]]
  /\ tail' = (tail + 1) % Capacity

\* Faulty variant of WipeAll: only scrubs the slots before tail.
WipeAllToTail ==
  /\ data' = [k \in Slots |-> IF k < tail THEN [seq |-> 0, body |-> Nil] ELSE data[k]]
  /\ head' = 0 /\ tail' = 0 /\ size' = 0
  /\ newest' = 0 /\ inOrder' = TRUE /\ evicted' = {}

\* Wipe: every slot that has a payload is scrubbed, in use or not.
WipeAll ==
  /\ data' = [k \in Slots |-> IF data[k].body # Nil THEN [seq |-> 0, body |-> Nil]
                              ELSE data[k]]
  /\ head' = 0 /\ tail' = 0 /\ size' = 0
  /\ newest' = 0 /\ inOrder' = TRUE /\ evicted' = {}

Next == WipeAll \/ \E s \in Seqs, b \in Bodies : PushMessage(s, b)

Spec == Init /\ [][Next]_vars

-----------------------------------------------------------------------------
(* Queries                                                                 *)

\* Slot of the i-th oldest message, i in 0..size-1.
Slot(i) == (head + i) % Capacity

\* GetAll: the messages from the oldest to the newest.
Contents == [i \in 1..size |-> data[Slot(i - 1)]]

\* Faulty variant of IsOverflow: an off-by-one in the comparison.
IsOverflowLate(last) ==
  /\ size # 0 /\ last # 0
  /\ data[head].seq > 0 /\ last < data[head].seq - 2

IsOverflow(last) ==
  /\ size # 0 /\ last # 0
  /\ data[head].seq > 0 /\ last < data[head].seq - 1

-----------------------------------------------------------------------------
(* Properties                                                              *)

\* The circular array with its wrapped indices implements the plain sequence
\* of the latest messages (Push, Wipe and GetAll of ringbuffer.go).
Log == INSTANCE ReplayLog WITH replay <- Contents
ImplementsLog == Log!LogSpec

TypeOK ==
  /\ data \in [Slots -> [seq : Seqs \cup {0}, body : Bodies \cup {Nil}]]
  /\ head \in Slots /\ tail \in Slots /\ size \in 0..Capacity
  /\ newest \in Seqs \cup {0} /\ inOrder \in BOOLEAN /\ evicted \subseteq Seqs

\* Exactly the slots of the live window hold a payload: nothing readable stays
\* behind a wipe or an overwrite, and no live slot was scrubbed.
LiveSlots == {Slot(i) : i \in 0..(size - 1)}
ScrubbedOutside ==
  \A k \in Slots : data[k].body # Nil <=> k \in LiveSlots

\* As long as the numbers were pushed in increasing order, as one publisher
\* pushes them, IsOverflow answers yes for the number of every message that has
\* a later one among those overwritten, also across gaps in the numbers.  With
\* numbers pushed out of order it may miss one.  Only tests call IsOverflow: the
\* engines replay what GetAfter finds and report nothing.
MissReported ==
  inOrder =>
    \A last \in evicted \cup {data[k].seq : k \in LiveSlots} :
      (\E s \in evicted : s > last) => IsOverflow(last)
=============================================================================
