----------------------------- MODULE StorageProofs -----------------------------
(***************************************************************************)
(* What the engines keep: the ring buffer of messages and the registry of  *)
(* secrets to wipe.                                                        *)
(*                                                                         *)
(* The circular buffer implements the plain replay log, scrubs what is not *)
(* live and reports what was overwritten, for every capacity and any sets  *)
(* of sequence numbers and payloads.  No secret is forgotten, for any      *)
(* number of chunks.                                                       *)
(***************************************************************************)
EXTENDS RingBuffer, WipeRegistry, TLAPS

\* The tail of a sequence.
LEMMA TailOf ==
  ASSUME NEW S, NEW q \in Seq(S), q # <<>>
  PROVE  /\ Tail(q) \in Seq(S) /\ Len(Tail(q)) = Len(q) - 1
         /\ \A i \in 1..(Len(q) - 1) : Tail(q)[i] = q[i + 1]
OBVIOUS

\* A sequence with an element more.
LEMMA AppendTo ==
  ASSUME NEW S, NEW q \in Seq(S), NEW e \in S
  PROVE  /\ Append(q, e) \in Seq(S) /\ Len(Append(q, e)) = Len(q) + 1
         /\ Append(q, e)[Len(q) + 1] = e
         /\ \A i \in 1..Len(q) : Append(q, e)[i] = q[i]
OBVIOUS

\* Wrapping an index that is at most one lap ahead of a slot.
LEMMA Wrap ==
  ASSUME NEW h \in Slots, NEW i \in 0..Capacity
  PROVE  /\ (h + i) % Capacity = IF h + i < Capacity THEN h + i
                                                    ELSE h + i - Capacity
         /\ (h + i) % Capacity \in Slots
<1>1. h + i \in 0..(2 * Capacity - 1)
  BY RingAssumption DEF Slots
<1>2. \A a \in 0..(2 * Capacity - 1) :
        a % Capacity = IF a < Capacity THEN a ELSE a - Capacity
  BY RingAssumption
<1>. QED  BY <1>1, <1>2, RingAssumption DEF Slots

\* The tail is one past the newest message, and live slots carry real numbers.
WindowInv ==
  /\ tail = Slot(size)
  /\ \A k \in Slots : data[k].body # Nil => data[k].seq \in Seqs

RInv == TypeOK /\ WindowInv /\ ScrubbedOutside

\* The slots of the window, without the modulus.
LEMMA SlotValue ==
  ASSUME head \in Slots, NEW i \in 0..Capacity
  PROVE  /\ Slot(i) = IF head + i < Capacity THEN head + i ELSE head + i - Capacity
         /\ Slot(i) \in Slots
BY Wrap, Zenon DEF Slot

\* Every slot is in the window of a full buffer.
LEMMA FullWindow ==
  ASSUME RInv, size = Capacity, NEW k \in Slots
  PROVE  k \in LiveSlots
<1>. DEFINE i == IF k >= head THEN k - head ELSE k - head + Capacity
<1>1. i \in 0..(Capacity - 1)
  BY RingAssumption DEF RInv, TypeOK, Slots
<1>2. Slot(i) = IF head + i < Capacity THEN head + i ELSE head + i - Capacity
  BY <1>1, SlotValue, RingAssumption DEF RInv, TypeOK
<1>3. Slot(i) = k
  BY <1>2, RingAssumption DEF RInv, TypeOK, Slots
<1>. QED  BY <1>1, <1>3, Zenon DEF RInv, TypeOK, LiveSlots

\* Indices and window after a push, in both cases.
LEMMA PushWindow ==
  ASSUME RInv, NEW s \in Seqs, NEW b \in Bodies, PushMessage(s, b)
  PROVE  /\ TypeOK'
         /\ head' = IF size = Capacity THEN Slot(1) ELSE head
         /\ size' = IF size = Capacity THEN Capacity ELSE size + 1
         /\ tail' = Slot(size)'
         /\ size = Capacity => tail = head
         /\ data' = [data EXCEPT ![tail] = [seq |-> s, body |-> b]]
<1>1. /\ head' = IF size = Capacity THEN Slot(1) ELSE head
      /\ size' = IF size = Capacity THEN Capacity ELSE size + 1
      /\ data' = [data EXCEPT ![tail] = [seq |-> s, body |-> b]]
      /\ tail' = (tail + 1) % Capacity
  BY RingAssumption DEF RInv, TypeOK, PushMessage, Slot
<1>2. size = Capacity => data[head].seq \in Seqs
  BY FullWindow, Zenon DEF RInv, TypeOK, WindowInv, ScrubbedOutside
<1>3. tail \in Slots /\ 1 \in 0..Capacity
  BY RingAssumption DEF RInv, TypeOK
<1>4. tail' \in Slots /\ tail' = IF tail + 1 < Capacity THEN tail + 1 ELSE 0
  <2>1. /\ tail' = IF tail + 1 < Capacity THEN tail + 1 ELSE tail + 1 - Capacity
        /\ tail' \in Slots
    BY <1>1, <1>3, Wrap, Zenon
  <2>. QED  BY <1>3, <2>1, RingAssumption DEF Slots
<1>5. head' \in Slots /\ size' \in 0..Capacity
  BY <1>1, SlotValue, RingAssumption DEF RInv, TypeOK
<1>6. TypeOK'
  <2>1. data' \in [Slots -> [seq : Seqs \cup {0}, body : Bodies \cup {Nil}]]
    BY <1>1, <1>3, Zenon DEF RInv, TypeOK
  <2>2. newest' \in Seqs \cup {0} /\ inOrder' \in BOOLEAN /\ evicted' \subseteq Seqs
    BY <1>2, Zenon DEF RInv, TypeOK, PushMessage
  <2>. QED  BY <1>4, <1>5, <2>1, <2>2, Zenon DEF TypeOK
<1>7. tail = IF head + size < Capacity THEN head + size ELSE head + size - Capacity
  BY SlotValue, Zenon DEF RInv, TypeOK, WindowInv
<1>8. size = Capacity => tail = head
  BY <1>7, RingAssumption DEF RInv, TypeOK, Slots
<1>9. tail' = Slot(size)'
  <2>1. (Slot(size))' = IF head' + size' < Capacity THEN head' + size'
                        ELSE head' + size' - Capacity
    BY <1>5, Wrap, Zenon DEF Slot
  <2>2. Slot(1) = IF head + 1 < Capacity THEN head + 1 ELSE 0
    BY <1>3, SlotValue, RingAssumption DEF RInv, TypeOK, Slots
  <2>3. CASE size = Capacity
    BY <1>1, <1>4, <1>8, <2>1, <2>2, <2>3, RingAssumption DEF RInv, TypeOK, Slots
  <2>4. CASE size # Capacity
    BY <1>1, <1>4, <1>7, <2>1, <2>4, RingAssumption DEF RInv, TypeOK, Slots
  <2>. QED  BY <2>3, <2>4, Zenon
<1>. QED  BY <1>1, <1>6, <1>8, <1>9, Zenon

\* Pushing changes the payload of the tail slot only, which joins the window.
LEMMA PushInv ==
  ASSUME RInv, NEW s \in Seqs, NEW b \in Bodies, PushMessage(s, b)
  PROVE  RInv'
<1>1. /\ TypeOK' /\ tail' = Slot(size)' /\ (size = Capacity => tail = head)
      /\ head' = IF size = Capacity THEN Slot(1) ELSE head
      /\ size' = IF size = Capacity THEN Capacity ELSE size + 1
      /\ data' = [data EXCEPT ![tail] = [seq |-> s, body |-> b]]
  BY PushWindow, Zenon
<1>2. WindowInv'
  BY <1>1, Zenon DEF RInv, TypeOK, WindowInv
<1>3. ScrubbedOutside'
  <2>1. CASE size = Capacity
    <3>1. \A k \in Slots : data'[k].body # Nil
      BY <1>1, <2>1, FullWindow, RingAssumption, Zenon DEF RInv, TypeOK, ScrubbedOutside
    <3>2. ASSUME NEW k \in Slots PROVE k \in LiveSlots'
      <4>. DEFINE i == IF k >= head' THEN k - head' ELSE k - head' + Capacity
      <4>1. i \in 0..(Capacity - 1) /\ size' = Capacity
        BY <1>1, <2>1, RingAssumption DEF TypeOK, Slots
      <4>2. (head' + i) % Capacity = IF head' + i < Capacity THEN head' + i
                                      ELSE head' + i - Capacity
        BY <1>1, <4>1, Wrap, RingAssumption DEF TypeOK
      <4>3. (head' + i) % Capacity = k
        BY <1>1, <4>2, RingAssumption DEF TypeOK, Slots
      <4>. QED  BY <4>1, <4>3, Zenon DEF LiveSlots, Slot
    <3>. QED  BY <3>1, <3>2, Zenon DEF ScrubbedOutside
  <2>2. CASE size # Capacity
    <3>1. LiveSlots' = LiveSlots \cup {tail}
      <4>1. head' = head /\ size' = size + 1 /\ size \in Nat
        BY <1>1, <2>2 DEF RInv, TypeOK
      <4>2. LiveSlots' = {Slot(i) : i \in 0..size}
        BY <4>1 DEF LiveSlots, Slot
      <4>3. 0..size = (0..(size - 1)) \cup {size}
        BY <4>1
      <4>. QED  BY <4>2, <4>3, Zenon DEF LiveSlots, RInv, WindowInv
    <3>. QED  BY <1>1, <3>1, RingAssumption, Zenon DEF RInv, TypeOK, ScrubbedOutside
  <2>. QED  BY <2>1, <2>2, Zenon
<1>. QED  BY <1>1, <1>2, <1>3, Zenon DEF RInv

LEMMA WipeInv ==
  ASSUME RInv, WipeAll
  PROVE  RInv'
<1>1. TypeOK' /\ size' = 0 /\ tail' = 0 /\ head' = 0
      /\ \A k \in Slots : data'[k].body = Nil
  BY RingAssumption DEF RInv, TypeOK, WipeAll, Slots
<1>2. 0 % Capacity = 0
  BY RingAssumption
<1>. QED  BY <1>1, <1>2 DEF RInv, WindowInv, ScrubbedOutside, LiveSlots, Slot

LEMMA InitInv == Init => RInv
<1>1. 0 % Capacity = 0 /\ 0 \in Slots
  BY RingAssumption DEF Slots
<1>. QED  BY <1>1, RingAssumption DEF Init, RInv, TypeOK, WindowInv,
             ScrubbedOutside, LiveSlots, Slot, Slots

\* The window invariant holds in every reachable state.
THEOREM Invariance == Spec => []RInv
<1>1. RInv /\ UNCHANGED vars => RInv'
  BY DEF vars, history, RInv, TypeOK, WindowInv, ScrubbedOutside, LiveSlots, Slot, Slots
<1>2. RInv /\ [Next]_vars => RInv'
  BY <1>1, PushInv, WipeInv, Zenon DEF Next
<1>. QED  BY <1>2, InitInv, PTL DEF Spec

\* Payload memory outside the live window is always scrubbed.
THEOREM Scrubbed == Spec => []ScrubbedOutside
<1>1. RInv => ScrubbedOutside
  BY Zenon DEF RInv
<1>. QED  BY <1>1, Invariance, PTL

-----------------------------------------------------------------------------
(* Refinement *)

Entries == [seq : Seqs \cup {0}, body : Bodies \cup {Nil}]

\* What a push on the circular array does to the window, read as a sequence.
LEMMA PushContents ==
  ASSUME RInv, NEW s \in Seqs, NEW b \in Bodies, PushMessage(s, b)
  PROVE  /\ Contents \in Seq(Entries) /\ Len(Contents) = size
         /\ Contents' = IF size = Capacity
                        THEN Append(Tail(Contents), [seq |-> s, body |-> b])
                        ELSE Append(Contents, [seq |-> s, body |-> b])
<1>. DEFINE e == [seq |-> s, body |-> b]
<1>1. /\ TypeOK' /\ (size = Capacity => tail = head)
      /\ head' = IF size = Capacity THEN Slot(1) ELSE head
      /\ size' = IF size = Capacity THEN Capacity ELSE size + 1
      /\ data' = [data EXCEPT ![tail] = e]
  BY PushWindow, Zenon
<1>2. /\ head \in Slots /\ tail \in Slots /\ size \in 0..Capacity
      /\ tail = Slot(size) /\ Capacity \in Nat \ {0}
      /\ data \in [Slots -> [seq : Seqs \cup {0}, body : Bodies \cup {Nil}]]
  BY RingAssumption, Zenon DEF RInv, TypeOK, WindowInv
<1>3. Contents \in Seq([seq : Seqs \cup {0}, body : Bodies \cup {Nil}])
      /\ Len(Contents) = size
  BY <1>2, SlotValue DEF Contents
<1>4. \A i \in 0..Capacity :
        /\ Slot(i) = IF head + i < Capacity THEN head + i ELSE head + i - Capacity
        /\ Slot(i) \in Slots
  BY <1>2, SlotValue, Zenon
<1>5. CASE size = Capacity
  <2>1. head' = (IF head + 1 < Capacity THEN head + 1 ELSE 0) /\ head' \in Slots
    BY <1>1, <1>2, <1>4, <1>5, SMTT(30) DEF Slots
  <2>. DEFINE N(i) == (head' + i) % Capacity
  <2>2. ASSUME NEW i \in 0..(Capacity - 1)
        PROVE  N(i) = IF head' + i < Capacity THEN head' + i ELSE head' + i - Capacity
    <3>1. i \in 0..Capacity
      BY <1>2
    <3>. QED  BY <2>1, <3>1, Wrap, Zenon
  <2>3. Contents' = [i \in 1..Capacity |-> data'[N(i - 1)]]
    BY <1>1, <1>5, Zenon DEF Contents, Slot
  <2>. HIDE DEF N
  <2>4. ASSUME NEW i \in 1..(Capacity - 1)
        PROVE  N(i - 1) = Slot(i) /\ Slot(i) # tail
    <3>1. N(i - 1) = IF head' + (i - 1) < Capacity THEN head' + (i - 1)
                     ELSE head' + (i - 1) - Capacity
      BY <1>2, <2>2
    <3>2. Slot(i) = IF head + i < Capacity THEN head + i ELSE head + i - Capacity
      BY <1>2, <1>4
    <3>. QED  BY <1>1, <1>2, <1>5, <2>1, <3>1, <3>2 DEF Slots
  <2>5. N(Capacity - 1) = tail
    <3>1. N(Capacity - 1) = IF head' + (Capacity - 1) < Capacity
                            THEN head' + (Capacity - 1)
                            ELSE head' + (Capacity - 1) - Capacity
      BY <1>2, <2>2
    <3>. QED  BY <1>1, <1>2, <1>5, <2>1, <3>1 DEF Slots
  <2>6. \A i \in 1..Capacity :
          data'[N(i - 1)] = IF i = Capacity THEN e ELSE data[Slot(i)]
    BY <1>1, <1>2, <1>4, <2>4, <2>5
  <2>7. Append(Tail(Contents), e) =
          [i \in 1..Capacity |-> IF i = Capacity THEN e ELSE data[Slot(i)]]
    <3>1. \A i \in 1..(Capacity - 1) : Contents[i + 1] = data[Slot(i)]
      BY <1>2, <1>5 DEF Contents
    <3>2. Contents # <<>>
      BY <1>2, <1>3, <1>5, Zenon
    <3>3. /\ Tail(Contents) \in Seq([seq : Seqs \cup {0}, body : Bodies \cup {Nil}])
          /\ Len(Tail(Contents)) = Capacity - 1
          /\ \A i \in 1..(Capacity - 1) : Tail(Contents)[i] = data[Slot(i)]
      BY <1>3, <1>5, <3>1, <3>2, TailOf
    <3>4. e \in [seq : Seqs \cup {0}, body : Bodies \cup {Nil}]
      BY Zenon
    <3>. HIDE DEF e
    <3>. DEFINE l == Append(Tail(Contents), e)
    <3>5. /\ l \in Seq([seq : Seqs \cup {0}, body : Bodies \cup {Nil}])
          /\ Len(l) = Capacity
          /\ \A i \in 1..(Capacity - 1) : l[i] = data[Slot(i)]
          /\ l[Capacity] = e
      BY <1>2, <3>3, <3>4, AppendTo
    <3>. HIDE DEF l
    <3>6. l = [i \in 1..Capacity |-> l[i]]
      BY <3>5
    <3>7. \A i \in 1..Capacity : l[i] = IF i = Capacity THEN e ELSE data[Slot(i)]
      BY <1>2, <3>5
    <3>8. l = [i \in 1..Capacity |-> IF i = Capacity THEN e ELSE data[Slot(i)]]
      BY <3>6, <3>7, Zenon
    <3>. QED  BY <3>8, Zenon DEF l
  <2>8. Contents' = Append(Tail(Contents), e)
    BY <2>3, <2>6, <2>7, Zenon
  <2>. QED  BY <1>3, <1>5, <2>8, Zenon DEF Entries
<1>6. CASE size # Capacity
  <2>1. ASSUME NEW i \in 0..(size - 1)
        PROVE  Slot(i) # tail
    <3>1. i \in 0..Capacity /\ size \in 0..Capacity /\ i < size /\ size < Capacity
      BY <1>2, <1>6
    <3>2. /\ Slot(i) = IF head + i < Capacity THEN head + i ELSE head + i - Capacity
          /\ tail = IF head + size < Capacity THEN head + size
                    ELSE head + size - Capacity
      BY <1>2, <1>4, <3>1, Zenon
    <3>. QED  BY <1>2, <3>1, <3>2 DEF Slots
  <2>2. Contents' = Append(Contents, e)
    <3>1. Contents' = [i \in 1..(size + 1) |-> data'[Slot(i - 1)]]
      BY <1>1, <1>6 DEF Contents, Slot
    <3>2. \A i \in 1..size : data'[Slot(i - 1)] = data[Slot(i - 1)]
      BY <1>1, <1>2, <1>4, <2>1
    <3>3. data'[Slot(size)] = e
      BY <1>1, <1>2, Zenon
    <3>4. Append(Contents, e) =
            [i \in 1..(size + 1) |-> IF i = size + 1 THEN e ELSE data[Slot(i - 1)]]
      BY <1>2, <1>3 DEF Contents
    <3>5. \A i \in 1..(size + 1) :
            data'[Slot(i - 1)] = IF i = size + 1 THEN e ELSE data[Slot(i - 1)]
      BY <1>2, <3>2, <3>3
    <3>. QED  BY <3>1, <3>4, <3>5, Zenon
  <2>. QED  BY <1>3, <1>6, <2>2, Zenon DEF Entries
<1>. QED  BY <1>5, <1>6, Zenon

\* A push on the circular array is a push on the log.
LEMMA PushRefines ==
  ASSUME RInv, NEW s \in Seqs, NEW b \in Bodies, PushMessage(s, b)
  PROVE  Log!LogNext
<1>. DEFINE e == [seq |-> s, body |-> b]
<1>1. /\ Contents \in Seq(Entries) /\ Len(Contents) = size /\ e \in Entries
      /\ Contents' = IF size = Capacity THEN Append(Tail(Contents), e)
                                         ELSE Append(Contents, e)
  BY PushContents, Zenon DEF Entries
<1>. HIDE DEF e
<1>2. size \in Nat /\ (size = Capacity => Contents # <<>>)
  BY <1>1, RingAssumption DEF RInv, TypeOK
<1>3. Contents' # <<>> /\ Contents'[Len(Contents')] = e
  BY <1>1, <1>2
<1>. QED  BY <1>1, <1>3, Zenon DEF Log!LogNext, Log!Push

\* The circular buffer implements the replay log.
THEOREM Refinement == Spec => ImplementsLog
<1>1. Init => Log!LogInit
  BY DEF Init, Log!LogInit, Contents
<1>2. RInv /\ [Next]_vars => [Log!LogNext]_Contents
  <2>1. ASSUME WipeAll PROVE Log!LogNext
    BY <2>1 DEF WipeAll, Log!LogNext, Log!Wipe, Contents
  <2>2. ASSUME UNCHANGED vars PROVE Contents' = Contents
    BY <2>2, Zenon DEF vars, history, Contents, Slot
  <2>. QED  BY <2>1, <2>2, PushRefines, Zenon DEF Next
<1>. QED  BY <1>1, <1>2, Invariance, PTL DEF Spec, ImplementsLog, Log!LogSpec

-----------------------------------------------------------------------------
(* Overwritten messages *)

\* The numbers of the window increase and none is above the newest; what was
\* overwritten is below the window, and only a full buffer overwrites.
Ascending ==
  /\ \A i, j \in 1..size : i < j => Contents[i].seq < Contents[j].seq
  /\ \A i \in 1..size : Contents[i].seq <= newest
  /\ \A n \in evicted, i \in 1..size : n < Contents[i].seq
  /\ evicted # {} => size = Capacity

\* So it is while the numbers are pushed in increasing order.
OrderInv == inOrder => Ascending

\* The numbers of the slots are natural numbers.
LEMMA EntryNumbers ==
  ASSUME NEW m \in Entries
  PROVE  m.seq \in Nat
<1>1. m.seq \in Seqs \cup {0}
  BY Zenon DEF Entries
<1>2. Seqs \cup {0} \subseteq Nat
  BY RingAssumption
<1>. QED  BY <1>1, <1>2, Zenon

\* A push extends the order at the end and takes the least number away.
LEMMA PushOrder ==
  ASSUME RInv, Ascending, NEW s \in Seqs, NEW b \in Bodies, PushMessage(s, b),
         newest < s
  PROVE  Ascending'
<1>. DEFINE e == [seq |-> s, body |-> b]
<1>1. /\ Contents \in Seq(Entries) /\ Len(Contents) = size /\ e \in Entries
      /\ Contents' = IF size = Capacity THEN Append(Tail(Contents), e)
                                         ELSE Append(Contents, e)
  BY PushContents, Zenon DEF Entries
<1>2. /\ size \in Nat /\ size <= Capacity /\ Capacity \in Nat \ {0} /\ s \in Nat
      /\ newest \in Nat /\ evicted \subseteq Nat /\ head \in Slots /\ newest < s
      /\ \A i \in 1..size : Contents[i].seq \in Nat
  <2>1. /\ size \in Nat /\ size <= Capacity /\ Capacity \in Nat \ {0} /\ s \in Nat
        /\ newest \in Nat /\ evicted \subseteq Nat /\ head \in Slots /\ newest < s
    BY RingAssumption DEF RInv, TypeOK, PushMessage
  <2>2. \A i \in 1..size : Contents[i] \in Entries
    BY <1>1, <2>1
  <2>. QED  BY <2>1, <2>2, EntryNumbers, Zenon
<1>3. newest' = s
  BY Zenon DEF PushMessage
<1>4. size' = IF size = Capacity THEN Capacity ELSE size + 1
  BY PushWindow, Zenon
<1>5. evicted' = IF size = Capacity THEN evicted \cup {Contents[1].seq} ELSE evicted
  <2>1. Slot(0) = head
    BY <1>2, RingAssumption, SlotValue DEF Slots
  <2>2. size = Capacity => Contents[1] = data[head]
    BY <1>2, <2>1 DEF Contents
  <2>. QED  BY <2>2, Zenon DEF PushMessage
<1>6. ASSUME NEW i \in 1..size'
      PROVE  Contents'[i] = IF i = size' THEN e
                            ELSE IF size = Capacity THEN Contents[i + 1]
                            ELSE Contents[i]
  <2>1. CASE size = Capacity
    <3>1. Contents # <<>>
      BY <1>1, <1>2, <2>1, Zenon
    <3>2. /\ Tail(Contents) \in Seq(Entries) /\ Len(Tail(Contents)) = Capacity - 1
          /\ \A k \in 1..(Capacity - 1) : Tail(Contents)[k] = Contents[k + 1]
      BY <1>1, <2>1, <3>1, TailOf, Zenon
    <3>. QED  BY <1>1, <1>2, <1>4, <2>1, <3>2
  <2>2. CASE size # Capacity
    BY <1>1, <1>2, <1>4, <2>2
  <2>. QED  BY <2>1, <2>2, Zenon
<1>7. e.seq = s
  BY Zenon
<1>. HIDE DEF e
<1>8. ASSUME NEW i \in 1..size', NEW j \in 1..size', i < j
      PROVE  Contents'[i].seq < Contents'[j].seq
  BY <1>2, <1>4, <1>6, <1>7, <1>8 DEF Ascending
<1>9. ASSUME NEW i \in 1..size' PROVE Contents'[i].seq <= newest'
  BY <1>2, <1>3, <1>4, <1>6, <1>7 DEF Ascending
<1>10. ASSUME NEW n \in evicted', NEW i \in 1..size' PROVE n < Contents'[i].seq
  BY <1>2, <1>4, <1>5, <1>6, <1>7 DEF Ascending
<1>11. evicted' # {} => size' = Capacity
  BY <1>4, <1>5, Zenon DEF Ascending
<1>. QED  BY <1>8, <1>9, <1>10, <1>11, Zenon DEF Ascending

\* While numbers are pushed in increasing order IsOverflow answers yes for every
\* message with an overwritten successor, for every capacity and whatever gaps
\* the sequence numbers have.
THEOREM MissIsReported == Spec => []MissReported
<1>1. Init => OrderInv
  BY DEF Init, OrderInv, Ascending
<1>2. RInv /\ OrderInv /\ [Next]_vars => OrderInv'
  <2>1. ASSUME WipeAll PROVE OrderInv'
    BY <2>1 DEF WipeAll, OrderInv, Ascending
  <2>2. ASSUME OrderInv, UNCHANGED vars PROVE OrderInv'
    BY <2>2, Zenon DEF vars, history, OrderInv, Ascending, Contents, Slot
  <2>3. ASSUME RInv, OrderInv, NEW s \in Seqs, NEW b \in Bodies, PushMessage(s, b)
        PROVE  OrderInv'
    <3>1. inOrder' => inOrder /\ newest < s
      <4>1. newest \in Nat /\ s \in Nat
        BY <2>3, RingAssumption DEF RInv, TypeOK
      <4>2. inOrder' = (inOrder /\ s > newest)
        BY <2>3, Zenon DEF PushMessage
      <4>3. s > newest => newest < s
        BY <4>1
      <4>. QED  BY <4>2, <4>3, Zenon
    <3>. QED  BY <2>3, <3>1, PushOrder, Zenon DEF OrderInv
  <2>. QED  BY <2>1, <2>2, <2>3, Zenon DEF Next
<1>3. ASSUME RInv, OrderInv PROVE MissReported
  <2>. SUFFICES ASSUME Ascending, NEW last \in evicted \cup {data[k].seq : k \in LiveSlots},
                       NEW n \in evicted, n > last
                PROVE  IsOverflow(last)
    BY <1>3, Zenon DEF MissReported, OrderInv
  <2>1. /\ size = Capacity /\ Capacity \in Nat \ {0} /\ head \in Slots
        /\ evicted \subseteq Nat \ {0}
    BY <1>3, RingAssumption, Zenon DEF RInv, TypeOK, Ascending
  <2>2. \A i \in 1..size : Contents[i] = data[Slot(i - 1)]
    BY Zenon DEF Contents
  <2>3. \A k \in LiveSlots : \E i \in 1..size : data[k] = Contents[i]
    <3>. SUFFICES ASSUME NEW i \in 0..(size - 1)
                  PROVE  \E j \in 1..size : data[Slot(i)] = Contents[j]
      BY Zenon DEF LiveSlots
    <3>1. i + 1 \in 1..size /\ (i + 1) - 1 = i
      BY <2>1
    <3>. QED  BY <2>2, <3>1, Zenon
  <2>4. \A i \in 1..size : n < Contents[i].seq
    BY Zenon DEF Ascending
  <2>5. \A i \in 1..size : Contents[i].seq \in Nat
    <3>1. \A i \in 1..size : Slot(i - 1) \in Slots
      BY <2>1, SlotValue
    <3>2. \A k \in Slots : data[k] \in Entries
      BY <1>3, Zenon DEF RInv, TypeOK, Entries
    <3>. QED  BY <2>2, <3>1, <3>2, EntryNumbers, Zenon
  <2>6. last \in evicted
    BY <2>1, <2>3, <2>4, <2>5
  <2>7. Slot(0) = head /\ 1 \in 1..size
    BY <2>1, SlotValue, RingAssumption DEF Slots
  <2>8. n < data[head].seq /\ data[head].seq \in Nat
    BY <2>2, <2>4, <2>5, <2>7
  <2>. QED  BY <2>1, <2>6, <2>8 DEF IsOverflow
<1>. QED  BY <1>1, <1>2, <1>3, Invariance, PTL DEF Spec

-----------------------------------------------------------------------------
(* The wipe registry *)

\* Who holds the engine's lock is closing it, and the engine's secrets are zero
\* once it is closed and the lock free again.
CloseInv ==
  /\ mu # None => closed /\ Closing(mu)
  /\ closed /\ mu = None => Key \notin dirty

\* Before the engine exists there is nothing to wipe.
SetupInv ==
  pc["main"] \in {"pass", "engine"} =>
    /\ pc["signal"] = "off" /\ pc["reader"] = "off" /\ ~closed /\ ~streamed
    /\ mu = None /\ dirty \subseteq registeredBuffers /\ inHand = {}
    /\ wipers = [g \in Wipes |-> FALSE]

Wiped == {"lock", "take", "wipers", "zero", "exited"}

\* What main has zeroed itself before it calls WipeAll.
MainInv ==
  /\ pc["main"] \in Wiped => Pass \notin dirty
  /\ streamed /\ pc["main"] \in Wiped \cup {"defer"} => closed /\ Key \notin dirty
  /\ streamed => pc["main"] \in Wiped \cup {"stream", "defer"}
  /\ \A g \in Wipes : /\ wipers[g] => pc[g] = "wipers"
                      /\ buffers[g] # {} => pc[g] \in {"wipers", "zero"}
  /\ pc["main"] = "run" => pc["reader"] = "off"
  /\ writeMu = "main" => pc["main"] \in {"run", "publish"}
  /\ pc["reader"] # "register" => inHand = {}
  /\ \A b, c \in inHand : b = c
  /\ pc["signal"] \in {"off", "idle", "lock", "take", "wipers", "zero", "done"}

\* No memory stays pinned that the registry has let go of.
PinsRegistered == pinnedBuffers \subseteq registeredBuffers

SecretInv == WipeTypeOK /\ CloseInv /\ SetupInv /\ MainInv /\ PinsRegistered /\ NothingForgotten

-----------------------------------------------------------------------------

\* The invariant holds initially.
LEMMA SecretStarts ==
  ASSUME WipeInit
  PROVE  SecretInv
<1>. USE WipeAssumption
<1>1. WipeTypeOK
  BY Zenon DEF WipeInit, WipeTypeOK, Labels, Wipes
<1>2. CloseInv /\ SetupInv
  BY Zenon DEF WipeInit, CloseInv, SetupInv, Wipes
<1>3. MainInv
  BY Zenon DEF WipeInit, MainInv, Wipes, Wiped
<1>4. PinsRegistered /\ NothingForgotten
  BY Zenon DEF WipeInit, PinsRegistered, NothingForgotten
<1>. QED  BY <1>1, <1>2, <1>3, <1>4, Zenon DEF SecretInv

\* Every step keeps the types.
LEMMA WipeTypesStep ==
  ASSUME SecretInv, [WipeNext]_wipeVars
  PROVE  WipeTypeOK'
<1>. USE WipeAssumption DEF SecretInv, registry, engine, locals, Goto, Running
<1>1. CASE RegisterPass
  BY <1>1, Zenon DEF RegisterPass, RegisterBuffer, WipeTypeOK, Labels, Wipes
<1>2. CASE RegisterWiper
  BY <1>2, Zenon DEF RegisterWiper, WipeTypeOK, Labels, Wipes
<1>3. CASE StartStream
  BY <1>3, Zenon DEF StartStream, WipeTypeOK, Labels, Wipes
<1>4. CASE EarlyReturn
  BY <1>4, Zenon DEF EarlyReturn, WipeTypeOK, Labels, Wipes
<1>5. CASE StreamReturns
  BY <1>5, Zenon DEF StreamReturns, WipeTypeOK, Labels, Wipes
<1>6. CASE DeferredZero
  BY <1>6, Zenon DEF DeferredZero, ZeroBytes, WipeTypeOK, Labels, Wipes
<1>7. CASE Signal
  BY <1>7, Zenon DEF Signal, WipeTypeOK, Labels, Wipes
<1>8. ASSUME NEW g \in Wipes, WipeLock(g) PROVE WipeTypeOK'
  BY <1>8, Zenon DEF WipeLock, WipeTypeOK, Labels, Wipes
<1>9. ASSUME NEW g \in Wipes, WipeTake(g) PROVE WipeTypeOK'
  BY <1>9, Zenon DEF WipeTake, WipeTypeOK, Labels, Wipes
<1>10. ASSUME NEW g \in Wipes, NoWipers(g) PROVE WipeTypeOK'
  BY <1>10, Zenon DEF NoWipers, WipeTypeOK, Labels, Wipes
<1>11. ASSUME NEW g \in Wipes, WipeReturns(g) PROVE WipeTypeOK'
  BY <1>11, Zenon DEF WipeReturns, WipeTypeOK, Labels, Wipes
<1>12. ASSUME NEW g \in Wipes, CloseLock(g) PROVE WipeTypeOK'
  <2>1. CASE closed
    <3>1. pc' \in [Wipes \cup {"reader"} -> Labels] /\ wipers' \in [Wipes -> BOOLEAN]
      <4>1. CASE pc[g] = "stream"
        BY <1>12, <2>1, <4>1, Zenon DEF CloseLock, AfterClose, WipeTypeOK, Labels
      <4>2. CASE pc[g] # "stream"
        BY <1>12, <2>1, <4>2, Zenon DEF CloseLock, AfterClose, WipeTypeOK, Labels
      <4>. QED  BY <4>1, <4>2, Zenon
    <3>. QED  BY <1>12, <2>1, <3>1, Zenon DEF CloseLock, WipeTypeOK
  <2>2. CASE ~closed
    BY <1>12, <2>2, Zenon DEF CloseLock, WipeTypeOK, Labels, Wipes
  <2>. QED  BY <2>1, <2>2, Zenon
<1>13. ASSUME NEW g \in Wipes, CloseWipes(g) PROVE WipeTypeOK'
  BY <1>13, Zenon DEF CloseWipes, AfterClose, ZeroBytes, WipeTypeOK, Labels, Wipes
<1>14. ASSUME NEW g \in Wipes, NEW b \in buffers[g], WipeZero(g, b)
      PROVE  WipeTypeOK'
  BY <1>14, Zenon DEF WipeZero, ZeroBytes, WipeTypeOK, Labels, Wipes
<1>15. ASSUME NEW b \in Chunks, ReadChunk(b) PROVE WipeTypeOK'
  BY <1>15, Zenon DEF ReadChunk, WipeTypeOK, Labels, Wipes
<1>16. ASSUME NEW b \in Chunks, RegisterChunk(b) PROVE WipeTypeOK'
  BY <1>16, Zenon DEF RegisterChunk, RegisterBuffer, WipeTypeOK, Labels, Wipes
<1>17. CASE UNCHANGED wipeVars
  BY <1>17, Zenon DEF wipeVars, WipeTypeOK, Labels, Wipes
<1>18. ASSUME NEW g \in Senders, LockWrite(g) PROVE WipeTypeOK'
  BY <1>18, Zenon DEF LockWrite, WipeTypeOK
<1>19. ASSUME NEW g \in Senders, SendFrame(g) PROVE WipeTypeOK'
  BY <1>19, Zenon DEF SendFrame, WipeTypeOK, Labels, Wipes
<1>. QED
  BY <1>1, <1>2, <1>3, <1>4, <1>5, <1>6, <1>7, <1>8, <1>9, <1>10, <1>11, <1>12,
     <1>13, <1>14, <1>15, <1>16, <1>17, <1>18, <1>19, Zenon DEF WipeNext, Wiping

\* Where the goroutines are, and what that says of the secrets.
LEMMA ControlStep ==
  ASSUME SecretInv, [WipeNext]_wipeVars
  PROVE  CloseInv' /\ SetupInv' /\ MainInv'
<1>. USE WipeAssumption DEF SecretInv, registry, engine, locals, Goto, Running
<1>1. CASE RegisterPass
  BY <1>1, Zenon DEF RegisterPass, RegisterBuffer, WipeTypeOK, Labels, Wipes, CloseInv,
     SetupInv, MainInv, Wiped, Closing
<1>2. CASE RegisterWiper
  BY <1>2, Zenon DEF RegisterWiper, WipeTypeOK, Labels, Wipes, CloseInv, SetupInv, MainInv,
     Wiped, Closing
<1>3. CASE StartStream
  BY <1>3, Zenon DEF StartStream, WipeTypeOK, Labels, Wipes, CloseInv, SetupInv, MainInv,
     Wiped, Closing
<1>4. CASE EarlyReturn
  BY <1>4, Zenon DEF EarlyReturn, WipeTypeOK, Labels, Wipes, CloseInv, SetupInv, MainInv,
     Wiped, Closing
<1>5. CASE StreamReturns
  BY <1>5, Zenon DEF StreamReturns, WipeTypeOK, Labels, Wipes, CloseInv, SetupInv, MainInv,
     Wiped, Closing
<1>6. CASE DeferredZero
  BY <1>6, Zenon DEF DeferredZero, ZeroBytes, WipeTypeOK, Labels, Wipes, CloseInv, SetupInv,
     MainInv, Wiped, Closing
<1>7. CASE Signal
  BY <1>7, Zenon DEF Signal, WipeTypeOK, Labels, Wipes, CloseInv, SetupInv, MainInv, Wiped,
     Closing
<1>8. ASSUME NEW g \in Wipes, WipeLock(g) PROVE CloseInv' /\ SetupInv' /\ MainInv'
  BY <1>8, Zenon DEF WipeLock, WipeTypeOK, Labels, Wipes, CloseInv, SetupInv, MainInv, Wiped,
     Closing
<1>9. ASSUME NEW g \in Wipes, WipeTake(g) PROVE CloseInv' /\ SetupInv' /\ MainInv'
  BY <1>9 DEF WipeTake, WipeTypeOK, Labels, Wipes, CloseInv, SetupInv, MainInv, Wiped,
     Closing
<1>10. ASSUME NEW g \in Wipes, NoWipers(g) PROVE CloseInv' /\ SetupInv' /\ MainInv'
  BY <1>10 DEF NoWipers, WipeTypeOK, Labels, Wipes, CloseInv, SetupInv, MainInv, Wiped,
     Closing
<1>11. ASSUME NEW g \in Wipes, WipeReturns(g) PROVE CloseInv' /\ SetupInv' /\ MainInv'
  BY <1>11, Zenon DEF WipeReturns, WipeTypeOK, Labels, Wipes, CloseInv, SetupInv, MainInv,
     Wiped, Closing
<1>12. ASSUME NEW g \in Wipes, CloseLock(g) PROVE CloseInv' /\ SetupInv' /\ MainInv'
  BY <1>12 DEF CloseLock, AfterClose, WipeTypeOK, Labels, Wipes, CloseInv, SetupInv,
     MainInv, Wiped, Closing
<1>13. ASSUME NEW g \in Wipes, CloseWipes(g) PROVE CloseInv' /\ SetupInv' /\ MainInv'
  BY <1>13, Zenon DEF CloseWipes, AfterClose, ZeroBytes, WipeTypeOK, Labels, Wipes,
     CloseInv, SetupInv, MainInv, Wiped, Closing
<1>14. ASSUME NEW g \in Wipes, NEW b \in buffers[g], WipeZero(g, b)
      PROVE  CloseInv' /\ SetupInv' /\ MainInv'
  BY <1>14 DEF WipeZero, ZeroBytes, WipeTypeOK, Labels, Wipes, CloseInv, SetupInv,
     MainInv, Wiped, Closing
<1>15. ASSUME NEW b \in Chunks, ReadChunk(b) PROVE CloseInv' /\ SetupInv' /\ MainInv'
  BY <1>15 DEF ReadChunk, WipeTypeOK, Labels, Wipes, CloseInv, SetupInv, MainInv, Wiped,
     Closing
<1>16. ASSUME NEW b \in Chunks, RegisterChunk(b) PROVE CloseInv' /\ SetupInv' /\ MainInv'
  BY <1>16, Zenon DEF RegisterChunk, RegisterBuffer, WipeTypeOK, Labels, Wipes, CloseInv,
     SetupInv, MainInv, Wiped, Closing
<1>17. CASE UNCHANGED wipeVars
  BY <1>17 DEF wipeVars, WipeTypeOK, Labels, Wipes, CloseInv, SetupInv, MainInv, Wiped,
     Closing
<1>18. ASSUME NEW g \in Senders, LockWrite(g) PROVE CloseInv' /\ SetupInv' /\ MainInv'
  BY <1>18, Zenon DEF LockWrite, MaySend, CloseInv, SetupInv, MainInv, Closing
<1>19. ASSUME NEW g \in Senders, SendFrame(g) PROVE CloseInv' /\ SetupInv' /\ MainInv'
  BY <1>19 DEF SendFrame, Senders, WipeTypeOK, Labels, Wipes, CloseInv, SetupInv, MainInv,
     Wiped, Closing
<1>. QED
  BY <1>1, <1>2, <1>3, <1>4, <1>5, <1>6, <1>7, <1>8, <1>9, <1>10, <1>11, <1>12,
     <1>13, <1>14, <1>15, <1>16, <1>17, <1>18, <1>19, Zenon DEF WipeNext, Wiping

\* Every step accounts for the secrets it moves.
LEMMA SecretsStep ==
  ASSUME SecretInv, [WipeNext]_wipeVars
  PROVE  PinsRegistered' /\ NothingForgotten'
<1>. USE WipeAssumption DEF SecretInv, registry, engine, locals, Goto, Running
<1>1. CASE RegisterPass
  BY <1>1, Zenon DEF RegisterPass, RegisterBuffer, WipeTypeOK, Labels, Wipes, CloseInv,
     SetupInv, MainInv, Closing, PinsRegistered, NothingForgotten, Unfinished, Wiped
<1>2. CASE RegisterWiper
  BY <1>2, Zenon DEF RegisterWiper, WipeTypeOK, Labels, Wipes, CloseInv, SetupInv, MainInv,
     Closing, PinsRegistered, NothingForgotten, Unfinished, Wiped
<1>3. CASE StartStream
  BY <1>3, Zenon DEF StartStream, WipeTypeOK, Labels, Wipes, CloseInv, SetupInv, MainInv,
     Closing, PinsRegistered, NothingForgotten, Unfinished, Wiped
<1>4. CASE EarlyReturn
  BY <1>4, Zenon DEF EarlyReturn, WipeTypeOK, Labels, Wipes, CloseInv, SetupInv, MainInv,
     Closing, PinsRegistered, NothingForgotten, Unfinished, Wiped
<1>5. CASE StreamReturns
  BY <1>5, Zenon DEF StreamReturns, WipeTypeOK, Labels, Wipes, CloseInv, SetupInv, MainInv,
     Closing, PinsRegistered, NothingForgotten, Unfinished, Wiped
<1>6. CASE DeferredZero
  BY <1>6, Zenon DEF DeferredZero, ZeroBytes, WipeTypeOK, Labels, Wipes, CloseInv, SetupInv,
     MainInv, Closing, PinsRegistered, NothingForgotten, Unfinished, Wiped
<1>7. CASE Signal
  BY <1>7, Zenon DEF Signal, WipeTypeOK, Labels, Wipes, CloseInv, SetupInv, MainInv, Closing,
     PinsRegistered, NothingForgotten, Unfinished, Wiped
<1>8. ASSUME NEW g \in Wipes, WipeLock(g) PROVE PinsRegistered' /\ NothingForgotten'
  BY <1>8, Zenon DEF WipeLock, WipeTypeOK, Labels, Wipes, CloseInv, SetupInv, MainInv, Closing,
     PinsRegistered, NothingForgotten, Unfinished, Wiped
<1>9. ASSUME NEW g \in Wipes, WipeTake(g) PROVE PinsRegistered' /\ NothingForgotten'
  <2>1. /\ buffers'[g] = registeredBuffers /\ wipers'[g] = registeredWipers
        /\ \A h \in Wipes : h # g => buffers'[h] = buffers[h] /\ wipers'[h] = wipers[h]
    BY <1>9, Zenon DEF WipeTake, WipeTypeOK
  <2>2. pc["main"] \notin {"pass", "engine"} /\ buffers[g] = {} /\ ~wipers[g]
    <3>1. pc[g] = "take" /\ (g = "main" \/ g = "signal")
      BY <1>9, Zenon DEF WipeTake, Wipes
    <3>2. pc["main"] \notin {"pass", "engine"}
      BY <3>1, Zenon DEF SetupInv
    <3>3. /\ wipers[g] => pc[g] = "wipers"
          /\ buffers[g] # {} => pc[g] \in {"wipers", "zero"}
      BY <1>9, Zenon DEF MainInv
    <3>. QED  BY <3>1, <3>2, <3>3, Zenon
  <2>3. /\ registeredBuffers' = {} /\ registeredWipers' = FALSE /\ pinnedBuffers' = {}
        /\ UNCHANGED <<inHand, dirty, mu>>
    BY <1>9, Zenon DEF WipeTake
  <2>4. dirty \subseteq inHand \cup registeredBuffers \cup Unfinished("main")
                  \cup Unfinished("signal") \cup (IF registeredWipers THEN {Key} ELSE {})
    BY <2>2, Zenon DEF NothingForgotten
  <2>5. \A h \in Wipes : h # g => Unfinished(h)' = Unfinished(h)
    BY <2>1, <2>3, Zenon DEF Unfinished
  <2>6. registeredBuffers \cup Unfinished(g) \cup (IF registeredWipers THEN {Key} ELSE {})
          \subseteq Unfinished(g)'
    BY <2>1, <2>2, <2>3, Zenon DEF Unfinished
  <2>7. g = "main" \/ g = "signal"
    BY Zenon DEF Wipes
  <2>8. dirty' \subseteq inHand' \cup Unfinished("main")' \cup Unfinished("signal")'
    BY <2>3, <2>4, <2>5, <2>6, <2>7, Zenon DEF Wipes
  <2>. QED  BY <2>3, <2>8, Zenon DEF PinsRegistered, NothingForgotten
<1>10. ASSUME NEW g \in Wipes, NoWipers(g) PROVE PinsRegistered' /\ NothingForgotten'
  BY <1>10, Zenon DEF NoWipers, WipeTypeOK, Labels, Wipes, CloseInv, SetupInv, MainInv, Closing,
     PinsRegistered, NothingForgotten, Unfinished, Wiped
<1>11. ASSUME NEW g \in Wipes, WipeReturns(g) PROVE PinsRegistered' /\ NothingForgotten'
  BY <1>11, Zenon DEF WipeReturns, WipeTypeOK, Labels, Wipes, CloseInv, SetupInv, MainInv,
     Closing, PinsRegistered, NothingForgotten, Unfinished, Wiped
<1>12. ASSUME NEW g \in Wipes, CloseLock(g) PROVE PinsRegistered' /\ NothingForgotten'
  BY <1>12 DEF CloseLock, AfterClose, WipeTypeOK, Labels, Wipes, CloseInv, SetupInv,
     MainInv, Closing, PinsRegistered, NothingForgotten, Unfinished, Wiped
<1>13. ASSUME NEW g \in Wipes, CloseWipes(g) PROVE PinsRegistered' /\ NothingForgotten'
  BY <1>13 DEF CloseWipes, AfterClose, ZeroBytes, WipeTypeOK, Labels, Wipes,
     CloseInv, SetupInv, MainInv, Closing, PinsRegistered, NothingForgotten, Unfinished, Wiped
<1>14. ASSUME NEW g \in Wipes, NEW b \in buffers[g], WipeZero(g, b)
      PROVE  PinsRegistered' /\ NothingForgotten'
  BY <1>14 DEF WipeZero, ZeroBytes, WipeTypeOK, Labels, Wipes, CloseInv, SetupInv,
     MainInv, Closing, PinsRegistered, NothingForgotten, Unfinished, Wiped
<1>15. ASSUME NEW b \in Chunks, ReadChunk(b) PROVE PinsRegistered' /\ NothingForgotten'
  BY <1>15 DEF ReadChunk, WipeTypeOK, Labels, Wipes, CloseInv, SetupInv, MainInv,
     Closing, PinsRegistered, NothingForgotten, Unfinished, Wiped
<1>16. ASSUME NEW b \in Chunks, RegisterChunk(b) PROVE PinsRegistered' /\ NothingForgotten'
  BY <1>16 DEF RegisterChunk, RegisterBuffer, WipeTypeOK, Labels, Wipes, CloseInv,
     SetupInv, MainInv, Closing, PinsRegistered, NothingForgotten, Unfinished, Wiped
<1>17. CASE UNCHANGED wipeVars
  BY <1>17, Zenon DEF wipeVars, WipeTypeOK, Labels, Wipes, CloseInv, SetupInv, MainInv, Closing,
     PinsRegistered, NothingForgotten, Unfinished, Wiped
<1>18. ASSUME NEW g \in Senders, LockWrite(g) PROVE PinsRegistered' /\ NothingForgotten'
  BY <1>18, Zenon DEF LockWrite, PinsRegistered, NothingForgotten, Unfinished
<1>19. ASSUME NEW g \in Senders, SendFrame(g) PROVE PinsRegistered' /\ NothingForgotten'
  BY <1>19 DEF SendFrame, WipeTypeOK, Wipes, MainInv, PinsRegistered, NothingForgotten,
     Unfinished
<1>. QED
  BY <1>1, <1>2, <1>3, <1>4, <1>5, <1>6, <1>7, <1>8, <1>9, <1>10, <1>11, <1>12,
     <1>13, <1>14, <1>15, <1>16, <1>17, <1>18, <1>19, Zenon DEF WipeNext, Wiping

-----------------------------------------------------------------------------

\* The invariant holds throughout.
THEOREM WipeInvariance == WipeSpec => []SecretInv
<1>1. SecretInv /\ [WipeNext]_wipeVars => SecretInv'
  BY WipeTypesStep, ControlStep, SecretsStep, Zenon DEF SecretInv
<1>2. WipeInit => SecretInv
  BY SecretStarts, Zenon
<1>. QED  BY <1>1, <1>2, PTL DEF WipeSpec

\* Whatever the interleaving of main, the signal goroutine and the reader, and for
\* any number of chunks, every secret that is not zero is still in the registry, in
\* the reader's hands, or in those of a WipeAll that has not returned.
THEOREM NoSecretForgotten == WipeSpec => []NothingForgotten
<1>1. SecretInv => NothingForgotten
  BY Zenon DEF SecretInv
<1>. QED  BY <1>1, WipeInvariance, PTL

\* The passphrase is zero at exit; so are the engine's secrets after PublishStream.
THEOREM ExitIsClean == WipeSpec => []CleanExit
<1>1. SecretInv => CleanExit
  BY Zenon DEF SecretInv, MainInv, CleanExit, Wiped
<1>. QED  BY <1>1, WipeInvariance, PTL
===============================================================================
