--------------------------- MODULE ConnectionProofs ----------------------------
(***************************************************************************)
(* The relay's connections: which are admitted, what an envelope carries   *)
(* over them, and the handshake of the peers at their ends.                *)
(*                                                                         *)
(* The connection limit and the rate limiter, for any connections,         *)
(* addresses, acceptors, limits and durations.  PadPayload and             *)
(* UnpadPayload are inverse for every payload a 4-byte length can describe *)
(* and every target size: what the run shows on short payloads holds       *)
(* across every rollover of the prefix.  A subscriber the publisher counts *)
(* as ready holds the key, for any subscribers.                            *)
(***************************************************************************)
EXTENDS Admission, Wire, Handshake, FiniteSetTheorems, TLAPS

\* Acceptors that have tested the limit and not counted yet.
Testing == {a \in Acceptors : tests[a] # None}

\* The connections counted and those about to be counted exceed the limit by
\* fewer than there are acceptors.
Room ==
  /\ activeConns \in Int
  /\ activeConns + Cardinality(Testing) < MaxActiveConnections + Cardinality(Acceptors)

\* The record of an address knows of its k-th latest failure while that is
\* younger than the ban.
Remembered(i) ==
  \A k \in 1..MaxFailedAttempts : recent[i][k] < BanDuration =>
    /\ records[i] # None
    /\ records[i].attempts >= k
    /\ records[i].idle <= recent[i][1]
    /\ recent[i][1] <= recent[i][k]
    /\ records[i].attempts = MaxFailedAttempts =>
         records[i].left = BanDuration - recent[i][1]

IInv == TypeOK /\ Room /\ \A i \in IPs : Remembered(i)

-----------------------------------------------------------------------------
(* The limit                                                               *)

\* Testing is finite, so its cardinality is a number.
LEMMA TestingFinite ==
  /\ IsFiniteSet(Testing) /\ Cardinality(Testing) \in Nat
  /\ Cardinality(Acceptors) \in Nat /\ Cardinality(Testing) <= Cardinality(Acceptors)
<1>1. Testing \subseteq Acceptors
  BY Zenon DEF Testing
<1>2. IsFiniteSet(Acceptors)
  BY AdmissionAssumption, Zenon
<1>. QED  BY <1>1, <1>2, FS_Subset, FS_CardinalityType

\* An acceptor that passes the test saw room for one more.
LEMMA AcceptRoom ==
  ASSUME IInv, NEW a \in Acceptors, NEW c \in Conns, Accept(a, c)
  PROVE  Room'
<1>1. activeConns \in Int /\ activeConns' = activeConns /\ activeConns < MaxActiveConnections
  BY Zenon DEF IInv, Room, Accept
<1>2. Cardinality(Testing)' <= Cardinality(Acceptors) /\ Cardinality(Testing)' \in Nat
      /\ Cardinality(Acceptors) \in Nat
  <2>1. Testing' \subseteq Acceptors
    BY Zenon DEF Testing
  <2>2. IsFiniteSet(Acceptors)
    BY AdmissionAssumption, Zenon
  <2>3. IsFiniteSet(Testing') /\ Cardinality(Testing') <= Cardinality(Acceptors)
    BY <2>1, <2>2, FS_Subset
  <2>. QED  BY <2>2, <2>3, FS_CardinalityType
<1>. QED  BY <1>1, <1>2, AdmissionAssumption DEF Room

\* Counting turns a tested connection into an active one.
LEMMA CountRoom ==
  ASSUME IInv, NEW a \in Acceptors, Count(a)
  PROVE  Room'
<1>1. Testing' = Testing \ {a} /\ a \in Testing
  BY Zenon DEF IInv, TypeOK, Count, Testing
<1>2. Cardinality(Testing') = Cardinality(Testing) - 1
  BY <1>1, TestingFinite, FS_RemoveElement
<1>3. activeConns' = activeConns + 1
  BY Zenon DEF Count
<1>. QED
  BY <1>2, <1>3, TestingFinite, AdmissionAssumption DEF IInv, Room

\* Whatever leaves the acceptors alone and counts nobody keeps the room.
LEMMA OtherRoom ==
  ASSUME IInv, UNCHANGED tests,
         activeConns' = activeConns \/ activeConns' = activeConns - 1
  PROVE  Room'
<1>1. Testing' = Testing
  BY Zenon DEF Testing
<1>2. Cardinality(Testing') = Cardinality(Testing)
  BY <1>1, Zenon
<1>. QED
  BY <1>2, TestingFinite, AdmissionAssumption DEF IInv, Room

-----------------------------------------------------------------------------
(* The records                                                             *)

\* RecordFailure produces a record, and at the last attempt a ban.
LEMMA FailedRecord ==
  ASSUME NEW r \in Records \cup {None}
  PROVE  /\ Failed(r) \in Records /\ Failed(r) # None
         /\ Failed(r).idle = 0
         /\ r = None => Failed(r).attempts = 1
         /\ r # None => Failed(r).attempts = IF r.attempts < MaxFailedAttempts
                                             THEN r.attempts + 1 ELSE r.attempts
         /\ Failed(r).attempts = MaxFailedAttempts => Failed(r).left = BanDuration
<1>1. CASE r = None
  BY <1>1, AdmissionAssumption DEF Failed, Records
<1>2. CASE r # None
  <2>1. r \in Records
    BY <1>2, Zenon
  <2>2. /\ r.attempts \in 1..MaxFailedAttempts /\ r.left \in -1..BanDuration
    BY <2>1, Zenon DEF Records
  <2>. QED  BY <1>2, <2>2, AdmissionAssumption DEF Failed, Records
<1>. QED  BY <1>1, <1>2

\* IsBanned only removes a record whose ban is over.
LEMMA CheckedRecord ==
  ASSUME NEW r \in Records \cup {None}
  PROVE  /\ Checked(r) \in Records \cup {None}
         /\ r # None /\ ~(r.left < 0 /\ r.attempts = MaxFailedAttempts) =>
              /\ Checked(r) # None /\ Checked(r).idle = 0
              /\ Checked(r).attempts = r.attempts /\ Checked(r).left = r.left
BY AdmissionAssumption DEF Checked, Records

\* A failure is remembered, with those before it.
LEMMA RecordFailureRemembered ==
  ASSUME IInv, NEW j \in IPs, RecordFailure(j)
  PROVE  /\ records' \in [IPs -> Records \cup {None}]
         /\ recent' \in [IPs -> [1..MaxFailedAttempts -> 0..BanDuration]]
         /\ \A i \in IPs : Remembered(i)'
<1>. DEFINE r == records[j]  q == Failed(records[j])
<1>1. /\ r \in Records \cup {None}
      /\ recent[j] \in [1..MaxFailedAttempts -> 0..BanDuration]
  BY Zenon DEF IInv, TypeOK
<1>2. records' = [records EXCEPT ![j] = q]
  BY Zenon DEF RecordFailure
<1>3. recent' = [recent EXCEPT ![j] =
                   [k \in 1..MaxFailedAttempts |-> IF k = 1 THEN 0 ELSE recent[j][k - 1]]]
  BY Zenon DEF RecordFailure
<1>4. /\ q \in Records /\ q # None /\ q.idle = 0
      /\ r = None => q.attempts = 1
      /\ r # None => q.attempts = IF r.attempts < MaxFailedAttempts
                                  THEN r.attempts + 1 ELSE r.attempts
      /\ q.attempts = MaxFailedAttempts => q.left = BanDuration
  BY <1>1, FailedRecord
<1>. HIDE DEF q, r
<1>5. records' \in [IPs -> Records \cup {None}] /\ records'[j] = q
      /\ \A i \in IPs \ {j} : records'[i] = records[i]
  BY <1>2, <1>4, Zenon DEF IInv, TypeOK
<1>6. /\ [k \in 1..MaxFailedAttempts |-> IF k = 1 THEN 0 ELSE recent[j][k - 1]]
           \in [1..MaxFailedAttempts -> 0..BanDuration]
  BY <1>1, AdmissionAssumption
<1>7. /\ recent' \in [IPs -> [1..MaxFailedAttempts -> 0..BanDuration]]
      /\ \A k \in 1..MaxFailedAttempts :
           recent'[j][k] = IF k = 1 THEN 0 ELSE recent[j][k - 1]
      /\ \A i \in IPs \ {j} : recent'[i] = recent[i]
  BY <1>3, <1>6, Zenon DEF IInv, TypeOK
<1>8. ASSUME NEW i \in IPs, i # j PROVE Remembered(i)'
  BY <1>5, <1>7, <1>8 DEF IInv, Remembered
<1>9. Remembered(j)'
  <2>. SUFFICES ASSUME NEW k \in 1..MaxFailedAttempts, recent'[j][k] < BanDuration
                PROVE  /\ records'[j] # None
                       /\ records'[j].attempts >= k
                       /\ records'[j].idle <= recent'[j][1]
                       /\ recent'[j][1] <= recent'[j][k]
                       /\ records'[j].attempts = MaxFailedAttempts =>
                            records'[j].left = BanDuration - recent'[j][1]
    BY Zenon DEF Remembered
  <2>1. recent'[j][1] = 0 /\ recent'[j][k] \in 0..BanDuration
    BY <1>7, AdmissionAssumption
  <2>2. q.attempts \in 1..MaxFailedAttempts
    BY <1>4, Zenon DEF Records
  <2>3. q.attempts >= k
    <3>1. CASE k = 1
      BY <2>2, <3>1
    <3>2. CASE k # 1
      <4>1. k - 1 \in 1..MaxFailedAttempts /\ recent[j][k - 1] < BanDuration
        BY <1>7, <3>2, AdmissionAssumption
      <4>2. r # None /\ r.attempts >= k - 1
        BY <4>1, Zenon DEF IInv, Remembered, r
      <4>3. r.attempts \in 1..MaxFailedAttempts
        BY <1>1, <4>2, Zenon DEF Records
      <4>. QED  BY <1>4, <4>2, <4>3, AdmissionAssumption
    <3>. QED  BY <3>1, <3>2, Zenon
  <2>. QED  BY <1>4, <1>5, <2>1, <2>2, <2>3, AdmissionAssumption
<1>. QED  BY <1>5, <1>7, <1>8, <1>9, Zenon

\* A check forgets nothing that is younger than the ban.
LEMMA CheckBanRemembered ==
  ASSUME IInv, NEW c \in Conns, CheckBan(c)
  PROVE  /\ records' \in [IPs -> Records \cup {None}]
         /\ \A i \in IPs : Remembered(i)'
<1>0. PICK j \in IPs : j = ip[c]
  BY Zenon DEF IInv, TypeOK
<1>. DEFINE q == Checked(records[j])
<1>1. records[j] \in Records \cup {None}
  BY Zenon DEF IInv, TypeOK
<1>2. records' = [records EXCEPT ![j] = q] /\ recent' = recent
  BY <1>0, Zenon DEF CheckBan
<1>3. q \in Records \cup {None}
      /\ (records[j] # None
            /\ ~(records[j].left < 0 /\ records[j].attempts = MaxFailedAttempts) =>
              /\ q # None /\ q.idle = 0
              /\ q.attempts = records[j].attempts /\ q.left = records[j].left)
  BY <1>1, CheckedRecord
<1>. HIDE DEF q
<1>4. records' \in [IPs -> Records \cup {None}] /\ records'[j] = q
      /\ \A i \in IPs \ {j} : records'[i] = records[i]
  BY <1>1, <1>2, <1>3 DEF IInv, TypeOK
<1>5. ASSUME NEW i \in IPs, i # j PROVE Remembered(i)'
  BY <1>2, <1>4, <1>5 DEF IInv, Remembered
<1>6. Remembered(j)'
  <2>. SUFFICES ASSUME NEW k \in 1..MaxFailedAttempts, recent[j][k] < BanDuration
                PROVE  /\ q # None /\ q.attempts >= k /\ q.idle <= recent[j][1]
                       /\ recent[j][1] <= recent[j][k]
                       /\ q.attempts = MaxFailedAttempts =>
                            q.left = BanDuration - recent[j][1]
    BY <1>2, <1>4 DEF Remembered
  <2>1. /\ records[j] # None /\ records[j].attempts >= k
        /\ recent[j][1] <= recent[j][k]
        /\ records[j].attempts = MaxFailedAttempts =>
             records[j].left = BanDuration - recent[j][1]
    BY <1>1 DEF IInv, Remembered
  <2>2. recent[j][1] \in 0..BanDuration /\ recent[j][k] \in 0..BanDuration
    BY <1>1, AdmissionAssumption DEF IInv, TypeOK
  <2>3. ~(records[j].left < 0 /\ records[j].attempts = MaxFailedAttempts)
    BY <2>1, <2>2, AdmissionAssumption
  <2>. QED  BY <1>3, <2>1, <2>2, <2>3
<1>. QED  BY <1>4, <1>5, <1>6, Zenon

\* Time passes alike for the history and the record.
LEMMA TickRemembered ==
  ASSUME IInv, Tick
  PROVE  /\ records' \in [IPs -> Records \cup {None}]
         /\ recent' \in [IPs -> [1..MaxFailedAttempts -> 0..BanDuration]]
         /\ \A i \in IPs : Remembered(i)'
<1>1. \A i \in IPs : \A k \in 1..MaxFailedAttempts :
        /\ recent[i][k] \in 0..BanDuration
        /\ recent'[i][k] = IF recent[i][k] < BanDuration THEN recent[i][k] + 1
                                                         ELSE BanDuration
  BY Zenon DEF IInv, TypeOK, Tick
<1>2. recent' \in [IPs -> [1..MaxFailedAttempts -> 0..BanDuration]]
  <2>1. recent' = [i \in IPs |-> [k \in 1..MaxFailedAttempts |->
          IF recent[i][k] < BanDuration THEN recent[i][k] + 1 ELSE BanDuration]]
    BY Zenon DEF Tick
  <2>2. \A i \in IPs : \A k \in 1..MaxFailedAttempts :
          (IF recent[i][k] < BanDuration THEN recent[i][k] + 1 ELSE BanDuration)
            \in 0..BanDuration
    BY <1>1, AdmissionAssumption
  <2>. QED  BY <2>1, <2>2, Zenon
<1>3. ASSUME NEW i \in IPs
      PROVE  /\ records'[i] \in Records \cup {None}
             /\ records[i] # None =>
                  /\ records'[i] # None
                  /\ records'[i].attempts = records[i].attempts
                  /\ records'[i].left = IF records[i].left < 0 THEN records[i].left
                                                               ELSE records[i].left - 1
                  /\ records'[i].idle = IF records[i].idle > MaxAge THEN records[i].idle
                                                                    ELSE records[i].idle + 1
  <2>1. records[i] \in Records \cup {None}
    BY Zenon DEF IInv, TypeOK
  <2>2. records'[i] =
          IF records[i] = None THEN None
          ELSE [records[i] EXCEPT !.left = IF @ < 0 THEN @ ELSE @ - 1,
                                  !.idle = IF @ > MaxAge THEN @ ELSE @ + 1]
    BY Zenon DEF Tick
  <2>3. CASE records[i] = None
    BY <2>2, <2>3, Zenon
  <2>4. CASE records[i] # None
    <3>. DEFINE r == records[i]
                l == IF r.left < 0 THEN r.left ELSE r.left - 1
                d == IF r.idle > MaxAge THEN r.idle ELSE r.idle + 1
    <3>1. r \in Records
      BY <2>1, <2>4, Zenon
    <3>2. r = [attempts |-> r.attempts, left |-> r.left, idle |-> r.idle]
      BY <3>1, Zenon DEF Records
    <3>3. records'[i] = [attempts |-> r.attempts, left |-> l, idle |-> d]
      BY <2>2, <2>4, <3>2
    <3>4. r.attempts \in 1..MaxFailedAttempts /\ l \in -1..BanDuration
          /\ d \in 0..(MaxAge + 1)
      BY <3>1, AdmissionAssumption DEF Records
    <3>5. records'[i] \in Records
      <4>. HIDE DEF l, d, r
      <4>. QED  BY <3>3, <3>4 DEF Records
    <3>6. records'[i] # None
      BY <3>5, AdmissionAssumption, Zenon
    <3>. QED  BY <3>3, <3>5, <3>6
  <2>. QED  BY <2>3, <2>4, Zenon
<1>4. records' \in [IPs -> Records \cup {None}]
  <2>1. records' = [i \in IPs |-> records'[i]]
    BY Zenon DEF Tick
  <2>. QED  BY <1>3, <2>1, Zenon
<1>5. ASSUME NEW i \in IPs PROVE Remembered(i)'
  <2>. SUFFICES ASSUME NEW k \in 1..MaxFailedAttempts, recent'[i][k] < BanDuration
                PROVE  /\ records'[i] # None
                       /\ records'[i].attempts >= k
                       /\ records'[i].idle <= recent'[i][1]
                       /\ recent'[i][1] <= recent'[i][k]
                       /\ records'[i].attempts = MaxFailedAttempts =>
                            records'[i].left = BanDuration - recent'[i][1]
    BY Zenon DEF Remembered
  <2>0. 1 \in 1..MaxFailedAttempts
    BY AdmissionAssumption
  <2>1. recent[i][k] < BanDuration /\ recent'[i][k] = recent[i][k] + 1
        /\ recent[i][k] \in 0..BanDuration /\ recent[i][1] \in 0..BanDuration
    BY <1>1, <2>0, AdmissionAssumption
  <2>2. /\ records[i] # None /\ records[i].attempts >= k
        /\ records[i].idle <= recent[i][1] /\ recent[i][1] <= recent[i][k]
        /\ records[i].attempts = MaxFailedAttempts =>
             records[i].left = BanDuration - recent[i][1]
    BY <2>1, Zenon DEF IInv, Remembered
  <2>3. recent'[i][1] = recent[i][1] + 1
    BY <1>1, <2>0, <2>1, <2>2, AdmissionAssumption
  <2>4. records[i].attempts \in 1..MaxFailedAttempts /\ records[i].idle \in 0..(MaxAge + 1)
        /\ records[i].left \in -1..BanDuration
    BY <2>2, Zenon DEF IInv, TypeOK, Records
  <2>. QED  BY <1>3, <2>1, <2>2, <2>3, <2>4, AdmissionAssumption
<1>. QED  BY <1>2, <1>4, <1>5, Zenon

\* The clean-up only removes records older than any ban.
LEMMA CleanupRemembered ==
  ASSUME IInv, CleanupStale
  PROVE  /\ records' \in [IPs -> Records \cup {None}]
         /\ \A i \in IPs : Remembered(i)'
<1>1. records' \in [IPs -> Records \cup {None}] /\ recent' = recent
  BY Zenon DEF IInv, TypeOK, CleanupStale
<1>2. ASSUME NEW i \in IPs PROVE Remembered(i)'
  <2>. SUFFICES ASSUME NEW k \in 1..MaxFailedAttempts, recent[i][k] < BanDuration
                PROVE  records'[i] = records[i]
    BY <1>1 DEF IInv, Remembered
  <2>1. /\ records[i] # None /\ records[i].idle <= recent[i][1]
        /\ recent[i][1] <= recent[i][k]
    BY Zenon DEF IInv, Remembered
  <2>2. /\ records[i].idle \in 0..(MaxAge + 1)
        /\ recent[i][1] \in 0..BanDuration /\ recent[i][k] \in 0..BanDuration
    BY <2>1, AdmissionAssumption DEF IInv, TypeOK, Records
  <2>3. ~(records[i].idle > MaxAge)
    BY <2>1, <2>2, AdmissionAssumption
  <2>. QED  BY <2>3 DEF CleanupStale
<1>. QED  BY <1>1, <1>2, Zenon

-----------------------------------------------------------------------------
(* The theorems                                                            *)

\* Every step of the relay keeps the inductive invariant.
LEMMA StepKept ==
  ASSUME IInv, Next
  PROVE  IInv'
<1>1. ASSUME NEW a \in Acceptors, Count(a) PROVE IInv'
  <2>1. TypeOK'
    BY <1>1, Zenon DEF IInv, TypeOK, Count
  <2>2. \A i \in IPs : Remembered(i)'
    BY <1>1, Zenon DEF IInv, Remembered, Count
  <2>. QED  BY <1>1, <2>1, <2>2, CountRoom, Zenon DEF IInv
<1>2. ASSUME NEW a \in Acceptors, NEW c \in Conns, Accept(a, c) PROVE IInv'
  <2>1. TypeOK'
    BY <1>2, Zenon DEF IInv, TypeOK, Accept
  <2>2. \A i \in IPs : Remembered(i)'
    BY <1>2, Zenon DEF IInv, Remembered, Accept
  <2>. QED  BY <1>2, <2>1, <2>2, AcceptRoom DEF IInv
<1>3. ASSUME NEW c \in Conns, CheckBan(c) PROVE IInv'
  <2>1. records' \in [IPs -> Records \cup {None}] /\ \A i \in IPs : Remembered(i)'
    BY <1>3, CheckBanRemembered
  <2>2. TypeOK'
    BY <1>3, <2>1 DEF IInv, TypeOK, CheckBan
  <2>. QED  BY <1>3, <2>1, <2>2, OtherRoom DEF IInv, CheckBan
<1>4. ASSUME NEW c \in Conns, Reject(c) PROVE IInv'
  <2>0. ip[c] \in IPs /\ RecordFailure(ip[c])
    BY <1>4 DEF IInv, TypeOK, Reject
  <2>1. /\ records' \in [IPs -> Records \cup {None}]
        /\ recent' \in [IPs -> [1..MaxFailedAttempts -> 0..BanDuration]]
        /\ \A i \in IPs : Remembered(i)'
    BY <2>0, RecordFailureRemembered
  <2>2. TypeOK'
    BY <1>4, <2>1 DEF IInv, TypeOK, Reject
  <2>. QED  BY <1>4, <2>1, <2>2, OtherRoom DEF IInv, Reject
<1>5. ASSUME NEW c \in Conns, Dismiss(c) \/ Serve(c) \/ Leave(c) PROVE IInv'
  <2>1. TypeOK'
    BY <1>5 DEF IInv, TypeOK, Dismiss, Serve, Leave
  <2>2. \A i \in IPs : Remembered(i)'
    BY <1>5 DEF IInv, Remembered, Dismiss, Serve, Leave
  <2>3. UNCHANGED tests /\ (activeConns' = activeConns \/ activeConns' = activeConns - 1)
    BY <1>5 DEF Dismiss, Serve, Leave
  <2>. QED  BY <2>1, <2>2, <2>3, OtherRoom DEF IInv
<1>6. CASE CleanupStale
  <2>1. TypeOK'
    BY <1>6, CleanupRemembered DEF IInv, TypeOK, CleanupStale
  <2>. QED  BY <1>6, <2>1, CleanupRemembered, OtherRoom DEF IInv, CleanupStale
<1>7. CASE Tick
  <2>1. TypeOK'
    BY <1>7, TickRemembered DEF IInv, TypeOK, Tick
  <2>. QED  BY <1>7, <2>1, TickRemembered, OtherRoom DEF IInv, Tick
<1>. QED  BY <1>1, <1>2, <1>3, <1>4, <1>5, <1>6, <1>7, Zenon DEF Next

\* The inductive invariant holds of every behaviour of the relay's admission.
THEOREM Invariance == Spec => []IInv
<1>1. Init => IInv
  <2>. SUFFICES ASSUME Init PROVE IInv
    BY Zenon
  <2>1. TypeOK
    BY AdmissionAssumption DEF Init, TypeOK
  <2>2. Testing = {}
    BY Zenon DEF Init, Testing
  <2>3. Room
    BY <2>2, FS_EmptySet, TestingFinite, AdmissionAssumption DEF Init, Room
  <2>4. \A i \in IPs : Remembered(i)
    BY AdmissionAssumption DEF Init, Remembered
  <2>. QED  BY <2>1, <2>3, <2>4 DEF IInv
<1>2. IInv /\ UNCHANGED vars => IInv'
  BY Zenon DEF IInv, TypeOK, Room, Testing, Remembered, vars
<1>. QED  BY <1>1, <1>2, StepKept, PTL DEF Spec

\* However many acceptors test the limit at once, it is exceeded by fewer
\* connections than there are acceptors (Start, StartWebSocketTLSServer,
\* handleQuicConn).
THEOREM Overshoot == Spec => []LimitOvershoot
<1>1. IInv => LimitOvershoot
  BY TestingFinite, AdmissionAssumption DEF IInv, Room, LimitOvershoot
<1>. QED  BY <1>1, Invariance, PTL

\* An address with MaxFailedAttempts failures within BanDuration passes no
\* check of IsBanned, for every limit and duration.
THEOREM Window == Spec => WindowRespected
<1>. DEFINE Passes(c) == st[c] = "head" /\ st'[c] = "decode"
            Old(i) == \E k \in 1..MaxFailedAttempts : recent[i][k] = BanDuration
<1>1. ASSUME IInv, Next, NEW c \in Conns, Passes(c) PROVE Old(ip[c])
  <2>1. CheckBan(c)
    BY <1>1, Zenon DEF IInv, TypeOK, Next, Count, Accept, CheckBan, Reject, Dismiss, Serve,
                Leave, CleanupStale, Tick
  <2>2. ip[c] \in IPs /\ ~Banned(ip[c])
    BY <1>1, <2>1, Zenon DEF IInv, TypeOK, CheckBan
  <2>3. SUFFICES ASSUME ~Old(ip[c]) PROVE FALSE
    BY Zenon
  <2>4. MaxFailedAttempts \in 1..MaxFailedAttempts /\ 1 \in 1..MaxFailedAttempts
    BY AdmissionAssumption
  <2>5. /\ recent[ip[c]][MaxFailedAttempts] < BanDuration
        /\ recent[ip[c]][1] < BanDuration /\ recent[ip[c]][1] \in 0..BanDuration
    BY <1>1, <2>2, <2>3, <2>4, AdmissionAssumption DEF IInv, TypeOK
  <2>6. /\ records[ip[c]] # None /\ records[ip[c]].attempts >= MaxFailedAttempts
        /\ records[ip[c]].attempts = MaxFailedAttempts =>
             records[ip[c]].left = BanDuration - recent[ip[c]][1]
    BY <1>1, <2>2, <2>4, <2>5, Zenon DEF IInv, Remembered
  <2>7. records[ip[c]].attempts \in 1..MaxFailedAttempts
    BY <1>1, <2>2, <2>6, Zenon DEF IInv, TypeOK, Records
  <2>. QED  BY <2>2, <2>5, <2>6, <2>7, AdmissionAssumption DEF Banned
<1>2. IInv /\ [Next]_vars => [\A c \in Conns : Passes(c) => Old(ip[c])]_vars
  BY <1>1, Zenon DEF vars
<1>. QED  BY <1>2, Invariance, PTL DEF Spec, WindowRespected

-----------------------------------------------------------------------------
(* Envelopes *)

\* The big-endian prefix: Uint32 reads back every number below 2^32 that PutUint32 wrote.
LEMMA PrefixInverse ==
    ASSUME NEW n \in Nat, n < 4294967296
    PROVE  Uint32(PutUint32(n)) = n
<1>1. PICK a \in Nat, b \in 0 .. 255 : n = 256 * a + b /\ a = n \div 256 /\ b = n % 256
  BY SMT
<1>2. PICK c \in Nat, d \in 0 .. 255 : a = 256 * c + d /\ c = a \div 256 /\ d = a % 256
  BY SMT
<1>3. PICK e \in Nat, f \in 0 .. 255 : c = 256 * e + f /\ e = c \div 256 /\ f = c % 256
  BY SMT
<1>4. n = 256 * a + b
  BY <1>1, SMT
<1>5. a = 256 * c + d
  BY <1>2, SMT
<1>6. c = 256 * e + f
  BY <1>3, SMT
<1>7. n = e * 16777216 + f * 65536 + d * 256 + b
  BY <1>4, <1>5, <1>6, SMT
<1>8. e < 256
  BY <1>7, SMT
<1>9. n % 256 = b
  BY <1>4, SMT
<1>10. (n \div 256) % 256 = d
  <2>1. n \div 256 = a
    BY <1>4, SMT
  <2> QED
    BY <2>1, <1>5, SMT
<1>11. (n \div 65536) % 256 = f
  <2>1. n \div 65536 = c
    BY <1>4, <1>5, SMT
  <2> QED
    BY <2>1, <1>6, SMT
<1>12. (n \div 16777216) % 256 = e
  <2>1. n \div 16777216 = e
    BY <1>7, SMT
  <2> QED
    BY <2>1, <1>8, SMT
<1>13. PutUint32(n) = <<e, f, d, b>>
  BY <1>9, <1>10, <1>11, <1>12, SMT DEF PutUint32
<1> QED
  BY <1>7, <1>13, SMT DEF Uint32

\* PadPayload (protocol/envelope.go) keeps the payload whatever the target size, and
\* UnpadPayload finds it again: for every payload shorter than 2^32 bytes.
THEOREM PadRoundTrip ==
    ASSUME NEW S, NEW data \in Seq(S), Len(data) < 4294967296, NEW targetSize \in Nat
    PROVE  LET padded == PadPayload(data, targetSize)
           IN  ValidPadding(padded) /\ UnpadPayload(padded) = data
<1> DEFINE n == Len(data)
           total == IF n + 4 > targetSize THEN n + 4 ELSE targetSize
           padded == PadPayload(data, targetSize)
<1>1. n \in Nat /\ total \in Nat /\ n + 4 <= total
  BY SMT
<1>2. padded = [i \in 1 .. total |-> IF i <= 4 THEN PutUint32(n)[i]
                                    ELSE IF i <= n + 4 THEN data[i - 4] ELSE 0]
  BY SMT DEF PadPayload, lenPrefixSize
<1>3. Len(padded) = total
  BY <1>1, <1>2, SMT
<1>4. padded[1] = PutUint32(n)[1] /\ padded[2] = PutUint32(n)[2]
      /\ padded[3] = PutUint32(n)[3] /\ padded[4] = PutUint32(n)[4]
  BY <1>1, <1>2, SMT
<1>5. Uint32(padded) = n
  BY <1>1, <1>4, PrefixInverse, SMT DEF Uint32
<1>6. \A i \in 1 .. n : padded[i + 4] = data[i]
  BY <1>1, <1>2, SMT
<1>7. UnpadPayload(padded) = [i \in 1 .. n |-> data[i]]
  BY <1>5, <1>6, SMT DEF UnpadPayload, lenPrefixSize
<1>8. UnpadPayload(padded) = data
  BY <1>7, SMT
<1>9. ValidPadding(padded)
  BY <1>1, <1>3, <1>5, SMT DEF ValidPadding, lenPrefixSize
<1> QED
  BY <1>8, <1>9, SMT

\* The length of an envelope's payload is what its sender chose, below the limit.
LensInv == lens \in [1 .. MaxFrames -> 0 .. MaxPayload]

\* Nothing changes the lengths.
LEMMA LensInvariance == WireSpec => []LensInv
<1>1. WireInit => LensInv
  BY Zenon DEF WireInit, LensInv
<1>2. LensInv /\ [WireNext]_wireVars => LensInv'
  <2>1. [WireNext]_wireVars => lens' = lens
    BY Zenon DEF WireNext, wireVars, SendFrame, SendFrameTorn, WsData, WsExtra, WsClose,
       Fill, Peek, Strip,
           ProxyTimeout, Unwrap, Read, Eof, SyncTimeout, FirstFrameTimeout
  <2> QED
    BY <2>1 DEF LensInv
<1> QED
  BY <1>1, <1>2, PTL DEF WireSpec

\* Every envelope's payload survives PadPayload and UnpadPayload, whatever the limits.
THEOREM PayloadSurvivesPadding == WireSpec => []PaddingInverse
<1>1. ASSUME LensInv PROVE PaddingInverse
  <2> SUFFICES ASSUME NEW f \in 1 .. MaxFrames,
                      NEW targetSize \in 0 .. lenPrefixSize + MaxPayload + 1
               PROVE  LET padded == PadPayload(Payload(f), targetSize)
                      IN  ValidPadding(padded) /\ UnpadPayload(padded) = Payload(f)
    BY Zenon DEF PaddingInverse
  <2>0. MaxPayload \in Nat /\ MaxPayload \div 65536 < 65536
    BY SMT, WireAssumption
  <2>1. lens[f] \in Nat /\ targetSize \in Nat
    BY <1>1, <2>0, SMT DEF LensInv, lenPrefixSize
  <2>2. lens[f] < 4294967296
    <3>1. MaxPayload < 4294967296
      BY <2>0, SMT
    <3> QED
      BY <1>1, <2>0, <3>1, SMT DEF LensInv
  <2> DEFINE S == {Token(f, k) : k \in Nat}
             n == lens[f]
  <2>3. \A k \in 1 .. HeaderSize + n : Token(f, k) \in S
    BY <2>1, SMT DEF HeaderSize
  <2>4. Encode(f) = [k \in 1 .. HeaderSize + n |-> Token(f, k)]
    BY Zenon DEF Encode
  <2>5. Payload(f) = SubSeq(Encode(f), HeaderSize + 1, HeaderSize + n)
    BY Zenon DEF Payload
  <2>6. n \in Nat /\ n < 4294967296
    BY <2>1, <2>2, SMT
  <2> HIDE DEF S, n
  <2>7. Encode(f) \in Seq(S) /\ Len(Encode(f)) = HeaderSize + n
    BY <2>6, <2>3, <2>4, SMT DEF HeaderSize
  <2>8. Payload(f) \in Seq(S) /\ Len(Payload(f)) = n
    BY <2>7, <2>5, <2>6, SMT DEF HeaderSize
  <2> QED
    BY <2>1, <2>6, <2>8, PadRoundTrip, SMT
<1> QED
  BY <1>1, LensInvariance, PTL

-----------------------------------------------------------------------------
(* The handshake                                                           *)

\* Frames a subscriber's handler forwards to the publisher.
ToPublisher == [kind : {"init", "confirm"}, from : Subs]

\* The publisher's side of ReadyMeansVerified.
ReadyVerified == ppc = "ready" => peer \in verified

\* A confirmation on its way was sent by a subscriber that verified its answer.
ConfirmInv ==
  /\ toPub \in Seq(ToPublisher)
  /\ conf \subseteq verified
  /\ \A i \in 1..Len(toPub) : toPub[i].kind = "confirm" => toPub[i].from \in verified
  /\ ReadyVerified

\* Appending a frame of s keeps ConfirmInv, if it is no confirmation or s sent it.
LEMMA FrameForwarded ==
  ASSUME ConfirmInv, NEW f \in ToPublisher, f.kind = "confirm" => f.from \in verified,
         toPub' = Append(toPub, f), conf' \subseteq conf, UNCHANGED <<pubVars, verified>>
  PROVE  ConfirmInv'
<1>1. toPub' \in Seq(ToPublisher) /\ Len(toPub') = Len(toPub) + 1
      /\ \A i \in 1..Len(toPub') : toPub'[i] = IF i <= Len(toPub) THEN toPub[i] ELSE f
  BY DEF ConfirmInv
<1>. QED  BY <1>1 DEF ConfirmInv, ReadyVerified, pubVars

\* The publisher takes a frame: the others are still there.
LEMMA FrameTaken ==
  ASSUME ConfirmInv, toPub # <<>>, toPub' = Tail(toPub), UNCHANGED <<conf, verified>>,
         ReadyVerified'
  PROVE  ConfirmInv'
<1>1. toPub' \in Seq(ToPublisher) /\ Len(toPub') = Len(toPub) - 1
      /\ \A i \in 1..Len(toPub') : toPub'[i] = toPub[i + 1] /\ i + 1 \in 1..Len(toPub)
  BY DEF ConfirmInv
<1>. QED  BY <1>1 DEF ConfirmInv

\* Every step keeps ConfirmInv.
LEMMA ConfirmStep == ConfirmInv /\ [HandshakeNext]_handshakeVars => ConfirmInv'
<1>. SUFFICES ASSUME ConfirmInv, [HandshakeNext]_handshakeVars PROVE ConfirmInv'
  BY Zenon
<1>0. CASE UNCHANGED handshakeVars
  BY <1>0 DEF ConfirmInv, ReadyVerified, handshakeVars, pubVars, relayVars
<1>1. CASE PubConnect \/ PubTimeout \/ PublishData \/ BeginGreet
  BY <1>1 DEF PubConnect, PubTimeout, PublishData, BeginGreet, ConfirmInv, ReadyVerified,
              pubVars, relayVars
<1>2. ASSUME NEW s \in Subs, Greet(s) \/ ForwardInit(s) PROVE ConfirmInv'
  <2>1. CASE toPub' = toPub
    BY <1>2, <2>1 DEF Greet, ForwardInit, ConfirmInv, ReadyVerified, pubVars
  <2>2. CASE toPub' = Append(toPub, InitSub(s))
    <3>1. InitSub(s) \in ToPublisher /\ InitSub(s).kind # "confirm"
      BY Zenon DEF InitSub, ToPublisher
    <3>. QED  BY <1>2, <2>2, <3>1, FrameForwarded DEF Greet, ForwardInit
  <2>. QED  BY <1>2, <2>1, <2>2 DEF Greet, ForwardInit
<1>3. ASSUME NEW s \in Subs, ForwardConfirm(s) PROVE ConfirmInv'
  <2>1. KeyConfirm(s) \in ToPublisher /\ KeyConfirm(s).from \in verified
    BY <1>3 DEF KeyConfirm, ToPublisher, ForwardConfirm, ConfirmInv
  <2>. QED  BY <1>3, <2>1, FrameForwarded DEF ForwardConfirm
<1>4. ASSUME NEW s \in Subs, Unregister(s) PROVE ConfirmInv'
  BY <1>4 DEF Unregister, ConfirmInv, ReadyVerified, pubVars
<1>5. CASE RecvInit \/ SkipFrame
  <2>1. ReadyVerified'
    BY <1>5 DEF RecvInit, SkipFrame, ReadyVerified
  <2>. QED  BY <1>5, <2>1, FrameTaken DEF RecvInit, SkipFrame, relayVars
<1>6. CASE RecvConfirm
  <2>1. Head(toPub) = toPub[1] /\ 1 \in 1..Len(toPub)
    BY <1>6 DEF RecvConfirm, ConfirmInv
  <2>2. ReadyVerified'
    BY <1>6, <2>1 DEF RecvConfirm, ReadyVerified, ConfirmInv
  <2>. QED  BY <1>6, <2>2, FrameTaken DEF RecvConfirm, relayVars
<1>7. CASE HandleFrame
  <2>1. ReadyVerified'
    BY <1>7 DEF HandleFrame, ReadyVerified, ConfirmInv, pubVars
  <2>. QED  BY <1>7, <2>1, FrameTaken DEF HandleFrame, relayVars
<1>8. ASSUME NEW s \in Subs, SubConnect(s) \/ Quit(s) \/ RefuseAnswer(s) PROVE ConfirmInv'
  BY <1>8 DEF SubConnect, Quit, RefuseAnswer, ConfirmInv, ReadyVerified, pubVars, relayVars
<1>9. ASSUME NEW s \in Subs, AcceptAnswer(s) PROVE ConfirmInv'
  BY <1>9 DEF AcceptAnswer, ConfirmInv, ReadyVerified, pubVars
<1>10. ASSUME NEW s \in Subs, InstallKey(s) PROVE ConfirmInv'
  BY <1>10 DEF InstallKey, ConfirmInv, ReadyVerified, pubVars, relayVars
<1>. QED  BY <1>0, <1>1, <1>2, <1>3, <1>4, <1>5, <1>6, <1>7, <1>8, <1>9, <1>10, Zenon
          DEF HandshakeNext, Relay, Publish, Subscribe

\* A subscriber that verified its answer is past waiting for one.
PastWaiting ==
  /\ verified \subseteq Subs
  /\ spc \in [Subs -> {"out", "waiting", "confirmed", "done", "failed", "left"}]
  /\ \A s \in verified : spc[s] \in {"confirmed", "done", "failed", "left"}

\* Every step keeps that.
LEMMA PastWaitingStep == PastWaiting /\ [HandshakeNext]_handshakeVars => PastWaiting'
<1>. SUFFICES ASSUME PastWaiting, [HandshakeNext]_handshakeVars PROVE PastWaiting'
  BY Zenon
<1>1. CASE UNCHANGED handshakeVars \/ PubConnect \/ PubTimeout \/ PublishData \/ Publish \/ BeginGreet
  <2>1. UNCHANGED <<spc, verified>>
    BY <1>1, Zenon DEF handshakeVars, PubConnect, PubTimeout, PublishData, Publish, BeginGreet,
       RecvInit, SkipFrame, RecvConfirm, HandleFrame
  <2>. QED  BY <2>1, Zenon DEF PastWaiting
<1>2. ASSUME NEW s \in Subs, Greet(s) \/ ForwardInit(s) \/ ForwardConfirm(s) \/ Unregister(s)
      PROVE  PastWaiting'
  <2>1. UNCHANGED <<spc, verified>>
    BY <1>2, Zenon DEF Greet, ForwardInit, ForwardConfirm, Unregister
  <2>. QED  BY <2>1, Zenon DEF PastWaiting
<1>3. ASSUME NEW s \in Subs, SubConnect(s) \/ Subscribe(s) \/ Quit(s) PROVE PastWaiting'
  <2>1. CASE SubConnect(s)
    BY <2>1 DEF SubConnect, PastWaiting
  <2>2. CASE AcceptAnswer(s) \/ RefuseAnswer(s)
    BY <2>2 DEF AcceptAnswer, RefuseAnswer, PastWaiting
  <2>3. CASE InstallKey(s) \/ Quit(s)
    BY <2>3 DEF InstallKey, Quit, PastWaiting
  <2>. QED  BY <1>3, <2>1, <2>2, <2>3, Zenon DEF Subscribe
<1>. QED  BY <1>1, <1>2, <1>3, Zenon DEF HandshakeNext, Relay

\* A publisher whose CompleteHandshake succeeds was confirmed by the subscriber of
\* its exchange, which verified the publisher's own tag first; for any number of
\* subscribers, whatever the order and the repetition of their frames.
THEOREM ReadyPeerVerified == HandshakeSpec => []ReadyMeansVerified
<1>1. HandshakeInit => ConfirmInv
  BY DEF HandshakeInit, ConfirmInv, ReadyVerified
<1>2. HandshakeInit => PastWaiting
  BY DEF HandshakeInit, PastWaiting
<1>3. ConfirmInv /\ PastWaiting => ReadyMeansVerified
  BY Zenon DEF ConfirmInv, ReadyVerified, PastWaiting, ReadyMeansVerified
<1>. QED  BY <1>1, <1>2, <1>3, ConfirmStep, PastWaitingStep, PTL DEF HandshakeSpec
================================================================================
