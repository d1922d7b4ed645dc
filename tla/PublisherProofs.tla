--------------------------- MODULE PublisherProofs ---------------------------
(***************************************************************************)
(* The publisher, for any number of goroutines, payloads, rekeys and       *)
(* requests.  No nonce is used for two contents and nothing follows the    *)
(* CLOSE frame.  A closed engine buffers no more than its goroutines had   *)
(* in hand, a lone publisher's stream can be read with the keys it         *)
(* announces, and the payloads of one publisher get their numbers, and     *)
(* reach the wire, in the order in which it took them.                     *)
(***************************************************************************)
EXTENDS Publisher, FiniteSetTheorems, TLAPS

\* Where a goroutine can be, and what it has in hand there.
Places ==
  \A t \in Threads :
    /\ pc[t] \in {"rekey", "rekey_read", "rekey_seal", "rekey_update", "rekey_end",
                  "get_cipher", "number", "push", "seal"} => t \in Writers /\ load[t] \in Message
    /\ pc[t] \in {"join", "sync", "replay"} => t \in Syncers
    /\ pc[t] \in {"send", "write"} =>
         /\ out[t] \in Frames /\ out[t].kind # "close"
         /\ t \in Writers \cup Syncers
         /\ out[t].kind = "rekey" /\ t \in Writers => load[t] \in Message

\* Close holds p.mu while it closes; once its CLOSE frame is written either the
\* connection is gone or Close still holds the lock.
Locks ==
  /\ \A t \in Threads : pc[t] \in {"close_write", "close_keys", "close_wipe"} <=> mu = t
  /\ mu # None => closed
  /\ \A t \in Threads : /\ pc[t] = "close_write" => connected
                        /\ pc[t] = "close_wipe" => ~connected
  /\ (\E i \in 1..Len(wire) : wire[i].kind = "close") =>
       /\ closed
       /\ connected => \E t \in Threads : pc[t] = "close_keys"

\* The messages that carry a number: in the hands of a publisher, buffered, or
\* copied for a replay.
Numbered ==
  {load[t] : t \in {u \in Writers : pc[u] \in {"push", "seal"}}}
  \cup {replay[i] : i \in 1..Len(replay)}
  \cup UNION {{items[t][i] : i \in DOMAIN items[t]} : t \in Syncers}

\* A number stands for one content, whatever the key: M are the messages with a
\* number, S what was sealed, and c the last number drawn.
OneContent(M, S, c) ==
  /\ \A m \in M : m \in Message /\ m.seq <= c
  /\ \A e \in S : e.seq \in Nat /\ e.seq <= c
  /\ \A m, n \in M : m.seq = n.seq => m = n
  /\ \A e \in S, m \in M : e.seq = m.seq => e.kind = "data" /\ e.body = m.body
  /\ \A e, f \in S : e.seq = f.seq => e.kind = f.kind /\ e.body = f.body

SealedTypes == sealed \subseteq [kind : {"data", "rekey"}, seq : Nat, body : Nat, key : Nat]

IInv ==
  /\ TypeOK /\ Places /\ Locks /\ CloseIsLast
  /\ SealedTypes /\ OneContent(Numbered, sealed, seqCounter)

-----------------------------------------------------------------------------
\* The invariant holds initially.
LEMMA InitInv == Init => IInv
<1>. SUFFICES ASSUME Init PROVE IInv
  BY Zenon
<1>. USE PublisherAssumption, CapacityAssumption
<1>1. TypeOK
  <2>1. pc \in [Threads -> Labels] /\ load \in [Writers -> Message \cup {None}]
    BY Zenon DEF Init, Labels
  <2>2. out \in [Threads -> Frames \cup {None}] /\ wire \in Seq(Frames)
    BY DEF Init
  <2>3. DOMAIN items = Syncers /\ items = [t \in Syncers |-> items[t]]
    BY Zenon DEF Init
  <2>4. \A t \in Syncers : \A i \in DOMAIN items[t] : items[t][i] \in Message
    BY DEF Init
  <2>5. replay \in Seq(Message)
    BY DEF Init, LogInit
  <2>. QED  BY Zenon, <2>1, <2>2, <2>3, <2>4, <2>5 DEF Init, TypeOK
<1>2. Places /\ Locks
  BY DEF Init, Places, Locks, Threads, Writers
<1>3. CloseIsLast /\ SealedTypes
  BY DEF Init, CloseIsLast, SealedTypes
<1>4. Numbered = {}
  <2>1. {u \in Writers : pc[u] \in {"push", "seal"}} = {}
    BY Zenon DEF Init, Threads, Writers
  <2>2. 1..Len(replay) = {}
    BY DEF Init, LogInit
  <2>3. \A t \in Syncers : DOMAIN items[t] = {}
    BY DEF Init
  <2>4. UNION {{items[t][i] : i \in DOMAIN items[t]} : t \in Syncers} = {}
    BY <2>3
  <2>. QED  BY Zenon, <2>1, <2>2, <2>4 DEF Numbered
<1>5. OneContent(Numbered, sealed, seqCounter)
  BY <1>4, Zenon DEF Init, OneContent
<1>. QED  BY <1>1, <1>2, <1>3, <1>5, Zenon DEF IInv

\* Which steps change which variable.
LEMMA Changes ==
  ASSUME [Next]_vars
  PROVE  /\ load' = load \/ \E t \in Threads : BeginPayload(t) \/ Number(t) \/ Seal(t)
         /\ out' = out \/ \E t \in Threads : WriteFrame(t) \/ Seal(t) \/ SealRekey(t) \/
              Heartbeat(t) \/ WrapMasterKey(t) \/ ReplayItem(t)
         /\ items' = items \/ \E t \in Threads : (\E last \in 0..seqCounter :
              ReceiveSyncReq(t, last)) \/ CheckOpen(t) \/ ReplayItem(t)
         /\ replay' = replay \/ \E t \in Threads : PushReplay(t) \/ WipeReplay(t)
         /\ wire' = wire \/ \E t \in Threads : WriteFrame(t) \/ WriteClose(t)
         /\ sealed' = sealed \/ \E t \in Threads : Seal(t) \/ SealRekey(t) \/
              ReplayItem(t)
         /\ seqCounter' = seqCounter \/ \E t \in Threads : Number(t) \/ SealRekey(t)
         /\ payloads' = payloads \/ \E t \in Threads : BeginPayload(t)
         /\ (key' = key /\ masterKey' = masterKey) \/ \E t \in Threads : UpdateKey(t) \/
              DropKeys(t)
         /\ mu' = mu \/ \E t \in Threads : LockClose(t) \/ WipeReplay(t)
         /\ connected' = connected \/ \E t \in Threads : DropKeys(t)
         /\ closed' = closed \/ \E t \in Threads : LockClose(t)
<1>. USE DEF Next, Run, Send, Rekey, Publish, Input, Request, Answer, Close, vars,
     lockVars, keyVars, connVars, countVars, LockWrite, LockRekey, ReadKey,
     EndRekey, GetCipher, EndOfInput, ReceiveInitSub, StopSync, ReplayDone,
     ConnectionLost
<1>1. load' = load \/ \E t \in Threads : BeginPayload(t) \/ Number(t) \/ Seal(t)
  BY ZenonT(60) DEF WriteFrame, SealRekey, UpdateKey, PushReplay, Heartbeat, WrapMasterKey,
     CheckOpen, ReplayItem, LockClose, WriteClose, DropKeys, WipeReplay,
     ReceiveSyncReq
<1>2. out' = out \/ \E t \in Threads : WriteFrame(t) \/ Seal(t) \/ SealRekey(t) \/
       Heartbeat(t) \/ WrapMasterKey(t) \/ ReplayItem(t)
  BY DEF UpdateKey, Number, PushReplay, BeginPayload, CheckOpen, LockClose,
     WriteClose, DropKeys, WipeReplay, ReceiveSyncReq
<1>3. items' = items \/ \E t \in Threads : (\E last \in 0..seqCounter :
       ReceiveSyncReq(t, last)) \/ CheckOpen(t) \/ ReplayItem(t)
  BY DEF WriteFrame, SealRekey, UpdateKey, Number, PushReplay, Seal, BeginPayload,
     Heartbeat, WrapMasterKey, LockClose, WriteClose, DropKeys, WipeReplay
<1>4. replay' = replay \/ \E t \in Threads : PushReplay(t) \/ WipeReplay(t)
  BY ZenonT(60) DEF WriteFrame, SealRekey, UpdateKey, Number, Seal, BeginPayload, Heartbeat,
     WrapMasterKey, CheckOpen, ReplayItem, LockClose, WriteClose, DropKeys,
     ReceiveSyncReq
<1>5. wire' = wire \/ \E t \in Threads : WriteFrame(t) \/ WriteClose(t)
  BY DEF SealRekey, UpdateKey, Number, PushReplay, Seal, BeginPayload, Heartbeat,
     WrapMasterKey, CheckOpen, ReplayItem, LockClose, DropKeys, WipeReplay,
     ReceiveSyncReq
<1>6. sealed' = sealed \/ \E t \in Threads : Seal(t) \/ SealRekey(t) \/ ReplayItem(t)
  BY DEF WriteFrame, UpdateKey, Number, PushReplay, BeginPayload, Heartbeat,
     WrapMasterKey, CheckOpen, LockClose, WriteClose, DropKeys, WipeReplay,
     ReceiveSyncReq
<1>7. seqCounter' = seqCounter \/ \E t \in Threads : Number(t) \/ SealRekey(t)
  BY ZenonT(60) DEF WriteFrame, UpdateKey, PushReplay, Seal, BeginPayload, Heartbeat,
     WrapMasterKey, CheckOpen, ReplayItem, LockClose, WriteClose, DropKeys,
     WipeReplay, ReceiveSyncReq
<1>8. payloads' = payloads \/ \E t \in Threads : BeginPayload(t)
  BY ZenonT(60) DEF WriteFrame, SealRekey, UpdateKey, Number, PushReplay, Seal, Heartbeat,
     WrapMasterKey, CheckOpen, ReplayItem, LockClose, WriteClose, DropKeys,
     WipeReplay, ReceiveSyncReq
<1>9. (key' = key /\ masterKey' = masterKey) \/ \E t \in Threads : UpdateKey(t) \/
       DropKeys(t)
  <2>1. ASSUME NEW t \in Threads, Send(t) PROVE key' = key /\ masterKey' = masterKey
    BY <2>1, Zenon DEF WriteFrame
  <2>2. ASSUME NEW t \in Threads, Rekey(t) PROVE (key' = key /\ masterKey' = masterKey) \/ UpdateKey(t)
    BY <2>2, Zenon DEF SealRekey
  <2>3. ASSUME NEW t \in Threads, Publish(t) PROVE key' = key /\ masterKey' = masterKey
    BY <2>3, Zenon DEF Number, PushReplay, Seal
  <2>4. ASSUME NEW t \in Threads, Answer(t) PROVE key' = key /\ masterKey' = masterKey
    BY <2>4, Zenon DEF WrapMasterKey, CheckOpen, ReplayItem
  <2>5. ASSUME NEW t \in Threads, Close(t) PROVE (key' = key /\ masterKey' = masterKey) \/ DropKeys(t)
    BY <2>5, Zenon DEF LockClose, WriteClose, WipeReplay
  <2>6. ASSUME NEW t \in Threads, Input(t) PROVE key' = key /\ masterKey' = masterKey
    BY <2>6, Zenon DEF BeginPayload, Heartbeat
  <2>7. ASSUME NEW t \in Threads, Request(t) PROVE key' = key /\ masterKey' = masterKey
    BY <2>7, Zenon DEF ReceiveSyncReq
  <2>8. CASE ConnectionLost
    BY Zenon, <2>8
  <2>9. CASE UNCHANGED vars
    BY Zenon, <2>9
  <2>. QED
    BY Zenon, <2>1, <2>2, <2>3, <2>4, <2>5, <2>6, <2>7, <2>8, <2>9
<1>10. mu' = mu \/ \E t \in Threads : LockClose(t) \/ WipeReplay(t)
  <2>1. ASSUME NEW t \in Threads, Send(t) PROVE mu' = mu
    BY <2>1, Zenon DEF WriteFrame
  <2>2. ASSUME NEW t \in Threads, Rekey(t) PROVE mu' = mu
    BY <2>2, Zenon DEF SealRekey, UpdateKey
  <2>3. ASSUME NEW t \in Threads, Publish(t) PROVE mu' = mu
    BY <2>3, Zenon DEF Number, PushReplay, Seal
  <2>4. ASSUME NEW t \in Threads, Answer(t) PROVE mu' = mu
    BY <2>4, Zenon DEF WrapMasterKey, CheckOpen, ReplayItem
  <2>5. ASSUME NEW t \in Threads, Close(t) PROVE (mu' = mu) \/ LockClose(t) \/ WipeReplay(t)
    BY Zenon, <2>5 DEF WriteClose, DropKeys
  <2>6. ASSUME NEW t \in Threads, Input(t) PROVE mu' = mu
    BY Zenon, <2>6 DEF BeginPayload, Heartbeat
  <2>7. ASSUME NEW t \in Threads, Request(t) PROVE mu' = mu
    BY <2>7, Zenon DEF ReceiveSyncReq
  <2>8. CASE ConnectionLost
    BY <2>8, Zenon
  <2>9. CASE UNCHANGED vars
    BY <2>9, Zenon
  <2>. QED
    BY Zenon, <2>1, <2>2, <2>3, <2>4, <2>5, <2>6, <2>7, <2>8, <2>9
<1>11. connected' = connected \/ \E t \in Threads : DropKeys(t)
  BY ZenonT(60) DEF WriteFrame, SealRekey, UpdateKey, Number, PushReplay, Seal, BeginPayload,
     Heartbeat, WrapMasterKey, CheckOpen, ReplayItem, LockClose, WriteClose,
     WipeReplay, ReceiveSyncReq
<1>12. closed' = closed \/ \E t \in Threads : LockClose(t)
  <2>1. ASSUME NEW t \in Threads, Send(t) PROVE closed' = closed
    BY Zenon, <2>1 DEF WriteFrame
  <2>2. ASSUME NEW t \in Threads, Rekey(t) PROVE closed' = closed
    BY <2>2, Zenon DEF SealRekey, UpdateKey
  <2>3. ASSUME NEW t \in Threads, Publish(t) PROVE closed' = closed
    BY <2>3, Zenon DEF Number, PushReplay, Seal
  <2>4. ASSUME NEW t \in Threads, Answer(t) PROVE closed' = closed
    BY <2>4, Zenon DEF WrapMasterKey, CheckOpen, ReplayItem
  <2>5. ASSUME NEW t \in Threads, Close(t) PROVE (closed' = closed) \/ LockClose(t)
    BY Zenon, <2>5 DEF WriteClose, DropKeys, WipeReplay
  <2>6. ASSUME NEW t \in Threads, Input(t) PROVE closed' = closed
    BY Zenon, <2>6 DEF BeginPayload, Heartbeat
  <2>7. ASSUME NEW t \in Threads, Request(t) PROVE closed' = closed
    BY <2>7, Zenon DEF ReceiveSyncReq
  <2>8. CASE ConnectionLost
    BY <2>8, Zenon
  <2>9. CASE UNCHANGED vars
    BY <2>9, Zenon
  <2>. QED
    BY Zenon, <2>1, <2>2, <2>3, <2>4, <2>5, <2>6, <2>7, <2>8, <2>9
<1>. QED
  BY <1>1, <1>2, <1>3, <1>4, <1>5, <1>6, <1>7, <1>8, <1>9, <1>10, <1>11, <1>12, Zenon

\* The labels.
LEMMA PcStep ==
  ASSUME pc \in [Threads -> Labels], [Next]_vars
  PROVE  pc' \in [Threads -> Labels]
<1>. USE PublisherAssumption, CapacityAssumption DEF lockVars, keyVars, connVars, countVars, GoTo
<1>1. ASSUME NEW t \in Threads, LockWrite(t) PROVE pc' \in [Threads -> Labels]
  BY <1>1, Zenon DEF LockWrite, Labels, vars
<1>2. ASSUME NEW t \in Threads, WriteFrame(t) PROVE pc' \in [Threads -> Labels]
  BY Zenon, <1>2 DEF WriteFrame, AfterSend, Fail, Labels, vars
<1>3. ASSUME NEW t \in Threads, LockRekey(t) PROVE pc' \in [Threads -> Labels]
  BY <1>3, Zenon DEF LockRekey, Labels, vars
<1>4. ASSUME NEW t \in Threads, ReadKey(t) PROVE pc' \in [Threads -> Labels]
  BY <1>4, Zenon DEF ReadKey, Labels, vars
<1>5. ASSUME NEW t \in Threads, SealRekey(t) PROVE pc' \in [Threads -> Labels]
  BY <1>5 DEF SealRekey, Sealed, Labels, vars
<1>6. ASSUME NEW t \in Threads, UpdateKey(t) PROVE pc' \in [Threads -> Labels]
  BY <1>6, Zenon DEF UpdateKey, Panic, Labels, vars
<1>7. ASSUME NEW t \in Threads, EndRekey(t) PROVE pc' \in [Threads -> Labels]
  BY <1>7, Zenon DEF EndRekey, Labels, vars
<1>8. ASSUME NEW t \in Threads, GetCipher(t) PROVE pc' \in [Threads -> Labels]
  BY <1>8, Zenon DEF GetCipher, Fail, Labels, vars
<1>9. ASSUME NEW t \in Threads, Number(t) PROVE pc' \in [Threads -> Labels]
  BY <1>9, Zenon DEF Number, Labels, vars
<1>10. ASSUME NEW t \in Threads, PushReplay(t) PROVE pc' \in [Threads -> Labels]
  BY <1>10, Zenon DEF PushReplay, Push, Labels, vars
<1>11. ASSUME NEW t \in Threads, Seal(t) PROVE pc' \in [Threads -> Labels]
  BY <1>11, Zenon DEF Seal, Sealed, Fail, Labels, vars
<1>12. ASSUME NEW t \in Threads, BeginPayload(t) PROVE pc' \in [Threads -> Labels]
  BY <1>12, Zenon DEF BeginPayload, Labels, vars
<1>13. ASSUME NEW t \in Threads, Heartbeat(t) PROVE pc' \in [Threads -> Labels]
  BY <1>13, Zenon DEF Heartbeat, Labels, vars
<1>14. ASSUME NEW t \in Threads, EndOfInput(t) PROVE pc' \in [Threads -> Labels]
  BY <1>14, Zenon DEF EndOfInput, Fail, Labels, vars
<1>15. ASSUME NEW t \in Threads, ReceiveInitSub(t) PROVE pc' \in [Threads -> Labels]
  BY <1>15, Zenon DEF ReceiveInitSub, Labels, vars
<1>16. ASSUME NEW t \in Threads, StopSync(t) PROVE pc' \in [Threads -> Labels]
  BY <1>16, Zenon DEF StopSync, Labels, vars
<1>17. ASSUME NEW t \in Threads, WrapMasterKey(t) PROVE pc' \in [Threads -> Labels]
  BY <1>17 DEF WrapMasterKey, Labels, vars
<1>18. ASSUME NEW t \in Threads, CheckOpen(t) PROVE pc' \in [Threads -> Labels]
  BY <1>18 DEF CheckOpen, Labels, vars
<1>19. ASSUME NEW t \in Threads, ReplayItem(t) PROVE pc' \in [Threads -> Labels]
  BY <1>19 DEF ReplayItem, Sealed, Labels, vars
<1>20. ASSUME NEW t \in Threads, ReplayDone(t) PROVE pc' \in [Threads -> Labels]
  BY <1>20, Zenon DEF ReplayDone, Labels, vars
<1>21. ASSUME NEW t \in Threads, LockClose(t) PROVE pc' \in [Threads -> Labels]
  BY <1>21 DEF LockClose, Labels, vars
<1>22. ASSUME NEW t \in Threads, WriteClose(t) PROVE pc' \in [Threads -> Labels]
  BY <1>22, Zenon DEF WriteClose, Labels, vars
<1>23. ASSUME NEW t \in Threads, DropKeys(t) PROVE pc' \in [Threads -> Labels]
  BY <1>23, Zenon DEF DropKeys, Labels, vars
<1>24. ASSUME NEW t \in Threads, WipeReplay(t) PROVE pc' \in [Threads -> Labels]
  BY <1>24, Zenon DEF WipeReplay, Wipe, Labels, vars
<1>25. ASSUME NEW t \in Threads, NEW last \in 0..seqCounter, ReceiveSyncReq(t, last)
      PROVE  pc' \in [Threads -> Labels]
  BY <1>25, Zenon DEF ReceiveSyncReq, GetAfter, Labels, vars
<1>26. CASE ConnectionLost
  BY <1>26, Zenon DEF ConnectionLost, Labels, vars
<1>27. CASE UNCHANGED vars
  BY <1>27, Zenon DEF vars, Labels
<1>. QED
  BY <1>1, <1>2, <1>3, <1>4, <1>5, <1>6, <1>7, <1>8, <1>9, <1>10, <1>11, <1>12,
     <1>13, <1>14, <1>15, <1>16, <1>17, <1>18, <1>19, <1>20, <1>21, <1>22, <1>23,
     <1>24, <1>25, <1>26, <1>27, Zenon DEF Next, Run, Send, Rekey, Publish, Input, Request,
     Answer, Close

\* What Encrypt returns is a frame.
LEMMA SealedFrame ==
  ASSUME NEW k \in {"data", "rekey"}, NEW s \in Nat, NEW b \in Nat, key \in Nat
  PROVE  /\ Sealed(k, s, b) \in Frames
         /\ Sealed(k, s, b) \in [kind : {"data", "rekey"}, seq : Nat, body : Nat, key : Nat]
         /\ Sealed(k, s, b).kind = k /\ Sealed(k, s, b).seq = s /\ Sealed(k, s, b).body = b
BY Zenon DEF Sealed, Frames

\* Number changes the number of a message only.
LEMMA Renumber ==
  ASSUME NEW m \in Message, NEW n \in Nat
  PROVE  [m EXCEPT !.seq = n] = [body |-> m.body, seq |-> n]
BY DEF Message

\* The messages copied for one syncer change, and those of no other.
LEMMA NewCopies ==
  ASSUME TypeOK, NEW t \in Syncers, NEW copy, items' = [items EXCEPT ![t] = copy]
  PROVE  /\ DOMAIN items' = Syncers /\ items' = [u \in Syncers |-> items'[u]]
         /\ \A u \in Syncers : items'[u] = IF u = t THEN copy ELSE items[u]
<1>1. items = [u \in Syncers |-> items[u]]
  BY Zenon DEF TypeOK
<1>2. items' = [u \in Syncers |-> IF u = t THEN copy ELSE items[u]]
  BY <1>1, Zenon
<1>. QED  BY <1>2, Zenon

\* TypeOK.
LEMMA TypesStep ==
  ASSUME TypeOK, Places, [Next]_vars
  PROVE  TypeOK'
<1>. USE PublisherAssumption, CapacityAssumption
<1>1. pc' \in [Threads -> Labels]
  BY PcStep, Zenon DEF TypeOK
<1>2. load' \in [Writers -> Message \cup {None}]
  <2>1. ASSUME NEW t \in Threads, BeginPayload(t) PROVE load' \in [Writers -> Message \cup {None}]
    BY <2>1 DEF BeginPayload, TypeOK, Message
  <2>2. ASSUME NEW t \in Threads, Number(t) PROVE load' \in [Writers -> Message \cup {None}]
    <3>1. t \in Writers /\ load[t] \in Message
      BY <2>2, Zenon DEF Number, Places
    <3>2. [body |-> load[t].body, seq |-> seqCounter + 1] \in Message
      BY <3>1 DEF Message, TypeOK
    <3>3. load' = [load EXCEPT ![t] = [body |-> load[t].body, seq |-> seqCounter + 1]]
      <4>1. seqCounter + 1 \in Nat
        BY DEF TypeOK
      <4>2. [load[t] EXCEPT !.seq = seqCounter + 1] = [body |-> load[t].body, seq |-> seqCounter + 1]
        BY <3>1, <4>1, Renumber, Zenon
      <4>3. load' = [load EXCEPT ![t] = [load[t] EXCEPT !.seq = seqCounter + 1]]
        BY <2>2, Zenon DEF Number
      <4>. QED  BY Zenon, <4>2, <4>3
    <3>. QED  BY <3>1, <3>2, <3>3, Zenon DEF TypeOK
  <2>3. ASSUME NEW t \in Threads, Seal(t) PROVE load' \in [Writers -> Message \cup {None}]
    BY Zenon, <2>3 DEF Seal, TypeOK
  <2>. QED  BY <2>1, <2>2, <2>3, Changes, Zenon DEF TypeOK
<1>3. out' \in [Threads -> Frames \cup {None}]
  <2>1. ASSUME NEW t \in Threads, WriteFrame(t) PROVE out' \in [Threads -> Frames \cup {None}]
    BY <2>1, Zenon DEF WriteFrame, TypeOK
  <2>2. ASSUME NEW t \in Threads, Seal(t) PROVE out' \in [Threads -> Frames \cup {None}]
    <3>1. load[t].seq \in Nat /\ load[t].body \in Nat
      BY <2>2, Zenon DEF Seal, Places, Message
    <3>2. key # None => Sealed("data", load[t].seq, load[t].body) \in Frames
      BY <3>1, SealedFrame DEF TypeOK
    <3>. QED  BY <2>2, <3>2 DEF Seal, TypeOK
  <2>3. ASSUME NEW t \in Threads, SealRekey(t) PROVE out' \in [Threads -> Frames \cup {None}]
    <3>1. seqCounter + 1 \in Nat
      BY DEF TypeOK
    <3>2. key # None => Sealed("rekey", seqCounter + 1, 0) \in Frames
      BY <3>1, SealedFrame, Zenon DEF TypeOK
    <3>. QED  BY <2>3, <3>2 DEF SealRekey, TypeOK
  <2>4. ASSUME NEW t \in Threads, Heartbeat(t) PROVE out' \in [Threads -> Frames \cup {None}]
    <3>1. [kind |-> "heartbeat"] \in Frames
      BY Zenon DEF Frames
    <3>. QED  BY <2>4, <3>1, Zenon DEF Heartbeat, TypeOK
  <2>5. ASSUME NEW t \in Threads, WrapMasterKey(t) PROVE out' \in [Threads -> Frames \cup {None}]
    <3>1. masterKey # None => [kind |-> "step2", key |-> masterKey] \in Frames
      BY Zenon DEF Frames, TypeOK
    <3>. QED  BY <2>5, <3>1 DEF WrapMasterKey, TypeOK
  <2>6. ASSUME NEW t \in Threads, ReplayItem(t) PROVE out' \in [Threads -> Frames \cup {None}]
    <3>1. t \in Syncers
      BY <2>6, Zenon DEF ReplayItem, Places
    <3>2. PICK i \in DOMAIN items[t] :
            /\ key = None => out' = out
            /\ key # None => out' = [out EXCEPT ![t] = Sealed("data", items[t][i].seq, items[t][i].body)]
      BY <2>6, Zenon DEF ReplayItem
    <3>3. items[t][i].seq \in Nat /\ items[t][i].body \in Nat
      BY <3>1, <3>2, Zenon DEF TypeOK, Message
    <3>4. key # None => Sealed("data", items[t][i].seq, items[t][i].body) \in Frames
      BY <3>3, SealedFrame, Zenon DEF TypeOK
    <3>. QED  BY <3>2, <3>4 DEF TypeOK
  <2>. QED  BY <2>1, <2>2, <2>3, <2>4, <2>5, <2>6, Changes, Zenon DEF TypeOK
<1>4. /\ DOMAIN items' = Syncers /\ items' = [t \in Syncers |-> items'[t]]
      /\ \A t \in Syncers : \A i \in DOMAIN items'[t] : items'[t][i] \in Message
  <2>1. ASSUME NEW t \in Threads, NEW last \in 0..seqCounter, ReceiveSyncReq(t, last)
        PROVE  <1>4!:
    <3>1. \A i \in DOMAIN GetAfter(last) : GetAfter(last)[i] \in Message
      BY DEF GetAfter, TypeOK
    <3>2. items' = [items EXCEPT ![t] = GetAfter(last)] /\ t \in Syncers
      BY <2>1, Zenon DEF ReceiveSyncReq
    <3>. QED  BY Zenon, <3>1, <3>2, NewCopies DEF TypeOK
  <2>2. ASSUME NEW t \in Threads, CheckOpen(t) PROVE <1>4!:
    <3>1. t \in Syncers /\ (items' = items \/ items' = [items EXCEPT ![t] = <<>>])
      BY <2>2, Zenon DEF CheckOpen, Places
    <3>2. DOMAIN <<>> = {}
      OBVIOUS
    <3>. QED  BY Zenon, <3>1, <3>2, NewCopies DEF TypeOK
  <2>3. ASSUME NEW t \in Threads, ReplayItem(t) PROVE <1>4!:
    <3>1. t \in Syncers
      BY <2>3 DEF ReplayItem, Places
    <3>2. PICK i \in DOMAIN items[t] :
            items' = [items EXCEPT ![t] = [j \in DOMAIN items[t] \ {i} |-> items[t][j]]]
      BY <2>3, Zenon DEF ReplayItem
    <3>. DEFINE rest == [j \in DOMAIN items[t] \ {i} |-> items[t][j]]
    <3>3. \A j \in DOMAIN rest : rest[j] \in Message
      BY <3>1, Zenon DEF TypeOK
    <3>. HIDE DEF rest
    <3>4. items' = [items EXCEPT ![t] = rest]
      BY <3>2, Zenon DEF rest
    <3>. QED  BY Zenon, <3>1, <3>3, <3>4, NewCopies DEF TypeOK
  <2>. QED  BY <2>1, <2>2, <2>3, Changes DEF TypeOK
<1>5. mu' \in Threads \cup {None} /\ connected' \in BOOLEAN /\ closed' \in BOOLEAN
  <2>1. mu' \in Threads \cup {None}
    BY Zenon, Changes DEF LockClose, WipeReplay, TypeOK
  <2>2. connected' \in BOOLEAN
    BY Zenon, Changes DEF DropKeys, TypeOK
  <2>3. closed' \in BOOLEAN
    BY Zenon, Changes DEF LockClose, TypeOK
  <2>. QED  BY <2>1, <2>2, <2>3, Zenon
<1>6. key' \in Nat \cup {None} /\ masterKey' = key'
  <2>1. ASSUME NEW t \in Threads, UpdateKey(t) PROVE key' \in Nat \cup {None} /\ masterKey' = key'
    BY <2>1 DEF UpdateKey, TypeOK, keyVars
  <2>2. ASSUME NEW t \in Threads, DropKeys(t) PROVE key' \in Nat \cup {None} /\ masterKey' = key'
    BY <2>2, Zenon DEF DropKeys
  <2>. QED  BY <2>1, <2>2, Changes, Zenon DEF TypeOK
<1>7. payloads' \in Nat /\ seqCounter' \in Nat
  BY Changes DEF BeginPayload, Number, SealRekey, TypeOK
<1>8. wire' \in Seq(Frames)
  <2>1. ASSUME NEW t \in Threads, WriteFrame(t) PROVE wire' \in Seq(Frames)
    BY <2>1 DEF WriteFrame, TypeOK, Places
  <2>2. ASSUME NEW t \in Threads, WriteClose(t) PROVE wire' \in Seq(Frames)
    <3>1. [kind |-> "close"] \in Frames
      BY Zenon DEF Frames
    <3>. QED  BY <2>2, <3>1 DEF WriteClose, TypeOK
  <2>. QED  BY <2>1, <2>2, Changes, Zenon DEF TypeOK
<1>9. replay' \in Seq(Message)
  <2>1. ASSUME NEW t \in Threads, PushReplay(t) PROVE replay' \in Seq(Message)
    <3>1. load[t] \in Message
      BY <2>1, Zenon DEF PushReplay, Places
    <3>. QED  BY <2>1, <3>1 DEF PushReplay, Push, TypeOK
  <2>2. ASSUME NEW t \in Threads, WipeReplay(t) PROVE replay' \in Seq(Message)
    BY <2>2 DEF WipeReplay, Wipe
  <2>. QED  BY <2>1, <2>2, Changes, Zenon DEF TypeOK
<1>. QED
  BY <1>1, <1>2, <1>3, <1>4, <1>5, <1>6, <1>7, <1>8, <1>9, Zenon DEF TypeOK

\* Where the goroutines are.
LEMMA PlacesStep ==
  ASSUME TypeOK, Places, [Next]_vars
  PROVE  Places'
<1>. USE PublisherAssumption, CapacityAssumption DEF lockVars, keyVars, connVars, countVars, GoTo
<1>1. ASSUME NEW t \in Threads, LockWrite(t) PROVE Places'
  BY <1>1 DEF LockWrite, TypeOK, Places, vars, Threads, Writers
<1>2. ASSUME NEW t \in Threads, WriteFrame(t) PROVE Places'
  BY <1>2 DEF WriteFrame, AfterSend, Fail, TypeOK, Places, vars, Threads, Writers
<1>3. ASSUME NEW t \in Threads, LockRekey(t) PROVE Places'
  BY <1>3 DEF LockRekey, TypeOK, Places, vars, Threads, Writers
<1>4. ASSUME NEW t \in Threads, ReadKey(t) PROVE Places'
  BY <1>4 DEF ReadKey, TypeOK, Places, vars, Threads, Writers
<1>5. ASSUME NEW t \in Threads, SealRekey(t) PROVE Places'
  <2>1. t \in Writers /\ load[t] \in Message /\ seqCounter + 1 \in Nat
    BY <1>5 DEF SealRekey, Places, TypeOK
  <2>2. key # None => /\ Sealed("rekey", seqCounter + 1, 0) \in Frames
                      /\ Sealed("rekey", seqCounter + 1, 0).kind = "rekey"
    BY <2>1, SealedFrame, SMTT(30) DEF TypeOK
  <2>. QED  BY <1>5, <2>1, <2>2 DEF SealRekey, TypeOK, Places
<1>6. ASSUME NEW t \in Threads, UpdateKey(t) PROVE Places'
  BY <1>6 DEF UpdateKey, Panic, TypeOK, Places, vars, Threads, Writers
<1>7. ASSUME NEW t \in Threads, EndRekey(t) PROVE Places'
  BY <1>7 DEF EndRekey, TypeOK, Places, vars, Threads, Writers
<1>8. ASSUME NEW t \in Threads, GetCipher(t) PROVE Places'
  BY <1>8 DEF GetCipher, Fail, TypeOK, Places, vars, Threads, Writers
<1>9. ASSUME NEW t \in Threads, Number(t) PROVE Places'
  <2>1. t \in Writers /\ load[t] \in Message /\ seqCounter + 1 \in Nat
    BY <1>9 DEF Number, Places, TypeOK
  <2>2. [load[t] EXCEPT !.seq = seqCounter + 1] \in Message
    BY <2>1, Renumber, Zenon DEF Message
  <2>3. load' = [load EXCEPT ![t] = [load[t] EXCEPT !.seq = seqCounter + 1]]
    BY <1>9, Zenon DEF Number
  <2>4. \A u \in Writers : load[u] \in Message => load'[u] \in Message
    BY <2>2, <2>3, Zenon DEF TypeOK
  <2>5. load'[t] \in Message
    BY <2>1, <2>4, Zenon
  <2>6. \A u \in Threads : /\ u # t => pc'[u] = pc[u]
                            /\ out'[u] = out[u]
    BY <1>9, Zenon DEF Number, TypeOK
  <2>7. pc'[t] = "push"
    BY <1>9, Zenon DEF Number, TypeOK
  <2>. QED  BY <2>1, <2>4, <2>5, <2>6, <2>7 DEF Places
<1>10. ASSUME NEW t \in Threads, PushReplay(t) PROVE Places'
  BY <1>10 DEF PushReplay, Push, TypeOK, Places, vars, Threads, Writers
<1>11. ASSUME NEW t \in Threads, Seal(t) PROVE Places'
  <2>1. t \in Writers /\ load[t].seq \in Nat /\ load[t].body \in Nat
    BY <1>11, Zenon DEF Seal, Places, Message
  <2>2. key # None => /\ Sealed("data", load[t].seq, load[t].body) \in Frames
                      /\ Sealed("data", load[t].seq, load[t].body).kind = "data"
    BY <2>1, SealedFrame DEF TypeOK
  <2>3. \A u \in Threads : u # t => /\ pc'[u] = pc[u] /\ out'[u] = out[u]
                                    /\ u \in Writers => load'[u] = load[u]
    BY <1>11 DEF Seal, Fail, TypeOK
  <2>4. /\ pc'[t] \in {"send", "close", "finished"}
        /\ pc'[t] = "send" => out'[t] \in Frames /\ out'[t].kind = "data"
    BY <1>11, <2>2 DEF Seal, Fail, TypeOK
  <2>. QED  BY <2>1, <2>3, <2>4 DEF Places
<1>12. ASSUME NEW t \in Threads, BeginPayload(t) PROVE Places'
  <2>1. [body |-> payloads + 1, seq |-> 0] \in Message
    BY DEF Message, TypeOK
  <2>2. t \in Writers /\ load'[t] \in Message /\ pc'[t] \in {"rekey", "get_cipher"}
    BY <1>12, <2>1, Zenon DEF BeginPayload, TypeOK
  <2>3. \A u \in Threads : u # t => /\ pc'[u] = pc[u] /\ out'[u] = out[u]
                                    /\ u \in Writers => load'[u] = load[u]
    BY <1>12, Zenon DEF BeginPayload, TypeOK
  <2>. QED  BY <2>2, <2>3 DEF Places
<1>13. ASSUME NEW t \in Threads, Heartbeat(t) PROVE Places'
  <2>1. [kind |-> "heartbeat"] \in Frames
    BY DEF Frames
  <2>. QED  BY <1>13, <2>1 DEF Heartbeat, TypeOK, Places, Writers
<1>14. ASSUME NEW t \in Threads, EndOfInput(t) PROVE Places'
  BY <1>14 DEF EndOfInput, Fail, TypeOK, Places, vars, Threads, Writers
<1>15. ASSUME NEW t \in Threads, ReceiveInitSub(t) PROVE Places'
  BY <1>15 DEF ReceiveInitSub, TypeOK, Places, vars, Threads, Writers
<1>16. ASSUME NEW t \in Threads, StopSync(t) PROVE Places'
  BY <1>16 DEF StopSync, TypeOK, Places, vars, Threads, Writers
<1>17. ASSUME NEW t \in Threads, WrapMasterKey(t) PROVE Places'
  <2>1. masterKey # None => [kind |-> "step2", key |-> masterKey] \in Frames
    BY DEF Frames, TypeOK
  <2>2. t \in Syncers
    BY <1>17, Zenon DEF WrapMasterKey, Places
  <2>. QED  BY <1>17, <2>1, <2>2 DEF WrapMasterKey, TypeOK, Places
<1>18. ASSUME NEW t \in Threads, CheckOpen(t) PROVE Places'
  BY <1>18 DEF CheckOpen, TypeOK, Places, vars, Threads, Writers
<1>19. ASSUME NEW t \in Threads, ReplayItem(t) PROVE Places'
  <2>1. t \in Syncers
    BY <1>19, Zenon DEF ReplayItem, Places
  <2>2. PICK i \in DOMAIN items[t] :
          IF key = None THEN UNCHANGED <<pc, out, sealed>>
          ELSE /\ out' = [out EXCEPT ![t] = Sealed("data", items[t][i].seq, items[t][i].body)]
               /\ pc' = [pc EXCEPT ![t] = "send"]
    BY <1>19, Zenon DEF ReplayItem
  <2>3. items[t][i].seq \in Nat /\ items[t][i].body \in Nat
    BY <2>1, <2>2, Zenon DEF TypeOK, Message
  <2>4. key # None => /\ Sealed("data", items[t][i].seq, items[t][i].body) \in Frames
                      /\ Sealed("data", items[t][i].seq, items[t][i].body).kind = "data"
    BY <2>3, SealedFrame DEF TypeOK
  <2>5. load' = load
    BY <1>19, Zenon DEF ReplayItem
  <2>. QED  BY <2>1, <2>2, <2>4, <2>5 DEF TypeOK, Places
<1>20. ASSUME NEW t \in Threads, ReplayDone(t) PROVE Places'
  BY <1>20 DEF ReplayDone, TypeOK, Places, vars, Threads, Writers
<1>21. ASSUME NEW t \in Threads, LockClose(t) PROVE Places'
  BY <1>21 DEF LockClose, TypeOK, Places, vars, Threads, Writers
<1>22. ASSUME NEW t \in Threads, WriteClose(t) PROVE Places'
  BY <1>22 DEF WriteClose, TypeOK, Places, vars, Threads, Writers
<1>23. ASSUME NEW t \in Threads, DropKeys(t) PROVE Places'
  BY <1>23 DEF DropKeys, TypeOK, Places, vars, Threads, Writers
<1>24. ASSUME NEW t \in Threads, WipeReplay(t) PROVE Places'
  BY <1>24 DEF WipeReplay, Wipe, TypeOK, Places, vars, Threads, Writers
<1>25. ASSUME NEW t \in Threads, NEW last \in 0..seqCounter, ReceiveSyncReq(t, last)
      PROVE  Places'
  BY <1>25 DEF ReceiveSyncReq, GetAfter, TypeOK, Places, vars, Threads, Writers
<1>26. CASE ConnectionLost
  BY <1>26 DEF ConnectionLost, TypeOK, Places, vars, Threads, Writers
<1>27. CASE UNCHANGED vars
  BY <1>27 DEF vars, TypeOK, Places, Threads, Writers
<1>. QED
  BY <1>1, <1>2, <1>3, <1>4, <1>5, <1>6, <1>7, <1>8, <1>9, <1>10, <1>11, <1>12,
     <1>13, <1>14, <1>15, <1>16, <1>17, <1>18, <1>19, <1>20, <1>21, <1>22, <1>23,
     <1>24, <1>25, <1>26, <1>27, Zenon DEF Next, Run, Send, Rekey, Publish, Input, Request,
     Answer, Close

\* Close and its lock.
LEMMA LocksStep ==
  ASSUME TypeOK, Places, Locks, [Next]_vars
  PROVE  Locks'
<1>. USE PublisherAssumption, CapacityAssumption DEF lockVars, keyVars, connVars, countVars, GoTo
<1>1. ASSUME NEW t \in Threads, LockWrite(t) PROVE Locks'
  BY <1>1 DEF LockWrite, TypeOK, Places, Locks, vars, Threads, Writers
<1>2. ASSUME NEW t \in Threads, WriteFrame(t) PROVE Locks'
  BY <1>2 DEF WriteFrame, AfterSend, Fail, TypeOK, Places, Locks, vars, Threads,
     Writers
<1>3. ASSUME NEW t \in Threads, LockRekey(t) PROVE Locks'
  BY <1>3 DEF LockRekey, TypeOK, Places, Locks, vars, Threads, Writers
<1>4. ASSUME NEW t \in Threads, ReadKey(t) PROVE Locks'
  BY <1>4 DEF ReadKey, TypeOK, Places, Locks, vars, Threads, Writers
<1>5. ASSUME NEW t \in Threads, SealRekey(t) PROVE Locks'
  BY <1>5 DEF SealRekey, Sealed, TypeOK, Places, Locks, vars, Threads, Writers
<1>6. ASSUME NEW t \in Threads, UpdateKey(t) PROVE Locks'
  BY <1>6 DEF UpdateKey, Panic, TypeOK, Places, Locks, vars, Threads, Writers
<1>7. ASSUME NEW t \in Threads, EndRekey(t) PROVE Locks'
  BY <1>7 DEF EndRekey, TypeOK, Places, Locks, vars, Threads, Writers
<1>8. ASSUME NEW t \in Threads, GetCipher(t) PROVE Locks'
  BY <1>8 DEF GetCipher, Fail, TypeOK, Places, Locks, vars, Threads, Writers
<1>9. ASSUME NEW t \in Threads, Number(t) PROVE Locks'
  BY <1>9 DEF Number, TypeOK, Places, Locks, vars, Threads, Writers
<1>10. ASSUME NEW t \in Threads, PushReplay(t) PROVE Locks'
  BY <1>10 DEF PushReplay, Push, TypeOK, Places, Locks, vars, Threads, Writers
<1>11. ASSUME NEW t \in Threads, Seal(t) PROVE Locks'
  BY <1>11 DEF Seal, Sealed, Fail, TypeOK, Places, Locks, vars, Threads, Writers
<1>12. ASSUME NEW t \in Threads, BeginPayload(t) PROVE Locks'
  BY <1>12 DEF BeginPayload, TypeOK, Places, Locks, vars, Threads, Writers
<1>13. ASSUME NEW t \in Threads, Heartbeat(t) PROVE Locks'
  BY <1>13 DEF Heartbeat, TypeOK, Places, Locks, vars, Threads, Writers
<1>14. ASSUME NEW t \in Threads, EndOfInput(t) PROVE Locks'
  BY <1>14 DEF EndOfInput, Fail, TypeOK, Places, Locks, vars, Threads, Writers
<1>15. ASSUME NEW t \in Threads, ReceiveInitSub(t) PROVE Locks'
  BY <1>15 DEF ReceiveInitSub, TypeOK, Places, Locks, vars, Threads, Writers
<1>16. ASSUME NEW t \in Threads, StopSync(t) PROVE Locks'
  BY <1>16 DEF StopSync, TypeOK, Places, Locks, vars, Threads, Writers
<1>17. ASSUME NEW t \in Threads, WrapMasterKey(t) PROVE Locks'
  BY <1>17 DEF WrapMasterKey, TypeOK, Places, Locks, vars, Threads, Writers
<1>18. ASSUME NEW t \in Threads, CheckOpen(t) PROVE Locks'
  BY <1>18 DEF CheckOpen, TypeOK, Places, Locks, vars, Threads, Writers
<1>19. ASSUME NEW t \in Threads, ReplayItem(t) PROVE Locks'
  BY <1>19 DEF ReplayItem, Sealed, TypeOK, Places, Locks, vars, Threads, Writers
<1>20. ASSUME NEW t \in Threads, ReplayDone(t) PROVE Locks'
  BY <1>20 DEF ReplayDone, TypeOK, Places, Locks, vars, Threads, Writers
<1>21. ASSUME NEW t \in Threads, LockClose(t) PROVE Locks'
  BY <1>21 DEF LockClose, TypeOK, Places, Locks, vars, Threads, Writers
<1>22. ASSUME NEW t \in Threads, WriteClose(t) PROVE Locks'
  BY <1>22 DEF WriteClose, TypeOK, Places, Locks, vars, Threads, Writers
<1>23. ASSUME NEW t \in Threads, DropKeys(t) PROVE Locks'
  BY <1>23 DEF DropKeys, TypeOK, Places, Locks, vars, Threads, Writers
<1>24. ASSUME NEW t \in Threads, WipeReplay(t) PROVE Locks'
  BY <1>24 DEF WipeReplay, Wipe, TypeOK, Places, Locks, vars, Threads, Writers
<1>25. ASSUME NEW t \in Threads, NEW last \in 0..seqCounter, ReceiveSyncReq(t, last)
      PROVE  Locks'
  BY <1>25 DEF ReceiveSyncReq, GetAfter, TypeOK, Places, Locks, vars, Threads,
     Writers
<1>26. CASE ConnectionLost
  BY <1>26 DEF ConnectionLost, TypeOK, Places, Locks, vars, Threads, Writers
<1>27. CASE UNCHANGED vars
  BY <1>27 DEF vars, TypeOK, Places, Locks, Threads, Writers
<1>. QED
  BY <1>1, <1>2, <1>3, <1>4, <1>5, <1>6, <1>7, <1>8, <1>9, <1>10, <1>11, <1>12,
     <1>13, <1>14, <1>15, <1>16, <1>17, <1>18, <1>19, <1>20, <1>21, <1>22, <1>23,
     <1>24, <1>25, <1>26, <1>27, Zenon DEF Next, Run, Send, Rekey, Publish, Input, Request,
     Answer, Close

\* Nothing follows the CLOSE frame.
LEMMA CloseStep ==
  ASSUME TypeOK, Places, Locks, CloseIsLast, [Next]_vars
  PROVE  CloseIsLast'
<1>1. ASSUME NEW t \in Threads, WriteFrame(t) PROVE CloseIsLast'
  <2>1. CASE wire' = wire
    BY <2>1, Zenon DEF CloseIsLast
  <2>2. CASE wire' # wire
    <3>1. connected /\ mu = None /\ wire' = Append(wire, out[t])
      BY <1>1, <2>2, Zenon DEF WriteFrame
    <3>2. \A i \in 1..Len(wire) : wire[i].kind # "close"
      BY <3>1, PublisherAssumption, Zenon DEF Locks, TypeOK
    <3>3. out[t].kind # "close" /\ out[t] \in Frames
      BY <1>1, Zenon DEF WriteFrame, Places
    <3>4. \A i \in 1..Len(wire') : wire'[i].kind # "close"
      BY <3>1, <3>2, <3>3 DEF TypeOK
    <3>. QED  BY <3>4, Zenon DEF CloseIsLast
  <2>. QED  BY <2>1, <2>2, Zenon
<1>2. ASSUME NEW t \in Threads, WriteClose(t) PROVE CloseIsLast'
  <2>1. CASE wire' = wire
    BY <2>1 DEF CloseIsLast
  <2>2. CASE wire' # wire
    <3>1. wire' = Append(wire, [kind |-> "close"]) /\ pc[t] = "close_write"
      BY <1>2, <2>2, Zenon DEF WriteClose
    <3>2. \A i \in 1..Len(wire) : wire[i].kind # "close"
      BY <3>1, Zenon DEF Locks, TypeOK
    <3>3. \A i \in 1..Len(wire') : i # Len(wire') => wire'[i].kind # "close"
      BY <3>1, <3>2 DEF TypeOK
    <3>. QED  BY <3>3, Zenon DEF CloseIsLast
  <2>. QED  BY <2>1, <2>2
<1>3. CASE wire' = wire
  BY <1>3, Zenon DEF CloseIsLast
<1>. QED  BY <1>1, <1>2, <1>3, Changes, Zenon

\* A publisher has a message in hand that it had before, or it has just drawn
\* its number.
HandsKept ==
  \A u \in Writers : pc'[u] \in {"push", "seal"} =>
    \/ pc[u] \in {"push", "seal"} /\ load'[u] = load[u]
    \/ Number(u)

\* Only Number brings a message into the hands of a publisher.
LEMMA HandsStep ==
  ASSUME TypeOK, Places, [Next]_vars
  PROVE  HandsKept
<1>. USE PublisherAssumption, CapacityAssumption DEF lockVars, keyVars, connVars, countVars, GoTo
<1>1. ASSUME NEW t \in Threads, LockWrite(t) PROVE HandsKept
  BY <1>1, Zenon DEF LockWrite, HandsKept, TypeOK, vars, Threads, Writers
<1>2. ASSUME NEW t \in Threads, WriteFrame(t) PROVE HandsKept
  BY <1>2 DEF WriteFrame, AfterSend, Fail, HandsKept, TypeOK, vars, Threads, Writers
<1>3. ASSUME NEW t \in Threads, LockRekey(t) PROVE HandsKept
  BY <1>3, Zenon DEF LockRekey, HandsKept, TypeOK, vars, Threads, Writers
<1>4. ASSUME NEW t \in Threads, ReadKey(t) PROVE HandsKept
  BY <1>4, Zenon DEF ReadKey, HandsKept, TypeOK, vars, Threads, Writers
<1>5. ASSUME NEW t \in Threads, SealRekey(t) PROVE HandsKept
  BY <1>5 DEF SealRekey, Sealed, HandsKept, TypeOK, vars, Threads, Writers
<1>6. ASSUME NEW t \in Threads, UpdateKey(t) PROVE HandsKept
  BY <1>6 DEF UpdateKey, Panic, HandsKept, TypeOK, vars, Threads, Writers
<1>7. ASSUME NEW t \in Threads, EndRekey(t) PROVE HandsKept
  BY <1>7, Zenon DEF EndRekey, HandsKept, TypeOK, vars, Threads, Writers
<1>8. ASSUME NEW t \in Threads, GetCipher(t) PROVE HandsKept
  BY <1>8 DEF GetCipher, Fail, HandsKept, TypeOK, vars, Threads, Writers
<1>9. ASSUME NEW t \in Threads, Number(t) PROVE HandsKept
  BY Zenon, <1>9 DEF Number, HandsKept, TypeOK, vars, Threads, Writers
<1>10. ASSUME NEW t \in Threads, PushReplay(t) PROVE HandsKept
  BY <1>10, Zenon DEF PushReplay, Push, HandsKept, TypeOK, vars, Threads, Writers
<1>11. ASSUME NEW t \in Threads, Seal(t) PROVE HandsKept
  BY <1>11 DEF Seal, Sealed, Fail, HandsKept, TypeOK, vars, Threads, Writers
<1>12. ASSUME NEW t \in Threads, BeginPayload(t) PROVE HandsKept
  BY <1>12 DEF BeginPayload, HandsKept, TypeOK, vars, Threads, Writers
<1>13. ASSUME NEW t \in Threads, Heartbeat(t) PROVE HandsKept
  BY <1>13, Zenon DEF Heartbeat, HandsKept, TypeOK, vars, Threads, Writers
<1>14. ASSUME NEW t \in Threads, EndOfInput(t) PROVE HandsKept
  BY <1>14, Zenon DEF EndOfInput, Fail, HandsKept, TypeOK, vars, Threads, Writers
<1>15. ASSUME NEW t \in Threads, ReceiveInitSub(t) PROVE HandsKept
  BY <1>15, Zenon DEF ReceiveInitSub, HandsKept, TypeOK, vars, Threads, Writers
<1>16. ASSUME NEW t \in Threads, StopSync(t) PROVE HandsKept
  BY <1>16, Zenon DEF StopSync, HandsKept, TypeOK, vars, Threads, Writers
<1>17. ASSUME NEW t \in Threads, WrapMasterKey(t) PROVE HandsKept
  BY <1>17 DEF WrapMasterKey, HandsKept, TypeOK, vars, Threads, Writers
<1>18. ASSUME NEW t \in Threads, CheckOpen(t) PROVE HandsKept
  BY <1>18 DEF CheckOpen, HandsKept, TypeOK, vars, Threads, Writers
<1>19. ASSUME NEW t \in Threads, ReplayItem(t) PROVE HandsKept
  BY <1>19 DEF ReplayItem, Sealed, HandsKept, TypeOK, vars, Threads, Writers
<1>20. ASSUME NEW t \in Threads, ReplayDone(t) PROVE HandsKept
  BY <1>20, Zenon DEF ReplayDone, HandsKept, TypeOK, vars, Threads, Writers
<1>21. ASSUME NEW t \in Threads, LockClose(t) PROVE HandsKept
  BY <1>21 DEF LockClose, HandsKept, TypeOK, vars, Threads, Writers
<1>22. ASSUME NEW t \in Threads, WriteClose(t) PROVE HandsKept
  BY <1>22, Zenon DEF WriteClose, HandsKept, TypeOK, vars, Threads, Writers
<1>23. ASSUME NEW t \in Threads, DropKeys(t) PROVE HandsKept
  BY <1>23, Zenon DEF DropKeys, HandsKept, TypeOK, vars, Threads, Writers
<1>24. ASSUME NEW t \in Threads, WipeReplay(t) PROVE HandsKept
  BY <1>24, Zenon DEF WipeReplay, Wipe, HandsKept, TypeOK, vars, Threads, Writers
<1>25. ASSUME NEW t \in Threads, NEW last \in 0..seqCounter, ReceiveSyncReq(t, last)
      PROVE  HandsKept
  BY <1>25, Zenon DEF ReceiveSyncReq, GetAfter, HandsKept, TypeOK, vars, Threads, Writers
<1>26. CASE ConnectionLost
  BY <1>26, Zenon DEF ConnectionLost, HandsKept, TypeOK, vars, Threads, Writers
<1>27. CASE UNCHANGED vars
  BY <1>27, Zenon DEF vars, HandsKept, TypeOK, Threads, Writers
<1>. QED
  BY Zenon, <1>1, <1>2, <1>3, <1>4, <1>5, <1>6, <1>7, <1>8, <1>9, <1>10, <1>11, <1>12,
     <1>13, <1>14, <1>15, <1>16, <1>17, <1>18, <1>19, <1>20, <1>21, <1>22, <1>23,
     <1>24, <1>25, <1>26, <1>27 DEF Next, Run, Send, Rekey, Publish, Input, Request,
     Answer, Close

\* What the buffer and the copies hold was in somebody's hands before.
LEMMA NumberedStep ==
  ASSUME TypeOK, Places, [Next]_vars
  PROVE  \/ Numbered' \subseteq Numbered
         \/ \E t \in Threads : \E m \in Message :
              /\ Number(t) /\ m = [body |-> load[t].body, seq |-> seqCounter + 1]
              /\ Numbered' \subseteq Numbered \cup {m}
<1>. DEFINE Hands == {load[t] : t \in {u \in Writers : pc[u] \in {"push", "seal"}}}
            Copies == UNION {{items[t][i] : i \in DOMAIN items[t]} : t \in Syncers}
<1>1. \A i \in 1..Len(replay') : replay'[i] \in Numbered
  <2>1. ASSUME NEW t \in Threads, PushReplay(t) PROVE <1>1
    <3>1. t \in Writers /\ pc[t] = "push" /\ load[t] \in Message
      BY <2>1, Zenon DEF PushReplay, Places
    <3>2. load[t] \in Numbered
      BY <3>1, Zenon DEF Numbered
    <3>3. \/ replay' = Append(replay, load[t])
          \/ Len(replay) = Capacity /\ replay' = Append(Tail(replay), load[t])
      BY <2>1, Zenon DEF PushReplay, Push
    <3>4. \A i \in 1..Len(replay) : replay[i] \in Numbered
      BY Zenon DEF Numbered
    <3>5. CASE replay' = Append(replay, load[t])
      BY <3>1, <3>2, <3>4, <3>5 DEF TypeOK
    <3>6. CASE Len(replay) = Capacity /\ replay' = Append(Tail(replay), load[t])
      <4>1. Tail(replay) \in Seq(Message) /\ Len(Tail(replay)) = Len(replay) - 1
        BY <3>6, CapacityAssumption DEF TypeOK
      <4>2. \A i \in 1..Len(Tail(replay)) : Tail(replay)[i] = replay[i + 1]
        BY <3>6, CapacityAssumption DEF TypeOK
      <4>3. \A i \in 1..Len(Tail(replay)) : Tail(replay)[i] \in Numbered
        BY <3>4, <4>1, <4>2 DEF TypeOK
      <4>. QED  BY <3>1, <3>2, <3>6, <4>1, <4>3
    <3>. QED  BY <3>3, <3>5, <3>6, Zenon
  <2>2. ASSUME NEW t \in Threads, WipeReplay(t) PROVE <1>1
    BY <2>2 DEF WipeReplay, Wipe
  <2>3. CASE replay' = replay
    BY <2>3, Zenon DEF Numbered
  <2>. QED  BY <2>1, <2>2, <2>3, Changes, Zenon
<1>2. \A t \in Syncers : \A i \in DOMAIN items'[t] : items'[t][i] \in Numbered
  <2>1. \A t \in Syncers : \A i \in DOMAIN items[t] : items[t][i] \in Numbered
    BY DEF Numbered
  <2>2. ASSUME NEW t \in Threads, NEW last \in 0..seqCounter, ReceiveSyncReq(t, last)
        PROVE  <1>2
    <3>1. \A i \in DOMAIN GetAfter(last) : GetAfter(last)[i] \in Numbered
      BY Zenon DEF GetAfter, Numbered
    <3>2. items' = [items EXCEPT ![t] = GetAfter(last)]
      BY <2>2, Zenon DEF ReceiveSyncReq
    <3>. QED  BY <2>1, <3>1, <3>2 DEF TypeOK
  <2>3. ASSUME NEW t \in Threads, CheckOpen(t) PROVE <1>2
    <3>1. items' = items \/ items' = [items EXCEPT ![t] = <<>>]
      BY <2>3, Zenon DEF CheckOpen
    <3>2. DOMAIN <<>> = {}
      OBVIOUS
    <3>. QED  BY Zenon, <2>1, <3>1, <3>2 DEF TypeOK
  <2>4. ASSUME NEW t \in Threads, ReplayItem(t) PROVE <1>2
    <3>1. PICK i \in DOMAIN items[t] :
            items' = [items EXCEPT ![t] = [j \in DOMAIN items[t] \ {i} |-> items[t][j]]]
      BY <2>4, Zenon DEF ReplayItem
    <3>. QED  BY <2>1, <3>1 DEF TypeOK
  <2>. QED  BY <2>1, <2>2, <2>3, <2>4, Changes, Zenon
<1>3. ASSUME NEW N, Hands' \subseteq N, Numbered \subseteq N PROVE Numbered' \subseteq N
  <2>1. {replay'[i] : i \in 1..Len(replay')} \subseteq N
    BY <1>1, <1>3, Zenon
  <2>2. Copies' \subseteq N
    BY <1>2, <1>3
  <2>. QED  BY <1>3, <2>1, <2>2, Zenon DEF Numbered
<1>4. ASSUME NEW t \in Threads, Number(t)
      PROVE  \E m \in Message : /\ m = [body |-> load[t].body, seq |-> seqCounter + 1]
                                /\ Numbered' \subseteq Numbered \cup {m}
  <2>1. t \in Writers /\ load[t] \in Message /\ seqCounter + 1 \in Nat
    BY <1>4 DEF Number, Places, TypeOK
  <2>2. load'[t] = [load[t] EXCEPT !.seq = seqCounter + 1]
    BY <1>4, <2>1, Zenon DEF Number, TypeOK
  <2>3. load'[t] = [body |-> load[t].body, seq |-> seqCounter + 1]
    BY <2>1, <2>2, Renumber, Zenon
  <2>4. load'[t] \in Message /\ load'[t].seq = seqCounter + 1
    BY <2>1, <2>3 DEF Message
  <2>5. \A u \in Writers : u # t => pc'[u] = pc[u] /\ load'[u] = load[u]
    BY <1>4, Zenon DEF Number, GoTo, TypeOK, Threads, Writers
  <2>6. Hands' \subseteq Numbered \cup {load'[t]}
    BY <2>5, Zenon DEF Numbered
  <2>7. Numbered' \subseteq Numbered \cup {load'[t]}
    BY Zenon, <1>3, <2>6
  <2>. QED  BY <2>3, <2>4, <2>7, Zenon
<1>5. CASE \A t \in Threads : ~ Number(t)
  <2>1. Hands' \subseteq Numbered
    BY <1>5, HandsStep, Zenon DEF HandsKept, Numbered, Threads
  <2>. QED  BY <1>3, <2>1, Zenon
<1>. QED  BY <1>4, <1>5, Zenon

\* Sealed frames have numbers and contents.
LEMMA SealedTypesStep ==
  ASSUME TypeOK, Places, SealedTypes, [Next]_vars
  PROVE  /\ SealedTypes'
         /\ \/ sealed' = sealed
            \/ \E m \in Numbered : \E k \in Nat :
                 sealed' = sealed \cup {[kind |-> "data", seq |-> m.seq, body |-> m.body, key |-> k]}
            \/ \E t \in Threads : \E k \in Nat :
                 SealRekey(t)
                    /\ sealed' = sealed \cup
                         {[kind |-> "rekey", seq |-> seqCounter + 1, body |-> 0, key |-> k]}
<1>1. ASSUME NEW t \in Threads, Seal(t), sealed' # sealed
      PROVE  /\ key \in Nat /\ load[t] \in Numbered /\ load[t] \in Message
             /\ sealed' = sealed \cup
                    {[kind |-> "data", seq |-> load[t].seq, body |-> load[t].body, key |-> key]}
  <2>1. t \in Writers /\ pc[t] = "seal" /\ load[t] \in Message
    BY <1>1, Zenon DEF Seal, Places
  <2>2. key \in Nat
    BY <1>1, Zenon DEF Seal, TypeOK
  <2>3. sealed' = sealed \cup {Sealed("data", load[t].seq, load[t].body)}
    BY <1>1, Zenon DEF Seal
  <2>4. load[t] \in Numbered
    BY <2>1, Zenon DEF Numbered
  <2>. QED  BY <2>1, <2>2, <2>3, <2>4, Zenon DEF Sealed
<1>2. ASSUME NEW t \in Threads, ReplayItem(t), sealed' # sealed
      PROVE  \E m \in Numbered : /\ key \in Nat /\ m \in Message
               /\ sealed' = sealed \cup {[kind |-> "data", seq |-> m.seq, body |-> m.body, key |-> key]}
  <2>1. t \in Syncers
    BY <1>2, Zenon DEF ReplayItem, Places
  <2>2. key \in Nat
    BY <1>2, Zenon DEF ReplayItem, TypeOK
  <2>3. PICK i \in DOMAIN items[t] :
          sealed' = sealed \cup {Sealed("data", items[t][i].seq, items[t][i].body)}
    BY <1>2, Zenon DEF ReplayItem
  <2>4. items[t][i] \in Numbered /\ items[t][i] \in Message
    BY <2>1, <2>3 DEF Numbered, TypeOK
  <2>. QED  BY <2>2, <2>3, <2>4, Zenon DEF Sealed
<1>3. ASSUME NEW t \in Threads, SealRekey(t), sealed' # sealed
      PROVE  /\ key \in Nat
             /\ sealed' = sealed \cup
                    {[kind |-> "rekey", seq |-> seqCounter + 1, body |-> 0, key |-> key]}
  BY <1>3, Zenon DEF SealRekey, Sealed, TypeOK
<1>4. seqCounter + 1 \in Nat
  BY DEF TypeOK
<1>5. SealedTypes'
  <2>1. ASSUME NEW m \in Message, NEW k \in Nat
        PROVE  [kind |-> "data", seq |-> m.seq, body |-> m.body, key |-> k]
                 \in [kind : {"data", "rekey"}, seq : Nat, body : Nat, key : Nat]
    BY Zenon DEF Message
  <2>2. ASSUME NEW k \in Nat
        PROVE  [kind |-> "rekey", seq |-> seqCounter + 1, body |-> 0, key |-> k]
                 \in [kind : {"data", "rekey"}, seq : Nat, body : Nat, key : Nat]
    BY <1>4, Zenon
  <2>3. ASSUME NEW t \in Threads, Seal(t) PROVE SealedTypes'
    BY <1>1, <2>1, <2>3 DEF SealedTypes
  <2>4. ASSUME NEW t \in Threads, ReplayItem(t) PROVE SealedTypes'
    BY <1>2, <2>1, <2>4 DEF SealedTypes
  <2>5. ASSUME NEW t \in Threads, SealRekey(t) PROVE SealedTypes'
    BY <1>3, <2>2, <2>5 DEF SealedTypes
  <2>6. CASE sealed' = sealed
    BY <2>6, Zenon DEF SealedTypes
  <2>. QED  BY <2>3, <2>4, <2>5, <2>6, Changes, Zenon
<1>. QED  BY Zenon, <1>1, <1>2, <1>3, <1>5, Changes

\* Numbers stay with their contents: messages are dropped or copied, ...
LEMMA Keep ==
  ASSUME NEW M, NEW S, NEW c \in Nat, OneContent(M, S, c), NEW N, N \subseteq M, NEW d \in Nat, c <= d
  PROVE  OneContent(N, S, d)
BY DEF OneContent, Message

\* ... or one is given a number that was never drawn, ...
LEMMA Draw ==
  ASSUME NEW M, NEW S, NEW c \in Nat, OneContent(M, S, c), NEW m \in Message, m.seq = c + 1,
         NEW N, N \subseteq M \cup {m}
  PROVE  OneContent(N, S, c + 1)
BY DEF OneContent, Message

\* ... or a numbered message is encrypted, the first time or again, ...
LEMMA SealKnown ==
  ASSUME NEW M, NEW S, NEW c \in Nat, OneContent(M, S, c), NEW m \in M, NEW k \in Nat
  PROVE  OneContent(M, S \cup {[kind |-> "data", seq |-> m.seq, body |-> m.body, key |-> k]}, c)
BY DEF OneContent, Message

\* ... or a rekey frame takes a number of its own.
LEMMA SealFresh ==
  ASSUME NEW M, NEW S, NEW c \in Nat, OneContent(M, S, c), NEW k \in Nat
  PROVE  OneContent(M, S \cup {[kind |-> "rekey", seq |-> c + 1, body |-> 0, key |-> k]}, c + 1)
BY DEF OneContent, Message

\* Every step keeps one content per number: a draw takes a fresh number, and a seal
\* uses the content its number already stands for.
LEMMA ContentStep ==
  ASSUME TypeOK, Places, SealedTypes, OneContent(Numbered, sealed, seqCounter), [Next]_vars
  PROVE  OneContent(Numbered', sealed', seqCounter')
<1>1. seqCounter \in Nat
  BY Zenon DEF TypeOK
<1>2. ASSUME NEW t \in Threads, Number(t) PROVE OneContent(Numbered', sealed', seqCounter')
  <2>1. seqCounter' = seqCounter + 1 /\ sealed' = sealed
        /\ pc[t] = "number" /\ pc' = [pc EXCEPT ![t] = "push"]
    BY <1>2, Zenon DEF Number, GoTo
  <2>2. seqCounter + 1 \in Nat /\ seqCounter <= seqCounter + 1
    BY <1>1
  <2>3. CASE Numbered' \subseteq Numbered
    BY <1>1, <2>1, <2>2, <2>3, Keep, Zenon
  <2>4. ASSUME NEW m \in Message, m.seq = seqCounter + 1, Numbered' \subseteq Numbered \cup {m}
        PROVE  OneContent(Numbered', sealed', seqCounter')
    BY <1>1, <2>1, <2>4, Draw, Zenon
  <2>. QED  BY <2>3, <2>4, NumberedStep, Zenon
<1>3. CASE \A t \in Threads : ~ Number(t)
  <2>1. Numbered' \subseteq Numbered
    BY <1>3, NumberedStep, Zenon
  <2>2. CASE sealed' = sealed
    <3>1. seqCounter' = seqCounter \/ seqCounter' = seqCounter + 1
      BY <1>3, Changes, Zenon DEF SealRekey
    <3>2. seqCounter' \in Nat /\ seqCounter <= seqCounter'
      BY <1>1, <3>1
    <3>. QED  BY <1>1, <2>1, <2>2, <3>2, Keep, Zenon
  <2>3. ASSUME NEW m \in Numbered, NEW k \in Nat,
               sealed' = sealed \cup {[kind |-> "data", seq |-> m.seq, body |-> m.body, key |-> k]}
        PROVE  OneContent(Numbered', sealed', seqCounter')
    <3>1. seqCounter' = seqCounter \/ seqCounter' = seqCounter + 1
      BY <1>3, Changes, Zenon DEF SealRekey
    <3>2. seqCounter' \in Nat /\ seqCounter <= seqCounter'
      BY <1>1, <3>1
    <3>3. OneContent(Numbered, sealed', seqCounter)
      BY <1>1, <2>3, SealKnown, Zenon
    <3>. QED  BY <1>1, <2>1, <3>2, <3>3, Keep, Zenon
  <2>4. ASSUME NEW t \in Threads, NEW k \in Nat, SealRekey(t),
               sealed' = sealed \cup {[kind |-> "rekey", seq |-> seqCounter + 1, body |-> 0, key |-> k]}
        PROVE  OneContent(Numbered', sealed', seqCounter')
    <3>1. seqCounter' = seqCounter + 1 /\ seqCounter' \in Nat
      BY <1>1, <2>4 DEF SealRekey
    <3>2. OneContent(Numbered, sealed', seqCounter')
      BY <1>1, <2>4, <3>1, SealFresh, Zenon
    <3>3. seqCounter' <= seqCounter'
      BY <3>1
    <3>. QED  BY <2>1, <3>1, <3>2, <3>3, Keep, Zenon
  <2>. QED  BY <2>2, <2>3, <2>4, SealedTypesStep, Zenon
<1>. QED  BY <1>2, <1>3, Zenon

-----------------------------------------------------------------------------
\* Every step keeps the invariant.
LEMMA IInvStep ==
  ASSUME IInv, [Next]_vars
  PROVE  IInv'
<1>1. TypeOK' /\ Places'
  BY TypesStep, PlacesStep, Zenon DEF IInv
<1>2. Locks' /\ CloseIsLast'
  BY LocksStep, CloseStep, Zenon DEF IInv
<1>3. SealedTypes'
  BY SealedTypesStep, Zenon DEF IInv
<1>4. OneContent(Numbered, sealed, seqCounter)'
  BY ContentStep, Zenon DEF IInv, OneContent
<1>. QED  BY <1>1, <1>2, <1>3, <1>4, Zenon DEF IInv

\* The invariant: goroutines hold what their step says, Close holds p.mu while
\* it closes, and a number stands for one content wherever it appears.
THEOREM Invariance == Spec => []IInv
BY InitInv, IInvStep, PTL DEF Spec

\* No two contents are encrypted under one key and one number, whatever the
\* number of publishers, rekeys and replays (PublishPayload, TriggerRekey,
\* replaySyncForSubscriber).
THEOREM NonceUniqueness == Spec => []NonceUnique
<1>1. IInv => NonceUnique
  BY DEF IInv, OneContent, SealedTypes, NonceUnique
<1>. QED  BY <1>1, Invariance, PTL

\* Nothing is written after the CLOSE frame (sendFrame, Close).
THEOREM CloseLast == Spec => []CloseIsLast
<1>1. IInv => CloseIsLast
  BY Zenon DEF IInv
<1>. QED  BY <1>1, Invariance, PTL
-----------------------------------------------------------------------------
(* Who moves *)

\* A step is one goroutine's, and moves no other, unless the process panics.
LEMMA Mover ==
  ASSUME pc \in [Threads -> Labels], [Next]_vars
  PROVE  \/ Panic /\ key = None
         \/ pc' = pc
         \/ \E t \in Threads : /\ Run(t) \/ Input(t) \/ Request(t)
                              /\ \A u \in Threads : u # t => pc'[u] = pc[u]
<1>. DEFINE Other(t) == \/ \A v \in Threads : v # t => pc'[v] = pc[v]
                        \/ Panic /\ key = None
<1>. USE DEF GoTo
<1>1. ASSUME NEW t \in Threads, Send(t) \/ Rekey(t) PROVE Other(t)
  <2>1. CASE LockWrite(t) \/ LockRekey(t) \/ ReadKey(t) \/ SealRekey(t) \/ EndRekey(t)
    BY <2>1, Zenon DEF LockWrite, LockRekey, ReadKey, SealRekey, EndRekey
  <2>2. CASE WriteFrame(t)
    BY <2>2, Zenon DEF WriteFrame, AfterSend, Fail
  <2>3. CASE UpdateKey(t)
    BY <2>3, Zenon DEF UpdateKey
  <2>. QED  BY <1>1, <2>1, <2>2, <2>3, Zenon DEF Send, Rekey
<1>2. ASSUME NEW t \in Threads, Publish(t) PROVE Other(t)
  BY <1>2, Zenon DEF Publish, GetCipher, Number, PushReplay, Seal, Fail
<1>3. ASSUME NEW t \in Threads, Input(t) PROVE Other(t)
  BY <1>3, Zenon DEF Input, BeginPayload, Heartbeat, EndOfInput, Fail
<1>4. ASSUME NEW t \in Threads, Request(t) PROVE Other(t)
  BY <1>4, Zenon DEF Request, ReceiveInitSub, StopSync, ReceiveSyncReq
<1>5. ASSUME NEW t \in Threads, Answer(t) PROVE Other(t)
  BY <1>5, Zenon DEF Answer, WrapMasterKey, CheckOpen, ReplayItem, ReplayDone
<1>6. ASSUME NEW t \in Threads, Close(t) PROVE Other(t)
  BY <1>6, Zenon DEF Close, LockClose, WriteClose, DropKeys, WipeReplay
<1>7. ASSUME ConnectionLost \/ UNCHANGED vars PROVE pc' = pc
  BY <1>7, Zenon DEF ConnectionLost, vars
<1>. HIDE DEF Other
<1>8. ASSUME NEW t \in Threads, Run(t) \/ Input(t) \/ Request(t) PROVE Other(t)
  BY <1>1, <1>2, <1>3, <1>4, <1>5, <1>6, <1>8, Zenon DEF Run
<1>. QED  BY <1>7, <1>8, Zenon DEF Other, Next

\* A goroutine that moves takes a step of its own, or the process panics.
LEMMA OwnStep ==
  ASSUME pc \in [Threads -> Labels], [Next]_vars, NEW u \in Threads, pc'[u] # pc[u]
  PROVE  \/ Run(u) \/ Input(u) \/ Request(u)
         \/ Panic /\ key = None
BY Mover, Zenon

\* Where the steps of a goroutine start.
LEMMA Starts ==
  ASSUME NEW t
  PROVE
    /\ LockWrite(t) => pc[t] = "send"
    /\ WriteFrame(t) => pc[t] = "write"
    /\ LockRekey(t) => pc[t] = "rekey"
    /\ ReadKey(t) => pc[t] = "rekey_read"
    /\ SealRekey(t) => pc[t] = "rekey_seal"
    /\ UpdateKey(t) => pc[t] = "rekey_update"
    /\ EndRekey(t) => pc[t] = "rekey_end"
    /\ GetCipher(t) => pc[t] = "get_cipher"
    /\ Number(t) => pc[t] = "number"
    /\ PushReplay(t) => pc[t] = "push"
    /\ Seal(t) => pc[t] = "seal"
    /\ BeginPayload(t) => pc[t] = "idle"
    /\ Heartbeat(t) => pc[t] = "idle"
    /\ EndOfInput(t) => pc[t] = "idle"
    /\ ReceiveInitSub(t) => pc[t] = "idle"
    /\ StopSync(t) => pc[t] = "idle"
    /\ WrapMasterKey(t) => pc[t] = "join"
    /\ CheckOpen(t) => pc[t] = "sync"
    /\ ReplayItem(t) => pc[t] = "replay"
    /\ ReplayDone(t) => pc[t] = "replay"
    /\ LockClose(t) => pc[t] = "close"
    /\ WriteClose(t) => pc[t] = "close_write"
    /\ DropKeys(t) => pc[t] = "close_keys"
    /\ WipeReplay(t) => pc[t] = "close_wipe"
    /\ \A last : ReceiveSyncReq(t, last) => pc[t] = "idle"
BY ZenonT(60) DEF LockWrite, WriteFrame, LockRekey, ReadKey, SealRekey, UpdateKey,
   EndRekey, GetCipher, Number, PushReplay, Seal, BeginPayload, Heartbeat, EndOfInput,
   ReceiveInitSub, StopSync, WrapMasterKey, CheckOpen, ReplayItem, ReplayDone, LockClose,
   WriteClose, DropKeys, WipeReplay, ReceiveSyncReq

\* Who has published is remembered.
LEMMA PublishedGrows ==
  ASSUME [Next]_vars
  PROVE  published \subseteq published'
BY ZenonT(60) DEF Next, Run, Send, Rekey, Publish, Input, Request, Answer, Close, vars,
   countVars, LockWrite, WriteFrame, LockRekey, ReadKey, SealRekey, UpdateKey, EndRekey,
   GetCipher, Number, PushReplay, Seal, BeginPayload, Heartbeat, EndOfInput,
   ReceiveInitSub, StopSync, ReceiveSyncReq, WrapMasterKey, CheckOpen, ReplayItem,
   ReplayDone, LockClose, WriteClose, DropKeys, WipeReplay, ConnectionLost

-----------------------------------------------------------------------------
(* What the replay buffer holds after Close *)

\* The publishing goroutines that are past Push, or have left.
Past == {t \in Writers : pc[t] \in {"seal", "close", "finished"}}

Alive == \A t \in Threads : pc[t] # "panicked"

\* Once p.mu is free again after Close, the cipher is gone for good.
CloseDrops ==
  /\ \A t \in Threads : pc[t] = "close_wipe" => key = None
  /\ closed /\ mu = None => key = None

ResidueInv == CloseDrops /\ (Alive => IsFiniteSet(Past)) /\ ResidueBounded

\* The cipher stays gone.
LEMMA DropsStep ==
  ASSUME IInv, CloseDrops, [Next]_vars
  PROVE  CloseDrops'
<1>. USE PublisherAssumption DEF IInv, TypeOK
<1>1. key = None => key' = None
  BY Changes, Zenon DEF UpdateKey, DropKeys, keyVars
<1>2. ASSUME NEW u \in Threads, pc'[u] = "close_wipe" PROVE key' = None
  <2>1. CASE pc[u] = "close_wipe"
    BY <1>1, <2>1, Zenon DEF CloseDrops
  <2>2. CASE pc[u] # "close_wipe"
    <3>1. Run(u) \/ Input(u) \/ Request(u)
      BY <1>2, <2>2, OwnStep, Zenon DEF Panic
    <3>2. DropKeys(u)
      <4>. USE <1>2, <3>1, <2>2 DEF GoTo
      <4>1. ~(Send(u) \/ Rekey(u) \/ Publish(u))
        BY DEF Send, LockWrite, WriteFrame, AfterSend, Fail, Rekey, LockRekey, ReadKey,
           SealRekey, UpdateKey, Panic, EndRekey, Publish, GetCipher, Number, PushReplay, Seal
      <4>2. ~(Input(u) \/ Request(u) \/ Answer(u))
        BY DEF Input, BeginPayload, Heartbeat, EndOfInput, Fail, Request, ReceiveInitSub,
           StopSync, ReceiveSyncReq, Answer, WrapMasterKey, CheckOpen, ReplayItem, ReplayDone
      <4>3. ~(LockClose(u) \/ WriteClose(u) \/ WipeReplay(u))
        BY DEF LockClose, WriteClose, WipeReplay
      <4>. QED  BY <3>1, <4>1, <4>2, <4>3, Zenon DEF Run, Close
    <3>. QED  BY <3>2, Zenon DEF DropKeys
  <2>. QED  BY <2>1, <2>2, Zenon
<1>3. ASSUME closed', mu' = None PROVE key' = None
  <2>1. CASE closed /\ mu = None
    BY <1>1, <2>1, Zenon DEF CloseDrops
  <2>2. ASSUME NEW t \in Threads, LockClose(t) PROVE key' = None
    BY <1>1, <1>3, <2>2, Zenon DEF LockClose, CloseDrops
  <2>3. ASSUME NEW t \in Threads, WipeReplay(t) PROVE key' = None
    BY <1>1, <2>3, Zenon DEF WipeReplay, CloseDrops
  <2>. QED  BY <1>3, <2>1, <2>2, <2>3, Changes, Zenon
<1>. QED  BY <1>2, <1>3, Zenon DEF CloseDrops

\* After Close nobody comes back from behind Push.
LEMMA PastGrows ==
  ASSUME IInv, [Next]_vars, closed, key = None, Alive', NEW u \in Past
  PROVE  u \in Past'
<1>. USE DEF IInv, TypeOK
<1>1. u \in Writers /\ u \in Threads /\ pc[u] \in {"seal", "close", "finished"}
  BY Zenon DEF Past, Threads
<1>2. CASE pc'[u] = pc[u]
  BY <1>1, <1>2, Zenon DEF Past
<1>3. CASE pc'[u] # pc[u]
  <2>1. Run(u) \/ Input(u) \/ Request(u)
    BY <1>1, <1>3, OwnStep, Zenon DEF Panic, Alive
  <2>2. Seal(u) \/ LockClose(u)
    BY <1>1, <2>1, Starts, Zenon DEF Run, Send, Rekey, Publish, Answer, Close, Input, Request
  <2>3. pc'[u] \in {"close", "finished"}
    BY <1>1, <2>2, Zenon DEF Seal, LockClose, Fail, GoTo
  <2>. QED  BY <1>1, <2>3, Zenon DEF Past
<1>. QED  BY <1>2, <1>3, Zenon

\* A process that panicked does nothing more.
LEMMA AliveBefore ==
  ASSUME pc \in [Threads -> Labels], [Next]_vars, Alive'
  PROVE  Alive
<1>1. ASSUME NEW u \in Threads, pc[u] = "panicked" PROVE FALSE
  <2>1. ~(Run(u) \/ Input(u) \/ Request(u))
    BY <1>1, Starts, Zenon DEF Run, Send, Rekey, Publish, Answer, Close, Input, Request
  <2>2. pc'[u] = pc[u]
    BY <2>1, OwnStep, Zenon DEF Panic, Alive
  <2>. QED  BY <1>1, <2>2, Zenon DEF Alive
<1>. QED  BY <1>1, Zenon DEF Alive

\* At most one goroutine at a time gets there.
LEMMA PastFinite ==
  ASSUME IInv, Alive => IsFiniteSet(Past), [Next]_vars, Alive'
  PROVE  IsFiniteSet(Past) /\ IsFiniteSet(Past')
<1>. USE DEF IInv, TypeOK
<1>1. Alive
  BY AliveBefore, Zenon
<1>2. Past' \subseteq Past \/ \E t \in Threads : Past' \subseteq Past \cup {t}
  <2>1. CASE Panic
    BY <2>1, Zenon DEF Panic, Past, Threads
  <2>2. CASE pc' = pc
    BY <2>2, Zenon DEF Past
  <2>3. ASSUME NEW t \in Threads, \A u \in Threads : u # t => pc'[u] = pc[u]
        PROVE  Past' \subseteq Past \cup {t}
    BY <2>3, Zenon DEF Past, Threads
  <2>. QED  BY <2>1, <2>2, <2>3, Mover, Zenon
<1>3. IsFiniteSet(Past)
  BY <1>1, Zenon
<1>. QED  BY <1>2, <1>3, FS_AddElement, FS_Subset, Zenon

\* What Close leaves behind is what the goroutines on their way out still push.
LEMMA ResidueStep ==
  ASSUME IInv, ResidueInv, [Next]_vars
  PROVE  ResidueInv'
<1>. USE DEF IInv, ResidueInv
<1>1. CloseDrops'
  BY DropsStep, Zenon
<1>2. ASSUME Alive' PROVE IsFiniteSet(Past) /\ IsFiniteSet(Past')
  BY <1>2, PastFinite, Zenon
<1>3. ResidueBounded'
  <2>. SUFFICES ASSUME closed', mu' = None, Alive' PROVE Len(replay') <= Cardinality(Past')
    BY Zenon DEF ResidueBounded, Past, Alive
  <2>1. Cardinality(Past) \in Nat /\ Cardinality(Past') \in Nat
    BY <1>2, FS_CardinalityType, Zenon
  <2>2. ASSUME NEW t \in Threads, WipeReplay(t) PROVE Len(replay') = 0
    BY <2>2, Zenon DEF WipeReplay, Wipe
  <2>4. ASSUME closed, mu = None, Alive PROVE Len(replay') <= Cardinality(Past')
    <3>1. Len(replay) <= Cardinality(Past)
      BY <2>4, Zenon DEF ResidueBounded, Past, Alive
    <3>2. key = None
      BY <2>4, Zenon DEF CloseDrops
    <3>3. Past \subseteq Past'
      BY <2>4, <3>2, PastGrows, Zenon
    <3>4. Cardinality(Past) <= Cardinality(Past')
      BY <1>2, <3>3, FS_Subset, Zenon
    <3>5. CASE replay' = replay
      BY <2>1, <3>1, <3>4, <3>5 DEF TypeOK
    <3>6. ASSUME NEW t \in Threads, PushReplay(t) PROVE Len(replay') <= Cardinality(Past')
      <4>1. Len(replay') <= Len(replay) + 1 /\ Len(replay) \in Nat
        BY <3>6, CapacityAssumption DEF PushReplay, Push, TypeOK
      <4>2. t \in Writers /\ pc[t] = "push" /\ pc'[t] = "seal"
        BY <3>6, Zenon DEF PushReplay, GoTo, TypeOK, Places
      <4>3. Past \cup {t} \subseteq Past' /\ t \notin Past
        BY <3>3, <4>2, Zenon DEF Past
      <4>4. Cardinality(Past \cup {t}) = Cardinality(Past) + 1
        BY <1>2, <4>3, FS_AddElement, Zenon
      <4>5. Cardinality(Past \cup {t}) <= Cardinality(Past')
        BY <1>2, <4>3, FS_Subset, Zenon
      <4>. QED  BY <2>1, <3>1, <4>1, <4>4, <4>5
    <3>7. ASSUME NEW t \in Threads, WipeReplay(t) PROVE Len(replay') <= Cardinality(Past')
      BY <2>1, <2>2, <3>7
    <3>. QED  BY <3>5, <3>6, <3>7, Changes, Zenon
  <2>5. Alive
    BY AliveBefore, Zenon DEF TypeOK
  <2>6. (closed /\ mu = None) \/ \E t \in Threads : WipeReplay(t)
    <3>1. ASSUME NEW t \in Threads, LockClose(t) PROVE closed /\ mu = None
      BY <3>1, PublisherAssumption, Zenon DEF LockClose
    <3>. QED  BY <3>1, Changes, Zenon
  <2>. QED  BY <2>1, <2>2, <2>4, <2>5, <2>6
<1>. QED  BY <1>1, <1>2, <1>3, Zenon

\* Only what the publishing goroutines push on their way out is left in the
\* replay buffer of a closed engine: at most one message each (Close,
\* PublishPayload), for any number of goroutines.
THEOREM ResidueIsBounded == Spec => []ResidueBounded
<1>1. Init => ResidueInv
  <2>. SUFFICES ASSUME Init PROVE ResidueInv
    BY Zenon
  <2>1. Past = {}
    BY PublisherAssumption, Zenon DEF Init, Past, Writers, Threads
  <2>. QED  BY <2>1, FS_EmptySet, PublisherAssumption, Zenon
            DEF Init, LogInit, ResidueInv, CloseDrops, ResidueBounded
<1>2. IInv /\ ResidueInv /\ [Next]_vars => ResidueInv'
  BY ResidueStep, Zenon
<1>3. ResidueInv => ResidueBounded
  BY Zenon DEF ResidueInv
<1>. QED  BY <1>1, <1>2, <1>3, Invariance, PTL DEF Spec

-----------------------------------------------------------------------------
(* The keys a lone publisher announces *)

\* The rekey frames on a wire: what a reader's key has advanced to at its end.
Announced(w) == Cardinality({j \in 1..Len(w) : w[j].kind = "rekey"})

\* Follows(0, 0) of a wire: each frame is under the key its reader has by then.
Readable(w) ==
  \A i \in 1..Len(w) :
    w[i].kind \in {"data", "rekey"} =>
      w[i].key = Cardinality({j \in 1..(i - 1) : w[j].kind = "rekey"})

Sends(t) == pc[t] \in {"send", "write"} /\ out[t].kind \in {"data", "rekey"}

Publishes(t) ==
  \/ pc[t] \in {"rekey", "rekey_read", "rekey_seal", "rekey_update", "rekey_end",
                "get_cipher", "number", "push", "seal"}
  \/ Sends(t)

\* A lone publisher is the only goroutine that writes frames under the key.  The
\* cipher has the key announced last, except between the write of a rekey frame
\* and UpdateKey, and the frame about to be written is under the announced key.
Lone ==
  /\ \A t \in Syncers : pc[t] \in {"idle", "finished", "panicked"}
  /\ \A t \in Writers : Publishes(t) => t \in published
  /\ \A t \in Writers : Sends(t) => out[t].key = Announced(wire)
  /\ \A t \in Writers : pc[t] = "rekey_update" /\ key # None => Announced(wire) = key + 1
  /\ key # None /\ (\A t \in Writers : pc[t] # "rekey_update") => key = Announced(wire)

StreamInv ==
  /\ requests \in Nat
  /\ LoneWriter => Lone /\ Readable(wire)

\* One more frame on the wire.
LEMMA OneMoreFrame ==
  ASSUME NEW w \in Seq(Frames), NEW f \in Frames
  PROVE  /\ Announced(w) \in Nat
         /\ Announced(Append(w, f)) = Announced(w) + (IF f.kind = "rekey" THEN 1 ELSE 0)
         /\ Readable(w) /\ (f.kind \in {"data", "rekey"} => f.key = Announced(w)) =>
              Readable(Append(w, f))
<1>. DEFINE n == Len(w)
            S == {j \in 1..n : w[j].kind = "rekey"}
            v == Append(w, f)
<1>1. n \in Nat /\ Len(v) = n + 1 /\ v[n + 1] = f /\ \A j \in 1..n : v[j] = w[j]
  OBVIOUS
<1>2. IsFiniteSet(S) /\ Cardinality(S) \in Nat
  <2>1. IsFiniteSet(1..n)
    BY <1>1, FS_Interval
  <2>2. S \in SUBSET (1..n)
    BY Zenon
  <2>. HIDE DEF S
  <2>. QED  BY <2>1, <2>2, FS_Subset, FS_CardinalityType, Zenon
<1>3. {j \in 1..Len(v) : v[j].kind = "rekey"} = IF f.kind = "rekey" THEN S \cup {n + 1} ELSE S
  <2>1. \A j : j \in 1..(n + 1) <=> j \in 1..n \/ j = n + 1
    BY <1>1
  <2>. HIDE DEF n, v
  <2>. QED  BY <1>1, <2>1, Zenon
<1>4. n + 1 \notin S
  BY <1>1
<1>5. Announced(v) = Announced(w) + (IF f.kind = "rekey" THEN 1 ELSE 0)
  <2>1. Announced(v) = Cardinality(IF f.kind = "rekey" THEN S \cup {n + 1} ELSE S)
    BY <1>3, Zenon DEF Announced
  <2>2. Cardinality(S \cup {n + 1}) = Cardinality(S) + 1
    <3>. HIDE DEF S, n
    <3>. QED  BY <1>2, <1>4, FS_AddElement, Zenon
  <2>3. Announced(w) = Cardinality(S)
    BY Zenon DEF Announced
  <2>. HIDE DEF S, n, v
  <2>. QED  BY <1>2, <2>1, <2>2, <2>3
<1>6. ASSUME Readable(w), f.kind \in {"data", "rekey"} => f.key = Announced(w), NEW i \in 1..Len(v),
             v[i].kind \in {"data", "rekey"}
      PROVE  v[i].key = Cardinality({j \in 1..(i - 1) : v[j].kind = "rekey"})
  <2>1. i \in 1..n \/ i = n + 1
    BY <1>1, <1>6
  <2>2. {j \in 1..(i - 1) : v[j].kind = "rekey"} = {j \in 1..(i - 1) : w[j].kind = "rekey"}
    BY <1>1, <2>1
  <2>3. CASE i \in 1..n
    <3>1. v[i] = w[i]
      BY <1>1, <2>3, Zenon
    <3>. HIDE DEF v
    <3>. QED  BY <1>6, <2>2, <2>3, <3>1, Zenon DEF Readable
  <2>4. CASE i = n + 1
    <3>1. v[i] = f /\ i - 1 = n
      BY <1>1, <2>4
    <3>. HIDE DEF v
    <3>. QED  BY <1>6, <2>2, <3>1, Zenon DEF Announced
  <2>. QED  BY <2>1, <2>3, <2>4, Zenon
<1>. HIDE DEF v
<1>7. Announced(w) \in Nat
  BY <1>2, Zenon DEF Announced
<1>. QED  BY <1>5, <1>6, <1>7, Zenon DEF Readable, v

\* A publisher that is alone was so before.
LEMMA LoneBefore ==
  ASSUME requests \in Nat, [Next]_vars
  PROVE  /\ requests' \in Nat
         /\ LoneWriter' => LoneWriter /\ requests' = requests
<1>1. \/ requests' = requests
      \/ requests' = requests + 1
  BY Zenon DEF Next, Run, Send, Rekey, Publish, Input, Request, Answer, Close, vars,
     countVars, LockWrite, WriteFrame, LockRekey, ReadKey, SealRekey, UpdateKey, EndRekey,
     GetCipher, Number, PushReplay, Seal, BeginPayload, Heartbeat, EndOfInput,
     ReceiveInitSub, StopSync, ReceiveSyncReq, WrapMasterKey, CheckOpen, ReplayItem,
     ReplayDone, LockClose, WriteClose, DropKeys, WipeReplay, ConnectionLost
<1>. QED  BY <1>1, PublishedGrows DEF LoneWriter

\* The lone publisher's keys.
LEMMA LoneStep ==
  ASSUME IInv, Lone, Readable(wire), LoneWriter, LoneWriter', requests' = requests, [Next]_vars
  PROVE  Lone' /\ Readable(wire')
<1>. DEFINE Goal == Lone' /\ Readable(wire')
<1>0. /\ pc \in [Threads -> Labels] /\ out \in [Threads -> Frames \cup {None}]
      /\ key \in Nat \cup {None} /\ wire \in Seq(Frames)
      /\ Announced(wire) \in Nat
  <2>1. TypeOK
    BY Zenon DEF IInv
  <2>2. [kind |-> "close"] \in Frames
    BY Zenon DEF Frames
  <2>. QED  BY <2>1, <2>2, OneMoreFrame, Zenon DEF TypeOK
<1>. USE <1>0, PublisherAssumption DEF GoTo, keyVars, countVars, Lone, Publishes, Sends, LoneWriter
<1>1. ASSUME NEW t \in Threads, LockWrite(t) PROVE Goal
  BY <1>1, Zenon DEF LockWrite, Writers, Threads
<1>2. ASSUME NEW t \in Threads, LockRekey(t) PROVE Goal
  BY <1>2, Zenon DEF LockRekey, Writers, Threads
<1>3. ASSUME NEW t \in Threads, ReadKey(t) PROVE Goal
  BY <1>3, Zenon DEF ReadKey, Writers, Threads
<1>4. ASSUME NEW t \in Threads, EndRekey(t) PROVE Goal
  BY <1>4, Zenon DEF EndRekey, Writers, Threads
<1>5. ASSUME NEW t \in Threads, GetCipher(t) PROVE Goal
  BY <1>5 DEF GetCipher, Fail, Writers, Threads
<1>6. ASSUME NEW t \in Threads, Number(t) PROVE Goal
  BY <1>6, Zenon DEF Number, Writers, Threads
<1>7. ASSUME NEW t \in Threads, PushReplay(t) PROVE Goal
  BY <1>7, Zenon DEF PushReplay, Writers, Threads
<1>8. ASSUME NEW t \in Threads, BeginPayload(t) PROVE Goal
  BY <1>8 DEF BeginPayload, Writers, Threads
<1>9. ASSUME NEW t \in Threads, Heartbeat(t) PROVE Goal
  BY <1>9 DEF Heartbeat, Writers, Threads
<1>10. ASSUME NEW t \in Threads, EndOfInput(t) PROVE Goal
  BY <1>10 DEF EndOfInput, Fail, Writers, Threads
<1>11. ASSUME NEW t \in Threads, StopSync(t) PROVE Goal
  BY <1>11, Zenon DEF StopSync, Writers, Threads
<1>12. ASSUME NEW t \in Threads, LockClose(t) PROVE Goal
  BY <1>12 DEF LockClose, Writers, Threads
<1>13. ASSUME NEW t \in Threads, DropKeys(t) PROVE Goal
  BY <1>13, Zenon DEF DropKeys, Writers, Threads
<1>14. ASSUME NEW t \in Threads, WipeReplay(t) PROVE Goal
  BY <1>14, Zenon DEF WipeReplay, Writers, Threads
<1>15. ASSUME NEW t \in Threads, SealRekey(t) PROVE Goal
  BY <1>15 DEF SealRekey, Sealed, Writers, Threads
<1>16. ASSUME NEW t \in Threads, Seal(t) PROVE Goal
  BY <1>16 DEF Seal, Sealed, Fail, Writers, Threads
<1>17. ASSUME NEW t \in Threads, UpdateKey(t) PROVE Goal
  <2>1. t \in Writers
    BY <1>17, Zenon DEF UpdateKey, IInv, Places
  <2>2. CASE key = None
    BY <1>17, <2>2 DEF UpdateKey, Panic, Writers, Threads
  <2>3. CASE key # None
    <3>1. /\ key' = key + 1 /\ pc' = [pc EXCEPT ![t] = "get_cipher"]
          /\ UNCHANGED <<out, wire, published>>
      BY <1>17, <2>3, Zenon DEF UpdateKey
    <3>2. pc[t] = "rekey_update" /\ t \in published /\ key' = Announced(wire)
      BY <1>17, <2>1, <2>3, <3>1, Zenon DEF UpdateKey
    <3>3. \A u \in Writers : u # t => ~Publishes(u)
      BY <3>2, Zenon
    <3>. QED  BY <2>1, <3>1, <3>2, <3>3, Zenon DEF Writers, Threads
  <2>. QED  BY <2>2, <2>3, Zenon
<1>18. ASSUME NEW t \in Threads, WriteFrame(t) PROVE Goal
  <2>1. t \in Writers /\ out[t] \in Frames /\ out[t].kind # "close"
    BY <1>18, Zenon DEF WriteFrame, IInv, Places
  <2>2. CASE wire' = wire
    BY <1>18, <2>1, <2>2 DEF WriteFrame, AfterSend, Fail, Writers, Threads
  <2>3. CASE wire' = Append(wire, out[t]) /\ out[t].kind # "heartbeat"
    <3>1. CASE out[t].kind \in {"data", "rekey"}
      BY <1>18, <2>1, <2>3, <3>1, OneMoreFrame DEF WriteFrame, AfterSend, Fail, Writers, Threads
    <3>2. CASE out[t].kind \notin {"data", "rekey"}
      BY <1>18, <2>1, <2>3, <3>2, OneMoreFrame DEF WriteFrame, AfterSend, Fail, Writers, Threads
    <3>. QED  BY <3>1, <3>2, Zenon
  <2>. QED  BY <1>18, <2>2, <2>3, Zenon DEF WriteFrame
<1>19. ASSUME NEW t \in Threads, WriteClose(t) PROVE Goal
  <2>1. [kind |-> "close"] \in Frames
    BY Zenon DEF Frames
  <2>2. Announced(wire') = Announced(wire) /\ Readable(wire')
    BY <1>19, <2>1, OneMoreFrame DEF WriteClose
  <2>. QED  BY <1>19, <2>2, Zenon DEF WriteClose, Writers, Threads
<1>20. ASSUME NEW t \in Threads, Answer(t) PROVE Goal
  BY <1>20, Zenon DEF Answer, WrapMasterKey, CheckOpen, ReplayItem, ReplayDone, IInv, Places
<1>21. ASSUME NEW t \in Threads, Request(t), ~StopSync(t) PROVE Goal
  BY <1>21, SMTT(30) DEF Request, ReceiveInitSub, ReceiveSyncReq
<1>22. ASSUME ConnectionLost \/ UNCHANGED vars PROVE Goal
  BY <1>22, Zenon DEF ConnectionLost, vars
<1>. HIDE DEF Goal, Lone, Publishes, Sends, LoneWriter
<1>. SUFFICES Goal
  BY Zenon DEF Goal
<1>23. ASSUME NEW t \in Threads, Run(t) \/ Input(t) \/ Request(t) PROVE Goal
  BY Zenon, <1>1, <1>2, <1>3, <1>4, <1>5, <1>6, <1>7, <1>8, <1>9, <1>10, <1>11,
     <1>12, <1>13, <1>14, <1>15, <1>16, <1>17, <1>18, <1>19, <1>20, <1>21, <1>22,
     <1>23 DEF Run, Send, Rekey, Publish, Input, Request, Close
<1>. QED  BY Zenon, <1>22, <1>23 DEF Next

\* The lone publisher's keys, for all its steps.
LEMMA StreamInvariance == Spec => []StreamInv
<1>1. Init => StreamInv
  <2>. SUFFICES ASSUME Init PROVE StreamInv
    OBVIOUS
  <2>1. Announced(wire) = 0 /\ Readable(wire)
    <3>1. Len(wire) = 0 /\ 1..0 = {}
      BY DEF Init
    <3>2. {j \in 1..Len(wire) : wire[j].kind = "rekey"} = {}
      BY <3>1, Zenon
    <3>. QED  BY <3>1, <3>2, FS_EmptySet, Zenon DEF Announced, Readable
  <2>. QED  BY <2>1, PublisherAssumption, Zenon DEF Init, StreamInv, Lone, Publishes, Sends, Writers, Threads
<1>2. IInv /\ StreamInv /\ [Next]_vars => StreamInv'
  BY LoneBefore, LoneStep, Zenon DEF StreamInv
<1>. QED  BY <1>1, <1>2, Invariance, PTL DEF Spec

\* While one goroutine publishes and nothing is replayed, every frame on the wire
\* opens with the initial key advanced at each rekey frame before it
\* (PublishPayload, TriggerRekey), whatever Close, heartbeats and lost connections do.
THEOREM StreamAlwaysDecrypts == Spec => []StreamDecrypts
<1>1. IInv /\ StreamInv => StreamDecrypts
  <2>. SUFFICES ASSUME IInv, Readable(wire),
                       NEW i \in (0 + 1)..Len(wire), wire[i].kind \in {"data", "rekey"}
                PROVE  wire[i].key = 0 + Cardinality({j \in (0 + 1)..(i - 1) : wire[j].kind = "rekey"})
    BY Zenon DEF StreamInv, StreamDecrypts, Follows
  <2>1. wire[i].key = Cardinality({j \in 1..(i - 1) : wire[j].kind = "rekey"})
    BY DEF Readable
  <2>2. wire[i].key \in Nat
    <3>1. wire[i] \in Frames
      BY DEF IInv, TypeOK
    <3>. QED  BY <3>1, Zenon DEF Frames
  <2>. QED  BY <2>1, <2>2
<1>. QED  BY <1>1, Invariance, StreamInvariance, PTL

-----------------------------------------------------------------------------
(* What is written *)

Ciphered == {"data", "rekey"}

\* What is about to be written was sealed.
OutSealed ==
  \A t \in Threads : pc[t] \in {"send", "write"} /\ out[t].kind \in Ciphered => out[t] \in sealed

\* A step of the publisher writes one frame at most, and only what was sealed.
LEMMA WireGrows ==
  ASSUME IInv, OutSealed, [Next]_vars
  PROVE  \/ wire' = wire
         \/ \E f \in Frames : /\ wire' = Append(wire, f) /\ f.kind # "heartbeat"
                              /\ f.kind \in Ciphered => f \in sealed
<1>1. ASSUME NEW t \in Threads, WriteFrame(t), wire' # wire
      PROVE  \E f \in Frames : /\ wire' = Append(wire, f) /\ f.kind # "heartbeat"
                               /\ f.kind \in Ciphered => f \in sealed
  <2>1. out[t] \in Frames /\ pc[t] = "write"
    BY <1>1, Zenon DEF WriteFrame, IInv, Places
  <2>2. wire' = Append(wire, out[t]) /\ out[t].kind # "heartbeat"
    BY <1>1, Zenon DEF WriteFrame
  <2>. QED  BY <2>1, <2>2, Zenon DEF OutSealed
<1>2. ASSUME NEW t \in Threads, WriteClose(t), wire' # wire
      PROVE  \E f \in Frames : /\ wire' = Append(wire, f) /\ f.kind # "heartbeat"
                               /\ f.kind \in Ciphered => f \in sealed
  <2>1. wire' = Append(wire, [kind |-> "close"]) /\ [kind |-> "close"] \in Frames
    BY <1>2, Zenon DEF WriteClose, Frames
  <2>. QED  BY <2>1, Zenon DEF Ciphered
<1>. QED  BY <1>1, <1>2, Changes, Zenon

\* Nothing that was sealed is forgotten, and numbers only grow.
LEMMA HistoryGrows ==
  ASSUME TypeOK, [Next]_vars
  PROVE  sealed \subseteq sealed' /\ seqCounter <= seqCounter'
<1>1. sealed \subseteq sealed'
  BY Changes DEF Seal, SealRekey, ReplayItem
<1>2. seqCounter <= seqCounter'
  BY Changes DEF Number, SealRekey, TypeOK
<1>. QED  BY <1>1, <1>2, Zenon

\* A frame stays in hand until it is written.
LEMMA OutKept ==
  ASSUME TypeOK, [Next]_vars, NEW u \in Threads, pc'[u] = pc[u], pc[u] \in {"send", "write"}
  PROVE  out'[u] = out[u]
<1>. SUFFICES ASSUME out'[u] # out[u] PROVE FALSE
  BY Zenon
<1>. USE DEF TypeOK
<1>1. ASSUME NEW t \in Threads, WriteFrame(t) \/ Seal(t) \/ SealRekey(t) \/ Heartbeat(t)
               \/ WrapMasterKey(t) \/ ReplayItem(t)
      PROVE  t = u
  BY <1>1, Zenon DEF WriteFrame, Seal, SealRekey, Heartbeat, WrapMasterKey, ReplayItem
<1>2. WriteFrame(u) \/ Seal(u) \/ SealRekey(u) \/ Heartbeat(u) \/ WrapMasterKey(u) \/ ReplayItem(u)
  BY <1>1, Changes, Zenon
<1>3. WriteFrame(u)
  BY <1>2, Starts, Zenon
<1>4. pc'[u] \notin {"send", "write"}
  BY <1>3 DEF WriteFrame, AfterSend, Fail, GoTo
<1>. QED  BY <1>4, Zenon

\* What is about to be written stays sealed.
LEMMA OutSealedStep ==
  ASSUME IInv, OutSealed, [Next]_vars
  PROVE  OutSealed'
<1>. SUFFICES ASSUME NEW u \in Threads, pc'[u] \in {"send", "write"}, out'[u].kind \in Ciphered
              PROVE  out'[u] \in sealed'
  BY Zenon DEF OutSealed
<1>. USE DEF IInv, TypeOK
<1>1. sealed \subseteq sealed'
  BY HistoryGrows, Zenon
<1>2. CASE out'[u] = out[u] /\ pc[u] \in {"send", "write"}
  BY <1>1, <1>2, Zenon DEF OutSealed
<1>3. CASE pc'[u] = pc[u] /\ out'[u] # out[u]
  BY <1>3, OutKept, Zenon
<1>4. CASE pc'[u] # pc[u]
  <2>1. Run(u) \/ Input(u) \/ Request(u)
    BY <1>4, OwnStep DEF Panic
  <2>. USE <1>4, <2>1 DEF GoTo
  <2>2. CASE Send(u)
    BY <1>1, <2>2 DEF Send, LockWrite, WriteFrame, AfterSend, Fail, OutSealed
  <2>3. CASE Rekey(u)
    BY <2>3, Zenon DEF Rekey, LockRekey, ReadKey, SealRekey, UpdateKey, Panic, EndRekey
  <2>4. CASE Publish(u)
    BY <2>4, Zenon DEF Publish, GetCipher, Number, PushReplay, Seal, Fail
  <2>5. CASE Input(u)
    BY <2>5 DEF Input, BeginPayload, Heartbeat, EndOfInput, Fail, Ciphered
  <2>6. CASE Request(u)
    BY <2>6, Zenon DEF Request, ReceiveInitSub, StopSync, ReceiveSyncReq
  <2>7. CASE Answer(u)
    <3>1. CASE WrapMasterKey(u) \/ CheckOpen(u) \/ ReplayDone(u)
      BY <3>1 DEF WrapMasterKey, CheckOpen, ReplayDone, Ciphered
    <3>2. CASE ReplayItem(u)
      <4>1. key # None
        BY <3>2, Zenon DEF ReplayItem
      <4>2. \E f : sealed' = sealed \cup {f} /\ out' = [out EXCEPT ![u] = f]
        BY <3>2, <4>1, Zenon DEF ReplayItem
      <4>. QED  BY <4>2, Zenon
    <3>. QED  BY <2>7, <3>1, <3>2, Zenon DEF Answer
  <2>8. CASE Close(u)
    BY <2>8, Zenon DEF Close, LockClose, WriteClose, DropKeys, WipeReplay
  <2>. QED  BY <2>1, <2>2, <2>3, <2>4, <2>5, <2>6, <2>7, <2>8, Zenon DEF Run
<1>. QED  BY <1>2, <1>3, <1>4, Zenon

-----------------------------------------------------------------------------
(* The order of the payloads *)

\* So far one goroutine has published, the others only answered requests.
OnePublisher == \A t, u \in published : t = u

\* The messages with a number, wherever they are or were.
Carried == Numbered \cup {[body |-> e.body, seq |-> e.seq] : e \in {f \in sealed : f.kind = "data"}}

\* A payload that has no number yet.
Awaits(t) ==
  \/ pc[t] \in {"rekey", "rekey_read", "rekey_seal", "rekey_update", "rekey_end", "get_cipher",
                "number"}
  \/ pc[t] \in {"send", "write"} /\ out[t].kind = "rekey"

\* The payload that t is publishing.
InWork(t) ==
  IF pc[t] \in {"send", "write"} /\ out[t].kind = "data" THEN out[t].body ELSE load[t].body

\* Payloads get their numbers in the order in which they went in.
Ordered ==
  /\ \A m \in Carried : m.body \in 1..payloads /\ m.seq >= 1
  /\ \A m, n \in Carried : m.seq < n.seq => m.body < n.body
  /\ \A t \in Writers : Publishes(t) => t \in published /\ InWork(t) = payloads /\ payloads >= 1
  /\ \A t \in Writers : Awaits(t) => \A m \in Carried : m.body < payloads

\* A goroutine that publishes did so before, with the same payload, or has just
\* taken a new one.
LEMMA WorkStep ==
  ASSUME IInv, [Next]_vars, NEW t \in Writers
  PROVE  /\ Publishes(t)' => BeginPayload(t) \/ (Publishes(t) /\ InWork(t)' = InWork(t))
         /\ Awaits(t)' => BeginPayload(t) \/ Awaits(t)
<1>. DEFINE Goal == /\ Publishes(t)' => BeginPayload(t) \/ (Publishes(t) /\ InWork(t)' = InWork(t))
                    /\ Awaits(t)' => BeginPayload(t) \/ Awaits(t)
<1>0. /\ pc \in [Threads -> Labels] /\ out \in [Threads -> Frames \cup {None}]
      /\ load \in [Writers -> Message \cup {None}] /\ t \in Threads /\ t \notin Syncers
  BY PublisherAssumption, Zenon DEF IInv, TypeOK, Threads
<1>. USE <1>0 DEF GoTo, Publishes, Sends, Awaits, InWork
<1>1. ASSUME pc'[t] = pc[t] PROVE Goal
  <2>1. load'[t] = load[t]
    <3>1. ASSUME NEW u \in Threads, BeginPayload(u) \/ Number(u) \/ Seal(u), load'[t] # load[t]
          PROVE  u = t /\ pc'[u] # pc[u]
      BY <3>1 DEF BeginPayload, Number, Seal, Fail
    <3>. QED  BY <1>1, <3>1, Changes, Zenon
  <2>2. pc[t] \in {"send", "write"} => out'[t] = out[t]
    BY <1>1, OutKept, Zenon DEF IInv
  <2>. QED  BY <1>1, <2>1, <2>2, Zenon
<1>2. ASSUME Panic PROVE Goal
  BY <1>2, Zenon DEF Panic
<1>3. ASSUME LockWrite(t) PROVE Goal
  BY <1>3, Zenon DEF LockWrite
<1>4. ASSUME WriteFrame(t) PROVE Goal
  BY <1>4 DEF WriteFrame, AfterSend, Fail
<1>5. ASSUME LockRekey(t) \/ ReadKey(t) \/ EndRekey(t) PROVE Goal
  BY <1>5, Zenon DEF LockRekey, ReadKey, EndRekey
<1>6. ASSUME SealRekey(t) PROVE Goal
  BY <1>6 DEF SealRekey, Sealed
<1>7. ASSUME UpdateKey(t) PROVE Goal
  BY <1>7, Zenon DEF UpdateKey, Panic
<1>8. ASSUME GetCipher(t) \/ PushReplay(t) PROVE Goal
  BY <1>8, Zenon DEF GetCipher, PushReplay, Fail
<1>9. ASSUME Number(t) PROVE Goal
  <2>1. load[t] \in Message /\ load'[t] = [load[t] EXCEPT !.seq = seqCounter + 1]
    BY <1>9, Zenon DEF Number, IInv, Places
  <2>2. load'[t].body = load[t].body
    BY <2>1, Renumber
  <2>. QED  BY <1>9, <2>2, Zenon DEF Number
<1>10. ASSUME Seal(t) PROVE Goal
  BY <1>10 DEF Seal, Sealed, Fail
<1>11. ASSUME BeginPayload(t) PROVE Goal
  BY <1>11, Zenon
<1>12. ASSUME Heartbeat(t) \/ EndOfInput(t) PROVE Goal
  BY <1>12 DEF Heartbeat, EndOfInput, Fail
<1>13. ASSUME Request(t) \/ Answer(t) PROVE Goal
  BY <1>13, Zenon DEF Request, ReceiveInitSub, StopSync, ReceiveSyncReq, Answer, WrapMasterKey, CheckOpen,
     ReplayItem, ReplayDone, IInv, Places
<1>14. ASSUME Close(t) PROVE Goal
  BY <1>14, Zenon DEF Close, LockClose, WriteClose, DropKeys, WipeReplay
<1>. HIDE DEF Goal
<1>. SUFFICES Goal
  BY Zenon DEF Goal
<1>. QED  BY Zenon, OwnStep, <1>1, <1>2, <1>3, <1>4, <1>5, <1>6, <1>7, <1>8, <1>9, <1>10, <1>11,
          <1>12, <1>13, <1>14 DEF Run, Send, Rekey, Publish, Input

\* What carries a number, and that a number stands for one payload.
LEMMA CarriedTypes ==
  ASSUME IInv
  PROVE  /\ \A m \in Carried : m \in Message /\ m.seq \in Nat /\ m.body \in Nat /\ m.seq <= seqCounter
         /\ \A m, n \in Carried : m.seq = n.seq => m.body = n.body
         /\ \A e \in sealed : e.kind = "data" => [body |-> e.body, seq |-> e.seq] \in Carried
<1>1. /\ \A e \in sealed : e.seq \in Nat /\ e.body \in Nat
      /\ \A e \in sealed : [body |-> e.body, seq |-> e.seq] \in Message
  BY Zenon DEF IInv, SealedTypes, Message
<1>2. OneContent(Numbered, sealed, seqCounter)
  BY Zenon DEF IInv
<1>3. ASSUME NEW m \in Carried
      PROVE  m \in Message /\ m.seq \in Nat /\ m.body \in Nat /\ m.seq <= seqCounter
  <2>1. m \in Message /\ m.seq <= seqCounter
    BY <1>1, <1>2 DEF Carried, OneContent
  <2>. QED  BY <2>1, Zenon DEF Message
<1>4. ASSUME NEW m \in Carried, NEW n \in Carried, m.seq = n.seq PROVE m.body = n.body
  <2>1. m \in Numbered \/ \E e \in sealed : e.seq = m.seq /\ e.body = m.body
    BY DEF Carried
  <2>2. n \in Numbered \/ \E e \in sealed : e.seq = n.seq /\ e.body = n.body
    BY DEF Carried
  <2>. QED  BY <1>2, <1>4, <2>1, <2>2 DEF OneContent
<1>5. ASSUME NEW e \in sealed, e.kind = "data" PROVE [body |-> e.body, seq |-> e.seq] \in Carried
  BY <1>5, Zenon DEF Carried
<1>. QED  BY <1>3, <1>4, <1>5, Zenon

\* A payload gets its number in Number; what is sealed had one.
LEMMA CarriedStep ==
  ASSUME IInv, [Next]_vars
  PROVE  \/ Carried' \subseteq Carried
         \/ \E t \in Threads :
              /\ Number(t)
              /\ Carried' \subseteq Carried \cup {[body |-> load[t].body, seq |-> seqCounter + 1]}
<1>. USE DEF IInv
<1>1. ASSUME NEW N, Carried \subseteq N, Numbered' \subseteq N PROVE Carried' \subseteq N
  <2>. SUFFICES ASSUME NEW e \in sealed', e.kind = "data" PROVE [body |-> e.body, seq |-> e.seq] \in N
    BY <1>1, Zenon DEF Carried
  <2>1. CASE e \in sealed
    BY <1>1, <2>1, Zenon DEF Carried
  <2>2. ASSUME NEW m \in Numbered, e.seq = m.seq, e.body = m.body
        PROVE  [body |-> e.body, seq |-> e.seq] \in N
    <3>1. m \in Message
      BY Zenon DEF OneContent
    <3>2. m = [body |-> e.body, seq |-> e.seq]
      BY <2>2, <3>1, Zenon DEF Message
    <3>. QED  BY <1>1, <3>2, Zenon DEF Carried
  <2>. QED  BY <2>1, <2>2, SealedTypesStep
<1>2. CASE Numbered' \subseteq Numbered
  <2>1. Numbered' \subseteq Carried
    BY <1>2, Zenon DEF Carried
  <2>. QED  BY <1>1, <2>1, Zenon
<1>3. ASSUME NEW t \in Threads, Number(t), NEW m, m = [body |-> load[t].body, seq |-> seqCounter + 1],
             Numbered' \subseteq Numbered \cup {m}
      PROVE  Carried' \subseteq Carried \cup {m}
  <2>1. Numbered' \subseteq Carried \cup {m}
    BY <1>3, Zenon DEF Carried
  <2>. QED  BY <1>1, <2>1, Zenon
<1>. QED  BY <1>2, <1>3, NumberedStep, Zenon

\* With one publisher, who publishes is alone in it.
LEMMA OneAtWork ==
  ASSUME IInv, Ordered, OnePublisher', [Next]_vars
  PROVE  /\ OnePublisher
         /\ \A t, u \in Writers : Publishes(t) /\ Publishes(u) => t = u
         /\ \A t \in Writers : \A u \in Threads : Publishes(t) => ~BeginPayload(u)
         /\ \A t \in Threads : BeginPayload(t) => payloads' = payloads + 1 /\ t \in published'
                                                  /\ published \subseteq {t}
<1>1. published \subseteq published'
  BY PublishedGrows, Zenon
<1>2. \A t \in Threads : BeginPayload(t) => payloads' = payloads + 1 /\ t \in published'
  BY Zenon DEF BeginPayload
<1>3. \A t \in Writers : Publishes(t) => t \in published /\ pc[t] # "idle"
  BY Zenon DEF Ordered, Publishes, Sends
<1>. QED  BY <1>1, <1>2, <1>3, Starts, Zenon DEF OnePublisher

\* Payloads keep getting their numbers in order.
LEMMA OrderedStep ==
  ASSUME IInv, Ordered, OnePublisher', [Next]_vars
  PROVE  Ordered'
<1>1. /\ payloads \in Nat /\ seqCounter \in Nat
      /\ payloads' = payloads \/ \E t \in Threads : BeginPayload(t) /\ payloads' = payloads + 1
  BY Changes, OneAtWork, Zenon DEF IInv, TypeOK
<1>2. ASSUME NEW t \in Writers, Publishes(t)'
      PROVE  t \in published' /\ InWork(t)' = payloads' /\ payloads' >= 1
  <2>1. CASE BeginPayload(t)
    <3>1. load'[t].body = payloads + 1 /\ pc'[t] \in {"rekey", "get_cipher"}
      BY <2>1, Zenon DEF BeginPayload, GoTo, IInv, TypeOK, Threads
    <3>2. InWork(t)' = payloads + 1
      BY <3>1, Zenon DEF InWork
    <3>. QED  BY <1>1, <2>1, <3>2 DEF BeginPayload
  <2>2. CASE Publishes(t) /\ InWork(t)' = InWork(t)
    <3>1. payloads' = payloads
      BY <1>1, <2>2, OneAtWork, Zenon
    <3>. QED  BY <2>2, <3>1, PublishedGrows, Zenon DEF Ordered
  <2>. QED  BY <1>2, <2>1, <2>2, WorkStep, Zenon
<1>3. \A t \in Writers : Awaits(t) => Publishes(t)
  BY Zenon DEF Awaits, Publishes, Sends
<1>4. ASSUME NEW t \in Writers, Awaits(t)', NEW m \in Carried' PROVE m.body < payloads'
  <2>1. CASE BeginPayload(t)
    <3>1. seqCounter' = seqCounter /\ payloads' = payloads + 1
      BY <2>1, Zenon DEF BeginPayload
    <3>2. \A u \in Threads : ~Number(u)
      BY <1>1, <3>1 DEF Number
    <3>3. m.body \in 1..payloads
      BY <3>2, CarriedStep, Zenon DEF Ordered
    <3>. QED  BY <1>1, <3>1, <3>3
  <2>2. CASE Awaits(t)
    <3>1. payloads' = payloads
      BY <1>1, <1>3, <2>2, OneAtWork, Zenon
    <3>2. ASSUME NEW u \in Threads, Number(u) PROVE FALSE
      <4>1. u \in Writers /\ Publishes(u)
        BY <3>2, Zenon DEF Number, IInv, Places, Publishes
      <4>2. u = t
        BY <1>3, <2>2, <4>1, OneAtWork, Zenon
      <4>3. pc'[t] = "push"
        BY <3>2, <4>2, Zenon DEF Number, GoTo, IInv, TypeOK
      <4>. QED  BY <1>4, <4>3, Zenon DEF Awaits
    <3>3. m \in Carried
      BY <3>2, CarriedStep, Zenon
    <3>. QED  BY <2>2, <3>1, <3>3, Zenon DEF Ordered
  <2>. QED  BY <1>4, <2>1, <2>2, WorkStep, Zenon
<1>5. \A m \in Carried : m.body \in 1..payloads' /\ m.seq >= 1
  BY <1>1 DEF Ordered
<1>6. CASE Carried' \subseteq Carried
  BY <1>2, <1>4, <1>5, <1>6, Zenon DEF Ordered
<1>7. ASSUME NEW t \in Threads, Number(t), NEW new,
             new = [body |-> load[t].body, seq |-> seqCounter + 1],
             Carried' \subseteq Carried \cup {new}
      PROVE  Ordered'
  <2>1. t \in Writers /\ Publishes(t) /\ Awaits(t) /\ InWork(t) = load[t].body /\ payloads' = payloads
    BY <1>7, Zenon DEF Number, countVars, IInv, Places, Publishes, Awaits, InWork
  <2>2. /\ new.body = payloads /\ new.seq = seqCounter + 1 /\ payloads >= 1
        /\ \A m \in Carried : m.body < payloads
    BY <1>7, <2>1, Zenon DEF Ordered
  <2>3. \A m \in Carried : m.seq \in Nat /\ m.body \in Nat /\ m.seq <= seqCounter
    BY CarriedTypes, Zenon
  <2>4. \A m \in Carried' : m.body \in 1..payloads' /\ m.seq >= 1
    BY <1>1, <1>5, <1>7, <2>1, <2>2
  <2>5. \A m, n \in Carried' : m.seq < n.seq => m.body < n.body
    <3>1. \A m \in Carried : m.seq < new.seq /\ ~(new.seq < m.seq) /\ m.body < new.body
      BY <1>1, <2>2, <2>3
    <3>2. ~(new.seq < new.seq)
      BY <1>1, <2>2
    <3>. QED  BY <1>7, <3>1, <3>2, Zenon DEF Ordered
  <2>. QED  BY <1>2, <1>4, <2>4, <2>5 DEF Ordered
<1>. QED  BY <1>6, <1>7, CarriedStep, Zenon

\* Whatever else the publisher does, one goroutine's payloads are numbered in the
\* order in which it took them.
LEMMA PayloadOrder == Spec => [](OnePublisher => Ordered)
<1>1. Init => Ordered
  <2>. SUFFICES ASSUME Init PROVE Ordered
    OBVIOUS
  <2>1. \A t \in Writers : pc[t] = "idle"
    BY PublisherAssumption, Zenon DEF Init, Threads, Writers
  <2>2. Carried = {}
    <3>1. \A t \in Syncers : DOMAIN items[t] = {}
      BY DEF Init
    <3>2. 1..Len(replay) = {}
      BY DEF Init, LogInit
    <3>3. sealed = {}
      BY Zenon DEF Init
    <3>. QED  BY <2>1, <3>1, <3>2, <3>3 DEF Carried, Numbered
  <2>. QED  BY <2>1, <2>2, Zenon DEF Ordered, Publishes, Sends, Awaits
<1>2. IInv /\ (OnePublisher => Ordered) /\ [Next]_vars => (OnePublisher => Ordered)'
  BY OrderedStep, PublishedGrows, Zenon DEF OnePublisher
<1>. QED  BY <1>1, <1>2, Invariance, PTL DEF Spec

-----------------------------------------------------------------------------
(* The wire has no gap *)

OnWire(b) == \E j \in 1..Len(wire) : wire[j].kind = "data" /\ wire[j].body = b

\* t may take the next payload, now or once its heartbeat is sent.
Ready(t) == pc[t] = "idle" \/ (pc[t] \in {"send", "write"} /\ out[t].kind \notin Ciphered)

\* A payload is first written after all those before it.
Gapless ==
  /\ \A i \in 1..Len(wire) : wire[i].kind = "data" =>
       \A b \in 1..(wire[i].body - 1) :
         \E j \in 1..(i - 1) : wire[j].kind = "data" /\ wire[j].body = b
  /\ \A b \in 1..(payloads - 1) : OnWire(b)
  /\ \A t \in Writers : Ready(t) /\ published \subseteq {t} => payloads = 0 \/ OnWire(payloads)

\* A goroutine becomes ready again when the payload it publishes is written.
LEMMA ReadyStep ==
  ASSUME IInv, [Next]_vars, NEW t \in Writers, Ready(t)'
  PROVE  \/ Ready(t)
         \/ /\ WriteFrame(t) /\ Sends(t) /\ out[t].kind = "data"
            /\ wire' = Append(wire, out[t])
<1>. DEFINE Goal == \/ Ready(t)
                    \/ /\ WriteFrame(t) /\ Sends(t) /\ out[t].kind = "data"
                       /\ wire' = Append(wire, out[t])
<1>0. /\ pc \in [Threads -> Labels] /\ out \in [Threads -> Frames \cup {None}]
      /\ t \in Threads /\ t \notin Syncers
  BY PublisherAssumption, Zenon DEF IInv, TypeOK, Threads
<1>. USE <1>0 DEF GoTo, Ready
<1>1. ASSUME pc'[t] = pc[t] PROVE Goal
  BY <1>1, OutKept, Zenon DEF IInv
<1>2. ASSUME Panic PROVE Goal
  BY <1>2, Zenon DEF Panic
<1>3. ASSUME LockWrite(t) PROVE Goal
  BY <1>3, Zenon DEF LockWrite
<1>4. ASSUME WriteFrame(t) PROVE Goal
  BY <1>4, Zenon DEF WriteFrame, AfterSend, Fail, Ciphered, Sends
<1>5. ASSUME Rekey(t) PROVE Goal
  BY <1>5 DEF Rekey, LockRekey, ReadKey, EndRekey, SealRekey, Sealed, UpdateKey, Panic, Ciphered
<1>6. ASSUME Publish(t) PROVE Goal
  BY <1>6 DEF Publish, GetCipher, PushReplay, Number, Seal, Sealed, Fail, Ciphered
<1>7. ASSUME Input(t) PROVE Goal
  BY <1>7, Zenon DEF Input, BeginPayload, Heartbeat, EndOfInput, Fail
<1>8. ASSUME Request(t) \/ Answer(t) PROVE Goal
  BY <1>8, Zenon DEF Request, ReceiveInitSub, StopSync, ReceiveSyncReq, Answer, WrapMasterKey, CheckOpen,
     ReplayItem, ReplayDone, IInv, Places
<1>9. ASSUME Close(t) PROVE Goal
  BY <1>9, Zenon DEF Close, LockClose, WriteClose, DropKeys, WipeReplay
<1>. HIDE DEF Goal
<1>. SUFFICES Goal
  BY Zenon DEF Goal
<1>. QED  BY Zenon, OwnStep, <1>1, <1>2, <1>3, <1>4, <1>5, <1>6, <1>7, <1>8, <1>9 DEF Run, Send

\* The wire of one publisher stays without gaps.
LEMMA GaplessStep ==
  ASSUME IInv, OutSealed, Ordered, Gapless, OnePublisher', [Next]_vars
  PROVE  Gapless'
<1>1. /\ payloads \in Nat /\ wire \in Seq(Frames) /\ Len(wire) \in Nat
      /\ payloads' = payloads \/ \E t \in Threads : BeginPayload(t) /\ payloads' = payloads + 1
  BY Changes, OneAtWork DEF IInv, TypeOK
<1>2. \/ wire' = wire
      \/ \E f \in Frames : /\ wire' = Append(wire, f)
                           /\ f.kind = "data" => f.body \in 1..payloads
  <2>1. ASSUME NEW f \in Frames, f.kind \in Ciphered => f \in sealed, f.kind = "data"
        PROVE  f.body \in 1..payloads
    BY <2>1, CarriedTypes, Zenon DEF Ordered, Ciphered
  <2>. QED  BY <2>1, WireGrows, Zenon
<1>3. /\ Len(wire') \in Nat /\ Len(wire) <= Len(wire')
      /\ \A j \in 1..Len(wire) : j \in 1..Len(wire') /\ wire'[j] = wire[j]
  BY <1>1, <1>2
<1>4. \A b : OnWire(b) => OnWire(b)'
  BY <1>3, Zenon DEF OnWire
<1>5. ASSUME NEW i \in 1..Len(wire'), wire'[i].kind = "data", NEW b \in 1..(wire'[i].body - 1)
      PROVE  \E j \in 1..(i - 1) : wire'[j].kind = "data" /\ wire'[j].body = b
  <2>1. CASE i \in 1..Len(wire)
    <3>1. \E j \in 1..(i - 1) : wire[j].kind = "data" /\ wire[j].body = b
      BY <1>3, <1>5, <2>1, Zenon DEF Gapless
    <3>. QED  BY <1>3, <2>1, <3>1
  <2>2. CASE i \notin 1..Len(wire)
    <3>1. i = Len(wire) + 1 /\ wire'[i].body \in 1..payloads
      BY <1>1, <1>2, <1>5, <2>2
    <3>2. b \in 1..(payloads - 1)
      BY <1>1, <3>1
    <3>3. PICK j \in 1..Len(wire) : wire[j].kind = "data" /\ wire[j].body = b
      BY <3>2, Zenon DEF Gapless, OnWire
    <3>. QED  BY <1>1, <1>3, <3>1, <3>3
  <2>. QED  BY <2>1, <2>2, Zenon
<1>6. ASSUME NEW b \in 1..(payloads' - 1) PROVE OnWire(b)'
  <2>1. CASE payloads' = payloads
    BY <1>4, <2>1, Zenon DEF Gapless
  <2>2. ASSUME NEW t \in Threads, BeginPayload(t), payloads' = payloads + 1 PROVE OnWire(b)
    <3>1. t \in Writers /\ Ready(t) /\ published \subseteq {t}
      BY <2>2, OneAtWork, Zenon DEF BeginPayload, Ready
    <3>2. payloads = 0 \/ OnWire(payloads)
      BY <3>1, Zenon DEF Gapless
    <3>3. payloads # 0 /\ (b = payloads \/ b \in 1..(payloads - 1))
      BY <1>1, <2>2
    <3>. QED  BY <3>2, <3>3, Zenon DEF Gapless
  <2>. QED  BY <1>1, <1>4, <2>1, <2>2
<1>7. ASSUME NEW t \in Writers, Ready(t)', published' \subseteq {t}
      PROVE  (payloads = 0 \/ OnWire(payloads))'
  <2>1. payloads' = payloads
    <3>1. ASSUME NEW u \in Threads, BeginPayload(u) PROVE FALSE
      <4>1. u = t
        BY <1>7, <3>1, OneAtWork
      <4>2. pc'[t] \in {"rekey", "get_cipher"}
        BY <3>1, <4>1, Zenon DEF BeginPayload, GoTo, IInv, TypeOK
      <4>. QED  BY <1>7, <4>2, Zenon DEF Ready
    <3>. QED  BY <1>1, <3>1, Zenon
  <2>2. CASE Ready(t)
    <3>1. published \subseteq {t}
      BY <1>7, PublishedGrows, Zenon
    <3>. QED  BY <1>4, <2>1, <2>2, <3>1 DEF Gapless
  <2>3. CASE Sends(t) /\ out[t].kind = "data" /\ wire' = Append(wire, out[t])
    <3>1. InWork(t) = out[t].body /\ Publishes(t)
      BY <2>3, Zenon DEF InWork, Sends, Publishes
    <3>2. out[t].body = payloads
      BY <3>1, Zenon DEF Ordered
    <3>3. Len(wire) + 1 \in 1..Len(wire') /\ wire'[Len(wire) + 1] = out[t]
      <4>1. out[t] \in Frames
        BY <2>3, Zenon DEF Sends, IInv, Places, Threads
      <4>. QED  BY <1>1, <2>3, <4>1
    <3>. QED  BY <2>1, <2>3, <3>2, <3>3 DEF OnWire
  <2>. QED  BY <1>7, <2>2, <2>3, ReadyStep
<1>. QED  BY <1>5, <1>6, <1>7 DEF Gapless, OnWire
=============================================================================
