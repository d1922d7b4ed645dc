-------------------------- MODULE RelayServerProofs --------------------------
(***************************************************************************)
(* Proofs about the session registry, for any sets of connections and      *)
(* session IDs.  The inductive invariant IInv says who may hold, be mapped *)
(* to, or be listed in which session object.                               *)
(***************************************************************************)
EXTENDS RelayServer, FiniteSetTheorems, TLAPS

\* A handler that holds a session object holds one that was created for the
\* session ID it asked for; past "new" and short of "finished" it holds one, and
\* the handler of a one-shot request holds one of another's.
HeldInv ==
  \A c \in Conns :
    /\ pc[c] = "new" => held[c] = None
    /\ pc[c] \notin {"new", "finished"} => held[c] # None
    /\ pc[c] = "sync_forward" => held[c] # c
    /\ held[c] # None => /\ id[c] # None
                         /\ id[held[c]] = id[c]
                         /\ held[held[c]] = held[c]

\* The registry maps an ID to the one open session object created for it.
RegistryInv ==
  /\ \A i \in SessionIDs : registry[i] # None =>
       /\ held[registry[i]] = registry[i]
       /\ id[registry[i]] = i
       /\ registry[i] \notin closed
  /\ \A o \in Conns : held[o] = o /\ o \notin closed => registry[id[o]] = o
  /\ \A o \in closed : held[o] = o

\* A listed subscriber is served by a handler of that session, in its loop.
SubscribersInv ==
  \A o \in Conns : \A s \in subscribers[o] : held[s] = o /\ SubRegistered(s)

\* Only connections past their registration are closed through a session.
DoneInv ==
  \A c \in done : pc[c] \notin {"new", "pub_register", "sub_register"}

\* The publisher of a session is served by a handler of that session, and is
\* open and running as long as the session is open.
PublisherInv ==
  \A o \in Conns : publisher[o] # None =>
    /\ held[publisher[o]] = o
    /\ PubRegistered(publisher[o]) \/ pc[publisher[o]] \in {"exit", "finished"}
    /\ o \notin closed => /\ publisher[o] \notin done
                          /\ pc[publisher[o]] # "finished"

\* A publisher handler in its loop is the publisher of its session, or closed.
RegisteredInv ==
  \A p \in Conns : PubRegistered(p) /\ p \notin done => publisher[held[p]] = p

\* An open session is in the hands of a publisher's or subscriber's handler.
OwnedInv ==
  \A o \in Conns : held[o] = o /\ o \notin closed =>
    \E c \in Conns : held[c] = o /\ pc[c] \notin {"sync_forward", "finished"}

\* The reaper's pass only visits mapped IDs.
ReaperInv ==
  /\ \A i \in reaper.todo : registry[i] # None
  /\ reaper.victim # None => /\ registry[reaper.victim] # None
                             /\ reaper.victim \notin reaper.todo

\* Introductions still to come: a greeted publisher and a listed subscriber are
\* introduced, or the subscriber's handler is yet to read the publisher or has
\* read this one.
IntroInv ==
  \A p, s \in Conns :
    /\ PubRegistered(p) /\ pc[p] # "pub_greet" /\ p \notin done
    /\ s \in subscribers[held[p]]
    => \/ <<p, s>> \in introduced
       \/ pc[s] = "sub_read"
       \/ pc[s] = "sub_send" /\ target[s] = p

\* Frames, snapshots and cached publishers stay within one session object, and
\* involve no connection that only sends a one-shot request.
IsolationInv ==
  /\ \A p, s \in Conns :
       \/ <<p, s>> \in introduced
       \/ s \in fanout[p]
       \/ target[s] = p
       => /\ held[p] = held[s] /\ held[p] # None
          /\ "sync_forward" \notin {pc[p], pc[s]}
  /\ \A s \in Conns : target[s] # None => pc[s] = "sub_send"

IInv ==
  /\ TypeOK /\ HeldInv /\ RegistryInv /\ SubscribersInv /\ DoneInv
  /\ PublisherInv /\ RegisteredInv /\ OwnedInv /\ ReaperInv /\ IntroInv
  /\ IsolationInv

USE RelayAssumption
    DEF PubRegistered, SubRegistered, PubStates, SubStates, States, GoTo,
        vars, registryVars, sessionVars, handlerVars, frameVars

-----------------------------------------------------------------------------
(* Closing sessions *)

\* RelaySession.Close: a session of O is closed and emptied, and exactly the
\* connections listed in a session it closes become done.
LEMMA CloseSessionsEffect ==
  ASSUME IInv, NEW O \in SUBSET Conns, CloseSessions(O)
  PROVE  /\ closed' = closed \cup O
         /\ done \subseteq done' /\ done' \subseteq Conns
         /\ \A c \in done' \ done : \E o \in O \ closed :
              held[c] = o /\ (c = publisher[o] \/ c \in subscribers[o])
         /\ \A o \in O \ closed : publisher[o] # None => publisher[o] \in done'
         /\ publisher' = [o \in Conns |->
                            IF o \in O \ closed THEN None ELSE publisher[o]]
         /\ subscribers' = [o \in Conns |->
                              IF o \in O \ closed THEN {} ELSE subscribers[o]]
<1>. DEFINE open == O \ closed
            subs == UNION {subscribers[o] : o \in open}
            pubs == {publisher[o] : o \in open} \ {None}
<1>1. /\ closed' = closed \cup open /\ done' = done \cup subs \cup pubs
      /\ publisher' = [o \in Conns |-> IF o \in open THEN None ELSE publisher[o]]
      /\ subscribers' = [o \in Conns |-> IF o \in open THEN {} ELSE subscribers[o]]
  BY Zenon DEF CloseSessions
<1>2. /\ \A c \in subs : \E o \in open : c \in subscribers[o]
      /\ \A c \in pubs : c # None /\ \E o \in open : c = publisher[o]
      /\ \A o \in open : publisher[o] # None => publisher[o] \in pubs
  BY Zenon
<1>. HIDE DEF subs, pubs
<1>3. \A c \in done' \ done : c \in Conns /\ \E o \in open :
        held[c] = o /\ (c = publisher[o] \/ c \in subscribers[o])
  BY <1>1, <1>2 DEF IInv, TypeOK, SubscribersInv, PublisherInv
<1>4. closed' = closed \cup O
  BY <1>1, Zenon
<1>5. done \subseteq done' /\ done' \subseteq Conns
  BY <1>1, <1>3, Zenon DEF IInv, TypeOK
<1>6. \A o \in open : publisher[o] # None => publisher[o] \in done'
  BY <1>1, <1>2, Zenon
<1>. QED  BY <1>1, <1>3, <1>4, <1>5, <1>6, Zenon

\* Unmapping the IDs of I and closing the sessions O they map to preserves the
\* invariant, also when a handler that asked for one of them finishes with it.
LEMMA UnmapInv ==
  ASSUME IInv, NEW I \in SUBSET SessionIDs, NEW O \in SUBSET Conns,
         \A o \in O : \E i \in I : registry[i] = o,
         \A i \in I : registry[i] # None => registry[i] \in O,
         CloseSessions(O),
         registry' = [i \in SessionIDs |-> IF i \in I THEN None ELSE registry[i]],
         UNCHANGED <<id, held, target, fanout, frameVars>>,
         \/ UNCHANGED pc
         \/ \E c \in Conns : /\ pc[c] = "exit" /\ id[c] \in I
                             /\ pc' = [pc EXCEPT ![c] = "finished"]
  PROVE  (HeldInv /\ RegistryInv /\ SubscribersInv /\ DoneInv /\ PublisherInv
          /\ RegisteredInv /\ OwnedInv /\ IntroInv /\ IsolationInv)'
<1>1. /\ closed' = closed \cup O
      /\ done \subseteq done' /\ done' \subseteq Conns
      /\ \A c \in done' \ done : \E o \in O \ closed :
           held[c] = o /\ (c = publisher[o] \/ c \in subscribers[o])
      /\ \A o \in O \ closed : publisher[o] # None => publisher[o] \in done'
      /\ publisher' = [o \in Conns |->
                         IF o \in O \ closed THEN None ELSE publisher[o]]
      /\ subscribers' = [o \in Conns |->
                           IF o \in O \ closed THEN {} ELSE subscribers[o]]
  BY CloseSessionsEffect, Zenon
<1>2. \A o \in O : held[o] = o /\ id[o] \in I
  BY DEF IInv, TypeOK, RegistryInv
<1>3. \A c \in Conns : /\ pc'[c] \in States
                      /\ pc'[c] # pc[c] =>
                           /\ pc[c] = "exit" /\ id[c] \in I /\ pc'[c] = "finished"
                           /\ held[c] \in closed \cup O
  BY DEF IInv, TypeOK, HeldInv, RegistryInv
<1>4. HeldInv'
  BY <1>3 DEF IInv, TypeOK, HeldInv
<1>5. RegistryInv'
  BY <1>1, <1>2 DEF IInv, TypeOK, HeldInv, RegistryInv
<1>6. SubscribersInv'
  BY <1>1, <1>3 DEF IInv, TypeOK, SubscribersInv
<1>7. DoneInv'
  <2>1. \A c \in done' \ done : pc[c] \notin {"new", "pub_register", "sub_register"}
    BY <1>1 DEF IInv, TypeOK, SubscribersInv, PublisherInv
  <2>2. \A c \in done' : pc[c] \notin {"new", "pub_register", "sub_register"}
    BY <2>1, Zenon DEF IInv, DoneInv
  <2>. QED  BY <1>1, <1>3, <2>2, Zenon DEF DoneInv
<1>8. PublisherInv'
  BY <1>1, <1>3 DEF IInv, TypeOK, SubscribersInv, PublisherInv
<1>9. RegisteredInv'
  BY <1>1, <1>3 DEF IInv, TypeOK, HeldInv, RegisteredInv
<1>10. OwnedInv'
  BY <1>1, <1>3 DEF IInv, TypeOK, OwnedInv
<1>11. IntroInv'
  BY <1>1, <1>3 DEF IInv, TypeOK, HeldInv, IntroInv
<1>12. IsolationInv'
  BY <1>3 DEF IInv, TypeOK, IsolationInv
<1>. QED  BY <1>4, <1>5, <1>6, <1>7, <1>8, <1>9, <1>10, <1>11, <1>12, Zenon

-----------------------------------------------------------------------------
(* handleConnection *)

LEMMA getOrCreateSessionInv ==
  ASSUME IInv, NEW c \in Conns, NEW i \in SessionIDs,
         NEW state \in {"pub_register", "sub_register"}, getOrCreateSession(c, i, state)
  PROVE  IInv'
<1>. DEFINE o == IF registry[i] = None THEN c ELSE registry[i]
<1>1. /\ registry' = [registry EXCEPT ![i] = o] /\ held' = [held EXCEPT ![c] = o]
      /\ id' = [id EXCEPT ![c] = i] /\ pc' = [pc EXCEPT ![c] = state]
      /\ pc[c] = "new" /\ held[c] = None /\ ServerUnlocked
      /\ registry[i] # None => registry[i] = o
      /\ o \in Conns /\ (o # c => held[o] = o /\ id[o] = i /\ o \notin closed)
      /\ UNCHANGED <<sessionVars, aged, target, fanout, frameVars, reaper>>
  BY DEF IInv, TypeOK, HeldInv, RegistryInv, getOrCreateSession
<1>2. \A d \in Conns : held[d] # c
  BY <1>1 DEF IInv, TypeOK, HeldInv
<1>3. c \notin closed
  BY <1>1, Zenon DEF IInv, RegistryInv
<1>. HIDE DEF o
<1>4. TypeOK'
  BY <1>1 DEF IInv, TypeOK, getOrCreateSession
<1>5. HeldInv'
  BY <1>1, <1>2 DEF IInv, TypeOK, HeldInv
<1>6. RegistryInv'
  <2>1. \A j \in SessionIDs : registry'[j] # None =>
          /\ held'[registry'[j]] = registry'[j]
          /\ id'[registry'[j]] = j
          /\ registry'[j] \notin closed'
    BY <1>1, <1>3 DEF IInv, TypeOK, RegistryInv
  <2>2. \A d \in Conns : held'[d] = d /\ d \notin closed' => registry'[id'[d]] = d
    BY <1>1, <1>2 DEF IInv, TypeOK, HeldInv, RegistryInv
  <2>3. \A d \in closed' : held'[d] = d
    BY <1>1, <1>3 DEF IInv, TypeOK, RegistryInv
  <2>. QED  BY <2>1, <2>2, <2>3, Zenon DEF RegistryInv
<1>7. (SubscribersInv /\ DoneInv /\ PublisherInv /\ RegisteredInv)'
  BY <1>1, <1>2 DEF IInv, TypeOK, SubscribersInv, DoneInv, PublisherInv,
                    RegisteredInv
<1>8. (OwnedInv /\ ReaperInv)'
  BY <1>1, <1>2 DEF IInv, TypeOK, OwnedInv, ReaperInv, ServerUnlocked
<1>9. (IntroInv /\ IsolationInv)'
  BY <1>1, <1>2 DEF IInv, TypeOK, SubscribersInv, IntroInv, IsolationInv
<1>. QED  BY <1>4, <1>5, <1>6, <1>7, <1>8, <1>9, Zenon DEF IInv

LEMMA lookupSessionInv ==
  ASSUME IInv, NEW c \in Conns, NEW i \in SessionIDs, lookupSession(c, i)
  PROVE  IInv'
<1>. DEFINE o == registry[i]
<1>1. /\ pc[c] = "new" /\ held[c] = None /\ o # None /\ o \in Conns /\ o # c
      /\ pc' = [pc EXCEPT ![c] = "sync_forward"]
      /\ held' = [held EXCEPT ![c] = o]
      /\ id' = [id EXCEPT ![c] = i]
      /\ held[o] = o /\ id[o] = i
      /\ UNCHANGED <<registry, sessionVars, aged, target, fanout, frameVars, reaper>>
  BY DEF IInv, TypeOK, HeldInv, RegistryInv, lookupSession
<1>2. \A d \in Conns : held[d] # c
  BY <1>1 DEF IInv, TypeOK, HeldInv
<1>3. c \notin closed /\ c \notin done
  BY <1>1, Zenon DEF IInv, RegistryInv, DoneInv
<1>. HIDE DEF o
<1>4. TypeOK'
  BY <1>1 DEF IInv, TypeOK, lookupSession
<1>5. HeldInv'
  BY <1>1, <1>2 DEF IInv, TypeOK, HeldInv
<1>6. RegistryInv'
  BY <1>1, <1>2, <1>3 DEF IInv, TypeOK, HeldInv, RegistryInv
<1>7. (SubscribersInv /\ DoneInv /\ PublisherInv /\ RegisteredInv)'
  BY <1>1, <1>2, <1>3 DEF IInv, TypeOK, SubscribersInv, DoneInv, PublisherInv,
                    RegisteredInv
<1>8. (OwnedInv /\ ReaperInv)'
  BY <1>1, <1>2 DEF IInv, TypeOK, OwnedInv, ReaperInv
<1>9. (IntroInv /\ IsolationInv)'
  BY <1>1, <1>2 DEF IInv, TypeOK, SubscribersInv, IntroInv, IsolationInv
<1>. QED  BY <1>4, <1>5, <1>6, <1>7, <1>8, <1>9, Zenon DEF IInv

LEMMA ForwardSyncReqInv ==
  ASSUME IInv, NEW c \in Conns, ForwardSyncReq(c)
  PROVE  IInv'
<1>1. /\ pc[c] = "sync_forward" /\ held[c] # None /\ held[c] # c
      /\ pc' = [pc EXCEPT ![c] = "finished"]
      /\ held' = [held EXCEPT ![c] = None]
      /\ id' = [id EXCEPT ![c] = None]
      /\ UNCHANGED <<registry, sessionVars, aged, target, fanout, frameVars, reaper>>
  BY DEF IInv, TypeOK, HeldInv, ForwardSyncReq
<1>2. \A d \in Conns : held[d] # c
  BY <1>1 DEF IInv, TypeOK, HeldInv
<1>3. c \notin closed
  BY <1>1, Zenon DEF IInv, RegistryInv
<1>4. TypeOK'
  BY <1>1 DEF IInv, TypeOK, ForwardSyncReq
<1>5. HeldInv'
  BY <1>1, <1>2 DEF IInv, TypeOK, HeldInv
<1>6. RegistryInv'
  BY <1>1, <1>2, <1>3 DEF IInv, TypeOK, HeldInv, RegistryInv
<1>7. (SubscribersInv /\ DoneInv /\ PublisherInv /\ RegisteredInv)'
  BY <1>1, <1>2 DEF IInv, TypeOK, SubscribersInv, DoneInv, PublisherInv,
                    RegisteredInv
<1>8. (OwnedInv /\ ReaperInv)'
  BY <1>1, <1>2 DEF IInv, TypeOK, OwnedInv, ReaperInv
<1>9. (IntroInv /\ IsolationInv)'
  BY <1>1, <1>2 DEF IInv, TypeOK, SubscribersInv, IntroInv, IsolationInv
<1>. QED  BY <1>4, <1>5, <1>6, <1>7, <1>8, <1>9, Zenon DEF IInv

LEMMA HandleOtherInv ==
  ASSUME IInv, NEW c \in Conns, HandleOther(c)
  PROVE  IInv'
  BY DEF IInv, TypeOK, HeldInv, RegistryInv, SubscribersInv, DoneInv,
         PublisherInv, RegisteredInv, OwnedInv, ReaperInv, IntroInv,
         IsolationInv, HandleOther

LEMMA RejectPublisherInv ==
  ASSUME IInv, NEW c \in Conns, RejectPublisher(c)
  PROVE  IInv'
  BY DEF IInv, TypeOK, HeldInv, RegistryInv, SubscribersInv, DoneInv,
         PublisherInv, RegisteredInv, OwnedInv, ReaperInv, IntroInv,
         IsolationInv, RejectPublisher

LEMMA RegisterPublisherInv ==
  ASSUME IInv, NEW c \in Conns, RegisterPublisher(c)
  PROVE  IInv'
<1>1. TypeOK'
  BY Zenon DEF IInv, TypeOK, HeldInv, RegisterPublisher
<1>2. (HeldInv /\ RegistryInv /\ SubscribersInv /\ DoneInv /\ OwnedInv /\ ReaperInv)'
  BY DEF IInv, TypeOK, HeldInv, RegistryInv, SubscribersInv, DoneInv,
         PublisherInv, OwnedInv, ReaperInv, RegisterPublisher
<1>3. (PublisherInv /\ RegisteredInv)'
  BY DEF IInv, TypeOK, HeldInv, SubscribersInv, DoneInv, PublisherInv,
         RegisteredInv, RegisterPublisher
<1>4. (IntroInv /\ IsolationInv)'
  BY DEF IInv, TypeOK, HeldInv, SubscribersInv, PublisherInv, RegisteredInv,
         IntroInv, IsolationInv, RegisterPublisher
<1>. QED  BY <1>1, <1>2, <1>3, <1>4, Zenon DEF IInv

LEMMA GreetPublisherInv ==
  ASSUME IInv, NEW c \in Conns, GreetPublisher(c)
  PROVE  IInv'
<1>1. TypeOK'
  BY DEF IInv, TypeOK, HeldInv, GreetPublisher, Introduce
<1>2. (HeldInv /\ RegistryInv /\ SubscribersInv /\ DoneInv /\ OwnedInv /\ ReaperInv)'
  BY DEF IInv, TypeOK, HeldInv, RegistryInv, SubscribersInv, DoneInv,
         PublisherInv, OwnedInv, ReaperInv, GreetPublisher, Introduce
<1>3. (PublisherInv /\ RegisteredInv)'
  BY DEF IInv, TypeOK, HeldInv, SubscribersInv, DoneInv, PublisherInv,
         RegisteredInv, GreetPublisher, Introduce
<1>4. (IntroInv /\ IsolationInv)'
  BY DEF IInv, TypeOK, HeldInv, SubscribersInv, PublisherInv, RegisteredInv,
         IntroInv, IsolationInv, GreetPublisher, Introduce
<1>. QED  BY <1>1, <1>2, <1>3, <1>4 DEF IInv

LEMMA RegisterSubscriberInv ==
  ASSUME IInv, NEW c \in Conns, RegisterSubscriber(c)
  PROVE  IInv'
<1>1. TypeOK'
  BY DEF IInv, TypeOK, HeldInv, RegisterSubscriber
<1>2. (HeldInv /\ RegistryInv /\ SubscribersInv /\ DoneInv /\ OwnedInv /\ ReaperInv)'
  BY DEF IInv, TypeOK, HeldInv, RegistryInv, SubscribersInv, DoneInv,
         PublisherInv, OwnedInv, ReaperInv, RegisterSubscriber
<1>3. (PublisherInv /\ RegisteredInv)'
  BY DEF IInv, TypeOK, HeldInv, SubscribersInv, DoneInv, PublisherInv,
         RegisteredInv, RegisterSubscriber
<1>4. (IntroInv /\ IsolationInv)'
  BY DEF IInv, TypeOK, HeldInv, SubscribersInv, PublisherInv, RegisteredInv,
         IntroInv, IsolationInv, RegisterSubscriber
<1>. QED  BY <1>1, <1>2, <1>3, <1>4 DEF IInv

LEMMA ReadPublisherInv ==
  ASSUME IInv, NEW c \in Conns, ReadPublisher(c)
  PROVE  IInv'
<1>1. TypeOK'
  BY DEF IInv, TypeOK, HeldInv, ReadPublisher
<1>2. (HeldInv /\ RegistryInv /\ SubscribersInv /\ DoneInv /\ OwnedInv /\ ReaperInv)'
  BY DEF IInv, TypeOK, HeldInv, RegistryInv, SubscribersInv, DoneInv,
         PublisherInv, OwnedInv, ReaperInv, ReadPublisher
<1>3. (PublisherInv /\ RegisteredInv)'
  BY DEF IInv, TypeOK, HeldInv, SubscribersInv, DoneInv, PublisherInv,
         RegisteredInv, ReadPublisher
<1>4. (IntroInv /\ IsolationInv)'
  BY DEF IInv, TypeOK, HeldInv, SubscribersInv, PublisherInv, RegisteredInv,
         IntroInv, IsolationInv, ReadPublisher
<1>. QED  BY <1>1, <1>2, <1>3, <1>4 DEF IInv

LEMMA SendInitInv ==
  ASSUME IInv, NEW c \in Conns, SendInit(c)
  PROVE  IInv'
<1>1. TypeOK'
  BY DEF IInv, TypeOK, HeldInv, SendInit, Introduce
<1>2. (HeldInv /\ RegistryInv /\ SubscribersInv /\ DoneInv /\ OwnedInv /\ ReaperInv)'
  BY DEF IInv, TypeOK, HeldInv, RegistryInv, SubscribersInv, DoneInv,
         PublisherInv, OwnedInv, ReaperInv, SendInit, Introduce
<1>3. (PublisherInv /\ RegisteredInv)'
  BY DEF IInv, TypeOK, HeldInv, SubscribersInv, DoneInv, PublisherInv,
         RegisteredInv, SendInit, Introduce
<1>4. (IntroInv /\ IsolationInv)'
  BY DEF IInv, TypeOK, HeldInv, SubscribersInv, PublisherInv, RegisteredInv,
         IntroInv, IsolationInv, SendInit, Introduce
<1>. QED  BY <1>1, <1>2, <1>3, <1>4 DEF IInv

-----------------------------------------------------------------------------
(* loopPublisher *)

LEMMA PublisherFrameInv ==
  ASSUME IInv, NEW c \in Conns, NEW state \in {"pub_send", "pub_last"}, PublisherFrame(c, state)
  PROVE  IInv'
<1>1. TypeOK'
  BY DEF IInv, TypeOK, HeldInv, PublisherFrame
<1>2. (HeldInv /\ RegistryInv /\ SubscribersInv /\ DoneInv /\ OwnedInv /\ ReaperInv)'
  BY DEF IInv, TypeOK, HeldInv, RegistryInv, SubscribersInv, DoneInv,
         PublisherInv, OwnedInv, ReaperInv, PublisherFrame
<1>3. (PublisherInv /\ RegisteredInv)'
  BY DEF IInv, TypeOK, HeldInv, SubscribersInv, DoneInv, PublisherInv,
         RegisteredInv, PublisherFrame
<1>4. (IntroInv /\ IsolationInv)'
  BY DEF IInv, TypeOK, HeldInv, SubscribersInv, PublisherInv, RegisteredInv,
         IntroInv, IsolationInv, PublisherFrame
<1>. QED  BY <1>1, <1>2, <1>3, <1>4, Zenon DEF IInv

LEMMA SendToSubscriberInv ==
  ASSUME IInv, NEW c \in Conns, NEW s \in Conns, SendToSubscriber(c, s)
  PROVE  IInv'
<1>1. TypeOK'
  BY DEF IInv, TypeOK, HeldInv, SendToSubscriber
<1>2. (HeldInv /\ RegistryInv /\ SubscribersInv /\ DoneInv /\ OwnedInv /\ ReaperInv)'
  BY DEF IInv, TypeOK, HeldInv, RegistryInv, SubscribersInv, DoneInv,
         PublisherInv, OwnedInv, ReaperInv, SendToSubscriber
<1>3. (PublisherInv /\ RegisteredInv)'
  BY Zenon DEF IInv, TypeOK, HeldInv, SubscribersInv, DoneInv, PublisherInv,
         RegisteredInv, SendToSubscriber
<1>4. (IntroInv /\ IsolationInv)'
  BY DEF IInv, TypeOK, HeldInv, SubscribersInv, PublisherInv, RegisteredInv,
         IntroInv, IsolationInv, SendToSubscriber
<1>. QED  BY <1>1, <1>2, <1>3, <1>4, Zenon DEF IInv

LEMMA FanoutDoneInv ==
  ASSUME IInv, NEW c \in Conns, FanoutDone(c)
  PROVE  IInv'
  BY DEF IInv, TypeOK, HeldInv, RegistryInv, SubscribersInv, DoneInv,
         PublisherInv, RegisteredInv, OwnedInv, ReaperInv, IntroInv,
         IsolationInv, FanoutDone

LEMMA PublisherDisconnectInv ==
  ASSUME IInv, NEW c \in Conns, PublisherDisconnect(c)
  PROVE  IInv'
  BY DEF IInv, TypeOK, HeldInv, RegistryInv, SubscribersInv, DoneInv,
         PublisherInv, RegisteredInv, OwnedInv, ReaperInv, IntroInv,
         IsolationInv, PublisherDisconnect

-----------------------------------------------------------------------------
(* loopSubscriber and pruning *)

LEMMA WriteErrorInv ==
  ASSUME IInv, NEW c \in Conns, WriteError(c)
  PROVE  IInv'
<1>1. TypeOK'
  BY DEF IInv, TypeOK, HeldInv, WriteError
<1>2. (HeldInv /\ RegistryInv /\ SubscribersInv /\ DoneInv /\ OwnedInv /\ ReaperInv)'
  BY DEF IInv, TypeOK, HeldInv, RegistryInv, SubscribersInv, DoneInv,
         PublisherInv, OwnedInv, ReaperInv, WriteError
<1>3. (PublisherInv /\ RegisteredInv)'
  BY Zenon DEF IInv, TypeOK, HeldInv, SubscribersInv, DoneInv, PublisherInv,
         RegisteredInv, WriteError
<1>4. (IntroInv /\ IsolationInv)'
  BY DEF IInv, TypeOK, HeldInv, SubscribersInv, PublisherInv, RegisteredInv,
         IntroInv, IsolationInv, WriteError
<1>. QED  BY <1>1, <1>2, <1>3, <1>4 DEF IInv

LEMMA SubscriberExitInv ==
  ASSUME IInv, NEW c \in Conns, SubscriberExit(c)
  PROVE  IInv'
<1>1. TypeOK'
  BY DEF IInv, TypeOK, HeldInv, SubscriberExit, RemoveSubscriber
<1>2. (HeldInv /\ RegistryInv /\ SubscribersInv /\ DoneInv /\ OwnedInv /\ ReaperInv)'
  BY DEF IInv, TypeOK, HeldInv, RegistryInv, SubscribersInv, DoneInv,
         PublisherInv, OwnedInv, ReaperInv, SubscriberExit, RemoveSubscriber
<1>3. (PublisherInv /\ RegisteredInv)'
  BY DEF IInv, TypeOK, HeldInv, SubscribersInv, DoneInv, PublisherInv,
         RegisteredInv, SubscriberExit, RemoveSubscriber
<1>4. (IntroInv /\ IsolationInv)'
  BY DEF IInv, TypeOK, HeldInv, SubscribersInv, PublisherInv, RegisteredInv,
         IntroInv, IsolationInv, SubscriberExit, RemoveSubscriber
<1>. QED  BY <1>1, <1>2, <1>3, <1>4 DEF IInv

LEMMA CheckEmptyInv ==
  ASSUME IInv, NEW c \in Conns, CheckEmpty(c)
  PROVE  IInv'
<1>1. TypeOK'
  BY DEF IInv, TypeOK, HeldInv, CheckEmpty
<1>2. (HeldInv /\ RegistryInv /\ SubscribersInv /\ DoneInv /\ OwnedInv /\ ReaperInv)'
  BY DEF IInv, TypeOK, HeldInv, RegistryInv, SubscribersInv, DoneInv,
         PublisherInv, OwnedInv, ReaperInv, CheckEmpty
<1>3. (PublisherInv /\ RegisteredInv)'
  BY DEF IInv, TypeOK, HeldInv, SubscribersInv, DoneInv, PublisherInv,
         RegisteredInv, CheckEmpty
<1>4. (IntroInv /\ IsolationInv)'
  BY DEF IInv, TypeOK, HeldInv, SubscribersInv, PublisherInv, RegisteredInv,
         IntroInv, IsolationInv, CheckEmpty
<1>. QED  BY <1>1, <1>2, <1>3, <1>4 DEF IInv

LEMMA PruneSubscriberInv ==
  ASSUME IInv, NEW o \in Conns, NEW s \in Conns, PruneSubscriber(o, s)
  PROVE  IInv'
<1>1. TypeOK'
  BY DEF IInv, TypeOK, HeldInv, PruneSubscriber, RemoveSubscriber
<1>2. (HeldInv /\ RegistryInv /\ SubscribersInv /\ DoneInv /\ OwnedInv /\ ReaperInv)'
  BY DEF IInv, TypeOK, HeldInv, RegistryInv, SubscribersInv, DoneInv,
         PublisherInv, OwnedInv, ReaperInv, PruneSubscriber, RemoveSubscriber
<1>3. (PublisherInv /\ RegisteredInv)'
  BY DEF IInv, TypeOK, HeldInv, SubscribersInv, DoneInv, PublisherInv,
         RegisteredInv, PruneSubscriber, RemoveSubscriber
<1>4. (IntroInv /\ IsolationInv)'
  BY DEF IInv, TypeOK, HeldInv, SubscribersInv, PublisherInv, RegisteredInv,
         IntroInv, IsolationInv, PruneSubscriber, RemoveSubscriber
<1>. QED  BY <1>1, <1>2, <1>3, <1>4 DEF IInv

-----------------------------------------------------------------------------
(* Reaper *)

LEMMA AgeInv ==
  ASSUME IInv, NEW o \in Conns, Age(o)
  PROVE  IInv'
  BY DEF IInv, TypeOK, HeldInv, RegistryInv, SubscribersInv, DoneInv,
         PublisherInv, RegisteredInv, OwnedInv, ReaperInv, IntroInv,
         IsolationInv, Age

LEMMA ReapTickInv ==
  ASSUME IInv, ReapTick
  PROVE  IInv'
  BY DEF IInv, TypeOK, HeldInv, RegistryInv, SubscribersInv, DoneInv,
         PublisherInv, RegisteredInv, OwnedInv, ReaperInv, IntroInv,
         IsolationInv, ReapTick, ServerUnlocked

LEMMA ReapCheckInv ==
  ASSUME IInv, NEW i \in SessionIDs, ReapCheck(i)
  PROVE  IInv'
  BY SMTT(30) DEF IInv, TypeOK, HeldInv, RegistryInv, SubscribersInv, DoneInv,
         PublisherInv, RegisteredInv, OwnedInv, ReaperInv, IntroInv,
         IsolationInv, ReapCheck

-----------------------------------------------------------------------------
(* The three callers that close sessions *)

LEMMA ExitInv ==
  ASSUME IInv, NEW c \in Conns, Exit(c)
  PROVE  IInv'
<1>. DEFINE I == {id[c]}
            O == {registry[id[c]]} \ {None}
<1>1. I \in SUBSET SessionIDs /\ O \in SUBSET Conns /\ CloseSessions(O)
  BY DEF IInv, TypeOK, HeldInv, Exit, removeSession
<1>2. registry' = [i \in SessionIDs |-> IF i \in I THEN None ELSE registry[i]]
  BY <1>1, Zenon DEF IInv, TypeOK, Exit, removeSession
<1>3. (HeldInv /\ RegistryInv /\ SubscribersInv /\ DoneInv /\ PublisherInv
       /\ RegisteredInv /\ OwnedInv /\ IntroInv /\ IsolationInv)'
  BY <1>1, <1>2, UnmapInv, Zenon DEF Exit
<1>4. TypeOK'
  BY <1>1, <1>2, CloseSessionsEffect DEF IInv, TypeOK, Exit, removeSession
<1>5. ReaperInv'
  BY <1>2, Zenon DEF IInv, TypeOK, ReaperInv, Exit, removeSession, ServerUnlocked
<1>. QED  BY <1>3, <1>4, <1>5, Zenon DEF IInv

LEMMA ReapCloseInv ==
  ASSUME IInv, ReapClose
  PROVE  IInv'
<1>. DEFINE I == {reaper.victim}
            O == {registry[reaper.victim]}
<1>1. I \in SUBSET SessionIDs /\ O \in SUBSET Conns /\ CloseSessions(O)
  BY DEF IInv, TypeOK, ReaperInv, ReapClose
<1>2. registry' = [i \in SessionIDs |-> IF i \in I THEN None ELSE registry[i]]
  BY <1>1, Zenon DEF IInv, TypeOK, ReapClose
<1>3. (HeldInv /\ RegistryInv /\ SubscribersInv /\ DoneInv /\ PublisherInv
       /\ RegisteredInv /\ OwnedInv /\ IntroInv /\ IsolationInv)'
  BY <1>1, <1>2, UnmapInv, Zenon DEF ReapClose
<1>4. TypeOK'
  BY <1>1, <1>2, CloseSessionsEffect DEF IInv, TypeOK, ReapClose
<1>5. ReaperInv'
  BY <1>2 DEF IInv, TypeOK, ReaperInv, ReapClose
<1>. QED  BY <1>3, <1>4, <1>5, Zenon DEF IInv

LEMMA CloseAllInv ==
  ASSUME IInv, CloseAll
  PROVE  IInv'
<1>. DEFINE O == {registry[i] : i \in SessionIDs} \ {None}
<1>1. O \in SUBSET Conns /\ CloseSessions(O)
  BY DEF IInv, TypeOK, CloseAll
<1>2. (HeldInv /\ RegistryInv /\ SubscribersInv /\ DoneInv /\ PublisherInv
       /\ RegisteredInv /\ OwnedInv /\ IntroInv /\ IsolationInv)'
  BY <1>1, UnmapInv, Zenon DEF CloseAll
<1>3. TypeOK'
  <2>1. stopped' \in BOOLEAN
    BY Zenon DEF CloseAll
  <2>2. registry' \in [SessionIDs -> Conns \cup {None}]
    BY Zenon DEF CloseAll
  <2>3. /\ closed' \subseteq Conns /\ done' \subseteq Conns
        /\ publisher' \in [Conns -> Conns \cup {None}]
        /\ subscribers' \in [Conns -> SUBSET Conns]
    <3>1. TypeOK
      BY Zenon DEF IInv
    <3>. HIDE DEF O
    <3>. QED  BY <1>1, <3>1, CloseSessionsEffect DEF TypeOK
  <2>4. UNCHANGED <<gauge, aged, handlerVars, frameVars, reaper>>
    BY Zenon DEF CloseAll
  <2>. QED  BY <2>1, <2>2, <2>3, <2>4, Zenon DEF IInv, TypeOK, handlerVars, frameVars
<1>4. ReaperInv'
  BY Zenon DEF IInv, TypeOK, ReaperInv, CloseAll, ServerUnlocked
<1>. QED  BY <1>2, <1>3, <1>4 DEF IInv

-----------------------------------------------------------------------------
(* The theorems *)

LEMMA InitInv == Init => IInv
<1>. SUFFICES ASSUME Init
              PROVE  IInv
  BY Zenon
<1>1. TypeOK
  <2>1. stopped \in BOOLEAN
    BY Zenon DEF Init
  <2>. QED  BY <2>1 DEF Init, TypeOK
<1>2. HeldInv /\ RegistryInv /\ OwnedInv
  BY Zenon DEF Init, HeldInv, RegistryInv, OwnedInv
<1>3. SubscribersInv /\ DoneInv /\ PublisherInv /\ RegisteredInv /\ ReaperInv
  BY Zenon DEF Init, SubscribersInv, DoneInv, PublisherInv, RegisteredInv, ReaperInv
<1>4. IntroInv /\ IsolationInv
  BY Zenon DEF Init, IntroInv, IsolationInv
<1>. QED  BY <1>1, <1>2, <1>3, <1>4, Zenon DEF IInv

LEMMA NextInv == IInv /\ [Next]_vars => IInv'
<1>. SUFFICES ASSUME IInv, [Next]_vars
              PROVE  IInv'
  BY Zenon
<1>1. ASSUME NEW c \in Conns, HandlePub(c)
      PROVE  IInv'
  BY <1>1, getOrCreateSessionInv, RejectPublisherInv, RegisterPublisherInv,
     GreetPublisherInv, PublisherFrameInv, SendToSubscriberInv, FanoutDoneInv,
     PublisherDisconnectInv DEF HandlePub
<1>2. ASSUME NEW c \in Conns, HandleSub(c)
      PROVE  IInv'
  BY <1>2, getOrCreateSessionInv, RegisterSubscriberInv, ReadPublisherInv,
     SendInitInv, WriteErrorInv, SubscriberExitInv, CheckEmptyInv DEF HandleSub
<1>3. ASSUME NEW c \in Conns, HandleSync(c) \/ HandleOther(c) \/ Exit(c)
      PROVE  IInv'
  BY <1>3, lookupSessionInv, ForwardSyncReqInv, HandleOtherInv, ExitInv, Zenon DEF HandleSync
<1>4. ASSUME Background
      PROVE  IInv'
  BY <1>4, PruneSubscriberInv, AgeInv, ReapTickInv, ReapCloseInv, CloseAllInv,
     ReapCheckInv DEF Background
<1>5. CASE UNCHANGED vars
  <2>1. TypeOK' /\ HeldInv' /\ RegistryInv'
    BY <1>5 DEF IInv, TypeOK, HeldInv, RegistryInv
  <2>2. SubscribersInv' /\ DoneInv' /\ PublisherInv' /\ RegisteredInv'
    BY <1>5 DEF IInv, SubscribersInv, DoneInv, PublisherInv, RegisteredInv
  <2>3. OwnedInv' /\ ReaperInv' /\ IntroInv' /\ IsolationInv'
    BY <1>5 DEF IInv, OwnedInv, ReaperInv, IntroInv, IsolationInv
  <2>. QED  BY <2>1, <2>2, <2>3, Zenon DEF IInv
<1>. QED  BY <1>1, <1>2, <1>3, <1>4, <1>5, Zenon DEF Next

\* The inductive invariant holds in every reachable state.
THEOREM Invariance == Spec => []IInv
BY InitInv, NextInv, PTL DEF Spec

\* Every variable of the registry model keeps its type.
THEOREM TypeCorrect == Spec => []TypeOK
<1>1. IInv => TypeOK
  BY Zenon DEF IInv
<1>. QED  BY <1>1, Invariance, PTL

\* The registry maps only open sessions that a publisher's or subscriber's handler
\* still holds.
THEOREM NoLeak == Spec => []NoSessionLeak
<1>1. IInv => NoSessionLeak
  BY DEF IInv, TypeOK, RegistryInv, OwnedInv, NoSessionLeak
<1>. QED  BY <1>1, Invariance, PTL

\* At most one open publisher runs its loop in a session object.
THEOREM SinglePublisher == Spec => []OnePublisher
<1>1. IInv => OnePublisher
  BY Zenon DEF IInv, RegisteredInv, OnePublisher
<1>. QED  BY <1>1, Invariance, PTL

\* Peers in the loops of one session were introduced, in whatever order their
\* handlers registered and looked.
THEOREM Introduction == Spec => []IntroducedPeers
<1>1. IInv => IntroducedPeers
  BY Zenon DEF IInv, IntroInv, IntroducedPeers
<1>. QED  BY <1>1, Invariance, PTL

\* No frame or introduction crosses from one session ID to another.
THEOREM Isolation == Spec => []SessionIsolation
<1>1. IInv => SessionIsolation
  BY DEF IInv, TypeOK, HeldInv, PublisherInv, IsolationInv, SessionIsolation
<1>. QED  BY <1>1, Invariance, PTL

-----------------------------------------------------------------------------
(* The gauge *)

Mapped == {i \in SessionIDs : registry[i] # None}

\* What GaugeExact needs besides: only finitely many sessions are mapped.
GaugeInv == IsFiniteSet(Mapped) /\ GaugeExact

\* The steps that touch the registry, the gauge or the shutdown flag.
LEMMA RegistrySteps ==
  ASSUME [Next]_vars
  PROVE  \/ \E c \in Conns, i \in SessionIDs, state \in {"pub_register", "sub_register"} :
              getOrCreateSession(c, i, state)
         \/ \E c \in Conns : Exit(c)
         \/ ReapClose
         \/ CloseAll
         \/ UNCHANGED <<registry, gauge, stopped>>
<1>1. ASSUME NEW c \in Conns, HandlePub(c)
      PROVE  \/ \E i \in SessionIDs : getOrCreateSession(c, i, "pub_register")
             \/ UNCHANGED <<registry, gauge, stopped>>
  BY <1>1, Zenon DEF HandlePub, RejectPublisher, RegisterPublisher, GreetPublisher,
     PublisherFrame, SendToSubscriber, FanoutDone, PublisherDisconnect
<1>2. ASSUME NEW c \in Conns, HandleSub(c)
      PROVE  \/ \E i \in SessionIDs : getOrCreateSession(c, i, "sub_register")
             \/ UNCHANGED <<registry, gauge, stopped>>
  BY <1>2, Zenon DEF HandleSub, RegisterSubscriber, ReadPublisher, SendInit, WriteError,
     SubscriberExit, CheckEmpty
<1>3. ASSUME NEW c \in Conns, HandleSync(c) \/ HandleOther(c)
      PROVE  UNCHANGED <<registry, gauge, stopped>>
  BY <1>3, Zenon DEF HandleSync, lookupSession, ForwardSyncReq, HandleOther
<1>4. ASSUME Background
      PROVE  ReapClose \/ CloseAll \/ UNCHANGED <<registry, gauge, stopped>>
  BY <1>4, Zenon DEF Background, PruneSubscriber, Age, ReapTick, ReapCheck
<1>5. CASE UNCHANGED vars
  BY <1>5, Zenon
<1>. QED  BY <1>1, <1>2, <1>3, <1>4, <1>5, Zenon DEF Next

\* Unmapping one ID takes it out of the mapped ones.
LEMMA UnmapOne ==
  ASSUME TypeOK, NEW i \in SessionIDs, registry' = [registry EXCEPT ![i] = None]
  PROVE  Mapped' = Mapped \ {i}
BY Zenon DEF TypeOK, Mapped

\* Until shutdown the gauge is the number of mapped sessions, for any number of
\* connections and IDs: each increment and decrement goes with one mapping.
THEOREM GaugeIsExact == Spec => []GaugeExact
<1>1. Init => GaugeInv
  <2>. SUFFICES ASSUME Init PROVE GaugeInv
    BY Zenon
  <2>1. Mapped = {} /\ gauge = 0
    BY Zenon DEF Init, Mapped
  <2>. QED  BY <2>1, FS_EmptySet, Zenon DEF GaugeInv, GaugeExact, Mapped
<1>2. IInv /\ GaugeInv /\ [Next]_vars => GaugeInv'
  <2>. SUFFICES ASSUME IInv, GaugeInv, [Next]_vars PROVE GaugeInv'
    BY Zenon
  <2>1. /\ TypeOK /\ IsFiniteSet(Mapped) /\ gauge \in Int
        /\ ~stopped => gauge = Cardinality(Mapped)
    BY Zenon DEF IInv, TypeOK, GaugeInv, GaugeExact, Mapped
  <2>3. ASSUME NEW c \in Conns, NEW i \in SessionIDs, NEW state,
               getOrCreateSession(c, i, state)
        PROVE  GaugeInv'
    <3>1. /\ registry' = [registry EXCEPT ![i] = IF registry[i] = None THEN c ELSE @]
          /\ gauge' = IF i \in Mapped THEN gauge ELSE gauge + 1
          /\ stopped' = stopped
      BY <2>3, Zenon DEF getOrCreateSession, Mapped
    <3>2. Mapped' = Mapped \cup {i}
      BY <2>1, <3>1 DEF TypeOK, Mapped
    <3>3. /\ IsFiniteSet(Mapped')
          /\ Cardinality(Mapped') = IF i \in Mapped THEN Cardinality(Mapped)
                                                    ELSE Cardinality(Mapped) + 1
      BY <2>1, <3>2, FS_AddElement, Zenon
    <3>. QED  BY <2>1, <3>1, <3>3, Zenon DEF GaugeInv, GaugeExact, Mapped
  <2>4. ASSUME NEW i \in SessionIDs, registry' = [registry EXCEPT ![i] = None],
               gauge' = (IF i \in Mapped THEN gauge - 1 ELSE gauge), stopped' = stopped
        PROVE  GaugeInv'
    <3>1. Mapped' = Mapped \ {i}
      BY <2>1, <2>4, UnmapOne, Zenon
    <3>2. /\ IsFiniteSet(Mapped')
          /\ Cardinality(Mapped') = IF i \in Mapped THEN Cardinality(Mapped) - 1
                                                    ELSE Cardinality(Mapped)
      BY <2>1, <3>1, FS_RemoveElement, Zenon
    <3>. QED  BY <2>1, <2>4, <3>2, Zenon DEF GaugeInv, GaugeExact, Mapped
  <2>5. ASSUME NEW c \in Conns, Exit(c) PROVE GaugeInv'
    <3>1. id[c] \in SessionIDs
      BY <2>1, <2>5 DEF IInv, TypeOK, HeldInv, Exit
    <3>. QED  BY <2>4, <2>5, <3>1, Zenon DEF Exit, removeSession, Mapped
  <2>6. ASSUME ReapClose PROVE GaugeInv'
    <3>1. reaper.victim \in Mapped
      BY <2>1, <2>6, Zenon DEF IInv, TypeOK, ReaperInv, ReapClose, Mapped
    <3>. QED  BY <2>4, <2>6, <3>1, Zenon DEF ReapClose, Mapped
  <2>7. ASSUME CloseAll PROVE GaugeInv'
    <3>1. Mapped' = {} /\ stopped'
      BY <2>7, Zenon DEF CloseAll, Mapped
    <3>. QED  BY <3>1, FS_EmptySet, Zenon DEF GaugeInv, GaugeExact, Mapped
  <2>8. ASSUME UNCHANGED <<registry, gauge, stopped>> PROVE GaugeInv'
    BY <2>8, Zenon DEF GaugeInv, GaugeExact, Mapped
  <2>. QED  BY <2>3, <2>5, <2>6, <2>7, <2>8, RegistrySteps, Zenon
<1>3. GaugeInv => GaugeExact
  BY Zenon DEF GaugeInv
<1>. QED  BY <1>1, <1>2, <1>3, Invariance, PTL DEF Spec

=============================================================================
