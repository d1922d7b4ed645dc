----------------------------- MODULE RelayServer -----------------------------
(***************************************************************************)
(* The relay's session registry (pkg/relay/server.go, pkg/relay/session.go) *)
(*                                                                         *)
(* Every accepted connection runs one handleConnection goroutine.  The     *)
(* goroutine looks its session up by session ID under srv.mu, and then     *)
(* works on the *RelaySession pointer it obtained under session.mu, so the *)
(* registry may have moved on by the time the pointer is used.  One action *)
(* of this module is one critical section, or one send, of a goroutine.    *)
(*                                                                         *)
(* A session object is named by the connection whose handler created it:   *)
(* a handler calls getOrCreateSession at most once.                        *)
(***************************************************************************)
EXTENDS Integers, FiniteSets

CONSTANTS Conns,        \* connections, each served by its own goroutine
          SessionIDs,   \* session IDs that peers ask for
          None          \* the nil pointer

ASSUME RelayAssumption == None \notin Conns /\ None \notin SessionIDs

VARIABLES
  registry,     \* srv.sessions: session ID -> session object
  publisher,    \* session object -> its publisher connection
  subscribers,  \* session object -> its set of subscriber connections
  closed,       \* the session objects that were closed
  aged,         \* the session objects older than sessionGracePeriod
  pc,           \* connection -> where its handler is
  id,           \* connection -> the session ID of its first frame
  held,         \* connection -> the session object its handler works on
  target,       \* subscriber -> the publisher its handler has read
  done,         \* the connections whose ClientConn was closed
  fanout,       \* publisher -> subscribers its current frame is still due to
  prunes,       \* pending "go s.RemoveSubscriber(addr)" goroutines
  introduced,   \* <<p, s>>: the InitSub frame of s was handed to publisher p
  fed,          \* the subscribers for which some frame was queued
  reaper,       \* the reaper's pass: IDs left to visit, ID about to be closed
  gauge,        \* metrics.ActiveSessions
  stopped       \* CloseAll has run

registryVars == <<registry, gauge>>
sessionVars  == <<publisher, subscribers, closed, done>>
handlerVars  == <<pc, id, held, target, fanout>>
frameVars    == <<prunes, introduced, fed>>
vars == <<registryVars, sessionVars, aged, handlerVars, frameVars, reaper,
          stopped>>

PubStates == {"pub_register", "pub_greet", "pub_loop", "pub_send", "pub_last"}
SubStates == {"sub_register", "sub_read", "sub_send", "sub_loop", "sub_check"}
States    == PubStates \cup SubStates \cup {"new", "sync_forward", "exit", "finished"}

\* Publisher handlers past RegisterPublisher, subscriber handlers past
\* RegisterSubscriber, that still run their read loop (or are about to).
PubRegistered(p) == pc[p] \in PubStates \ {"pub_register"}
SubRegistered(s) == pc[s] \in {"sub_read", "sub_send", "sub_loop"}

Init ==
  /\ registry    = [i \in SessionIDs |-> None]
  /\ publisher   = [o \in Conns |-> None]
  /\ subscribers = [o \in Conns |-> {}]
  /\ closed = {} /\ aged = {} /\ done = {} /\ prunes = {}
  /\ pc     = [c \in Conns |-> "new"]
  /\ id     = [c \in Conns |-> None]
  /\ held   = [c \in Conns |-> None]
  /\ target = [c \in Conns |-> None]
  /\ fanout = [c \in Conns |-> {}]
  /\ introduced = {} /\ fed = {}
  /\ reaper = [todo |-> {}, victim |-> None]
  /\ gauge = 0
  /\ stopped = FALSE

-----------------------------------------------------------------------------
(* Registry and session operations shared by the handlers                  *)

\* The reaper holds srv.mu for its whole pass.
ServerUnlocked == reaper.todo = {} /\ reaper.victim = None

\* Faulty variant of CloseSessions: closes the publisher without the nil test.
CloseSessionsNilPublisher(O) ==
  LET open == O \ closed
  IN  /\ closed' = closed \cup open
      /\ done' = done \cup (UNION {subscribers[o] : o \in open})
                      \cup {publisher[o] : o \in open}
      /\ publisher' = [o \in Conns |-> IF o \in open THEN None ELSE publisher[o]]
      /\ subscribers' = [o \in Conns |-> IF o \in open THEN {} ELSE subscribers[o]]

\* RelaySession.Close on every session object of O.
CloseSessions(O) ==
  LET open == O \ closed
  IN  /\ closed' = closed \cup open
      /\ done' = done \cup (UNION {subscribers[o] : o \in open})
                      \cup ({publisher[o] : o \in open} \ {None})
      /\ publisher' = [o \in Conns |-> IF o \in open THEN None ELSE publisher[o]]
      /\ subscribers' = [o \in Conns |-> IF o \in open THEN {} ELSE subscribers[o]]

\* Faulty variant of removeSession: decrements the gauge for an absent session.
removeSessionMiscounted(i) ==
  /\ ServerUnlocked
  /\ CloseSessions({registry[i]} \ {None})
  /\ registry' = [registry EXCEPT ![i] = None]
  /\ gauge' = gauge - 1

\* removeSession: close and unmap whatever session the ID maps to now.
removeSession(i) ==
  /\ ServerUnlocked
  /\ CloseSessions({registry[i]} \ {None})
  /\ registry' = [registry EXCEPT ![i] = None]
  /\ gauge' = IF registry[i] = None THEN gauge ELSE gauge - 1

RemoveSubscriber(o, s) ==
  /\ subscribers' = [subscribers EXCEPT ![o] = @ \ {s}]
  /\ done' = IF s \in subscribers[o] THEN done \cup {s} ELSE done
  /\ UNCHANGED <<publisher, closed>>

\* pub.SendFrame of the InitSub of every subscriber in S: writing to a closed
\* or missing connection fails unnoticed.
Introduce(p, S) ==
  introduced' = IF p = None \/ p \in done THEN introduced
                ELSE introduced \cup ({p} \X S)

GoTo(c, state) == pc' = [pc EXCEPT ![c] = state]

-----------------------------------------------------------------------------
(* handleConnection                                                        *)

\* Faulty variant of getOrCreateSession: reuses any session the map holds.
getOrCreateSessionAnyID(c, i, state) ==
  /\ pc[c] = "new"
  /\ ServerUnlocked
  /\ LET known == {registry[j] : j \in SessionIDs} \ {None}
     IN  \E o \in IF known = {} THEN {c} ELSE known :
           /\ registry' = [registry EXCEPT ![i] = o]
           /\ held' = [held EXCEPT ![c] = o]
  /\ gauge' = IF registry[i] = None THEN gauge + 1 ELSE gauge
  /\ id' = [id EXCEPT ![c] = i]
  /\ GoTo(c, state)
  /\ UNCHANGED <<sessionVars, aged, target, fanout, frameVars, reaper, stopped>>

\* The first frame is a handshake frame for session i.
getOrCreateSession(c, i, state) ==
  /\ pc[c] = "new"
  /\ ServerUnlocked
  /\ LET o == IF registry[i] = None THEN c ELSE registry[i]
     IN  /\ registry' = [registry EXCEPT ![i] = o]
         /\ held' = [held EXCEPT ![c] = o]
  /\ gauge' = IF registry[i] = None THEN gauge + 1 ELSE gauge
  /\ id' = [id EXCEPT ![c] = i]
  /\ GoTo(c, state)
  /\ UNCHANGED <<sessionVars, aged, target, fanout, frameVars, reaper, stopped>>

\* The first frame is a one-shot SyncReq: it may not create a session ...
lookupSession(c, i) ==
  /\ pc[c] = "new" /\ registry[i] # None
  /\ ServerUnlocked
  /\ held' = [held EXCEPT ![c] = registry[i]]
  /\ id' = [id EXCEPT ![c] = i]
  /\ GoTo(c, "sync_forward")
  /\ UNCHANGED <<registryVars, sessionVars, aged, target, fanout, frameVars, reaper,
                 stopped>>

\* ... and goes to the publisher that the session has by now, if any; nothing of
\* the request is kept.
ForwardSyncReq(c) ==
  /\ pc[c] = "sync_forward"
  /\ held' = [held EXCEPT ![c] = None]
  /\ id' = [id EXCEPT ![c] = None]
  /\ GoTo(c, "finished")
  /\ UNCHANGED <<registryVars, sessionVars, aged, target, fanout, frameVars, reaper,
                 stopped>>

\* A banned peer, a malformed or unexpected first frame, or a one-shot SyncReq for
\* a session that does not exist.
HandleOther(c) ==
  /\ pc[c] = "new"
  /\ GoTo(c, "finished")
  /\ UNCHANGED <<registryVars, sessionVars, aged, id, held, target, fanout,
                 frameVars, reaper, stopped>>

\* RegisterPublisher, when an active publisher is already there.
RejectPublisher(c) ==
  /\ pc[c] = "pub_register"
  /\ publisher[held[c]] # None /\ publisher[held[c]] \notin done
  /\ GoTo(c, "finished")
  /\ UNCHANGED <<registryVars, sessionVars, aged, id, held, target, fanout,
                 frameVars, reaper, stopped>>

\* Faulty variant of RegisterPublisher: replaces a publisher that is active.
RegisterPublisherReplacing(c) ==
  /\ pc[c] = "pub_register"
  /\ publisher' = [publisher EXCEPT ![held[c]] = c]
  /\ GoTo(c, "pub_greet")
  /\ UNCHANGED <<registryVars, subscribers, closed, done, aged, id, held, target,
                 fanout, frameVars, reaper, stopped>>

RegisterPublisher(c) ==
  /\ pc[c] = "pub_register"
  /\ publisher[held[c]] = None \/ publisher[held[c]] \in done
  /\ publisher' = [publisher EXCEPT ![held[c]] = c]
  /\ GoTo(c, "pub_greet")
  /\ UNCHANGED <<registryVars, subscribers, closed, done, aged, id, held, target,
                 fanout, frameVars, reaper, stopped>>

\* Faulty variant of GreetPublisher: relies on the subscribers' handlers alone.
GreetPublisherNobody(c) ==
  /\ pc[c] = "pub_greet"
  /\ GoTo(c, "pub_loop")
  /\ UNCHANGED <<registryVars, sessionVars, aged, id, held, target, fanout,
                 frameVars, reaper, stopped>>

\* Hand the publisher the InitSub of every subscriber that is waiting.
GreetPublisher(c) ==
  /\ pc[c] = "pub_greet"
  /\ Introduce(c, subscribers[held[c]])
  /\ GoTo(c, "pub_loop")
  /\ UNCHANGED <<registryVars, sessionVars, aged, id, held, target, fanout,
                 prunes, fed, reaper, stopped>>

RegisterSubscriber(c) ==
  /\ pc[c] = "sub_register"
  /\ subscribers' = [subscribers EXCEPT ![held[c]] = @ \cup {c}]
  /\ GoTo(c, "sub_read")
  /\ UNCHANGED <<registryVars, publisher, closed, done, aged, id, held, target,
                 fanout, frameVars, reaper, stopped>>

ReadPublisher(c) ==
  /\ pc[c] = "sub_read"
  /\ target' = [target EXCEPT ![c] = publisher[held[c]]]
  /\ GoTo(c, "sub_send")
  /\ UNCHANGED <<registryVars, sessionVars, aged, id, held, fanout, frameVars,
                 reaper, stopped>>

SendInit(c) ==
  /\ pc[c] = "sub_send"
  /\ Introduce(target[c], {c})
  /\ target' = [target EXCEPT ![c] = None]
  /\ GoTo(c, "sub_loop")
  /\ UNCHANGED <<registryVars, sessionVars, aged, id, held, fanout, prunes, fed,
                 reaper, stopped>>

-----------------------------------------------------------------------------
(* loopPublisher                                                           *)

\* ForwardFromPublisher takes a snapshot of the subscribers.  The frame is the
\* last one when it is a Close frame.
PublisherFrame(c, state) ==
  /\ pc[c] = "pub_loop" /\ c \notin done
  /\ fanout' = [fanout EXCEPT ![c] = subscribers[held[c]]]
  /\ GoTo(c, state)
  /\ UNCHANGED <<registryVars, sessionVars, aged, id, held, target, frameVars,
                 reaper, stopped>>

\* SendFrame queues the frame, or fails because the subscriber is closed or its
\* queue stays full; a failure starts a goroutine that removes the subscriber.
SendToSubscriber(c, s) ==
  /\ pc[c] \in {"pub_send", "pub_last"} /\ s \in fanout[c]
  /\ fanout' = [fanout EXCEPT ![c] = @ \ {s}]
  /\ \/ fed' = fed \cup {s} /\ UNCHANGED prunes
     \/ prunes' = prunes \cup {<<held[c], s>>} /\ UNCHANGED fed
  /\ UNCHANGED <<registryVars, sessionVars, aged, pc, id, held, target, introduced,
                 reaper, stopped>>

FanoutDone(c) ==
  /\ pc[c] \in {"pub_send", "pub_last"} /\ fanout[c] = {}
  /\ GoTo(c, IF pc[c] = "pub_send" THEN "pub_loop" ELSE "exit")
  /\ UNCHANGED <<registryVars, sessionVars, aged, id, held, target, fanout,
                 frameVars, reaper, stopped>>

\* Decode fails: the peer left, the read deadline passed or the relay closed
\* the connection.
PublisherDisconnect(c) ==
  /\ pc[c] = "pub_loop"
  /\ GoTo(c, "exit")
  /\ UNCHANGED <<registryVars, sessionVars, aged, id, held, target, fanout,
                 frameVars, reaper, stopped>>

-----------------------------------------------------------------------------
(* loopSubscriber, writeLoop and the pruning goroutines                    *)

\* writeLoop fails to write a queued frame and closes the connection.
WriteError(c) ==
  /\ SubRegistered(c) /\ c \in fed \ done
  /\ done' = done \cup {c}
  /\ UNCHANGED <<registryVars, publisher, subscribers, closed, aged, handlerVars,
                 frameVars, reaper, stopped>>

\* Decode fails and the loop ends with RemoveSubscriber.
SubscriberExit(c) ==
  /\ pc[c] = "sub_loop"
  /\ RemoveSubscriber(held[c], c)
  /\ GoTo(c, "sub_check")
  /\ UNCHANGED <<registryVars, aged, id, held, target, fanout, frameVars, reaper,
                 stopped>>

\* Faulty variant of CheckEmpty: leaves an empty session to nobody.
CheckEmptyForgotten(c) ==
  /\ pc[c] = "sub_check"
  /\ GoTo(c, "finished")
  /\ UNCHANGED <<registryVars, sessionVars, aged, id, held, target, fanout,
                 frameVars, reaper, stopped>>

CheckEmpty(c) ==
  /\ pc[c] = "sub_check"
  /\ LET isEmpty == publisher[held[c]] = None /\ subscribers[held[c]] = {}
     IN  GoTo(c, IF isEmpty THEN "exit" ELSE "finished")
  /\ UNCHANGED <<registryVars, sessionVars, aged, id, held, target, fanout,
                 frameVars, reaper, stopped>>

\* Both loops end with removeSession(session.sessionID).
Exit(c) ==
  /\ pc[c] = "exit"
  /\ removeSession(id[c])
  /\ GoTo(c, "finished")
  /\ UNCHANGED <<aged, id, held, target, fanout, frameVars, reaper, stopped>>

PruneSubscriber(o, s) ==
  /\ <<o, s>> \in prunes
  /\ RemoveSubscriber(o, s)
  /\ prunes' = prunes \ {<<o, s>>}
  /\ UNCHANGED <<registryVars, aged, handlerVars, introduced, fed, reaper, stopped>>

-----------------------------------------------------------------------------
(* reapStaleSessions and CloseAll                                          *)

\* Thirty seconds pass since o was created, at whatever place its handlers are.
Age(o) ==
  /\ o \notin aged /\ \E i \in SessionIDs : registry[i] = o
  /\ aged' = aged \cup {o}
  /\ UNCHANGED <<registryVars, sessionVars, handlerVars, frameVars, reaper, stopped>>

ReapTick ==
  /\ ServerUnlocked
  /\ \E i \in SessionIDs : registry[i] # None
  /\ reaper' = [reaper EXCEPT !.todo = {i \in SessionIDs : registry[i] # None}]
  /\ UNCHANGED <<registryVars, sessionVars, aged, handlerVars, frameVars, stopped>>

IsEmpty(o)    == o \in closed \/ (publisher[o] = None /\ subscribers[o] = {})
IsReapable(o) == IsEmpty(o) /\ o \in aged

\* The check releases session.mu before the session is closed.
ReapCheck(i) ==
  /\ i \in reaper.todo /\ reaper.victim = None
  /\ reaper' = [todo |-> reaper.todo \ {i},
                victim |-> IF IsReapable(registry[i]) THEN i ELSE None]
  /\ UNCHANGED <<registryVars, sessionVars, aged, handlerVars, frameVars, stopped>>

ReapClose ==
  /\ reaper.victim # None
  /\ CloseSessions({registry[reaper.victim]})
  /\ registry' = [registry EXCEPT ![reaper.victim] = None]
  /\ gauge' = gauge - 1
  /\ reaper' = [reaper EXCEPT !.victim = None]
  /\ UNCHANGED <<aged, handlerVars, frameVars, stopped>>

\* Shutdown: every session is closed and unmapped; the gauge is left alone.
CloseAll ==
  /\ ~stopped /\ ServerUnlocked
  /\ CloseSessions({registry[i] : i \in SessionIDs} \ {None})
  /\ registry' = [i \in SessionIDs |-> None]
  /\ stopped' = TRUE
  /\ UNCHANGED <<gauge, aged, handlerVars, frameVars, reaper>>

-----------------------------------------------------------------------------

HandlePub(c) ==
  \/ \E i \in SessionIDs : getOrCreateSession(c, i, "pub_register")
  \/ RejectPublisher(c) \/ RegisterPublisher(c) \/ GreetPublisher(c)
  \/ \E state \in {"pub_send", "pub_last"} : PublisherFrame(c, state)
  \/ \E s \in Conns : SendToSubscriber(c, s)
  \/ FanoutDone(c) \/ PublisherDisconnect(c)

HandleSub(c) ==
  \/ \E i \in SessionIDs : getOrCreateSession(c, i, "sub_register")
  \/ RegisterSubscriber(c) \/ ReadPublisher(c) \/ SendInit(c)
  \/ WriteError(c) \/ SubscriberExit(c) \/ CheckEmpty(c)

HandleSync(c) == ForwardSyncReq(c) \/ \E i \in SessionIDs : lookupSession(c, i)

Background ==
  \/ \E o, s \in Conns : PruneSubscriber(o, s)
  \/ \E o \in Conns : Age(o)
  \/ ReapTick \/ ReapClose \/ CloseAll
  \/ \E i \in SessionIDs : ReapCheck(i)

Next ==
  \/ \E c \in Conns : HandlePub(c) \/ HandleSub(c) \/ HandleSync(c) \/ HandleOther(c)
                         \/ Exit(c)
  \/ Background

Spec == Init /\ [][Next]_vars

-----------------------------------------------------------------------------
(* Properties                                                              *)

TypeOK ==
  /\ registry \in [SessionIDs -> Conns \cup {None}]
  /\ publisher \in [Conns -> Conns \cup {None}]
  /\ subscribers \in [Conns -> SUBSET Conns]
  /\ closed \subseteq Conns /\ aged \subseteq Conns /\ done \subseteq Conns
  /\ pc \in [Conns -> States]
  /\ id \in [Conns -> SessionIDs \cup {None}]
  /\ held \in [Conns -> Conns \cup {None}]
  /\ target \in [Conns -> Conns \cup {None}]
  /\ fanout \in [Conns -> SUBSET Conns]
  /\ prunes \subseteq Conns \X Conns
  /\ introduced \subseteq Conns \X Conns
  /\ fed \subseteq Conns
  /\ reaper \in [todo : SUBSET SessionIDs, victim : SessionIDs \cup {None}]
  /\ gauge \in Int
  /\ stopped \in BOOLEAN

\* A session that the registry maps is open and still in the hands of some
\* publisher's or subscriber's handler that has not finished: sessions never pile up in srv.sessions, and a
\* lookup never returns a session that was torn down, whether the reaper runs
\* or not (getOrCreateSession, removeSession, loopSubscriber's isEmpty test).
NoSessionLeak ==
  \A i \in SessionIDs : registry[i] # None =>
    /\ registry[i] \notin closed
    /\ \E c \in Conns : held[c] = registry[i] /\ pc[c] \notin {"sync_forward", "finished"}

\* A publisher and a subscriber that both reached their read loops in one
\* session have been introduced: the subscriber's InitSub frame was handed to
\* the publisher, by its own handler or by the publisher's, in whatever order
\* the two registered (handleConnection registers first and looks second).
IntroducedPeers ==
  \A p, s \in Conns :
    /\ PubRegistered(p) /\ pc[p] # "pub_greet" /\ p \notin done
    /\ pc[s] = "sub_loop" /\ held[s] = held[p] /\ s \in subscribers[held[s]]
    => <<p, s>> \in introduced

\* Two handlers never both run loopPublisher for open connections of one
\* session object: RegisterPublisher rejects the duplicate.
OnePublisher ==
  \A p, q \in Conns :
    /\ PubRegistered(p) /\ PubRegistered(q) /\ held[p] = held[q]
    /\ p \notin done /\ q \notin done
    => p = q

\* InitSub frames, broadcast frames, control frames and one-shot requests only
\* travel between peers that asked for the same session ID, also when they go through
\* session pointers and snapshots obtained before a teardown.
SessionIsolation ==
  \A p, s \in Conns :
    \/ <<p, s>> \in introduced
    \/ s \in fanout[p]
    \/ (SubRegistered(s) \/ pc[s] = "sync_forward") /\ publisher[held[s]] = p
    => id[p] = id[s] /\ id[p] # None

\* Until shutdown the ActiveSessions gauge equals the size of srv.sessions,
\* although it is kept by separate increments and decrements in three places.
GaugeExact ==
  ~stopped => gauge = Cardinality({i \in SessionIDs : registry[i] # None})
=============================================================================
