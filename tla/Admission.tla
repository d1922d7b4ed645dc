------------------------------ MODULE Admission ------------------------------
(***************************************************************************)
(* How the relay admits a connection: the connection limit (Server.Start,  *)
(* StartWebSocketTLSServer, handleQuicConn), the rate limiter              *)
(* (pkg/relay/ratelimit.go) and the first frame (handleConnection).        *)
(*                                                                         *)
(* Time is relative.  A record keeps what is left of its ban, bannedUntil  *)
(* minus now: positive while banned, 0 in the instant in which the ban     *)
(* ends (neither Before nor After), -1 from then on; and how long ago its  *)
(* last activity was.                                                      *)
(***************************************************************************)
EXTENDS Integers, FiniteSets

CONSTANTS
  Conns,                 \* connections
  IPs,                   \* the addresses they come from
  Acceptors,             \* goroutines that admit connections: the accept loop of
                         \* Start, one per QUIC connection, one per WebSocket upgrade
  MaxActiveConnections,
  MaxFailedAttempts,
  BanDuration,
  MaxAge,                \* the argument of CleanupStale, at least BanDuration
  None                   \* no record, no connection

\* ipRecord
Records ==
  [attempts : 1..MaxFailedAttempts, left : -1..BanDuration, idle : 0..(MaxAge + 1)]

ASSUME AdmissionAssumption ==
  /\ MaxActiveConnections \in Nat \ {0} /\ MaxFailedAttempts \in Nat \ {0}
  /\ BanDuration \in Nat \ {0} /\ MaxAge \in Nat /\ MaxAge >= BanDuration
  /\ IsFiniteSet(Acceptors)
  /\ None \notin Conns /\ None \notin Records

VARIABLES
  st,            \* connection -> its step: new, tested, head, decode, served, leave
  ip,            \* connection -> the address it comes from
  tests,         \* acceptor -> the connection it found room for, or None
  activeConns,   \* srv.activeConns
  records,       \* address -> its ipRecord, or None
  recent         \* history: recent[i][k] is the age of address i's k-th latest
                 \* failure, BanDuration if it is that old or there is none

vars == <<st, ip, tests, activeConns, records, recent>>

Init ==
  /\ st = [c \in Conns |-> "new"]
  /\ ip \in [Conns -> IPs]
  /\ tests = [a \in Acceptors |-> None]
  /\ activeConns = 0
  /\ records = [i \in IPs |-> None]
  /\ recent = [i \in IPs |-> [k \in 1..MaxFailedAttempts |-> BanDuration]]

-----------------------------------------------------------------------------
(* RateLimiter                                                             *)

Banned(i) == records[i] # None /\ records[i].left > 0

\* What IsBanned leaves of a record: it notes the activity, and forgets an
\* address whose ban is over.
Checked(r) ==
  IF r = None \/ (r.left < 0 /\ r.attempts = MaxFailedAttempts) THEN None
  ELSE [r EXCEPT !.idle = 0]

\* Faulty variant of Failed: bans one failure too late.
FailedLate(r) ==
  IF r = None THEN [attempts |-> 1, left |-> -1, idle |-> 0]
  ELSE IF r.attempts < MaxFailedAttempts
       THEN [r EXCEPT !.attempts = r.attempts + 1, !.idle = 0]
       ELSE [r EXCEPT !.left = BanDuration, !.idle = 0]

\* What RecordFailure makes of a record.  Only whether the attempts reach
\* MaxFailedAttempts matters, so they are not counted any further.
Failed(r) ==
  LET n == IF r = None THEN 1
           ELSE IF r.attempts < MaxFailedAttempts THEN r.attempts + 1 ELSE r.attempts
  IN  [attempts |-> n,
       left |-> IF n = MaxFailedAttempts THEN BanDuration
                ELSE IF r = None THEN -1 ELSE r.left,
       idle |-> 0]

RecordFailure(i) ==
  /\ records' = [records EXCEPT ![i] = Failed(@)]
  /\ recent' = [recent EXCEPT ![i] =
                  [k \in 1..MaxFailedAttempts |-> IF k = 1 THEN 0 ELSE @[k - 1]]]

\* Start's ticker.
CleanupStale ==
  /\ records' = [i \in IPs |->
       IF records[i] # None /\ records[i].left < 0 /\ records[i].idle > MaxAge
       THEN None ELSE records[i]]
  /\ UNCHANGED <<st, ip, tests, activeConns, recent>>

Tick ==
  /\ records' = [i \in IPs |->
       IF records[i] = None THEN None
       ELSE [records[i] EXCEPT !.left = IF @ < 0 THEN @ ELSE @ - 1,
                               !.idle = IF @ > MaxAge THEN @ ELSE @ + 1]]
  /\ recent' = [i \in IPs |->
       [k \in 1..MaxFailedAttempts |->
          IF recent[i][k] < BanDuration THEN recent[i][k] + 1 ELSE BanDuration]]
  /\ UNCHANGED <<st, ip, tests, activeConns>>

-----------------------------------------------------------------------------
(* A connection                                                            *)

\* Faulty variant of Accept: compares with > instead of >=.
AcceptOneMore(a, c) ==
  /\ st[c] = "new" /\ tests[a] = None
  /\ activeConns <= MaxActiveConnections
  /\ st' = [st EXCEPT ![c] = "tested"]
  /\ tests' = [tests EXCEPT ![a] = c]
  /\ UNCHANGED <<ip, activeConns, records, recent>>

\* activeConns.Load() < MaxActiveConnections; otherwise the connection is
\* closed and nothing changes.
Accept(a, c) ==
  /\ st[c] = "new" /\ tests[a] = None
  /\ activeConns < MaxActiveConnections
  /\ st' = [st EXCEPT ![c] = "tested"]
  /\ tests' = [tests EXCEPT ![a] = c]
  /\ UNCHANGED <<ip, activeConns, records, recent>>

\* activeConns.Add(1), and the handler starts.
Count(a) ==
  /\ tests[a] # None
  /\ activeConns' = activeConns + 1
  /\ st' = [st EXCEPT ![tests[a]] = "head"]
  /\ tests' = [tests EXCEPT ![a] = None]
  /\ UNCHANGED <<ip, records, recent>>

\* Faulty variant of CheckBan: a refused connection renews the ban.
CheckBanRenewing(c) ==
  /\ st[c] = "head"
  /\ st' = [st EXCEPT ![c] = IF Banned(ip[c]) THEN "leave" ELSE "decode"]
  /\ records' = [records EXCEPT ![ip[c]] =
                   IF Banned(ip[c]) THEN [@ EXCEPT !.left = BanDuration] ELSE Checked(@)]
  /\ UNCHANGED <<ip, tests, activeConns, recent>>

\* IsBanned
CheckBan(c) ==
  /\ st[c] = "head"
  /\ st' = [st EXCEPT ![c] = IF Banned(ip[c]) THEN "leave" ELSE "decode"]
  /\ records' = [records EXCEPT ![ip[c]] = Checked(@)]
  /\ UNCHANGED <<ip, tests, activeConns, recent>>

\* A malformed first frame, none in time, a frame that begins no session, or a
\* sync request for a session that does not exist.
Reject(c) ==
  /\ st[c] = "decode"
  /\ st' = [st EXCEPT ![c] = "leave"]
  /\ RecordFailure(ip[c])
  /\ UNCHANGED <<ip, tests, activeConns>>

\* No failure is recorded: a bad PROXY header, the end of the stream, an old
\* protocol version, a sync request that is forwarded.
Dismiss(c) ==
  /\ st[c] \in {"head", "decode"}
  /\ st' = [st EXCEPT ![c] = "leave"]
  /\ UNCHANGED <<ip, tests, activeConns, records, recent>>

\* The loops of a publisher or subscriber (RelayServer).
Serve(c) ==
  /\ st[c] = "decode"
  /\ st' = [st EXCEPT ![c] = "served"]
  /\ UNCHANGED <<ip, tests, activeConns, records, recent>>

\* The deferred activeConns.Add(-1); the connection's name is used again.
Leave(c) ==
  /\ st[c] \in {"served", "leave"}
  /\ st' = [st EXCEPT ![c] = "new"]
  /\ activeConns' = activeConns - 1
  /\ UNCHANGED <<ip, tests, records, recent>>

Next ==
  \/ \E a \in Acceptors : Count(a) \/ \E c \in Conns : Accept(a, c)
  \/ \E c \in Conns : CheckBan(c) \/ Reject(c) \/ Dismiss(c) \/ Serve(c) \/ Leave(c)
  \/ CleanupStale \/ Tick

\* Time goes on; nothing else is forced.
Spec == Init /\ [][Next]_vars /\ WF_vars(Tick)

-----------------------------------------------------------------------------
(* Properties                                                              *)

\* Type correctness (proved in ConnectionProofs).
TypeOK ==
  /\ st \in [Conns -> {"new", "tested", "head", "decode", "served", "leave"}]
  /\ ip \in [Conns -> IPs]
  /\ tests \in [Acceptors -> Conns \cup {None}]
  /\ records \in [IPs -> Records \cup {None}]
  /\ recent \in [IPs -> [1..MaxFailedAttempts -> 0..BanDuration]]

\* The limit is tested and counted in two steps, by several acceptors.  It is
\* exceeded by at most one connection per other acceptor (Start,
\* StartWebSocketTLSServer, handleQuicConn).
LimitOvershoot ==
  activeConns < MaxActiveConnections + Cardinality(Acceptors)

\* An address whose latest MaxFailedAttempts failures are all younger than the
\* ban passes no check, whatever expiry, clean-up and the failures of
\* connections admitted earlier did to its record in between.
WindowRespected ==
  [][\A c \in Conns : st[c] = "head" /\ st'[c] = "decode" =>
       \E k \in 1..MaxFailedAttempts : recent[ip[c]][k] = BanDuration]_vars

\* Every ban ends, however often the address tries again meanwhile: refused
\* connections do not prolong it, and only connections that were admitted
\* before can, each of them once.
BanEnds == \A i \in IPs : Banned(i) ~> ~Banned(i)
=============================================================================
