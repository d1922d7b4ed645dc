------------------------------ MODULE Handshake ------------------------------
(***************************************************************************)
(* The handshakes of one publisher with its subscribers over the relay:    *)
(* Connect and CompleteHandshake of both engines, the publisher's          *)
(* handleSyncRequests, and the relay's registration and forwarding.        *)
(*                                                                         *)
(* The relay gives the publisher the frames of all subscribers on one      *)
(* connection, and broadcasts every frame of the publisher.  A PAKE        *)
(* exchange is named by the subscriber whose message began it: an answer   *)
(* for another subscriber derives another key, and its tag does not match. *)
(***************************************************************************)
EXTENDS Integers, Sequences, FiniteSets

CONSTANTS
  Subs,       \* subscriber connections
  Patience,   \* frames CompleteHandshake reads to find the confirmation (8)
  MaxData,    \* bound: frames broadcast by the ready publisher
  Nobody      \* no subscriber

ASSUME HandshakeAssumption ==
  Patience \in Nat \ {0} /\ MaxData \in Nat /\ Nobody \notin Subs

VARIABLES
  ppc,        \* publisher: connect, recv, confirm, ready, timeout, overrun, mismatch
  peer,       \* the subscriber whose message p.pakePeer was updated with
  skipped,    \* frames skipped while waiting for its confirmation
  toPub,      \* frames forwarded to the publisher
  greeted,    \* relay: "no" publisher, "registered", "greeted"
  toGreet,    \* relay: subscribers whose InitSub the publisher still has to get,
              \* while its handler holds the session's read lock
  reg,        \* relay: session.subscribers
  fwd,        \* relay: handlers that registered and have not forwarded InitSub
  conf,       \* subscribers whose KeyConfirm is on its way to their handler
  spc,        \* subscriber -> out, waiting, confirmed, done, failed, left
  inbox,      \* subscriber -> frames queued for it
  verified,   \* history: subscribers that verified the answer to their message
  sent        \* frames broadcast so far

pubVars   == <<ppc, peer, skipped>>
relayVars == <<greeted, toGreet, reg, fwd, conf>>
handshakeVars == <<pubVars, toPub, relayVars, spc, inbox, verified, sent>>

HandshakeInit ==
  /\ ppc = "connect" /\ peer = Nobody /\ skipped = 0 /\ toPub = <<>>
  /\ greeted = "no" /\ toGreet = {} /\ reg = {} /\ fwd = {} /\ conf = {}
  /\ spc = [s \in Subs |-> "out"] /\ inbox = [s \in Subs |-> <<>>]
  /\ verified = {} /\ sent = 0

InitSub(s)    == [kind |-> "init", from |-> s]
KeyConfirm(s) == [kind |-> "confirm", from |-> s]
Step2(s)      == [kind |-> "step2", to |-> s]
Data          == [kind |-> "data"]

\* ForwardFromPublisher.  What a subscriber does with frames after its
\* handshake is the subject of Subscriber and Feed.
Broadcast(f) ==
  inbox' = [s \in Subs |-> IF s \in reg /\ spc[s] = "waiting"
                           THEN Append(inbox[s], f) ELSE inbox[s]]

-----------------------------------------------------------------------------
(* The relay                                                               *)

\* The publisher's Connect and the relay's RegisterPublisher.
PubConnect ==
  /\ ppc = "connect"
  /\ ppc' = "recv" /\ greeted' = "registered"
  /\ UNCHANGED <<peer, skipped, toPub, toGreet, reg, fwd, conf, spc, inbox, verified, sent>>

\* The publisher's handler takes the read lock and walks the subscribers ...
BeginGreet ==
  /\ greeted = "registered"
  /\ greeted' = "greeted" /\ toGreet' = reg
  /\ UNCHANGED <<pubVars, toPub, reg, fwd, conf, spc, inbox, verified, sent>>

\* ... in any order.
Greet(s) ==
  /\ s \in toGreet
  /\ toGreet' = toGreet \ {s}
  /\ toPub' = Append(toPub, InitSub(s))
  /\ UNCHANGED <<pubVars, greeted, reg, fwd, conf, spc, inbox, verified, sent>>

\* The subscriber's Connect and the relay's RegisterSubscriber.
SubConnect(s) ==
  /\ spc[s] = "out" /\ toGreet = {}
  /\ spc' = [spc EXCEPT ![s] = "waiting"]
  /\ reg' = reg \cup {s} /\ fwd' = fwd \cup {s}
  /\ UNCHANGED <<pubVars, toPub, greeted, toGreet, conf, inbox, verified, sent>>

\* Its handler then forwards InitSub to the publisher, if there is one: the
\* publisher gets it twice when its own handler sends it too.
ForwardInit(s) ==
  /\ s \in fwd
  /\ fwd' = fwd \ {s}
  /\ toPub' = IF greeted = "no" THEN toPub ELSE Append(toPub, InitSub(s))
  /\ UNCHANGED <<pubVars, greeted, toGreet, reg, conf, spc, inbox, verified, sent>>

\* loopSubscriber forwards the confirmation.
ForwardConfirm(s) ==
  /\ s \in conf \ fwd
  /\ conf' = conf \ {s}
  /\ toPub' = Append(toPub, KeyConfirm(s))
  /\ UNCHANGED <<pubVars, greeted, toGreet, reg, fwd, spc, inbox, verified, sent>>

\* loopSubscriber notices that the subscriber is gone; a frame that it has not
\* read may be lost.
Unregister(s) ==
  /\ s \in reg \ fwd /\ spc[s] \in {"failed", "left"} /\ toGreet = {}
  /\ reg' = reg \ {s} /\ conf' = conf \ {s}
  /\ UNCHANGED <<pubVars, toPub, greeted, toGreet, fwd, spc, inbox, verified, sent>>

-----------------------------------------------------------------------------
(* The publisher                                                           *)

\* CompleteHandshake reads the first InitSub and answers it with its PAKE
\* message, the wrapped master key and its confirmation tag.
RecvInit ==
  /\ ppc = "recv" /\ toPub # <<>>
  /\ peer' = Head(toPub).from /\ ppc' = "confirm"
  /\ toPub' = Tail(toPub)
  /\ Broadcast(Step2(Head(toPub).from))
  /\ UNCHANGED <<skipped, relayVars, spc, verified, sent>>

\* Faulty variant of SkipFrame: gives up one frame too early.
SkipFrameHasty ==
  /\ ppc = "confirm" /\ toPub # <<>> /\ Head(toPub).kind # "confirm"
  /\ toPub' = Tail(toPub)
  /\ skipped' = skipped + 1
  /\ ppc' = IF skipped + 1 = Patience - 1 THEN "overrun" ELSE ppc
  /\ UNCHANGED <<peer, relayVars, spc, inbox, verified, sent>>

\* It then skips frames until the confirmation comes, at most Patience.
SkipFrame ==
  /\ ppc = "confirm" /\ toPub # <<>> /\ Head(toPub).kind # "confirm"
  /\ toPub' = Tail(toPub)
  /\ skipped' = skipped + 1
  /\ ppc' = IF skipped + 1 = Patience THEN "overrun" ELSE ppc
  /\ UNCHANGED <<peer, relayVars, spc, inbox, verified, sent>>

\* Faulty variant of RecvConfirm: takes any frame for the confirmation.
RecvConfirmAny ==
  /\ ppc = "confirm" /\ toPub # <<>>
  /\ ppc' = IF Head(toPub).from = peer THEN "ready" ELSE "mismatch"
  /\ toPub' = Tail(toPub)
  /\ UNCHANGED <<peer, skipped, relayVars, spc, inbox, verified, sent>>

\* VerifyPeerConfirm
RecvConfirm ==
  /\ ppc = "confirm" /\ toPub # <<>> /\ Head(toPub).kind = "confirm"
  /\ ppc' = IF Head(toPub).from = peer THEN "ready" ELSE "mismatch"
  /\ toPub' = Tail(toPub)
  /\ UNCHANGED <<peer, skipped, relayVars, spc, inbox, verified, sent>>

\* The read deadline of CompleteHandshake, or a lost connection.
PubTimeout ==
  /\ ppc \in {"recv", "confirm"}
  /\ ppc' = "timeout"
  /\ UNCHANGED <<peer, skipped, toPub, relayVars, spc, inbox, verified, sent>>

\* handleSyncRequests answers each InitSub in an exchange of its own and
\* ignores confirmations.
HandleFrame ==
  /\ ppc = "ready" /\ toPub # <<>>
  /\ toPub' = Tail(toPub)
  /\ IF Head(toPub).kind = "init" THEN Broadcast(Step2(Head(toPub).from))
     ELSE UNCHANGED inbox
  /\ UNCHANGED <<pubVars, relayVars, spc, verified, sent>>

\* PublishStream: a payload, a rekey frame or a heartbeat.
PublishData ==
  /\ ppc = "ready" /\ sent < MaxData
  /\ sent' = sent + 1
  /\ Broadcast(Data)
  /\ UNCHANGED <<pubVars, toPub, relayVars, spc, verified>>

-----------------------------------------------------------------------------
(* A subscriber                                                            *)

\* CompleteHandshake takes the first frame for its answer: it verifies the tag
\* and sends its own, before it has the key.
AcceptAnswer(s) ==
  /\ spc[s] = "waiting" /\ inbox[s] # <<>> /\ Head(inbox[s]) = Step2(s)
  /\ spc' = [spc EXCEPT ![s] = "confirmed"]
  /\ verified' = verified \cup {s}
  /\ conf' = conf \cup {s}
  /\ inbox' = [inbox EXCEPT ![s] = <<>>]
  /\ UNCHANGED <<pubVars, toPub, greeted, toGreet, reg, fwd, sent>>

\* SessionKey, UnwrapSessionKey and NewCipher: each of them may fail, the
\* confirmation being on its way.
InstallKey(s) ==
  /\ spc[s] = "confirmed"
  /\ \E end \in {"done", "failed"} : spc' = [spc EXCEPT ![s] = end]
  /\ UNCHANGED <<pubVars, toPub, relayVars, inbox, verified, sent>>

\* Any other frame is too short or its tag does not match.
RefuseAnswer(s) ==
  /\ spc[s] = "waiting" /\ inbox[s] # <<>> /\ Head(inbox[s]) # Step2(s)
  /\ spc' = [spc EXCEPT ![s] = "failed"]
  /\ inbox' = [inbox EXCEPT ![s] = <<>>]
  /\ UNCHANGED <<pubVars, toPub, relayVars, verified, sent>>

\* The subscriber's process ends, or the publisher's does and the relay closes
\* the session.
Quit(s) ==
  /\ spc[s] \in {"waiting", "confirmed", "done"}
  /\ spc' = [spc EXCEPT ![s] = "left"]
  /\ inbox' = [inbox EXCEPT ![s] = <<>>]
  /\ UNCHANGED <<pubVars, toPub, relayVars, verified, sent>>

Relay ==
  \/ BeginGreet
  \/ \E s \in Subs : Greet(s) \/ ForwardInit(s) \/ ForwardConfirm(s) \/ Unregister(s)
Publish == RecvInit \/ SkipFrame \/ RecvConfirm \/ HandleFrame
Subscribe(s) == AcceptAnswer(s) \/ RefuseAnswer(s) \/ InstallKey(s)

HandshakeNext ==
  \/ PubConnect \/ Relay \/ Publish \/ PubTimeout \/ PublishData
  \/ \E s \in Subs : SubConnect(s) \/ Subscribe(s) \/ Quit(s)

HandshakeSpec == HandshakeInit /\ [][HandshakeNext]_handshakeVars

\* Goroutines that have a frame to handle handle it.
HandshakeFairSpec ==
  /\ HandshakeSpec /\ WF_handshakeVars(Relay) /\ WF_handshakeVars(Publish)
  /\ \A s \in Subs : WF_handshakeVars(Subscribe(s))

-----------------------------------------------------------------------------
(* Properties                                                              *)

\* When the publisher's CompleteHandshake succeeds, the subscriber of its
\* exchange has verified the publisher's tag, and only the installation of its key
\* can still fail: although frames of all subscribers come in on the same
\* connection, some of them twice, no other frame is taken for its confirmation.
ReadyMeansVerified ==
  ppc = "ready" => /\ peer \in verified
                   /\ spc[peer] \in {"confirmed", "done", "failed", "left"}

\* A publisher that answered a subscriber gets its confirmation, unless that
\* subscriber leaves, or fails to install the key once it has confirmed, or the
\* deadline passes: no tag of another exchange comes first, no broadcast frame
\* gets in front of the answer, and Patience frames are enough for Patience / 2
\* subscribers whose InitSub frames may each come twice.
FirstPeerServed ==
  ppc = "confirm" ~>
    \/ ppc \in {"ready", "timeout"}
    \/ peer # Nobody /\ spc[peer] = "left"
    \/ peer \in verified /\ spc[peer] = "failed"
=============================================================================
