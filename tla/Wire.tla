-------------------------------- MODULE Wire --------------------------------
(***************************************************************************)
(* Envelopes on a byte stream: pkg/protocol/envelope.go (Encode, Decode,   *)
(* padding) over the kinds of connection that carry them:                  *)
(*                                                                         *)
(*   "publisher"  relay to publisher.  The relay's handlers write under a  *)
(*                2 s deadline and ignore the error, so a frame may be     *)
(*                torn; handleSyncRequests reads under a 500 ms deadline   *)
(*                and starts a new Decode when it expires.                 *)
(*   "proxied"    client to relay behind a balancer that prefixes a PROXY  *)
(*                v2 header, the relay trusting it.                        *)
(*   "direct"     the same relay, the client sending no PROXY header.      *)
(*   "browser"    client to relay over WebSocket (relay/websocket.go).     *)
(*                                                                         *)
(* A token stands for a run of bytes: token 1 of frame f is its magic, 2   *)
(* the rest of the header with the payload length, 3.. its payload.  The   *)
(* tokens of "frame 0" belong to no envelope: 1 and 2 are the PROXY magic, *)
(* 3..5 the PROXY address block, 6 the payload of a ping.  TCP cuts the    *)
(* stream anywhere, so a read returns any part of what has arrived.        *)
(* Payload bytes that imitate the magic are left out.                      *)
(***************************************************************************)
EXTENDS Integers, FiniteSets, SequencesExt

CONSTANTS Kinds,        \* the kinds of connection that a run explores
          MaxFrames,    \* envelopes on the connection
          MaxPayload,   \* MaxPayloadSize, in tokens
          MaxFirst,     \* MaxHandshakePayload, in tokens
          MaxTears,     \* bound: frames torn by a write deadline
          MaxLost,      \* bound: read deadlines that expire inside a frame
          MaxExtras,    \* bound: pings and empty WebSocket frames
          MaxWsFrames   \* bound: unread WebSocket frames

ASSUME WireAssumption ==
    /\ Kinds \subseteq {"publisher", "proxied", "direct", "browser"}
    /\ {MaxFrames, MaxPayload, MaxFirst, MaxTears, MaxLost, MaxExtras, MaxWsFrames} \subseteq Nat
    /\ MaxFirst <= MaxPayload /\ MaxPayload \div 65536 < 65536     \* payloadLen is a uint32

VARIABLES kind, lens,   \* the connection, and the payload length of each envelope
          toSend,       \* frames (publisher) or tokens (browser) not written yet
          wire,         \* what the reader's socket can still read: tokens or WebSocket frames
          buf,          \* the bufio.Reader of ParseProxyHeaderV2
          readBuf,      \* wsConn.readBuf
          phase, src,   \* where the reader is, and what its conn reads from
          remoteAddr,   \* whose address the rate limiter is given
          got, size,    \* tokens of the envelope being decoded, and its payloadLen
          out,          \* the envelopes Decode returned, as the tokens they are made of
          pongs,        \* pongs written
          tears, lost, extras

wireVars == <<kind, lens, toSend, wire, buf, readBuf, phase, src, remoteAddr, got, size,
          out, pongs, tears, lost, extras>>

reader == <<buf, readBuf, phase, src, remoteAddr, got, size, out, pongs>>

----------------------------------------------------------------------------
Token(f, k) == [f |-> f, k |-> k]
HeaderSize == 2
ProxyMagic == <<Token(0, 1), Token(0, 2)>>
AddressBlocks == {3, 4, 5}      \* inet or inet6; another family or too short; above 512 bytes

\* The frame Encode writes: header, then payload, in one Write.
Encode(f) == [k \in 1 .. HeaderSize + lens[f] |-> Token(f, k)]

Frames(n) == FlattenSeq([f \in 1 .. n |-> Encode(f)])

WireInit ==
    /\ kind \in Kinds
    /\ lens \in [1 .. MaxFrames -> 0 .. MaxPayload]
    /\ toSend = CASE kind = "publisher" -> [f \in 1 .. MaxFrames |-> f]
                  [] kind = "browser"   -> Frames(MaxFrames)
                  [] OTHER              -> <<>>
    /\ \E block \in AddressBlocks :
          wire = CASE kind = "proxied" -> ProxyMagic \o <<Token(0, block)>> \o Frames(MaxFrames)
                   [] kind = "direct"  -> Frames(MaxFrames)
                   [] OTHER            -> <<>>
    /\ phase = IF kind \in {"proxied", "direct"} THEN "peek" ELSE "decode"
    /\ src = IF kind = "browser" THEN "ws" ELSE "conn"
    /\ remoteAddr = "peer"
    /\ buf = <<>> /\ readBuf = <<>> /\ got = <<>> /\ out = <<>>
    /\ size = 0 /\ pongs = 0 /\ tears = 0 /\ lost = 0 /\ extras = 0

----------------------------------------------------------------------------
(* The sending side.                                                       *)

\* SendFrame to a publisher: one write, serialised by writeMu.
SendFrame ==
    /\ kind = "publisher" /\ toSend /= <<>>
    /\ wire' = wire \o Encode(Head(toSend))
    /\ toSend' = Tail(toSend)
    /\ UNCHANGED <<kind, lens, tears, lost, extras, reader>>

\* The write deadline expires after part of the frame is out; the handler ignores the error.
SendFrameTorn ==
    /\ kind = "publisher" /\ toSend /= <<>> /\ tears < MaxTears
    /\ LET bytes == Encode(Head(toSend))
       IN  \E n \in 0 .. Len(bytes) - 1 : wire' = wire \o SubSeq(bytes, 1, n)
    /\ toSend' = Tail(toSend)
    /\ tears' = tears + 1
    /\ UNCHANGED <<kind, lens, lost, extras, reader>>

\* The browser sends a binary or continuation frame with the next bytes, cut anywhere.
WsData ==
    /\ kind = "browser" /\ Len(wire) < MaxWsFrames
    /\ \E n \in 1 .. Len(toSend) :
          /\ wire' = Append(wire, [op |-> "data", payload |-> SubSeq(toSend, 1, n)])
          /\ toSend' = SubSeq(toSend, n + 1, Len(toSend))
    /\ UNCHANGED <<kind, lens, tears, lost, extras, reader>>

\* Frames that carry no bytes of an envelope: a ping, a pong, an empty fragment.
WsExtra ==
    /\ kind = "browser" /\ toSend /= <<>> /\ Len(wire) < MaxWsFrames
    /\ extras < MaxExtras
    /\ \E frame \in {[op |-> "ping", payload |-> <<Token(0, 6)>>],
                     [op |-> "pong", payload |-> <<Token(0, 6)>>],
                     [op |-> "data", payload |-> <<>>]} :
          wire' = Append(wire, frame)
    /\ extras' = extras + 1
    /\ UNCHANGED <<kind, lens, toSend, tears, lost, reader>>

WsClose ==
    /\ kind = "browser" /\ phase = "decode" /\ toSend = <<>>
    /\ \A i \in DOMAIN wire : wire[i].op /= "close"
    /\ wire' = Append(wire, [op |-> "close", payload |-> <<>>])
    /\ UNCHANGED <<kind, lens, toSend, tears, lost, extras, reader>>

----------------------------------------------------------------------------
(* ParseProxyHeaderV2, on a bufio.Reader over the connection.              *)

Take(n) == wire' = SubSeq(wire, n + 1, Len(wire))

\* Faulty variant of Fill: the wrapped connection serves what ParseProxyHeaderV2 had buffered
\* (a reader over Buffered() bytes in the place of bufReader) and never reads the socket again.
FillHeaderOnly ==
    /\ \/ phase = "peek" /\ Len(buf) < Len(ProxyMagic)
       \/ phase = "strip" /\ buf = <<>>
    /\ \E n \in 1 .. Len(wire) : buf' = buf \o SubSeq(wire, 1, n) /\ Take(n)
    /\ UNCHANGED <<kind, lens, toSend, readBuf, phase, src, remoteAddr, got, size, out,
                   pongs, tears, lost, extras>>

\* One read of the socket by the bufio.Reader, which takes all it is given.
Fill ==
    /\ \/ phase = "peek" /\ Len(buf) < Len(ProxyMagic)
       \/ phase = "strip" /\ buf = <<>>
       \/ phase = "decode" /\ src = "bufio" /\ buf = <<>>
    /\ \E n \in 1 .. Len(wire) : buf' = buf \o SubSeq(wire, 1, n) /\ Take(n)
    /\ UNCHANGED <<kind, lens, toSend, readBuf, phase, src, remoteAddr, got, size, out,
                   pongs, tears, lost, extras>>

\* Peek(12) has its bytes: not a PROXY header returns the bare conn, the buffer is dropped.
Peek ==
    /\ phase = "peek" /\ Len(buf) >= Len(ProxyMagic)
    /\ IF SubSeq(buf, 1, Len(ProxyMagic)) = ProxyMagic
         THEN phase' = "strip" /\ buf' = SubSeq(buf, Len(ProxyMagic) + 1, Len(buf))
         ELSE phase' = "decode" /\ buf' = <<>>
    /\ UNCHANGED <<kind, lens, toSend, wire, readBuf, src, remoteAddr, got, size, out,
                   pongs, tears, lost, extras>>

\* Faulty variant of Strip: the bytes read past the header are dropped.
StripForgets ==
    /\ phase = "strip" /\ buf /= <<>>
    /\ IF Head(buf).k = 5
         THEN phase' = "failed" /\ UNCHANGED <<buf, src, remoteAddr>>
         ELSE /\ phase' = "decode" /\ UNCHANGED src /\ buf' = <<>>
              /\ remoteAddr' = IF Head(buf).k = 3 THEN "client" ELSE remoteAddr
    /\ UNCHANGED <<kind, lens, toSend, wire, readBuf, got, size, out, pongs, tears, lost, extras>>

\* The rest of the header: a block above 512 bytes closes the connection unread; otherwise the
\* connection reads on from the buffer, and an inet address replaces the balancer's.
Strip ==
    /\ phase = "strip" /\ buf /= <<>>
    /\ IF Head(buf).k = 5
         THEN phase' = "failed" /\ UNCHANGED <<buf, src, remoteAddr>>
         ELSE /\ phase' = "decode" /\ src' = "bufio" /\ buf' = Tail(buf)
              /\ remoteAddr' = IF Head(buf).k = 3 THEN "client" ELSE remoteAddr
    /\ UNCHANGED <<kind, lens, toSend, wire, readBuf, got, size, out, pongs, tears, lost, extras>>

\* The 500 ms deadline: in Peek the bare conn is used, later the connection is closed.
ProxyTimeout ==
    /\ phase \in {"peek", "strip"} /\ lost < MaxLost
    /\ phase' = IF phase = "peek" THEN "decode" ELSE "failed"
    /\ buf' = <<>>
    /\ lost' = lost + 1
    /\ UNCHANGED <<kind, lens, toSend, wire, readBuf, src, remoteAddr, got, size, out, pongs,
                   tears, extras>>

----------------------------------------------------------------------------
(* wsConn.Read: unwraps one WebSocket frame while readBuf is empty.        *)

ReadWsFrame(frame) ==
    /\ readBuf' = IF frame.op = "data" THEN frame.payload ELSE readBuf
    /\ pongs' = IF frame.op = "ping" THEN pongs + 1 ELSE pongs
    /\ phase' = IF frame.op = "close" THEN "closed" ELSE phase

Unwrap ==
    /\ phase = "decode" /\ src = "ws" /\ readBuf = <<>> /\ wire /= <<>>
    /\ ReadWsFrame(Head(wire))
    /\ wire' = Tail(wire)
    /\ UNCHANGED <<kind, lens, toSend, buf, src, remoteAddr, got, size, out, tears, lost, extras>>

----------------------------------------------------------------------------
(* DecodeWithMax, as the reads that io.ReadFull makes.                     *)

\* The limit of the first frame of a client, and of every other frame.
maxPayload == IF kind /= "publisher" /\ out = <<>> THEN MaxFirst ELSE MaxPayload

IsMagic(t) == t.f > 0 /\ t.k = 1

\* The payload length in a header; across a tear it is made of bytes of two frames.
PayloadLen(h) == IF IsMagic(h[1]) /\ h[2] = Token(h[1].f, 2) THEN {lens[h[1].f]} ELSE 0 .. MaxPayload + 1

Return(envelope) == out' = Append(out, envelope) /\ got' = <<>> /\ size' = 0 /\ phase' = phase
Fail == phase' = "failed" /\ got' = <<>> /\ size' = 0 /\ out' = out

\* Faulty variant of Header: the magic is not compared.
HeaderUnchecked(h) ==
    \E n \in PayloadLen(h) :
       CASE n > maxPayload -> Fail
         [] n = 0          -> Return(h)
         [] OTHER          -> got' = h /\ size' = n /\ UNCHANGED <<out, phase>>

\* The header is complete: ErrInvalidMagic, ErrPayloadTooLarge, or on to the payload.
Header(h) ==
    \/ ~ IsMagic(h[1]) /\ Fail
    \/ IsMagic(h[1]) /\ \E n \in PayloadLen(h) :
          CASE n > maxPayload -> Fail
            [] n = 0          -> Return(h)
            [] OTHER          -> got' = h /\ size' = n /\ UNCHANGED <<out, phase>>

\* ReadFull is handed some tokens.
Collect(bytes) ==
    LET g == got \o bytes
    IN  CASE Len(g) = HeaderSize        -> Header(g)
          [] Len(g) = HeaderSize + size -> Return(g)
          [] OTHER                      -> got' = g /\ UNCHANGED <<size, out, phase>>

Missing == IF Len(got) < HeaderSize THEN HeaderSize - Len(got) ELSE HeaderSize + size - Len(got)

\* The source of the reads, and the part of it one Read may return.
Read ==
    /\ phase = "decode"
    /\ \/ /\ src = "conn" /\ kind /= "browser"
          /\ \E n \in 1 .. Missing : n <= Len(wire) /\ Collect(SubSeq(wire, 1, n)) /\ Take(n)
          /\ UNCHANGED <<buf, readBuf>>
       \/ /\ src = "bufio" /\ buf /= <<>>
          /\ LET n == IF Len(buf) < Missing THEN Len(buf) ELSE Missing
             IN  Collect(SubSeq(buf, 1, n)) /\ buf' = SubSeq(buf, n + 1, Len(buf))
          /\ UNCHANGED <<wire, readBuf>>
       \/ /\ src = "ws" /\ readBuf /= <<>>
          /\ LET n == IF Len(readBuf) < Missing THEN Len(readBuf) ELSE Missing
             IN  Collect(SubSeq(readBuf, 1, n)) /\ readBuf' = SubSeq(readBuf, n + 1, Len(readBuf))
          /\ UNCHANGED <<wire, buf>>
    /\ UNCHANGED <<kind, lens, toSend, src, remoteAddr, pongs, tears, lost, extras>>

\* The peer closed the connection and everything was read.
Eof ==
    /\ phase = "decode" /\ kind /= "browser"
    /\ toSend = <<>> /\ wire = <<>> /\ buf = <<>>
    /\ phase' = "closed"
    /\ UNCHANGED <<kind, lens, toSend, wire, buf, readBuf, src, remoteAddr, got, size, out,
                   pongs, tears, lost, extras>>

\* handleSyncRequests: the 500 ms deadline.  What Decode had read is gone, the loop goes on.
SyncTimeout ==
    /\ kind = "publisher" /\ phase = "decode" /\ got /= <<>> /\ lost < MaxLost
    /\ got' = <<>> /\ size' = 0
    /\ lost' = lost + 1
    /\ UNCHANGED <<kind, lens, toSend, wire, buf, readBuf, phase, src, remoteAddr, out, pongs,
                   tears, extras>>

\* handleConnection: the 10 s deadline of the first frame closes the connection.
FirstFrameTimeout ==
    /\ kind /= "publisher" /\ phase = "decode" /\ out = <<>> /\ lost < MaxLost
    /\ phase' = "failed"
    /\ lost' = lost + 1
    /\ UNCHANGED <<kind, lens, toSend, wire, buf, readBuf, src, remoteAddr, got, size, out, pongs,
                   tears, extras>>

----------------------------------------------------------------------------
Network == SendFrame \/ WsData
Reader == Fill \/ Peek \/ Strip \/ Unwrap \/ Read

WireNext ==
    \/ SendFrame \/ SendFrameTorn \/ WsData \/ WsExtra \/ WsClose
    \/ Fill \/ Peek \/ Strip \/ ProxyTimeout \/ Unwrap \/ Read \/ Eof
    \/ SyncTimeout \/ FirstFrameTimeout

WireSpec == WireInit /\ [][WireNext]_wireVars

\* The connection delivers what was written, and the reading goroutine runs.
WireFairSpec == WireSpec /\ WF_wireVars(Network) /\ WF_wireVars(Reader)

----------------------------------------------------------------------------
(* Padding of plaintexts: a 4-byte big-endian length, the data, zeros.     *)

PutUint32(n) == << (n \div 16777216) % 256, (n \div 65536) % 256, (n \div 256) % 256, n % 256 >>
Uint32(b) == b[1] * 16777216 + b[2] * 65536 + b[3] * 256 + b[4]
lenPrefixSize == 4

\* Faulty variant of PadPayload: forgets the length prefix when it compares sizes.
PadPayloadTight(data, targetSize) ==
    LET needed == Len(data) + lenPrefixSize
        total == IF Len(data) > targetSize THEN needed ELSE targetSize
    IN  [i \in 1 .. total |->
            IF i <= lenPrefixSize THEN PutUint32(Len(data))[i]
            ELSE IF i <= needed THEN data[i - lenPrefixSize] ELSE 0]

PadPayload(data, targetSize) ==
    LET needed == Len(data) + lenPrefixSize
        total == IF needed > targetSize THEN needed ELSE targetSize
    IN  [i \in 1 .. total |->
            IF i <= lenPrefixSize THEN PutUint32(Len(data))[i]
            ELSE IF i <= needed THEN data[i - lenPrefixSize] ELSE 0]

ValidPadding(data) == Len(data) >= lenPrefixSize /\ Uint32(data) + lenPrefixSize <= Len(data)
UnpadPayload(data) == [i \in 1 .. Uint32(data) |-> data[i + lenPrefixSize]]

----------------------------------------------------------------------------
(* Properties.                                                             *)

Intact(envelope) == IsMagic(envelope[1]) /\ envelope = Encode(envelope[1].f)

Refused == \/ kind /= "publisher" /\ lens[1] > MaxFirst
           \/ buf /= <<>> /\ Head(buf) = Token(0, 5)

\* Whatever the segmentation, the look-ahead of the PROXY parser, the WebSocket fragmentation
\* and the pings between, Decode returns exactly the envelopes that were written, in order, and
\* ends with an error only for a first frame or a PROXY block above its limit: as long as no
\* write was torn and no deadline expired inside a frame or a header.  A relay that trusts a
\* proxy and is reached without one is left out: the look-ahead eats the bytes it compared.
Undamaged ==
    tears = 0 /\ lost = 0 /\ kind /= "direct" =>
        /\ \A i \in DOMAIN out : out[i] = Encode(i)
        /\ phase = "failed" => Refused
        /\ phase = "closed" => Len(out) = MaxFrames

\* Tears and expired deadlines never desynchronise Decode silently: each tear yields at most
\* one envelope made of the bytes of several frames, every other envelope is one that was
\* written, and none comes twice or out of order.
DamageConfined ==
    /\ Cardinality({i \in DOMAIN out : ~ Intact(out[i])}) <= tears
    /\ \A i, j \in DOMAIN out : i < j => out[i][1].f < out[j][1].f

\* Every written envelope is decoded in the end, an empty payload included, unless the stream
\* was damaged, the connection refused, or the look-ahead ate the start of the stream.
AllDecoded ==
    <>(Len(out) = MaxFrames \/ phase = "failed" \/ tears > 0 \/ lost > 0 \/ kind = "direct")

Payload(f) == SubSeq(Encode(f), HeaderSize + 1, HeaderSize + lens[f])

\* UnpadPayload accepts what PadPayload made of the payload of any envelope and gives it back,
\* whether the target size is below, at or above what the length prefix and the data need.
PaddingInverse ==
    \A f \in 1 .. MaxFrames, targetSize \in 0 .. lenPrefixSize + MaxPayload + 1 :
        LET padded == PadPayload(Payload(f), targetSize)
        IN  ValidPadding(padded) /\ UnpadPayload(padded) = Payload(f)
=============================================================================
