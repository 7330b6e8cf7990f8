------------------------- MODULE ChunkStreamProofs --------------------------
(***************************************************************************)
(* Messages come through whole, for any number of chunk streams, any chunk *)
(* sizes and any times.                                                    *)
(***************************************************************************)
EXTENDS ChunkStream, TLAPS

Types == {"none", "audio", "video", "setChunkSize"}
Msg == [len : Nat, type : Types, sid : Nat, size : Nat]
Peer == [time : 0 .. 2 * TimeMod - 1, delta : Nat, msg : Msg, fresh : BOOLEAN, left : Nat]
Stream == [header : Header, msg : Nat \cup {-1}, fresh : BOOLEAN]

Typed ==
  /\ peer \in [Cids -> Peer] /\ cs \in [Cids -> Stream]
  /\ \A c \in Cids : peer[c].msg.type = "setChunkSize" => peer[c].msg.size \in Sizes
  /\ \A c \in Cids : cs[c].msg <= cs[c].header.len
  /\ peer_size \in Sizes \cup {FirstSize} /\ in_size \in Sizes \cup {FirstSize}
  /\ ret \in {"ok", "failed", "socket"} /\ lost \in {"no", "read", "extended", "size"}
  /\ refused \in BOOLEAN /\ breached \in BOOLEAN
  /\ out.got \in Header /\ begun \in 0 .. MaxMsgs

(***************************************************************************)
(* As long as the receiver is in step, its ChunkStream c holds what the    *)
(* peer did there: the header as the peer's last chunk left it, and the    *)
(* units of the message under way.                                         *)
(***************************************************************************)
InStep == ret = "ok" /\ lost = "no"

SameHeader(c) ==
  /\ cs[c].header.time = peer[c].time % TimeMod
  /\ cs[c].header.delta = peer[c].delta /\ peer[c].delta < Escape
  /\ cs[c].header.len = peer[c].msg.len /\ cs[c].header.type = peer[c].msg.type
  /\ cs[c].header.sid = ReadId(peer[c].msg.sid)

SameMessage(c) ==
  /\ cs[c].fresh <=> peer[c].fresh
  /\ peer[c].fresh => peer[c].msg.sid = 0
  /\ IF peer[c].left = 0 THEN cs[c].msg = -1
     ELSE ~peer[c].fresh /\ cs[c].msg = peer[c].msg.len - peer[c].left /\ cs[c].msg >= 0

Linked ==
  /\ \A c \in Cids : SameHeader(c) /\ SameMessage(c)
  /\ refused \/ peer_size = in_size
  /\ ~breached

IInv ==
  Typed /\ (InStep => Linked) /\ Intact /\ RefusedForCause /\ FramingKept
-----------------------------------------------------------------------------
(***************************************************************************)
(* Remainders: reducing a time to 31 bits commutes with adding a           *)
(* difference and with the wrap of the peer's 32-bit clock.                *)
(***************************************************************************)
LEMMA Division ==
  ASSUME NEW a \in Nat, NEW M \in Nat \ {0}
  PROVE  /\ a % M \in 0 .. M - 1 /\ a \div M \in Nat
         /\ a = M * (a \div M) + (a % M)
OBVIOUS

LEMMA Remainder ==
  ASSUME NEW M \in Nat \ {0}, NEW q \in Nat, NEW r \in Nat, r < M
  PROVE (M * q + r) % M = r
OBVIOUS

LEMMA ModAdd ==
  ASSUME NEW a \in Nat, NEW b \in Nat, NEW M \in Nat \ {0}
  PROVE  ((a % M) + b) % M = (a + b) % M
<1> DEFINE q == a \div M
           r == a % M
<1>1. q \in Nat /\ r \in Nat /\ a = M * q + r
  BY Division
<1> HIDE DEF q, r
<1> DEFINE x == r + b
           p == x \div M
           s == x % M
<1>2. p \in Nat /\ s \in Nat /\ s < M /\ r + b = M * p + s
  <2>1. x \in Nat
    BY <1>1
  <2> HIDE DEF x
  <2>2. p \in Nat /\ s \in Nat /\ s < M /\ x = M * p + s
    BY <2>1, Division
  <2> QED BY <2>2 DEF x
<1> HIDE DEF p, s
<1>3. a + b = M * (q + p) + s
  <2>1. M * (q + p) = M * q + M * p
    BY <1>1, <1>2
  <2>2. M * q \in Nat /\ M * p \in Nat
    BY <1>1, <1>2
  <2> QED BY <1>1, <1>2, <2>1, <2>2
<1>4. (a + b) % M = s
  <2>1. q + p \in Nat
    BY <1>1, <1>2
  <2> QED BY <1>2, <1>3, <2>1, Remainder
<1> QED BY <1>4 DEF r, s, x

LEMMA ModTwice ==
  ASSUME NEW a \in Nat, NEW M \in Nat \ {0}
  PROVE  (a % (2 * M)) % M = a % M
<1> DEFINE N == 2 * M
           q == a \div N
           r == a % N
<1>0. N \in Nat \ {0}
  OBVIOUS
<1> HIDE DEF N
<1>1. q \in Nat /\ r \in Nat /\ a = N * q + r
  BY <1>0, Division
<1> HIDE DEF q, r
<1> DEFINE p == r \div M
           s == r % M
<1>r. r \in Nat
  BY <1>1
<1>2. p \in Nat /\ s \in Nat /\ s < M /\ r = M * p + s
  BY <1>r, Division
<1> HIDE DEF p, s
<1>3. a = M * (2 * q + p) + s
  <2>1. M * (2 * q + p) = M * (2 * q) + M * p
    BY <1>1, <1>2
  <2>2. M * (2 * q) = N * q
    BY <1>1 DEF N
  <2>3. N * q \in Nat /\ M * p \in Nat
    BY <1>0, <1>1, <1>2
  <2> QED BY <1>1, <1>2, <2>1, <2>2, <2>3
<1>4. a % M = s
  <2>1. 2 * q + p \in Nat
    BY <1>1, <1>2
  <2> QED BY <1>2, <1>3, <2>1, Remainder
<1> QED BY <1>4 DEF r, s, N
-----------------------------------------------------------------------------
LEMMA SmallerNat ==
  ASSUME NEW a \in Nat, NEW b \in Nat
  PROVE  Smaller(a, b) \in Nat /\ Smaller(a, b) <= a /\ Smaller(a, b) <= b
BY DEF Smaller

LEMMA ReadIdNat ==
  ASSUME NEW n \in Nat
  PROVE  ReadId(n) \in Nat /\ ReadId(0) = 0
BY SMT DEF ReadId

LEMMA CarriedTypes ==
  ASSUME NEW c \in Cids
  PROVE  /\ Carried(c) \subseteq Msg
         /\ \A m \in Carried(c) :
              /\ m.sid \in {0, 1} /\ (c = Control => m.sid = 0)
              /\ m.type = "setChunkSize" => m.size \in Sizes
<1> SUFFICES ASSUME NEW m \in Carried(c)
             PROVE  /\ m \in Msg /\ m.sid \in {0, 1} /\ (c = Control => m.sid = 0)
                    /\ m.type = "setChunkSize" => m.size \in Sizes
  OBVIOUS
<1>1. CASE c = Control
  <2>1. m \in SizeMsgs
    BY <1>1 DEF Carried
  <2>2. m.sid = 0 /\ m.size \in Sizes
    BY <2>1 DEF SizeMsgs
  <2>3. m.len \in Nat /\ m.type \in Types /\ m.sid \in Nat /\ m.size \in Nat
    <3>1. m.len = 1 /\ m.type = "setChunkSize" /\ m.sid = 0 /\ m.size \in Sizes
      BY <2>1 DEF SizeMsgs
    <3>2. m.size \in Nat
      BY <3>1, ChunkAssumption
    <3> QED BY <3>1, <3>2 DEF Types
  <2>4. m = [len |-> m.len, type |-> m.type, sid |-> m.sid, size |-> m.size]
    BY <2>1 DEF SizeMsgs
  <2>5. m \in Msg
    BY <2>3, <2>4 DEF Msg
  <2> QED BY <2>2, <2>5
<1>2. CASE c # Control
  <2>1. m \in MediaMsgs
    BY <1>2 DEF Carried
  <2>2. m.sid \in {0, 1} /\ m.type # "setChunkSize"
    BY <2>1 DEF MediaMsgs
  <2>3. m.len \in Nat /\ m.type \in Types /\ m.sid \in Nat /\ m.size \in Nat
    <3>1. m.len \in Lengths /\ m.type \in {"audio", "video"} /\ m.sid \in {0, 1} /\ m.size = 0
      BY <2>1 DEF MediaMsgs
    <3>2. m.len \in Nat
      BY <3>1, ChunkAssumption
    <3> QED BY <3>1, <3>2 DEF Types
  <2>4. m = [len |-> m.len, type |-> m.type, sid |-> m.sid, size |-> m.size]
    BY <2>1 DEF MediaMsgs
  <2>5. m \in Msg
    BY <2>3, <2>4 DEF Msg
  <2> QED BY <1>2, <2>2, <2>5
<1> QED BY <1>1, <1>2

LEMMA InitIInv == Init => IInv
<1> SUFFICES ASSUME Init PROVE IInv
  OBVIOUS
<1> USE ChunkAssumption DEF Init
<1>1. NoMsg \in Msg /\ NoHeader \in Header
  BY DEF NoMsg, NoHeader, Msg, Header, Types
<1>2. peer \in [Cids -> Peer] /\ cs \in [Cids -> Stream]
  BY <1>1 DEF Peer, Stream
<1>3. Typed
  <2>1. \A c \in Cids : cs[c].msg <= cs[c].header.len
    <3> SUFFICES ASSUME NEW c \in Cids PROVE cs[c].msg <= cs[c].header.len
      OBVIOUS
    <3>1. cs[c].msg = -1 /\ cs[c].header = NoHeader
      OBVIOUS
    <3>2. cs[c].header.len = 0
      BY <3>1 DEF NoHeader
    <3> QED BY <3>1, <3>2
  <2>0. \A c \in Cids : peer[c].msg.type = "setChunkSize" => peer[c].msg.size \in Sizes
    BY DEF NoMsg
  <2>2. refused \in BOOLEAN /\ breached \in BOOLEAN
    BY Zenon
  <2>3. out.got \in Header /\ begun \in 0 .. MaxMsgs
    BY <1>1
  <2> QED BY <1>2, <2>0, <2>1, <2>2, <2>3 DEF Typed
<1>4. 0 % TimeMod = 0 /\ ReadId(0) = 0
  BY ReadIdNat
<1>5. Linked
  BY <1>4 DEF Linked, SameHeader, SameMessage, NoHeader, NoMsg
<1>6. Intact /\ RefusedForCause /\ FramingKept
  BY <1>4 DEF Intact, RefusedForCause, FramingKept, NoHeader
<1> QED BY <1>3, <1>5, <1>6 DEF IInv

(***************************************************************************)
(* A chunk k that carries on message m on stream c: what the header is     *)
(* after it, with t and v the time and the difference the peer has now.    *)
(***************************************************************************)
Carries(k, c, m, t, v) ==
  /\ k.cid = c /\ ~Refuses(k)
  /\ k.field = Smaller(v, Escape) /\ (k.ext <=> v >= Escape)
  /\ k.n = Smaller(m.len - Got(c), peer_size)
  /\ HeaderAfter(k) \in Header
  /\ HeaderAfter(k).len = m.len /\ HeaderAfter(k).type = m.type
  /\ HeaderAfter(k).sid = ReadId(m.sid)
  /\ v < Escape => HeaderAfter(k).time = t % TimeMod /\ HeaderAfter(k).delta = v

\* The fields of a header, one by one.
LEMMA HeaderFields ==
  ASSUME Typed, NEW k, k.cid \in Cids
  PROVE  LET h == cs[k.cid].header IN
         /\ HeaderAfter(k).time = Time(k) % TimeMod
         /\ HeaderAfter(k).delta = IF k.fmt <= 2 THEN k.field ELSE h.delta
         /\ HeaderAfter(k).len = IF k.fmt <= 1 THEN k.len ELSE h.len
         /\ HeaderAfter(k).type = IF k.fmt <= 1 THEN k.type ELSE h.type
         /\ HeaderAfter(k).sid = IF k.fmt = 0 THEN ReadId(k.sid) ELSE h.sid
BY DEF HeaderAfter

LEMMA BeginCarries ==
  ASSUME IInv, InStep, NEW c \in Cids, NEW fmt \in 0 .. 3, NEW v \in 0 .. MaxTime,
         NEW m \in Carried(c), Begin(c, fmt, v, m)
  PROVE  /\ Got(c) = 0
         /\ Carries(Chunk(c, fmt, v, m, Smaller(m.len, peer_size)), c, m,
                    IF fmt = 0 THEN v ELSE (peer[c].time + v) % (2 * TimeMod), v)
<1> DEFINE k == Chunk(c, fmt, v, m, Smaller(m.len, peer_size))
           t == IF fmt = 0 THEN v ELSE (peer[c].time + v) % (2 * TimeMod)
           h == cs[c].header
<1>1. /\ SameHeader(c) /\ SameMessage(c) /\ cs[c] \in Stream /\ peer[c] \in Peer
      /\ Typed /\ h \in Header /\ m \in Msg /\ v \in Nat
  BY CarriedTypes, ChunkAssumption DEF IInv, Linked, Typed, Stream
<1>2. /\ k.cid = c /\ k.fmt = fmt /\ k.field = Smaller(v, Escape) /\ (k.ext <=> v >= Escape)
      /\ k.len = m.len /\ k.type = m.type /\ k.sid = m.sid /\ k.n = Smaller(m.len, peer_size)
  BY DEF Chunk
<1> HIDE DEF k
<1>3. peer[c].left = 0 /\ cs[c].msg = -1 /\ Got(c) = 0 /\ fmt \in Formats(c, m)
  BY <1>1 DEF Begin, SameMessage, Got
<1>4. ~Refuses(k)
  BY <1>1, <1>2, <1>3 DEF Refuses, Formats, SameMessage
<1>5. HeaderAfter(k).len = m.len /\ HeaderAfter(k).type = m.type
  <2>1. CASE fmt \in {0, 1}
    BY <1>1, <1>2, <2>1, HeaderFields
  <2>2. CASE fmt \in {2, 3}
    <3>1. m.len = peer[c].msg.len /\ m.type = peer[c].msg.type
      BY <1>3, <2>2 DEF Formats
    <3> QED BY <1>1, <1>2, <2>2, <3>1, HeaderFields DEF SameHeader
  <2> QED BY <2>1, <2>2
<1>6. HeaderAfter(k).sid = ReadId(m.sid)
  <2>1. CASE fmt = 0
    BY <1>1, <1>2, <2>1, HeaderFields
  <2>2. CASE fmt # 0 /\ m.sid = peer[c].msg.sid
    BY <1>1, <1>2, <2>2, HeaderFields DEF SameHeader
  <2>3. CASE fmt # 0 /\ m.sid # peer[c].msg.sid
    <3>1. c = Control /\ fmt = 1 /\ peer[c].fresh
      BY <1>3, <2>3 DEF Formats
    <3> QED BY <1>1, <2>3, <3>1, CarriedTypes DEF SameMessage
  <2> QED BY <2>1, <2>2, <2>3
<1>7. h.time \in Nat /\ h.delta \in Nat /\ Smaller(v, Escape) \in Nat /\ peer[c].time \in Nat
  <2>1. h.time \in Nat /\ h.delta \in Nat
    BY <1>1 DEF Header
  <2>2. Smaller(v, Escape) \in Nat
    BY <1>1, ChunkAssumption DEF Smaller
  <2>3. peer[c].time \in Nat
    BY <1>1 DEF Peer
  <2> QED BY <2>1, <2>2, <2>3
<1>8. HeaderAfter(k) \in Header
  <2>1. Time(k) \in Nat
    BY <1>2, <1>7 DEF Time
  <2>2. Time(k) % TimeMod \in 0 .. TimeMod - 1
    BY <2>1, ChunkAssumption, Division
  <2>3. HeaderAfter(k).delta \in Nat
    BY <1>1, <1>2, <1>7, HeaderFields
  <2>4. HeaderAfter(k).len \in Nat /\ HeaderAfter(k).type \in Types /\ HeaderAfter(k).sid \in Nat
    BY <1>1, <1>5, <1>6, ReadIdNat DEF Msg
  <2> QED BY <2>2, <2>3, <2>4 DEF HeaderAfter, Header, Types
<1>9. ASSUME v < Escape PROVE HeaderAfter(k).time = t % TimeMod /\ HeaderAfter(k).delta = v
  <2>1. k.field = v
    BY <1>1, <1>2, <1>9, ChunkAssumption DEF Smaller
  <2>2. HeaderAfter(k).delta = v
    <3>1. fmt = 3 => v = h.delta
      BY <1>1 DEF Begin, SameHeader
    <3> QED BY <1>1, <1>2, <2>1, <3>1, HeaderFields
  <2>3. CASE fmt = 0
    <3>1. Time(k) = t
      BY <1>2, <2>1, <2>3 DEF Time
    <3> QED BY <1>1, <1>2, <2>2, <3>1, HeaderFields
  <2>4. CASE fmt # 0
    <3>1. Time(k) = h.time + v
      BY <1>1, <1>2, <1>3, <2>1, <2>4 DEF Time, Begin, SameHeader
    <3>2. h.time = peer[c].time % TimeMod
      BY <1>1 DEF SameHeader
    <3>3. Time(k) % TimeMod = (peer[c].time + v) % TimeMod
      <4> DEFINE x == peer[c].time
      <4>1. x \in Nat /\ v \in Nat /\ TimeMod \in Nat \ {0}
        BY <1>1, <1>7, ChunkAssumption
      <4> HIDE DEF x
      <4>2. ((x % TimeMod) + v) % TimeMod = (x + v) % TimeMod
        BY <4>1, ModAdd
      <4> QED BY <3>1, <3>2, <4>2 DEF x
    <3>4. t % TimeMod = (peer[c].time + v) % TimeMod
      <4> DEFINE x == peer[c].time + v
      <4>1. x \in Nat /\ TimeMod \in Nat \ {0}
        BY <1>1, <1>7, ChunkAssumption
      <4> HIDE DEF x
      <4>2. (x % (2 * TimeMod)) % TimeMod = x % TimeMod
        BY <4>1, ModTwice
      <4> QED BY <2>4, <4>2 DEF x
    <3> QED BY <1>1, <1>2, <2>2, <3>3, <3>4, HeaderFields
  <2> QED BY <2>3, <2>4
<1>10. k.n = Smaller(m.len - Got(c), peer_size)
  BY <1>1, <1>2, <1>3 DEF Msg
<1> QED BY <1>2, <1>3, <1>4, <1>5, <1>6, <1>8, <1>9, <1>10 DEF Carries, k

LEMMA ContinueCarries ==
  ASSUME IInv, InStep, NEW c \in Cids, peer[c].left > 0
  PROVE  /\ Got(c) \in Nat /\ Got(c) = peer[c].msg.len - peer[c].left
         /\ peer[c].delta < Escape
         /\ Carries(Chunk(c, 3, peer[c].delta, peer[c].msg, Smaller(peer[c].left, peer_size)),
                    c, peer[c].msg, peer[c].time, peer[c].delta)
<1> DEFINE p == peer[c]
           m == peer[c].msg
           k == Chunk(c, 3, p.delta, m, Smaller(p.left, peer_size))
           h == cs[c].header
<1>1. /\ SameHeader(c) /\ SameMessage(c) /\ cs[c] \in Stream /\ p \in Peer
      /\ Typed /\ h \in Header
  BY DEF IInv, Linked, Typed, Stream
<1>2. m \in Msg /\ p.left \in Nat /\ p.delta \in Nat /\ m.len \in Nat /\ p.time \in Nat
  BY <1>1 DEF Peer, Msg
<1>3. /\ k.cid = c /\ k.fmt = 3 /\ k.field = Smaller(p.delta, Escape)
      /\ (k.ext <=> p.delta >= Escape) /\ k.n = Smaller(p.left, peer_size)
  BY DEF Chunk
<1> HIDE DEF k
<1>4. ~p.fresh /\ ~cs[c].fresh /\ cs[c].msg = m.len - p.left /\ cs[c].msg >= 0
  BY <1>1, <1>2 DEF SameMessage
<1>5. Got(c) \in Nat /\ Got(c) = m.len - p.left
  BY <1>2, <1>4 DEF Got
<1>6. ~Refuses(k)
  BY <1>3, <1>4 DEF Refuses
<1>7. HeaderAfter(k) = [h EXCEPT !.time = h.time % TimeMod]
  <2>1. Time(k) = h.time
    <3>1. cs[c].msg # -1
      BY <1>2, <1>4
    <3> QED BY <1>3, <3>1 DEF Time
  <2>2. HeaderAfter(k) = [time |-> h.time % TimeMod, delta |-> h.delta, len |-> h.len,
                          type |-> h.type, sid |-> h.sid]
    BY <1>3, <2>1 DEF HeaderAfter
  <2> QED BY <1>1, <2>2 DEF Header
<1>8. h.time % TimeMod = h.time
  <2>1. h.time \in 0 .. TimeMod - 1
    BY <1>1 DEF Header
  <2> QED BY <2>1, ChunkAssumption
<1>9. HeaderAfter(k) = h
  BY <1>1, <1>7, <1>8 DEF Header
<1>10. k.n = Smaller(m.len - Got(c), peer_size)
  BY <1>2, <1>3, <1>5
<1> QED BY <1>1, <1>3, <1>5, <1>6, <1>9, <1>10 DEF Carries, SameHeader, k

(***************************************************************************)
(* A chunk that carries on m, received whole: the receiver is in step with *)
(* the peer afterwards, or out of step for a reason it can name.           *)
(***************************************************************************)
LEMMA RecvChunkKeeps ==
  ASSUME IInv, InStep, NEW c \in Cids, NEW k, NEW m \in Msg,
         NEW t \in 0 .. 2 * TimeMod - 1, NEW v \in Nat,
         m.type = "setChunkSize" => m.size \in Sizes,
         Carries(k, c, m, t, v), Got(c) \in Nat, Got(c) <= m.len,
         peer' = [peer EXCEPT ![c] = [time |-> t, delta |-> v, msg |-> m, fresh |-> FALSE,
                                      left |-> m.len - Got(c) - k.n]],
         peer_size' = SizeAfter(m, m.len - Got(c) - k.n),
         begun' \in 0 .. MaxMsgs, breached' = breached,
         RecvChunk(k, m, t)
  PROVE  IInv'
<1> DEFINE h == HeaderAfter(k)
           left == m.len - Got(c) - k.n
           sum == Got(c) + Payload(k)
<1>1. /\ Typed /\ Linked /\ Intact /\ RefusedForCause /\ FramingKept
      /\ ret = "ok" /\ lost = "no" /\ ~breached
  BY DEF IInv, InStep, Linked
<1>2. /\ k.cid = c /\ ~Refuses(k) /\ k.field = Smaller(v, Escape) /\ (k.ext <=> v >= Escape)
      /\ k.n = Smaller(m.len - Got(c), peer_size) /\ h \in Header
      /\ h.len = m.len /\ h.type = m.type /\ h.sid = ReadId(m.sid)
      /\ v < Escape => h.time = t % TimeMod /\ h.delta = v
  BY DEF Carries
<1>3. /\ m.len \in Nat /\ m.type \in Types /\ m.sid \in Nat /\ m.size \in Nat
      /\ peer_size \in Nat /\ in_size \in Nat
  <2>1. m.len \in Nat /\ m.type \in Types /\ m.sid \in Nat /\ m.size \in Nat
    BY DEF Msg
  <2>2. peer_size \in Nat /\ in_size \in Nat
    BY <1>1, ChunkAssumption DEF Typed
  <2> QED BY <2>1, <2>2
<1> HIDE DEF h
<1>4. k.n \in Nat /\ left \in Nat
  BY <1>2, <1>3 DEF Smaller
<1>5. Payload(k) = Smaller(m.len - Got(c), in_size) /\ Payload(k) \in Nat /\ sum \in Nat /\ sum <= m.len
  BY <1>2, <1>3 DEF Payload, Smaller, h
<1>6. Completes(k) <=> sum = m.len
  BY <1>2 DEF Completes, h
<1>7. /\ cs' = [cs EXCEPT ![c] = [header |-> h, fresh |-> FALSE,
                                  msg |-> IF Completes(k) THEN -1 ELSE sum]]
      /\ in_size' = IF Accepts(k, m.size) THEN m.size ELSE in_size
      /\ refused' <=> (refused \/ (Completes(k) /\ m.type = "setChunkSize" /\ m.size < MinSize))
      /\ ret' = ret
  <2>1. cs' = [cs EXCEPT ![c] = [header |-> h, fresh |-> FALSE,
                                 msg |-> IF Completes(k) THEN -1 ELSE sum]]
    BY <1>2 DEF RecvChunk, h
  <2>2. refused' <=> (refused \/ (Completes(k) /\ m.type = "setChunkSize" /\ m.size < MinSize))
    BY <1>2 DEF RecvChunk, h
  <2> QED BY <2>1, <2>2 DEF RecvChunk
<1>8. /\ v >= Escape => lost' = "extended"
      /\ v < Escape /\ Payload(k) # k.n => lost' = "size"
      /\ v < Escape /\ Payload(k) = k.n => lost' = "no"
  <2>1. ~Extended(k)
    <3>1. k.field <= Escape
      BY <1>2, ChunkAssumption, SmallerNat
    <3>2. k.field \in Nat
      BY <1>2, ChunkAssumption, SmallerNat
    <3> QED BY <3>1, <3>2, ChunkAssumption DEF Extended
  <2>2. Escape \in Nat
    BY ChunkAssumption
  <2>3. CASE v >= Escape
    <3>1. k.ext /\ ~(v < Escape)
      BY <1>2, <2>2, <2>3
    <3>2. ~(k.ext <=> Extended(k))
      BY <2>1, <3>1
    <3> QED BY <3>1, <3>2 DEF RecvChunk
  <2>4. CASE v < Escape
    <3>1. ~k.ext /\ ~(v >= Escape)
      BY <1>2, <2>2, <2>4
    <3>2. k.ext <=> Extended(k)
      BY <2>1, <3>1
    <3> QED BY <3>1, <3>2, <2>4 DEF RecvChunk
  <2> QED BY <2>2, <2>3, <2>4
<1>9. Payload(k) # k.n => refused
  BY <1>1, <1>2, <1>5 DEF Linked
<1>10. FramingKept'
  <2>1. lost' = "size" => Payload(k) # k.n
    BY <1>8, ChunkAssumption
  <2> QED BY <1>7, <1>9, <2>1 DEF FramingKept
<1>11. RefusedForCause'
  <2>1. ret' = "ok" /\ ~breached'
    BY <1>1, <1>7
  <2> QED BY <2>1 DEF RefusedForCause
<1>12. Intact'
  <2> SUFFICES ASSUME lost' = "no" PROVE Intact'
    BY DEF Intact
  <2>1. h.time = t % TimeMod
    BY <1>2, <1>8, ChunkAssumption
  <2>2. CASE out' = out
    BY <1>1, <2>2 DEF Intact
  <2>3. CASE out' # out
    <3>1. out' = [got |-> h, meant |-> [time |-> t, delta |-> h.delta, len |-> m.len,
                                        type |-> m.type, sid |-> m.sid]]
      BY <2>3 DEF RecvChunk, h
    <3> QED BY <1>2, <2>1, <3>1 DEF Intact
  <2> QED BY <2>2, <2>3
<1>13. Typed'
  <2>1. peer' \in [Cids -> Peer]
    <3>1. [time |-> t, delta |-> v, msg |-> m, fresh |-> FALSE, left |-> left] \in Peer
      BY <1>4 DEF Peer
    <3> QED BY <1>1, <3>1 DEF Typed
  <2>2. cs' \in [Cids -> Stream] /\ \A d \in Cids : cs'[d].msg <= cs'[d].header.len
    <3> DEFINE u == IF Completes(k) THEN -1 ELSE sum
    <3>1. u \in Nat \cup {-1} /\ u <= m.len
      BY <1>3, <1>5
    <3> HIDE DEF u
    <3>2. [header |-> h, fresh |-> FALSE, msg |-> u] \in Stream
      BY <1>2, <3>1 DEF Stream
    <3>3. cs' = [cs EXCEPT ![c] = [header |-> h, fresh |-> FALSE, msg |-> u]]
      BY <1>7 DEF u
    <3> QED BY <1>1, <1>2, <3>1, <3>2, <3>3 DEF Typed
  <2>3. peer_size' \in Sizes \cup {FirstSize} /\ in_size' \in Sizes \cup {FirstSize}
    <3>1. peer_size' \in Sizes \cup {FirstSize}
      BY <1>1 DEF Typed, SizeAfter
    <3>2. Accepts(k, m.size) => m.size \in Sizes
      BY <1>2 DEF Accepts, h
    <3> QED BY <1>1, <1>7, <3>1, <3>2 DEF Typed
  <2>4. ret' \in {"ok", "failed", "socket"} /\ lost' \in {"no", "read", "extended", "size"}
    BY <1>1, <1>7, <1>8, ChunkAssumption
  <2>5. refused' \in BOOLEAN
    BY Zenon DEF RecvChunk
  <2>6. breached' \in BOOLEAN
    BY <1>1, Zenon DEF Typed
  <2>7. out'.got \in Header
    <3>1. out' = out \/ out'.got = h
      BY DEF RecvChunk, h
    <3> QED BY <1>1, <1>2, <3>1 DEF Typed
  <2>8. \A d \in Cids : peer'[d].msg.type = "setChunkSize" => peer'[d].msg.size \in Sizes
    BY <1>1 DEF Typed
  <2> QED BY <2>1, <2>2, <2>3, <2>4, <2>5, <2>6, <2>7, <2>8 DEF Typed
<1>14. InStep' => Linked'
  <2> SUFFICES ASSUME lost' = "no" PROVE Linked'
    BY DEF InStep
  <2>1. v < Escape /\ Payload(k) = k.n
    BY <1>8, ChunkAssumption
  <2>2. Completes(k) <=> left = 0
    BY <1>3, <1>4, <1>6, <2>1
  <2>3. SameHeader(c)' /\ SameMessage(c)'
    <3>1. /\ peer'[c].time = t /\ peer'[c].delta = v /\ peer'[c].msg = m /\ ~peer'[c].fresh
          /\ peer'[c].left = left
      BY <1>1 DEF Typed
    <3>2. cs'[c].header = h /\ ~cs'[c].fresh /\ cs'[c].msg = IF left = 0 THEN -1 ELSE sum
      BY <1>1, <1>7, <2>2 DEF Typed
    <3>3. SameHeader(c)'
      BY <1>2, <2>1, <3>1, <3>2 DEF SameHeader
    <3>4. sum = m.len - left
      BY <1>3, <1>4, <2>1
    <3> QED BY <1>5, <3>1, <3>2, <3>3, <3>4 DEF SameMessage
  <2>4. \A d \in Cids \ {c} : SameHeader(d)' /\ SameMessage(d)'
    <3> SUFFICES ASSUME NEW d \in Cids \ {c} PROVE SameHeader(d)' /\ SameMessage(d)'
      OBVIOUS
    <3>1. peer'[d] = peer[d] /\ cs'[d] = cs[d]
      BY <1>1, <1>7 DEF Typed
    <3>2. SameHeader(d) /\ SameMessage(d)
      BY <1>1 DEF Linked
    <3>3. SameHeader(d)'
      BY <3>1, <3>2 DEF SameHeader
    <3> QED BY <3>1, <3>2, <3>3 DEF SameMessage
  <2>5. refused' \/ peer_size' = in_size'
    <3>1. CASE Completes(k) /\ m.type = "setChunkSize"
      <4>1. peer_size' = m.size
        BY <2>2, <3>1 DEF SizeAfter
      <4>2. CASE m.size < MinSize
        BY <1>7, <3>1, <4>2
      <4>3. CASE ~(m.size < MinSize)
        <5>1. Accepts(k, m.size)
          BY <1>2, <1>3, <3>1, <4>3, ChunkAssumption DEF Accepts, h
        <5> QED BY <1>7, <4>1, <5>1
      <4> QED BY <4>2, <4>3
    <3>2. CASE ~(Completes(k) /\ m.type = "setChunkSize")
      <4>1. peer_size' = peer_size
        BY <2>2, <3>2 DEF SizeAfter
      <4>2. ~Accepts(k, m.size)
        BY <1>2, <3>2 DEF Accepts, h
      <4> QED BY <1>1, <1>7, <4>1, <4>2 DEF Linked
    <3> QED BY <3>1, <3>2
  <2>6. ~breached'
    BY <1>1
  <2> QED BY <2>3, <2>4, <2>5, <2>6 DEF Linked
<1> QED BY <1>10, <1>11, <1>12, <1>13, <1>14 DEF IInv

\* A chunk whose header or payload does not arrive leaves the receiver at a wrong place.
LEMMA ReadFailsKeeps ==
  ASSUME IInv, InStep, NEW c \in Cids, NEW k, NEW m \in Msg,
         NEW t \in 0 .. 2 * TimeMod - 1, NEW v \in Nat,
         m.type = "setChunkSize" => m.size \in Sizes,
         Carries(k, c, m, t, v), Got(c) \in Nat, Got(c) <= m.len,
         peer' = [peer EXCEPT ![c] = [time |-> t, delta |-> v, msg |-> m, fresh |-> FALSE,
                                      left |-> m.len - Got(c) - k.n]],
         peer_size' = SizeAfter(m, m.len - Got(c) - k.n),
         begun' \in 0 .. MaxMsgs, breached' = breached,
         HeaderFails(k) \/ PayloadFails(k)
  PROVE  IInv'
<1>1. Typed /\ Intact
  BY DEF IInv
<1>2. /\ k.cid = c /\ ~Refuses(k) /\ HeaderAfter(k) \in Header /\ HeaderAfter(k).len = m.len
      /\ k.n = Smaller(m.len - Got(c), peer_size)
  BY DEF Carries
<1>3. /\ lost' = "read" /\ ret' \in {"failed", "socket"}
      /\ in_size' = in_size /\ refused' = refused /\ out' = out
  BY <1>2 DEF HeaderFails, PayloadFails
<1>4. m.len - Got(c) - k.n \in Nat
  <2>1. m.len \in Nat /\ peer_size \in Nat
    BY <1>1, ChunkAssumption DEF Msg, Typed
  <2> QED BY <1>2, <2>1 DEF Smaller
<1>5. peer' \in [Cids -> Peer]
  <2>1. [time |-> t, delta |-> v, msg |-> m, fresh |-> FALSE, left |-> m.len - Got(c) - k.n] \in Peer
    BY <1>4 DEF Peer
  <2> QED BY <1>1, <2>1 DEF Typed
<1>6. cs' \in [Cids -> Stream] /\ \A d \in Cids : cs'[d].msg <= cs'[d].header.len
  <2>1. CASE HeaderFails(k)
    <3>1. cs' = [cs EXCEPT ![c].msg = Got(c)]
      BY <1>2, <2>1 DEF HeaderFails
    <3>2. Got(c) <= cs[c].header.len
      BY <1>1 DEF Typed, Got, Stream, Header
    <3>3. cs' \in [Cids -> Stream]
      BY <1>1, <3>1 DEF Typed, Stream
    <3> QED BY <1>1, <3>1, <3>2, <3>3 DEF Typed, Stream
  <2>2. CASE PayloadFails(k)
    <3>1. cs' = [cs EXCEPT ![c] = [header |-> HeaderAfter(k), fresh |-> FALSE, msg |-> Got(c)]]
      BY <1>2, <2>2 DEF PayloadFails
    <3>2. [header |-> HeaderAfter(k), fresh |-> FALSE, msg |-> Got(c)] \in Stream
      BY <1>2 DEF Stream
    <3> QED BY <1>1, <1>2, <3>1, <3>2 DEF Typed
  <2> QED BY <2>1, <2>2
<1>7. Typed'
  <2>1. peer_size' \in Sizes \cup {FirstSize} /\ in_size' \in Sizes \cup {FirstSize}
    BY <1>1, <1>3 DEF Typed, SizeAfter
  <2>2. refused' \in BOOLEAN /\ breached' \in BOOLEAN
    BY <1>1, <1>3, Zenon DEF Typed
  <2>3. out'.got \in Header
    BY <1>1, <1>3 DEF Typed
  <2>4. \A d \in Cids : peer'[d].msg.type = "setChunkSize" => peer'[d].msg.size \in Sizes
    BY <1>1 DEF Typed
  <2> QED BY <1>3, <1>5, <1>6, <2>1, <2>2, <2>3, <2>4 DEF Typed
<1> QED BY <1>3, <1>7 DEF IInv, InStep, Intact, RefusedForCause, FramingKept

LEMMA ReceiveKeeps ==
  ASSUME IInv, InStep, NEW c \in Cids, NEW k, NEW m \in Msg,
         NEW t \in 0 .. 2 * TimeMod - 1, NEW v \in Nat,
         m.type = "setChunkSize" => m.size \in Sizes,
         Carries(k, c, m, t, v), Got(c) \in Nat, Got(c) <= m.len,
         peer' = [peer EXCEPT ![c] = [time |-> t, delta |-> v, msg |-> m, fresh |-> FALSE,
                                      left |-> m.len - Got(c) - k.n]],
         peer_size' = SizeAfter(m, m.len - Got(c) - k.n),
         begun' \in 0 .. MaxMsgs, breached' = breached,
         Receive(k, m, t)
  PROVE  IInv'
<1>1. CASE RecvChunk(k, m, t)
  BY <1>1, RecvChunkKeeps
<1>2. CASE HeaderFails(k) \/ PayloadFails(k)
  BY <1>2, ReadFailsKeeps
<1> QED BY <1>1, <1>2 DEF Receive
-----------------------------------------------------------------------------
LEMMA BeginKeeps ==
  ASSUME IInv, InStep, NEW c \in Cids, NEW fmt \in 0 .. 3, NEW v \in 0 .. MaxTime,
         NEW m \in Carried(c), Begin(c, fmt, v, m)
  PROVE  IInv'
<1> DEFINE k == Chunk(c, fmt, v, m, Smaller(m.len, peer_size))
           t == IF fmt = 0 THEN v ELSE (peer[c].time + v) % (2 * TimeMod)
<1>1. m \in Msg /\ m.len \in Nat /\ (m.type = "setChunkSize" => m.size \in Sizes)
  BY CarriedTypes DEF Msg
<1>2. Got(c) = 0 /\ Carries(k, c, m, t, v)
  BY BeginCarries
<1>3. v \in Nat /\ t \in 0 .. 2 * TimeMod - 1
  <2>1. v \in Nat /\ v <= 2 * TimeMod - 1 /\ 2 * TimeMod \in Nat \ {0}
    BY ChunkAssumption
  <2>2. peer[c].time + v \in Nat
    <3>1. peer[c].time \in 0 .. 2 * TimeMod - 1
      BY DEF IInv, Typed, Peer
    <3> QED BY <2>1, <3>1
  <2> DEFINE x == peer[c].time + v
             N == 2 * TimeMod
  <2> HIDE DEF x, N
  <2>3. x \in Nat /\ N \in Nat \ {0}
    BY <2>1, <2>2 DEF x, N
  <2>4. x % N \in 0 .. N - 1
    BY <2>3, Division
  <2>5. (peer[c].time + v) % (2 * TimeMod) \in 0 .. 2 * TimeMod - 1
    BY <2>4 DEF x, N
  <2> QED BY <2>1, <2>5
<1>4. k.n = Smaller(m.len, peer_size)
  BY DEF Chunk
<1>5. /\ peer' = [peer EXCEPT ![c] = [time |-> t, delta |-> v, msg |-> m, fresh |-> FALSE,
                                      left |-> m.len - Smaller(m.len, peer_size)]]
      /\ peer_size' = SizeAfter(m, m.len - Smaller(m.len, peer_size))
      /\ begun' \in 0 .. MaxMsgs /\ breached' = breached /\ Receive(k, m, t)
  BY ChunkAssumption DEF Begin, IInv, Typed
<1> HIDE DEF k, t
<1>6. m.len - Got(c) - k.n = m.len - Smaller(m.len, peer_size)
  BY <1>1, <1>2, <1>4
<1>7. /\ peer' = [peer EXCEPT ![c] = [time |-> t, delta |-> v, msg |-> m, fresh |-> FALSE,
                                      left |-> m.len - Got(c) - k.n]]
      /\ peer_size' = SizeAfter(m, m.len - Got(c) - k.n)
  BY <1>5, <1>6
<1>8. Got(c) \in Nat /\ Got(c) <= m.len
  BY <1>1, <1>2
<1> QED BY <1>1, <1>2, <1>3, <1>5, <1>7, <1>8, ReceiveKeeps

LEMMA ContinueKeeps ==
  ASSUME IInv, InStep, NEW c \in Cids, Continue(c)
  PROVE  IInv'
<1> DEFINE m == peer[c].msg
           t == peer[c].time
           v == peer[c].delta
           k == Chunk(c, 3, v, m, Smaller(peer[c].left, peer_size))
<1>1. peer[c].left > 0
  BY DEF Continue
<1>2. /\ Got(c) \in Nat /\ Got(c) = m.len - peer[c].left /\ v < Escape
      /\ Carries(k, c, m, t, v)
  BY <1>1, ContinueCarries
<1>3. /\ m \in Msg /\ t \in 0 .. 2 * TimeMod - 1 /\ v \in Nat /\ m.len \in Nat
      /\ peer[c].left \in Nat /\ peer_size \in Nat
      /\ m.type = "setChunkSize" => m.size \in Sizes
  <2>1. peer[c] \in Peer /\ (m.type = "setChunkSize" => m.size \in Sizes) /\ peer_size \in Nat
    BY ChunkAssumption DEF IInv, Typed
  <2> QED BY <2>1 DEF Peer, Msg
<1>4. k.n = Smaller(peer[c].left, peer_size)
  BY DEF Chunk
<1>5. /\ peer' = [peer EXCEPT ![c].left = peer[c].left - Smaller(peer[c].left, peer_size)]
      /\ peer_size' = SizeAfter(m, peer[c].left - Smaller(peer[c].left, peer_size))
      /\ begun' = begun /\ breached' = breached /\ Receive(k, m, t)
  BY DEF Continue
<1> HIDE DEF k
<1>6. m.len - Got(c) - k.n = peer[c].left - Smaller(peer[c].left, peer_size)
  BY <1>2, <1>3, <1>4 DEF Smaller
<1>7. /\ peer' = [peer EXCEPT ![c] = [time |-> t, delta |-> v, msg |-> m, fresh |-> FALSE,
                                      left |-> m.len - Got(c) - k.n]]
      /\ peer_size' = SizeAfter(m, m.len - Got(c) - k.n)
  <2>1. ~peer[c].fresh
    BY <1>1 DEF IInv, Linked, SameMessage
  <2>2. peer \in [Cids -> Peer]
    BY DEF IInv, Typed
  <2>3. peer[c].fresh = FALSE
    BY <2>1, <2>2, Zenon DEF Peer
  <2>4. [peer[c] EXCEPT !.left = m.len - Got(c) - k.n]
          = [time |-> t, delta |-> v, msg |-> m, fresh |-> FALSE, left |-> m.len - Got(c) - k.n]
    <3> DEFINE p == peer[c]
               l == m.len - Got(c) - k.n
    <3>1. p \in Peer
      BY <2>2
    <3> HIDE DEF p, l
    <3>2. [p EXCEPT !.left = l] = [time |-> p.time, delta |-> p.delta, msg |-> p.msg,
                                   fresh |-> p.fresh, left |-> l]
      BY <3>1 DEF Peer
    <3> QED BY <2>3, <3>2 DEF p, l
  <2> QED BY <1>5, <1>6, <2>2, <2>4
<1>8. Got(c) <= m.len /\ begun' \in 0 .. MaxMsgs
  BY <1>2, <1>3, <1>5 DEF IInv, Typed
<1> HIDE DEF m, t, v
<1> QED BY <1>2, <1>3, <1>5, <1>7, <1>8, ReceiveKeeps

(***************************************************************************)
(* In step, the receiver knows of a breach what the peer knows: it refuses *)
(* the chunk.                                                              *)
(***************************************************************************)
LEMMA BreachKeeps ==
  ASSUME IInv, InStep, NEW c \in Cids, NEW fmt \in 0 .. 3, NEW m \in Carried(c), Breach(c, fmt, m)
  PROVE  IInv'
<1> DEFINE k == Chunk(c, fmt, 0, m, Smaller(m.len, peer_size))
<1>1. /\ Typed /\ Linked /\ SameHeader(c) /\ SameMessage(c) /\ peer[c] \in Peer /\ Intact
      /\ ret = "ok" /\ lost = "no"
  BY DEF IInv, InStep, Linked, Typed
<1>2. k.cid = c /\ k.fmt = fmt /\ k.len = m.len
  BY DEF Chunk
<1>3. Receive(k, m, 0) /\ breached' = TRUE /\ UNCHANGED <<peer, peer_size, begun>>
  BY DEF Breach
<1> HIDE DEF k
<1>4. Refuses(k)
  <2>1. CASE peer[c].fresh /\ fmt # 0 /\ ~(c = Control /\ fmt = 1)
    BY <1>1, <1>2, <2>1 DEF Refuses, SameMessage
  <2>2. CASE peer[c].left > 0 /\ (fmt = 0 \/ (fmt = 1 /\ m.len # peer[c].msg.len))
    <3>1. cs[c].msg # -1 /\ cs[c].header.len = peer[c].msg.len
      <4>1. peer[c].left # 0 /\ cs[c].header.len = peer[c].msg.len
        BY <1>1, <2>2 DEF Peer, SameHeader
      <4>2. cs[c].msg >= 0
        BY <1>1, <4>1 DEF SameMessage
      <4> QED BY <4>1, <4>2
    <3> QED BY <1>2, <2>2, <3>1 DEF Refuses
  <2> QED BY <2>1, <2>2 DEF Breach
<1>5. ret' = "failed" /\ lost' = "no" /\ UNCHANGED <<cs, in_size, refused, out>>
  BY <1>1, <1>3, <1>4 DEF Receive, HeaderFails, PayloadFails
<1>6. breached' \in BOOLEAN /\ breached'
  BY <1>3, Zenon
<1>7. Typed'
  <2>1. refused' \in BOOLEAN
    BY <1>1, <1>5, Zenon DEF Typed
  <2> QED BY <1>1, <1>3, <1>5, <1>6, <2>1 DEF Typed
<1> QED BY <1>1, <1>5, <1>6, <1>7 DEF IInv, InStep, Intact, RefusedForCause, FramingKept

LEMMA NextIInv == IInv /\ [Next]_vars => IInv'
<1> SUFFICES ASSUME IInv, [Next]_vars PROVE IInv'
  OBVIOUS
<1>1. CASE Next
  <2>1. InStep
    BY <1>1 DEF Next, InStep
  <2>2. ASSUME NEW c \in Cids, NEW fmt \in 0 .. 3, NEW m \in Carried(c), NEW v \in 0 .. MaxTime,
               Begin(c, fmt, v, m)
        PROVE  IInv'
    BY <2>1, <2>2, BeginKeeps
  <2>3. ASSUME NEW c \in Cids, NEW fmt \in 0 .. 3, NEW m \in Carried(c), Breach(c, fmt, m)
        PROVE  IInv'
    BY <2>1, <2>3, BreachKeeps
  <2>4. ASSUME NEW c \in Cids, Continue(c) PROVE IInv'
    BY <2>1, <2>4, ContinueKeeps
  <2> QED BY <1>1, <2>2, <2>3, <2>4 DEF Next
<1>2. CASE UNCHANGED vars
  BY <1>2 DEF vars, IInv, Typed, InStep, Linked, SameHeader, SameMessage, Intact,
              RefusedForCause, FramingKept
<1> QED BY <1>1, <1>2
-----------------------------------------------------------------------------
LEMMA TypedTypeOK == IInv => TypeOK
<1> SUFFICES ASSUME Typed PROVE TypeOK
  BY DEF IInv
<1>1. ASSUME NEW c \in Cids
      PROVE  /\ cs[c].header \in Header /\ cs[c].msg \in Nat \cup {-1}
             /\ peer[c].left \in Nat /\ peer[c].time \in 0 .. 2 * TimeMod - 1
  BY DEF Typed, Peer, Stream
<1>2. ASSUME NEW c \in Cids PROVE cs[c].fresh \in BOOLEAN
  <2>1. cs[c] \in Stream
    BY DEF Typed
  <2> QED BY <2>1, Zenon DEF Stream
<1>3. refused \in BOOLEAN /\ breached \in BOOLEAN
  BY Zenon DEF Typed
<1> QED BY <1>1, <1>2, <1>3 DEF Typed, TypeOK

(***************************************************************************)
(* TypeOK: the times RecvMessage keeps stay in 31 bits, the units got      *)
(* within the length of the message.                                       *)
(***************************************************************************)
THEOREM ChunkTypeOK == Spec => []TypeOK
BY InitIInv, NextIInv, TypedTypeOK, PTL DEF Spec

(***************************************************************************)
(* Intact: whatever the interlacing, the formats and the chunk sizes, what *)
(* RecvMessage hands out has the header the peer meant.                    *)
(***************************************************************************)
THEOREM ChunkIntact == Spec => []Intact
<1>1. IInv => Intact
  BY DEF IInv
<1> QED BY <1>1, InitIInv, NextIInv, PTL DEF Spec

(***************************************************************************)
(* RefusedForCause: ReadMessageHeader refuses the chunks that break the    *)
(* protocol and no others.                                                 *)
(***************************************************************************)
THEOREM ChunkRefusedForCause == Spec => []RefusedForCause
<1>1. IInv => RefusedForCause
  BY DEF IInv
<1> QED BY <1>1, InitIInv, NextIInv, PTL DEF Spec

(***************************************************************************)
(* FramingKept: ReadMessagePayload cuts the stream where the peer did,     *)
(* unless OnRecvMessage has refused a chunk size.                          *)
(***************************************************************************)
THEOREM ChunkFramingKept == Spec => []FramingKept
<1>1. IInv => FramingKept
  BY DEF IInv
<1> QED BY <1>1, InitIInv, NextIInv, PTL DEF Spec
-----------------------------------------------------------------------------
(***************************************************************************)
(* The refinement of Streams.                                              *)
(***************************************************************************)

\* A chunk received in step hands out the message it ends, if anybody wants it.
LEMMA ChunkHandsOut ==
  ASSUME Typed, Typed', Linked', NEW c \in Cids, NEW k, NEW m, NEW t,
         k.cid = c, peer'[c].msg = m, Got(c) \in Nat, Got(c) <= m.len, RecvChunk(k, m, t)
  PROVE  out'.got = IF peer'[c].left = 0 /\ Message(c)' # NoHeader THEN Message(c)' ELSE out.got
<1> DEFINE h == HeaderAfter(k)
           sum == Got(c) + Payload(k)
<1>1. SameHeader(c)' /\ SameMessage(c)' /\ cs'[c].header \in Header /\ peer'[c].left \in Nat
  BY DEF Linked, Typed, Stream, Peer
<1>2. cs'[c].header = h /\ cs'[c].msg = IF Completes(k) THEN -1 ELSE sum
  BY DEF Typed, RecvChunk
<1>3. h.len = m.len /\ h.type = m.type
  BY <1>1, <1>2 DEF SameHeader
<1>4. sum \in Nat
  <2>1. in_size \in Nat /\ m.len \in Nat
    BY <1>1, <1>2, <1>3, ChunkAssumption DEF Typed, Header
  <2> QED BY <1>3, <2>1 DEF Payload, Smaller
<1>5. Completes(k) <=> peer'[c].left = 0
  BY <1>1, <1>2, <1>4 DEF SameMessage
<1>6. Message(c)' = IF Wanted(m) THEN h ELSE NoHeader
  <2> DEFINE r == [time |-> peer'[c].time % TimeMod, delta |-> peer'[c].delta, len |-> m.len,
                   type |-> m.type, sid |-> ReadId(m.sid)]
  <2>1. Message(c)' = IF Wanted(m) THEN r ELSE NoHeader
    BY DEF Message, Wanted
  <2>2. r = h
    BY <1>1, <1>2 DEF SameHeader, Header
  <2> QED BY <2>1, <2>2
<1>7. out'.got = IF Completes(k) /\ Wanted(m) THEN h ELSE out.got
  BY <1>3 DEF RecvChunk, Wanted
<1>8. Wanted(m) => h # NoHeader
  BY <1>3 DEF Wanted, NoHeader
<1> HIDE DEF h
<1> QED BY <1>5, <1>6, <1>7, <1>8

\* Each kind of step Streams allows, in terms of the two ends.
LEMMA StreamSteps ==
  ASSUME Typed, Typed', InStep, InStep', NEW c \in Cids,
         \A d \in Cids \ {c} : Message(d)' = Message(d) /\ peer'[d].left = peer[d].left,
         out'.got = IF peer'[c].left = 0 /\ Message(c)' # NoHeader THEN Message(c)' ELSE out.got,
         peer[c].left # 0 => Message(c)' = Message(c)
  PROVE  Apart!Begin(c) \/ Apart!End(c) \/ UNCHANGED Apart!vars
<1> DEFINE open == {d \in Cids : peer[d].left > 0}
           openAfter == {d \in Cids : peer'[d].left > 0}
           message == [d \in Cids |-> Message(d)]
           messageAfter == [d \in Cids |-> Message(d)']
<1>1. peer[c].left \in Nat /\ peer'[c].left \in Nat
  BY DEF Typed, Peer
<1>2. messageAfter = [message EXCEPT ![c] = Message(c)']
  OBVIOUS
<1>3. openAfter = IF peer'[c].left = 0 THEN open \ {c} ELSE open \cup {c}
  BY <1>1
<1>4. c \in open <=> peer[c].left # 0
  BY <1>1
<1>5. (ret = "ok" /\ lost = "no") /\ (ret' = "ok" /\ lost' = "no")
  BY DEF InStep
<1>6. CASE peer[c].left = 0
  <2>1. c \notin open
    BY <1>4, <1>6
  <2>2. messageAfter[c] = Message(c)'
    OBVIOUS
  <2>3. CASE peer'[c].left = 0
    <3>1. openAfter = open
      BY <1>3, <2>1, <2>3
    <3>2. out'.got = IF messageAfter[c] = NoHeader THEN out.got ELSE messageAfter[c]
      BY <2>2, <2>3
    <3> QED BY <1>2, <1>5, <2>1, <2>2, <3>1, <3>2 DEF Apart!Begin, Apart!HandOut
  <2>4. CASE peer'[c].left # 0
    <3>1. openAfter = open \cup {c} /\ out'.got = out.got
      BY <1>3, <2>4
    <3> QED BY <1>2, <1>5, <2>1, <2>2, <3>1 DEF Apart!Begin
  <2> QED BY <2>3, <2>4
<1>7. CASE peer[c].left # 0
  <2>1. c \in open /\ message[c] = Message(c)
    BY <1>4, <1>7
  <2>2. messageAfter = message
    BY <1>7
  <2>3. CASE peer'[c].left = 0
    <3>1. openAfter = open \ {c}
      BY <1>3, <2>3
    <3>2. out'.got = IF message[c] = NoHeader THEN out.got ELSE message[c]
      BY <1>7, <2>1, <2>3
    <3> QED BY <1>5, <2>1, <2>2, <3>1, <3>2 DEF Apart!End, Apart!HandOut
  <2>4. CASE peer'[c].left # 0
    <3>1. openAfter = open /\ out'.got = out.got
      BY <1>3, <2>1, <2>4
    <3> QED BY <1>5, <2>2, <3>1 DEF Apart!vars
  <2> QED BY <2>3, <2>4
<1> QED BY <1>6, <1>7

\* A step in which the two ends stay in step receives a chunk of the message under way.
LEMMA InStepReceives ==
  ASSUME NEW k, NEW m, NEW t, Receive(k, m, t), InStep, InStep'
  PROVE  RecvChunk(k, m, t)
BY DEF Receive, HeaderFails, PayloadFails, InStep

LEMMA BeginApart ==
  ASSUME IInv, IInv', InStep, InStep', NEW c \in Cids, NEW fmt \in 0 .. 3,
         NEW v \in 0 .. MaxTime, NEW m \in Carried(c), Begin(c, fmt, v, m)
  PROVE  Apart!Begin(c) \/ Apart!End(c) \/ UNCHANGED Apart!vars
<1> DEFINE k == Chunk(c, fmt, v, m, Smaller(m.len, peer_size))
           t == IF fmt = 0 THEN v ELSE (peer[c].time + v) % (2 * TimeMod)
<1>1. Typed /\ Typed' /\ Linked'
  BY DEF IInv
<1>2. k.cid = c /\ Got(c) = 0 /\ m.len \in Nat
  BY BeginCarries, CarriedTypes DEF Chunk, Msg
<1>3. peer' = [peer EXCEPT ![c] = [time |-> t, delta |-> v, msg |-> m, fresh |-> FALSE,
                                   left |-> m.len - Smaller(m.len, peer_size)]]
  BY DEF Begin
<1>4. RecvChunk(k, m, t)
  <2>1. Receive(k, m, t)
    BY DEF Begin
  <2> HIDE DEF k, t
  <2> QED BY <2>1, InStepReceives
<1>5. peer[c].left = 0
  BY DEF Begin
<1> HIDE DEF k, t
<1>6. peer'[c].msg = m /\ \A d \in Cids \ {c} : peer'[d] = peer[d]
  BY <1>1, <1>3 DEF Typed
<1>7. out'.got = IF peer'[c].left = 0 /\ Message(c)' # NoHeader THEN Message(c)' ELSE out.got
  BY <1>1, <1>2, <1>4, <1>6, ChunkHandsOut
<1>8. \A d \in Cids \ {c} : Message(d)' = Message(d) /\ peer'[d].left = peer[d].left
  BY <1>6 DEF Message, Wanted
<1> QED BY <1>1, <1>5, <1>7, <1>8, StreamSteps

LEMMA ContinueApart ==
  ASSUME IInv, IInv', InStep, InStep', NEW c \in Cids, Continue(c)
  PROVE  Apart!Begin(c) \/ Apart!End(c) \/ UNCHANGED Apart!vars
<1> DEFINE p == peer[c]
           k == Chunk(c, 3, p.delta, p.msg, Smaller(p.left, peer_size))
           left == p.left - Smaller(p.left, peer_size)
<1>1. Typed /\ Typed' /\ Linked' /\ p \in Peer
  BY DEF IInv, Typed
<1>2. p.left > 0 /\ peer' = [peer EXCEPT ![c].left = left] /\ Receive(k, p.msg, p.time)
  BY DEF Continue
<1>3. k.cid = c /\ Got(c) \in Nat /\ Got(c) <= p.msg.len
  <2>1. Got(c) \in Nat /\ Got(c) = p.msg.len - p.left
    BY <1>2, ContinueCarries
  <2>2. p.msg.len \in Nat /\ p.left \in Nat
    BY <1>1 DEF Peer, Msg
  <2> QED BY <1>2, <2>1, <2>2 DEF Chunk
<1>4. RecvChunk(k, p.msg, p.time)
  <2> HIDE DEF k, p
  <2> QED BY <1>2, InStepReceives
<1> HIDE DEF k, left
<1>5. peer'[c].time = p.time /\ peer'[c].delta = p.delta /\ peer'[c].msg = p.msg
  BY <1>1, <1>2 DEF Typed, Peer
<1>6. \A d \in Cids \ {c} : peer'[d] = peer[d]
  BY <1>1, <1>2 DEF Typed
<1>7. Message(c)' = Message(c)
  BY <1>5 DEF Message, Wanted
<1>8. out'.got = IF peer'[c].left = 0 /\ Message(c)' # NoHeader THEN Message(c)' ELSE out.got
  <2> DEFINE m == p.msg
             t == p.time
  <2>1. peer'[c].msg = m /\ Got(c) <= m.len /\ RecvChunk(k, m, t)
    BY <1>3, <1>4, <1>5
  <2> HIDE DEF m, t
  <2> QED BY <1>1, <1>3, <2>1, ChunkHandsOut
<1>9. \A d \in Cids \ {c} : Message(d)' = Message(d) /\ peer'[d].left = peer[d].left
  BY <1>6 DEF Message, Wanted
<1> QED BY <1>1, <1>7, <1>8, <1>9, StreamSteps

LEMMA InitApart == Init => Apart!Init
<1> SUFFICES ASSUME Init PROVE Apart!Init
  OBVIOUS
<1>1. ASSUME NEW c \in Cids PROVE Message(c) = NoHeader /\ peer[c].left = 0
  <2>1. peer[c].msg = NoMsg /\ peer[c].left = 0
    BY DEF Init
  <2>2. ~Wanted(peer[c].msg)
    BY <2>1 DEF Wanted, NoMsg
  <2> QED BY <2>1, <2>2 DEF Message
<1>2. {c \in Cids : peer[c].left > 0} = {}
  BY <1>1
<1>3. out.got = NoHeader /\ ret = "ok" /\ lost = "no"
  BY DEF Init
<1> QED BY <1>1, <1>2, <1>3 DEF Apart!Init

LEMMA NextApart == IInv /\ IInv' /\ [Next]_vars => [Apart!Next]_(Apart!vars)
<1> SUFFICES ASSUME IInv, IInv', [Next]_vars PROVE [Apart!Next]_(Apart!vars)
  OBVIOUS
<1>1. CASE UNCHANGED vars
  BY <1>1 DEF vars, Apart!vars, Message, Wanted
<1>2. CASE Next /\ ~InStep'
  <2>1. ret = "ok" /\ lost = "no" /\ ~(ret' = "ok" /\ lost' = "no")
    BY <1>2 DEF Next, InStep
  <2> QED BY <2>1 DEF Apart!Next, Apart!Lose
<1>3. CASE Next /\ InStep'
  <2>1. InStep /\ ret = "ok" /\ lost = "no"
    BY <1>3 DEF Next, InStep
  <2>2. PICK c \in Cids :
          \/ \E fmt \in 0 .. 3 : \E m \in Carried(c) : \E v \in 0 .. MaxTime : Begin(c, fmt, v, m)
          \/ \E fmt \in 0 .. 3 : \E m \in Carried(c) : Breach(c, fmt, m)
          \/ Continue(c)
    BY <1>3 DEF Next
  <2>3. ~ \E fmt \in 0 .. 3 : \E m \in Carried(c) : Breach(c, fmt, m)
    <3>1. ~breached'
      BY <1>3 DEF IInv, Linked
    <3> QED BY <3>1 DEF Breach
  <2>4. Apart!Begin(c) \/ Apart!End(c) \/ UNCHANGED Apart!vars
    BY <1>3, <2>1, <2>2, <2>3, BeginApart, ContinueApart
  <2> QED BY <2>1, <2>4 DEF Apart!Next
<1> QED BY <1>1, <1>2, <1>3

(***************************************************************************)
(* StreamsApart: RecvMessage hands out each message of each chunk stream   *)
(* with its last chunk and as it was meant, as if the stream were alone.   *)
(***************************************************************************)
THEOREM ChunkStreamsApart == Spec => StreamsApart
BY InitIInv, NextIInv, InitApart, NextApart, PTL DEF Spec, StreamsApart, Apart!Safety
=============================================================================
