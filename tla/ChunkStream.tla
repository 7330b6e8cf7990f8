---------------------------- MODULE ChunkStream -----------------------------
(***************************************************************************)
(* protocol/rtmp_stack.cpp, the receiving half of Protocol: RecvMessage    *)
(* puts messages together from the chunks of a peer that interlaces them   *)
(* on several chunk streams, leaves out header fields (format 1 to 3) and  *)
(* changes its chunk size between two chunks.                              *)
(*                                                                         *)
(* The peer keeps to the protocol until it breaks off a message, or starts *)
(* a stream without a full header, as ReadMessageHeader tests for.  The    *)
(* socket is a stream of bytes: a receiver that takes a chunk for shorter  *)
(* or longer than it is stands at a wrong place for ever, and the model    *)
(* ends there.  Since nothing but the stream connects the two ends, an     *)
(* action sends one chunk and receives it.                                 *)
(*                                                                         *)
(* Payload is counted in units.  ResponseAckMessage does nothing.  Left    *)
(* out: other control messages, which OnRecvMessage decodes and forgets,   *)
(* and the two-byte and three-byte forms of a chunk stream id.             *)
(***************************************************************************)
EXTENDS Integers

CONSTANTS
  Cids,       \* chunk stream ids in use
  Control,    \* RTMP_CID_PROTOCOL_CONTROL
  Lengths,    \* payload lengths of media messages
  Sizes,      \* chunk sizes the peer may announce
  FirstSize,  \* RTMP_CONSTS_RTMP_PROTOCOL_CHUNK_SIZE
  MinSize,    \* RTMP_CONSTS_RTMP_MIN_CHUNK_SIZE
  Escape,     \* 0xffffff: a 3-byte time that announces an extended one
  ExtendedTimestamp,  \* RTMP_EXTENDED_TIMESTAMPE, 0xffffffff
  TimeMod,    \* 2^31, the range RecvMessage reduces times to
  MaxTime,    \* largest time or difference a peer sends
  MaxMsgs     \* messages the peer begins

ASSUME ChunkAssumption ==
  /\ Control \in Cids
  /\ Lengths \subseteq Nat
  /\ Sizes \subseteq Nat \ {0}
  /\ FirstSize \in Nat \ {0} /\ MinSize \in Nat \ {0} /\ MinSize <= FirstSize
  /\ Escape \in Nat \ {0} /\ TimeMod \in Nat \ {0} /\ Escape < TimeMod
  /\ ExtendedTimestamp \in Nat /\ Escape < ExtendedTimestamp
  /\ MaxTime \in Nat /\ MaxTime < 2 * TimeMod /\ MaxMsgs \in Nat

MediaMsgs == [len : Lengths, type : {"audio", "video"}, sid : {0, 1}, size : {0}]
SizeMsgs  == [len : {1}, type : {"setChunkSize"}, sid : {0}, size : Sizes]

VARIABLES
  peer,       \* per cid: the peer's header [time, delta, msg, fresh] and its units left
  peer_size,  \* the peer's chunk size
  cs,         \* per cid: ChunkStream [header, msg, fresh]; msg is -1 for nullptr, else units got
  in_size,    \* in_chunk_size_
  ret,        \* of RecvMessage: "ok", "failed" from a header, "socket" from a payload
  lost,       \* why the receiver stands at a wrong place: "no", "read", "extended", "size"
  breached,   \* the peer has broken the protocol
  refused,    \* a chunk size was announced and not accepted
  out,        \* the last message received, beside what the peer meant
  begun       \* messages begun

vars == <<peer, peer_size, cs, in_size, ret, lost, breached, refused, out, begun>>

NoHeader == [time |-> 0, delta |-> 0, len |-> 0, type |-> "none", sid |-> 0]
NoMsg    == [len |-> 0, type |-> "none", sid |-> 0, size |-> 0]

Init ==
  /\ peer = [c \in Cids |-> [time |-> 0, delta |-> 0, msg |-> NoMsg, fresh |-> TRUE, left |-> 0]]
  /\ cs = [c \in Cids |-> [header |-> NoHeader, msg |-> -1, fresh |-> TRUE]]
  /\ peer_size = FirstSize /\ in_size = FirstSize
  /\ ret = "ok" /\ lost = "no" /\ breached = FALSE /\ refused = FALSE
  /\ out = [got |-> NoHeader, meant |-> NoHeader]
  /\ begun = 0

Smaller(a, b) == IF a < b THEN a ELSE b
-----------------------------------------------------------------------------
(***************************************************************************)
(* The receiver.  A chunk is [cid, fmt, field, ext, len, type, sid, n]:    *)
(* the 3-byte time, whether 4 bytes of extended time follow the header,    *)
(* and n units of payload.                                                 *)
(***************************************************************************)

\* Mutant: every chunk stream must begin with format 0.
RefusesFreshControl(k) ==
  LET c == cs[k.cid]
  IN  \/ c.fresh /\ k.fmt # 0
      \/ c.msg # -1 /\ k.fmt = 0
      \/ c.msg # -1 /\ k.fmt = 1 /\ c.header.len # k.len

(***************************************************************************)
(* The ERROR_RTMP_CHUNK_START tests of ReadMessageHeader: a fresh stream   *)
(* begins with format 0 (librtmp's control stream may begin with 1), and a *)
(* message under way is neither begun anew nor given another length.       *)
(***************************************************************************)
Refuses(k) ==
  LET c == cs[k.cid]
  IN  \/ c.fresh /\ k.fmt # 0 /\ ~(k.cid = Control /\ k.fmt = 1)
      \/ c.msg # -1 /\ k.fmt = 0
      \/ c.msg # -1 /\ k.fmt = 1 /\ c.header.len # k.len

\* extended_timestamp: 3 bytes never reach the limit, so the branch that reads 4 more is dead.
Extended(k) == k.field >= ExtendedTimestamp

\* Mutant: a chunk of format 3 always adds the difference.
TimeEveryChunk(k) ==
  LET h == cs[k.cid].header
  IN  CASE k.fmt = 0 -> k.field
        [] k.fmt \in {1, 2} -> h.time + k.field
        [] k.fmt = 3 -> h.time + h.delta

\* The time a header stands for, before it is reduced.
Time(k) ==
  LET h == cs[k.cid].header
  IN  CASE k.fmt = 0 -> k.field
        [] k.fmt \in {1, 2} -> h.time + k.field
        [] k.fmt = 3 -> IF cs[k.cid].msg = -1 THEN h.time + h.delta ELSE h.time

\* A message stream id below 256 as it is read: written little-endian, read big-endian.
ReadId(sid) == sid * 16777216

\* ReadMessageHeader: the header after chunk k.
HeaderAfter(k) ==
  LET h == cs[k.cid].header
  IN  [time  |-> Time(k) % TimeMod,
       delta |-> IF k.fmt <= 2 THEN k.field ELSE h.delta,
       len   |-> IF k.fmt <= 1 THEN k.len ELSE h.len,
       type  |-> IF k.fmt <= 1 THEN k.type ELSE h.type,
       sid   |-> IF k.fmt = 0 THEN ReadId(k.sid) ELSE h.sid]

Got(c) == IF cs[c].msg = -1 THEN 0 ELSE cs[c].msg

\* Mutant: the chunk size announced by the peer is not used.
PayloadFirstSize(k) == Smaller(HeaderAfter(k).len - Got(k.cid), FirstSize)

\* ReadMessagePayload: the units it takes from the socket.
Payload(k) == Smaller(HeaderAfter(k).len - Got(k.cid), in_size)

\* Mutant: a message ends with a chunk that is not full.
CompletesShort(k) == Payload(k) < in_size

\* k completes a message.
Completes(k) == Got(k.cid) + Payload(k) = HeaderAfter(k).len

\* OnRecvMessage of the message that k completes: accept the chunk size or drop the message.
Accepts(k, size) ==
  Completes(k) /\ HeaderAfter(k).type = "setChunkSize" /\ size >= MinSize

(***************************************************************************)
(* RecvInterlacedMessage reads chunk k, the next on the socket; m is the   *)
(* message k belongs to and t its time.  A completed message that is not   *)
(* empty and not dropped is handed out.                                    *)
(***************************************************************************)
RecvChunk(k, m, t) ==
  LET h     == HeaderAfter(k)
      drops == h.type = "setChunkSize" /\ m.size < MinSize
  IN  /\ lost' = IF ~(k.ext <=> Extended(k)) THEN "extended"
                 ELSE IF Payload(k) # k.n THEN "size" ELSE "no"
      /\ cs' = [cs EXCEPT ![k.cid] =
                  [header |-> h, fresh |-> FALSE,
                   msg    |-> IF Completes(k) THEN -1 ELSE Got(k.cid) + Payload(k)]]
      /\ in_size' = IF Accepts(k, m.size) THEN m.size ELSE in_size
      /\ refused' = (refused \/ (Completes(k) /\ drops))
      /\ out' = IF Completes(k) /\ h.len > 0 /\ ~drops
                THEN [got   |-> h,
                      meant |-> [time |-> t, delta |-> h.delta, len |-> m.len,
                                 type |-> m.type, sid |-> m.sid]]
                ELSE out
      /\ UNCHANGED ret

(***************************************************************************)
(* ReadMessageHeader fails: a test refuses the chunk, or the rest of the   *)
(* header does not arrive, when the stream has its message already.  What  *)
(* the last test finds stored is left out: a refused chunk ends the        *)
(* session.  RecvInterlacedMessage makes 1 of every such error.            *)
(***************************************************************************)
HeaderFails(k) ==
  /\ Refuses(k) \/ k.fmt # 3
  /\ ret' = "failed"
  /\ lost' = IF Refuses(k) THEN lost ELSE "read"
  /\ cs' = IF Refuses(k) THEN cs ELSE [cs EXCEPT ![k.cid].msg = Got(k.cid)]
  /\ UNCHANGED <<in_size, refused, out>>

\* A timeout or an interrupt inside the payload: the next call takes what follows for a header.
PayloadFails(k) ==
  /\ ~Refuses(k) /\ Payload(k) > 0
  /\ ret' = "socket" /\ lost' = "read"
  /\ cs' = [cs EXCEPT ![k.cid] = [header |-> HeaderAfter(k), fresh |-> FALSE, msg |-> Got(k.cid)]]
  /\ UNCHANGED <<in_size, refused, out>>

\* RecvMessage, as far as chunk k.
Receive(k, m, t) ==
  \/ ~Refuses(k) /\ RecvChunk(k, m, t)
  \/ HeaderFails(k)
  \/ PayloadFails(k)
-----------------------------------------------------------------------------
(***************************************************************************)
(* The peer.                                                               *)
(***************************************************************************)

\* The formats that may begin message m on stream c at difference d, for a header the peer sent before.
Formats(c, m) ==
  LET p == peer[c]
  IN  {0} \cup (IF p.fresh THEN (IF c = Control THEN {1} ELSE {})
                ELSE (IF m.sid = p.msg.sid THEN {1} ELSE {})
                  \cup (IF m.sid = p.msg.sid /\ m.len = p.msg.len /\ m.type = p.msg.type
                        THEN {2, 3} ELSE {}))

Chunk(c, fmt, v, m, n) ==
  [cid |-> c, fmt |-> fmt, field |-> Smaller(v, Escape), ext |-> v >= Escape,
   len |-> m.len, type |-> m.type, sid |-> m.sid, n |-> n]

\* The peer's size changes with the last unit of the message that announces it.
SizeAfter(m, left) == IF m.type = "setChunkSize" /\ left = 0 THEN m.size ELSE peer_size

(***************************************************************************)
(* The first chunk of message m.  v is the time (format 0) or difference;  *)
(* format 3 repeats the difference, which after format 0 is the time.      *)
(***************************************************************************)
Begin(c, fmt, v, m) ==
  LET p == peer[c]
      n == Smaller(m.len, peer_size)
      t == IF fmt = 0 THEN v ELSE (p.time + v) % (2 * TimeMod)
  IN  /\ peer[c].left = 0
      /\ begun < MaxMsgs
      /\ fmt \in Formats(c, m)
      /\ fmt = 3 => v = p.delta
      /\ begun' = begun + 1
      /\ peer' = [peer EXCEPT ![c] = [time |-> t, delta |-> v, msg |-> m, fresh |-> FALSE,
                                      left |-> m.len - n]]
      /\ peer_size' = SizeAfter(m, m.len - n)
      /\ Receive(Chunk(c, fmt, v, m, n), m, t)
      /\ UNCHANGED breached

\* The next chunk of a message under way.
Continue(c) ==
  LET p == peer[c]
      n == Smaller(p.left, peer_size)
  IN  /\ p.left > 0
      /\ peer' = [peer EXCEPT ![c].left = p.left - n]
      /\ peer_size' = SizeAfter(p.msg, p.left - n)
      /\ Receive(Chunk(c, 3, p.delta, p.msg, n), p.msg, p.time)
      /\ UNCHANGED <<begun, breached>>

\* The peer starts a stream without its fields, or another message inside one under way.
Breach(c, fmt, m) ==
  /\ \/ peer[c].fresh /\ fmt # 0 /\ ~(c = Control /\ fmt = 1)
     \/ peer[c].left > 0 /\ (fmt = 0 \/ (fmt = 1 /\ m.len # peer[c].msg.len))
  /\ breached' = TRUE
  /\ Receive(Chunk(c, fmt, 0, m, Smaller(m.len, peer_size)), m, 0)
  /\ UNCHANGED <<peer, peer_size, begun>>

\* Chunk sizes are announced on the control stream, media travel on the others.
Carried(c) == IF c = Control THEN SizeMsgs ELSE MediaMsgs

Next ==
  /\ ret = "ok" /\ lost = "no"
  /\ \/ \E c \in Cids, fmt \in 0 .. 3 : \E m \in Carried(c) :
          \/ \E v \in 0 .. MaxTime : Begin(c, fmt, v, m)
          \/ Breach(c, fmt, m)
     \/ \E c \in Cids : Continue(c)

Spec == Init /\ [][Next]_vars
-----------------------------------------------------------------------------
Header == [time : 0 .. TimeMod - 1, delta : Nat, len : Nat, type : {"none", "audio", "video", "setChunkSize"},
           sid : Nat]

TypeOK ==
  /\ \A c \in Cids : /\ cs[c].header \in Header
                     /\ cs[c].msg \in Nat \cup {-1}
                     /\ cs[c].msg <= cs[c].header.len
                     /\ cs[c].fresh \in BOOLEAN
                     /\ peer[c].left \in Nat /\ peer[c].time \in 0 .. 2 * TimeMod - 1
  /\ peer_size \in Sizes \cup {FirstSize}
  /\ in_size \in Sizes \cup {FirstSize}
  /\ ret \in {"ok", "failed", "socket"}
  /\ lost \in {"no", "read", "extended", "size"}
  /\ refused \in BOOLEAN /\ breached \in BOOLEAN
  /\ out.got \in Header
  /\ begun \in 0 .. MaxMsgs

(***************************************************************************)
(* A message handed out has the header the peer meant it to have, time     *)
(* reduced, however its chunks were interlaced with other streams' and     *)
(* whichever fields they left out.                                         *)
(***************************************************************************)
Intact ==
  LET g == out.got
      m == out.meant
  IN  lost = "no" =>
        /\ g.time = m.time % TimeMod
        /\ g.len = m.len /\ g.type = m.type
        /\ g.sid = ReadId(m.sid)

(***************************************************************************)
(* A chunk is refused for breaking the protocol and only for that, whoever *)
(* else's chunks came in between: what the receiver knows of a stream, its *)
(* message under way and whether it is fresh, is what the peer did there.  *)
(***************************************************************************)
RefusedForCause == lost # "read" => (ret = "failed" <=> breached)

(***************************************************************************)
(* The receiver cuts the stream where the peer did, also when the chunk    *)
(* size changes in the middle of another stream's message - unless it has  *)
(* refused a size that the peer goes on to use.                            *)
(***************************************************************************)
FramingKept == lost = "size" => refused

(***************************************************************************)
(* The message last begun on stream c as its receiver should see it; an    *)
(* empty one and a chunk size too small are for nobody.                    *)
(***************************************************************************)
Wanted(m) == m.len > 0 /\ ~(m.type = "setChunkSize" /\ m.size < MinSize)

Message(c) ==
  LET p == peer[c]
  IN  IF Wanted(p.msg)
      THEN [time |-> p.time % TimeMod, delta |-> p.delta, len |-> p.msg.len,
            type |-> p.msg.type, sid |-> ReadId(p.msg.sid)]
      ELSE NoHeader

Apart ==
  INSTANCE Streams WITH
    Nothing <- NoHeader,
    message <- [c \in Cids |-> Message(c)],
    open    <- {c \in Cids : peer[c].left > 0},
    out     <- out.got,
    state   <- IF ret = "ok" /\ lost = "no" THEN "up" ELSE "lost"

(***************************************************************************)
(* The receiver implements one channel per chunk stream: each message is   *)
(* handed out with its last chunk, none is left over, handed out early or  *)
(* for another stream's.                                                   *)
(***************************************************************************)
StreamsApart == Apart!Safety
=============================================================================
