------------------------------- MODULE Packets ------------------------------
(***************************************************************************)
(* protocol/rtmp_packet.cpp and Protocol::DecodeMessage: the packets the   *)
(* server writes, read by a client, and the requests of a client, whole or *)
(* broken off at any byte, read by the server.                             *)
(*                                                                         *)
(* A payload is a sequence of bytes; the names of commands and properties  *)
(* are told apart by one byte instead of being spelled.  A packet is       *)
(* decoded by a list of reads, one after another, each of which may end    *)
(* it; its fields are the values read.                                     *)
(***************************************************************************)
EXTENDS Amf0

CONSTANTS
  Numbers,   \* numbers in use, as their eight bytes
  Texts      \* strings in use (stream names, publish types, descriptions)

One  == <<1, 0, 0, 0, 0, 0, 0, 0>>   \* 1.0
Zero == <<0, 0, 0, 0, 0, 0, 0, 0>>

ASSUME PacketAssumption ==
  /\ Base > 26
  /\ Numbers \subseteq [1 .. 8 -> 0 .. Base - 1] /\ One \in Numbers
  /\ \A s \in Texts : s \in Seq(0 .. Base - 1)

\* Command names.
Connect       == <<1>>
Result        == <<2>>
CommandError  == <<3>>
ReleaseStream == <<4>>
FCPublish     == <<5>>
FCUnpublish   == <<6>>
Publish       == <<7>>
CreateStream  == <<8>>
OnStatus      == <<9>>
OnFCPublish   == <<10>>
OnMetaData    == <<11>>
SetDataFrame  == <<12>>
Play          == <<13>>
Unknown       == <<14>>
\* Property names and the default of PublishPacket::type.
TcUrl   == <<1>>
Code    == <<2>>
Data    == <<3>>
Version == <<4>>
Live    == <<1, 2>>

FMLE == {ReleaseStream, FCPublish, FCUnpublish}

\* UserEventType.
STREAM_BEGIN   == <<0, 0>>
SET_BUFFER_LEN == <<0, 3>>
FMS_EVENT0     == <<0, 26>>

\* An integer field, by its bytes.
Raw(bytes) == [marker |-> -2, bytes |-> bytes]

VARIABLES
  msg,   \* the message on its way: its type, payload, and what was meant by it
  got,   \* what its receiver made of it
  phase  \* "idle", "sent" or "read"

vars == <<msg, got, phase>>
-----------------------------------------------------------------------------
(***************************************************************************)
(* Packets the server writes.  GetSize decides the buffer, the payload     *)
(* sent is that buffer; Packet::Encode does not ask whether it was filled. *)
(***************************************************************************)
SumSize(vals) == FoldLeft(LAMBDA n, v : n + TotalSize(v), 0, vals)
Written(vals) == FoldLeft(LAMBDA b, v : b \o WriteAny(v), <<>>, vals)

Packet(type, fields, size, bytes) ==
  [from |-> "server", type |-> type, fields |-> fields, size |-> size, bytes |-> bytes]

\* A packet of AMF0 values: GetSize adds up what EncodePacket writes.
AmfPacket(type, f) == Packet(type, f, SumSize(f), Written(f))

ConnectAppRes(props, info) ==
  AmfPacket("command", <<String(Result), Number(One), Object(props), Object(info)>>)

FMLEStartRes(tid) ==
  AmfPacket("command", <<String(Result), Number(tid), Null, Undefined>>)

CreateStreamRes(tid, sid) ==
  AmfPacket("command", <<String(Result), Number(tid), Null, Number(sid)>>)

\* Mutant: the Null written for args is not counted.
OnStatusCallShort(name, data) ==
  LET f == <<String(name), Number(Zero), Null, Object(data)>>
  IN  Packet("command", f, SumSize(<<f[1], f[2], f[4]>>), Written(f))

OnStatusCall(name, data) ==
  AmfPacket("command", <<String(name), Number(Zero), Null, Object(data)>>)

OnStatusData(data) ==
  AmfPacket("data", <<String(OnStatus), Object(data)>>)

SetChunkSize(n)     == Packet("setChunkSize", <<Raw(n)>>, 4, n)
SetWindowAckSize(n) == Packet("windowAck", <<Raw(n)>>, 4, n)
SetPeerBandwidth(n, limit) == Packet("peerBandwidth", <<Raw(n), Raw(limit)>>, 5, n \o limit)

UserControlSize(event) ==
  2 + (IF event = FMS_EVENT0 THEN 1 ELSE 4) + (IF event = SET_BUFFER_LEN THEN 4 ELSE 0)

UserControl(event, data) ==
  Packet("userControl", <<Raw(event), Raw(data)>>, UserControlSize(event), event \o data)

\* The properties of the answer to connect: built with Set, one of them an array.
ConnectProps(n, s) ==
  Set(Set(Set(<<>>, Code, String(s)), Version, Number(n)),
      Data, EcmaArray(Set(<<>>, Version, String(s))))

StatusData(s) == Set(<<>>, Code, String(s))

Words == {<<0, 0, 0, 1>>, <<0, 0, 1, 0>>}

ServerPackets ==
  {ConnectAppRes(ConnectProps(n, s), <<>>) : n \in Numbers, s \in Texts}
  \cup {FMLEStartRes(n) : n \in Numbers}
  \cup {CreateStreamRes(n, One) : n \in Numbers}
  \cup {OnStatusCall(c, StatusData(s)) : c \in {OnStatus, OnFCPublish}, s \in Texts}
  \cup {OnStatusData(StatusData(s)) : s \in Texts}
  \cup {SetChunkSize(n) : n \in Words} \cup {SetWindowAckSize(n) : n \in Words}
  \cup {SetPeerBandwidth(n, <<2>>) : n \in Words}
  \cup {UserControl(STREAM_BEGIN, n) : n \in Words}
-----------------------------------------------------------------------------
(***************************************************************************)
(* Decoding.                                                               *)
(***************************************************************************)
Step(read)   == [read |-> read, old |-> <<>>, optional |-> FALSE]
Optional(read) == [Step(read) EXCEPT !.optional = TRUE]
Default(s)   == [Step("string") EXCEPT !.old = s]

ConnectAppDecode      == <<Step("string"), Step("number"), Step("object"), Optional("dropped")>>
FMLEStartDecode       == <<Step("string"), Step("number"), Step("any"), Step("string")>>
CreateStreamDecode    == <<Step("string"), Step("number"), Step("any")>>
PublishDecode         == <<Step("string"), Step("number"), Step("any"), Step("string"),
                           Default(Live)>>
\* Mutant: the start and the duration of a play request must be there.
PlayDecodeStrict      == <<Step("string"), Step("number"), Step("any"), Step("string"),
                           Step("number"), Step("number"), Optional("reset")>>
PlayDecode            == <<Step("string"), Step("number"), Step("any"), Step("string"),
                           Optional("number"), Optional("number"), Optional("reset")>>
ConnectAppResDecode   == <<Step("string"), Step("number"), Step("dropped"), Step("object")>>
CreateStreamResDecode == <<Step("string"), Step("number"), Step("any"), Step("number")>>

ReadField(b, at, s) ==
  CASE s.read = "string"    -> ReadString(b, at, s.old)
    [] s.read = "number"    -> ReadNumber(b, at)
    [] OTHER -> ReadAny(b, at)

\* What is kept of a value that was read: an object where one is required or
\* wanted.  The guard of PlayPacket frees the single value of reset as an array.
Kept(s, r) ==
  CASE s.read = "object" /\ ~IsObject(r.v)  -> Fail("decode")
    [] s.read = "dropped" /\ ~IsObject(r.v) -> Ok(<<>>, r.at)
    [] s.read = "reset" -> Fail("abort")
    [] OTHER -> Ok(<<r.v>>, r.at)

RECURSIVE Fields(_, _, _, _)
Fields(b, at, steps, vals) ==
  IF steps = <<>> \/ (Head(steps).optional /\ Empty(b, at))
  THEN Ok(vals, at)
  ELSE Then(ReadField(b, at, Head(steps)), LAMBDA r :
         Then(Kept(Head(steps), r), LAMBDA k :
           Fields(b, k.at, Tail(steps), vals \o k.v)))

\* A name, or @setDataFrame and a name; an array is copied into the object.
MetadataName(b) ==
  Then(ReadString(b, 1, OnMetaData), LAMBDA first :
    IF first.v.bytes = SetDataFrame THEN ReadString(b, first.at, SetDataFrame) ELSE first)

Metadata(v) ==
  CASE IsObject(v)    -> v
    [] IsEcmaArray(v) -> Object(Copy(<<>>, v.props))
    [] OTHER          -> Object(<<>>)

OnMetadataDecode(b) ==
  Then(MetadataName(b), LAMBDA name :
    IF name.v.bytes # OnMetaData THEN Fail("decode")
    ELSE As(ReadAny(b, name.at), LAMBDA v : <<name.v, Metadata(v)>>))

SetChunkSizeDecode(b) ==
  IF Require(b, 1, 4) THEN Ok(<<Raw(SubSeq(b, 1, 4))>>, 5) ELSE Fail("decode")

\* The length of a buffer is read as one byte, in place of the stream's id.
UserControlDecode(b) ==
  LET event == SubSeq(b, 1, 2)
      width == IF event = FMS_EVENT0 THEN 1 ELSE 4
      more  == IF event = SET_BUFFER_LEN THEN 4 ELSE 0
  IN  IF Require(b, 1, 2) /\ Require(b, 3, width + more)
      THEN Ok(<<Raw(event), Raw(IF more = 0 THEN SubSeq(b, 3, 2 + width) ELSE SubSeq(b, 7, 7))>>,
              3 + width + more)
      ELSE Fail("decode")

Made(kind, r) == [ret |-> r.ret, kind |-> kind, vals |-> IF r.ret = "ok" THEN r.v ELSE <<>>]

\* The packet made for a command.  An answer has no request it could belong to
\* (requests_ is empty); a command that is not known is a bare packet.
KindOf(name) ==
  CASE name \in {Result, CommandError}     -> "none"
    [] name = Connect                      -> "connect"
    [] name \in FMLE                       -> "fmle"
    [] name = CreateStream                 -> "createStream"
    [] name = Publish                      -> "publish"
    [] name \in {OnMetaData, SetDataFrame} -> "metadata"
    [] name = Play                         -> "play"
    [] OTHER                               -> "packet"

StepsOf(kind) ==
  CASE kind = "connect"      -> ConnectAppDecode
    [] kind = "fmle"         -> FMLEStartDecode
    [] kind = "createStream" -> CreateStreamDecode
    [] kind = "publish"      -> PublishDecode
    [] kind = "play"         -> PlayDecode
    [] kind = "packet"       -> <<>>

DecodePacket(kind, b) ==
  CASE kind = "none"     -> Fail("decode")
    [] kind = "metadata" -> OnMetadataDecode(b)
    [] OTHER             -> Fields(b, 1, StepsOf(kind), <<>>)

DecodeCommand(b) ==
  LET command == ReadString(b, 1, <<>>)
      kind    == KindOf(command.v.bytes)
  IN  IF command.ret = "ok" THEN Made(kind, DecodePacket(kind, b)) ELSE Made("none", command)

\* IsUserControlMessage answers true for every type that gets so far.
DecodeMessage(type, b) ==
  CASE b = <<>> \/ type \in {"amf3", "data"} -> Made("none", Fail("decode"))
    [] b # <<>> /\ type = "command" -> DecodeCommand(b)
    [] b # <<>> /\ type = "setChunkSize" -> Made("setChunkSize", SetChunkSizeDecode(b))
    [] OTHER -> Made("userControl", UserControlDecode(b))
-----------------------------------------------------------------------------
(***************************************************************************)
(* The client.  A request is what it writes, and the kind and values the   *)
(* server should come to know (meant): a metadata array becomes an object, *)
(* an empty publish type means live, other arguments of connect than       *)
(* objects are ignored.  Kind "none" is refused: data messages, answers    *)
(* and window sizes, which are taken for a user control message.           *)
(***************************************************************************)
Request(type, kind, fields, meant) ==
  [from |-> "client", type |-> type, kind |-> kind, fields |-> fields, meant |-> meant]

Same(type, kind, fields) == Request(type, kind, fields, fields)

Urls == {Set(<<>>, TcUrl, String(s)) : s \in Texts}
        \cup {Set(Set(<<>>, TcUrl, String(s)), Data, Object(Set(<<>>, Code, Boolean(TRUE)))) : s \in Texts}

Requests ==
  {Same("command", "connect", <<String(Connect), Number(One), Object(ps)>>) : ps \in Urls}
  \cup {Same("command", "connect", <<String(Connect), Number(One), Object(ps), Object(ps)>>) : ps \in Urls}
  \cup {Request("command", "connect", <<String(Connect), Number(One), Object(ps), Null>>,
                <<String(Connect), Number(One), Object(ps)>>) : ps \in Urls}
  \cup {Same("command", "fmle", <<String(c), Number(n), Null, String(s)>>) :
          c \in FMLE, n \in Numbers, s \in Texts}
  \cup {Same("command", "createStream", <<String(CreateStream), Number(n), Null>>) : n \in Numbers}
  \cup {Request("command", "publish", <<String(Publish), Number(n), Null, String(s), String(t)>>,
                <<String(Publish), Number(n), Null, String(s), String(IF t = <<>> THEN Live ELSE t)>>) :
          n \in Numbers, s, t \in Texts}
  \cup {Same("command", "play", <<String(Play), Number(n), Null, String(s)>>) : n \in Numbers, s \in Texts}
  \cup {Same("command", "play", <<String(Play), Number(n), Null, String(s), Number(n), Number(m)>>) :
          n, m \in Numbers, s \in Texts}
  \cup {Same("command", "reset", <<String(Play), Number(One), Null, String(s), Number(One),
                                    Number(One), Boolean(FALSE)>>) : s \in Texts}
  \cup {Request("command", "metadata", <<String(SetDataFrame), String(OnMetaData), EcmaArray(ps)>>,
                <<String(OnMetaData), Object(ps)>>) : ps \in Urls}
  \cup {Same("data", "none", <<String(OnMetaData), Object(<<>>)>>),
        Same("command", "none", <<String(Result), Number(One), Null>>),
        Request("command", "packet", <<String(Unknown), Number(One)>>, <<>>),
        Request("command", "packet", <<String(<<>>), Number(One)>>, <<>>)}
  \cup {Same("setChunkSize", "setChunkSize", <<Raw(n)>>) : n \in Words}
  \cup {Same("userControl", "userControl", <<Raw(STREAM_BEGIN), Raw(n)>>) : n \in Words}
  \cup {Same("userControl", "buffer", <<Raw(SET_BUFFER_LEN), Raw(n), Raw(n)>>) : n \in Words}
  \cup {Same("userControl", "userControl", <<Raw(FMS_EVENT0), Raw(<<1>>)>>)}
  \cup {Same("windowAck", "none", <<Raw(n)>>) : n \in Words}

\* Commands and data are written value by value, the others are integers.
Payload(m) ==
  IF m.type \in {"command", "data"} THEN Written(m.fields)
  ELSE FoldLeft(LAMBDA b, v : b \o v.bytes, <<>>, m.fields)

NoMsg == [from |-> "nobody", type |-> "none", bytes |-> <<>>]
NoGot == Made("none", Fail("none"))

Init == msg = NoMsg /\ got = NoGot /\ phase = "idle"

\* Packet::Encode: nothing is sent of a packet that does not fit its buffer.
Encode(p) == IF Len(p.bytes) <= p.size THEN p.bytes ELSE <<>>

ServerSends ==
  /\ phase = "idle" /\ phase' = "sent" /\ UNCHANGED got
  /\ \E p \in ServerPackets : msg' = [p EXCEPT !.bytes = Encode(p)]

ClientSends ==
  /\ phase = "idle" /\ phase' = "sent" /\ UNCHANGED got
  /\ \E r \in Requests : \E n \in 1 .. Len(Payload(r)) :
       msg' = r @@ [bytes |-> SubSeq(Payload(r), 1, n)]

\* The readers this repository has for answers; other packets are read value by value.
RECURSIVE Values(_, _, _)
Values(b, at, vals) ==
  IF Empty(b, at) THEN Ok(vals, at)
  ELSE Then(ReadAny(b, at), LAMBDA r : Values(b, r.at, Append(vals, r.v)))

DecodeAnswer(b, fields) ==
  CASE Len(fields) = 4 /\ IsObject(fields[4]) /\ IsObject(fields[3]) -> Fields(b, 1, ConnectAppResDecode, <<>>)
    [] Len(fields) = 4 /\ IsNumber(fields[4]) -> Fields(b, 1, CreateStreamResDecode, <<>>)
    [] OTHER -> Values(b, 1, <<>>)

ClientReads ==
  /\ phase = "sent" /\ msg.from = "server" /\ phase' = "read"
  /\ got' = Made("answer",
              CASE msg.type \in {"command", "data"} -> DecodeAnswer(msg.bytes, msg.fields)
                [] msg.type = "userControl" -> UserControlDecode(msg.bytes)
                [] msg.type = "peerBandwidth" ->
                     Ok(<<Raw(SubSeq(msg.bytes, 1, 4)), Raw(SubSeq(msg.bytes, 5, 5))>>, 6)
                [] OTHER -> SetChunkSizeDecode(msg.bytes))
  /\ UNCHANGED msg

ServerReads ==
  /\ phase = "sent" /\ msg.from = "client" /\ phase' = "read"
  /\ got' = DecodeMessage(msg.type, msg.bytes)
  /\ UNCHANGED msg

\* The message and the packet are freed.
Free == phase = "read" /\ phase' = "idle" /\ msg' = NoMsg /\ got' = NoGot

Next == ServerSends \/ ClientSends \/ ClientReads \/ ServerReads \/ Free

Spec == Init /\ [][Next]_vars
-----------------------------------------------------------------------------
(***************************************************************************)
(* Properties.                                                             *)
(***************************************************************************)
Arrived(from) == phase = "read" /\ msg.from = from

(***************************************************************************)
(* Every packet the server writes fills the buffer of GetSize bytes to its *)
(* last byte, no more and no less, and a client reads from it the values   *)
(* that were put in, in order: sizes and writes of nested objects and      *)
(* arrays, computed by different code, agree.                              *)
(***************************************************************************)
AnswersExact ==
  Arrived("server") =>
    /\ Len(msg.bytes) = msg.size
    /\ Len(msg.bytes) = Len(Payload(msg))
    /\ got.ret = "ok" /\ got.vals = msg.fields

\* Where the values of a payload end.
End(fields, i) == Len(Written(SubSeq(fields, 1, i)))

\* v is w, or w as an object that lost properties at its end.
RECURSIVE BeginningOf(_, _)
BeginningOf(v, w) ==
  \/ v = w
  \/ /\ IsObject(v) /\ IsObject(w)
     /\ Len(v.props) <= Len(w.props)
     /\ \A i \in DOMAIN v.props :
          /\ v.props[i].key = w.props[i].key
          /\ IF i < Len(v.props) THEN v.props[i].val = w.props[i].val
             ELSE BeginningOf(v.props[i].val, w.props[i].val)

(***************************************************************************)
(* A request that arrives whole is decoded to the kind and the values the  *)
(* client meant.  Of one that was broken off, the server either gets an    *)
(* error or the beginning of those values: it never acts on a value the    *)
(* client did not write, whatever byte the message ends at.                *)
(***************************************************************************)
RequestsFaithful ==
  Arrived("client") /\ msg.kind \notin {"reset", "buffer"} =>
    /\ msg.bytes = Payload(msg) /\ msg.kind # "none" =>
         got.ret = "ok" /\ got.kind = msg.kind /\ got.vals = msg.meant
    /\ got.ret = "ok" =>
         /\ got.kind = msg.kind
         /\ Len(got.vals) <= Len(msg.meant)
         /\ \A i \in DOMAIN got.vals :
              /\ BeginningOf(got.vals[i], msg.meant[i])
              /\ i < Len(got.vals) => got.vals[i] = msg.meant[i]

(***************************************************************************)
(* A broken request takes the server down only inside a value that         *)
(* AMF0ReadAny reads (or by the reset of a play request): the command      *)
(* name, the transaction id, stream names and times are refused cleanly    *)
(* wherever they break off.                                                *)
(***************************************************************************)
RefusedCleanly ==
  Arrived("client") /\ got.ret = "abort" =>
    \E i \in DOMAIN msg.fields :
      /\ \/ msg.fields[i].marker \in {RTMP_AMF0_OBJECT, RTMP_AMF0_ECMA_ARRAY}
            /\ Len(msg.bytes) < End(msg.fields, i)
         \/ msg.kind = "reset" /\ i = Len(msg.fields)
      /\ End(msg.fields, i - 1) < Len(msg.bytes)
=============================================================================
