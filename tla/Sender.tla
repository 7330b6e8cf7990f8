------------------------------- MODULE Sender -------------------------------
(***************************************************************************)
(* protocol/rtmp_stack.cpp, the sending half of Protocol: packets, written *)
(* chunk by chunk (DoSimpleSend), and batches of shared messages, whose    *)
(* chunks are gathered as iovecs with their headers in a cache of fixed    *)
(* size and written when that is full (DoSendMessages, SendLargeIovs).     *)
(*                                                                         *)
(* One coroutine at a time sends on a connection.  The client reads the    *)
(* stream by the chunk protocol, and its chunk size is what it was told.   *)
(* Payload is counted in units.  ManualResponseFlush has nothing to send:  *)
(* nothing is ever put in its queue.  After a failed write the model ends  *)
(* for this end of the connection (the code goes on to use it, and what    *)
(* the client makes of a stream with a hole is not specified).             *)
(***************************************************************************)
EXTENDS Integers, Sequences

CONSTANTS
  Packets,    \* packets sent, as messages: cid, time, sid, len, and the chunk size announced or 0
  Media,      \* messages of batches, in the same form
  MaxBatch,   \* messages of one batch
  MaxMsgs,    \* messages handed over
  StreamId,   \* stream_id of the response
  FirstSize,  \* RTMP_CONSTS_RTMP_PROTOCOL_CHUNK_SIZE
  Escape,     \* 0xffffff: a 3-byte time that announces an extended one
  ExtendedTimestamp,  \* RTMP_EXTENDED_TIMESTAMPE, 0xffffffff
  CacheMax,   \* RTMP_C0C3_HEADERS_MAX
  IovsMax,    \* RTMP_IOVS_MAX
  Limit       \* limits of SendLargeIovs

Control == 2       \* RTMP_CID_PROTOCOL_CONTROL
HeaderMax == 16    \* RTMP_FMT0_HEADER_SIZE

\* A message; only packets announce a chunk size.
Messages == [cid : Nat, time : Nat, sid : Nat, len : Nat, size : Nat]

ASSUME SenderAssumption ==
  /\ Packets \subseteq Messages /\ Media \subseteq {m \in Messages : m.size = 0}
  /\ StreamId \in Nat
  /\ MaxBatch \in Nat /\ MaxMsgs \in Nat /\ FirstSize \in Nat \ {0}
  /\ Escape \in Nat \ {0} /\ ExtendedTimestamp \in Nat /\ Escape < ExtendedTimestamp
  /\ CacheMax \in Nat /\ CacheMax >= HeaderMax
  /\ IovsMax \in Nat /\ IovsMax >= 2 /\ IovsMax % 2 = 0 /\ Limit \in Nat \ {0}

VARIABLES
  call,      \* "idle", "packet" in DoSimpleSend, "batch" in DoSendMessages, "flush" in SendLargeIovs
  todo,      \* the messages of the call that are not wholly cut into chunks
  sent,      \* p - payload for the first of them
  iovs,      \* out_iovs_: headers by their place in the cache, and payload
  cache,     \* out_c0c3_caches_, by the place where a header starts
  c0c3,      \* c0c3_cache_index
  nb_iovs,   \* nb_out_iovs_
  cur_pos,   \* cur_pos of SendLargeIovs
  out_size,  \* out_chunk_size_
  link,      \* "up", "down" after a failed write, "garbled" when the client has lost its place
  wire,      \* written and not yet read
  client,    \* [size, msg, left]: the client's chunk size, the message it is in, what that lacks
  handed,    \* messages given to be sent
  got        \* messages the client has put together

cacheVars == <<iovs, cache, c0c3, nb_iovs, cur_pos>>
ends == <<link, wire, client, got>>
vars == <<call, todo, sent, cacheVars, out_size, ends, handed>>

Smaller(a, b) == IF a < b THEN a ELSE b
NoHeader == [fmt |-> -1]

Init ==
  /\ call = "idle" /\ todo = <<>> /\ sent = 0
  /\ iovs = <<>> /\ cache = [i \in 0 .. CacheMax - 1 |-> NoHeader] /\ c0c3 = 0
  /\ nb_iovs = IovsMax /\ cur_pos = 0 /\ out_size = FirstSize
  /\ link = "up" /\ wire = <<>>
  /\ client = [size |-> FirstSize, msg |-> NoHeader, left |-> 0]
  /\ handed = <<>> /\ got = <<>>
-----------------------------------------------------------------------------
(***************************************************************************)
(* Headers.  The three bytes of a time hold it modulo 2^24.                *)
(***************************************************************************)
IsExtended(m) == m.time >= ExtendedTimestamp
Field(m) == IF IsExtended(m) THEN Escape ELSE m.time % (Escape + 1)

chunk_header_c0(m) ==
  [fmt |-> 0, cid |-> m.cid % 64, field |-> Field(m), ext |-> IsExtended(m), time |-> m.time,
   sid |-> m.sid, len |-> m.len, size |-> m.size]

chunk_header_c3(m) ==
  [fmt |-> 3, cid |-> m.cid % 64, ext |-> IsExtended(m), time |-> m.time]

Header(m) == IF sent = 0 THEN chunk_header_c0(m) ELSE chunk_header_c3(m)

\* The bytes of a header.
Bytes(h) == (IF h.fmt = 0 THEN 12 ELSE 1) + (IF h.ext THEN 4 ELSE 0)

\* Mutant: what has gone already is not taken off.
PayloadSizeWhole(m) == Smaller(out_size, m.len)

PayloadSize(m) == Smaller(out_size, m.len - sent)

\* StSocket::WriteEv: all is written, or a part of it and the call fails.
WriteEv(items) ==
  \/ wire' = wire \o items /\ UNCHANGED link
  \/ /\ link' = "down"
     /\ \E n \in 0 .. Len(items) - 1 : wire' = wire \o SubSeq(items, 1, n)

\* The first message is cut off the rest when its last chunk is made.
Advance(m) ==
  IF sent + PayloadSize(m) >= m.len
  THEN todo' = Tail(todo) /\ sent' = 0
  ELSE todo' = todo /\ sent' = sent + PayloadSize(m)
-----------------------------------------------------------------------------
(***************************************************************************)
(* Packets.                                                                *)
(***************************************************************************)

\* SendAndFreePacket with a packet that has been encoded; an empty one is ignored.
SendAndFreePacket(m) ==
  /\ call = "idle" /\ link = "up" /\ Len(handed) < MaxMsgs
  /\ m.len > 0
  /\ call' = "packet" /\ todo' = <<m>> /\ sent' = 0
  /\ handed' = Append(handed, m)
  /\ UNCHANGED <<cacheVars, out_size, ends>>

\* OnSendPacket, once a packet has gone: a chunk size holds from the next message on.
OnSendPacket(m) == IF m.size # 0 THEN m.size ELSE out_size

DoSimpleSend ==
  /\ call = "packet" /\ link = "up"
  /\ LET m == Head(todo) IN
       /\ WriteEv(<<[header |-> Header(m), n |-> 0], [header |-> NoHeader, n |-> PayloadSize(m)]>>)
       /\ Advance(m)
       /\ IF todo' = <<>>
          THEN /\ call' = "idle"
               /\ out_size' = IF link' = "up" THEN OnSendPacket(m) ELSE out_size
          ELSE UNCHANGED <<call, out_size>>
  /\ UNCHANGED <<cacheVars, client, handed, got>>
-----------------------------------------------------------------------------
(***************************************************************************)
(* Batches.                                                                *)
(***************************************************************************)

\* SharedPtrMessage::Check: a chunk stream id that one byte can hold, and the player's stream id.
FixedCid(m) == [m EXCEPT !.cid = IF @ < 2 \/ @ > 63 THEN Control ELSE @]

(***************************************************************************)
(* The loop of SendAndFreeMessage stops at the first message that has the  *)
(* stream id already; those after it stay as they are.                     *)
(***************************************************************************)
Checked(batch) ==
  [i \in DOMAIN batch |->
    LET stops == {j \in DOMAIN batch : batch[j].sid = StreamId} IN
      IF \E j \in stops : j < i THEN batch[i]
                                ELSE [FixedCid(batch[i]) EXCEPT !.sid = StreamId]]

\* The messages with a payload, in their order.
NotEmpty(batch) ==
  LET kept[i \in 0 .. Len(batch)] ==
        IF i = 0 THEN <<>>
        ELSE IF batch[i].len > 0 THEN Append(kept[i - 1], batch[i]) ELSE kept[i - 1]
  IN  kept[Len(batch)]

\* SendAndFreeMessage up to the loop of DoSendMessages, which passes over empty messages.
SendAndFreeMessage(batch) ==
  /\ call = "idle" /\ link = "up" /\ Len(handed) + Len(batch) <= MaxMsgs
  /\ LET msgs == NotEmpty(Checked(batch)) IN
       /\ call' = IF msgs = <<>> THEN "idle" ELSE "batch"
       /\ todo' = msgs
       /\ handed' = handed \o msgs
  /\ sent' = 0 /\ iovs' = <<>> /\ c0c3' = 0
  /\ UNCHANGED <<cache, nb_iovs, cur_pos, out_size, ends>>

\* Mutant: the iovecs are made to grow one chunk too late.
GrownLate == IF Len(iovs) >= nb_iovs THEN nb_iovs + IovsMax ELSE nb_iovs

\* The iovecs grow when the two just written were the last that fit.
Grown == IF Len(iovs) >= nb_iovs - 2 THEN nb_iovs + IovsMax ELSE nb_iovs

\* There is no room for another header.
CacheFull(index) == CacheMax - index < HeaderMax

\* One turn of the inner loop of DoSendMessages.
DoSendMessages ==
  /\ call = "batch" /\ link = "up"
  /\ LET m == Head(todo) IN
     LET h == Header(m) IN
       /\ cache' = [cache EXCEPT ![c0c3] = h]
       /\ iovs' = iovs \o <<[at |-> c0c3, n |-> 0], [at |-> -1, n |-> PayloadSize(m)]>>
       /\ c0c3' = c0c3 + Bytes(h)
       /\ nb_iovs' = Grown
       /\ Advance(m)
       /\ call' = IF CacheFull(c0c3') \/ todo' = <<>> THEN "flush" ELSE "batch"
       /\ cur_pos' = 0
  /\ UNCHANGED <<out_size, ends, handed>>

\* What an iovec points at when it is written.
Gathered(v) == [header |-> IF v.at >= 0 THEN cache[v.at] ELSE NoHeader, n |-> v.n]

\* The iovecs of the next WriteEv of SendLargeIovs.
Portion == IF Len(iovs) < Limit THEN Len(iovs) ELSE Smaller(Limit, Len(iovs) - cur_pos)

\* One WriteEv of SendLargeIovs; after the last the cache is empty, and the loop goes on or ends.
SendLargeIovs ==
  /\ call = "flush" /\ link = "up"
  /\ WriteEv([i \in 1 .. Portion |-> Gathered(iovs[cur_pos + i])])
  /\ cur_pos' = cur_pos + Portion
  /\ IF cur_pos' >= Len(iovs)
     THEN iovs' = <<>> /\ c0c3' = 0 /\ call' = IF todo = <<>> THEN "idle" ELSE "batch"
     ELSE UNCHANGED <<iovs, c0c3, call>>
  /\ UNCHANGED <<todo, sent, cache, nb_iovs, out_size, client, handed, got>>
-----------------------------------------------------------------------------
(***************************************************************************)
(* The client: a full header begins a message, a short one goes on with    *)
(* it, and a chunk has as much payload as the chunk size and the message   *)
(* leave.  Anything else is not where the client takes it to be.           *)
(***************************************************************************)
Begins(h) == [cid |-> h.cid, time |-> IF h.ext THEN h.time ELSE h.field, sid |-> h.sid,
              len |-> h.len, size |-> h.size, field |-> h.field]

InPlace(h, n) ==
  /\ h.fmt \in {0, 3} /\ h.cid \in 2 .. 63
  /\ h.fmt = 0 => client.left = 0 /\ (h.ext <=> h.field = Escape) /\ n = Smaller(client.size, h.len)
  /\ h.fmt = 3 => /\ client.left > 0 /\ h.cid = client.msg.cid
                  /\ (h.ext <=> client.msg.field = Escape) /\ n = Smaller(client.size, client.left)

Delivered(b) == [cid |-> b.cid, time |-> b.time, sid |-> b.sid, len |-> b.len, safe |-> TRUE]

ClientReads ==
  /\ link # "garbled" /\ Len(wire) >= 2
  /\ LET h == wire[1].header IN LET n == wire[2].n IN
       IF ~InPlace(h, n)
       THEN link' = "garbled" /\ UNCHANGED <<client, got>>
       ELSE LET b == IF h.fmt = 0 THEN Begins(h) ELSE client.msg IN
            LET left == (IF h.fmt = 0 THEN h.len ELSE client.left) - n IN
              /\ client' = [size |-> IF left = 0 /\ b.size # 0 THEN b.size ELSE client.size,
                            msg |-> b, left |-> left]
              /\ got' = IF left = 0 THEN Append(got, Delivered(b)) ELSE got
              /\ UNCHANGED link
  /\ wire' = SubSeq(wire, 3, Len(wire))
  /\ UNCHANGED <<call, todo, sent, cacheVars, out_size, handed>>
-----------------------------------------------------------------------------
Batches == UNION {[1 .. n -> Media] : n \in 1 .. MaxBatch}

Next ==
  \/ \E m \in Packets : SendAndFreePacket(m)
  \/ \E batch \in Batches : SendAndFreeMessage(batch)
  \/ DoSimpleSend \/ DoSendMessages \/ SendLargeIovs
  \/ ClientReads

(***************************************************************************)
(* A call of the server runs until it ends: it does not block but in       *)
(* writes, which succeed or fail within the send timeout.  The client      *)
(* reads what has arrived.                                                 *)
(***************************************************************************)
Fairness ==
  /\ WF_vars(DoSimpleSend) /\ WF_vars(DoSendMessages) /\ WF_vars(SendLargeIovs)
  /\ WF_vars(ClientReads)

Spec == Init /\ [][Next]_vars /\ Fairness
-----------------------------------------------------------------------------
(***************************************************************************)
(* A message can be read back from its chunks when its chunk stream id has *)
(* the one-byte form and its three bytes of time do not announce an        *)
(* extended one that is not there.  The time that arrives is the message's *)
(* modulo 2^24, but for the largest, which is sent as an extended one.     *)
(***************************************************************************)
View(m) ==
  [cid |-> m.cid % 64, sid |-> m.sid, len |-> m.len,
   time |-> IF m.time < ExtendedTimestamp THEN m.time % (Escape + 1) ELSE m.time,
   safe |-> m.cid % 64 >= 2 /\ (m.time < ExtendedTimestamp => m.time % (Escape + 1) # Escape)]

(***************************************************************************)
(* The sending half implements a Channel: whatever the sizes of messages,  *)
(* batches, chunks, the header cache and the iovecs, and whenever the      *)
(* chunk size changes, the messages handed over arrive whole, once and in  *)
(* order, until a write fails.                                             *)
(***************************************************************************)
Sending ==
  INSTANCE Channel WITH
    accepted <- [i \in DOMAIN handed |-> View(handed[i])],
    received <- got,
    state <- link

ImplementsChannel == Sending!Spec

(***************************************************************************)
(* Where the loop of DoSendMessages writes without a test, there is room:  *)
(* the header cache for the largest header, the iovecs for two more.       *)
(***************************************************************************)
CachesFit ==
  call = "batch" => c0c3 + HeaderMax <= CacheMax /\ Len(iovs) + 2 <= nb_iovs

(***************************************************************************)
(* When a call has ended and the client has read everything, both ends     *)
(* have the same chunk size.                                               *)
(***************************************************************************)
SizesAgree == link = "up" /\ call = "idle" /\ wire = <<>> => client.size = out_size
=============================================================================
