------------------------------ MODULE Session -------------------------------
(***************************************************************************)
(* From accept to Publishing or Playing: the listener, Connection::Cycle,  *)
(* RTMPConnection::DoCycle with the handshake, ConnectApp, ServiceCycle    *)
(* and StreamServiceCycle, the dialogues of RTMPServer, and the pool of    *)
(* Sources that all connections share.                                     *)
(*                                                                         *)
(* An action is one message (or a failed read) with all that the           *)
(* connection's coroutine does until it reads again; the answers it sends  *)
(* on the way may break off anywhere.  Messages come from RecvMessage      *)
(* (ChunkStream) and are decoded as in Packets; here a message is its      *)
(* kind.  Publishing and Playing are modules of their own.                 *)
(*                                                                         *)
(* A client has a role and keeps to its dialogue, or not: cause collects   *)
(* what a connection has met that the dialogue does not provide for.  A    *)
(* receive timeout in the middle of a message makes the parser take up     *)
(* the stream at a wrong place: what RecvMessage hands out after one is    *)
(* any message at all.                                                     *)
(***************************************************************************)
EXTENDS Integers, Sequences

CONSTANTS
  Publishers,     \* the connections of clients that publish, as FMLE does
  Players,        \* the connections of clients that play
  Hosts,          \* hosts of a tcUrl, "" when there is none
  Queries,        \* values of vhost= in a tcUrl or a stream name, "" when there is none
  DefaultVhost,   \* RTMP_DEFAULT_VHOST
  MaxExtra,       \* messages a client sends that are not the next of its dialogue
  MaxAmiss        \* steps that go otherwise than a dialogue provides

Conns == Publishers \cup Players

ASSUME SessionAssumption ==
  /\ Publishers \cap Players = {}
  /\ "" \in Hosts /\ "" \in Queries /\ DefaultVhost \in Hosts
  /\ MaxExtra \in Nat /\ MaxAmiss \in Nat

VARIABLES
  pc,        \* where the connection's coroutine reads
  url,       \* Request::tc_url
  vhost,     \* Request::vhost
  src,       \* the Source of StreamServiceCycle, 0 for nullptr
  out,       \* the answers sent
  pool,      \* Source::pool_, by stream url; 0 for no entry
  sources,   \* the Sources made: the vhost of their request_
  crashed,   \* the process has died
  asked,     \* the commands the client has sent, so that a command's place is its transaction id
  extra,     \* messages it has sent that its dialogue does not have
  turn,      \* its place in its dialogue
  cause,     \* what went otherwise than the dialogue provides
  amiss,     \* how often, over all connections
  closed     \* the client has closed

connVars == <<pc, url, vhost, src, out>>
clientVars == <<asked, extra, turn, cause, amiss, closed>>
vars == <<connVars, pool, sources, crashed, clientVars>>

(***************************************************************************)
(* pc: none       not accepted                                             *)
(*     c0c1, c2   in HandshakeWithClient                                   *)
(*     connect    in ConnectApp                                            *)
(*     identify   in IdentifyClient                                        *)
(*     created    in IdentiyCreateStreamClient                             *)
(*     fcpublish, create, publish                                          *)
(*                in the three ExpectMessage of StartFmlePublish           *)
(*     publishing, playing                                                 *)
(*     spin       in the loop of ServiceCycle at the end of the stream     *)
(*     ended      Dispatch has returned; the socket is never closed        *)
(***************************************************************************)
Dialogue(c) ==
  IF c \in Publishers THEN <<"connect", "fmle", "fmle", "create", "publish">>
                      ELSE <<"connect", "create", "play">>

\* Schema, port and application are there, or not.
Urls == [host : Hosts, query : Queries, whole : BOOLEAN]
Names == [text : {"", "s"}, query : Queries]
NoUrl == [host |-> "", query |-> "", whole |-> FALSE]

Msgs ==
  [kind : {"connect"}, url : Urls \cup {NoUrl}]
    \cup [kind : {"fmle", "play"}, name : Names]
    \cup [kind : {"create", "publish", "other", "bad", "control", "media"}]

(***************************************************************************)
(* "other" is a command that decodes to none of the packets asked for,     *)
(* "bad" one that does not decode.  IsCommand is IsAMF0Command or          *)
(* IsAMF3Command.  DoDecodeMessage takes what is neither command nor chunk *)
(* size for a user control message, whatever it holds.                     *)
(***************************************************************************)
IsCommand(m) == m.kind \notin {"control", "media"}
Decodes(m) == CASE m.kind = "bad" -> {FALSE} [] m.kind = "media" -> BOOLEAN [] OTHER -> {TRUE}

(***************************************************************************)
(* A command that does not decode is an error, or the end of the process:  *)
(* AMF0ReadAny frees its caller's pointer when a value breaks off ("abort" *)
(* in Packets).  Which of them depends on where it breaks off.             *)
(***************************************************************************)
MayAbort(m) == m.kind = "bad"

Init ==
  /\ pc = [c \in Conns |-> "none"] /\ url = [c \in Conns |-> NoUrl]
  /\ vhost = [c \in Conns |-> ""] /\ src = [c \in Conns |-> 0]
  /\ out = [c \in Conns |-> <<>>]
  /\ pool = [v \in (Hosts \cup Queries) \ {DefaultVhost} |-> 0] /\ sources = <<>>
  /\ crashed = FALSE
  /\ asked = [c \in Conns |-> <<>>] /\ extra = [c \in Conns |-> 0]
  /\ turn = [c \in Conns |-> 1] /\ cause = [c \in Conns |-> {}]
  /\ amiss = 0 /\ closed = [c \in Conns |-> FALSE]
-----------------------------------------------------------------------------
(***************************************************************************)
(* The client.                                                             *)
(***************************************************************************)
\* The answer under a transaction id that a command asks for.
ResultOf == [connect |-> "connectRes", fmle |-> "fmleRes", create |-> "createRes"]

IsNext(c, m) == turn[c] <= Len(Dialogue(c)) /\ m.kind = Dialogue(c)[turn[c]]

\* A tcUrl with all its parts and a stream name.
Proper(m) ==
  CASE m.kind = "connect" -> m.url.whole /\ (m.url.host # "" \/ m.url.query # "")
    [] m.kind \in {"fmle", "play"} -> m.name.text # ""
    [] OTHER -> TRUE

(***************************************************************************)
(* The messages the server provides for: the next one of the dialogue; any *)
(* but a command between connect and the first command; before play,       *)
(* anything that decodes; and once the client is served anything, from a   *)
(* publisher anything that decodes: a player's messages are never decoded. *)
(***************************************************************************)
Provided(c, m) ==
  \/ IsNext(c, m) /\ Proper(m)
  \/ turn[c] = 2 /\ ~IsCommand(m)
  \/ c \in Players /\ turn[c] = 3 /\ m.kind \notin {"bad", "play"}
  \/ turn[c] > Len(Dialogue(c)) /\ (c \in Players \/ ~MayAbort(m))

Says(c, m) ==
  /\ ~closed[c]
  /\ IsNext(c, m) \/ extra[c] < MaxExtra
  /\ extra' = [extra EXCEPT ![c] = IF IsNext(c, m) THEN @ ELSE @ + 1]
  /\ asked' = [asked EXCEPT ![c] =
       CASE ~IsCommand(m) -> @
         [] m.kind \in DOMAIN ResultOf -> Append(@, m.kind)
         [] OTHER -> Append(@, "other")]
  /\ turn' = [turn EXCEPT ![c] = IF IsNext(c, m) THEN @ + 1 ELSE @]
  /\ UNCHANGED closed

Blames(c, why) ==
  /\ why = {} \/ amiss < MaxAmiss
  /\ amiss' = IF why = {} THEN amiss ELSE amiss + 1
  /\ cause' = [cause EXCEPT ![c] = @ \cup why]

Amiss(c, m) == IF Provided(c, m) THEN {} ELSE {"order"}

\* The transaction id of the command being read.
Tid(c) == Len(asked[c]) + 1
-----------------------------------------------------------------------------
(***************************************************************************)
(* Answers.  A send that fails, after 30 seconds or because the client has *)
(* closed, makes the caller return; where it returns to is fail.           *)
(***************************************************************************)
Answer(kind, tid) == [kind |-> kind, tid |-> tid]
Status(kind) == Answer(kind, 0)

Sends(c, m, answers, next, fail) ==
  \E n \in 0 .. Len(answers) :
    /\ out' = [out EXCEPT ![c] = @ \o SubSeq(answers, 1, n)]
    /\ pc' = [pc EXCEPT ![c] = IF n = Len(answers) THEN next ELSE fail]
    /\ Blames(c, Amiss(c, m) \cup (IF n = Len(answers) THEN {} ELSE {"stalled"}))

Silent(c, m, next) ==
  /\ pc' = [pc EXCEPT ![c] = next]
  /\ Blames(c, Amiss(c, m))
  /\ UNCHANGED out

\* A null pointer is read, rs_assert(0) is met, or AMF0ReadAny frees what is not its own.
Dies(c, m) ==
  /\ crashed' = TRUE
  /\ Blames(c, Amiss(c, m))
  /\ UNCHANGED <<pc, out>>

(***************************************************************************)
(* ExpectMessage: a message that does not decode is an error; one that     *)
(* decodes to another packet is no error and leaves the packet null.       *)
(***************************************************************************)
Expected(m, kind) == m.kind = kind
Fails(m) == FALSE \in Decodes(m)
Null(m, kind) == ~Expected(m, kind) /\ TRUE \in Decodes(m)
-----------------------------------------------------------------------------
(***************************************************************************)
(* Accept and handshake.                                                   *)
(***************************************************************************)

\* TCPListener::Cycle, Server::AcceptClient, Connection::Start, or a failed fcntl.
Accept(c) ==
  /\ pc[c] = "none"
  /\ \/ pc' = [pc EXCEPT ![c] = "c0c1"] /\ UNCHANGED <<cause, amiss>>
     \/ pc' = [pc EXCEPT ![c] = "ended"] /\ Blames(c, {"refused"})
  /\ UNCHANGED <<url, vhost, src, out, pool, sources, crashed, asked, extra, turn, closed>>

\* ReadC0C1, the test of c0 and the write of s0s1s2.
C0C1(c) ==
  /\ pc[c] = "c0c1" /\ ~closed[c]
  /\ \/ pc' = [pc EXCEPT ![c] = "c2"] /\ UNCHANGED <<cause, amiss>>
     \/ pc' = [pc EXCEPT ![c] = "ended"] /\ \E w \in {"order", "stalled"} : Blames(c, {w})
  /\ UNCHANGED <<url, vhost, src, out, pool, sources, crashed, asked, extra, turn, closed>>

C2(c) ==
  /\ pc[c] = "c2" /\ ~closed[c]
  /\ pc' = [pc EXCEPT ![c] = "connect"]
  /\ UNCHANGED <<url, vhost, src, out, pool, sources, crashed, clientVars>>

(***************************************************************************)
(* ConnectApp, and ServiceCycle up to its loop.                            *)
(***************************************************************************)

\* Mutant: the answer to connect overtakes the chunk size.
WelcomeSwapped ==
  <<Status("windowAck"), Status("peerBandwidth"), Answer("connectRes", 1), Status("chunkSize")>>

Welcome ==
  <<Status("windowAck"), Status("peerBandwidth"), Status("chunkSize"), Answer("connectRes", 1)>>

\* The packet has a tcUrl.
HasTcUrl(m) == m.url # NoUrl

ConnectApp(c, m) ==
  /\ pc[c] = "connect" /\ Says(c, m)
  /\ \/ /\ Expected(m, "connect") /\ HasTcUrl(m)
        /\ url' = [url EXCEPT ![c] = m.url]
        /\ Sends(c, m, Welcome, "identify", "ended")
        /\ UNCHANGED crashed
     \/ /\ Fails(m) \/ (Expected(m, "connect") /\ ~HasTcUrl(m))
        /\ Silent(c, m, "ended")
        /\ UNCHANGED <<url, crashed>>
     \/ /\ Null(m, "connect") \/ MayAbort(m)
        /\ Dies(c, m)
        /\ UNCHANGED url
  /\ UNCHANGED <<vhost, src, pool, sources>>
-----------------------------------------------------------------------------
(***************************************************************************)
(* StreamServiceCycle between IdentifyClient and the answers.              *)
(***************************************************************************)

\* Mutant: a name without a vhost takes the vhost away.
ResolveAlways(v, query) == query

\* vhost_resolve: a vhost in the query takes the place of the one found so far.
Resolve(v, query) == IF query # "" THEN query ELSE v

\* DiscoveryTcUrl starts from the host each time.
DiscoveryTcUrl(u, name) == Resolve(Resolve(u.host, u.query), name.query)

\* Mutant: a request without a vhost is let in.
ServableAnyVhost(u, name) == u.whole /\ name.text # ""

\* The parts that must not be empty.
Servable(u, name) == u.whole /\ DiscoveryTcUrl(u, name) # "" /\ name.text # ""

\* generate_stream_url: neither the application nor the stream is in it.
StreamUrl(v) == IF v = DefaultVhost THEN "" ELSE v

\* Source::Fetch, or a new Source with a copy of the request.
FetchOrCreate(c, v) ==
  IF pool[StreamUrl(v)] # 0
  THEN /\ src' = [src EXCEPT ![c] = pool[StreamUrl(v)]]
       /\ UNCHANGED <<pool, sources>>
  ELSE /\ sources' = Append(sources, v)
       /\ pool' = [pool EXCEPT ![StreamUrl(v)] = Len(sources) + 1]
       /\ src' = [src EXCEPT ![c] = Len(sources) + 1]

\* The request's vhost is set before the tests, the Source after them.
Locate(c, name) ==
  LET v == DiscoveryTcUrl(url[c], name) IN
    /\ vhost' = [vhost EXCEPT ![c] = v]
    /\ IF Servable(url[c], name) THEN FetchOrCreate(c, v) ELSE UNCHANGED <<src, pool, sources>>

\* Where a read goes on after StreamServiceCycle has returned.
Again(c) == "identify"

(***************************************************************************)
(* IdentifyClient: what is no command is skipped; FMLEStart is answered    *)
(* and makes a publisher, CreateStream is answered, whether or not the     *)
(* answer arrives, and may make a player; anything else is asserted away.  *)
(***************************************************************************)

\* Mutant: nothing is skipped.
SkipsNothing(m) == FALSE

Skips(m) == ~IsCommand(m)

\* Mutant: an FMLEStart is answered under the id of connect.
FmleResFirstId(c) == Answer("fmleRes", 1)

FmleRes(c) == Answer("fmleRes", Tid(c))

IdentifyClient(c, m) ==
  /\ pc[c] = "identify" /\ Says(c, m)
  /\ \/ /\ Skips(m)
        /\ Silent(c, m, "identify")
        /\ UNCHANGED <<vhost, src, pool, sources, crashed>>
     \/ /\ Expected(m, "fmle")
        /\ Sends(c, m, <<FmleRes(c)>>,
                 IF Servable(url[c], m.name) THEN "fcpublish" ELSE Again(c), Again(c))
        /\ IF Len(out'[c]) > Len(out[c]) THEN Locate(c, m.name)
                                         ELSE UNCHANGED <<vhost, src, pool, sources>>
        /\ UNCHANGED crashed
     \/ /\ Expected(m, "create")
        /\ Sends(c, m, <<Answer("createRes", Tid(c))>>, "created", "created")
        /\ UNCHANGED <<vhost, src, pool, sources, crashed>>
     \/ /\ ~Skips(m) /\ m.kind \notin {"fmle", "create"}
        /\ Dies(c, m)
        /\ UNCHANGED <<vhost, src, pool, sources>>
  /\ UNCHANGED url

(***************************************************************************)
(* IdentiyCreateStreamClient after its answer, and StartPlay.              *)
(***************************************************************************)
StartPlay == <<Status("streamBegin"), Status("playReset"), Status("dataStart")>>

AwaitPlay(c, m) ==
  /\ pc[c] = "created" /\ Says(c, m)
  /\ \/ /\ Expected(m, "play")
        /\ Locate(c, m.name)
        /\ IF Servable(url[c], m.name)
           THEN Sends(c, m, StartPlay, "playing", Again(c))
           ELSE Silent(c, m, Again(c))
        /\ UNCHANGED crashed
     \/ /\ IsCommand(m) /\ Fails(m)
        /\ Silent(c, m, Again(c))
        /\ UNCHANGED <<vhost, src, pool, sources, crashed>>
     \/ /\ ~Expected(m, "play") /\ ~(IsCommand(m) /\ Fails(m))
        /\ Silent(c, m, "created")
        /\ UNCHANGED <<vhost, src, pool, sources, crashed>>
     \/ /\ MayAbort(m)
        /\ Dies(c, m)
        /\ UNCHANGED <<vhost, src, pool, sources>>
  /\ UNCHANGED url

(***************************************************************************)
(* StartFmlePublish.  The first two packets are used, the third is not, so *)
(* that another packet in its place goes unnoticed.                        *)
(***************************************************************************)
FCPublish(c, m) ==
  /\ pc[c] = "fcpublish" /\ Says(c, m)
  /\ \/ Expected(m, "fmle") /\ Sends(c, m, <<FmleRes(c)>>, "create", Again(c)) /\ UNCHANGED crashed
     \/ Fails(m) /\ Silent(c, m, Again(c)) /\ UNCHANGED crashed
     \/ (Null(m, "fmle") \/ MayAbort(m)) /\ Dies(c, m)
  /\ UNCHANGED <<url, vhost, src, pool, sources>>

CreateStream(c, m) ==
  /\ pc[c] = "create" /\ Says(c, m)
  /\ \/ /\ Expected(m, "create")
        /\ Sends(c, m, <<Answer("createRes", Tid(c))>>, "publish", Again(c))
        /\ UNCHANGED crashed
     \/ Fails(m) /\ Silent(c, m, Again(c)) /\ UNCHANGED crashed
     \/ (Null(m, "create") \/ MayAbort(m)) /\ Dies(c, m)
  /\ UNCHANGED <<url, vhost, src, pool, sources>>

PublishStart == <<Status("onFCPublish"), Status("publishStart")>>

(***************************************************************************)
(* Then Publishing: acquire_publish may fail, when the recording cannot be *)
(* opened, although the client has been told that it publishes.            *)
(***************************************************************************)
AwaitPublish(c, m) ==
  /\ pc[c] = "publish" /\ Says(c, m)
  /\ \/ /\ Expected(m, "publish") \/ Null(m, "publish")
        /\ Sends(c, m, PublishStart, "publishing", Again(c))
        /\ UNCHANGED crashed
     \/ /\ Expected(m, "publish") \/ Null(m, "publish")
        /\ out' = [out EXCEPT ![c] = @ \o PublishStart]
        /\ pc' = [pc EXCEPT ![c] = Again(c)]
        /\ Blames(c, Amiss(c, m) \cup {"refused"})
        /\ UNCHANGED crashed
     \/ Fails(m) /\ Silent(c, m, Again(c)) /\ UNCHANGED crashed
     \/ MayAbort(m) /\ Dies(c, m)
  /\ UNCHANGED <<url, vhost, src, pool, sources>>
-----------------------------------------------------------------------------
(***************************************************************************)
(* The session, as far as the dialogue goes on in it.  handle_publish_     *)
(* message answers every FMLEStart with FMLEUnPublish; RTMPServer::        *)
(* DecodeMessage returns no value, so it may be taken for a failure.  The  *)
(* outcome is ignored, and the session goes on, unless decoding has ended  *)
(* the process.                                                            *)
(***************************************************************************)
FMLEUnPublish(c) == <<Status("onFCUnpublish"), FmleRes(c), Status("unpublishSuccess")>>

PublishMessage(c, m) ==
  /\ pc[c] = "publishing" /\ Says(c, m)
  /\ \/ /\ Expected(m, "fmle")
        /\ Sends(c, m, FMLEUnPublish(c), "publishing", "publishing")
        /\ UNCHANGED crashed
     \/ Silent(c, m, "publishing") /\ UNCHANGED crashed
     \/ MayAbort(m) /\ Dies(c, m)
  /\ UNCHANGED <<url, vhost, src, pool, sources>>

\* The messages of a player are queued by its receive thread and freed undecoded (Playing).
PlayMessage(c, m) ==
  /\ pc[c] = "playing" /\ Says(c, m)
  /\ Silent(c, m, "playing")
  /\ UNCHANGED <<url, vhost, src, pool, sources, crashed>>

\* StreamServiceCycle returns, and at the end of the stream will do so for ever.
Returns(c) == pc' = [pc EXCEPT ![c] = IF closed[c] THEN "spin" ELSE Again(c)]

\* Publishing gives up, or Playing has sent a batch and returns.
SessionEnds(c) ==
  /\ pc[c] \in {"publishing", "playing"}
  /\ Returns(c)
  /\ Blames(c, {"ended"})
  /\ UNCHANGED <<url, vhost, src, out, pool, sources, crashed, asked, extra, turn, closed>>

(***************************************************************************)
(* A read that fails: the end of the stream, a malformed chunk, or 30      *)
(* seconds without a byte.  Before the loop of ServiceCycle it ends the    *)
(* connection's coroutine; in the loop it only ends the dialogue.          *)
(***************************************************************************)
ReadFails(c) ==
  /\ \/ /\ pc[c] \in {"c0c1", "c2", "connect"}
        /\ pc' = [pc EXCEPT ![c] = "ended"]
     \/ /\ pc[c] \in {"identify", "created", "fcpublish", "create", "publish"}
        /\ Returns(c)
  /\ Blames(c, {"stalled"})
  /\ UNCHANGED <<url, vhost, src, out, pool, sources, crashed, asked, extra, turn, closed>>

Close(c) ==
  /\ ~closed[c]
  /\ closed' = [closed EXCEPT ![c] = TRUE]
  /\ UNCHANGED <<connVars, pool, sources, crashed, asked, extra, turn, cause, amiss>>
-----------------------------------------------------------------------------
Receive(c, m) ==
  \/ ConnectApp(c, m) \/ IdentifyClient(c, m) \/ AwaitPlay(c, m) \/ FCPublish(c, m)
  \/ CreateStream(c, m) \/ AwaitPublish(c, m) \/ PublishMessage(c, m) \/ PlayMessage(c, m)

\* The process has died, or a coroutine spins and never yields.
Halted == crashed \/ \E c \in Conns : pc[c] = "spin"

Step(c) ==
  Accept(c) \/ C0C1(c) \/ C2(c) \/ (\E m \in Msgs : Receive(c, m)) \/ SessionEnds(c) \/ ReadFails(c)

Next == ~Halted /\ \E c \in Conns : Step(c) \/ Close(c)

(***************************************************************************)
(* The listener accepts, a client that keeps to its dialogue sends what    *)
(* comes next, and the coroutine that reads it runs.                       *)
(***************************************************************************)
KeepsOn(c) == \E m \in Msgs : IsNext(c, m) /\ Proper(m) /\ Receive(c, m)

Fairness ==
  \A c \in Conns :
    WF_vars(~Halted /\ Accept(c)) /\ WF_vars(~Halted /\ (C0C1(c) \/ C2(c) \/ KeepsOn(c)))

Spec == Init /\ [][Next]_vars /\ Fairness
-----------------------------------------------------------------------------
(***************************************************************************)
(* The dialogue a client relies on: as long as nothing has gone amiss, the *)
(* answers it gets are those of its role, in their order, each under the   *)
(* id of the command it answers, and a client that is served has had all   *)
(* of them.                                                                *)
(***************************************************************************)
Script(c) ==
  <<Status("windowAck"), Status("peerBandwidth"), Status("chunkSize"), Answer("connectRes", 1)>> \o
    IF c \in Publishers
    THEN <<Answer("fmleRes", 2), Answer("fmleRes", 3), Answer("createRes", 4),
           Status("onFCPublish"), Status("publishStart")>>
    ELSE <<Answer("createRes", 2), Status("streamBegin"), Status("playReset"), Status("dataStart")>>

DialogueExact ==
  \A c \in Conns : cause[c] = {} =>
    LET n == Len(out[c]) IN LET k == Len(Script(c)) IN
      /\ SubSeq(out[c], 1, IF n < k THEN n ELSE k) = SubSeq(Script(c), 1, IF n < k THEN n ELSE k)
      /\ pc[c] \in {"publishing", "playing"} => n >= k

(***************************************************************************)
(* Whatever a client sends, an answer with a transaction id is to a        *)
(* command it has sent under that id and of that kind, no command is       *)
(* answered twice, and the answers come in the order of the commands.      *)
(***************************************************************************)
AnswersAsked ==
  \A c \in Conns : \A i \in DOMAIN out[c] :
    LET t == out[c][i].tid IN t # 0 =>
      /\ t <= Len(asked[c]) /\ asked[c][t] \in DOMAIN ResultOf
      /\ out[c][i].kind = ResultOf[asked[c][t]]
      /\ \A j \in DOMAIN out[c] : i < j => out[c][j].tid \notin 1 .. t

(***************************************************************************)
(* Sources are shared by vhost and by nothing else: a connection that has  *)
(* been given one and is in session has the one whose request had its      *)
(* vhost, whatever other connections have fetched or made meanwhile.       *)
(***************************************************************************)
InSession(c) == pc[c] \in {"fcpublish", "create", "publish", "publishing", "playing"}

SourceOfVhost ==
  \A c, d \in Conns : InSession(c) /\ InSession(d) =>
    /\ src[c] # 0 /\ sources[src[c]] = vhost[c]
    /\ vhost[c] = vhost[d] <=> src[c] = src[d]

(***************************************************************************)
(* The whole server dies of a null packet, of rs_assert(0) or of a command *)
(* that does not decode in one connection, a served publisher's included,  *)
(* but never of clients that keep to their dialogue, are not held up in it *)
(* and have not been turned out of their session.                          *)
(***************************************************************************)
CrashForCause == crashed => \E c \in Conns : cause[c] # {}

(***************************************************************************)
(* A client that keeps to its dialogue and does not stall comes to publish *)
(* or to play, unless another connection has stopped the server.           *)
(***************************************************************************)
PatientServed ==
  \A c \in Conns :
    (pc[c] = "c0c1") ~>
      (Halted \/ closed[c] \/ cause[c] # {} \/ pc[c] \in {"publishing", "playing"})
=============================================================================
