--------------------------- MODULE SessionProofs ----------------------------
(***************************************************************************)
(* What a client is told, which Source it is given and what can kill the   *)
(* server, for any set of publishers, players and virtual hosts.           *)
(***************************************************************************)
EXTENDS Session, SequenceTheorems, TLAPS

Places ==
  {"none", "c0c1", "c2", "connect", "identify", "created", "fcpublish", "create", "publish",
   "publishing", "playing", "spin", "ended"}
AnswerKinds ==
  {"windowAck", "peerBandwidth", "chunkSize", "connectRes", "fmleRes", "createRes",
   "streamBegin", "playReset", "dataStart", "onFCPublish", "publishStart", "onFCUnpublish",
   "unpublishSuccess"}
Answers == [kind : AnswerKinds, tid : Nat]
Commands == {"connect", "fmle", "create", "other"}
Causes == {"order", "stalled", "refused", "ended"}
Vhosts == Hosts \cup Queries

Typed ==
  /\ pc \in [Conns -> Places] /\ url \in [Conns -> Urls] /\ vhost \in [Conns -> Vhosts]
  /\ src \in [Conns -> Nat] /\ out \in [Conns -> Seq(Answers)]
  /\ pool \in [Vhosts \ {DefaultVhost} -> Nat] /\ sources \in Seq(Vhosts)
  /\ asked \in [Conns -> Seq(Commands)] /\ turn \in [Conns -> Nat]
  /\ cause \in [Conns -> SUBSET Causes]

(***************************************************************************)
(* Answers.  Nothing has been said to ConnectApp before its first message, *)
(* which is why it may answer under the id 1 without a look at the packet. *)
(***************************************************************************)
NothingSaid(c) ==
  ~crashed /\ pc[c] \in {"none", "c0c1", "c2", "connect"} => asked[c] = <<>> /\ out[c] = <<>>

Answered(c) ==
  \A i \in 1 .. Len(out[c]) : out[c][i].tid # 0 =>
    /\ out[c][i].tid <= Len(asked[c])
    /\ asked[c][out[c][i].tid] \in DOMAIN ResultOf
    /\ out[c][i].kind = ResultOf[asked[c][out[c][i].tid]]
    /\ \A j \in 1 .. Len(out[c]) : i < j => out[c][j].tid \notin 1 .. out[c][i].tid

(***************************************************************************)
(* Dialogues.  Where a connection for which nothing has gone amiss reads   *)
(* tells its role, its turn, how many commands it has sent and how many    *)
(* answers it has had, and what StreamServiceCycle relies on, its tcUrl.   *)
(***************************************************************************)
At(c, n, said, told) == turn[c] = n /\ Len(asked[c]) = said /\ Len(out[c]) = told
ProperUrl(c) == url[c].whole /\ (url[c].host # "" \/ url[c].query # "")

Publishes(c) ==
  \/ pc[c] = "fcpublish" /\ At(c, 3, 2, 5)
  \/ pc[c] = "create" /\ At(c, 4, 3, 6)
  \/ pc[c] = "publish" /\ At(c, 5, 4, 7)
  \/ pc[c] = "publishing" /\ turn[c] = 6 /\ Len(out[c]) >= 9

Plays(c) ==
  \/ pc[c] = "created" /\ turn[c] = 3 /\ Len(out[c]) = 5 /\ ProperUrl(c)
  \/ pc[c] = "playing" /\ turn[c] = 4 /\ Len(out[c]) = 8

Placed(c) ==
  \/ pc[c] \in {"none", "c0c1", "c2", "connect"} /\ At(c, 1, 0, 0)
  \/ pc[c] = "identify" /\ At(c, 2, 1, 4) /\ ProperUrl(c)
  \/ c \in Publishers /\ Publishes(c)
  \/ c \in Players /\ Plays(c)

Heard(c) ==
  \A i \in 1 .. Len(out[c]) : i <= Len(Script(c)) => out[c][i] = Script(c)[i]

OnScript(c) == cause[c] = {} => Placed(c) /\ Heard(c)

(***************************************************************************)
(* Sources: the pool and the Sources made are each other's inverse, and a  *)
(* session has a Source made for its vhost.                                *)
(***************************************************************************)
PoolExact ==
  /\ \A k \in DOMAIN pool : pool[k] # 0 =>
       pool[k] <= Len(sources) /\ StreamUrl(sources[pool[k]]) = k
  /\ \A i \in 1 .. Len(sources) : sources[i] # "" /\ pool[StreamUrl(sources[i])] = i

Sourced(c) == InSession(c) => src[c] \in 1 .. Len(sources) /\ sources[src[c]] = vhost[c]

ConnInv(c) == NothingSaid(c) /\ Answered(c) /\ OnScript(c) /\ Sourced(c)

IInv == Typed /\ PoolExact /\ CrashForCause /\ \A c \in Conns : ConnInv(c)
-----------------------------------------------------------------------------
\* What a message is made of.
LEMMA MessageParts ==
  ASSUME NEW m \in Msgs
  PROVE  /\ m.kind \in {"connect", "fmle", "play", "create", "publish", "other", "bad",
                        "control", "media"}
         /\ m.kind = "connect" => m.url \in Urls
         /\ m.kind \in {"fmle", "play"} => m.name \in Names
<1>1. CASE m \in [kind : {"connect"}, url : Urls \cup {NoUrl}]
  <2>1. NoUrl \in Urls
    BY SessionAssumption DEF NoUrl, Urls
  <2> QED BY <1>1, <2>1
<1>2. CASE m \in [kind : {"fmle", "play"}, name : Names]
  BY <1>2
<1>3. CASE m \in [kind : {"create", "publish", "other", "bad", "control", "media"}]
  BY <1>3
<1> QED BY <1>1, <1>2, <1>3 DEF Msgs

\* The vhost of a request is one the client has named.
LEMMA VhostNamed ==
  ASSUME NEW u \in Urls, NEW name \in Names PROVE DiscoveryTcUrl(u, name) \in Vhosts
BY DEF Urls, Names, DiscoveryTcUrl, Resolve, Vhosts

\* The first n of the answers a, sent after those in s.
LEMMA Sent ==
  ASSUME NEW s \in Seq(Answers), NEW a \in Seq(Answers), NEW n \in 0 .. Len(a)
  PROVE  LET t == s \o SubSeq(a, 1, n) IN
         /\ t \in Seq(Answers) /\ Len(t) = Len(s) + n
         /\ \A i \in 1 .. Len(s) : t[i] = s[i]
         /\ \A i \in 1 .. n : t[Len(s) + i] = a[i]
         /\ \A i \in 1 .. Len(t) : i > Len(s) => i - Len(s) \in 1 .. n /\ t[i] = a[i - Len(s)]
<1> DEFINE b == SubSeq(a, 1, n)
<1>1. b \in Seq(Answers) /\ Len(b) = n /\ \A i \in 1 .. n : b[i] = a[i]
  OBVIOUS
<1> HIDE DEF b
<1>2. /\ s \o b \in Seq(Answers) /\ Len(s \o b) = Len(s) + n
      /\ \A i \in 1 .. Len(s \o b) : (s \o b)[i] = IF i <= Len(s) THEN s[i] ELSE b[i - Len(s)]
  BY <1>1
<1> QED BY <1>1, <1>2 DEF b

\* The answers of the dialogues are answers.
LEMMA AnswerTypes ==
  ASSUME Typed, NEW c \in Conns
  PROVE  /\ Welcome \in Seq(Answers) /\ StartPlay \in Seq(Answers)
         /\ PublishStart \in Seq(Answers) /\ FMLEUnPublish(c) \in Seq(Answers)
         /\ <<FmleRes(c)>> \in Seq(Answers) /\ <<Answer("createRes", Tid(c))>> \in Seq(Answers)
<1>1. Tid(c) \in Nat
  BY DEF Typed, Tid
<1>2. \A k \in AnswerKinds : Answer(k, Tid(c)) \in Answers /\ Status(k) \in Answers
                             /\ Answer(k, 1) \in Answers
  BY <1>1 DEF Answer, Status, Answers
<1>3. FmleRes(c) \in Answers
  BY <1>2 DEF FmleRes, AnswerKinds
<1>4. Welcome \in Seq(Answers)
  BY <1>2 DEF Welcome, AnswerKinds
<1>5. StartPlay \in Seq(Answers)
  BY <1>2 DEF StartPlay, AnswerKinds
<1>6. PublishStart \in Seq(Answers)
  BY <1>2 DEF PublishStart, AnswerKinds
<1>7. FMLEUnPublish(c) \in Seq(Answers)
  BY <1>2, <1>3 DEF FMLEUnPublish, AnswerKinds
<1>8. <<FmleRes(c)>> \in Seq(Answers)
  BY <1>3
<1>9. <<Answer("createRes", Tid(c))>> \in Seq(Answers)
  BY <1>2 DEF AnswerKinds
<1> QED BY <1>4, <1>5, <1>6, <1>7, <1>8, <1>9
-----------------------------------------------------------------------------
LEMMA InitTyped == Init => Typed
<1> SUFFICES ASSUME Init PROVE Typed
  OBVIOUS
<1> USE SessionAssumption DEF Init
<1>1. url \in [Conns -> Urls] /\ vhost \in [Conns -> Vhosts]
  BY DEF NoUrl, Urls, Vhosts
<1>2. pc \in [Conns -> Places] /\ src \in [Conns -> Nat] /\ turn \in [Conns -> Nat]
  BY DEF Places
<1>3. /\ out \in [Conns -> Seq(Answers)] /\ asked \in [Conns -> Seq(Commands)]
      /\ sources \in Seq(Vhosts) /\ cause \in [Conns -> SUBSET Causes]
  <2>1. <<>> \in Seq(Answers) /\ <<>> \in Seq(Commands) /\ <<>> \in Seq(Vhosts)
    BY EmptySeq
  <2>2. {} \in SUBSET Causes
    OBVIOUS
  <2> QED BY <2>1, <2>2
<1>4. pool \in [Vhosts \ {DefaultVhost} -> Nat]
  BY DEF Vhosts
<1> QED BY <1>1, <1>2, <1>3, <1>4 DEF Typed

\* Says and Blames keep the types of what they change.
LEMMA SaysTyped ==
  ASSUME Typed, NEW c \in Conns, NEW m \in Msgs, Says(c, m)
  PROVE  asked' \in [Conns -> Seq(Commands)] /\ turn' \in [Conns -> Nat]
<1>1. asked' \in [Conns -> Seq(Commands)]
  <2>1. PICK k \in Commands : asked' = asked \/ asked' = [asked EXCEPT ![c] = Append(@, k)]
    BY MessageParts DEF Typed, Says, ResultOf, Commands, IsCommand
  <2>2. asked[c] \in Seq(Commands) /\ asked \in [Conns -> Seq(Commands)]
    BY DEF Typed
  <2>3. Append(asked[c], k) \in Seq(Commands)
    BY <2>2
  <2> QED BY <2>1, <2>2, <2>3
<1>2. turn' \in [Conns -> Nat]
  BY DEF Typed, Says
<1> QED BY <1>1, <1>2

LEMMA BlamesTyped ==
  ASSUME Typed, NEW c \in Conns, NEW why \in SUBSET Causes, Blames(c, why)
  PROVE  cause' \in [Conns -> SUBSET Causes]
BY DEF Typed, Blames

LEMMA SendsTyped ==
  ASSUME Typed, NEW c \in Conns, NEW m \in Msgs, NEW a \in Seq(Answers),
         NEW next \in Places, NEW fail \in Places, Sends(c, m, a, next, fail)
  PROVE  /\ pc' \in [Conns -> Places] /\ out' \in [Conns -> Seq(Answers)]
         /\ cause' \in [Conns -> SUBSET Causes]
<1>1. PICK n \in 0 .. Len(a) :
        /\ out' = [out EXCEPT ![c] = @ \o SubSeq(a, 1, n)]
        /\ pc' = [pc EXCEPT ![c] = IF n = Len(a) THEN next ELSE fail]
        /\ Blames(c, Amiss(c, m) \cup (IF n = Len(a) THEN {} ELSE {"stalled"}))
  BY DEF Sends
<1>2. (Amiss(c, m) \cup (IF n = Len(a) THEN {} ELSE {"stalled"})) \in SUBSET Causes
  BY DEF Amiss, Causes
<1>3. pc' \in [Conns -> Places] 
  BY <1>1 DEF Typed
<1>4. out' \in [Conns -> Seq(Answers)]
  BY <1>1, Sent DEF Typed
<1> QED BY <1>1, <1>2, <1>3, <1>4, BlamesTyped

LEMMA SilentTyped ==
  ASSUME Typed, NEW c \in Conns, NEW m \in Msgs, NEW next \in Places,
         Silent(c, m, next) \/ Dies(c, m)
  PROVE  /\ pc' \in [Conns -> Places] /\ out' \in [Conns -> Seq(Answers)]
         /\ cause' \in [Conns -> SUBSET Causes]
<1>1. Amiss(c, m) \in SUBSET Causes /\ Blames(c, Amiss(c, m))
  BY DEF Amiss, Causes, Silent, Dies
<1> QED BY <1>1, BlamesTyped DEF Typed, Silent, Dies

LEMMA LocateTyped ==
  ASSUME Typed, NEW c \in Conns, NEW name \in Names, Locate(c, name)
  PROVE  /\ vhost' \in [Conns -> Vhosts] /\ src' \in [Conns -> Nat]
         /\ pool' \in [Vhosts \ {DefaultVhost} -> Nat] /\ sources' \in Seq(Vhosts)
<1> DEFINE v == DiscoveryTcUrl(url[c], name)
<1>1. v \in Vhosts /\ (v # "" => StreamUrl(v) \in Vhosts \ {DefaultVhost})
  BY VhostNamed, SessionAssumption DEF Typed, StreamUrl, Vhosts
<1> HIDE DEF v
<1>2. vhost' = [vhost EXCEPT ![c] = v]
  BY DEF Locate, v
<1>3. CASE ~Servable(url[c], name)
  BY <1>1, <1>2, <1>3 DEF Locate, Typed
<1>4. CASE Servable(url[c], name)
  <2>1. FetchOrCreate(c, v) /\ v # ""
    BY <1>4 DEF Locate, Servable, v
  <2>2. CASE pool[StreamUrl(v)] # 0
    BY <1>1, <1>2, <2>1, <2>2 DEF FetchOrCreate, Typed
  <2>3. CASE pool[StreamUrl(v)] = 0
    <3>0. sources \in Seq(Vhosts) /\ v \in Vhosts
      BY <1>1 DEF Typed
    <3>1. Append(sources, v) \in Seq(Vhosts) /\ Len(sources) + 1 \in Nat
      BY <3>0
    <3>2. /\ sources' = Append(sources, v)
          /\ pool' = [pool EXCEPT ![StreamUrl(v)] = Len(sources) + 1]
          /\ src' = [src EXCEPT ![c] = Len(sources) + 1]
      BY <2>1, <2>3 DEF FetchOrCreate
    <3> QED BY <1>1, <1>2, <3>1, <3>2 DEF Typed
  <2> QED BY <2>2, <2>3
<1> QED BY <1>3, <1>4

\* A step on a message keeps the types.
LEMMA ReceiveTyped ==
  ASSUME Typed, NEW c \in Conns, NEW m \in Msgs, Receive(c, m) PROVE Typed'
<1> DEFINE Told == /\ pc' \in [Conns -> Places] /\ out' \in [Conns -> Seq(Answers)]
                   /\ cause' \in [Conns -> SUBSET Causes]
           Given == /\ vhost' \in [Conns -> Vhosts] /\ src' \in [Conns -> Nat]
                    /\ pool' \in [Vhosts \ {DefaultVhost} -> Nat] /\ sources' \in Seq(Vhosts)
<1>1. Says(c, m)
  BY DEF Receive, ConnectApp, IdentifyClient, AwaitPlay, FCPublish, CreateStream, AwaitPublish,
         PublishMessage, PlayMessage
<1>2. ASSUME UNCHANGED <<vhost, src, pool, sources>> PROVE Given
  BY <1>2 DEF Typed
<1>3. ASSUME NEW next \in Places, Silent(c, m, next) \/ Dies(c, m) PROVE Told
  BY <1>3, SilentTyped
<1>4. ASSUME NEW a \in Seq(Answers), NEW next \in Places, NEW fail \in Places,
             Sends(c, m, a, next, fail)
      PROVE  Told
  BY <1>4, SendsTyped
<1>5. ASSUME NEW name \in Names, Locate(c, name) PROVE Given
  BY <1>5, LocateTyped
<1>6. \A p \in {"identify", "created", "fcpublish", "create", "publish", "publishing", "playing",
             "ended"} : p \in Places
  BY DEF Places
<1>7. Again(c) \in Places
  BY <1>6 DEF Again
<1> HIDE DEF Told, Given
<1>8. Told /\ Given /\ url' \in [Conns -> Urls]
  <2>1. CASE ConnectApp(c, m)
    <3>1. url' \in [Conns -> Urls]
      BY <2>1, MessageParts DEF ConnectApp, Expected, Typed
    <3> QED BY <2>1, <3>1, <1>2, <1>3, <1>4, <1>6, AnswerTypes DEF ConnectApp
  <2>2. CASE IdentifyClient(c, m)
    <3>1. Told
      BY <2>2, <1>3, <1>4, <1>6, <1>7, AnswerTypes DEF IdentifyClient
    <3>2. Given
      BY <2>2, <1>2, <1>5, MessageParts DEF IdentifyClient, Expected
    <3> QED BY <2>2, <3>1, <3>2 DEF IdentifyClient, Typed
  <2>3. CASE AwaitPlay(c, m)
    <3>1. Told
      BY <2>3, <1>3, <1>4, <1>6, <1>7, AnswerTypes DEF AwaitPlay
    <3>2. Given
      BY <2>3, <1>2, <1>5, MessageParts DEF AwaitPlay, Expected
    <3> QED BY <2>3, <3>1, <3>2 DEF AwaitPlay, Typed
  <2>4. CASE FCPublish(c, m)
    BY <2>4, <1>2, <1>3, <1>4, <1>6, <1>7, AnswerTypes DEF FCPublish, Typed
  <2>5. CASE CreateStream(c, m)
    BY <2>5, <1>2, <1>3, <1>4, <1>6, <1>7, AnswerTypes DEF CreateStream, Typed
  <2>6. CASE AwaitPublish(c, m)
    <3>1. CASE /\ out' = [out EXCEPT ![c] = @ \o PublishStart]
               /\ pc' = [pc EXCEPT ![c] = Again(c)]
               /\ Blames(c, Amiss(c, m) \cup {"refused"})
      <4>1. Amiss(c, m) \cup {"refused"} \in SUBSET Causes
        BY DEF Amiss, Causes
      <4>2. cause' \in [Conns -> SUBSET Causes]
        BY <3>1, <4>1, BlamesTyped
      <4>3. out[c] \o PublishStart \in Seq(Answers)
        BY AnswerTypes, ConcatProperties DEF Typed
      <4>4. Told
        BY <3>1, <4>2, <4>3, <1>7 DEF Told, Typed
      <4> QED BY <2>6, <4>4, <1>2 DEF AwaitPublish, Typed
    <3>2. CASE Sends(c, m, PublishStart, "publishing", Again(c)) \/ Silent(c, m, Again(c))
      BY <2>6, <3>2, <1>2, <1>3, <1>4, <1>6, <1>7, AnswerTypes DEF AwaitPublish, Typed
    <3>3. CASE Dies(c, m)
      BY <2>6, <3>3, <1>2, <1>3, <1>7 DEF AwaitPublish, Typed
    <3> QED BY <2>6, <3>1, <3>2, <3>3 DEF AwaitPublish
  <2>7. CASE PublishMessage(c, m)
    <3>1. CASE Dies(c, m)
      BY <2>7, <3>1, <1>2, <1>3, <1>7 DEF PublishMessage, Typed
    <3>2. CASE Sends(c, m, FMLEUnPublish(c), "publishing", "publishing") \/ Silent(c, m, "publishing")
      BY <2>7, <3>2, <1>2, <1>3, <1>4, <1>6, <1>7, AnswerTypes DEF PublishMessage, Typed
    <3> QED BY <2>7, <3>1, <3>2 DEF PublishMessage
  <2>8. CASE PlayMessage(c, m)
    BY <2>8, <1>2, <1>3, <1>4, <1>6, <1>7, AnswerTypes DEF PlayMessage, Typed
  <2> QED BY <2>1, <2>2, <2>3, <2>4, <2>5, <2>6, <2>7, <2>8 DEF Receive
<1> QED BY <1>1, <1>8, SaysTyped DEF Told, Given, Typed

\* The steps of a connection's coroutine that read no message.
Other(c) == Accept(c) \/ C0C1(c) \/ C2(c) \/ SessionEnds(c) \/ ReadFails(c) \/ Close(c)

LEMMA OtherTyped ==
  ASSUME Typed, NEW c \in Conns, Other(c) PROVE Typed'
<1>1. UNCHANGED <<url, vhost, src, out, pool, sources, crashed, asked, turn>>
  BY DEF Other, Accept, C0C1, C2, SessionEnds, ReadFails, Close, clientVars, connVars
<1>2. \E p \in Places : pc' = pc \/ pc' = [pc EXCEPT ![c] = p]
  BY DEF Other, Accept, C0C1, C2, SessionEnds, ReadFails, Close, connVars, Returns, Again, Places
<1>3. UNCHANGED cause \/ \E why \in SUBSET Causes : Blames(c, why)
  <2>1. {"refused"} \in SUBSET Causes /\ {"ended"} \in SUBSET Causes
        /\ {"stalled"} \in SUBSET Causes /\ {"order"} \in SUBSET Causes
    BY DEF Causes
  <2> QED BY <2>1 DEF Other, Accept, C0C1, C2, SessionEnds, ReadFails, Close, clientVars
<1>4. cause' \in [Conns -> SUBSET Causes]
  BY <1>3, BlamesTyped DEF Typed
<1> QED BY <1>1, <1>2, <1>4 DEF Typed
-----------------------------------------------------------------------------
(***************************************************************************)
(* Answers: those to one message carry its id, at most one of them, and it *)
(* is the answer that the message asks for.                                *)
(***************************************************************************)
Fitting(c, m, a) ==
  /\ \A i \in 1 .. Len(a) : a[i].tid # 0 =>
       a[i].tid = Tid(c) /\ m.kind \in DOMAIN ResultOf /\ a[i].kind = ResultOf[m.kind]
  /\ \A i, j \in 1 .. Len(a) : i < j => a[i].tid = 0 \/ a[j].tid = 0

Replies(c, m) ==
  \E a \in Seq(Answers) : \E n \in 0 .. Len(a) :
    Fitting(c, m, a) /\ out' = [out EXCEPT ![c] = @ \o SubSeq(a, 1, n)]

LEMMA Results ==
  /\ DOMAIN ResultOf = {"connect", "fmle", "create"}
  /\ ResultOf["connect"] = "connectRes" /\ ResultOf["fmle"] = "fmleRes"
  /\ ResultOf["create"] = "createRes"
BY DEF ResultOf

\* The command that a message adds to those the client has sent.
LEMMA SaysAsks ==
  ASSUME Typed, NEW c \in Conns, NEW m \in Msgs, Says(c, m)
  PROVE  /\ IsCommand(m) => Len(asked'[c]) = Len(asked[c]) + 1
         /\ ~IsCommand(m) => Len(asked'[c]) = Len(asked[c])
         /\ \A t \in 1 .. Len(asked[c]) : asked'[c][t] = asked[c][t]
         /\ m.kind \in DOMAIN ResultOf => IsCommand(m) /\ asked'[c][Tid(c)] = m.kind
<1> USE DEF Tid
<1>0. asked[c] \in Seq(Commands) /\ asked \in [Conns -> Seq(Commands)]
  BY DEF Typed
<1>1. CASE ~IsCommand(m)
  <2>2. m.kind \notin DOMAIN ResultOf
    BY <1>1, Results DEF IsCommand
  <2>1. asked'[c] = asked[c]
    BY <1>0, <1>1, <2>2 DEF Says
  <2> QED BY <1>0, <1>1, <2>1, <2>2
<1>2. CASE IsCommand(m) /\ m.kind \in DOMAIN ResultOf
  <2>1. asked'[c] = Append(asked[c], m.kind) /\ m.kind \in Commands
    BY <1>0, <1>2, Results DEF Says, Commands
  <2> QED BY <1>0, <1>2, <2>1
<1>3. CASE IsCommand(m) /\ m.kind \notin DOMAIN ResultOf
  <2>1. asked'[c] = Append(asked[c], "other") /\ "other" \in Commands
    BY <1>0, <1>3 DEF Says, Commands
  <2> QED BY <1>0, <1>3, <2>1
<1> QED BY <1>1, <1>2, <1>3

LEMMA RepliesAnswered ==
  ASSUME Typed, NEW c \in Conns, NEW m \in Msgs, Answered(c), Says(c, m),
         UNCHANGED out \/ Replies(c, m)
  PROVE  Answered(c)'
<1>0. /\ out[c] \in Seq(Answers) /\ out \in [Conns -> Seq(Answers)]
      /\ asked[c] \in Seq(Commands) /\ Len(asked[c]) \in Nat
  BY DEF Typed
<1>1. /\ Len(asked'[c]) \in Nat /\ Len(asked[c]) <= Len(asked'[c])
      /\ \A t \in 1 .. Len(asked[c]) : asked'[c][t] = asked[c][t]
  <2>1. /\ Len(asked'[c]) = Len(asked[c]) \/ Len(asked'[c]) = Len(asked[c]) + 1
        /\ \A t \in 1 .. Len(asked[c]) : asked'[c][t] = asked[c][t]
    BY SaysAsks, Zenon
  <2>3. Len(asked'[c]) \in Nat /\ Len(asked[c]) <= Len(asked'[c])
    BY <1>0, <2>1
  <2> QED BY <2>1, <2>3, Zenon
<1>2. ASSUME NEW i \in 1 .. Len(out[c]) PROVE out[c][i].tid \in Nat
  <2>1. out[c][i] \in Answers
    BY <1>0, ElementOfSeq
  <2> QED BY <2>1 DEF Answers
<1>3. CASE UNCHANGED out
  BY <1>0, <1>1, <1>2, <1>3 DEF Answered
<1>4. CASE Replies(c, m)
  <2>0. PICK a \in Seq(Answers) : \E n \in 0 .. Len(a) :
               Fitting(c, m, a) /\ out' = [out EXCEPT ![c] = @ \o SubSeq(a, 1, n)]
    BY <1>4 DEF Replies
  <2>1. PICK n \in 0 .. Len(a) :
               Fitting(c, m, a) /\ out' = [out EXCEPT ![c] = @ \o SubSeq(a, 1, n)]
    BY <2>0
  <2> DEFINE s == out[c]
             t == s \o SubSeq(a, 1, n)
  <2>2. out'[c] = t
    BY <1>0, <2>1
  <2>3. /\ t \in Seq(Answers) /\ Len(t) = Len(s) + n
        /\ \A i \in 1 .. Len(s) : t[i] = s[i]
        /\ \A i \in 1 .. Len(t) : i > Len(s) => i - Len(s) \in 1 .. n /\ t[i] = a[i - Len(s)]
    BY <1>0, Sent
  <2> HIDE DEF t
  <2> SUFFICES ASSUME NEW i \in 1 .. Len(t), t[i].tid # 0
               PROVE  /\ t[i].tid <= Len(asked'[c])
                      /\ asked'[c][t[i].tid] \in DOMAIN ResultOf
                      /\ t[i].kind = ResultOf[asked'[c][t[i].tid]]
                      /\ \A j \in 1 .. Len(t) : i < j => t[j].tid \notin 1 .. t[i].tid
    BY <2>2 DEF Answered
  <2>4. ASSUME NEW j \in 1 .. Len(t), j > Len(s)
        PROVE  t[j].tid = 0 \/ t[j].tid = Len(asked[c]) + 1
    <3>1. j - Len(s) \in 1 .. n /\ t[j] = a[j - Len(s)]
      BY <2>3, <2>4
    <3>2. j - Len(s) \in 1 .. Len(a)
      BY <3>1
    <3> QED BY <2>1, <3>1, <3>2 DEF Fitting, Tid
  <2>5. CASE i <= Len(s)
    <3>1. /\ s[i].tid \in 1 .. Len(asked[c]) /\ asked[c][s[i].tid] \in DOMAIN ResultOf
          /\ s[i].kind = ResultOf[asked[c][s[i].tid]] /\ t[i] = s[i]
          /\ \A j \in 1 .. Len(s) : i < j => s[j].tid \notin 1 .. s[i].tid
      BY <1>0, <1>2, <2>3, <2>5 DEF Answered
    <3>2. \A j \in 1 .. Len(t) : i < j => t[j].tid \notin 1 .. t[i].tid
      <4> SUFFICES ASSUME NEW j \in 1 .. Len(t), i < j PROVE t[j].tid \notin 1 .. t[i].tid
        OBVIOUS
      <4>1. CASE j > Len(s)
        <5>1. t[j].tid = 0 \/ t[j].tid = Len(asked[c]) + 1
          BY <2>4, <4>1
        <5> QED BY <1>0, <3>1, <5>1
      <4>2. CASE j <= Len(s)
        <5>1. j \in 1 .. Len(s) /\ t[j] = s[j]
          BY <1>0, <2>3, <4>2
        <5> QED BY <3>1, <5>1
      <4> QED BY <1>0, <4>1, <4>2
    <3> QED BY <1>1, <1>0, <3>1, <3>2
  <2>6. CASE i > Len(s)
    <3>1. t[i].tid = Tid(c) /\ m.kind \in DOMAIN ResultOf /\ t[i].kind = ResultOf[m.kind]
      BY <2>1, <2>3, <2>6 DEF Fitting
    <3>2. IsCommand(m) /\ asked'[c][Tid(c)] = m.kind /\ Len(asked'[c]) = Tid(c)
      BY <1>0, <3>1, SaysAsks DEF Tid
    <3>3. \A j \in 1 .. Len(t) : i < j => t[j].tid = 0
      <4> SUFFICES ASSUME NEW j \in 1 .. Len(t), i < j PROVE t[j].tid = 0
        OBVIOUS
      <4>1. /\ i - Len(s) \in 1 .. n /\ t[i] = a[i - Len(s)]
            /\ j - Len(s) \in 1 .. n /\ t[j] = a[j - Len(s)]
        BY <1>0, <2>3, <2>6
      <4>2. /\ i - Len(s) \in 1 .. Len(a) /\ j - Len(s) \in 1 .. Len(a)
            /\ i - Len(s) < j - Len(s)
        BY <1>0, <2>6, <4>1
      <4> QED BY <2>1, <4>1, <4>2 DEF Fitting
    <3> QED BY <1>0, <3>1, <3>2, <3>3 DEF Tid
  <2> QED BY <1>0, <2>3, <2>5, <2>6
<1> QED BY <1>3, <1>4

\* Every message is answered so.
LEMMA ReceiveReplies ==
  ASSUME Typed, NEW c \in Conns, NEW m \in Msgs, ~crashed, NothingSaid(c), Receive(c, m)
  PROVE  UNCHANGED out \/ Replies(c, m)
<1>1. ASSUME NEW a \in Seq(Answers), Fitting(c, m, a), NEW next, NEW fail,
             Sends(c, m, a, next, fail)
      PROVE  Replies(c, m)
  BY <1>1 DEF Sends, Replies
<1> USE Results, AnswerTypes DEF Expected, Answer, Status
<1>2. Tid(c) \in Nat /\ Tid(c) # 0
  BY DEF Tid, Typed
<1>3. m.kind = "connect" /\ asked[c] = <<>> => Fitting(c, m, Welcome)
  BY DEF Welcome, Fitting, Tid
<1>4. Fitting(c, m, StartPlay) /\ Fitting(c, m, PublishStart)
  BY DEF StartPlay, PublishStart, Fitting
<1>5. m.kind = "fmle" => Fitting(c, m, <<FmleRes(c)>>)
  BY DEF FmleRes, Fitting
<1>6. m.kind = "fmle" => Fitting(c, m, FMLEUnPublish(c))
  BY DEF FMLEUnPublish, FmleRes, Fitting
<1>7. m.kind = "create" => Fitting(c, m, <<Answer("createRes", Tid(c))>>)
  BY DEF Fitting
<1>8. CASE ConnectApp(c, m)
  <2>1. asked[c] = <<>>
    BY <1>8 DEF ConnectApp, NothingSaid
  <2> QED BY <1>1, <1>3, <1>8, <2>1 DEF ConnectApp, Silent, Dies
<1>9. CASE IdentifyClient(c, m)
  BY <1>1, <1>5, <1>7, <1>9 DEF IdentifyClient, Silent, Dies
<1>10. CASE AwaitPlay(c, m)
  BY <1>1, <1>4, <1>10 DEF AwaitPlay, Silent, Dies
<1>11. CASE FCPublish(c, m)
  BY <1>1, <1>5, <1>11 DEF FCPublish, Silent, Dies
<1>12. CASE CreateStream(c, m)
  BY <1>1, <1>7, <1>12 DEF CreateStream, Silent, Dies
<1>13. CASE AwaitPublish(c, m)
  <2>1. CASE out' = [out EXCEPT ![c] = @ \o PublishStart]
    <3>1. PublishStart = SubSeq(PublishStart, 1, Len(PublishStart))
      BY SubSeqFull
    <3>2. Len(PublishStart) \in 0 .. Len(PublishStart)
      BY LenProperties
    <3> QED BY <1>4, <2>1, <3>1, <3>2 DEF Replies
  <2> QED BY <1>1, <1>4, <1>13, <2>1 DEF AwaitPublish, Silent, Dies
<1>14. CASE PublishMessage(c, m) \/ PlayMessage(c, m)
  BY <1>1, <1>6, <1>14 DEF PublishMessage, PlayMessage, Silent, Dies
<1> QED BY <1>8, <1>9, <1>10, <1>11, <1>12, <1>13, <1>14 DEF Receive
-----------------------------------------------------------------------------
(***************************************************************************)
(* Dialogues.                                                              *)
(***************************************************************************)
\* Nothing was amiss in a step after which nothing has been.
LEMMA Blameless ==
  ASSUME Typed, NEW c \in Conns, NEW why, Blames(c, why), cause'[c] = {}
  PROVE  cause[c] = {} /\ why = {}
BY DEF Typed, Blames

LEMMA Dialogues ==
  ASSUME NEW c \in Conns
  PROVE  /\ c \in Publishers =>
              /\ Len(Dialogue(c)) = 5 /\ Dialogue(c)[1] = "connect" /\ Dialogue(c)[2] = "fmle"
              /\ Dialogue(c)[3] = "fmle" /\ Dialogue(c)[4] = "create"
              /\ Dialogue(c)[5] = "publish"
         /\ c \in Players =>
              /\ Len(Dialogue(c)) = 3 /\ Dialogue(c)[1] = "connect" /\ Dialogue(c)[2] = "create"
              /\ Dialogue(c)[3] = "play"
BY SessionAssumption DEF Dialogue

\* What a client may say at its turn, and which turn is next.
LEMMA Turns ==
  ASSUME Typed, NEW c \in Conns, NEW m \in Msgs, Provided(c, m), Says(c, m)
  PROVE  /\ turn[c] = 1 => m.kind = "connect" /\ Proper(m) /\ turn'[c] = 2
         /\ turn[c] = 2 =>
              \/ ~IsCommand(m) /\ turn'[c] = 2
              \/ /\ m.kind = (IF c \in Publishers THEN "fmle" ELSE "create")
                 /\ Proper(m) /\ turn'[c] = 3
         /\ c \in Publishers /\ turn[c] = 3 => m.kind = "fmle" /\ turn'[c] = 4
         /\ c \in Publishers /\ turn[c] = 4 => m.kind = "create" /\ turn'[c] = 5
         /\ c \in Publishers /\ turn[c] = 5 => m.kind = "publish" /\ turn'[c] = 6
         /\ c \in Publishers /\ turn[c] = 6 => ~MayAbort(m) /\ turn'[c] = 6
         /\ c \in Players /\ turn[c] = 3 /\ m.kind = "play" => Proper(m) /\ turn'[c] = 4
         /\ c \in Players /\ turn[c] = 3 /\ m.kind # "play" => m.kind # "bad" /\ turn'[c] = 3
         /\ c \in Players /\ turn[c] = 4 => turn'[c] = 4
<1>1. turn'[c] = IF IsNext(c, m) THEN turn[c] + 1 ELSE turn[c]
  BY DEF Typed, Says
<1>2. turn[c] \in Nat
  BY DEF Typed
<1>3. c \in Publishers \/ c \in Players
  BY DEF Conns
<1>4. CASE c \in Publishers
  <2>1. c \notin Players
    BY <1>4, SessionAssumption
  <2>2. turn[c] \in 1 .. 5 => (IsNext(c, m) <=> m.kind = Dialogue(c)[turn[c]])
    BY <1>4, Dialogues DEF IsNext
  <2>3. turn[c] = 6 => ~IsNext(c, m)
    BY <1>4, Dialogues DEF IsNext
  <2>4. turn[c] \in 1 .. 5 => (IsNext(c, m) /\ Proper(m)) \/ (turn[c] = 2 /\ ~IsCommand(m))
    BY <1>4, <2>1, Dialogues DEF Provided
  <2>5. turn[c] = 6 => ~MayAbort(m)
    BY <1>4, <2>1, <2>3 DEF Provided, IsCommand, MayAbort
  <2> QED BY <1>1, <1>2, <1>4, <2>1, <2>2, <2>3, <2>4, <2>5, Dialogues DEF IsCommand
<1>5. CASE c \in Players
  <2>1. c \notin Publishers
    BY <1>5, SessionAssumption
  <2>2. turn[c] \in 1 .. 3 => (IsNext(c, m) <=> m.kind = Dialogue(c)[turn[c]])
    BY <1>5, Dialogues DEF IsNext
  <2>3. turn[c] = 4 => ~IsNext(c, m)
    BY <1>5, Dialogues DEF IsNext
  <2>4. turn[c] \in 1 .. 3 =>
          \/ IsNext(c, m) /\ Proper(m)
          \/ turn[c] = 2 /\ ~IsCommand(m)
          \/ turn[c] = 3 /\ m.kind \notin {"bad", "play"}
    BY <1>5, Dialogues DEF Provided
  <2> QED BY <1>1, <1>2, <1>5, <2>1, <2>2, <2>3, <2>4, Dialogues DEF IsCommand
<1> QED BY <1>3, <1>4, <1>5

LEMMA Scripts ==
  ASSUME NEW c \in Conns
  PROVE  /\ \A i \in 1 .. 4 : Script(c)[i] = Welcome[i]
         /\ Len(Welcome) = 4 /\ Len(StartPlay) = 3 /\ Len(PublishStart) = 2
         /\ c \in Publishers =>
              /\ Len(Script(c)) = 9
              /\ Script(c)[5] = Answer("fmleRes", 2) /\ Script(c)[6] = Answer("fmleRes", 3)
              /\ Script(c)[7] = Answer("createRes", 4)
              /\ \A i \in 1 .. 2 : Script(c)[7 + i] = PublishStart[i]
         /\ c \in Players =>
              /\ Len(Script(c)) = 8 /\ Script(c)[5] = Answer("createRes", 2)
              /\ \A i \in 1 .. 3 : Script(c)[5 + i] = StartPlay[i]
<1>1. Len(Welcome) = 4 /\ Len(StartPlay) = 3 /\ Len(PublishStart) = 2
  BY DEF Welcome, StartPlay, PublishStart
<1>2. ASSUME NEW tail \in Seq(Answers), Script(c) = Welcome \o tail
      PROVE  /\ Len(Script(c)) = 4 + Len(tail)
             /\ \A i \in 1 .. 4 : Script(c)[i] = Welcome[i]
             /\ \A i \in 1 .. Len(tail) : Script(c)[4 + i] = tail[i]
  <2>1. Welcome \in Seq(Answers)
    <3>1. \A k \in AnswerKinds : Answer(k, 0) \in Answers /\ Answer(k, 1) \in Answers
      BY DEF Answer, Answers
    <3> QED BY <3>1 DEF Welcome, Status, AnswerKinds
  <2>2. /\ Len(Welcome \o tail) = Len(Welcome) + Len(tail)
        /\ \A i \in 1 .. Len(Welcome) + Len(tail) : (Welcome \o tail)[i] =
             IF i <= Len(Welcome) THEN Welcome[i] ELSE tail[i - Len(Welcome)]
    BY <2>1, ConcatProperties, Zenon
  <2>3. Len(tail) \in Nat
    OBVIOUS
  <2> QED BY <1>1, <1>2, <2>2, <2>3
<1>3. CASE c \in Publishers
  <2> DEFINE tail == <<Answer("fmleRes", 2), Answer("fmleRes", 3), Answer("createRes", 4),
                       Status("onFCPublish"), Status("publishStart")>>
  <2>1. \A k \in AnswerKinds : \A t \in Nat : Answer(k, t) \in Answers
    BY DEF Answer, Answers
  <2>2. tail \in Seq(Answers)
    BY <2>1 DEF Status, AnswerKinds
  <2>3. Script(c) = Welcome \o tail
    BY <1>3 DEF Script, Welcome
  <2>4. /\ Len(tail) = 5 /\ tail[1] = Answer("fmleRes", 2) /\ tail[2] = Answer("fmleRes", 3)
        /\ tail[3] = Answer("createRes", 4) /\ tail[4] = PublishStart[1]
        /\ tail[5] = PublishStart[2]
    BY DEF PublishStart
  <2> HIDE DEF tail
  <2>5. c \notin Players
    BY <1>3, SessionAssumption
  <2>6. /\ Len(Script(c)) = 9 /\ \A i \in 1 .. 4 : Script(c)[i] = Welcome[i]
        /\ \A i \in 1 .. 5 : Script(c)[4 + i] = tail[i]
    <3>1. /\ Len(Script(c)) = 4 + Len(tail) /\ \A i \in 1 .. 4 : Script(c)[i] = Welcome[i]
          /\ \A i \in 1 .. Len(tail) : Script(c)[4 + i] = tail[i]
      BY <1>2, <2>2, <2>3, Zenon
    <3>2. Len(tail) = 5
      BY <2>4
    <3> QED BY <3>1, <3>2
  <2>7. \A i \in 1 .. 2 : Script(c)[7 + i] = PublishStart[i]
    <3>1. Script(c)[4 + 4] = tail[4] /\ Script(c)[4 + 5] = tail[5]
      BY <2>6
    <3> QED BY <2>4, <3>1
  <2>8. /\ Script(c)[4 + 1] = tail[1] /\ Script(c)[4 + 2] = tail[2]
        /\ Script(c)[4 + 3] = tail[3]
    BY <2>6
  <2> QED BY <1>1, <2>4, <2>5, <2>6, <2>7, <2>8
<1>4. CASE c \in Players
  <2> DEFINE tail == <<Answer("createRes", 2), Status("streamBegin"), Status("playReset"),
                       Status("dataStart")>>
  <2>1. \A k \in AnswerKinds : \A t \in Nat : Answer(k, t) \in Answers
    BY DEF Answer, Answers
  <2>2. tail \in Seq(Answers)
    BY <2>1 DEF Status, AnswerKinds
  <2>3. c \notin Publishers
    BY <1>4, SessionAssumption
  <2>4. Script(c) = Welcome \o tail
    BY <2>3 DEF Script, Welcome
  <2>5. /\ Len(tail) = 4 /\ tail[1] = Answer("createRes", 2) /\ tail[2] = StartPlay[1]
        /\ tail[3] = StartPlay[2] /\ tail[4] = StartPlay[3]
    BY DEF StartPlay
  <2> HIDE DEF tail
  <2>6. /\ Len(Script(c)) = 8 /\ \A i \in 1 .. 4 : Script(c)[i] = Welcome[i]
        /\ \A i \in 1 .. 4 : Script(c)[4 + i] = tail[i]
    <3>1. /\ Len(Script(c)) = 4 + Len(tail) /\ \A i \in 1 .. 4 : Script(c)[i] = Welcome[i]
          /\ \A i \in 1 .. Len(tail) : Script(c)[4 + i] = tail[i]
      BY <1>2, <2>2, <2>4, Zenon
    <3>2. Len(tail) = 4
      BY <2>5
    <3> QED BY <3>1, <3>2
  <2>7. \A i \in 1 .. 3 : Script(c)[5 + i] = StartPlay[i]
    <3>1. Script(c)[4 + 2] = tail[2] /\ Script(c)[4 + 3] = tail[3] /\ Script(c)[4 + 4] = tail[4]
      BY <2>6
    <3> QED BY <2>5, <3>1
  <2>8. Script(c)[4 + 1] = tail[1]
    BY <2>6
  <2> QED BY <1>1, <2>3, <2>5, <2>6, <2>7, <2>8
<1> QED BY <1>3, <1>4 DEF Conns

\* A message to which all answers are sent and for which nobody is blamed.
LEMMA SendsAll ==
  ASSUME Typed, NEW c \in Conns, NEW m \in Msgs, NEW a \in Seq(Answers), NEW next, NEW fail,
         Sends(c, m, a, next, fail), cause'[c] = {}
  PROVE  /\ cause[c] = {} /\ Provided(c, m) /\ pc'[c] = next
         /\ Len(out'[c]) = Len(out[c]) + Len(a)
         /\ \A i \in 1 .. Len(out[c]) : out'[c][i] = out[c][i]
         /\ \A i \in 1 .. Len(out'[c]) : i > Len(out[c]) =>
              i - Len(out[c]) \in 1 .. Len(a) /\ out'[c][i] = a[i - Len(out[c])]
<1>1. PICK n \in 0 .. Len(a) :
        /\ out' = [out EXCEPT ![c] = @ \o SubSeq(a, 1, n)]
        /\ pc' = [pc EXCEPT ![c] = IF n = Len(a) THEN next ELSE fail]
        /\ Blames(c, Amiss(c, m) \cup (IF n = Len(a) THEN {} ELSE {"stalled"}))
  BY DEF Sends
<1>2. cause[c] = {} /\ Amiss(c, m) \cup (IF n = Len(a) THEN {} ELSE {"stalled"}) = {}
  BY <1>1, Blameless
<1>3. n = Len(a) /\ Provided(c, m)
  BY <1>2 DEF Amiss
<1>4. out[c] \in Seq(Answers) /\ out'[c] = out[c] \o SubSeq(a, 1, n) /\ pc'[c] = next
  BY <1>1, <1>3 DEF Typed
<1> DEFINE t == out[c] \o SubSeq(a, 1, n)
<1>5. /\ Len(t) = Len(out[c]) + n
      /\ \A i \in 1 .. Len(out[c]) : t[i] = out[c][i]
      /\ \A i \in 1 .. Len(t) : i > Len(out[c]) =>
           i - Len(out[c]) \in 1 .. n /\ t[i] = a[i - Len(out[c])]
  BY <1>4, Sent
<1>6. out'[c] = t
  BY <1>4
<1> HIDE DEF t
<1> QED BY <1>2, <1>3, <1>4, <1>5, <1>6

LEMMA SilentBlameless ==
  ASSUME Typed, NEW c \in Conns, NEW m \in Msgs, cause'[c] = {}
  PROVE  /\ \A next \in Places : Silent(c, m, next) =>
              cause[c] = {} /\ Provided(c, m) /\ pc'[c] = next /\ out'[c] = out[c]
         /\ Dies(c, m) => cause[c] = {} /\ Provided(c, m)
<1>1. ASSUME Blames(c, Amiss(c, m)) PROVE cause[c] = {} /\ Provided(c, m)
  BY <1>1, Blameless DEF Amiss
<1> QED BY <1>1 DEF Silent, Dies, Typed

\* The answers a are those of the script after the first k.
Follows(c, a, k) ==
  \A i \in 1 .. Len(a) : k + i <= Len(Script(c)) => a[i] = Script(c)[k + i]

LEMMA SendsHeard ==
  ASSUME Typed, NEW c \in Conns, NEW m \in Msgs, NEW a \in Seq(Answers), NEW next, NEW fail,
         Sends(c, m, a, next, fail), cause'[c] = {}, Heard(c), Follows(c, a, Len(out[c]))
  PROVE  pc'[c] = next /\ Len(out'[c]) = Len(out[c]) + Len(a) /\ Heard(c)'
<1>1. /\ pc'[c] = next /\ Len(out'[c]) = Len(out[c]) + Len(a)
      /\ \A i \in 1 .. Len(out[c]) : out'[c][i] = out[c][i]
      /\ \A i \in 1 .. Len(out'[c]) : i > Len(out[c]) =>
           i - Len(out[c]) \in 1 .. Len(a) /\ out'[c][i] = a[i - Len(out[c])]
  BY SendsAll
<1>2. Len(out[c]) \in Nat
  BY DEF Typed
<1> SUFFICES ASSUME NEW i \in 1 .. Len(out'[c]), i <= Len(Script(c))
             PROVE  out'[c][i] = Script(c)[i]
  BY <1>1 DEF Heard
<1>3. CASE i <= Len(out[c])
  <2>1. i \in 1 .. Len(out[c])
    BY <1>2, <1>3
  <2> QED BY <1>1, <2>1 DEF Heard
<1>4. CASE i > Len(out[c])
  <2>1. i - Len(out[c]) \in 1 .. Len(a) /\ out'[c][i] = a[i - Len(out[c])]
    BY <1>1, <1>4
  <2>2. Len(out[c]) + (i - Len(out[c])) = i
    BY <1>2
  <2> QED BY <2>1, <2>2 DEF Follows
<1> QED BY <1>2, <1>3, <1>4

\* Where a dialogue goes on when nothing is amiss, and that nothing dies of it.
OnTrack(c) == Placed(c)' /\ Heard(c)' /\ ~crashed'

LEMMA ConnectOnTrack ==
  ASSUME Typed, NEW c \in Conns, NEW m \in Msgs, OnScript(c), ~crashed, cause'[c] = {},
         ConnectApp(c, m)
  PROVE  OnTrack(c)
<1>1. cause[c] = {} /\ Provided(c, m)
  <2>1. Welcome \in Seq(Answers) /\ "ended" \in Places
    BY AnswerTypes DEF Places
  <2> QED BY <2>1, SendsAll, SilentBlameless DEF ConnectApp
<1>2. At(c, 1, 0, 0) /\ Heard(c) /\ Says(c, m) /\ pc[c] = "connect"
  BY <1>1 DEF OnScript, Placed, Publishes, Plays, ConnectApp
<1>3. m.kind = "connect" /\ Proper(m) /\ turn'[c] = 2 /\ IsCommand(m)
  BY <1>1, <1>2, Turns DEF At, IsCommand
<1>4. m.url.whole /\ (m.url.host # "" \/ m.url.query # "")
  BY <1>3 DEF Proper
<1>5. /\ HasTcUrl(m) /\ ~Fails(m) /\ ~Null(m, "connect") /\ Expected(m, "connect")
      /\ ~MayAbort(m)
  <2>1. m.url # NoUrl
    <3>1. NoUrl.host = "" /\ NoUrl.query = ""
      BY DEF NoUrl
    <3>2. m.url.host # "" \/ m.url.query # ""
      BY <1>4
    <3> QED BY <3>1, <3>2
  <2> QED BY <1>3, <2>1 DEF HasTcUrl, Fails, Null, Decodes, Expected, MayAbort
<1>6. Sends(c, m, Welcome, "identify", "ended") /\ ~crashed' /\ url' = [url EXCEPT ![c] = m.url]
  BY <1>5 DEF ConnectApp
<1>7. Welcome \in Seq(Answers) /\ Len(Welcome) = 4 /\ Len(out[c]) = 0 /\ Len(asked[c]) = 0
  BY <1>2, AnswerTypes, Scripts DEF At
<1>8. Follows(c, Welcome, Len(out[c]))
  BY <1>7, Scripts DEF Follows
<1>9. pc'[c] = "identify" /\ Len(out'[c]) = Len(out[c]) + 4 /\ Heard(c)'
  BY <1>2, <1>6, <1>7, <1>8, SendsHeard
<1>10. Len(asked'[c]) = Len(asked[c]) + 1
  BY <1>2, <1>3, SaysAsks
<1>11. url'[c] = m.url
  BY <1>6 DEF Typed
<1>12. ProperUrl(c)'
  BY <1>4, <1>11, Zenon DEF ProperUrl
<1>13. At(c, 2, 1, 4)'
  BY <1>3, <1>7, <1>9, <1>10 DEF At
<1> QED BY <1>6, <1>9, <1>12, <1>13 DEF OnTrack, Placed

LEMMA IdentifyOnTrack ==
  ASSUME Typed, NEW c \in Conns, NEW m \in Msgs, OnScript(c), ~crashed, cause'[c] = {},
         IdentifyClient(c, m)
  PROVE  OnTrack(c)
<1>0. /\ <<FmleRes(c)>> \in Seq(Answers) /\ <<Answer("createRes", Tid(c))>> \in Seq(Answers)
      /\ "identify" \in Places
  BY AnswerTypes DEF Places
<1>1. cause[c] = {} /\ Provided(c, m)
  BY <1>0, SendsAll, SilentBlameless DEF IdentifyClient
<1>2. At(c, 2, 1, 4) /\ ProperUrl(c) /\ Heard(c) /\ Says(c, m) /\ pc[c] = "identify"
  BY <1>1 DEF OnScript, Placed, Publishes, Plays, IdentifyClient
<1>3. url'[c] = url[c] /\ Tid(c) = 2
  BY <1>2 DEF IdentifyClient, At, Tid
<1>4. CASE ~IsCommand(m) /\ turn'[c] = 2
  <2>1. Silent(c, m, "identify") /\ ~crashed'
    BY <1>4 DEF IdentifyClient, Skips, Expected, IsCommand
  <2>2. pc'[c] = "identify" /\ out'[c] = out[c]
    BY <2>1, <1>0, SilentBlameless
  <2>3. Len(asked'[c]) = Len(asked[c])
    BY <1>2, <1>4, SaysAsks
  <2>4. ProperUrl(c)'
    BY <1>2, <1>3, Zenon DEF ProperUrl
  <2>5. At(c, 2, 1, 4)' /\ Heard(c)'
    BY <1>2, <1>4, <2>2, <2>3 DEF At, Heard
  <2> QED BY <2>1, <2>2, <2>4, <2>5 DEF OnTrack, Placed
<1>5. CASE c \in Publishers /\ m.kind = "fmle" /\ Proper(m) /\ turn'[c] = 3
  <2>1. Servable(url[c], m.name)
    BY <1>2, <1>5 DEF Servable, DiscoveryTcUrl, Resolve, ProperUrl, Proper
  <2>2. Sends(c, m, <<FmleRes(c)>>, "fcpublish", Again(c)) /\ ~crashed' /\ IsCommand(m)
    BY <1>5, <2>1 DEF IdentifyClient, Skips, IsCommand, Expected
  <2>3. Len(<<FmleRes(c)>>) = 1 /\ <<FmleRes(c)>>[1] = Answer("fmleRes", 2)
    BY <1>3 DEF FmleRes
  <2>4. Follows(c, <<FmleRes(c)>>, Len(out[c]))
    BY <1>2, <1>5, <2>3, Scripts DEF Follows, At
  <2>5. /\ pc'[c] = "fcpublish" /\ Len(out'[c]) = Len(out[c]) + Len(<<FmleRes(c)>>)
        /\ Heard(c)'
    BY <1>0, <1>2, <2>2, <2>4, SendsHeard
  <2>6. Len(asked'[c]) = Len(asked[c]) + 1
    BY <1>2, <2>2, SaysAsks
  <2>7. At(c, 3, 2, 5)'
    BY <1>2, <1>5, <2>3, <2>5, <2>6 DEF At
  <2> QED BY <1>5, <2>2, <2>5, <2>7 DEF OnTrack, Placed, Publishes
<1>6. CASE c \in Players /\ m.kind = "create" /\ turn'[c] = 3
  <2>2. /\ Sends(c, m, <<Answer("createRes", Tid(c))>>, "created", "created")
        /\ ~crashed' /\ IsCommand(m)
    BY <1>6 DEF IdentifyClient, Skips, IsCommand, Expected
  <2>3. /\ Len(<<Answer("createRes", Tid(c))>>) = 1
        /\ <<Answer("createRes", Tid(c))>>[1] = Answer("createRes", 2)
    BY <1>3
  <2>4. Follows(c, <<Answer("createRes", Tid(c))>>, Len(out[c]))
    BY <1>2, <1>6, <2>3, Scripts DEF Follows, At
  <2>5. /\ pc'[c] = "created" /\ Heard(c)'
        /\ Len(out'[c]) = Len(out[c]) + Len(<<Answer("createRes", Tid(c))>>)
    BY <1>0, <1>2, <2>2, <2>4, SendsHeard
  <2>6. ProperUrl(c)'
    BY <1>2, <1>3, Zenon DEF ProperUrl
  <2>7. Len(out'[c]) = 5
    BY <1>2, <2>3, <2>5 DEF At
  <2> QED BY <1>6, <2>2, <2>5, <2>6, <2>7 DEF OnTrack, Placed, Plays
<1> QED
  <2>1. turn[c] = 2
    BY <1>2 DEF At
  <2> QED BY <1>1, <1>2, <2>1, <1>4, <1>5, <1>6, Turns DEF Conns

LEMMA PlayOnTrack ==
  ASSUME Typed, NEW c \in Conns, NEW m \in Msgs, OnScript(c), ~crashed, cause'[c] = {},
         AwaitPlay(c, m)
  PROVE  OnTrack(c)
<1>0. StartPlay \in Seq(Answers) /\ Again(c) \in Places /\ "created" \in Places
  BY AnswerTypes DEF Places, Again
<1>1. cause[c] = {} /\ Provided(c, m)
  BY <1>0, SendsAll, SilentBlameless DEF AwaitPlay
<1>2. /\ c \in Players /\ turn[c] = 3 /\ Len(out[c]) = 5 /\ ProperUrl(c) /\ Heard(c)
      /\ Says(c, m) /\ url'[c] = url[c]
  BY <1>1 DEF OnScript, Placed, Publishes, Plays, AwaitPlay
<1>3. CASE m.kind = "play"
  <2>1. Proper(m) /\ turn'[c] = 4
    BY <1>1, <1>2, <1>3, Turns
  <2>2. Servable(url[c], m.name)
    BY <1>2, <1>3, <2>1 DEF Servable, DiscoveryTcUrl, Resolve, ProperUrl, Proper
  <2>3. Sends(c, m, StartPlay, "playing", Again(c)) /\ ~crashed'
    BY <1>3, <2>2 DEF AwaitPlay, Expected, Fails, Decodes, MayAbort
  <2>4. Follows(c, StartPlay, Len(out[c])) /\ Len(StartPlay) = 3
    BY <1>2, Scripts DEF Follows
  <2>5. pc'[c] = "playing" /\ Len(out'[c]) = Len(out[c]) + Len(StartPlay) /\ Heard(c)'
    BY <1>0, <1>2, <2>3, <2>4, SendsHeard
  <2> QED BY <1>2, <2>1, <2>3, <2>4, <2>5 DEF OnTrack, Placed, Plays
<1>4. CASE m.kind # "play"
  <2>1. m.kind # "bad" /\ turn'[c] = 3
    BY <1>1, <1>2, <1>4, Turns
  <2>2. ~(IsCommand(m) /\ Fails(m))
    BY <2>1 DEF IsCommand, Fails, Decodes
  <2>3. Silent(c, m, "created") /\ ~crashed'
    BY <1>4, <2>1, <2>2 DEF AwaitPlay, Expected, MayAbort
  <2>4. pc'[c] = "created" /\ out'[c] = out[c]
    BY <1>0, <2>3, SilentBlameless
  <2> QED BY <1>2, <2>1, <2>3, <2>4 DEF OnTrack, Placed, Plays, ProperUrl, Heard
<1> QED BY <1>3, <1>4

LEMMA PublishOnTrack ==
  ASSUME Typed, NEW c \in Conns, NEW m \in Msgs, OnScript(c), ~crashed, cause'[c] = {},
         FCPublish(c, m) \/ CreateStream(c, m) \/ AwaitPublish(c, m)
  PROVE  OnTrack(c)
<1>0. /\ <<FmleRes(c)>> \in Seq(Answers) /\ <<Answer("createRes", Tid(c))>> \in Seq(Answers)
      /\ PublishStart \in Seq(Answers) /\ Again(c) \in Places /\ Says(c, m)
  BY AnswerTypes DEF Places, Again, FCPublish, CreateStream, AwaitPublish
<1>1. ASSUME Blames(c, Amiss(c, m) \cup {"refused"}) PROVE FALSE
  BY <1>1, Blameless
<1>2. cause[c] = {} /\ Provided(c, m)
  BY <1>0, <1>1, SendsAll, SilentBlameless DEF FCPublish, CreateStream, AwaitPublish
<1>3. Placed(c) /\ Heard(c)
  BY <1>2 DEF OnScript
<1>4. IsCommand(m) => Len(asked'[c]) = Len(asked[c]) + 1
  BY <1>0, SaysAsks
<1>5. CASE FCPublish(c, m)
  <2>1. c \in Publishers /\ At(c, 3, 2, 5)
    BY <1>3, <1>5 DEF FCPublish, Placed, Publishes, Plays
  <2>2. m.kind = "fmle" /\ turn'[c] = 4 /\ IsCommand(m)
    BY <1>0, <1>2, <2>1, Turns DEF At, IsCommand
  <2>3. Sends(c, m, <<FmleRes(c)>>, "create", Again(c)) /\ ~crashed'
    BY <1>5, <2>2 DEF FCPublish, Fails, Null, Decodes, Expected, MayAbort
  <2>4. Len(<<FmleRes(c)>>) = 1 /\ <<FmleRes(c)>>[1] = Answer("fmleRes", 3)
    BY <2>1 DEF FmleRes, Tid, At
  <2>5. Follows(c, <<FmleRes(c)>>, Len(out[c]))
    BY <2>1, <2>4, Scripts DEF Follows, At
  <2>6. pc'[c] = "create" /\ Len(out'[c]) = Len(out[c]) + Len(<<FmleRes(c)>>) /\ Heard(c)'
    BY <1>0, <1>3, <2>3, <2>5, SendsHeard
  <2>7. At(c, 4, 3, 6)'
    BY <1>4, <2>1, <2>2, <2>4, <2>6 DEF At
  <2> QED BY <2>1, <2>3, <2>6, <2>7 DEF OnTrack, Placed, Publishes
<1>6. CASE CreateStream(c, m)
  <2> DEFINE a == <<Answer("createRes", Tid(c))>>
  <2>1. c \in Publishers /\ At(c, 4, 3, 6)
    BY <1>3, <1>6 DEF CreateStream, Placed, Publishes, Plays
  <2>2. m.kind = "create" /\ turn'[c] = 5 /\ IsCommand(m)
    BY <1>0, <1>2, <2>1, Turns DEF At, IsCommand
  <2>3. Sends(c, m, a, "publish", Again(c)) /\ ~crashed'
    BY <1>6, <2>2 DEF CreateStream, Fails, Null, Decodes, Expected, MayAbort
  <2>4. Len(a) = 1 /\ a[1] = Answer("createRes", 4)
    BY <2>1 DEF Tid, At
  <2>5. a \in Seq(Answers)
    BY <1>0
  <2> HIDE DEF a
  <2>6. Follows(c, a, Len(out[c]))
    BY <2>1, <2>4, Scripts DEF Follows, At
  <2>7. pc'[c] = "publish" /\ Len(out'[c]) = Len(out[c]) + Len(a) /\ Heard(c)'
    BY <1>3, <2>3, <2>5, <2>6, SendsHeard
  <2>8. At(c, 5, 4, 7)'
    BY <1>4, <2>1, <2>2, <2>4, <2>7 DEF At
  <2> QED BY <2>1, <2>3, <2>7, <2>8 DEF OnTrack, Placed, Publishes
<1>7. CASE AwaitPublish(c, m)
  <2>1. c \in Publishers /\ At(c, 5, 4, 7)
    BY <1>3, <1>7 DEF AwaitPublish, Placed, Publishes, Plays
  <2>2. m.kind = "publish" /\ turn'[c] = 6
    BY <1>0, <1>2, <2>1, Turns DEF At
  <2>3. Sends(c, m, PublishStart, "publishing", Again(c)) /\ ~crashed'
    BY <1>1, <1>7, <2>2 DEF AwaitPublish, Fails, Null, Decodes, Expected, MayAbort
  <2>4. Follows(c, PublishStart, Len(out[c])) /\ Len(PublishStart) = 2
    BY <2>1, Scripts DEF Follows, At
  <2>5. pc'[c] = "publishing" /\ Len(out'[c]) = Len(out[c]) + Len(PublishStart) /\ Heard(c)'
    BY <1>0, <1>3, <2>3, <2>4, SendsHeard
  <2>6. Len(out'[c]) >= 9
    BY <2>1, <2>4, <2>5 DEF At
  <2> QED BY <2>1, <2>2, <2>3, <2>5, <2>6 DEF OnTrack, Placed, Publishes
<1> QED BY <1>5, <1>6, <1>7

LEMMA ServedOnTrack ==
  ASSUME Typed, NEW c \in Conns, NEW m \in Msgs, OnScript(c), ~crashed, cause'[c] = {},
         PublishMessage(c, m) \/ PlayMessage(c, m)
  PROVE  OnTrack(c)
<1>0. /\ FMLEUnPublish(c) \in Seq(Answers) /\ "publishing" \in Places /\ "playing" \in Places
      /\ Says(c, m)
  BY AnswerTypes DEF Places, PublishMessage, PlayMessage
<1>1. cause[c] = {} /\ Provided(c, m)
  BY <1>0, SendsAll, SilentBlameless DEF PublishMessage, PlayMessage
<1>2. Placed(c) /\ Heard(c) /\ Len(out[c]) \in Nat
  BY <1>1 DEF OnScript, Typed
<1>3. CASE PlayMessage(c, m)
  <2>1. /\ c \in Players /\ turn[c] = 4 /\ Len(out[c]) = 8 /\ Silent(c, m, "playing")
        /\ ~crashed'
    BY <1>2, <1>3 DEF PlayMessage, Placed, Publishes, Plays
  <2>2. turn'[c] = 4 /\ pc'[c] = "playing" /\ out'[c] = out[c]
    BY <1>0, <1>1, <2>1, Turns, SilentBlameless
  <2> QED BY <1>0, <1>2, <2>1, <2>2 DEF OnTrack, Placed, Plays, Heard
<1>4. CASE PublishMessage(c, m)
  <2>1. c \in Publishers /\ turn[c] = 6 /\ Len(out[c]) >= 9
    BY <1>2, <1>4 DEF PublishMessage, Placed, Publishes, Plays
  <2>2. turn'[c] = 6 /\ ~MayAbort(m)
    BY <1>0, <1>1, <2>1, Turns
  <2>5. ~crashed'
    BY <1>4, <2>2 DEF PublishMessage
  <2>3. CASE Silent(c, m, "publishing")
    <3>1. pc'[c] = "publishing" /\ out'[c] = out[c]
      BY <1>0, <2>3, SilentBlameless
    <3> QED BY <1>0, <1>2, <2>1, <2>2, <2>5, <3>1 DEF OnTrack, Placed, Publishes, Heard
  <2>4. CASE Sends(c, m, FMLEUnPublish(c), "publishing", "publishing")
    <3>1. Len(FMLEUnPublish(c)) \in Nat
      BY <1>0
    <3>2. Follows(c, FMLEUnPublish(c), Len(out[c]))
      <4>1. Len(Script(c)) = 9
        BY <2>1, Scripts
      <4> QED BY <1>2, <2>1, <3>1, <4>1 DEF Follows
    <3>3. /\ pc'[c] = "publishing" /\ Heard(c)'
          /\ Len(out'[c]) = Len(out[c]) + Len(FMLEUnPublish(c))
      BY <1>0, <1>2, <2>4, <3>2, SendsHeard
    <3>4. Len(out'[c]) >= 9
      BY <1>2, <2>1, <3>1, <3>3
    <3> QED BY <1>0, <2>1, <2>2, <2>5, <3>3, <3>4 DEF OnTrack, Placed, Publishes
  <2> QED BY <1>4, <2>2, <2>3, <2>4 DEF PublishMessage
<1> QED BY <1>3, <1>4

LEMMA ReceiveOnTrack ==
  ASSUME Typed, NEW c \in Conns, NEW m \in Msgs, OnScript(c), ~crashed, Receive(c, m)
  PROVE  cause'[c] = {} => OnTrack(c)
BY ConnectOnTrack, IdentifyOnTrack, PlayOnTrack, PublishOnTrack, ServedOnTrack DEF Receive
-----------------------------------------------------------------------------
(***************************************************************************)
(* Sources.                                                                *)
(***************************************************************************)
\* The vhost of a request that may be served is found again by its stream url.
LEMMA StreamUrlExact ==
  ASSUME NEW v \in Vhosts, NEW w \in Vhosts, v # "", w # "", StreamUrl(v) = StreamUrl(w)
  PROVE  v = w
BY DEF StreamUrl

SourcesKept ==
  /\ Len(sources) <= Len(sources')
  /\ \A i \in 1 .. Len(sources) : sources'[i] = sources[i]

LEMMA LocateExact ==
  ASSUME Typed, PoolExact, NEW c \in Conns, NEW name \in Names, Locate(c, name)
  PROVE  /\ PoolExact' /\ SourcesKept
         /\ Servable(url[c], name) =>
              src'[c] \in 1 .. Len(sources') /\ sources'[src'[c]] = vhost'[c]
<1> DEFINE v == DiscoveryTcUrl(url[c], name)
<1>1. v \in Vhosts /\ (v # "" => StreamUrl(v) \in Vhosts \ {DefaultVhost})
  BY VhostNamed, SessionAssumption DEF Typed, StreamUrl, Vhosts
<1> HIDE DEF v
<1>2. vhost'[c] = v
  BY DEF Locate, Typed, v
<1>3. /\ pool \in [Vhosts \ {DefaultVhost} -> Nat] /\ sources \in Seq(Vhosts)
      /\ Len(sources) \in Nat
  BY DEF Typed
<1>4. CASE ~Servable(url[c], name)
  <2>1. UNCHANGED <<src, pool, sources>>
    BY <1>4 DEF Locate
  <2>2. PoolExact'
    BY <2>1 DEF PoolExact
  <2> QED BY <1>3, <1>4, <2>1, <2>2 DEF SourcesKept
<1>6. /\ DOMAIN pool = Vhosts \ {DefaultVhost}
      /\ \A k \in Vhosts \ {DefaultVhost} : pool[k] # 0 =>
           pool[k] \in 1 .. Len(sources) /\ StreamUrl(sources[pool[k]]) = k
  <2>1. DOMAIN pool = Vhosts \ {DefaultVhost}
    BY <1>3
  <2>2. ASSUME NEW k \in Vhosts \ {DefaultVhost}, pool[k] # 0
        PROVE  pool[k] \in 1 .. Len(sources) /\ StreamUrl(sources[pool[k]]) = k
    <3>1. pool[k] \in Nat
      BY <1>3
    <3>2. pool[k] <= Len(sources) /\ StreamUrl(sources[pool[k]]) = k
      BY <2>1, <2>2 DEF PoolExact
    <3> QED BY <1>3, <2>2, <3>1, <3>2
  <2> QED BY <2>1, <2>2
<1>7. CASE Servable(url[c], name)
  <2>1. FetchOrCreate(c, v) /\ v # ""
    BY <1>7 DEF Locate, Servable, v
  <2>2. CASE pool[StreamUrl(v)] # 0
    <3>1. src'[c] = pool[StreamUrl(v)] /\ UNCHANGED <<pool, sources>>
      BY <2>1, <2>2 DEF FetchOrCreate, Typed
    <3>2. src'[c] \in 1 .. Len(sources) /\ StreamUrl(sources[src'[c]]) = StreamUrl(v)
      BY <1>1, <1>6, <2>1, <2>2, <3>1
    <3>3. sources[src'[c]] # "" /\ sources[src'[c]] \in Vhosts
      BY <1>3, <3>2, ElementOfSeq DEF PoolExact
    <3>4. sources[src'[c]] = v
      BY <1>1, <2>1, <3>2, <3>3, StreamUrlExact
    <3>5. PoolExact'
      BY <3>1 DEF PoolExact
    <3>6. SourcesKept
      BY <1>3, <3>1 DEF SourcesKept
    <3> QED BY <1>2, <3>1, <3>2, <3>4, <3>5, <3>6
  <2>3. CASE pool[StreamUrl(v)] = 0
    <3> DEFINE n == Len(sources) + 1
    <3>1. /\ sources' = Append(sources, v)
          /\ pool' = [pool EXCEPT ![StreamUrl(v)] = n] /\ src'[c] = n
      BY <2>1, <2>3 DEF FetchOrCreate, Typed
    <3>2. /\ Len(sources') = n /\ sources'[n] = v
          /\ \A i \in 1 .. Len(sources) : sources'[i] = sources[i]
      <4>1. sources \in Seq(Vhosts) /\ v \in Vhosts /\ sources' = Append(sources, v)
        BY <1>1, <1>3, <3>1
      <4> HIDE <1>1, <1>3
      <4> QED BY <4>1
    <3> HIDE DEF n
    <3>7. n = Len(sources) + 1
      BY DEF n
    <3>8. /\ pool'[StreamUrl(v)] = n /\ DOMAIN pool' = DOMAIN pool
          /\ \A k \in DOMAIN pool : k # StreamUrl(v) => pool'[k] = pool[k]
      BY <1>1, <1>3, <2>1, <3>1
    <3>3. ASSUME NEW k \in DOMAIN pool', pool'[k] # 0
          PROVE  pool'[k] <= Len(sources') /\ StreamUrl(sources'[pool'[k]]) = k
      <4>1. CASE k = StreamUrl(v)
        BY <3>8, <3>7, <1>3, <3>2, <4>1
      <4>2. CASE k # StreamUrl(v)
        <5>1. k \in Vhosts \ {DefaultVhost} /\ pool'[k] = pool[k]
          BY <1>6, <3>8, <4>2
        <5>2. pool[k] \in 1 .. Len(sources) /\ StreamUrl(sources[pool[k]]) = k
          BY <1>6, <3>3, <5>1
        <5> QED BY <1>3, <3>7, <3>2, <5>1, <5>2
      <4> QED BY <4>1, <4>2
    <3>4. ASSUME NEW i \in 1 .. Len(sources')
          PROVE  sources'[i] # "" /\ pool'[StreamUrl(sources'[i])] = i
      <4>1. CASE i = n
        BY <2>1, <3>8, <3>2, <4>1
      <4>2. CASE i # n
        <5>1. i \in 1 .. Len(sources) /\ sources'[i] = sources[i]
          BY <1>3, <3>7, <3>2, <4>2
        <5>2. sources[i] # "" /\ pool[StreamUrl(sources[i])] = i
          BY <5>1 DEF PoolExact
        <5>3. StreamUrl(sources[i]) # StreamUrl(v)
          <6>1. i # 0
            BY <1>3, <5>1
          <6> QED BY <2>3, <5>2, <6>1
        <5>4. sources[i] \in Vhosts
          BY <1>3, <5>1, ElementOfSeq
        <5>5. StreamUrl(sources[i]) \in DOMAIN pool
          BY <1>6, <5>2, <5>4, SessionAssumption DEF StreamUrl, Vhosts
        <5> QED BY <3>8, <5>1, <5>2, <5>3, <5>5
      <4> QED BY <4>1, <4>2
    <3>5. PoolExact'
      BY <3>3, <3>4 DEF PoolExact
    <3> QED BY <1>2, <1>3, <3>7, <3>1, <3>2, <3>5 DEF SourcesKept
  <2> QED BY <2>2, <2>3
<1> QED BY <1>4, <1>7

\* A session opens with the Source that Locate has found, and keeps it.
LEMMA ReceiveLocates ==
  ASSUME Typed, NEW c \in Conns, NEW m \in Msgs, Receive(c, m)
  PROVE  \/ /\ UNCHANGED <<vhost, src, pool, sources>>
            /\ InSession(c)' => InSession(c)
         \/ \E name \in Names : Locate(c, name) /\ (InSession(c)' => Servable(url[c], name))
<1> USE DEF InSession, Again
<1>1. ASSUME NEW next, Silent(c, m, next) PROVE pc'[c] = next
  BY <1>1 DEF Silent, Typed
<1>2. ASSUME NEW a, NEW next, NEW fail, Sends(c, m, a, next, fail)
      PROVE  pc'[c] = next \/ pc'[c] = fail
  BY <1>2 DEF Sends, Typed
<1>3. ASSUME Dies(c, m) PROVE pc'[c] = pc[c]
  BY <1>3 DEF Dies
<1>4. CASE ConnectApp(c, m)
  BY <1>1, <1>2, <1>3, <1>4 DEF ConnectApp
<1>5. CASE IdentifyClient(c, m)
  <2>1. CASE Expected(m, "fmle")
    <3>1. m.name \in Names /\ ~Skips(m)
      BY <2>1, MessageParts DEF Expected, Skips, IsCommand
    <3>2. /\ Sends(c, m, <<FmleRes(c)>>,
                   IF Servable(url[c], m.name) THEN "fcpublish" ELSE Again(c), Again(c))
          /\ IF Len(out'[c]) > Len(out[c]) THEN Locate(c, m.name)
                                           ELSE UNCHANGED <<vhost, src, pool, sources>>
      BY <1>5, <2>1, <3>1 DEF IdentifyClient, Expected
    <3>3. PICK n \in 0 .. Len(<<FmleRes(c)>>) :
            /\ out' = [out EXCEPT ![c] = @ \o SubSeq(<<FmleRes(c)>>, 1, n)]
            /\ pc' = [pc EXCEPT ![c] =
                 IF n = Len(<<FmleRes(c)>>)
                 THEN IF Servable(url[c], m.name) THEN "fcpublish" ELSE Again(c) ELSE Again(c)]
      BY <3>2 DEF Sends
    <3>4. Len(<<FmleRes(c)>>) = 1 /\ Len(out'[c]) = Len(out[c]) + n /\ Len(out[c]) \in Nat
      <4>1. <<FmleRes(c)>> \in Seq(Answers) /\ out[c] \in Seq(Answers)
        BY AnswerTypes DEF Typed
      <4>2. out'[c] = out[c] \o SubSeq(<<FmleRes(c)>>, 1, n)
        BY <3>3 DEF Typed
      <4>3. Len(out[c] \o SubSeq(<<FmleRes(c)>>, 1, n)) = Len(out[c]) + n
        BY <4>1, Sent
      <4>4. Len(out[c]) \in Nat
        BY <4>1
      <4>5. Len(<<FmleRes(c)>>) = 1
        OBVIOUS
      <4>6. Len(out'[c]) = Len(out[c]) + n
        BY <4>2, <4>3
      <4> QED BY <4>4, <4>5, <4>6
    <3>5. CASE n = 0
      BY <3>2, <3>3, <3>4, <3>5 DEF Typed
    <3>6. CASE n = 1
      <4>1. Locate(c, m.name)
        BY <3>2, <3>4, <3>6
      <4>2. pc'[c] = IF Servable(url[c], m.name) THEN "fcpublish" ELSE "identify"
        BY <3>3, <3>4, <3>6 DEF Typed
      <4> QED BY <3>1, <4>1, <4>2
    <3> QED BY <3>4, <3>5, <3>6
  <2>2. CASE ~Expected(m, "fmle")
    <3>1. /\ UNCHANGED <<vhost, src, pool, sources>>
          /\ pc'[c] = "identify" \/ pc'[c] = "created" \/ pc'[c] = pc[c]
      BY <1>1, <1>2, <1>3, <1>5, <2>2 DEF IdentifyClient
    <3> QED BY <1>5, <3>1 DEF IdentifyClient
  <2> QED BY <2>1, <2>2
<1>6. CASE AwaitPlay(c, m)
  <2>1. CASE Expected(m, "play")
    <3>1. m.name \in Names /\ ~Fails(m) /\ ~MayAbort(m)
      BY <2>1, MessageParts DEF Expected, Fails, Decodes, MayAbort
    <3>2. /\ Locate(c, m.name)
          /\ ~Servable(url[c], m.name) => pc'[c] = "identify"
      BY <1>1, <1>6, <2>1, <3>1 DEF AwaitPlay
    <3> QED BY <3>1, <3>2
  <2>2. CASE ~Expected(m, "play")
    BY <1>1, <1>3, <1>6, <2>2 DEF AwaitPlay
  <2> QED BY <2>1, <2>2
<1>7. CASE FCPublish(c, m) \/ CreateStream(c, m) \/ PublishMessage(c, m) \/ PlayMessage(c, m)
  BY <1>1, <1>2, <1>3, <1>7 DEF FCPublish, CreateStream, PublishMessage, PlayMessage
<1>8. CASE AwaitPublish(c, m)
  BY <1>8 DEF AwaitPublish
<1> QED BY <1>4, <1>5, <1>6, <1>7, <1>8 DEF Receive
-----------------------------------------------------------------------------
\* Connections of which a step is not.
LEMMA OthersKept ==
  ASSUME Typed, NEW c \in Conns, NEW d \in Conns, d # c, Step(c) \/ Close(c)
  PROVE  /\ pc'[d] = pc[d] /\ url'[d] = url[d] /\ vhost'[d] = vhost[d] /\ src'[d] = src[d]
         /\ out'[d] = out[d] /\ asked'[d] = asked[d] /\ turn'[d] = turn[d]
         /\ cause'[d] = cause[d]
<1> USE DEF Typed
<1>1. ASSUME NEW why, Blames(c, why) PROVE cause'[d] = cause[d]
  BY <1>1 DEF Blames
<1>2. CASE Accept(c) \/ C0C1(c) \/ C2(c)
  BY <1>1, <1>2 DEF Accept, C0C1, C2, clientVars
<1>3. CASE SessionEnds(c) \/ ReadFails(c) \/ Close(c)
  BY <1>1, <1>3 DEF SessionEnds, ReadFails, Close, Returns, connVars
<1>4. ASSUME NEW m \in Msgs, Receive(c, m)
      PROVE  /\ pc'[d] = pc[d] /\ url'[d] = url[d] /\ vhost'[d] = vhost[d] /\ src'[d] = src[d]
             /\ out'[d] = out[d] /\ asked'[d] = asked[d] /\ turn'[d] = turn[d]
             /\ cause'[d] = cause[d]
  <2> DEFINE Same == pc'[d] = pc[d] /\ out'[d] = out[d] /\ cause'[d] = cause[d]
  <2>1. ASSUME Says(c, m) PROVE asked'[d] = asked[d] /\ turn'[d] = turn[d]
    BY <2>1 DEF Says
  <2>2. ASSUME NEW a, NEW next, NEW fail, Sends(c, m, a, next, fail) PROVE Same
    BY <1>1, <2>2 DEF Sends
  <2>3. ASSUME NEW next, Silent(c, m, next) \/ Dies(c, m) PROVE Same
    BY <1>1, <2>3 DEF Silent, Dies
  <2>4. ASSUME NEW name, Locate(c, name) PROVE vhost'[d] = vhost[d] /\ src'[d] = src[d]
    BY <2>4 DEF Locate, FetchOrCreate
  <2> HIDE DEF Same
  <2>5. Same
    <3>1. CASE ConnectApp(c, m) \/ IdentifyClient(c, m) \/ AwaitPlay(c, m)
      BY <2>2, <2>3, <3>1 DEF ConnectApp, IdentifyClient, AwaitPlay
    <3>2. CASE FCPublish(c, m) \/ CreateStream(c, m) \/ PublishMessage(c, m) \/ PlayMessage(c, m)
      BY <2>2, <2>3, <3>2 DEF FCPublish, CreateStream, PublishMessage, PlayMessage
    <3>3. CASE AwaitPublish(c, m)
      BY <1>1, <2>2, <2>3, <3>3 DEF AwaitPublish, Same
    <3> QED BY <1>4, <3>1, <3>2, <3>3 DEF Receive
  <2>6. vhost'[d] = vhost[d] /\ src'[d] = src[d]
    BY <1>4, <2>4, ReceiveLocates
  <2>7. url'[d] = url[d]
    BY <1>4 DEF Receive, ConnectApp, IdentifyClient, AwaitPlay, FCPublish, CreateStream,
                AwaitPublish, PublishMessage, PlayMessage
  <2>8. Says(c, m)
    BY <1>4 DEF Receive, ConnectApp, IdentifyClient, AwaitPlay, FCPublish, CreateStream,
                AwaitPublish, PublishMessage, PlayMessage
  <2> QED BY <2>1, <2>5, <2>6, <2>7, <2>8 DEF Same
<1> QED BY <1>2, <1>3, <1>4 DEF Step
-----------------------------------------------------------------------------
\* Before anybody has connected.
LEMMA InitIInv == Init => IInv
<1> SUFFICES ASSUME Init PROVE IInv
  OBVIOUS
<1>1. PoolExact /\ CrashForCause
  <2>1. Len(sources) = 0 /\ \A k \in DOMAIN pool : pool[k] = 0
    BY DEF Init
  <2>2. PoolExact
    BY <2>1 DEF PoolExact
  <2> QED BY <2>2 DEF Init, CrashForCause
<1>2. ASSUME NEW c \in Conns PROVE ConnInv(c)
  <2>1. /\ pc[c] = "none" /\ out[c] = <<>> /\ asked[c] = <<>> /\ turn[c] = 1
        /\ Len(out[c]) = 0 /\ Len(asked[c]) = 0
    BY DEF Init
  <2> QED BY <2>1 DEF ConnInv, NothingSaid, Answered, OnScript, Placed, At, Heard, Sourced,
                      InSession
<1> QED BY <1>1, <1>2, InitTyped DEF IInv

\* The place in a dialogue of a connection that does nothing.
LEMMA ScriptKept ==
  ASSUME NEW c, pc'[c] = pc[c], url'[c] = url[c], out'[c] = out[c], asked'[c] = asked[c],
         turn'[c] = turn[c]
  PROVE  (Placed(c) => Placed(c)') /\ (Heard(c) => Heard(c)')
<1>1. ProperUrl(c) => ProperUrl(c)'
  BY Zenon DEF ProperUrl
<1>2. Placed(c) => Placed(c)'
  BY <1>1 DEF Placed, Publishes, Plays, At
<1>3. Heard(c) => Heard(c)'
  BY DEF Heard
<1> QED BY <1>2, <1>3

\* What is true of a connection stays so in the steps of others.
LEMMA OthersInv ==
  ASSUME IInv, NEW c \in Conns, NEW d \in Conns, d # c, Step(c) \/ Close(c),
         crashed' \/ ~crashed, SourcesKept
  PROVE  ConnInv(d)'
<1>1. /\ pc'[d] = pc[d] /\ url'[d] = url[d] /\ vhost'[d] = vhost[d] /\ src'[d] = src[d]
      /\ out'[d] = out[d] /\ asked'[d] = asked[d] /\ turn'[d] = turn[d]
      /\ cause'[d] = cause[d]
  BY OthersKept DEF IInv
<1>2. ConnInv(d)
  BY DEF IInv
<1>3. NothingSaid(d)'
  BY <1>1, <1>2 DEF ConnInv, NothingSaid
<1>4. Answered(d)'
  BY <1>1, <1>2 DEF ConnInv, Answered
<1>5. OnScript(d)'
  BY <1>1, <1>2, ScriptKept DEF ConnInv, OnScript
<1>6. Sourced(d)'
  <2>1. Len(sources) \in Nat /\ Len(sources') \in Nat
    <3>1. Typed'
      BY OtherTyped, ReceiveTyped DEF IInv, Step, Other
    <3> QED BY <3>1 DEF IInv, Typed
  <2> QED BY <1>1, <1>2, <2>1 DEF ConnInv, Sourced, InSession, SourcesKept
<1> QED BY <1>3, <1>4, <1>5, <1>6 DEF ConnInv

\* A step on a message.
LEMMA ReceiveIInv ==
  ASSUME IInv, ~crashed, NEW c \in Conns, NEW m \in Msgs, Receive(c, m) PROVE IInv'
<1>1. Typed /\ PoolExact /\ ConnInv(c)
  BY DEF IInv
<1>2. Typed'
  BY <1>1, ReceiveTyped
<1>3. Says(c, m)
  BY DEF Receive, ConnectApp, IdentifyClient, AwaitPlay, FCPublish, CreateStream, AwaitPublish,
         PublishMessage, PlayMessage
<1>4. cause'[c] = {} => OnTrack(c)
  BY <1>1, ReceiveOnTrack DEF ConnInv
<1>5. PoolExact' /\ SourcesKept /\ Sourced(c)'
  <2>1. CASE UNCHANGED <<vhost, src, pool, sources>> /\ (InSession(c)' => InSession(c))
    <3>1. PoolExact'
      BY <1>1, <2>1 DEF PoolExact
    <3>2. SourcesKept
      BY <1>1, <2>1 DEF SourcesKept, Typed
    <3>3. Sourced(c)'
      BY <1>1, <2>1 DEF ConnInv, Sourced
    <3> QED BY <3>1, <3>2, <3>3
  <2>2. CASE \E name \in Names : Locate(c, name) /\ (InSession(c)' => Servable(url[c], name))
    <3>1. PICK name \in Names : Locate(c, name) /\ (InSession(c)' => Servable(url[c], name))
      BY <2>2
    <3> QED BY <1>1, <3>1, LocateExact DEF Sourced
  <2> QED BY <1>1, <2>1, <2>2, ReceiveLocates
<1>6. Answered(c)'
  BY <1>1, <1>3, RepliesAnswered, ReceiveReplies DEF ConnInv
<1>7. NothingSaid(c)'
  <2>1. ASSUME pc'[c] \in {"none", "c0c1", "c2", "connect"} PROVE crashed'
    <3>1. ASSUME NEW next, Silent(c, m, next) PROVE pc'[c] = next
      BY <1>1, <3>1 DEF Silent, Typed
    <3>2. ASSUME NEW a, NEW next, NEW fail, Sends(c, m, a, next, fail)
          PROVE  pc'[c] = next \/ pc'[c] = fail
      BY <1>1, <3>2 DEF Sends, Typed
    <3>3. CASE ConnectApp(c, m) \/ IdentifyClient(c, m) \/ AwaitPlay(c, m)
      BY <2>1, <3>1, <3>2, <3>3 DEF ConnectApp, IdentifyClient, AwaitPlay, Dies, Again
    <3>4. CASE FCPublish(c, m) \/ CreateStream(c, m) \/ PublishMessage(c, m) \/ PlayMessage(c, m)
      BY <2>1, <3>1, <3>2, <3>4 DEF FCPublish, CreateStream, PublishMessage, PlayMessage, Dies, Again
    <3>5. CASE AwaitPublish(c, m)
      <4>1. pc' = [pc EXCEPT ![c] = Again(c)] => pc'[c] = "identify"
        BY <1>1 DEF Again, Typed
      <4> QED BY <2>1, <3>1, <3>2, <3>5, <4>1 DEF AwaitPublish, Again, Dies
    <3> QED BY <3>3, <3>4, <3>5 DEF Receive
  <2> QED BY <2>1 DEF NothingSaid
<1>8. ConnInv(c)'
  BY <1>4, <1>5, <1>6, <1>7 DEF ConnInv, OnScript, OnTrack
<1>9. ASSUME NEW d \in Conns, d # c PROVE ConnInv(d)'
  BY <1>5, <1>9, OthersInv DEF Step
<1>10. CrashForCause'
  BY <1>4 DEF CrashForCause, OnTrack
<1> QED BY <1>2, <1>5, <1>8, <1>9, <1>10 DEF IInv

\* A step that reads no message.
LEMMA OtherIInv ==
  ASSUME IInv, ~crashed, NEW c \in Conns, Other(c) PROVE IInv'
<1>1. Typed /\ PoolExact /\ ConnInv(c)
  BY DEF IInv
<1>2. Typed'
  BY <1>1, OtherTyped
<1>3. UNCHANGED <<url, vhost, src, out, pool, sources, crashed, asked, turn>>
  BY DEF Other, Accept, C0C1, C2, SessionEnds, ReadFails, Close, clientVars, connVars
<1>4. PoolExact' /\ SourcesKept
  <2>1. PoolExact'
    BY <1>1, <1>3 DEF PoolExact
  <2>2. SourcesKept
    BY <1>1, <1>3 DEF SourcesKept, Typed
  <2> QED BY <2>1, <2>2
<1>5. CrashForCause'
  BY <1>3 DEF CrashForCause
<1>6. /\ pc'[c] \in {"none", "c0c1", "c2", "connect"} => pc[c] \in {"none", "c0c1", "c2", "connect"}
      /\ InSession(c)' => InSession(c)
      /\ cause'[c] = {} =>
           /\ cause[c] = {}
           /\ \/ pc'[c] = pc[c]
              \/ /\ pc[c] \in {"none", "c0c1", "c2", "connect"}
                 /\ pc'[c] \in {"none", "c0c1", "c2", "connect"}
  <2>1. ASSUME NEW why, why # {}, Blames(c, why) PROVE cause'[c] # {}
    BY <1>1, <2>1, Blameless
  <2>2. {"refused"} # {} /\ {"order"} # {} /\ {"stalled"} # {} /\ {"ended"} # {}
    OBVIOUS
  <2>3. CASE Accept(c) \/ C0C1(c)
    BY <1>1, <2>1, <2>2, <2>3 DEF Accept, C0C1, InSession, Typed
  <2>4. CASE C2(c) \/ Close(c)
    BY <1>1, <2>4 DEF C2, Close, InSession, clientVars, connVars, Typed
  <2>5. CASE SessionEnds(c) \/ ReadFails(c)
    BY <1>1, <2>1, <2>2, <2>5 DEF SessionEnds, ReadFails, Returns, Again, InSession, Typed
  <2> QED BY <2>3, <2>4, <2>5 DEF Other
<1>7. NothingSaid(c)' /\ Answered(c)' /\ Sourced(c)'
  BY <1>1, <1>3, <1>6 DEF ConnInv, NothingSaid, Answered, Sourced
<1>8. OnScript(c)'
  <2> SUFFICES ASSUME cause'[c] = {} PROVE Placed(c)' /\ Heard(c)'
    BY DEF OnScript
  <2>1. Placed(c) /\ Heard(c)
    BY <1>1, <1>6 DEF ConnInv, OnScript
  <2>2. Heard(c)'
    BY <1>3, <2>1 DEF Heard
  <2>3. CASE pc'[c] = pc[c]
    BY <1>3, <2>1, <2>3, ScriptKept
  <2>4. CASE /\ pc[c] \in {"none", "c0c1", "c2", "connect"}
             /\ pc'[c] \in {"none", "c0c1", "c2", "connect"}
    BY <1>3, <2>1, <2>2, <2>4 DEF Placed, Publishes, Plays, At
  <2> QED BY <1>6, <2>2, <2>3, <2>4
<1>9. ASSUME NEW d \in Conns, d # c PROVE ConnInv(d)'
  BY <1>4, <1>9, OthersInv DEF Step, Other
<1> QED BY <1>2, <1>4, <1>5, <1>7, <1>8, <1>9 DEF IInv, ConnInv

\* Every step keeps the invariant.
LEMMA NextIInv == IInv /\ [Next]_vars => IInv'
<1> SUFFICES ASSUME IInv, [Next]_vars PROVE IInv'
  OBVIOUS
<1>1. CASE Next
  BY <1>1, ReceiveIInv, OtherIInv DEF Next, Halted, Step, Other
<1>2. CASE UNCHANGED vars
  <2>1. UNCHANGED <<pc, url, vhost, src, out, pool, sources, crashed, asked, turn, cause>>
    BY <1>2 DEF vars, connVars, clientVars
  <2>2. Typed' /\ PoolExact' /\ CrashForCause'
    BY <2>1 DEF IInv, Typed, PoolExact, CrashForCause
  <2>3. ASSUME NEW c \in Conns PROVE ConnInv(c)'
    <3>1. ConnInv(c)
      BY DEF IInv
    <3>2. NothingSaid(c)' /\ Answered(c)' /\ Sourced(c)'
      BY <2>1, <3>1 DEF ConnInv, NothingSaid, Answered, Sourced, InSession
    <3>3. OnScript(c)'
      BY <2>1, <3>1, ScriptKept DEF ConnInv, OnScript
    <3> QED BY <3>2, <3>3 DEF ConnInv
  <2> QED BY <2>2, <2>3 DEF IInv
<1> QED BY <1>1, <1>2

LEMMA SessionInvariant == Spec => []IInv
BY InitIInv, NextIInv, PTL DEF Spec

(***************************************************************************)
(* Whatever clients send, and wherever sends break off: an answer with a   *)
(* transaction id is to the command sent under that id, and the answers    *)
(* come in the order of the commands.                                      *)
(***************************************************************************)
THEOREM SessionAnswersAsked == Spec => []AnswersAsked
<1>1. IInv => AnswersAsked
  <2> SUFFICES ASSUME IInv, NEW c \in Conns PROVE Answered(c) /\ DOMAIN out[c] = 1 .. Len(out[c])
    BY DEF AnswersAsked, Answered
  <2> QED BY LenProperties DEF IInv, ConnInv, Typed
<1> QED BY <1>1, SessionInvariant, PTL

\* A client that is served has heard all of its script.
LEMMA ServedHeardAll ==
  ASSUME NEW c \in Conns, Placed(c), pc[c] \in {"publishing", "playing"}
  PROVE  Len(out[c]) >= Len(Script(c))
<1>1. CASE c \in Publishers /\ Len(out[c]) >= 9
  <2>1. Len(Script(c)) = 9
    BY <1>1, Scripts
  <2> QED BY <1>1, <2>1
<1>2. CASE c \in Players /\ Len(out[c]) = 8
  <2>1. Len(Script(c)) = 8
    BY <1>2, Scripts
  <2> QED BY <1>2, <2>1
<1> QED BY <1>1, <1>2 DEF Placed, Publishes, Plays

(***************************************************************************)
(* As long as nothing has gone amiss for a client, it has heard its script *)
(* as far as its connection has come, and all of it when it is served.     *)
(***************************************************************************)
THEOREM SessionDialogueExact == Spec => []DialogueExact
<1>1. IInv => DialogueExact
  <2> SUFFICES ASSUME IInv, NEW c \in Conns, cause[c] = {}, NEW n, NEW k,
                      n = Len(out[c]), k = Len(Script(c))
               PROVE  /\ SubSeq(out[c], 1, IF n < k THEN n ELSE k) =
                           SubSeq(Script(c), 1, IF n < k THEN n ELSE k)
                      /\ pc[c] \in {"publishing", "playing"} => n >= k
    BY DEF DialogueExact
  <2>1. Placed(c) /\ Heard(c) /\ out[c] \in Seq(Answers)
    BY DEF IInv, ConnInv, OnScript, Typed
  <2>2. pc[c] \in {"publishing", "playing"} => n >= k
    BY <2>1, ServedHeardAll
  <2>3. n \in Nat /\ k \in Nat
    BY <2>1, Scripts DEF Conns
  <2> DEFINE l == IF n < k THEN n ELSE k
  <2>4. l \in Nat /\ l <= n /\ l <= k
    BY <2>3
  <2>5. \A i \in 1 .. l : out[c][i] = Script(c)[i]
    BY <2>1, <2>3, <2>4 DEF Heard
  <2> HIDE DEF l
  <2>6. SubSeq(out[c], 1, l) = SubSeq(Script(c), 1, l)
    BY <2>4, <2>5
  <2> QED BY <2>2, <2>6 DEF l
<1> QED BY <1>1, SessionInvariant, PTL

(***************************************************************************)
(* However connections interleave in FetchOrCreate, a session has the one  *)
(* Source that was made for its vhost, and no other vhost has it.          *)
(***************************************************************************)
THEOREM SessionSourceOfVhost == Spec => []SourceOfVhost
<1>1. IInv => SourceOfVhost
  <2> SUFFICES ASSUME IInv, NEW c \in Conns, NEW d \in Conns, InSession(c), InSession(d)
               PROVE  /\ src[c] # 0 /\ sources[src[c]] = vhost[c]
                      /\ vhost[c] = vhost[d] <=> src[c] = src[d]
    BY DEF SourceOfVhost
  <2>1. /\ src[c] \in 1 .. Len(sources) /\ sources[src[c]] = vhost[c]
        /\ src[d] \in 1 .. Len(sources) /\ sources[src[d]] = vhost[d]
    BY DEF IInv, ConnInv, Sourced
  <2>2. \A i \in 1 .. Len(sources) : pool[StreamUrl(sources[i])] = i
    BY DEF IInv, PoolExact
  <2>3. Len(sources) \in Nat
    BY DEF IInv, Typed
  <2> QED BY <2>1, <2>2, <2>3
<1> QED BY <1>1, SessionInvariant, PTL

(***************************************************************************)
(* The null packets of ExpectMessage, the rs_assert(0) of IdentifyClient   *)
(* and the pointer that AMF0ReadAny frees for a broken value are out of    *)
(* reach as long as every client keeps to its dialogue, a publisher that   *)
(* is served sends no broken command, and no client is held up or has been *)
(* turned out of a session.                                                *)
(***************************************************************************)
THEOREM SessionCrashForCause == Spec => []CrashForCause
<1>1. IInv => CrashForCause
  BY DEF IInv
<1> QED BY <1>1, SessionInvariant, PTL
=============================================================================
