----------------------------- MODULE RelayProofs -----------------------------
(***************************************************************************)
(* The relay of a stream, for every value of the constants: first the      *)
(* reorder buffer on its own (MixCorrect), then a Source with its caches,  *)
(* its GOP and its consumers.                                              *)
(***************************************************************************)
EXTENDS MixCorrect, Source, FiniteSetTheorems, SequenceTheorems,
        WellFoundedInduction, TLAPS

\* A non-empty set of naturals has a least element: begin() of a multimap exists.
LEMMA NatMin ==
  ASSUME NEW S \in SUBSET Nat, S # {}
  PROVE  \E x \in S : \A y \in S : x <= y
<1>1. IsWellFoundedOn(OpToRel(<, Nat), Nat)
  BY NatLessThanWellFounded
<1>2. PICK x \in S : \A y \in S : ~ (<<y, x>> \in OpToRel(<, Nat))
  BY <1>1, WFMin, Zenon
<1>3. \A y \in S : ~ (y < x)
  BY <1>2 DEF OpToRel
<1>. QED  BY <1>3

\* begin() is an entry and comes before every other (MixQueue::Pop).
LEMMA BeginIsLeast ==
  ASSUME NEW q, q.msgs # {}, \A e \in q.msgs : e.seq \in Nat /\ e.msg.ts \in Nat
  PROVE  /\ MixBegin(q) \in q.msgs
         /\ \A b \in q.msgs : Precedes(MixBegin(q), b)
<1>. DEFINE Ts == {e.msg.ts : e \in q.msgs}
<1>1. Ts \in SUBSET Nat /\ Ts # {}
  OBVIOUS
<1>2. PICK t \in Ts : \A u \in Ts : t <= u
  BY <1>1, NatMin
<1>. DEFINE Seqs == {e.seq : e \in {d \in q.msgs : d.msg.ts = t}}
<1>3. Seqs \in SUBSET Nat /\ Seqs # {}
  BY <1>2
<1>4. PICK s \in Seqs : \A r \in Seqs : s <= r
  BY <1>3, NatMin
<1>5. PICK a \in q.msgs : a.msg.ts = t /\ a.seq = s
  BY <1>4
<1>6. \A b \in q.msgs : Precedes(a, b)
  <2>. SUFFICES ASSUME NEW b \in q.msgs PROVE Precedes(a, b)
    OBVIOUS
  <2>1. t <= b.msg.ts /\ t \in Nat /\ b.msg.ts \in Nat
    BY <1>1, <1>2
  <2>2. CASE b.msg.ts = t
    BY <2>2, <1>4, <1>5 DEF Precedes
  <2>3. CASE t < b.msg.ts
    BY <2>3, <1>5 DEF Precedes
  <2>. QED  BY <2>1, <2>2, <2>3
<1>. QED  BY <1>6 DEF MixBegin

\* The same for the entries of MixCorrect.
LEMMA FirstIsLeast ==
  ASSUME NEW q, q.msgs \in SUBSET MixEntry, q.msgs # {}
  PROVE  /\ MixBegin(q) \in q.msgs
         /\ \A b \in q.msgs : Precedes(MixBegin(q), b)
<1>1. \A e \in q.msgs : e.seq \in Nat /\ e.msg.ts \in Nat
  BY MixAssumption DEF MixEntry, MixMessage
<1>. QED  BY <1>1, BeginIsLeast

(***************************************************************************)
(* A queue whose counters are right: what Push and Pop both preserve.      *)
(***************************************************************************)
CountersRight(q) ==
  /\ q \in [msgs : SUBSET MixEntry, nb_videos : Nat, nb_audios : Nat,
            arrivals : 0 .. MaxPush]
  /\ IsFiniteSet(q.msgs)
  /\ q.nb_videos = Cardinality(OfType(q, "video"))
  /\ q.nb_audios = Cardinality(OfType(q, "audio"))
  /\ \A e \in q.msgs : e.seq <= q.arrivals
  /\ \A d, e \in q.msgs : d.seq = e.seq => d = e

(***************************************************************************)
(* MixQueue::Push keeps the counters right and counts one message more.    *)
(***************************************************************************)
LEMMA PushRight ==
  ASSUME NEW q, CountersRight(q), q.arrivals < MaxPush, NEW m \in MixMessage
  PROVE  /\ CountersRight(MixPush(q, m))
         /\ MixPush(q, m).nb_videos + MixPush(q, m).nb_audios
              = q.nb_videos + q.nb_audios + 1
<1>. DEFINE e == [seq |-> q.arrivals + 1, msg |-> m]
            p == MixPush(q, m)
<1>0. MaxPush \in Nat
  BY MixAssumption
<1>1. e \in MixEntry /\ e \notin q.msgs /\ m.type \in MediaTypes
  BY <1>0 DEF CountersRight, MixEntry, MixMessage
<1>2. p \in [msgs : SUBSET MixEntry, nb_videos : Nat, nb_audios : Nat,
             arrivals : 0 .. MaxPush]
  BY <1>0, <1>1 DEF CountersRight, MixPush, IsVideo
<1>3. IsFiniteSet(p.msgs)
  BY FS_AddElement DEF CountersRight, MixPush
<1>4. \A t \in MediaTypes : IsFiniteSet(OfType(q, t))
  BY FS_Subset DEF CountersRight, OfType
<1>5. \A t \in MediaTypes :
        OfType(p, t) = IF m.type = t THEN OfType(q, t) \cup {e} ELSE OfType(q, t)
  BY DEF OfType, MixPush
<1>6. \A t \in MediaTypes :
        Cardinality(OfType(p, t)) = IF m.type = t THEN Cardinality(OfType(q, t)) + 1
                                                  ELSE Cardinality(OfType(q, t))
  <2>. SUFFICES ASSUME NEW t \in MediaTypes
                PROVE  Cardinality(OfType(p, t)) =
                         IF m.type = t THEN Cardinality(OfType(q, t)) + 1
                                       ELSE Cardinality(OfType(q, t))
    OBVIOUS
  <2>1. e \notin OfType(q, t)
    BY <1>1 DEF OfType
  <2>2. Cardinality(OfType(q, t) \cup {e}) = Cardinality(OfType(q, t)) + 1
    BY <1>4, <2>1, FS_AddElement
  <2>. QED  BY <1>5, <2>2
<1>7. /\ p.nb_videos = Cardinality(OfType(p, "video"))
      /\ p.nb_audios = Cardinality(OfType(p, "audio"))
  BY <1>1, <1>6 DEF CountersRight, MixPush, IsVideo, MediaTypes
<1>8. /\ \A d \in p.msgs : d.seq <= p.arrivals
      /\ \A c, d \in p.msgs : c.seq = d.seq => c = d
  BY <1>0 DEF CountersRight, MixPush, MixEntry
<1>9. p.nb_videos + p.nb_audios = q.nb_videos + q.nb_audios + 1
  BY DEF CountersRight, MixPush
<1>. QED  BY <1>2, <1>3, <1>7, <1>8, <1>9 DEF CountersRight

(***************************************************************************)
(* MixQueue::Pop of a queue that holds something keeps the counters right  *)
(* and counts one message less.                                            *)
(***************************************************************************)
LEMMA PopRight ==
  ASSUME NEW q, CountersRight(q), q.msgs # {}
  PROVE  /\ CountersRight(MixPop(q))
         /\ MixPop(q).nb_videos + MixPop(q).nb_audios
              = q.nb_videos + q.nb_audios - 1
<1>. DEFINE e == MixBegin(q)
            p == MixPop(q)
<1>1. e \in q.msgs /\ e \in MixEntry
  BY FirstIsLeast DEF CountersRight
<1>2. p.msgs = q.msgs \ {e} /\ p.arrivals = q.arrivals
  BY DEF MixPop, CountersRight
<1>3. \A t \in MediaTypes : IsFiniteSet(OfType(q, t))
  BY FS_Subset DEF CountersRight, OfType
<1>4. \A t \in MediaTypes :
        Cardinality(OfType(p, t)) = IF e.msg.type = t THEN Cardinality(OfType(q, t)) - 1
                                                      ELSE Cardinality(OfType(q, t))
  <2>. SUFFICES ASSUME NEW t \in MediaTypes
                PROVE  Cardinality(OfType(p, t)) =
                         IF e.msg.type = t THEN Cardinality(OfType(q, t)) - 1
                                           ELSE Cardinality(OfType(q, t))
    OBVIOUS
  <2>1. OfType(p, t) = OfType(q, t) \ {e}
    BY <1>2 DEF OfType
  <2>2. e \in OfType(q, t) <=> e.msg.type = t
    BY <1>1 DEF OfType
  <2>. QED  BY <1>3, <2>1, <2>2, FS_RemoveElement
<1>5. \A t \in MediaTypes : Cardinality(OfType(q, t)) \in Nat
  BY <1>3, FS_CardinalityType
<1>6. e.msg.type \in MediaTypes
  BY <1>1 DEF MixEntry, MixMessage
<1>7. e.msg.type = "audio" => q.nb_audios > 0
  <2>1. e.msg.type = "audio" => OfType(q, "audio") # {}
    BY <1>1 DEF OfType
  <2>. QED  BY <2>1, <1>3, <1>5, FS_EmptySet DEF CountersRight, MediaTypes
<1>8. e.msg.type = "video" => q.nb_videos > 0
  <2>1. e.msg.type = "video" => OfType(q, "video") # {}
    BY <1>1 DEF OfType
  <2>. QED  BY <2>1, <1>3, <1>5, FS_EmptySet DEF CountersRight, MediaTypes
<1>9. /\ p.nb_audios = IF e.msg.type = "audio" THEN q.nb_audios - 1 ELSE q.nb_audios
      /\ p.nb_videos = IF e.msg.type = "audio" THEN q.nb_videos ELSE q.nb_videos - 1
  BY DEF MixPop, IsAudio, CountersRight
<1>10. p \in [msgs : SUBSET MixEntry, nb_videos : Nat, nb_audios : Nat,
              arrivals : 0 .. MaxPush]
  <2>1. p.nb_audios \in Nat /\ p.nb_videos \in Nat
    BY <1>6, <1>7, <1>8, <1>9 DEF MediaTypes, CountersRight
  <2>. QED  BY <2>1 DEF MixPop, CountersRight
<1>11. IsFiniteSet(p.msgs)
  BY <1>2, FS_RemoveElement DEF CountersRight
<1>12. /\ p.nb_videos = Cardinality(OfType(p, "video"))
       /\ p.nb_audios = Cardinality(OfType(p, "audio"))
  BY <1>4, <1>6, <1>9 DEF CountersRight, MediaTypes
<1>13. p.nb_videos + p.nb_audios = q.nb_videos + q.nb_audios - 1
  BY <1>9 DEF CountersRight
<1>. QED  BY <1>2, <1>10, <1>11, <1>12, <1>13 DEF CountersRight

(***************************************************************************)
(* A queue that MixQueue::Pop finds mix_ok is not empty.                   *)
(***************************************************************************)
LEMMA MixOkNonEmpty ==
  ASSUME NEW q, CountersRight(q), MixOk(q)
  PROVE  q.msgs # {}
<1>. SUFFICES ASSUME q.msgs = {} PROVE FALSE
  OBVIOUS
<1>1. OfType(q, "video") = {} /\ OfType(q, "audio") = {}
  BY DEF OfType
<1>2. q.nb_videos = 0 /\ q.nb_audios = 0
  BY <1>1, FS_EmptySet DEF CountersRight
<1>. QED  BY <1>2, PureAssumption DEF MixOk

\* Push and Pop leave counters that add up to less than the limit.
CountsBounded == queue.nb_videos + queue.nb_audios < Pure

(***************************************************************************)
(* The inductive invariant: the counters are right, the backlog is below   *)
(* the limit, and each track is sorted behind what has left.               *)
(***************************************************************************)
MixInv ==
  /\ MixTypeOK
  /\ IsFiniteSet(queue.msgs)
  /\ CountersExact
  /\ CountsBounded
  /\ Arrived
  /\ TrackSorted
  /\ TrackOrder

\* The invariant gives what the lemmas on Push and Pop ask of the queue.
LEMMA MixInvRight == MixInv => CountersRight(queue)
BY DEF MixInv, MixTypeOK, CountersExact, Arrived, CountersRight

(***************************************************************************)
(* A new Source has an empty reorder buffer.                               *)
(***************************************************************************)
LEMMA InitMixInv == MixInit => MixInv
<1>. SUFFICES ASSUME MixInit PROVE MixInv
  OBVIOUS
<1>. USE DEF MixInit, EmptyMix
<1>1. MixTypeOK
  BY MixAssumption DEF MixTypeOK
<1>2. OfType(queue, "video") = {} /\ OfType(queue, "audio") = {}
  BY DEF OfType
<1>3. CountersExact
  BY <1>2, FS_EmptySet DEF CountersExact
<1>4. IsFiniteSet(queue.msgs)
  BY FS_EmptySet
<1>5. CountsBounded
  BY PureAssumption DEF CountsBounded
<1>. QED  BY <1>1, <1>3, <1>4, <1>5 DEF MixInv, Arrived, TrackSorted, TrackOrder

(***************************************************************************)
(* Source::OnAudio and Source::OnVideo preserve the invariant.             *)
(***************************************************************************)
LEMMA NextMixInv == MixInv /\ [MixNext]_mixVars => MixInv'
<1>. SUFFICES ASSUME MixInv, [MixNext]_mixVars PROVE MixInv'
  OBVIOUS
<1>1. CASE UNCHANGED mixVars
  BY <1>1 DEF MixInv, mixVars, MixTypeOK, CountersExact, CountsBounded, Arrived,
              TrackSorted, TrackOrder, OfType
<1>2. CASE MixNext
  <2>1. PICK m \in MixMessage : MixOnMessage(m)
    BY <1>2 DEF MixNext
  <2>. DEFINE p == MixPush(queue, m)
              e == MixBegin(p)
              n == [seq |-> queue.arrivals + 1, msg |-> m]
  <2>2. CountersRight(queue) /\ queue.arrivals < MaxPush
    BY <2>1, MixInvRight DEF MixOnMessage
  <2>3. /\ CountersRight(p)
        /\ p.nb_videos + p.nb_audios = queue.nb_videos + queue.nb_audios + 1
    BY <2>2, PushRight
  <2>4. p.msgs = queue.msgs \cup {n} /\ p.arrivals = queue.arrivals + 1
    BY DEF MixPush
  <2>5. /\ Track(m) \in Tracks
        /\ m.ts \in 0 .. MaxTs
        /\ MaxTs \in Nat
        /\ queue.arrivals \in Nat
        /\ queue.msgs \subseteq MixEntry
        /\ lastIn \in [Tracks -> 0 .. MaxTs]
        /\ lastSeq \in [Tracks -> 0 .. MaxPush]
        /\ \A d \in queue.msgs : /\ d.seq \in Nat /\ Track(d.msg) \in Tracks
                                 /\ d.msg.ts \in 0 .. MaxTs
    BY MixAssumption DEF MixInv, MixTypeOK, MixEntry, MixMessage, Track, Tracks
  <2>6. lastIn' \in [Tracks -> 0 .. MaxTs]
    BY <2>1, <2>5 DEF MixOnMessage
  \* Each track stays sorted when m is added at its end.
  <2>7. TrackMonotone =>
          /\ \A d \in p.msgs : d.msg.ts <= lastIn'[Track(d.msg)]
          /\ \A c, d \in p.msgs :
               Track(c.msg) = Track(d.msg) /\ c.seq < d.seq => c.msg.ts <= d.msg.ts
    <3>. SUFFICES ASSUME TrackMonotone
                  PROVE  /\ \A d \in p.msgs : d.msg.ts <= lastIn'[Track(d.msg)]
                         /\ \A c, d \in p.msgs :
                              Track(c.msg) = Track(d.msg) /\ c.seq < d.seq
                                => c.msg.ts <= d.msg.ts
      OBVIOUS
    <3>1. lastIn[Track(m)] <= m.ts
      BY <2>1, <2>5 DEF MixOnMessage
    <3>2. lastIn' = [lastIn EXCEPT ![Track(m)] = IF m.ts > @ THEN m.ts ELSE @]
      BY <2>1 DEF MixOnMessage
    <3>3. \A t \in Tracks : lastIn[t] <= lastIn'[t]
      BY <2>5, <3>2
    <3>4. lastIn'[Track(m)] >= m.ts
      BY <2>5, <3>2
    <3>5. \A d \in queue.msgs : d.msg.ts <= lastIn[Track(d.msg)]
      BY DEF MixInv, TrackSorted
    <3>6. \A d \in p.msgs : d.msg.ts <= lastIn'[Track(d.msg)]
      <4>. SUFFICES ASSUME NEW d \in p.msgs PROVE d.msg.ts <= lastIn'[Track(d.msg)]
        OBVIOUS
      <4>1. CASE d = n
        BY <4>1, <3>4, <2>5, <2>6
      <4>2. CASE d \in queue.msgs
        BY <4>2, <3>3, <3>5, <2>5, <2>6
      <4>. QED  BY <2>4, <4>1, <4>2
    <3>7. \A d \in queue.msgs : d.seq <= queue.arrivals
      BY DEF MixInv, Arrived
    <3>8. \A c, d \in p.msgs :
            Track(c.msg) = Track(d.msg) /\ c.seq < d.seq => c.msg.ts <= d.msg.ts
      <4>. SUFFICES ASSUME NEW c \in p.msgs, NEW d \in p.msgs,
                           Track(c.msg) = Track(d.msg), c.seq < d.seq
                    PROVE  c.msg.ts <= d.msg.ts
        OBVIOUS
      <4>1. CASE d \in queue.msgs /\ c \in queue.msgs
        BY <4>1 DEF MixInv, TrackSorted
      <4>2. CASE d = n /\ c \in queue.msgs
        BY <4>2, <3>1, <3>5, <2>5
      <4>3. CASE c = n
        BY <4>3, <2>4, <2>5, <3>7
      <4>. QED  BY <2>4, <4>1, <4>2, <4>3
    <3>. QED  BY <3>6, <3>8
  <2>8. TrackMonotone => \A d \in p.msgs : d.seq > lastSeq[Track(d.msg)]
    <3>. SUFFICES ASSUME TrackMonotone, NEW d \in p.msgs
                  PROVE  d.seq > lastSeq[Track(d.msg)]
      OBVIOUS
    <3>1. CASE d \in queue.msgs
      BY <3>1 DEF MixInv, TrackOrder
    <3>2. CASE d = n
      <4>1. lastSeq[Track(m)] <= queue.arrivals
        BY <2>5 DEF MixInv, Arrived
      <4>. QED  BY <4>1, <3>2, <2>5
    <3>. QED  BY <2>4, <3>1, <3>2
  \* Nothing pops: only videos are queued, and fewer than Pure of them.
  <2>9. CASE ~MixOk(p) /\ queue' = p /\ UNCHANGED lastSeq
    <3>1. MixTypeOK'
      BY <2>3, <2>6, <2>9 DEF MixInv, MixTypeOK, CountersRight
    <3>2. IsFiniteSet(queue'.msgs) /\ CountersExact'
      BY <2>3, <2>9 DEF CountersRight, CountersExact, OfType
    <3>3. CountsBounded'
      <4>1. p.nb_videos \in Nat /\ p.nb_audios \in Nat
        BY <2>3 DEF CountersRight
      <4>. QED  BY <4>1, <2>9, PureAssumption DEF MixOk, CountsBounded
    <3>4. Arrived'
      BY <2>3, <2>4, <2>5, <2>9 DEF CountersRight, Arrived, MixInv
    <3>5. TrackSorted' /\ TrackOrder'
      BY <2>7, <2>8, <2>9 DEF TrackSorted, TrackOrder
    <3>. QED  BY <3>1, <3>2, <3>3, <3>4, <3>5 DEF MixInv
  \* The least entry leaves: the backlog does not grow.
  <2>10. CASE /\ MixOk(p)
              /\ queue' = MixPop(p)
              /\ lastSeq' = [lastSeq EXCEPT ![Track(e.msg)] = e.seq]
    <3>1. p.msgs # {} /\ p.msgs \in SUBSET MixEntry
      BY <2>3, <2>10, MixOkNonEmpty DEF CountersRight
    <3>2. e \in p.msgs /\ \A b \in p.msgs : Precedes(e, b)
      BY <3>1, FirstIsLeast
    <3>3. /\ CountersRight(queue')
          /\ queue'.nb_videos + queue'.nb_audios = p.nb_videos + p.nb_audios - 1
      BY <2>3, <2>10, <3>1, PopRight
    <3>4. queue'.msgs = p.msgs \ {e} /\ queue'.arrivals = p.arrivals
      BY <2>3, <2>10 DEF MixPop, CountersRight
    <3>5. \A d \in p.msgs : /\ d.seq \in 1 .. MaxPush
                            /\ Track(d.msg) \in Tracks
                            /\ d.msg.ts \in 0 .. MaxTs
                            /\ d.seq <= p.arrivals
      BY <2>3, <3>1 DEF MixEntry, MixMessage, CountersRight, Track, Tracks
    <3>6. MixTypeOK'
      BY <2>6, <2>10, <3>2, <3>3, <3>5 DEF MixInv, MixTypeOK, CountersRight
    <3>7. IsFiniteSet(queue'.msgs) /\ CountersExact'
      BY <3>3 DEF CountersRight, CountersExact, OfType
    <3>8. CountsBounded'
      <4>1. queue.nb_videos + queue.nb_audios < Pure
        BY DEF MixInv, CountsBounded
      <4>2. /\ queue.nb_videos \in Nat /\ queue.nb_audios \in Nat
            /\ p.nb_videos \in Nat /\ p.nb_audios \in Nat
            /\ queue'.nb_videos \in Nat /\ queue'.nb_audios \in Nat
        BY <2>2, <2>3, <3>3 DEF CountersRight
      <4>. QED  BY <4>1, <4>2, <2>3, <3>3, PureAssumption DEF CountsBounded
    <3>9. Arrived'
      <4>1. \A t \in Tracks : lastSeq'[t] <= queue'.arrivals
        <5>. SUFFICES ASSUME NEW t \in Tracks PROVE lastSeq'[t] <= queue'.arrivals
          OBVIOUS
        <5>1. lastSeq[t] <= queue.arrivals /\ lastSeq[t] \in Nat
          BY <2>5 DEF MixInv, Arrived
        <5>2. lastSeq'[t] = IF t = Track(e.msg) THEN e.seq ELSE lastSeq[t]
          BY <2>5, <2>10
        <5>3. e.seq <= p.arrivals
          BY <3>2, <3>5
        <5>. QED  BY <5>1, <5>2, <5>3, <2>4, <2>5, <3>4
      <4>. QED  BY <4>1, <3>3 DEF CountersRight, Arrived
    <3>10. TrackSorted'
      BY <2>7, <3>4 DEF TrackSorted
    <3>11. TrackOrder'
      <4>. SUFFICES ASSUME TrackMonotone, NEW d \in p.msgs, d # e
                    PROVE  d.seq > lastSeq'[Track(d.msg)]
        BY <3>4 DEF TrackOrder
      <4>1. CASE Track(d.msg) # Track(e.msg)
        BY <4>1, <2>5, <2>8, <2>10, <3>5
      <4>2. CASE Track(d.msg) = Track(e.msg)
        <5>1. d.seq # e.seq
          BY <2>3, <3>2 DEF CountersRight
        <5>2. ~(d.seq < e.seq)
          BY <2>7, <3>2, <3>5, <4>2 DEF Precedes
        <5>3. lastSeq'[Track(d.msg)] = e.seq
          BY <2>5, <2>10, <3>5, <4>2
        <5>. QED  BY <5>1, <5>2, <5>3, <3>2, <3>5
      <4>. QED  BY <4>1, <4>2
    <3>. QED  BY <3>6, <3>7, <3>8, <3>9, <3>10, <3>11 DEF MixInv
  <2>. QED  BY <2>1, <2>9, <2>10 DEF MixOnMessage
<1>. QED  BY <1>1, <1>2

(***************************************************************************)
(* For every limit, every stream and every interleaving of its tracks, the *)
(* counters of mix_queue_ are exact: Pop never takes begin() of an empty   *)
(* multimap and no counter wraps.                                          *)
(***************************************************************************)
THEOREM MixCountersExact == MixSpec => [](MixTypeOK /\ CountersExact)
<1>1. MixInv => MixTypeOK /\ CountersExact
  BY DEF MixInv
<1>. QED  BY <1>1, InitMixInv, NextMixInv, PTL DEF MixSpec

(***************************************************************************)
(* The reorder buffer always holds fewer than MIX_CORRECT_PURE_AV messages *)
(* between two calls of Source::OnAudio and Source::OnVideo.               *)
(***************************************************************************)
THEOREM MixBacklogBounded == MixSpec => []BacklogBounded
<1>1. ASSUME MixInv PROVE BacklogBounded
  <2>. DEFINE V == OfType(queue, "video")
              A == OfType(queue, "audio")
  <2>1. IsFiniteSet(queue.msgs) /\ V \subseteq queue.msgs /\ A \subseteq queue.msgs
    BY <1>1 DEF MixInv, OfType
  <2>2. IsFiniteSet(V) /\ IsFiniteSet(A)
    BY <2>1, FS_Subset
  <2>3. queue.msgs = V \cup A
    BY <1>1 DEF MixInv, MixTypeOK, MixEntry, MixMessage, MediaTypes, OfType
  <2>4. V \cap A = {}
    BY DEF OfType
  <2>5. Cardinality(V \cap A) = 0
    BY <2>4, FS_EmptySet
  <2>6. Cardinality(V \cup A) = Cardinality(V) + Cardinality(A) - Cardinality(V \cap A)
    BY <2>2, FS_Union
  <2>7. queue.nb_videos = Cardinality(V) /\ queue.nb_audios = Cardinality(A)
    BY <1>1 DEF MixInv, CountersExact
  <2>8. queue.nb_videos \in Nat /\ queue.nb_audios \in Nat
    BY <1>1 DEF MixInv, MixTypeOK
  <2>9. queue.nb_videos + queue.nb_audios < Pure
    BY <1>1 DEF MixInv, CountsBounded
  <2>. HIDE DEF V, A
  <2>. QED  BY <2>3, <2>5, <2>6, <2>7, <2>8, <2>9, PureAssumption DEF BacklogBounded
<1>. QED  BY <1>1, InitMixInv, NextMixInv, PTL DEF MixSpec

(***************************************************************************)
(* mix_correct never reorders the messages of a track whose timestamps     *)
(* arrive in order.                                                        *)
(***************************************************************************)
THEOREM MixTrackOrder == MixSpec => []TrackOrder
<1>1. MixInv => TrackOrder
  BY DEF MixInv
<1>. QED  BY <1>1, InitMixInv, NextMixInv, PTL DEF MixSpec
-----------------------------------------------------------------------------
\* A set of naturals with 0 and the successor of each of its elements is Nat.
LEMMA SetInduction ==
  ASSUME NEW T \in SUBSET Nat, 0 \in T, \A n \in T : n + 1 \in T
  PROVE  T = Nat
<1> SUFFICES ASSUME Nat \ T # {} PROVE FALSE
  OBVIOUS
<1>1. IsWellFoundedOn({ss \in Nat \X Nat : ss[1] < ss[2]}, Nat)
  BY NatLessThanWellFounded DEF OpToRel
<1>2. PICK x \in Nat \ T : \A y \in Nat \ T : ~(<<y, x>> \in {ss \in Nat \X Nat : ss[1] < ss[2]})
  BY <1>1, WFMin
<1>3. ASSUME NEW y \in Nat \ T PROVE x <= y
  <2>1. ~(y < x)
    BY <1>2
  <2> QED BY <2>1
<1>4. x # 0 /\ x - 1 \in Nat /\ x - 1 \in T
  BY <1>3
<1> QED BY <1>4
-----------------------------------------------------------------------------
(***************************************************************************)
(* Sums.  g holds the sums of the first 0 .. n elements of f.              *)
(***************************************************************************)
Sums(g, f, n) == g = [i \in 0 .. n |-> IF i = 0 THEN 0 ELSE g[i - 1] + f[i]]

LEMMA SumsExist == ASSUME NEW f, NEW n \in Nat PROVE \E g : Sums(g, f, n)
<1> DEFINE T == {k \in Nat : \E g : Sums(g, f, k)}
<1>1. 0 \in T
  <2> DEFINE g == [i \in 0 .. 0 |-> 0]
  <2>1. Sums(g, f, 0)
    BY DEF Sums
  <2> QED BY <2>1
<1>2. ASSUME NEW k \in T PROVE k + 1 \in T
  <2>1. PICK g : Sums(g, f, k)
    OBVIOUS
  <2> DEFINE next == g[k] + f[k + 1]
             h == [i \in 0 .. k + 1 |-> IF i <= k THEN g[i] ELSE next]
  <2>2. k \in Nat
    OBVIOUS
  <2>3. \A i \in 0 .. k : h[i] = g[i]
    BY <2>2
  <2>4. h[k + 1] = next
    BY <2>2
  <2>5. \A i \in 0 .. k : g[i] = IF i = 0 THEN 0 ELSE g[i - 1] + f[i]
    BY <2>1 DEF Sums
  <2>6. h = [i \in 0 .. k + 1 |-> h[i]]
    OBVIOUS
  <2> HIDE DEF h
  <2>7. ASSUME NEW i \in 0 .. k + 1
        PROVE  h[i] = IF i = 0 THEN 0 ELSE h[i - 1] + f[i]
    <3>1. CASE i = k + 1
      <4>1. i # 0 /\ i - 1 = k /\ k \in 0 .. k
        BY <2>2, <3>1
      <4>2. h[i - 1] = g[k]
        BY <2>3, <4>1
      <4> QED BY <2>4, <3>1, <4>1, <4>2
    <3>2. CASE i # k + 1
      <4>1. i \in 0 .. k /\ (i # 0 => i - 1 \in 0 .. k)
        BY <2>2, <3>2
      <4> QED BY <2>3, <2>5, <4>1
    <3> QED BY <3>1, <3>2
  <2>8. Sums(h, f, k + 1)
    <3> HIDE DEF next
    <3> QED BY <2>6, <2>7, Zenon DEF Sums
  <2> QED BY <2>2, <2>8
<1>3. T = Nat
  <2>1. T \in SUBSET Nat
    OBVIOUS
  <2> HIDE DEF T
  <2> QED BY <1>1, <1>2, <2>1, SetInduction
<1> QED BY <1>3

\* Two lists of sums agree as far as both go.
LEMMA SumsAgree ==
  ASSUME NEW f, NEW m \in Nat, NEW n \in Nat, NEW g, NEW h, Sums(g, f, m), Sums(h, f, n)
  PROVE  \A i \in Nat : i <= m /\ i <= n => g[i] = h[i]
<1> DEFINE T == {i \in Nat : i <= m /\ i <= n => g[i] = h[i]}
<1>1. /\ \A i \in 0 .. m : g[i] = IF i = 0 THEN 0 ELSE g[i - 1] + f[i]
      /\ \A i \in 0 .. n : h[i] = IF i = 0 THEN 0 ELSE h[i - 1] + f[i]
  BY DEF Sums
<1>2. 0 \in T
  BY <1>1
<1>3. ASSUME NEW i \in T PROVE i + 1 \in T
  <2> SUFFICES ASSUME i + 1 <= m, i + 1 <= n PROVE g[i + 1] = h[i + 1]
    OBVIOUS
  <2>1. /\ i + 1 \in 0 .. m /\ i + 1 \in 0 .. n /\ i + 1 # 0 /\ (i + 1) - 1 = i
        /\ i <= m /\ i <= n
    OBVIOUS
  <2>2. g[i] = h[i]
    BY <2>1
  <2>3. g[i + 1] = g[i] + f[i + 1] /\ h[i + 1] = h[i] + f[i + 1]
    BY <1>1, <2>1
  <2> QED BY <2>2, <2>3
<1>4. T = Nat
  <2>1. T \in SUBSET Nat
    OBVIOUS
  <2> HIDE DEF T
  <2> QED BY <1>2, <1>3, <2>1, SetInduction
<1> QED BY <1>4

\* What Sum is, unfolded.
LEMMA SumIs ==
  ASSUME NEW f, NEW n \in Nat
  PROVE  \E g : Sums(g, f, n) /\ Sum(f, n) = g[n]
<1> DEFINE sum[i \in 0 .. n] == IF i = 0 THEN 0 ELSE sum[i - 1] + f[i]
<1>1. Sum(f, n) = sum[n]
  BY Zenon DEF Sum
<1>2. sum = CHOOSE g : g = [i \in 0 .. n |-> IF i = 0 THEN 0 ELSE g[i - 1] + f[i]]
  OBVIOUS
<1>3. \E g : g = [i \in 0 .. n |-> IF i = 0 THEN 0 ELSE g[i - 1] + f[i]]
  BY SumsExist DEF Sums
<1> HIDE DEF sum
<1>4. sum = [i \in 0 .. n |-> IF i = 0 THEN 0 ELSE sum[i - 1] + f[i]]
  BY <1>2, <1>3, Zenon
<1>5. Sums(sum, f, n)
  BY <1>4, Zenon DEF Sums
<1> QED BY <1>1, <1>5

\* A sum of n + 1 elements is the sum of the first n and the last one.
LEMMA SumStep ==
  ASSUME NEW f
  PROVE  Sum(f, 0) = 0 /\ \A n \in Nat : Sum(f, n + 1) = Sum(f, n) + f[n + 1]
<1>1. Sum(f, 0) = 0
  <2> DEFINE z == 0
  <2>0. z \in Nat /\ z = 0
    OBVIOUS
  <2> HIDE DEF z
  <2>1. PICK g : Sums(g, f, z) /\ Sum(f, z) = g[z]
    BY <2>0, SumIs
  <2> QED BY <2>0, <2>1 DEF Sums
<1>2. ASSUME NEW n \in Nat PROVE Sum(f, n + 1) = Sum(f, n) + f[n + 1]
  <2> DEFINE k == n + 1
  <2>0. k \in Nat /\ k = n + 1 /\ n <= n /\ n <= k /\ k \in 0 .. k /\ k # 0 /\ k - 1 = n
    OBVIOUS
  <2> HIDE DEF k
  <2>1. PICK g : Sums(g, f, n) /\ Sum(f, n) = g[n]
    BY SumIs
  <2>2. PICK h : Sums(h, f, k) /\ Sum(f, k) = h[k]
    BY <2>0, SumIs
  <2>3. g[n] = h[n]
    BY <2>0, <2>1, <2>2, SumsAgree
  <2>4. h[k] = h[k - 1] + f[k]
    BY <2>0, <2>2 DEF Sums
  <2> QED BY <2>0, <2>1, <2>2, <2>3, <2>4
<1> QED BY <1>1, <1>2

\* A sum of integers is an integer.
LEMMA SumInt ==
  ASSUME NEW f, NEW n \in Nat, \A i \in 1 .. n : f[i] \in Int
  PROVE  Sum(f, n) \in Int
<1> DEFINE T == {i \in Nat : i <= n => Sum(f, i) \in Int}
<1>1. 0 \in T
  BY SumStep
<1>2. ASSUME NEW i \in T PROVE i + 1 \in T
  <2> SUFFICES ASSUME i + 1 <= n PROVE Sum(f, i + 1) \in Int
    OBVIOUS
  <2>1. i \in Nat /\ i <= n /\ i + 1 \in 1 .. n
    OBVIOUS
  <2>2. Sum(f, i + 1) = Sum(f, i) + f[i + 1]
    BY <2>1, SumStep
  <2> QED BY <2>1, <2>2
<1>3. T = Nat
  <2>1. T \in SUBSET Nat
    OBVIOUS
  <2> HIDE DEF T
  <2> QED BY <1>1, <1>2, <2>1, SetInduction
<1> QED BY <1>3

\* The sum of the differences is the difference of the sums.
LEMMA SumAdd ==
  ASSUME NEW n \in Nat, NEW f, NEW g, NEW h,
         \A i \in 1 .. n : f[i] \in Int /\ g[i] \in Int /\ h[i] = f[i] + g[i]
  PROVE  Sum(h, n) = Sum(f, n) + Sum(g, n)
<1> DEFINE T == {i \in Nat : i <= n => /\ Sum(f, i) \in Int /\ Sum(g, i) \in Int
                                       /\ Sum(h, i) = Sum(f, i) + Sum(g, i)}
<1>1. 0 \in T
  <2>1. Sum(f, 0) = 0 /\ Sum(g, 0) = 0 /\ Sum(h, 0) = 0
    BY SumStep
  <2> QED BY <2>1
<1>2. ASSUME NEW i \in T PROVE i + 1 \in T
  <2> SUFFICES ASSUME i + 1 <= n
               PROVE  /\ Sum(f, i + 1) \in Int /\ Sum(g, i + 1) \in Int
                      /\ Sum(h, i + 1) = Sum(f, i + 1) + Sum(g, i + 1)
    OBVIOUS
  <2>1. i \in Nat /\ i <= n /\ i + 1 \in 1 .. n
    OBVIOUS
  <2>2. /\ Sum(f, i + 1) = Sum(f, i) + f[i + 1]
        /\ Sum(g, i + 1) = Sum(g, i) + g[i + 1]
        /\ Sum(h, i + 1) = Sum(h, i) + h[i + 1]
    BY <2>1, SumStep
  <2> QED BY <2>1, <2>2
<1>3. T = Nat
  <2>1. T \in SUBSET Nat
    OBVIOUS
  <2> HIDE DEF T
  <2> QED BY <1>1, <1>2, <2>1, SetInduction
<1> QED BY <1>3

\* Sums of equal elements are equal.
LEMMA SumSame ==
  ASSUME NEW n \in Nat, NEW f, NEW g, \A i \in 1 .. n : f[i] = g[i]
  PROVE  Sum(f, n) = Sum(g, n)
<1> DEFINE T == {i \in Nat : i <= n => Sum(f, i) = Sum(g, i)}
<1>1. 0 \in T
  BY SumStep
<1>2. ASSUME NEW i \in T PROVE i + 1 \in T
  <2> SUFFICES ASSUME i + 1 <= n PROVE Sum(f, i + 1) = Sum(g, i + 1)
    OBVIOUS
  <2>1. i \in Nat /\ i <= n /\ i + 1 \in 1 .. n
    OBVIOUS
  <2>2. Sum(f, i + 1) = Sum(f, i) + f[i + 1] /\ Sum(g, i + 1) = Sum(g, i) + g[i + 1]
    BY <2>1, SumStep
  <2> QED BY <2>1, <2>2
<1>3. T = Nat
  <2>1. T \in SUBSET Nat
    OBVIOUS
  <2> HIDE DEF T
  <2> QED BY <1>1, <1>2, <2>1, SetInduction
<1> QED BY <1>3

\* A sum with one element that is not 0.
LEMMA SumOne ==
  ASSUME NEW n \in Nat, NEW c \in 1 .. n, NEW f, f[c] \in Int,
         \A i \in 1 .. n : i # c => f[i] = 0
  PROVE  Sum(f, n) = f[c]
<1> DEFINE T == {i \in Nat : i <= n => Sum(f, i) = IF c <= i THEN f[c] ELSE 0}
<1>1. 0 \in T
  BY SumStep
<1>2. ASSUME NEW i \in T PROVE i + 1 \in T
  <2> SUFFICES ASSUME i + 1 <= n PROVE Sum(f, i + 1) = IF c <= i + 1 THEN f[c] ELSE 0
    OBVIOUS
  <2>1. i \in Nat /\ i <= n /\ i + 1 \in 1 .. n
    OBVIOUS
  <2>2. Sum(f, i + 1) = Sum(f, i) + f[i + 1]
    BY <2>1, SumStep
  <2> QED BY <2>1, <2>2
<1>3. T = Nat
  <2>1. T \in SUBSET Nat
    OBVIOUS
  <2> HIDE DEF T
  <2> QED BY <1>1, <1>2, <2>1, SetInduction
<1> QED BY <1>3
-----------------------------------------------------------------------------
(***************************************************************************)
(* Handles in a sequence of messages.                                      *)
(***************************************************************************)
At(s, id) == {i \in 1 .. Len(s) : s[i].id = id}

LEMMA OccursNat ==
  ASSUME NEW s, Len(s) \in Nat, NEW id
  PROVE  Occurs(s, id) \in Nat /\ IsFiniteSet(At(s, id)) /\ Occurs(s, id) = Cardinality(At(s, id))
<1>1. At(s, id) \in SUBSET (1 .. Len(s))
  BY DEF At
<1>2. IsFiniteSet(1 .. Len(s))
  BY FS_Interval
<1>3. IsFiniteSet(At(s, id))
  BY <1>1, <1>2, FS_Subset
<1> QED BY <1>3, FS_CardinalityType DEF Occurs, At

LEMMA OccursEmpty == ASSUME NEW id PROVE Occurs(<<>>, id) = 0
<1>1. {i \in 1 .. Len(<<>>) : <<>>[i].id = id} = {}
  OBVIOUS
<1> QED BY <1>1, FS_EmptySet DEF Occurs

LEMMA OccursAppend ==
  ASSUME NEW M, NEW s \in Seq(M), NEW m \in M, NEW id
  PROVE  Occurs(Append(s, m), id) = Occurs(s, id) + (IF m.id = id THEN 1 ELSE 0)
<1> DEFINE t == Append(s, m)
           k == Len(s) + 1
<1>0. Len(s) \in Nat
  BY LenProperties
<1>1. Len(t) = k /\ t[k] = m /\ \A i \in 1 .. Len(s) : t[i] = s[i]
  BY AppendProperties
<1>2. At(t, id) = IF m.id = id THEN At(s, id) \cup {k} ELSE At(s, id)
  <2> HIDE DEF t
  <2> QED BY <1>0, <1>1 DEF At
<1>3. k \notin At(s, id)
  BY <1>0 DEF At
<1>4. IsFiniteSet(At(s, id)) /\ Occurs(s, id) = Cardinality(At(s, id)) /\ Occurs(s, id) \in Nat
  BY <1>0, OccursNat
<1>5. Occurs(t, id) = Cardinality(At(t, id))
  BY DEF Occurs, At
<1> HIDE DEF t, k
<1>6. Cardinality(At(s, id) \cup {k}) = Cardinality(At(s, id)) + 1
  BY <1>3, <1>4, FS_AddElement
<1>7. Occurs(t, id) = Occurs(s, id) + (IF m.id = id THEN 1 ELSE 0)
  BY <1>2, <1>4, <1>5, <1>6
<1> QED BY <1>7 DEF t

LEMMA OccursOne ==
  ASSUME NEW m, NEW id
  PROVE  Occurs(<<m>>, id) = IF m.id = id THEN 1 ELSE 0
<1>1. <<>> \in Seq({m}) /\ m \in {m} /\ Append(<<>>, m) = <<m>>
  OBVIOUS
<1>2. Occurs(Append(<<>>, m), id) = Occurs(<<>>, id) + (IF m.id = id THEN 1 ELSE 0)
  BY <1>1, OccursAppend
<1> QED BY <1>1, <1>2, OccursEmpty

\* Two disjoint finite sets of places.
LEMMA CardUnion ==
  ASSUME NEW A, NEW B, IsFiniteSet(A), IsFiniteSet(B), A \cap B = {}
  PROVE  IsFiniteSet(A \cup B) /\ Cardinality(A \cup B) = Cardinality(A) + Cardinality(B)
<1>1. Cardinality(A \cap B) = 0
  BY FS_EmptySet
<1>2. Cardinality(A) \in Nat /\ Cardinality(B) \in Nat
  BY FS_CardinalityType
<1>3. /\ IsFiniteSet(A \cup B)
      /\ Cardinality(A \cup B) = Cardinality(A) + Cardinality(B) - Cardinality(A \cap B)
  BY FS_Union, Zenon
<1> QED BY <1>1, <1>2, <1>3

LEMMA OccursConcat ==
  ASSUME NEW M, NEW s \in Seq(M), NEW t \in Seq(M), NEW id
  PROVE  Occurs(s \o t, id) = Occurs(s, id) + Occurs(t, id)
<1> DEFINE u == s \o t
           n == Len(s)
           A == At(s, id)
           B == {i \in 1 .. Len(u) : n < i /\ u[i].id = id}
<1>0. Len(s) \in Nat /\ Len(t) \in Nat
  BY LenProperties
<1>1. /\ Len(u) = Len(s) + Len(t)
      /\ \A i \in 1 .. Len(s) + Len(t) : u[i] = IF i <= Len(s) THEN s[i] ELSE t[i - Len(s)]
  BY ConcatProperties
<1> HIDE DEF u
<1>2. At(u, id) = A \cup B /\ A \cap B = {}
  BY <1>0, <1>1 DEF At
<1>3. IsFiniteSet(At(s, id)) /\ IsFiniteSet(At(t, id)) /\ Len(u) \in Nat
  BY <1>0, <1>1, OccursNat
<1>4. IsFiniteSet(B)
  <2>1. B \in SUBSET At(u, id)
    BY DEF At
  <2>2. IsFiniteSet(At(u, id))
    BY <1>3, OccursNat
  <2> QED BY <2>1, <2>2, FS_Subset
<1>5. Cardinality(B) = Cardinality(At(t, id))
  <2> DEFINE f == [j \in At(t, id) |-> j + n]
  <2>1. ASSUME NEW j \in At(t, id) PROVE j \in Nat /\ j + n \in B
    <3>1. j \in 1 .. Len(t) /\ t[j].id = id
      BY DEF At
    <3>2. j + n \in 1 .. Len(s) + Len(t) /\ ~(j + n <= Len(s)) /\ (j + n) - Len(s) = j
      BY <1>0, <3>1
    <3>3. u[j + n] = t[j]
      BY <1>1, <3>2
    <3> QED BY <1>0, <1>1, <3>1, <3>2, <3>3
  <2>2. \A i \in B : i - n \in At(t, id) /\ (i - n) + n = i
    BY <1>0, <1>1 DEF At
  <2>3. f \in [At(t, id) -> B]
    BY <2>1
  <2>4. \A j, k \in At(t, id) : f[j] = f[k] => j = k
    BY <1>0, <2>1
  <2>5. \A i \in B : \E j \in At(t, id) : f[j] = i
    <3> SUFFICES ASSUME NEW i \in B PROVE \E j \in At(t, id) : f[j] = i
      OBVIOUS
    <3>1. i - n \in At(t, id) /\ f[i - n] = i
      BY <2>2
    <3> QED BY <3>1
  <2> HIDE DEF f, B
  <2>6. f \in Bijection(At(t, id), B)
    BY <2>3, <2>4, <2>5, Zenon DEF Bijection, Injection, Surjection, IsInjective
  <2> QED BY <1>3, <2>6, FS_Bijection DEF ExistsBijection
<1> HIDE DEF A, B
<1>6. Cardinality(A \cup B) = Cardinality(A) + Cardinality(B)
  <2>1. IsFiniteSet(A)
    BY <1>3 DEF A
  <2> QED BY <1>2, <1>4, <2>1, CardUnion
<1> QED BY <1>2, <1>5, <1>6 DEF Occurs, At, A, u

\* A handle to id is in no sequence of messages that have other ids.
LEMMA OccursNone ==
  ASSUME NEW s, NEW id, \A i \in 1 .. Len(s) : s[i].id # id
  PROVE  Occurs(s, id) = 0
<1>1. {i \in 1 .. Len(s) : s[i].id = id} = {}
  OBVIOUS
<1> QED BY <1>1, FS_EmptySet DEF Occurs

\* A batch and the rest of a queue hold what the queue held (DumpPackets).
LEMMA OccursSplit ==
  ASSUME NEW M, NEW s \in Seq(M), NEW n \in 0 .. Len(s), NEW id
  PROVE  Occurs(s, id) = Occurs(SubSeq(s, 1, n), id) + Occurs(SubSeq(s, n + 1, Len(s)), id)
<1> DEFINE a == SubSeq(s, 1, n)
           b == SubSeq(s, n + 1, Len(s))
<1>0. Len(s) \in Nat /\ \A i \in 1 .. Len(s) : s[i] \in M
  BY LenProperties, ElementOfSeq
<1>1. a \in Seq(M) /\ Len(a) = n /\ \A i \in 1 .. n : a[i] = s[i]
  <2>1. \A i \in 1 .. n : s[i] \in M
    BY <1>0
  <2> DEFINE one == 1
  <2>2. one \in Int /\ n \in Int /\ one = 1 /\ \A i \in one .. n : s[i] \in M
    BY <2>1
  <2> HIDE DEF one
  <2>3. /\ SubSeq(s, one, n) \in Seq(M)
        /\ Len(SubSeq(s, one, n)) = IF one <= n THEN n - one + 1 ELSE 0
        /\ \A i \in 1 .. n - one + 1 : SubSeq(s, one, n)[i] = s[one + i - 1]
    BY <2>2, SubSeqProperties
  <2> QED BY <1>0, <2>2, <2>3
<1>2. b \in Seq(M) /\ Len(b) = Len(s) - n /\ \A i \in 1 .. Len(s) - n : b[i] = s[n + i]
  <2> DEFINE f == n + 1
             l == Len(s)
  <2>1. f \in Int /\ l \in Int /\ f = n + 1 /\ l = Len(s) /\ \A i \in f .. l : s[i] \in M
    BY <1>0
  <2> HIDE DEF f, l
  <2>2. /\ SubSeq(s, f, l) \in Seq(M)
        /\ Len(SubSeq(s, f, l)) = IF f <= l THEN l - f + 1 ELSE 0
        /\ \A i \in 1 .. l - f + 1 : SubSeq(s, f, l)[i] = s[f + i - 1]
    BY <2>1, SubSeqProperties
  <2> QED BY <1>0, <2>1, <2>2
<1> HIDE DEF a, b
<1>3. a \o b = s
  <2>1. /\ a \o b \in Seq(M) /\ Len(a \o b) = Len(a) + Len(b)
        /\ \A i \in 1 .. Len(a) + Len(b) :
             (a \o b)[i] = IF i <= Len(a) THEN a[i] ELSE b[i - Len(a)]
    BY <1>1, <1>2, ConcatProperties
  <2> DEFINE u == a \o b
  <2> HIDE DEF u
  <2>2. u \in Seq(M) /\ Len(u) = Len(s) /\ \A i \in 1 .. Len(u) : u[i] = s[i]
    BY <1>0, <1>1, <1>2, <2>1 DEF u
  <2> QED BY <2>2, SeqEqual DEF u
<1>4. Occurs(a \o b, id) = Occurs(a, id) + Occurs(b, id)
  BY <1>1, <1>2, OccursConcat
<1> QED BY <1>3, <1>4 DEF a, b
-----------------------------------------------------------------------------
(***************************************************************************)
(* What the relay keeps: messages with ids up to n, windows, consumers.    *)
(***************************************************************************)
Bodies == {p[2] : p \in Inputs}

Msgs(n) ==
  {m \in [type : MediaTypes, cls : AudioClasses \cup VideoClasses, body : Bodies,
          ts : Int, id : 1 .. n] :
     m.type = "audio" <=> m.cls \in AudioClasses}

Queues(n) == [msgs : Seq(Msgs(n)), av_start : Int, av_end : Int]

Clocks == [last : Int, correct : Int]

Viewers(n) ==
  [queue : Queues(n), jitter : Clocks, inflight : Seq(Msgs(n)), header : Bodies \cup {"none"}]

LEMMA Stamped ==
  ASSUME NEW n \in Nat, NEW m \in Msgs(n), NEW t \in Int
  PROVE  /\ [m EXCEPT !.ts = t] \in Msgs(n) /\ [m EXCEPT !.ts = t].id = m.id
         /\ m # Null /\ IsAV(m) /\ IsAV([m EXCEPT !.ts = t]) /\ [m EXCEPT !.ts = t].ts = t
BY DEF Msgs, Null, IsAV, MediaTypes

LEMMA MsgsGrow == ASSUME NEW n \in Nat PROVE Msgs(n) \subseteq Msgs(n + 1)
BY DEF Msgs

\* Jitter::Correct keeps a clock a clock.
LEMMA Clocked ==
  ASSUME NEW j \in Clocks, NEW t \in Int
  PROVE  JitterCorrect(j, t) \in Clocks /\ JitterCorrect(j, t).correct \in Int
<1>1. MaxJitter \in Int /\ FrameTime \in Int
  BY WindowAssumption
<1> QED BY <1>1 DEF Clocks, JitterCorrect

\* One of the two headers that Shrink keeps.
Kept(s, hit, t) == IF hit = {} THEN <<>> ELSE <<[s[CHOOSE i \in hit : TRUE] EXCEPT !.ts = t]>>

LEMMA KeptCount ==
  ASSUME NEW n \in Nat, NEW s \in Seq(Msgs(n)), NEW t \in Int, NEW id,
         NEW hit \in SUBSET (1 .. Len(s)), \A i, j \in hit : i = j
  PROVE  /\ Kept(s, hit, t) \in Seq(Msgs(n))
         /\ Occurs(Kept(s, hit, t), id) = Cardinality({i \in hit : s[i].id = id})
<1>1. CASE hit = {}
  <2>1. {i \in hit : s[i].id = id} = {}
    BY <1>1
  <2>2. Kept(s, hit, t) = <<>>
    BY <1>1 DEF Kept
  <2> QED BY <2>1, <2>2, OccursEmpty, FS_EmptySet, EmptySeq
<1>2. CASE hit # {}
  <2> DEFINE c == CHOOSE i \in hit : TRUE
             m == [s[c] EXCEPT !.ts = t]
  <2>1. c \in hit
    BY <1>2
  <2>2. hit = {c}
    BY <2>1
  <2>3. Kept(s, hit, t) = <<m>>
    BY <1>2 DEF Kept
  <2> HIDE DEF c
  <2>4. s[c] \in Msgs(n)
    BY <2>1, ElementOfSeq
  <2>5. m \in Msgs(n) /\ m.id = s[c].id
    BY <2>4, Stamped
  <2> HIDE DEF m
  <2>6. <<m>> \in Seq(Msgs(n))
    BY <2>5
  <2>7. Occurs(<<m>>, id) = IF s[c].id = id THEN 1 ELSE 0
    BY <2>5, OccursOne
  <2>8. {i \in hit : s[i].id = id} = IF s[c].id = id THEN {c} ELSE {}
    BY <2>2
  <2>9. Cardinality({c}) = 1 /\ Cardinality({}) = 0
    BY FS_EmptySet, FS_Singleton
  <2> QED BY <2>3, <2>6, <2>7, <2>8, <2>9
<1> QED BY <1>1, <1>2

(***************************************************************************)
(* MessageQueue::Shrink frees the handles it does not keep.                *)
(***************************************************************************)
LEMMA ShrinkCount ==
  ASSUME NEW n \in Nat, NEW q \in Queues(n), NEW id
  PROVE  /\ Shrink(q) \in Queues(n)
         /\ Cardinality({i \in ShrinkFrees(q.msgs) : q.msgs[i].id = id}) \in Nat
         /\ Occurs(Shrink(q).msgs, id) =
              Occurs(q.msgs, id) - Cardinality({i \in ShrinkFrees(q.msgs) : q.msgs[i].id = id})
<1> DEFINE s == q.msgs
           t == q.av_end
           A == LastOf(s, AudioSh)
           B == LastOf(s, VideoSh)
           a == {i \in A : s[i].id = id}
           b == {i \in B : s[i].id = id}
           f == {i \in ShrinkFrees(s) : s[i].id = id}
<1>0. s \in Seq(Msgs(n)) /\ t \in Int
  BY DEF Queues
<1>1. Len(s) \in Nat
  BY <1>0, LenProperties
<1>2. /\ A \in SUBSET (1 .. Len(s)) /\ B \in SUBSET (1 .. Len(s))
      /\ \A i \in A : AudioSh(s[i]) /\ \A k \in i + 1 .. Len(s) : ~AudioSh(s[k])
      /\ \A i \in B : VideoSh(s[i]) /\ \A k \in i + 1 .. Len(s) : ~VideoSh(s[k])
  BY DEF LastOf
<1>6. Shrink(q) = [msgs |-> Kept(s, A, t) \o Kept(s, B, t), av_start |-> t, av_end |-> t]
  BY DEF Shrink, Kept
<1>7. ShrinkFrees(s) = (1 .. Len(s)) \ (A \cup B)
  BY DEF ShrinkFrees
<1> HIDE DEF A, B, s, t
<1>3. A \cap B = {}
  BY <1>2 DEF VideoSh
<1>4. \A i, j \in A : i = j
  <2> SUFFICES ASSUME NEW i \in A, NEW j \in A, i < j PROVE FALSE
    BY <1>1, <1>2
  <2>1. j \in i + 1 .. Len(s)
    BY <1>1, <1>2
  <2> QED BY <1>2, <2>1
<1>5. \A i, j \in B : i = j
  <2> SUFFICES ASSUME NEW i \in B, NEW j \in B, i < j PROVE FALSE
    BY <1>1, <1>2
  <2>1. j \in i + 1 .. Len(s)
    BY <1>1, <1>2
  <2> QED BY <1>2, <2>1
<1>8. Kept(s, A, t) \in Seq(Msgs(n)) /\ Occurs(Kept(s, A, t), id) = Cardinality(a)
  BY <1>0, <1>2, <1>4, KeptCount
<1>9. Kept(s, B, t) \in Seq(Msgs(n)) /\ Occurs(Kept(s, B, t), id) = Cardinality(b)
  <2>1. B \in SUBSET (1 .. Len(s))
    BY <1>2
  <2> HIDE DEF b
  <2>2. b = {i \in B : s[i].id = id}
    BY DEF b
  <2> QED BY <1>0, <1>5, <2>1, <2>2, KeptCount
<1>10. /\ Kept(s, A, t) \o Kept(s, B, t) \in Seq(Msgs(n))
       /\ Occurs(Kept(s, A, t) \o Kept(s, B, t), id) = Cardinality(a) + Cardinality(b)
  BY <1>8, <1>9, OccursConcat, ConcatProperties
<1>11. IsFiniteSet(At(s, id)) /\ Occurs(s, id) = Cardinality(At(s, id))
  BY <1>1, OccursNat
<1>12. /\ At(s, id) = (a \cup b) \cup f
       /\ a \cap b = {} /\ (a \cup b) \cap f = {}
  BY <1>2, <1>3, <1>7 DEF At
<1> HIDE DEF a, b, f
<1>13. IsFiniteSet(a) /\ IsFiniteSet(b) /\ IsFiniteSet(f) /\ IsFiniteSet(a \cup b)
  <2>1. a \in SUBSET At(s, id) /\ b \in SUBSET At(s, id) /\ f \in SUBSET At(s, id) /\ a \cup b \in SUBSET At(s, id)
    BY <1>12
  <2> QED BY <1>11, <2>1, FS_Subset
<1>14. Cardinality(a) \in Nat /\ Cardinality(b) \in Nat /\ Cardinality(f) \in Nat
  BY <1>13, FS_CardinalityType
<1>15. Cardinality(a \cup b) = Cardinality(a) + Cardinality(b)
  BY <1>12, <1>13, CardUnion
<1>16. Cardinality((a \cup b) \cup f) = Cardinality(a \cup b) + Cardinality(f)
  BY <1>12, <1>13, CardUnion
<1>17. Shrink(q) \in Queues(n) /\ Shrink(q).msgs = Kept(s, A, t) \o Kept(s, B, t)
  BY <1>0, <1>6, <1>10 DEF Queues
<1> QED BY <1>10, <1>11, <1>12, <1>14, <1>15, <1>16, <1>17 DEF f, s

(***************************************************************************)
(* Consumer::Enqueue takes one handle and destroys GivenFrees.             *)
(***************************************************************************)
LEMMA GivenCount ==
  ASSUME NEW n \in Nat, NEW c \in Viewers(n), NEW m \in Msgs(n), NEW id
  PROVE  /\ Given(c, m) \in Viewers(n)
         /\ GivenFrees(c, m, id) \in Nat
         /\ Owned(Given(c, m), id) = Owned(c, id) + (Held(m, id) - GivenFrees(c, m, id))
         /\ Given(c, m).header =
              IF IsVideo(m) /\ IsVideoSeqenceHeader(m) THEN m.body ELSE c.header
<1> DEFINE j == JitterCorrect(c.jitter, m.ts)
           k == [m EXCEPT !.ts = j.correct]
           q == Added(c.queue, k)
           s == c.queue.msgs
<1>0. /\ c.jitter \in Clocks /\ c.queue \in Queues(n) /\ c.inflight \in Seq(Msgs(n))
      /\ s \in Seq(Msgs(n)) /\ m.ts \in Int /\ m.body \in Bodies
  BY DEF Viewers, Queues, Msgs
<1>1. j \in Clocks /\ j.correct \in Int
  BY <1>0, Clocked
<1>2. /\ k \in Msgs(n) /\ k.id = m.id /\ m # Null /\ IsAV(k) /\ k.ts \in Int
  BY <1>1, Stamped
<1>3. Given(c, m) = [queue |-> Enqueue(c.queue, k), jitter |-> j, inflight |-> c.inflight,
                     header |-> IF IsVideo(m) /\ IsVideoSeqenceHeader(m) THEN m.body ELSE c.header]
  <2>1. /\ DOMAIN c = {"queue", "jitter", "inflight", "header"}
        /\ c = [queue |-> c.queue, jitter |-> c.jitter, inflight |-> c.inflight, header |-> c.header]
    BY DEF Viewers
  <2> HIDE DEF j, k
  <2>2. Given(c, m) = [c EXCEPT !.queue = Enqueue(c.queue, k), !.jitter = j,
                         !.header = IF IsVideo(m) /\ IsVideoSeqenceHeader(m) THEN m.body ELSE c.header]
    BY DEF Given, j, k
  <2> DEFINE h == IF IsVideo(m) /\ IsVideoSeqenceHeader(m) THEN m.body ELSE c.header
  <2> HIDE DEF h
  <2> QED BY <2>1, <2>2 DEF h
<1>4. GivenFrees(c, m, id) =
        IF Overflows(c.queue, k) THEN Cardinality({i \in ShrinkFrees(q.msgs) : q.msgs[i].id = id}) ELSE 0
  BY DEF GivenFrees
<1> HIDE DEF j, k
<1>5. q \in Queues(n) /\ q.msgs = Append(s, k)
  <2>1. Append(s, k) \in Seq(Msgs(n))
    BY <1>0, <1>2, AppendProperties
  <2> QED BY <1>0, <1>2, <2>1 DEF Added, Queues
<1>6. Occurs(q.msgs, id) = Occurs(s, id) + Held(m, id)
  <2>1. Occurs(Append(s, k), id) = Occurs(s, id) + (IF k.id = id THEN 1 ELSE 0)
    BY <1>0, <1>2, OccursAppend
  <2> QED BY <1>2, <1>5, <2>1 DEF Held
<1>7. Enqueue(c.queue, k) = IF Overflows(c.queue, k) THEN Shrink(q) ELSE q
  BY DEF Enqueue
<1> HIDE DEF q
<1>8. /\ Shrink(q) \in Queues(n)
      /\ Cardinality({i \in ShrinkFrees(q.msgs) : q.msgs[i].id = id}) \in Nat
      /\ Occurs(Shrink(q).msgs, id) =
           Occurs(q.msgs, id) - Cardinality({i \in ShrinkFrees(q.msgs) : q.msgs[i].id = id})
  BY <1>5, ShrinkCount
<1>9. Enqueue(c.queue, k) \in Queues(n) /\ GivenFrees(c, m, id) \in Nat
  <2> DEFINE d == Cardinality({i \in ShrinkFrees(q.msgs) : q.msgs[i].id = id})
  <2> HIDE DEF d
  <2>1. CASE Overflows(c.queue, k)
    BY <1>4, <1>7, <1>8, <2>1 DEF d
  <2>2. CASE ~Overflows(c.queue, k)
    BY <1>4, <1>5, <1>7, <2>2
  <2> QED BY <2>1, <2>2
<1>10. Occurs(s, id) \in Nat /\ Occurs(c.inflight, id) \in Nat /\ Held(m, id) \in Nat
  BY <1>0, LenProperties, OccursNat DEF Held
<1>11. Occurs(Enqueue(c.queue, k).msgs, id) = Occurs(s, id) + (Held(m, id) - GivenFrees(c, m, id))
  BY <1>4, <1>6, <1>7, <1>8, <1>10
<1>12. Given(c, m) \in Viewers(n)
  <2>1. Given(c, m).header \in Bodies \cup {"none"}
    BY <1>0, <1>3 DEF Viewers
  <2> QED BY <1>0, <1>1, <1>3, <1>9, <2>1 DEF Viewers
<1>13. Given(c, m).header = IF IsVideo(m) /\ IsVideoSeqenceHeader(m) THEN m.body ELSE c.header
  BY <1>3
<1>14. Owned(Given(c, m), id) = Owned(c, id) + (Held(m, id) - GivenFrees(c, m, id))
  BY <1>3, <1>9, <1>10, <1>11 DEF Owned
<1> QED BY <1>9, <1>12, <1>13, <1>14
-----------------------------------------------------------------------------
(***************************************************************************)
(* The GOP cache: its counters and the handles it takes and frees.         *)
(***************************************************************************)
Gops(n) == [msgs : Seq(Msgs(n)), cached_video_count : Nat, audio_after : Nat]

Videos(s) == {i \in 1 .. Len(s) : IsVideo(s[i])}

After(s) == {i \in 1 .. Len(s) : \A v \in Videos(s) : v < i}

GopExact(g) ==
  /\ g.cached_video_count = Cardinality(Videos(g.msgs))
  /\ g.audio_after = Cardinality(After(g.msgs))
  /\ g.audio_after <= PureAudioGuess

IsHeader(m) == IsVideo(m) /\ IsVideoSeqenceHeader(m)

\* No video sequence header is kept with the GOP.
GopClean(g) == \A i \in 1 .. Len(g.msgs) : ~IsHeader(g.msgs[i])

\* What a message at the end does to the two counts.
LEMMA CountAppend ==
  ASSUME NEW M, NEW s \in Seq(M), NEW m \in M
  PROVE  /\ Cardinality(Videos(Append(s, m))) =
              Cardinality(Videos(s)) + (IF IsVideo(m) THEN 1 ELSE 0)
         /\ Cardinality(After(Append(s, m))) =
              IF IsVideo(m) THEN 0 ELSE Cardinality(After(s)) + 1
<1> DEFINE t == Append(s, m)
           k == Len(s) + 1
<1>0. Len(s) \in Nat /\ k \in Nat
  BY LenProperties
<1>1. Len(t) = k /\ t[k] = m /\ \A i \in 1 .. Len(s) : t[i] = s[i]
  BY AppendProperties
<1> HIDE DEF t
<1>2. Videos(t) = IF IsVideo(m) THEN Videos(s) \cup {k} ELSE Videos(s)
  BY <1>0, <1>1 DEF Videos
<1>3. \A v \in Videos(s) : v \in 1 .. Len(s)
  BY DEF Videos
<1>4. IsVideo(m) => After(t) = {}
  <2> SUFFICES ASSUME IsVideo(m), NEW i \in After(t) PROVE FALSE
    OBVIOUS
  <2>1. k \in Videos(t) /\ i \in 1 .. k
    BY <1>1, <1>2 DEF After
  <2> QED BY <1>0, <2>1 DEF After
<1>5. ~IsVideo(m) => After(t) = After(s) \cup {k}
  <2> SUFFICES ASSUME ~IsVideo(m) PROVE After(t) = After(s) \cup {k}
    OBVIOUS
  <2>1. Videos(t) = Videos(s)
    BY <1>2
  <2>2. \A v \in Videos(s) : v < k
    BY <1>0, <1>3
  <2>3. 1 .. Len(t) = (1 .. Len(s)) \cup {k}
    BY <1>0, <1>1
  <2> HIDE DEF k
  <2> QED BY <2>1, <2>2, <2>3 DEF After
<1>6. k \notin Videos(s) /\ k \notin After(s)
  BY <1>0 DEF Videos, After
<1>7. IsFiniteSet(Videos(s)) /\ IsFiniteSet(After(s))
  <2>1. Videos(s) \in SUBSET (1 .. Len(s)) /\ After(s) \in SUBSET (1 .. Len(s))
    BY DEF Videos, After
  <2>2. IsFiniteSet(1 .. Len(s))
    BY <1>0, FS_Interval
  <2> QED BY <2>1, <2>2, FS_Subset
<1>8. /\ Cardinality(Videos(s) \cup {k}) = Cardinality(Videos(s)) + 1
      /\ Cardinality(After(s) \cup {k}) = Cardinality(After(s)) + 1
  BY <1>6, <1>7, FS_AddElement
<1>9. Cardinality(Videos(s)) \in Nat
  BY <1>7, FS_CardinalityType
<1> HIDE DEF k
<1>10. CASE IsVideo(m)
  <2>1. Cardinality({}) = 0
    BY FS_EmptySet
  <2> QED BY <1>2, <1>4, <1>8, <1>10, <2>1 DEF t
<1>11. CASE ~IsVideo(m)
  <2>1. Videos(t) = Videos(s) /\ After(t) = After(s) \cup {k}
    BY <1>2, <1>5, <1>11
  <2>2. Cardinality(Videos(t)) = Cardinality(Videos(s)) + 0
    BY <1>9, <2>1
  <2> QED BY <1>8, <1>11, <2>1, <2>2 DEF t
<1> QED BY <1>10, <1>11

LEMMA CountEmpty == Cardinality(Videos(<<>>)) = 0 /\ Cardinality(After(<<>>)) = 0
<1>1. Videos(<<>>) = {} /\ After(<<>>) = {}
  BY DEF Videos, After
<1> QED BY <1>1, FS_EmptySet

LEMMA GopEmpty ==
  ASSUME NEW n \in Nat
  PROVE  EmptyGop \in Gops(n) /\ GopExact(EmptyGop) /\ GopClean(EmptyGop)
<1>1. EmptyGop \in Gops(n) /\ GopClean(EmptyGop)
  BY DEF EmptyGop, Gops, GopClean
<1>2. GopExact(EmptyGop)
  BY CountEmpty, GopAssumption DEF EmptyGop, GopExact
<1> QED BY <1>1, <1>2

(***************************************************************************)
(* GopCache::Cache keeps the counters right, and takes and frees the       *)
(* handles that GopCopies and GopFrees name.                               *)
(***************************************************************************)
LEMMA GopKept ==
  ASSUME NEW n \in Nat, NEW g \in Gops(n), GopExact(g), GopClean(g),
         NEW m \in Msgs(n), ~IsHeader(m), NEW id
  PROVE  /\ GopCacheMsg(g, m) \in Gops(n) /\ GopExact(GopCacheMsg(g, m))
         /\ GopClean(GopCacheMsg(g, m))
         /\ (IF GopCopies(g, m) THEN Held(m, id) ELSE 0) - Occurs(GopFrees(g, m), id) \in Int
         /\ Occurs(GopCacheMsg(g, m).msgs, id) =
              Occurs(g.msgs, id)
                + ((IF GopCopies(g, m) THEN Held(m, id) ELSE 0) - Occurs(GopFrees(g, m), id))
<1> DEFINE c == Counted(g, m)
           s == g.msgs
<1>0. /\ s \in Seq(Msgs(n)) /\ <<>> \in Seq(Msgs(n)) /\ m # Null
      /\ g.cached_video_count \in Nat /\ g.audio_after \in Nat
      /\ g = [msgs |-> s, cached_video_count |-> g.cached_video_count, audio_after |-> g.audio_after]
  BY DEF Gops, Msgs, Null, MediaTypes
<1>1. Occurs(s, id) \in Nat /\ Held(m, id) \in Nat /\ Held(m, id) = IF m.id = id THEN 1 ELSE 0
  BY <1>0, LenProperties, OccursNat DEF Held
<1>2. c = IF IsVideo(m)
          THEN [msgs |-> IF IsKeyFrame(m) THEN s ELSE <<>>,
                cached_video_count |-> IF IsKeyFrame(m) THEN g.cached_video_count + 1 ELSE 1,
                audio_after |-> 0]
          ELSE [msgs |-> s, cached_video_count |-> g.cached_video_count,
                audio_after |-> g.audio_after + 1]
  <2> HIDE DEF s
  <2>1. CASE IsVideo(m) /\ IsKeyFrame(m)
    <3>1. c = [g EXCEPT !.cached_video_count = g.cached_video_count + 1, !.audio_after = 0]
      BY <2>1 DEF Counted
    <3> DEFINE x == g.cached_video_count + 1
    <3> HIDE DEF x
    <3>2. c = [msgs |-> s, cached_video_count |-> x, audio_after |-> 0]
      BY <3>1 DEF x, s, Gops
    <3> QED BY <2>1, <3>2 DEF x
  <2>2. CASE IsVideo(m) /\ ~IsKeyFrame(m)
    BY <2>2 DEF Counted
  <2>3. CASE ~IsVideo(m)
    <3>1. c = [g EXCEPT !.audio_after = g.audio_after + 1]
      BY <2>3 DEF Counted
    <3> DEFINE x == g.audio_after + 1
    <3> HIDE DEF x
    <3>2. c = [msgs |-> s, cached_video_count |-> g.cached_video_count, audio_after |-> x]
      BY <1>0, <3>1 DEF x
    <3> QED BY <2>3, <3>2 DEF x
  <2> QED BY <2>1, <2>2, <2>3
<1>3. GopCacheMsg(g, m) = IF PureAudioOverflow(c) THEN EmptyGop ELSE [c EXCEPT !.msgs = Append(@, m)]
  BY DEF GopCacheMsg
<1>4. /\ GopFrees(g, m) = IF c.msgs = <<>> \/ PureAudioOverflow(c) THEN s ELSE <<>>
      /\ GopCopies(g, m) <=> ~PureAudioOverflow(c)
  BY DEF GopFrees, GopCopies
<1> HIDE DEF c
<1>5. CASE PureAudioOverflow(c)
  <2>1. GopCacheMsg(g, m) = EmptyGop /\ EmptyGop.msgs = <<>>
    BY <1>3, <1>5 DEF EmptyGop
  <2>2. GopFrees(g, m) = s /\ ~GopCopies(g, m)
    BY <1>4, <1>5
  <2> QED BY <1>1, <2>1, <2>2, GopEmpty, OccursEmpty
<1>6. CASE ~PureAudioOverflow(c)
  <2>1. /\ c.msgs \in Seq(Msgs(n)) /\ c.cached_video_count \in Nat /\ c.audio_after \in Nat
        /\ c = [msgs |-> c.msgs, cached_video_count |-> c.cached_video_count, audio_after |-> c.audio_after]
        /\ c.msgs = s \/ c.msgs = <<>>
    BY <1>0, <1>2
  <2>2. GopCacheMsg(g, m) = [msgs |-> Append(c.msgs, m), cached_video_count |-> c.cached_video_count,
                             audio_after |-> c.audio_after]
    BY <1>3, <1>6, <2>1
  <2>3. Append(c.msgs, m) \in Seq(Msgs(n))
    BY <2>1, AppendProperties
  <2>4. GopCacheMsg(g, m) \in Gops(n)
    BY <2>1, <2>2, <2>3 DEF Gops
  <2>5. GopExact(GopCacheMsg(g, m))
    <3>1. /\ Cardinality(Videos(Append(c.msgs, m))) =
               Cardinality(Videos(c.msgs)) + (IF IsVideo(m) THEN 1 ELSE 0)
          /\ Cardinality(After(Append(c.msgs, m))) =
               IF IsVideo(m) THEN 0 ELSE Cardinality(After(c.msgs)) + 1
      BY <2>1, CountAppend
    <3>2. c.cached_video_count = Cardinality(Videos(c.msgs)) + (IF IsVideo(m) THEN 1 ELSE 0)
      <4>1. CASE IsVideo(m) /\ ~IsKeyFrame(m)
        BY <1>2, <4>1, CountEmpty
      <4>2. CASE ~(IsVideo(m) /\ ~IsKeyFrame(m))
        BY <1>0, <1>2, <4>2 DEF GopExact
      <4> QED BY <4>1, <4>2
    <3>3. c.audio_after = IF IsVideo(m) THEN 0 ELSE Cardinality(After(c.msgs)) + 1
      BY <1>2 DEF GopExact
    <3>4. c.audio_after <= PureAudioGuess
      BY <1>6, <2>1, GopAssumption DEF PureAudioOverflow
    <3> QED BY <2>2, <3>1, <3>2, <3>3, <3>4 DEF GopExact
  <2>6. GopClean(GopCacheMsg(g, m))
    <3> DEFINE t == Append(c.msgs, m)
    <3>1. /\ Len(t) = Len(c.msgs) + 1 /\ t[Len(c.msgs) + 1] = m
          /\ \A i \in 1 .. Len(c.msgs) : t[i] = c.msgs[i]
      BY <2>1, AppendProperties
    <3>2. \A i \in 1 .. Len(c.msgs) : ~IsHeader(c.msgs[i])
      <4>1. CASE c.msgs = s
        BY <4>1 DEF GopClean
      <4>2. CASE c.msgs = <<>>
        BY <4>2
      <4> QED BY <2>1, <4>1, <4>2
    <3>3. Len(c.msgs) \in Nat /\ GopCacheMsg(g, m).msgs = t
      BY <2>1, <2>2, LenProperties
    <3> HIDE DEF t
    <3> QED BY <3>1, <3>2, <3>3 DEF GopClean
  <2>7. Occurs(GopCacheMsg(g, m).msgs, id) = Occurs(c.msgs, id) + Held(m, id)
    <3>1. Occurs(Append(c.msgs, m), id) = Occurs(c.msgs, id) + (IF m.id = id THEN 1 ELSE 0)
      BY <2>1, OccursAppend
    <3> QED BY <1>1, <2>2, <3>1
  <2>8. CASE c.msgs = <<>>
    <3>1. GopFrees(g, m) = s /\ GopCopies(g, m) /\ Occurs(c.msgs, id) = 0
      BY <1>4, <1>6, <2>8, OccursEmpty
    <3> QED BY <1>1, <2>4, <2>5, <2>6, <2>7, <3>1
  <2>9. CASE c.msgs # <<>>
    <3>1. GopFrees(g, m) = <<>> /\ GopCopies(g, m) /\ c.msgs = s
      BY <1>4, <1>6, <2>1, <2>9
    <3> QED BY <1>1, <2>4, <2>5, <2>6, <2>7, <3>1, OccursEmpty
  <2> QED BY <2>8, <2>9
<1> QED BY <1>5, <1>6
-----------------------------------------------------------------------------
(***************************************************************************)
(* The reorder buffer as the relay uses it.                                *)
(***************************************************************************)
Entries(n) == {e \in [seq : Nat, msg : Msgs(n)] : e.msg.ts \in Nat}

OfId(q, id) == {e \in q.msgs : e.msg.id = id}

Buffered(q, n) == q.msgs \in SUBSET Entries(n) /\ IsFiniteSet(q.msgs) /\ q.arrivals \in Nat

\* Pushing the message of a new id, and popping what is first.
LEMMA MixCount ==
  ASSUME NEW n \in Nat, NEW q, Buffered(q, n), NEW m \in Msgs(n + 1), m.ts \in Nat, m.id = n + 1,
         NEW id
  PROVE  LET p == MixPush(q, m) IN
         /\ Buffered(p, n + 1) /\ Buffered(MixPop(p), n + 1)
         /\ MixBegin(p).msg \in Msgs(n + 1)
         /\ Cardinality(OfId(q, id)) \in Nat
         /\ id = n + 1 => Cardinality(OfId(q, id)) = 0
         /\ Cardinality(OfId(p, id)) = Cardinality(OfId(q, id)) + (IF id = n + 1 THEN 1 ELSE 0)
         /\ Cardinality(OfId(MixPop(p), id)) = Cardinality(OfId(p, id)) - Held(MixBegin(p).msg, id)
<1> DEFINE p == MixPush(q, m)
           new == [seq |-> q.arrivals + 1, msg |-> m]
           e == MixBegin(p)
<1>1. p.msgs = q.msgs \cup {new} /\ p.arrivals = q.arrivals + 1
  BY DEF MixPush
<1>2. MixPop(p).msgs = p.msgs \ {e} /\ MixPop(p).arrivals = p.arrivals
  BY DEF MixPop, MixPush
<1>3. q.msgs \subseteq Entries(n) /\ IsFiniteSet(q.msgs) /\ q.arrivals \in Nat
  BY DEF Buffered
<1>4. new \in Entries(n + 1) /\ Entries(n) \subseteq Entries(n + 1)
  <2>1. Msgs(n) \subseteq Msgs(n + 1)
    BY MsgsGrow
  <2> QED BY <1>3, <2>1 DEF Entries
<1> HIDE DEF p, new
<1>5. Buffered(p, n + 1)
  BY <1>1, <1>3, <1>4, FS_AddElement DEF Buffered
<1>6. e \in p.msgs
  <2>1. p.msgs # {} /\ \A d \in p.msgs : d.seq \in Nat /\ d.msg.ts \in Nat
    BY <1>1, <1>5 DEF Buffered, Entries
  <2> QED BY <2>1, BeginIsLeast
<1> HIDE DEF e
<1>7. e.msg \in Msgs(n + 1) /\ e.msg # Null
  <2>1. e \in Entries(n + 1)
    BY <1>5, <1>6 DEF Buffered
  <2> QED BY <2>1 DEF Entries, Msgs, Null, MediaTypes
<1>8. Buffered(MixPop(p), n + 1)
  <2>1. IsFiniteSet(p.msgs \ {e})
    BY <1>5, FS_RemoveElement DEF Buffered
  <2> QED BY <1>2, <1>5, <2>1 DEF Buffered
<1>9. IsFiniteSet(OfId(q, id)) /\ IsFiniteSet(OfId(p, id))
  <2>1. OfId(q, id) \in SUBSET q.msgs /\ OfId(p, id) \in SUBSET p.msgs
    BY DEF OfId
  <2>2. IsFiniteSet(p.msgs)
    BY <1>5 DEF Buffered
  <2> QED BY <1>3, <2>1, <2>2, FS_Subset
<1>10. Cardinality(OfId(q, id)) \in Nat /\ Cardinality(OfId(p, id)) \in Nat
  BY <1>9, FS_CardinalityType
<1>11. OfId(p, id) = IF id = n + 1 THEN OfId(q, id) \cup {new} ELSE OfId(q, id)
  BY <1>1 DEF OfId, new
<1>12. id = n + 1 => OfId(q, id) = {}
  <2> SUFFICES ASSUME id = n + 1, NEW d \in q.msgs, d.msg.id = id PROVE FALSE
    BY DEF OfId
  <2>1. d.msg \in Msgs(n)
    BY <1>3 DEF Entries
  <2> QED BY <2>1 DEF Msgs
<1>12a. id = n + 1 => Cardinality(OfId(q, id)) = 0
  BY <1>12, FS_EmptySet
<1>13. Cardinality(OfId(p, id)) = Cardinality(OfId(q, id)) + (IF id = n + 1 THEN 1 ELSE 0)
  BY <1>9, <1>10, <1>11, <1>12, FS_AddElement
<1>14. OfId(MixPop(p), id) = OfId(p, id) \ {e}
  BY <1>2 DEF OfId
<1>15. e \in OfId(p, id) <=> e.msg.id = id
  BY <1>6 DEF OfId
<1>16. Cardinality(OfId(p, id) \ {e}) =
         IF e \in OfId(p, id) THEN Cardinality(OfId(p, id)) - 1 ELSE Cardinality(OfId(p, id))
  BY <1>9, FS_RemoveElement
<1>17. Cardinality(OfId(MixPop(p), id)) = Cardinality(OfId(p, id)) - Held(e.msg, id)
  BY <1>7, <1>10, <1>14, <1>15, <1>16 DEF Held
<1> QED BY <1>5, <1>7, <1>8, <1>10, <1>12a, <1>13, <1>17 DEF p, e
-----------------------------------------------------------------------------
(***************************************************************************)
(* Consumers: what they own together, and what a dispatch does to it.      *)
(***************************************************************************)
OwnedBy(cs, id) == [c \in 1 .. Len(cs) |-> Owned(cs[c], id)]

Together(cs, id) == Sum(OwnedBy(cs, id), Len(cs))

LEMMA OwnedNat ==
  ASSUME NEW n \in Nat, NEW c \in Viewers(n), NEW id
  PROVE  Owned(c, id) \in Nat /\ (id = n + 1 => Owned(c, id) = 0)
<1>1. c.queue.msgs \in Seq(Msgs(n)) /\ c.inflight \in Seq(Msgs(n))
  BY DEF Viewers, Queues
<1>2. Len(c.queue.msgs) \in Nat /\ Len(c.inflight) \in Nat
  BY <1>1, LenProperties
<1>3. Occurs(c.queue.msgs, id) \in Nat /\ Occurs(c.inflight, id) \in Nat
  BY <1>2, OccursNat
<1>4. ASSUME id = n + 1 PROVE Occurs(c.queue.msgs, id) = 0 /\ Occurs(c.inflight, id) = 0
  <2>1. /\ \A i \in 1 .. Len(c.queue.msgs) : c.queue.msgs[i] \in Msgs(n)
        /\ \A i \in 1 .. Len(c.inflight) : c.inflight[i] \in Msgs(n)
    BY <1>1, ElementOfSeq
  <2>2. \A m \in Msgs(n) : m.id # id
    BY <1>4 DEF Msgs
  <2> QED BY <2>1, <2>2, OccursNone
<1> QED BY <1>3, <1>4 DEF Owned

LEMMA TogetherNat ==
  ASSUME NEW n \in Nat, NEW cs \in Seq(Viewers(n)), NEW id
  PROVE  Together(cs, id) \in Int /\ (id = n + 1 => Together(cs, id) = 0)
<1> DEFINE f == OwnedBy(cs, id)
           l == Len(cs)
<1>1. l \in Nat /\ \A i \in 1 .. l : cs[i] \in Viewers(n)
  BY LenProperties, ElementOfSeq
<1>2. \A i \in 1 .. l : f[i] \in Nat /\ (id = n + 1 => f[i] = 0)
  BY <1>1, OwnedNat DEF OwnedBy
<1> HIDE DEF f, l
<1>3. Sum(f, l) \in Int
  BY <1>1, <1>2, SumInt
<1>4. ASSUME id = n + 1 PROVE Sum(f, l) = 0
  <2>1. CASE l = 0
    BY <2>1, SumStep
  <2>2. CASE l # 0
    <3>1. l \in 1 .. l /\ f[l] = 0 /\ f[l] \in Int /\ \A i \in 1 .. l : i # l => f[i] = 0
      BY <1>1, <1>2, <1>4, <2>2
    <3>2. Sum(f, l) = f[l]
      BY <1>1, <3>1, SumOne
    <3> QED BY <3>1, <3>2
  <2> QED BY <2>1, <2>2
<1> QED BY <1>3, <1>4 DEF Together, f, l

Dispatched(cs, m) == [c \in 1 .. Len(cs) |-> Given(cs[c], m)]

Delta(cs, m, id) ==
  Sum([c \in 1 .. Len(cs) |-> Held(m, id) - GivenFrees(cs[c], m, id)], Len(cs))

LEMMA DispatchCount ==
  ASSUME NEW n \in Nat, NEW cs \in Seq(Viewers(n)), NEW m \in Msgs(n), NEW id
  PROVE  /\ Dispatched(cs, m) \in Seq(Viewers(n)) /\ Len(Dispatched(cs, m)) = Len(cs)
         /\ Delta(cs, m, id) \in Int
         /\ Together(Dispatched(cs, m), id) = Together(cs, id) + Delta(cs, m, id)
         /\ \A c \in 1 .. Len(cs) : Dispatched(cs, m)[c].header =
              IF IsHeader(m) THEN m.body ELSE cs[c].header
<1> DEFINE l == Len(cs)
           ds == Dispatched(cs, m)
           f == OwnedBy(cs, id)
           g == [c \in 1 .. l |-> Held(m, id) - GivenFrees(cs[c], m, id)]
           h == OwnedBy(ds, id)
<1>1. l \in Nat /\ \A i \in 1 .. l : cs[i] \in Viewers(n)
  BY LenProperties, ElementOfSeq
<1>2. ASSUME NEW c \in 1 .. l
      PROVE  /\ Given(cs[c], m) \in Viewers(n)
             /\ GivenFrees(cs[c], m, id) \in Nat
             /\ Owned(Given(cs[c], m), id) =
                  Owned(cs[c], id) + (Held(m, id) - GivenFrees(cs[c], m, id))
             /\ Given(cs[c], m).header = IF IsHeader(m) THEN m.body ELSE cs[c].header
  BY <1>1, GivenCount DEF IsHeader
<1>3. ds \in [1 .. l -> Viewers(n)]
  BY <1>2 DEF Dispatched
<1>4. ds \in Seq(Viewers(n)) /\ Len(ds) = l /\ \A c \in 1 .. l : ds[c] = Given(cs[c], m)
  <2>1. \A c \in 1 .. l : ds[c] = Given(cs[c], m)
    BY DEF Dispatched
  <2> HIDE DEF ds, l
  <2>2. ds \in Seq(Viewers(n))
    BY <1>1, <1>3, SeqDef
  <2>3. Len(ds) = l
    BY <1>1, <1>3, <2>2, LenProperties
  <2> QED BY <2>1, <2>2, <2>3
<1> HIDE DEF ds
<1>5. \A c \in 1 .. l : ds[c].header = IF IsHeader(m) THEN m.body ELSE cs[c].header
  BY <1>2, <1>4
<1>6. ASSUME NEW c \in 1 .. l PROVE f[c] \in Int /\ g[c] \in Int /\ h[c] = f[c] + g[c]
  <2>1. f[c] = Owned(cs[c], id) /\ h[c] = Owned(ds[c], id)
    BY <1>4 DEF OwnedBy
  <2>2. Owned(cs[c], id) \in Nat
    BY <1>1, OwnedNat
  <2>3. Held(m, id) \in Nat
    BY DEF Held
  <2>4. g[c] = Held(m, id) - GivenFrees(cs[c], m, id)
    OBVIOUS
  <2> HIDE DEF f, g, h
  <2> QED BY <1>2, <1>4, <2>1, <2>2, <2>3, <2>4
<1>7. Delta(cs, m, id) = Sum(g, l)
  BY DEF Delta
<1> HIDE DEF f, g, h, l
<1>8. Sum(h, l) = Sum(f, l) + Sum(g, l) /\ Sum(g, l) \in Int
  BY <1>1, <1>6, SumAdd, SumInt
<1>9. Together(ds, id) = Sum(h, l) /\ Together(cs, id) = Sum(f, l)
  BY <1>4 DEF Together, f, h, l
<1> QED BY <1>4, <1>5, <1>7, <1>8, <1>9 DEF ds, l
-----------------------------------------------------------------------------
(***************************************************************************)
(* Priming: g holds a new consumer after each of the first n messages.     *)
(***************************************************************************)
Primes(g, p, n) == g = [i \in 0 .. n |-> IF i = 0 THEN NewConsumer ELSE Given(g[i - 1], p[i])]

LEMMA PrimesExist == ASSUME NEW p, NEW n \in Nat PROVE \E g : Primes(g, p, n)
<1> DEFINE T == {k \in Nat : \E g : Primes(g, p, k)}
<1>1. 0 \in T
  <2> DEFINE g == [i \in 0 .. 0 |-> NewConsumer]
  <2>1. Primes(g, p, 0)
    BY DEF Primes
  <2> QED BY <2>1
<1>2. ASSUME NEW k \in T PROVE k + 1 \in T
  <2>1. PICK g : Primes(g, p, k)
    OBVIOUS
  <2> DEFINE next == Given(g[k], p[k + 1])
             h == [i \in 0 .. k + 1 |-> IF i <= k THEN g[i] ELSE next]
  <2>2. k \in Nat
    OBVIOUS
  <2>3. \A i \in 0 .. k : h[i] = g[i]
    BY <2>2
  <2>4. h[k + 1] = next
    BY <2>2
  <2>5. \A i \in 0 .. k : g[i] = IF i = 0 THEN NewConsumer ELSE Given(g[i - 1], p[i])
    BY <2>1 DEF Primes
  <2>6. h = [i \in 0 .. k + 1 |-> h[i]]
    OBVIOUS
  <2> HIDE DEF h
  <2>7. ASSUME NEW i \in 0 .. k + 1
        PROVE  h[i] = IF i = 0 THEN NewConsumer ELSE Given(h[i - 1], p[i])
    <3>1. CASE i = k + 1
      <4>1. i # 0 /\ i - 1 = k /\ k \in 0 .. k
        BY <2>2, <3>1
      <4>2. h[i - 1] = g[k]
        BY <2>3, <4>1
      <4> QED BY <2>4, <3>1, <4>1, <4>2
    <3>2. CASE i # k + 1
      <4>1. i \in 0 .. k /\ (i # 0 => i - 1 \in 0 .. k)
        BY <2>2, <3>2
      <4> QED BY <2>3, <2>5, <4>1
    <3> QED BY <3>1, <3>2
  <2>8. Primes(h, p, k + 1)
    <3> HIDE DEF next
    <3> QED BY <2>6, <2>7, Zenon DEF Primes
  <2> QED BY <2>2, <2>8
<1>3. T = Nat
  <2>1. T \in SUBSET Nat
    OBVIOUS
  <2> HIDE DEF T
  <2> QED BY <1>1, <1>2, <2>1, SetInduction
<1> QED BY <1>3

LEMMA PrimedIs ==
  ASSUME Len(Primer) \in Nat
  PROVE  \A i \in 0 .. Len(Primer) :
           PrimedTo[i] = IF i = 0 THEN NewConsumer ELSE Given(PrimedTo[i - 1], Primer[i])
<1> DEFINE p == Primer
           n == Len(p)
           f == PrimedTo
<1>1. f = CHOOSE g : g = [i \in 0 .. n |-> IF i = 0 THEN NewConsumer ELSE Given(g[i - 1], p[i])]
  BY Zenon DEF PrimedTo
<1>2. \E g : g = [i \in 0 .. n |-> IF i = 0 THEN NewConsumer ELSE Given(g[i - 1], p[i])]
  <2> HIDE DEF p
  <2> QED BY PrimesExist DEF Primes, p
<1> HIDE DEF f, p, n
<1>3. f = [i \in 0 .. n |-> IF i = 0 THEN NewConsumer ELSE Given(f[i - 1], p[i])]
  BY <1>1, <1>2, Zenon
<1>4. \A i \in 0 .. n : f[i] = IF i = 0 THEN NewConsumer ELSE Given(f[i - 1], p[i])
  BY <1>3
<1> QED BY <1>4, Zenon DEF f, p, n

LEMMA NewOwnsNothing ==
  ASSUME NEW n \in Nat, NEW id
  PROVE  NewConsumer \in Viewers(n) /\ Owned(NewConsumer, id) = 0
<1>1. NewConsumer \in Viewers(n)
  <2>1. <<>> \in Seq(Msgs(n))
    OBVIOUS
  <2> QED BY <2>1 DEF NewConsumer, Viewers, EmptyQueue, Queues, NoJitter, Clocks
<1>2. NewConsumer.queue.msgs = <<>> /\ NewConsumer.inflight = <<>>
  BY DEF NewConsumer, EmptyQueue
<1> QED BY <1>1, <1>2, OccursEmpty DEF Owned

(***************************************************************************)
(* A primed consumer owns what PrimedDelta counts, and the last header it  *)
(* was given is the last of the primer.                                    *)
(***************************************************************************)
LEMMA PrimedCount ==
  ASSUME NEW n \in Nat, Primer \in Seq(Msgs(n)), NEW id
  PROVE  /\ PrimedTo[Len(Primer)] \in Viewers(n)
         /\ PrimedDelta(id) \in Int
         /\ Owned(PrimedTo[Len(Primer)], id) = PrimedDelta(id)
         /\ \A k \in 1 .. Len(Primer) :
              IsHeader(Primer[k]) /\ (\A j \in k + 1 .. Len(Primer) : ~IsHeader(Primer[j]))
                => PrimedTo[Len(Primer)].header = Primer[k].body
<1> DEFINE p == Primer
           l == Len(p)
           f == PrimedTo
           d == [i \in 1 .. l |-> Held(p[i], id) - GivenFrees(f[i - 1], p[i], id)]
<1>0. l \in Nat /\ \A i \in 1 .. l : p[i] \in Msgs(n)
  BY LenProperties, ElementOfSeq
<1>1. \A i \in 0 .. l : f[i] = IF i = 0 THEN NewConsumer ELSE Given(f[i - 1], p[i])
  BY <1>0, PrimedIs
<1>2. PrimedDelta(id) = Sum(d, l)
  BY Zenon DEF PrimedDelta
<1>3. \A i \in 1 .. l : d[i] = Held(p[i], id) - GivenFrees(f[i - 1], p[i], id)
  OBVIOUS
<1> HIDE DEF p, l, f, d
<1> DEFINE T == {i \in Nat : i <= l => /\ f[i] \in Viewers(n) /\ Owned(f[i], id) = Sum(d, i)
                                       /\ Sum(d, i) \in Int
                                       /\ \A k \in 1 .. i :
                                            IsHeader(p[k]) /\ (\A j \in k + 1 .. i : ~IsHeader(p[j]))
                                              => f[i].header = p[k].body}
<1>4. 0 \in T
  <2>1. 0 \in 0 .. l
    BY <1>0
  <2>2. f[0] = NewConsumer
    BY <1>1, <2>1
  <2>3. Sum(d, 0) = 0
    BY SumStep
  <2>4. f[0] \in Viewers(n) /\ Owned(f[0], id) = 0
    BY <2>2, NewOwnsNothing
  <2> QED BY <2>3, <2>4
<1>5. ASSUME NEW i \in T PROVE i + 1 \in T
  <2> DEFINE x == i + 1
  <2> SUFFICES ASSUME x <= l
               PROVE  /\ f[x] \in Viewers(n) /\ Owned(f[x], id) = Sum(d, x) /\ Sum(d, x) \in Int
                      /\ \A k \in 1 .. x :
                           IsHeader(p[k]) /\ (\A j \in k + 1 .. x : ~IsHeader(p[j]))
                             => f[x].header = p[k].body
    OBVIOUS
  <2>1. i \in Nat /\ i <= l /\ x \in 1 .. l /\ x \in 0 .. l /\ x # 0 /\ x - 1 = i /\ x = i + 1
    <3>1. i \in Nat
      OBVIOUS
    <3> HIDE DEF T
    <3> QED BY <1>0, <3>1
  <2>2. /\ f[i] \in Viewers(n) /\ Owned(f[i], id) = Sum(d, i) /\ Sum(d, i) \in Int
        /\ \A k \in 1 .. i :
             IsHeader(p[k]) /\ (\A j \in k + 1 .. i : ~IsHeader(p[j]))
               => f[i].header = p[k].body
    BY <2>1
  <2> HIDE DEF x, T
  <2>3. f[x] = Given(f[i], p[x]) /\ p[x] \in Msgs(n)
    BY <1>0, <1>1, <2>1
  <2>4. /\ Given(f[i], p[x]) \in Viewers(n)
        /\ GivenFrees(f[i], p[x], id) \in Nat
        /\ Owned(Given(f[i], p[x]), id) = Owned(f[i], id) + (Held(p[x], id) - GivenFrees(f[i], p[x], id))
        /\ Given(f[i], p[x]).header = IF IsHeader(p[x]) THEN p[x].body ELSE f[i].header
    BY <2>2, <2>3, GivenCount DEF IsHeader
  <2>5. Sum(d, x) = Sum(d, i) + d[x]
    BY <2>1, SumStep
  <2>6. d[x] = Held(p[x], id) - GivenFrees(f[i], p[x], id) /\ d[x] \in Int
    <3>1. Held(p[x], id) \in Nat
      BY DEF Held
    <3> QED BY <1>3, <2>1, <2>4, <3>1
  <2>7. ASSUME NEW k \in 1 .. x, IsHeader(p[k]), \A j \in k + 1 .. x : ~IsHeader(p[j])
        PROVE  f[x].header = p[k].body
    <3>1. CASE k = x
      BY <2>3, <2>4, <2>7, <3>1
    <3>2. CASE k # x
      <4>1. k \in 1 .. i /\ x \in k + 1 .. x /\ \A j \in k + 1 .. i : j \in k + 1 .. x
        BY <2>1, <3>2
      <4>2. ~IsHeader(p[x]) /\ f[i].header = p[k].body
        BY <2>2, <2>7, <4>1
      <4> QED BY <2>3, <2>4, <4>2
    <3> QED BY <3>1, <3>2
  <2>8. f[x] \in Viewers(n) /\ Owned(f[x], id) = Sum(d, x) /\ Sum(d, x) \in Int
    BY <2>2, <2>3, <2>4, <2>5, <2>6
  <2> QED BY <2>7, <2>8
<1>6. T = Nat
  <2>1. T \in SUBSET Nat
    OBVIOUS
  <2> HIDE DEF T
  <2> QED BY <1>4, <1>5, <2>1, SetInduction
<1>7. /\ f[l] \in Viewers(n) /\ Owned(f[l], id) = Sum(d, l) /\ Sum(d, l) \in Int
      /\ \A k \in 1 .. l :
           IsHeader(p[k]) /\ (\A j \in k + 1 .. l : ~IsHeader(p[j])) => f[l].header = p[k].body
  <2>1. l \in T /\ l <= l
    BY <1>0, <1>6
  <2> QED BY <2>1
<1>8. /\ f[l] \in Viewers(n) /\ PrimedDelta(id) \in Int /\ Owned(f[l], id) = PrimedDelta(id)
  BY <1>2, <1>7
<1> QED BY <1>7, <1>8 DEF f, l, p
-----------------------------------------------------------------------------
(***************************************************************************)
(* The caches and the consumers of a Source, and the handles they hold.    *)
(***************************************************************************)
Caches(n, sv, sa, g, cs) ==
  /\ sv \in Msgs(n) \cup {Null} /\ (sv # Null => IsHeader(sv))
  /\ sa \in Msgs(n) \cup {Null}
  /\ g \in Gops(n) /\ GopExact(g) /\ GopClean(g)
  /\ cs \in Seq(Viewers(n))

Loose(sv, sa, g, cs, id) ==
  Held(sv, id) + Held(sa, id) + Occurs(g.msgs, id) + Together(cs, id)

Informed(sv, cs) ==
  sv # Null /\ DemuxVideoOk(sv) => \A c \in 1 .. Len(cs) : cs[c].header = sv.body

LEMMA LooseInt ==
  ASSUME NEW n \in Nat, NEW sv, NEW sa, NEW g, NEW cs, Caches(n, sv, sa, g, cs), NEW id
  PROVE  /\ Held(sv, id) \in Nat /\ Held(sa, id) \in Nat /\ Occurs(g.msgs, id) \in Nat
         /\ Together(cs, id) \in Int /\ Loose(sv, sa, g, cs, id) \in Int
         /\ id = n + 1 => Loose(sv, sa, g, cs, id) = 0
<1>1. Held(sv, id) \in Nat /\ Held(sa, id) \in Nat
  BY DEF Held
<1>2. g.msgs \in Seq(Msgs(n)) /\ Len(g.msgs) \in Nat
  BY LenProperties DEF Caches, Gops
<1>3. Occurs(g.msgs, id) \in Nat
  BY <1>2, OccursNat
<1>4. Together(cs, id) \in Int /\ (id = n + 1 => Together(cs, id) = 0)
  BY TogetherNat DEF Caches
<1>5. ASSUME id = n + 1 PROVE Held(sv, id) = 0 /\ Held(sa, id) = 0 /\ Occurs(g.msgs, id) = 0
  <2>1. \A m \in Msgs(n) : m.id # id
    BY <1>5 DEF Msgs
  <2>2. \A i \in 1 .. Len(g.msgs) : g.msgs[i].id # id
    BY <1>2, <2>1, ElementOfSeq
  <2>3. Held(sv, id) = 0 /\ Held(sa, id) = 0
    BY <2>1 DEF Held, Caches
  <2> QED BY <2>2, <2>3, OccursNone
<1> QED BY <1>1, <1>3, <1>4, <1>5 DEF Loose

\* Ids may grow.
LEMMA CachesGrow ==
  ASSUME NEW n \in Nat, NEW sv, NEW sa, NEW g, NEW cs, Caches(n, sv, sa, g, cs)
  PROVE  Caches(n + 1, sv, sa, g, cs)
<1>1. Msgs(n) \subseteq Msgs(n + 1)
  BY MsgsGrow
<1>2. Seq(Msgs(n)) \subseteq Seq(Msgs(n + 1))
  BY <1>1, SeqMonotonic
<1>3. Queues(n) \subseteq Queues(n + 1) /\ Gops(n) \subseteq Gops(n + 1)
  BY <1>2 DEF Queues, Gops
<1>4. Viewers(n) \subseteq Viewers(n + 1)
  BY <1>2, <1>3 DEF Viewers
<1>5. cs \in Seq(Viewers(n + 1))
  BY <1>4, SeqMonotonic DEF Caches
<1> QED BY <1>1, <1>3, <1>5 DEF Caches

\* A sequence given by its elements.
LEMMA CountsSeq ==
  ASSUME NEW n \in Nat, NEW f \in [1 .. n -> Int]
  PROVE  f \in Seq(Int) /\ Len(f) = n
<1>1. f \in Seq(Int)
  BY SeqDef
<1> QED BY <1>1, LenProperties

(***************************************************************************)
(* on_audio_impl: shared_count changes as the handles do.                  *)
(***************************************************************************)
LEMMA AudioRelayed ==
  ASSUME NEW n \in Nat, n = Published + 1, NEW e \in Msgs(n), IsAudio(e),
         Caches(n, cache_sh_video, cache_sh_audio, gop, consumers),
         NEW base, \A id \in 1 .. n : base[id] \in Int, OnAudioImpl(e, base)
  PROVE  /\ Caches(n, cache_sh_video', cache_sh_audio', gop', consumers')
         /\ shared_count' \in Seq(Int) /\ Len(shared_count') = n
         /\ \A id \in 1 .. n : shared_count'[id] =
              base[id] + Loose(cache_sh_video', cache_sh_audio', gop', consumers', id)
                       - Loose(cache_sh_video, cache_sh_audio, gop, consumers, id)
         /\ Informed(cache_sh_video, consumers) => Informed(cache_sh_video', consumers')
<1> DEFINE sv == cache_sh_video
           sa == cache_sh_audio
           cs == consumers
           failed == IsAudioSeqenceHeader(e)
           cached == ~failed /\ sa = Null
           nsa == IF cached THEN e ELSE sa
           ng == IF failed THEN gop ELSE GopCacheMsg(gop, e)
           ncs == IF failed THEN cs ELSE Dispatched(cs, e)
           gd(id) == (IF GopCopies(gop, e) THEN Held(e, id) ELSE 0) - Occurs(GopFrees(gop, e), id)
           count(id) == base[id] + (IF cached THEN Held(e, id) - Held(sa, id) ELSE 0)
                          + (IF failed THEN 0 ELSE Delta(cs, e, id)) + (IF failed THEN 0 ELSE gd(id))
<1>1. ~DemuxAudioOk(e)
  BY DEF DemuxAudioOk
<1>2. /\ cache_sh_video' = sv /\ cache_sh_audio' = nsa /\ gop' = ng /\ consumers' = ncs
  BY <1>1 DEF OnAudioImpl, Dispatched
<1>3. shared_count' = [id \in 1 .. n |-> count(id)]
  BY <1>1 DEF OnAudioImpl, CacheDelta, DispatchDelta, Delta, GopDelta
<1>4. ~IsHeader(e) /\ e # Null
  BY DEF IsHeader, IsVideo, IsAudio, Null
<1>5. /\ gop \in Gops(n) /\ GopExact(gop) /\ GopClean(gop) /\ cs \in Seq(Viewers(n))
      /\ sa \in Msgs(n) \cup {Null} /\ sv \in Msgs(n) \cup {Null} /\ (sv # Null => IsHeader(sv))
  BY DEF Caches
<1> HIDE DEF sv, sa, cs, failed
<1>6. ASSUME NEW id
      PROVE  /\ ng \in Gops(n) /\ GopExact(ng) /\ GopClean(ng) /\ gd(id) \in Int
             /\ Occurs(ng.msgs, id) = Occurs(gop.msgs, id) + (IF failed THEN 0 ELSE gd(id))
  <2>1. /\ GopCacheMsg(gop, e) \in Gops(n) /\ GopExact(GopCacheMsg(gop, e))
        /\ GopClean(GopCacheMsg(gop, e)) /\ gd(id) \in Int
        /\ Occurs(GopCacheMsg(gop, e).msgs, id) = Occurs(gop.msgs, id) + gd(id)
    BY <1>4, <1>5, GopKept
  <2>2. Occurs(gop.msgs, id) \in Nat
    BY LooseInt
  <2> HIDE DEF gd
  <2> QED BY <1>5, <2>1, <2>2
<1>7. ASSUME NEW id
      PROVE  /\ ncs \in Seq(Viewers(n)) /\ Len(ncs) = Len(cs) /\ Delta(cs, e, id) \in Int
             /\ Together(ncs, id) = Together(cs, id) + (IF failed THEN 0 ELSE Delta(cs, e, id))
             /\ \A c \in 1 .. Len(cs) : ncs[c].header = cs[c].header
  <2>1. /\ Dispatched(cs, e) \in Seq(Viewers(n)) /\ Len(Dispatched(cs, e)) = Len(cs)
        /\ Delta(cs, e, id) \in Int
        /\ Together(Dispatched(cs, e), id) = Together(cs, id) + Delta(cs, e, id)
        /\ \A c \in 1 .. Len(cs) : Dispatched(cs, e)[c].header =
             IF IsHeader(e) THEN e.body ELSE cs[c].header
    BY <1>5, DispatchCount
  <2>2. Together(cs, id) \in Int
    BY <1>5, TogetherNat
  <2> QED BY <1>4, <1>5, <2>1, <2>2
<1>8. nsa \in Msgs(n) \cup {Null}
  BY <1>5
<1>9. ASSUME NEW id
      PROVE  Held(nsa, id) = Held(sa, id) + (IF cached THEN Held(e, id) - Held(sa, id) ELSE 0)
  <2>1. Held(sa, id) \in Nat /\ Held(e, id) \in Nat
    BY DEF Held
  <2> QED BY <2>1
<1>10. Caches(n, sv, nsa, ng, ncs)
  BY <1>5, <1>6, <1>7, <1>8 DEF Caches
<1>11. ASSUME NEW id
       PROVE  /\ Held(sv, id) \in Nat /\ Held(sa, id) \in Nat /\ Occurs(gop.msgs, id) \in Nat
              /\ Together(cs, id) \in Int /\ Held(e, id) \in Nat
  BY LooseInt DEF sv, sa, cs, Held
<1>12. ASSUME NEW id \in 1 .. n
       PROVE  /\ count(id) \in Int
              /\ count(id) = base[id] + Loose(sv, nsa, ng, ncs, id) - Loose(sv, sa, gop, cs, id)
  <2> HIDE DEF cached, nsa, ng, ncs, gd
  <2> DEFINE x == IF cached THEN Held(e, id) - Held(sa, id) ELSE 0
             y == IF failed THEN 0 ELSE Delta(cs, e, id)
             z == IF failed THEN 0 ELSE gd(id)
  <2>1. x \in Int /\ y \in Int /\ z \in Int
    BY <1>6, <1>7, <1>11
  <2>2. /\ Occurs(ng.msgs, id) = Occurs(gop.msgs, id) + z
        /\ Together(ncs, id) = Together(cs, id) + y
        /\ Held(nsa, id) = Held(sa, id) + x
    BY <1>6, <1>7, <1>9
  <2>3. count(id) = base[id] + x + y + z
    OBVIOUS
  <2> HIDE DEF x, y, z, count
  <2> QED BY <1>11, <2>1, <2>2, <2>3 DEF Loose
<1>13. Informed(sv, cs) => Informed(sv, ncs)
  <2> HIDE DEF ncs
  <2> QED BY <1>7 DEF Informed
<1> HIDE DEF nsa, ng, ncs, count
<1>14. shared_count' \in [1 .. n -> Int]
  BY <1>3, <1>12
<1>15. shared_count' \in Seq(Int) /\ Len(shared_count') = n
  BY <1>14, CountsSeq
<1>16. \A id \in 1 .. n : shared_count'[id] = base[id] + Loose(sv, nsa, ng, ncs, id) - Loose(sv, sa, gop, cs, id)
  BY <1>3, <1>12
<1> QED BY <1>2, <1>10, <1>13, <1>15, <1>16 DEF sv, sa, cs

(***************************************************************************)
(* on_video_impl: the same, and a header that is dropped as a repetition   *)
(* is the one the consumers have.                                          *)
(***************************************************************************)
LEMMA VideoRelayed ==
  ASSUME NEW n \in Nat, n = Published + 1, NEW e \in Msgs(n), ~IsAudio(e),
         Caches(n, cache_sh_video, cache_sh_audio, gop, consumers),
         NEW base, \A id \in 1 .. n : base[id] \in Int, OnVideoImpl(e, base)
  PROVE  /\ Caches(n, cache_sh_video', cache_sh_audio', gop', consumers')
         /\ shared_count' \in Seq(Int) /\ Len(shared_count') = n
         /\ \A id \in 1 .. n : shared_count'[id] =
              base[id] + Loose(cache_sh_video', cache_sh_audio', gop', consumers', id)
                       - Loose(cache_sh_video, cache_sh_audio, gop, consumers, id)
         /\ Informed(cache_sh_video, consumers) => Informed(cache_sh_video', consumers')
<1> DEFINE sv == cache_sh_video
           sa == cache_sh_audio
           cs == consumers
           sh == IsVideoSeqenceHeader(e)
           relay == ~(sh /\ ~DemuxVideoOk(e)) /\ ~DropForReduce(e)
           nsv == IF sh THEN e ELSE sv
           ng == IF sh THEN gop ELSE GopCacheMsg(gop, e)
           ncs == IF relay THEN Dispatched(cs, e) ELSE cs
           gd(id) == (IF GopCopies(gop, e) THEN Held(e, id) ELSE 0) - Occurs(GopFrees(gop, e), id)
           count(id) == base[id] + (IF sh THEN Held(e, id) - Held(sv, id) ELSE gd(id))
                          + (IF relay THEN Delta(cs, e, id) ELSE 0)
<1>1. /\ cache_sh_video' = nsv /\ cache_sh_audio' = sa /\ gop' = ng /\ consumers' = ncs
  BY DEF OnVideoImpl, Dispatched
<1>2. shared_count' = [id \in 1 .. n |-> count(id)]
  BY DEF OnVideoImpl, CacheDelta, DispatchDelta, Delta, GopDelta
<1>3. IsVideo(e) /\ (IsHeader(e) <=> sh) /\ e # Null
  BY DEF IsHeader, IsVideo, IsAudio, Null, Msgs, MediaTypes
<1>4. /\ gop \in Gops(n) /\ GopExact(gop) /\ GopClean(gop) /\ cs \in Seq(Viewers(n))
      /\ sa \in Msgs(n) \cup {Null} /\ sv \in Msgs(n) \cup {Null} /\ (sv # Null => IsHeader(sv))
  BY DEF Caches
<1>5. sh /\ DemuxVideoOk(e) /\ ~relay => sv # Null /\ DemuxVideoOk(sv) /\ sv.body = e.body
  BY DEF DropForReduce, SamePayload, DemuxVideoOk
<1> HIDE DEF sv, sa, cs, sh, relay
<1>6. ASSUME NEW id, ~sh
      PROVE  /\ ng \in Gops(n) /\ GopExact(ng) /\ GopClean(ng) /\ gd(id) \in Int
             /\ Occurs(ng.msgs, id) = Occurs(gop.msgs, id) + gd(id)
  <2>1. /\ GopCacheMsg(gop, e) \in Gops(n) /\ GopExact(GopCacheMsg(gop, e))
        /\ GopClean(GopCacheMsg(gop, e)) /\ gd(id) \in Int
        /\ Occurs(GopCacheMsg(gop, e).msgs, id) = Occurs(gop.msgs, id) + gd(id)
    BY <1>3, <1>4, <1>6, GopKept
  <2> HIDE DEF gd
  <2> QED BY <1>6, <2>1
<1>7. ASSUME NEW id
      PROVE  /\ ncs \in Seq(Viewers(n)) /\ Len(ncs) = Len(cs) /\ Delta(cs, e, id) \in Int
             /\ Together(ncs, id) = Together(cs, id) + (IF relay THEN Delta(cs, e, id) ELSE 0)
             /\ \A c \in 1 .. Len(cs) : ncs[c].header = IF relay /\ sh THEN e.body ELSE cs[c].header
  <2>1. /\ Dispatched(cs, e) \in Seq(Viewers(n)) /\ Len(Dispatched(cs, e)) = Len(cs)
        /\ Delta(cs, e, id) \in Int
        /\ Together(Dispatched(cs, e), id) = Together(cs, id) + Delta(cs, e, id)
        /\ \A c \in 1 .. Len(cs) : Dispatched(cs, e)[c].header =
             IF IsHeader(e) THEN e.body ELSE cs[c].header
    BY <1>4, DispatchCount
  <2>2. Together(cs, id) \in Int
    BY <1>4, TogetherNat
  <2> QED BY <1>3, <1>4, <2>1, <2>2
<1>8. ng \in Gops(n) /\ GopExact(ng) /\ GopClean(ng)
  <2>1. CASE sh
    BY <1>4, <2>1
  <2>2. CASE ~sh
    BY <1>6, <2>2
  <2> QED BY <2>1, <2>2
<1>9. Caches(n, nsv, sa, ng, ncs)
  <2>1. nsv \in Msgs(n) \cup {Null} /\ (nsv # Null => IsHeader(nsv))
    BY <1>3, <1>4
  <2> HIDE DEF nsv, ng, ncs
  <2> QED BY <1>4, <1>7, <1>8, <2>1 DEF Caches
<1>10. ASSUME NEW id
       PROVE  /\ Held(sv, id) \in Nat /\ Held(sa, id) \in Nat /\ Occurs(gop.msgs, id) \in Nat
              /\ Together(cs, id) \in Int /\ Held(e, id) \in Nat
  BY LooseInt DEF sv, sa, cs, Held
<1>11. ASSUME NEW id \in 1 .. n
       PROVE  /\ count(id) \in Int
              /\ count(id) = base[id] + Loose(nsv, sa, ng, ncs, id) - Loose(sv, sa, gop, cs, id)
  <2> DEFINE y == IF relay THEN Delta(cs, e, id) ELSE 0
  <2>1. y \in Int /\ Together(ncs, id) = Together(cs, id) + y
    BY <1>7
  <2>2. CASE sh
    <3>1. /\ nsv = e /\ ng = gop /\ count(id) = base[id] + (Held(e, id) - Held(sv, id)) + y
      BY <2>2
    <3> HIDE DEF nsv, ng, ncs, count, y
    <3> QED BY <1>10, <2>1, <3>1 DEF Loose
  <2>3. CASE ~sh
    <3>1. /\ nsv = sv /\ count(id) = base[id] + gd(id) + y
      BY <2>3
    <3>2. gd(id) \in Int /\ Occurs(ng.msgs, id) = Occurs(gop.msgs, id) + gd(id)
      BY <1>6, <2>3
    <3> HIDE DEF nsv, ng, ncs, count, gd, y
    <3> QED BY <1>10, <2>1, <3>1, <3>2 DEF Loose
  <2> QED BY <2>2, <2>3
<1>12. Informed(sv, cs) => Informed(nsv, ncs)
  <2> SUFFICES ASSUME Informed(sv, cs), nsv # Null, DemuxVideoOk(nsv), NEW c \in 1 .. Len(ncs)
               PROVE  ncs[c].header = nsv.body
    BY DEF Informed
  <2>1. c \in 1 .. Len(cs) /\ ncs[c].header = IF relay /\ sh THEN e.body ELSE cs[c].header
    BY <1>7
  <2>2. CASE sh
    <3>1. nsv = e
      BY <2>2
    <3> HIDE DEF nsv, ncs
    <3> QED BY <1>5, <2>1, <2>2, <3>1 DEF Informed
  <2>3. CASE ~sh
    <3>1. nsv = sv
      BY <2>3
    <3> HIDE DEF nsv, ncs
    <3> QED BY <2>1, <2>3, <3>1 DEF Informed
  <2> QED BY <2>2, <2>3
<1> HIDE DEF nsv, ng, ncs, count
<1>13. shared_count' \in [1 .. n -> Int]
  BY <1>2, <1>11
<1>14. shared_count' \in Seq(Int) /\ Len(shared_count') = n
  BY <1>13, CountsSeq
<1>15. \A id \in 1 .. n : shared_count'[id] = base[id] + Loose(nsv, sa, ng, ncs, id) - Loose(sv, sa, gop, cs, id)
  BY <1>2, <1>11
<1> QED BY <1>1, <1>9, <1>12, <1>14, <1>15 DEF sv, sa, cs
-----------------------------------------------------------------------------
(***************************************************************************)
(* The inductive invariant.                                                *)
(***************************************************************************)
IInv ==
  /\ shared_count \in Seq(Int)
  /\ Buffered(mix, Published)
  /\ Caches(Published, cache_sh_video, cache_sh_audio, gop, consumers)
  /\ Informed(cache_sh_video, consumers)
  /\ \A id \in 1 .. Published :
       shared_count[id] + 1 =
         Cardinality(OfId(mix, id)) + Loose(cache_sh_video, cache_sh_audio, gop, consumers, id)

LEMMA InitIInv == Init => IInv
<1> SUFFICES ASSUME Init PROVE IInv
  OBVIOUS
<1>1. shared_count \in Seq(Int) /\ Published = 0
  BY DEF Init, Published
<1>2. Buffered(mix, 0)
  BY FS_EmptySet DEF Init, EmptyMix, Buffered
<1>3. Caches(0, cache_sh_video, cache_sh_audio, gop, consumers)
  <2> DEFINE z == 0
  <2>1. z \in Nat
    OBVIOUS
  <2> HIDE DEF z
  <2>2. EmptyGop \in Gops(z) /\ GopExact(EmptyGop) /\ GopClean(EmptyGop)
    BY <2>1, GopEmpty
  <2> QED BY <2>2 DEF Init, Caches, z
<1>4. Informed(cache_sh_video, consumers)
  BY DEF Init, Informed
<1> QED BY <1>1, <1>2, <1>3, <1>4 DEF IInv

(***************************************************************************)
(* OnAudio and OnVideo.                                                    *)
(***************************************************************************)
LEMMA PublishIInv == ASSUME IInv, NEW p \in Inputs, OnMessage(p) PROVE IInv'
<1> DEFINE P == Published
           n == P + 1
           m == [type |-> IF p[1] \in AudioClasses THEN "audio" ELSE "video",
                 cls |-> p[1], body |-> p[2], ts |-> p[3], id |-> n]
           q == MixPush(mix, m)
           e == MixBegin(q).msg
           new == Append(shared_count, 0 + 1 - 1)
           popped == [id \in 1 .. n |-> new[id] - Held(e, id)]
           had(id) == Loose(cache_sh_video, cache_sh_audio, gop, consumers, id)
<1>0. P \in Nat /\ n \in Nat /\ shared_count \in Seq(Int) /\ P = Len(shared_count)
  BY LenProperties DEF IInv, Published
<1>1. m \in Msgs(n) /\ m.ts \in Nat /\ m.id = n
  <2>1. p[1] \in AudioClasses \cup VideoClasses /\ p[3] \in Nat /\ p[2] \in Bodies /\ n \in 1 .. n
    BY <1>0, SourceAssumption DEF Bodies
  <2>2. p[1] \in AudioClasses <=> ~(p[1] \in VideoClasses)
    BY <2>1 DEF AudioClasses, VideoClasses
  <2> HIDE DEF n
  <2> QED BY <2>1, <2>2 DEF Msgs, MediaTypes
<1>2. /\ Buffered(mix, P) /\ Caches(P, cache_sh_video, cache_sh_audio, gop, consumers)
      /\ Informed(cache_sh_video, consumers)
      /\ \A id \in 1 .. P : shared_count[id] + 1 = Cardinality(OfId(mix, id)) + had(id)
  BY DEF IInv
<1>3. Caches(n, cache_sh_video, cache_sh_audio, gop, consumers)
  BY <1>0, <1>2, CachesGrow
<1>4. new \in Seq(Int) /\ Len(new) = n /\ new[n] = 0 /\ \A id \in 1 .. P : new[id] = shared_count[id]
  <2> DEFINE z == 0 + 1 - 1
  <2>1. z \in Int /\ z = 0
    OBVIOUS
  <2> HIDE DEF z
  <2>2. new = Append(shared_count, z)
    BY DEF z
  <2> QED BY <1>0, <2>1, <2>2, AppendProperties
<1>5. /\ \/ /\ ~MixOk(q) /\ mix' = q /\ shared_count' = new
            /\ UNCHANGED <<cache_sh_video, cache_sh_audio, gop, consumers>>
         \/ /\ IsAudio(e) /\ mix' = MixPop(q) /\ OnAudioImpl(e, popped)
         \/ /\ ~IsAudio(e) /\ mix' = MixPop(q) /\ OnVideoImpl(e, popped)
  BY DEF OnMessage
<1> HIDE DEF m
<1>6. ASSUME NEW id
      PROVE  /\ Buffered(q, n) /\ Buffered(MixPop(q), n) /\ e \in Msgs(n)
             /\ Cardinality(OfId(mix, id)) \in Nat
             /\ id = n => Cardinality(OfId(mix, id)) = 0
             /\ Cardinality(OfId(q, id)) = Cardinality(OfId(mix, id)) + (IF id = n THEN 1 ELSE 0)
             /\ Cardinality(OfId(MixPop(q), id)) = Cardinality(OfId(q, id)) - Held(e, id)
  BY <1>0, <1>1, <1>2, MixCount
<1>7. ASSUME NEW id PROVE had(id) \in Int /\ (id = n => had(id) = 0)
  BY <1>0, <1>2, LooseInt
<1> HIDE DEF had, q, e, new
<1>8. ASSUME NEW id \in 1 .. n
      PROVE  new[id] \in Int /\ new[id] + 1 = Cardinality(OfId(q, id)) + had(id)
  <2>1. CASE id = n
    BY <1>4, <1>6, <1>7, <2>1
  <2>2. CASE id # n
    <3>1. id \in 1 .. P
      BY <1>0, <2>2
    <3>2. shared_count[id] \in Int
      BY <1>0, <3>1, ElementOfSeq
    <3> QED BY <1>2, <1>4, <1>6, <1>7, <2>2, <3>1, <3>2
  <2> QED BY <2>1, <2>2
<1>9. \A id \in 1 .. n : popped[id] = new[id] - Held(e, id) /\ popped[id] \in Int
  <2>1. \A id : Held(e, id) \in Nat
    BY DEF Held
  <2> QED BY <1>8, <2>1
<1> HIDE DEF popped, n, P
<1>10. ASSUME shared_count' \in Seq(Int), Len(shared_count') = n, Buffered(mix', n),
              Caches(n, cache_sh_video', cache_sh_audio', gop', consumers'),
              Informed(cache_sh_video', consumers'),
              \A id \in 1 .. n : shared_count'[id] + 1 =
                Cardinality(OfId(mix', id))
                  + Loose(cache_sh_video', cache_sh_audio', gop', consumers', id)
       PROVE  IInv'
  <2>1. Published' = n
    BY <1>10 DEF Published
  <2> QED BY <1>10, <2>1 DEF IInv
\* Nothing comes out of the buffer.
<1>11. CASE /\ ~MixOk(q) /\ mix' = q /\ shared_count' = new
            /\ UNCHANGED <<cache_sh_video, cache_sh_audio, gop, consumers>>
  <2>1. \A id \in 1 .. n : shared_count'[id] + 1 =
          Cardinality(OfId(mix', id))
            + Loose(cache_sh_video', cache_sh_audio', gop', consumers', id)
    BY <1>8, <1>11 DEF had
  <2> QED BY <1>2, <1>3, <1>4, <1>6, <1>10, <1>11, <2>1
\* What comes out is relayed.
<1>12. ASSUME mix' = MixPop(q),
              Caches(n, cache_sh_video', cache_sh_audio', gop', consumers'),
              shared_count' \in Seq(Int), Len(shared_count') = n,
              \A id \in 1 .. n : shared_count'[id] =
                popped[id] + Loose(cache_sh_video', cache_sh_audio', gop', consumers', id)
                           - Loose(cache_sh_video, cache_sh_audio, gop, consumers, id),
              Informed(cache_sh_video, consumers) => Informed(cache_sh_video', consumers')
       PROVE  IInv'
  <2>1. ASSUME NEW id \in 1 .. n
        PROVE  shared_count'[id] + 1 =
                 Cardinality(OfId(mix', id))
                   + Loose(cache_sh_video', cache_sh_audio', gop', consumers', id)
    <3> DEFINE x == Loose(cache_sh_video', cache_sh_audio', gop', consumers', id)
    <3>1. x \in Int
      BY <1>0, <1>12, LooseInt
    <3>2. shared_count'[id] = popped[id] + x - had(id)
      BY <1>12 DEF had
    <3>3. Held(e, id) \in Nat
      BY DEF Held
    <3> DEFINE k == Cardinality(OfId(q, id))
               h == Held(e, id)
    <3>4. k \in Int /\ Cardinality(OfId(mix', id)) = k - h
      BY <1>6, <1>12
    <3>5. popped[id] = new[id] - h /\ new[id] \in Int /\ new[id] + 1 = k + had(id) /\ had(id) \in Int
      BY <1>7, <1>8, <1>9
    <3> HIDE DEF x, k, h
    <3>6. shared_count'[id] + 1 = (k - h) + x
      BY <3>1, <3>2, <3>3, <3>4, <3>5 DEF h
    <3> QED BY <3>4, <3>6 DEF x
  <2> QED BY <1>2, <1>6, <1>10, <1>12, <2>1
<1>13. CASE IsAudio(e) /\ mix' = MixPop(q) /\ OnAudioImpl(e, popped)
  <2>1. n = Published + 1
    BY DEF n, P
  <2> QED BY <1>0, <1>3, <1>6, <1>9, <1>12, <1>13, <2>1, AudioRelayed
<1>14. CASE ~IsAudio(e) /\ mix' = MixPop(q) /\ OnVideoImpl(e, popped)
  <2>1. n = Published + 1
    BY DEF n, P
  <2> QED BY <1>0, <1>3, <1>6, <1>9, <1>12, <1>14, <2>1, VideoRelayed
<1> QED BY <1>5, <1>11, <1>13, <1>14

\* One consumer more.
LEMMA TogetherAppend ==
  ASSUME NEW n \in Nat, NEW cs \in Seq(Viewers(n)), NEW d \in Viewers(n), NEW id
  PROVE  Together(Append(cs, d), id) = Together(cs, id) + Owned(d, id)
<1> DEFINE l == Len(cs)
           k == l + 1
           t == Append(cs, d)
           f == OwnedBy(cs, id)
           g == OwnedBy(t, id)
<1>1. l \in Nat /\ k \in Nat /\ k = l + 1
  BY LenProperties
<1>2. Len(t) = k /\ t[k] = d /\ \A i \in 1 .. l : t[i] = cs[i]
  BY AppendProperties
<1> HIDE DEF t, k
<1>3. (\A i \in 1 .. l : f[i] = g[i]) /\ g[k] = Owned(d, id)
  <2>1. \A i \in 1 .. l : i \in 1 .. k
    BY <1>1
  <2>2. k \in 1 .. k
    BY <1>1
  <2>3. \A i \in 1 .. k : g[i] = Owned(t[i], id)
    BY <1>2 DEF OwnedBy
  <2>4. \A i \in 1 .. l : f[i] = Owned(cs[i], id)
    BY DEF OwnedBy
  <2> HIDE DEF f, g, l
  <2> QED BY <1>2, <2>1, <2>2, <2>3, <2>4
<1>4. Together(t, id) = Sum(g, k) /\ Together(cs, id) = Sum(f, l)
  BY <1>2 DEF Together
<1> HIDE DEF f, g, l
<1>5. Sum(g, k) = Sum(g, l) + g[k]
  BY <1>1, SumStep
<1>6. Sum(f, l) = Sum(g, l)
  BY <1>1, <1>3, SumSame
<1> QED BY <1>3, <1>4, <1>5, <1>6 DEF t

\* One consumer changed.
LEMMA TogetherExcept ==
  ASSUME NEW n \in Nat, NEW cs \in Seq(Viewers(n)), NEW c \in 1 .. Len(cs),
         NEW d \in Viewers(n), NEW id
  PROVE  /\ [cs EXCEPT ![c] = d] \in Seq(Viewers(n)) /\ Len([cs EXCEPT ![c] = d]) = Len(cs)
         /\ \A i \in 1 .. Len(cs) : [cs EXCEPT ![c] = d][i] = IF i = c THEN d ELSE cs[i]
         /\ Together([cs EXCEPT ![c] = d], id) = Together(cs, id) + (Owned(d, id) - Owned(cs[c], id))
<1> DEFINE l == Len(cs)
           t == [cs EXCEPT ![c] = d]
           f == OwnedBy(cs, id)
           h == OwnedBy(t, id)
           x == Owned(d, id) - Owned(cs[c], id)
           g == [i \in 1 .. l |-> IF i = c THEN x ELSE 0]
<1>1. l \in Nat /\ \A i \in 1 .. l : cs[i] \in Viewers(n)
  BY LenProperties, ElementOfSeq
<1>2. t \in Seq(Viewers(n)) /\ Len(t) = l /\ \A i \in 1 .. l : t[i] = IF i = c THEN d ELSE cs[i]
  BY ExceptSeq
<1> HIDE DEF t
<1>3. Owned(d, id) \in Nat /\ \A i \in 1 .. l : Owned(cs[i], id) \in Nat
  BY <1>1, OwnedNat
<1>4. \A i \in 1 .. l : /\ f[i] = Owned(cs[i], id)
                        /\ h[i] = Owned(t[i], id)
                        /\ g[i] = IF i = c THEN x ELSE 0
  BY <1>2 DEF OwnedBy
<1>5. Together(t, id) = Sum(h, l) /\ Together(cs, id) = Sum(f, l)
  BY <1>2 DEF Together
<1>6. x \in Int /\ x = Owned(d, id) - Owned(cs[c], id) /\ c \in 1 .. l
  BY <1>3
<1> HIDE DEF f, g, h, l, x
<1>7. ASSUME NEW i \in 1 .. l PROVE f[i] \in Int /\ g[i] \in Int /\ h[i] = f[i] + g[i]
  <2>1. CASE i = c
    BY <1>2, <1>3, <1>4, <1>6, <2>1
  <2>2. CASE i # c
    <3>1. t[i] = cs[i] /\ Owned(cs[i], id) \in Nat
      BY <1>2, <1>3, <2>2
    <3>2. f[i] = Owned(cs[i], id) /\ h[i] = Owned(cs[i], id) /\ g[i] = 0
      BY <1>4, <2>2, <3>1
    <3> QED BY <3>1, <3>2
  <2> QED BY <2>1, <2>2
<1>8. Sum(h, l) = Sum(f, l) + Sum(g, l)
  BY <1>1, <1>7, SumAdd
<1>9. Sum(g, l) = g[c]
  <2>1. g[c] \in Int /\ \A i \in 1 .. l : i # c => g[i] = 0
    BY <1>4, <1>6
  <2> QED BY <1>1, <1>6, <2>1, SumOne
<1> QED BY <1>2, <1>4, <1>5, <1>6, <1>8, <1>9 DEF t, l

(***************************************************************************)
(* CreateConsumer: headers come after the audio and before the GOP.        *)
(***************************************************************************)
LEMMA CreateIInv == ASSUME IInv, CreateConsumer PROVE IInv'
<1> DEFINE P == Published
           sv == cache_sh_video
           sa == cache_sh_audio
           cs == consumers
           d == PrimedTo[Len(Primer)]
           pa == IF sa = Null THEN <<>> ELSE <<sa>>
           pv == IF sv = Null THEN <<>> ELSE <<sv>>
<1>0. P \in Nat /\ shared_count \in Seq(Int) /\ P = Len(shared_count)
  BY LenProperties DEF IInv, Published
<1>1. /\ Buffered(mix, P) /\ Caches(P, sv, sa, gop, cs) /\ Informed(sv, cs)
      /\ \A id \in 1 .. P :
           shared_count[id] + 1 = Cardinality(OfId(mix, id)) + Loose(sv, sa, gop, cs, id)
  BY DEF IInv
<1>2. /\ consumers' = Append(cs, d)
      /\ shared_count' = [id \in 1 .. P |-> shared_count[id] + PrimedDelta(id)]
      /\ mix' = mix /\ cache_sh_video' = sv /\ cache_sh_audio' = sa /\ gop' = gop
  BY DEF CreateConsumer
<1>3. /\ pa \in Seq(Msgs(P)) /\ pv \in Seq(Msgs(P)) /\ gop.msgs \in Seq(Msgs(P))
      /\ Len(pa) \in Nat /\ Len(gop.msgs) \in Nat
      /\ sv # Null => Len(pv) = 1 /\ pv[1] = sv
      /\ cs \in Seq(Viewers(P)) /\ GopClean(gop) /\ (sv # Null => IsHeader(sv))
  <2>1. gop.msgs \in Seq(Msgs(P))
    BY <1>1 DEF Caches, Gops
  <2>2. sv \in Msgs(P) \cup {Null} /\ sa \in Msgs(P) \cup {Null}
    BY <1>1 DEF Caches
  <2> HIDE DEF sv, sa
  <2>3. pa \in Seq(Msgs(P)) /\ pv \in Seq(Msgs(P)) /\ (sv # Null => Len(pv) = 1 /\ pv[1] = sv)
    BY <2>2
  <2> HIDE DEF pa, pv
  <2> QED BY <1>1, <2>1, <2>3, LenProperties DEF Caches
<1>4. Primer = pa \o pv \o gop.msgs
  BY DEF Primer
<1> HIDE DEF sv, sa, cs, pa, pv
<1>5. pa \o pv \in Seq(Msgs(P)) /\ Primer \in Seq(Msgs(P))
  BY <1>3, <1>4, ConcatProperties
<1>6. ASSUME NEW id
      PROVE  /\ d \in Viewers(P) /\ PrimedDelta(id) \in Int /\ Owned(d, id) = PrimedDelta(id)
             /\ \A k \in 1 .. Len(Primer) :
                  IsHeader(Primer[k]) /\ (\A j \in k + 1 .. Len(Primer) : ~IsHeader(Primer[j]))
                    => d.header = Primer[k].body
  BY <1>0, <1>5, PrimedCount
<1>7. sv # Null => d.header = sv.body
  <2> SUFFICES ASSUME sv # Null PROVE d.header = sv.body
    OBVIOUS
  <2> DEFINE k == Len(pa) + 1
             b == pa \o pv
             t == b \o gop.msgs
  <2>1. /\ Len(b) = Len(pa) + Len(pv)
        /\ \A i \in 1 .. Len(pa) + Len(pv) : b[i] = IF i <= Len(pa) THEN pa[i] ELSE pv[i - Len(pa)]
    BY <1>3, ConcatProperties
  <2>1a. Len(pa) \in Nat /\ Len(pv) = 1 /\ pv[1] = sv
    BY <1>3
  <2>2. Len(b) = k /\ k \in 1 .. k /\ k \in Nat
    <3> HIDE DEF b
    <3> QED BY <2>1, <2>1a
  <2>3. b[k] = sv
    <3>1. k \in 1 .. Len(pa) + Len(pv) /\ ~(k <= Len(pa)) /\ k - Len(pa) = 1
      <4> HIDE DEF b
      <4> QED BY <2>1a
    <3> HIDE DEF b, k
    <3> QED BY <2>1, <2>1a, <3>1
  <2>4. /\ Len(t) = Len(b) + Len(gop.msgs)
        /\ \A i \in 1 .. Len(b) + Len(gop.msgs) : t[i] = IF i <= Len(b) THEN b[i] ELSE gop.msgs[i - Len(b)]
    BY <1>3, <1>5, ConcatProperties
  <2> HIDE DEF b, k, t
  <2>5. k \in 1 .. Len(t) /\ t[k] = sv
    BY <1>3, <2>2, <2>3, <2>4
  <2>6. ASSUME NEW j \in k + 1 .. Len(t) PROVE ~IsHeader(t[j])
    <3>1. j \in 1 .. Len(b) + Len(gop.msgs) /\ ~(j <= Len(b)) /\ j - Len(b) \in 1 .. Len(gop.msgs)
      BY <1>3, <2>2, <2>4
    <3>2. t[j] = gop.msgs[j - Len(b)]
      BY <2>4, <3>1
    <3> QED BY <1>3, <3>1, <3>2 DEF GopClean
  <2>7. Primer = t
    BY <1>4 DEF t, b
  <2> HIDE DEF d
  <2> QED BY <1>3, <1>6, <2>5, <2>6, <2>7
<1> HIDE DEF d
<1>8. Caches(P, sv, sa, gop, consumers')
  <2>1. Append(cs, d) \in Seq(Viewers(P))
    BY <1>3, <1>6, AppendProperties
  <2> QED BY <1>1, <1>2, <2>1 DEF Caches
<1>9. Informed(sv, consumers')
  <2>1. /\ Len(consumers') = Len(cs) + 1 /\ consumers'[Len(cs) + 1] = d /\ Len(cs) \in Nat
        /\ \A i \in 1 .. Len(cs) : consumers'[i] = cs[i]
    BY <1>2, <1>3, <1>6, AppendProperties, LenProperties
  <2> QED BY <1>1, <1>7, <2>1 DEF Informed
<1>10. shared_count' \in [1 .. P -> Int]
  <2>1. \A id \in 1 .. P : shared_count[id] \in Int
    BY <1>0, ElementOfSeq
  <2> QED BY <1>2, <1>6, <2>1
<1>11. shared_count' \in Seq(Int) /\ Len(shared_count') = P
  BY <1>0, <1>10, CountsSeq
<1>12. ASSUME NEW id \in 1 .. P
       PROVE  shared_count'[id] + 1 =
                Cardinality(OfId(mix, id)) + Loose(sv, sa, gop, consumers', id)
  <2>1. Together(consumers', id) = Together(cs, id) + PrimedDelta(id)
    BY <1>0, <1>2, <1>3, <1>6, TogetherAppend
  <2>2. /\ Held(sv, id) \in Nat /\ Held(sa, id) \in Nat /\ Occurs(gop.msgs, id) \in Nat
        /\ Together(cs, id) \in Int
    BY <1>0, <1>1, LooseInt
  <2>3. shared_count[id] \in Int /\ shared_count'[id] = shared_count[id] + PrimedDelta(id)
    BY <1>0, <1>2, ElementOfSeq
  <2>4. PrimedDelta(id) \in Int
    BY <1>6
  <2>5. /\ shared_count[id] + 1 = Cardinality(OfId(mix, id)) + Loose(sv, sa, gop, cs, id)
        /\ Cardinality(OfId(mix, id)) \in Nat
    <3>1. IsFiniteSet(OfId(mix, id))
      <4>1. OfId(mix, id) \in SUBSET mix.msgs
        BY DEF OfId
      <4> QED BY <1>1, <4>1, FS_Subset DEF Buffered
    <3> QED BY <1>1, <3>1, FS_CardinalityType
  <2> QED BY <2>1, <2>2, <2>3, <2>4, <2>5 DEF Loose
<1>13. Published' = P
  BY <1>11 DEF Published
<1> HIDE DEF P
<1> QED BY <1>1, <1>2, <1>8, <1>9, <1>11, <1>12, <1>13 DEF IInv

(***************************************************************************)
(* A step that changes one consumer and takes from each payload what that  *)
(* consumer no longer owns.                                                *)
(***************************************************************************)
LEMMA OneConsumer ==
  ASSUME IInv, NEW c \in 1 .. Len(consumers), NEW d \in Viewers(Published),
         d.header = consumers[c].header, consumers' = [consumers EXCEPT ![c] = d],
         UNCHANGED <<mix, cache_sh_video, cache_sh_audio, gop>>,
         shared_count' \in Seq(Int), Len(shared_count') = Published,
         \A id \in 1 .. Published :
           shared_count'[id] = shared_count[id] + (Owned(d, id) - Owned(consumers[c], id))
  PROVE  IInv'
<1> DEFINE P == Published
           sv == cache_sh_video
           sa == cache_sh_audio
           cs == consumers
<1>0. P \in Nat /\ shared_count \in Seq(Int) /\ P = Len(shared_count)
  BY LenProperties DEF IInv, Published
<1>1. /\ Buffered(mix, P) /\ Caches(P, sv, sa, gop, cs) /\ Informed(sv, cs)
      /\ \A id \in 1 .. P :
           shared_count[id] + 1 = Cardinality(OfId(mix, id)) + Loose(sv, sa, gop, cs, id)
  BY DEF IInv
<1>2. cs \in Seq(Viewers(P)) /\ cs[c] \in Viewers(P)
  BY <1>1, ElementOfSeq DEF Caches
<1>3. ASSUME NEW id
      PROVE  /\ consumers' \in Seq(Viewers(P)) /\ Len(consumers') = Len(cs)
             /\ \A i \in 1 .. Len(cs) : consumers'[i] = IF i = c THEN d ELSE cs[i]
             /\ Together(consumers', id) = Together(cs, id) + (Owned(d, id) - Owned(cs[c], id))
  <2> DEFINE t == [cs EXCEPT ![c] = d]
  <2>1. consumers' = t
    OBVIOUS
  <2>2. /\ t \in Seq(Viewers(P)) /\ Len(t) = Len(cs)
        /\ \A i \in 1 .. Len(cs) : t[i] = IF i = c THEN d ELSE cs[i]
        /\ Together(t, id) = Together(cs, id) + (Owned(d, id) - Owned(cs[c], id))
    <3>1. P \in Nat /\ cs \in Seq(Viewers(P)) /\ c \in 1 .. Len(cs) /\ d \in Viewers(P)
      BY <1>0, <1>2
    <3> HIDE DEF cs, P
    <3> QED BY <3>1, TogetherExcept
  <2> HIDE DEF t
  <2> QED BY <2>1, <2>2
<1>4. Caches(P, sv, sa, gop, consumers')
  BY <1>1, <1>3 DEF Caches
<1>5. Informed(sv, consumers')
  BY <1>1, <1>3 DEF Informed
<1> HIDE DEF cs, sv, sa
<1>6. ASSUME NEW id \in 1 .. P
      PROVE  shared_count'[id] + 1 =
               Cardinality(OfId(mix, id)) + Loose(sv, sa, gop, consumers', id)
  <2>1. /\ Held(sv, id) \in Nat /\ Held(sa, id) \in Nat /\ Occurs(gop.msgs, id) \in Nat
        /\ Together(cs, id) \in Int
    BY <1>0, <1>1, LooseInt
  <2>2. Owned(d, id) \in Nat /\ Owned(cs[c], id) \in Nat
    BY <1>0, <1>2, OwnedNat
  <2>3. shared_count[id] \in Int
    BY <1>0, ElementOfSeq
  <2>4. shared_count'[id] = shared_count[id] + (Owned(d, id) - Owned(cs[c], id))
    BY DEF cs
  <2>5. /\ shared_count[id] + 1 = Cardinality(OfId(mix, id)) + Loose(sv, sa, gop, cs, id)
        /\ Cardinality(OfId(mix, id)) \in Nat
    <3>1. IsFiniteSet(OfId(mix, id))
      <4>1. OfId(mix, id) \in SUBSET mix.msgs
        BY DEF OfId
      <4> QED BY <1>1, <4>1, FS_Subset DEF Buffered
    <3> QED BY <1>1, <3>1, FS_CardinalityType
  <2>6. Together(consumers', id) = Together(cs, id) + (Owned(d, id) - Owned(cs[c], id))
    BY <1>3
  <2> DEFINE x == Owned(d, id) - Owned(cs[c], id)
             y == Cardinality(OfId(mix, id))
  <2>7. x \in Int
    BY <2>2
  <2> HIDE DEF x
  <2>8. shared_count'[id] = shared_count[id] + x /\ Together(consumers', id) = Together(cs, id) + x
    BY <2>4, <2>6 DEF x
  <2> HIDE DEF y
  <2>9. shared_count[id] + 1 = y + Loose(sv, sa, gop, cs, id) /\ y \in Nat
    BY <2>5 DEF y
  <2> DEFINE old == Loose(sv, sa, gop, cs, id)
             new == Loose(sv, sa, gop, consumers', id)
  <2>10. old \in Int /\ new = old + x
    BY <2>1, <2>7, <2>8 DEF Loose
  <2> HIDE DEF old, new
  <2> DEFINE s == shared_count[id]
             t == shared_count'[id]
  <2>11. s \in Int /\ t = s + x /\ s + 1 = y + old /\ y \in Nat
    BY <2>3, <2>8, <2>9 DEF old
  <2> HIDE DEF s, t
  <2>12. t + 1 = y + new
    BY <2>7, <2>10, <2>11
  <2> QED BY <2>12 DEF y, new, t
<1>7. Published' = P
  BY DEF Published
<1> HIDE DEF P
<1>8. /\ Buffered(mix', P) /\ Caches(P, cache_sh_video', cache_sh_audio', gop', consumers')
      /\ Informed(cache_sh_video', consumers')
      /\ \A id \in 1 .. P : shared_count'[id] + 1 =
           Cardinality(OfId(mix', id)) + Loose(cache_sh_video', cache_sh_audio', gop', consumers', id)
  BY <1>1, <1>4, <1>5, <1>6 DEF sv, sa
<1> QED BY <1>7, <1>8 DEF IInv

\* A consumer with another window and another batch.
LEMMA ViewerExcept ==
  ASSUME NEW n, NEW v \in Viewers(n), NEW a, NEW r
  PROVE  [v EXCEPT !.inflight = a, !.queue = r] =
           [queue |-> r, jitter |-> v.jitter, inflight |-> a, header |-> v.header]
<1>1. v = [queue |-> v.queue, jitter |-> v.jitter, inflight |-> v.inflight, header |-> v.header]
  BY DEF Viewers
<1>2. DOMAIN v = {"queue", "jitter", "inflight", "header"}
  BY DEF Viewers
<1> DEFINE w == [v EXCEPT !.inflight = a]
<1>3. w = [queue |-> v.queue, jitter |-> v.jitter, inflight |-> a, header |-> v.header]
  BY <1>1, <1>2
<1>4. [v EXCEPT !.inflight = a, !.queue = r] = [w EXCEPT !.queue = r]
  OBVIOUS
<1> HIDE DEF w
<1>5. [w EXCEPT !.queue = r] =
        [queue |-> r, jitter |-> v.jitter, inflight |-> a, header |-> v.header]
  BY <1>3
<1> QED BY <1>4, <1>5

(***************************************************************************)
(* DumpPackets moves handles from the window to the batch.                 *)
(***************************************************************************)
LEMMA DumpIInv == ASSUME IInv, NEW c \in 1 .. Len(consumers), Dump(c) PROVE IInv'
<1> DEFINE P == Published
           v == consumers[c]
           q == v.queue
           k == DumpCount(q, MaxBatch)
           a == SubSeq(q.msgs, 1, k)
           b == SubSeq(q.msgs, k + 1, Len(q.msgs))
           r == [msgs |-> b, av_start |-> q.msgs[k].ts, av_end |-> q.av_end]
           d == [queue |-> r, jitter |-> v.jitter, inflight |-> a, header |-> v.header]
<1>0. P \in Nat /\ shared_count \in Seq(Int) /\ P = Len(shared_count)
  BY LenProperties DEF IInv, Published
<1>1. consumers \in Seq(Viewers(P)) /\ v \in Viewers(P) /\ v.inflight = <<>> /\ q.msgs # <<>>
  BY ElementOfSeq DEF IInv, Caches, Dump
<1>2. /\ q.msgs \in Seq(Msgs(P)) /\ q.av_end \in Int /\ v.jitter \in Clocks
      /\ v.header \in Bodies \cup {"none"} /\ q \in Queues(P)
  BY <1>1 DEF Viewers, Queues
<1>3. k \in 1 .. Len(q.msgs) /\ Len(q.msgs) \in Nat /\ k # 0 /\ k \in 0 .. Len(q.msgs)
  <2>1. Len(q.msgs) \in Nat \ {0}
    BY <1>1, <1>2, EmptySeq
  <2> QED BY <2>1, SourceAssumption DEF DumpCount, Size
<1>4. Dumped(q, MaxBatch) = a
  BY DEF Dumped
<1>5. DumpPackets(q, MaxBatch) = r
  <2>1. DumpPackets(q, MaxBatch) = [q EXCEPT !.msgs = b, !.av_start = q.msgs[k].ts]
    BY <1>3 DEF DumpPackets
  <2> DEFINE x == q.msgs[k].ts
  <2> HIDE DEF b, x
  <2> QED BY <1>2, <2>1 DEF Queues, x
<1>6. consumers' = [consumers EXCEPT ![c] = d] /\ UNCHANGED <<mix, cache_sh_video, cache_sh_audio, gop>>
                   /\ shared_count' = shared_count
  <2>1. consumers' = [consumers EXCEPT ![c].inflight = Dumped(consumers[c].queue, MaxBatch),
                                       ![c].queue    = DumpPackets(@, MaxBatch)]
    BY DEF Dump
  <2>2. DOMAIN consumers = 1 .. Len(consumers)
    BY <1>1, LenProperties
  <2>3. consumers' = [consumers EXCEPT ![c] = [v EXCEPT !.inflight = a, !.queue = r]]
    <3> HIDE DEF a, r
    <3> QED BY <1>4, <1>5, <2>1, <2>2
  <2>4. [v EXCEPT !.inflight = a, !.queue = r] = d
    <3>1. v \in Viewers(P)
      BY <1>1
    <3> HIDE DEF a, r, v
    <3> QED BY <3>1, ViewerExcept
  <2> QED BY <2>3, <2>4 DEF Dump
<1> HIDE DEF k
<1>7. a \in Seq(Msgs(P)) /\ b \in Seq(Msgs(P)) /\ q.msgs[k].ts \in Int
  <2>1. \A i \in 1 .. Len(q.msgs) : q.msgs[i] \in Msgs(P)
    BY <1>2, ElementOfSeq
  <2>2. (\A i \in 1 .. k : q.msgs[i] \in Msgs(P)) /\ (\A i \in k + 1 .. Len(q.msgs) : q.msgs[i] \in Msgs(P))
    BY <1>3, <2>1
  <2>3. a \in Seq(Msgs(P)) /\ b \in Seq(Msgs(P))
    <3> DEFINE s == q.msgs
               x == k + 1
               l == Len(s)
               one == 1
    <3>1. x \in Int /\ l \in Int /\ one \in Int /\ k \in Int
      BY <1>3
    <3>2. (\A i \in one .. k : s[i] \in Msgs(P)) /\ (\A i \in x .. l : s[i] \in Msgs(P))
      BY <2>2
    <3> HIDE DEF s, x, l, one
    <3>3. SubSeq(s, one, k) \in Seq(Msgs(P)) /\ SubSeq(s, x, l) \in Seq(Msgs(P))
      BY <3>1, <3>2, SubSeqProperties
    <3> QED BY <3>3 DEF s, x, l, one
  <2>4. q.msgs[k] \in Msgs(P)
    BY <1>3, <2>1
  <2> QED BY <2>3, <2>4 DEF Msgs
<1>8. ASSUME NEW id PROVE Owned(d, id) = Owned(v, id) /\ Owned(v, id) \in Nat
  <2>1. Occurs(q.msgs, id) = Occurs(a, id) + Occurs(b, id)
    BY <1>2, <1>3, OccursSplit
  <2>2. Occurs(a, id) \in Nat /\ Occurs(b, id) \in Nat
    BY <1>7, LenProperties, OccursNat
  <2>3. Occurs(v.inflight, id) = 0
    BY <1>1, OccursEmpty
  <2>4. Owned(d, id) = Occurs(b, id) + Occurs(a, id) /\ Owned(v, id) = Occurs(q.msgs, id) + Occurs(v.inflight, id)
    BY DEF Owned
  <2> HIDE DEF a, b, d, q, v
  <2> QED BY <2>1, <2>2, <2>3, <2>4
<1> HIDE DEF a, b
<1>9. d \in Viewers(P) /\ d.header = v.header
  BY <1>2, <1>7 DEF Viewers, Queues
<1> HIDE DEF d
<1>10. \A id \in 1 .. P : shared_count'[id] = shared_count[id] + (Owned(d, id) - Owned(v, id))
  <2>1. \A id \in 1 .. P : shared_count[id] \in Int
    BY <1>0, ElementOfSeq
  <2> HIDE DEF v
  <2> QED BY <1>6, <1>8, <2>1
<1> QED BY <1>0, <1>6, <1>9, <1>10, OneConsumer

(***************************************************************************)
(* SendAndFreeMessages destroys the handles of the batch.                  *)
(***************************************************************************)
LEMMA SentIInv == ASSUME IInv, NEW c \in 1 .. Len(consumers), Sent(c) PROVE IInv'
<1> DEFINE P == Published
           v == consumers[c]
           d == [v EXCEPT !.inflight = <<>>]
<1>0. P \in Nat /\ shared_count \in Seq(Int) /\ P = Len(shared_count)
  BY LenProperties DEF IInv, Published
<1>1. consumers \in Seq(Viewers(P)) /\ v \in Viewers(P)
  BY ElementOfSeq DEF IInv, Caches
<1>2. DOMAIN consumers = 1 .. Len(consumers)
  BY <1>1, LenProperties
<1>3. /\ consumers' = [consumers EXCEPT ![c] = d]
      /\ UNCHANGED <<mix, cache_sh_video, cache_sh_audio, gop>>
      /\ shared_count' = [id \in 1 .. P |-> shared_count[id] - Occurs(v.inflight, id)]
  BY <1>2 DEF Sent
<1>4. d \in Viewers(P) /\ d.header = v.header /\ d.queue = v.queue /\ d.inflight = <<>>
  <2>1. <<>> \in Seq(Msgs(P))
    OBVIOUS
  <2> HIDE DEF v
  <2> QED BY <1>1, <2>1 DEF Viewers
<1>5. v.queue.msgs \in Seq(Msgs(P)) /\ v.inflight \in Seq(Msgs(P))
  BY <1>1 DEF Viewers, Queues
<1> HIDE DEF d
<1>6. ASSUME NEW id
      PROVE  Occurs(v.inflight, id) \in Nat /\ Owned(d, id) - Owned(v, id) = 0 - Occurs(v.inflight, id)
  <2>1. Occurs(v.queue.msgs, id) \in Nat /\ Occurs(v.inflight, id) \in Nat
    BY <1>5, LenProperties, OccursNat
  <2>2. Occurs(d.inflight, id) = 0
    BY <1>4, OccursEmpty
  <2> HIDE DEF v
  <2> QED BY <1>4, <2>1, <2>2 DEF Owned
<1>7. \A id \in 1 .. P : shared_count[id] \in Int
  BY <1>0, ElementOfSeq
<1> HIDE DEF v
<1>8. shared_count' \in [1 .. P -> Int]
  BY <1>3, <1>6, <1>7
<1>9. shared_count' \in Seq(Int) /\ Len(shared_count') = P
  BY <1>0, <1>8, CountsSeq
<1>10. \A id \in 1 .. P : shared_count'[id] = shared_count[id] + (Owned(d, id) - Owned(v, id))
  <2> SUFFICES ASSUME NEW id \in 1 .. P
               PROVE  shared_count'[id] = shared_count[id] + (Owned(d, id) - Owned(v, id))
    OBVIOUS
  <2>1. shared_count'[id] = shared_count[id] - Occurs(v.inflight, id)
    BY <1>3
  <2> QED BY <1>6, <1>7, <2>1
<1> QED BY <1>0, <1>3, <1>4, <1>9, <1>10, OneConsumer DEF v

(***************************************************************************)
(* Every step of the Source preserves the invariant.                       *)
(***************************************************************************)
LEMMA NextIInv == IInv /\ [Next]_vars => IInv'
<1> SUFFICES ASSUME IInv, [Next]_vars PROVE IInv'
  OBVIOUS
<1>1. CASE UNCHANGED vars
  BY <1>1 DEF IInv, vars, Published
<1>2. CASE Publish
  BY <1>2, PublishIInv DEF Publish
<1>3. CASE CreateConsumer
  BY <1>3, CreateIInv
<1>4. CASE \E c \in 1 .. Len(consumers) : Dump(c) \/ Sent(c)
  BY <1>4, DumpIInv, SentIInv
<1> QED BY <1>1, <1>2, <1>3, <1>4 DEF Next

(***************************************************************************)
(* For any number of messages and consumers, every window and every order  *)
(* of publishing, joining, taking and sending: the reference count of a    *)
(* payload is the number of handles to it, less one.                       *)
(***************************************************************************)
THEOREM RelayRefCountsExact == Spec => []RefCountsExact
<1>1. IInv => RefCountsExact
  <2> SUFFICES ASSUME IInv, NEW id \in 1 .. Published
               PROVE  shared_count[id] + 1 = Holders(id)
    BY DEF RefCountsExact
  <2>1. shared_count[id] + 1 =
          Cardinality(OfId(mix, id)) + Loose(cache_sh_video, cache_sh_audio, gop, consumers, id)
    BY DEF IInv
  <2>2. Published \in Nat /\ IsFiniteSet(OfId(mix, id))
    <3>1. OfId(mix, id) \in SUBSET mix.msgs
      BY DEF OfId
    <3> QED BY <3>1, FS_Subset, LenProperties DEF IInv, Buffered, Published
  <2>3. /\ Held(cache_sh_video, id) \in Nat /\ Held(cache_sh_audio, id) \in Nat
        /\ Occurs(gop.msgs, id) \in Nat /\ Together(consumers, id) \in Int
    BY <2>2, LooseInt DEF IInv
  <2>4. Cardinality(OfId(mix, id)) \in Nat
    BY <2>2, FS_CardinalityType
  <2>5. Holders(id) = Cardinality(OfId(mix, id)) + Held(cache_sh_video, id) + Held(cache_sh_audio, id)
                        + Occurs(gop.msgs, id) + Together(consumers, id)
    BY Zenon DEF Holders, OfId, Together, OwnedBy
  <2> QED BY <2>1, <2>3, <2>4, <2>5 DEF Loose
<1> QED BY <1>1, InitIInv, NextIInv, PTL DEF Spec

(***************************************************************************)
(* For every threshold and any mixture of frames the counters of the GOP   *)
(* cache describe what it holds.                                           *)
(***************************************************************************)
THEOREM RelayGopCountersExact == Spec => []GopCountersExact
<1>1. IInv => GopCountersExact
  BY Zenon DEF IInv, Caches, GopExact, GopCountersExact, Videos, After
<1> QED BY <1>1, InitIInv, NextIInv, PTL DEF Spec

(***************************************************************************)
(* For any number of consumers, whenever they join: while the cached video *)
(* sequence header is usable, each was last given exactly that header.     *)
(***************************************************************************)
THEOREM RelayConsumersHaveHeader == Spec => []ConsumersHaveHeader
<1>1. IInv => ConsumersHaveHeader
  BY DEF IInv, Informed, ConsumersHaveHeader
<1> QED BY <1>1, InitIInv, NextIInv, PTL DEF Spec
=============================================================================
