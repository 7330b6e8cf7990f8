----------------------------- MODULE DvrProofs ------------------------------
(***************************************************************************)
(* The handles of the DVR, what a Source records while it has its file to  *)
(* itself, and the recordings that have their final name: for any number   *)
(* of Sources and messages, any failing calls and any restarts.            *)
(***************************************************************************)
EXTENDS Dvr, SequenceTheorems, WellFoundedInduction, TLAPS

Classes == {"avcSH", "avcKey", "avcInter", "aacRaw"}

Items ==
  [kind : {"header", "tag", "torn", "missing", "spoilt"}, id : Nat, cls : Classes \cup {"none"}]

\* What a name that is there may hold as its last item.
Puts == {x \in Items : x.kind # "missing"}

Names == {"tmp", "path"}

Files == [tmp : Seq(Items), path : Seq(Items)]

Segments ==
  [writer : {"null", "open", "closed"}, temp : Names, on : Names \cup {"none"},
   at : Seq(Items), over : SUBSET Sources, muxer : BOOLEAN,
   jitter : BOOLEAN, keyframe : BOOLEAN, duration : Int, prev : Int]

Outs == {"unwanted", "ok", "torn", "nothing"}

Noted == [id : Nat, cls : Classes, out : Outs]

Msgs == {m \in [id : Nat, cls : Classes, ts : Nat, type : MediaTypes] :
           m.type = "video" <=> m.cls # "aacRaw"}

TypesOK ==
  /\ enabled \in [Sources -> BOOLEAN] /\ seg \in [Sources -> Segments] /\ next \in Nat
  /\ sh_video \in [Sources -> Int]
  /\ file \in Files /\ disturbed \in SUBSET Sources
  /\ base \in [Sources -> Seq(Items)] /\ seen \in [Sources -> Seq(Noted)]

\* A writer that was opened had its jitter and its muxer made, and what is enabled has a
\* writer; a segment that was never opened has no key frame to remember.
Handles ==
  \A s \in Sources :
    /\ IsOpen(seg[s]) => seg[s].jitter /\ seg[s].muxer
    /\ enabled[s] => IsOpen(seg[s])
    /\ seg[s].writer = "null" => ~seg[s].keyframe

\* At most one of the names is there, and every descriptor is on it: no rename replaces a file.
OnDisk ==
  /\ file.tmp = Missing \/ file.path = Missing
  /\ \A s \in Sources : IsOpen(seg[s]) => seg[s].on \in Names /\ file[seg[s].on] # Missing

\* Who is undisturbed shares its file with no other writer, but for the
\* Sources that append to it once it is closed.
Apart ==
  \A s \in Sources \ disturbed, t \in Sources :
    s # t /\ IsOpen(seg[s]) /\ seg[t].writer = "open" /\ seg[t].on = seg[s].on =>
      seg[s].writer = "closed" /\ seg[t].temp = "path"

\* Its descriptor, when not opened for append, is at the end.
AtEnd ==
  \A s \in Sources \ disturbed :
    seg[s].writer = "open" /\ seg[s].temp = "tmp" => seg[s].at = file[seg[s].on]

(***************************************************************************)
(* g[i] is what the first i messages of q come to in the file.             *)
(***************************************************************************)
Wants(g, q) ==
  /\ g \in [0 .. Len(q) -> Seq(Items)]
  /\ g[0] = <<>>
  /\ \A i \in 1 .. Len(q) : g[i] = g[i - 1] \o Recorded(q, i)

\* The segment has noted a key frame exactly when one has come.
KeySeen(s) == seg[s].keyframe <=> \E j \in 1 .. Len(seen[s]) : seen[s][j].cls = "avcKey"

\* What RecordingExact says, without its recursive function.
Kept(s) ==
  /\ seg[s].writer = "open" => KeySeen(s)
  /\ \E g : /\ Wants(g, seen[s])
            /\ seg[s].writer = "open" => file[seg[s].on] = base[s] \o g[Len(seen[s])]
            /\ seg[s].writer = "closed" => StartsWith(file[seg[s].on], base[s] \o g[Len(seen[s])])

Copied ==
  \A s \in Sources :
    /\ ~enabled[s] => base[s] = <<>> /\ seen[s] = <<>>
    /\ enabled[s] /\ s \notin disturbed => Kept(s)

IInv == TypesOK /\ Handles /\ OnDisk /\ Apart /\ AtEnd /\ Copied
-----------------------------------------------------------------------------
\* What is put into files are items.
LEMMA ItemTypes ==
  /\ FlvHeader \in Puts /\ TornItem(0) \in Puts
  /\ Missing \in Seq(Items) /\ Spoilt \in Seq(Items) /\ Spoilt # Missing
  /\ \A m \in Msgs : TornItem(m.id) \in Puts /\ Tag(m) \in Puts
<1>1. FlvHeader \in Puts
  BY DEF FlvHeader, Item, Items, Puts
<1>2. ASSUME NEW n \in Nat PROVE TornItem(n) \in Puts
  BY DEF TornItem, Item, Items, Puts
<1>3. Item("missing", 0, "none") \in Items /\ Item("spoilt", 0, "none") \in Items
  BY DEF Item, Items
<1>4. Item("missing", 0, "none") # Item("spoilt", 0, "none")
  BY DEF Item
<1>5. Missing \in Seq(Items) /\ Spoilt \in Seq(Items) /\ Spoilt # Missing
  BY <1>3, <1>4 DEF Missing, Spoilt
<1>6. ASSUME NEW m \in Msgs PROVE TornItem(m.id) \in Puts /\ Tag(m) \in Puts
  <2>1. m.id \in Nat /\ m.cls \in Classes
    BY DEF Msgs
  <2>2. Tag(m) \in Puts
    BY <2>1 DEF Tag, Item, Items, Puts
  <2> QED BY <1>2, <2>1, <2>2
<1> QED BY <1>1, <1>2, <1>5, <1>6

\* A name that is there still is when something is put at its end.
LEMMA StaysThere ==
  ASSUME NEW c \in Seq(Items), NEW x \in Puts
  PROVE  Append(c, x) \in Seq(Items) /\ Append(c, x) # Missing
<1>1. x \in Items /\ x.kind # "missing"
  BY DEF Puts
<1>2. Append(c, x) \in Seq(Items) /\ Len(Append(c, x)) = Len(c) + 1 /\ Append(c, x)[Len(c) + 1] = x
  BY <1>1, AppendProperties
<1>3. Item("missing", 0, "none").kind = "missing"
  BY DEF Item
<1>4. Missing[Len(Missing)] = Item("missing", 0, "none")
  BY DEF Missing
<1> QED BY <1>1, <1>2, <1>3, <1>4

\* A sequence begins with itself, and so does what is made of it by Append.
LEMMA StartsWithSelf ==
  ASSUME NEW p \in Seq(Items)
  PROVE  StartsWith(p, p) /\ StartsWith(p, <<>>)
<1>1. StartsWith(p, p)
  <2>1. SubSeq(p, 1, Len(p)) = p /\ Len(p) \in Nat
    BY SubSeqFull, LenProperties
  <2> QED BY <2>1 DEF StartsWith
<1>2. StartsWith(p, <<>>)
  <2>1. Len(<<>>) = 0 /\ Len(p) \in Nat /\ SubSeq(p, 1, 0) = <<>>
    BY SubSeqEmpty, LenProperties
  <2> QED BY <2>1 DEF StartsWith
<1> QED BY <1>1, <1>2

LEMMA StartsWithAppend ==
  ASSUME NEW p \in Seq(Items), NEW q \in Seq(Items), NEW x \in Items, StartsWith(p, q)
  PROVE  StartsWith(Append(p, x), q)
<1> DEFINE a == Append(p, x)
           k == Len(q)
<1>1. k \in Nat /\ Len(p) \in Nat /\ k <= Len(p) /\ SubSeq(p, 1, k) = q
  BY LenProperties DEF StartsWith
<1>2. /\ a \in Seq(Items) /\ Len(a) = Len(p) + 1
      /\ \A i \in 1 .. Len(p) : a[i] = p[i]
  BY AppendProperties
<1> HIDE DEF a, k
<1>3. \A i \in 1 .. k : a[i] = p[i] /\ p[i] \in Items /\ a[i] \in Items
  <2>1. \A i \in 1 .. Len(p) : p[i] \in Items
    BY ElementOfSeq
  <2> QED BY <1>1, <1>2, <2>1
<1>4. /\ SubSeq(a, 1, k) \in Seq(Items) /\ Len(SubSeq(a, 1, k)) = k
      /\ \A i \in 1 .. k : SubSeq(a, 1, k)[i] = a[i]
  <2>1. /\ SubSeq(a, 1, k) \in Seq(Items)
        /\ Len(SubSeq(a, 1, k)) = IF 1 <= k THEN k - 1 + 1 ELSE 0
        /\ \A i \in 1 .. k - 1 + 1 : SubSeq(a, 1, k)[i] = a[1 + i - 1]
    BY <1>1, <1>3, SubSeqProperties
  <2> QED BY <1>1, <2>1
<1>5. \A i \in 1 .. k : q[i] = p[i]
  <2>1. \A i \in 1 .. k - 1 + 1 : SubSeq(p, 1, k)[i] = p[1 + i - 1]
    BY <1>1, <1>3, SubSeqProperties
  <2> QED BY <1>1, <2>1
<1>6. SubSeq(a, 1, k) = q
  BY <1>1, <1>3, <1>4, <1>5, SeqEqual DEF k
<1> QED BY <1>1, <1>2, <1>6 DEF StartsWith, a, k

\* The two names of a file are fields and arguments.
LEMMA Named ==
  ASSUME NEW f \in Files, NEW name \in Names,
         NEW c \in Seq(Items)
  PROVE  LET g == [f EXCEPT ![name] = c] IN
         /\ f[name] \in Seq(Items)
         /\ g \in Files
         /\ g[name] = c
         /\ name = "tmp" => f[name] = f.tmp /\ g.path = f.path /\ g.tmp = c
         /\ name = "path" => f[name] = f.path /\ g.tmp = f.tmp /\ g.path = c
<1>1. CASE name = "tmp"
  BY <1>1 DEF Files
<1>2. CASE name = "path"
  BY <1>2 DEF Files
<1> QED BY <1>1, <1>2 DEF Names

-----------------------------------------------------------------------------
(***************************************************************************)
(* Induction over the natural numbers, for a set.                          *)
(***************************************************************************)
LEMMA SetInduction ==
  ASSUME NEW T \in SUBSET Nat, 0 \in T, \A n \in T : n + 1 \in T
  PROVE  T = Nat
<1> SUFFICES ASSUME Nat \ T # {} PROVE FALSE
  OBVIOUS
<1>1. IsWellFoundedOn({ss \in Nat \X Nat : ss[1] < ss[2]}, Nat)
  BY NatLessThanWellFounded DEF OpToRel
<1>2. PICK x \in Nat \ T : \A y \in Nat \ T : ~(<<y, x>> \in {ss \in Nat \X Nat : ss[1] < ss[2]})
  BY <1>1, WFMin
<1>3. ASSUME NEW y \in Nat \ T PROVE x <= y
  <2>1. ~(y < x)
    BY <1>2
  <2> QED BY <2>1
<1>4. x # 0 /\ x - 1 \in Nat /\ x - 1 \in T
  BY <1>3
<1> QED BY <1>4

\* What the messages come to is determined by them: the function of RecordingExact is g.
LEMMA WantsIsWant ==
  ASSUME NEW q \in Seq(Noted), NEW g, Wants(g, q)
  PROVE  LET want[i \in 0 .. Len(q)] == IF i = 0 THEN <<>> ELSE want[i - 1] \o Recorded(q, i)
         IN  want[Len(q)] = g[Len(q)]
<1> DEFINE n == Len(q)
           want[i \in 0 .. n] == IF i = 0 THEN <<>> ELSE want[i - 1] \o Recorded(q, i)
<1>0. n \in Nat
  BY LenProperties
<1>1. want = CHOOSE w : w = [i \in 0 .. n |-> IF i = 0 THEN <<>> ELSE w[i - 1] \o Recorded(q, i)]
  OBVIOUS
<1>2. g = [i \in 0 .. n |-> IF i = 0 THEN <<>> ELSE g[i - 1] \o Recorded(q, i)]
  <2> HIDE DEF n
  <2>1. /\ g \in [0 .. n -> Seq(Items)]
        /\ g[0] = <<>> /\ \A i \in 1 .. n : g[i] = g[i - 1] \o Recorded(q, i)
    BY DEF Wants, n
  <2>2. \A i \in 0 .. n : i # 0 => i \in 1 .. n
    BY <1>0
  <2>3. \A i \in 0 .. n : g[i] = IF i = 0 THEN <<>> ELSE g[i - 1] \o Recorded(q, i)
    BY <2>1, <2>2
  <2> QED BY <2>1, <2>3
<1>3. want = [i \in 0 .. n |-> IF i = 0 THEN <<>> ELSE want[i - 1] \o Recorded(q, i)]
  <2>1. \E w : w = [i \in 0 .. n |-> IF i = 0 THEN <<>> ELSE w[i - 1] \o Recorded(q, i)]
    BY <1>2
  <2> HIDE DEF want
  <2> QED BY <1>1, <2>1, Zenon
<1> HIDE DEF want
<1> DEFINE T == {i \in Nat : i <= n => want[i] = g[i]}
<1>4. 0 \in T
  <2>1. 0 \in 0 .. n
    BY <1>0
  <2>2. want[0] = <<>> /\ g[0] = <<>>
    BY <1>3, <2>1 DEF Wants
  <2> QED BY <2>2
<1>5. ASSUME NEW i \in T PROVE i + 1 \in T
  <2> SUFFICES ASSUME i + 1 <= n PROVE want[i + 1] = g[i + 1]
    OBVIOUS
  <2>1. i \in Nat /\ i + 1 \in 0 .. n /\ i + 1 \in 1 .. n /\ i + 1 # 0 /\ (i + 1) - 1 = i
    BY <1>0
  <2>2. want[i] = g[i]
    BY <1>0, <2>1
  <2>3. want[i + 1] = want[i] \o Recorded(q, i + 1)
    BY <1>3, <2>1
  <2>4. g[i + 1] = g[i] \o Recorded(q, i + 1)
    BY <2>1 DEF Wants
  <2> QED BY <2>2, <2>3, <2>4
<1>6. T = Nat
  <2>1. T \in SUBSET Nat
    OBVIOUS
  <2> HIDE DEF T
  <2> QED BY <1>4, <1>5, <2>1, SetInduction
<1>7. want[n] = g[n]
  <2>1. n \in T
    BY <1>0, <1>6
  <2> QED BY <1>0, <2>1
<1> QED BY <1>7, Zenon DEF want

\* What the first n messages of p come to, and one more.
WantsMore(g, n, p) ==
  \E h : Wants(h, p) /\ h[n + 1] = g[n] \o Recorded(p, n + 1)

\* One message more: what came before is unchanged, and the message itself is added.
LEMMA OneMore ==
  ASSUME NEW s \in Seq(Noted), NEW x \in Noted, NEW g, Wants(g, s),
         NEW n, n = Len(s), NEW t, t = Append(s, x)
  PROVE  /\ Len(t) = n + 1 /\ n \in Nat
         /\ \A i \in 1 .. n : t[i] = s[i]
         /\ t[n + 1] = x
         /\ WantsMore(g, n, t)
<1>1. /\ n \in Nat /\ Len(t) = n + 1 /\ t \in Seq(Noted)
      /\ \A i \in 1 .. n : t[i] = s[i]
      /\ t[n + 1] = x
  BY AppendProperties, LenProperties
<1>4. /\ g \in [0 .. n -> Seq(Items)]
      /\ g[0] = <<>> /\ \A i \in 1 .. n : g[i] = g[i - 1] \o Recorded(s, i)
  BY DEF Wants
<1>2. ASSUME NEW i \in 1 .. n PROVE Recorded(t, i) = Recorded(s, i)
  <2>1. t[i] = s[i]
    BY <1>1
  <2>2. \A j \in 1 .. i : t[j] = s[j]
    BY <1>1
  <2>3. Belongs(t, i) <=> Belongs(s, i)
    BY <2>1, <2>2 DEF Belongs
  <2> QED BY <2>1, <2>3 DEF Recorded
<1>3. Recorded(t, n + 1) \in Seq(Items)
  <2>1. x.id \in Nat /\ x.cls \in Classes
    BY DEF Noted
  <2>2. TornItem(x.id) \in Items /\ Item("tag", x.id, x.cls) \in Items
    <3>1. TornItem(x.id) \in Items
      BY <2>1 DEF TornItem, Item, Items
    <3>2. Item("tag", x.id, x.cls) \in Items
      BY <2>1 DEF Item, Items
    <3> QED BY <3>1, <3>2
  <2>3. /\ <<>> \in Seq(Items) /\ <<TornItem(x.id)>> \in Seq(Items)
        /\ <<Item("tag", x.id, x.cls)>> \in Seq(Items)
    BY <2>2
  <2>4. Recorded(t, n + 1) \in {<<>>, <<TornItem(x.id)>>, <<Item("tag", x.id, x.cls)>>}
    BY <1>1 DEF Recorded
  <2> QED BY <2>3, <2>4
<1> DEFINE r == Recorded(t, n + 1)
           h == [i \in 0 .. n + 1 |-> IF i <= n THEN g[i] ELSE g[n] \o r]
<1>5. g[n] \o r \in Seq(Items)
  <2>1. g[n] \in Seq(Items)
    BY <1>1, <1>4
  <2> HIDE DEF r
  <2>2. r \in Seq(Items)
    BY <1>3 DEF r
  <2> QED BY <2>1, <2>2, ConcatProperties
<1> HIDE DEF r
<1>6. h \in [0 .. n + 1 -> Seq(Items)] /\ h[0] = <<>> /\ h[n + 1] = g[n] \o r
  BY <1>1, <1>4, <1>5
<1>7. \A i \in 1 .. n : h[i] = h[i - 1] \o Recorded(t, i)
  <2> SUFFICES ASSUME NEW i \in 1 .. n PROVE h[i] = h[i - 1] \o Recorded(t, i)
    OBVIOUS
  <2>1. h[i] = g[i] /\ h[i - 1] = g[i - 1]
    BY <1>1
  <2> QED BY <1>2, <1>4, <2>1
<1>8. h[n + 1] = h[(n + 1) - 1] \o Recorded(t, n + 1)
  <2>1. h[(n + 1) - 1] = g[n]
    BY <1>1
  <2> QED BY <1>6, <2>1 DEF r
<1> HIDE DEF h
<1>9. \A i \in 1 .. n + 1 : h[i] = h[i - 1] \o Recorded(t, i)
  <2> SUFFICES ASSUME NEW i \in 1 .. n + 1 PROVE h[i] = h[i - 1] \o Recorded(t, i)
    OBVIOUS
  <2>1. CASE i = n + 1
    BY <1>8, <2>1
  <2>2. CASE i # n + 1
    <3>1. i \in 1 .. n
      BY <1>1, <2>2
    <3> QED BY <1>7, <3>1
  <2> QED BY <2>1, <2>2
<1>10. Wants(h, t)
  BY <1>1, <1>6, <1>9 DEF Wants
<1>11. h[n + 1] = g[n] \o Recorded(t, n + 1)
  BY <1>6 DEF r
<1> QED BY <1>1, <1>10, <1>11 DEF WantsMore

-----------------------------------------------------------------------------
(***************************************************************************)
(* What the steps do to a segment.                                         *)
(***************************************************************************)

\* Opening makes the jitter and chooses the name.
LEMMA OpenedKeeps ==
  ASSUME NEW d \in Segments
  PROVE  /\ Opened(d) \in Segments /\ Opened(d).jitter
         /\ Opened(d).temp = NameOpened /\ NameOpened \in Names
         /\ Opened(d).writer = d.writer
         /\ Opened(d).keyframe => d.keyframe
<1> DEFINE key == IF Found THEN d.keyframe ELSE FALSE
           dur == IF Found THEN d.duration ELSE 0
           prev == IF Found THEN d.prev ELSE -1
           temp == NameOpened
<1>1. Opened(d) = [d EXCEPT !.jitter = TRUE, !.temp = temp, !.keyframe = key,
                            !.duration = dur, !.prev = prev]
  BY DEF Opened
<1>2. temp \in Names /\ dur \in Int /\ prev \in Int
  BY DEF Segments, NameOpened, Names
<1>3. key \in BOOLEAN /\ (key => d.keyframe)
  BY DEF Segments
<1> HIDE DEF temp, key, dur, prev
<1>4. Opened(d) \in Segments
  BY <1>1, <1>2, <1>3 DEF Segments
<1>5. Opened(d).jitter /\ Opened(d).temp = temp /\ Opened(d).writer = d.writer
  BY <1>1 DEF Segments
<1>6. Opened(d).keyframe => d.keyframe
  BY <1>1, <1>3 DEF Segments
<1> QED BY <1>2, <1>4, <1>5, <1>6 DEF temp

\* With a descriptor the segment is behind the contents of the file it opened.
LEMMA HoldingKeeps ==
  ASSUME NEW d \in Segments, ~d.keyframe, NEW c \in Seq(Items)
  PROVE  LET o == Holding(d, c) IN
         /\ o \in Segments /\ o.writer = "open" /\ o.jitter /\ o.muxer /\ ~o.keyframe
         /\ o.temp = NameOpened /\ o.on = NameOpened /\ o.at = c
<1> DEFINE b == Opened(d)
           n == NameOpened
           v == {t \in Sources : seg[t].writer = "closed"}
           o == [b EXCEPT !.writer = "open", !.muxer = TRUE, !.on = n, !.at = c, !.over = v]
<1>1. b \in Segments /\ b.jitter /\ b.temp = n /\ n \in Names /\ ~b.keyframe
  BY OpenedKeeps
<1>2. v \in SUBSET Sources
  OBVIOUS
<1>3. Holding(d, c) = o
  BY DEF Holding
<1> HIDE DEF b, n, v
<1>4. o \in Segments
  BY <1>1, <1>2 DEF Segments
<1>5. o.writer = "open" /\ o.on = n /\ o.at = c /\ o.temp = n
  BY <1>1 DEF Segments
<1>6. o.jitter /\ o.muxer /\ ~o.keyframe
  BY <1>1 DEF Segments
<1> QED BY <1>3, <1>4, <1>5, <1>6 DEF n

LEMMA ClosedKeeps ==
  ASSUME NEW d \in Segments
  PROVE  /\ Closed(d) \in Segments /\ Closed(d).writer = "closed"
         /\ Closed(d).temp = d.temp /\ Closed(d).on = d.on /\ Closed(d).at = d.at
         /\ Closed(d).jitter <=> d.jitter
         /\ Closed(d).muxer <=> d.muxer
         /\ Closed(d).keyframe <=> d.keyframe
BY DEF Closed, Segments

\* A change of its duration leaves the rest of a segment.
LEMMA ElapsedKeeps ==
  ASSUME NEW d \in Segments, NEW ts \in Int
  PROVE  /\ Elapsed(d, ts) \in Segments /\ Elapsed(d, ts).writer = d.writer
         /\ Elapsed(d, ts).temp = d.temp /\ Elapsed(d, ts).on = d.on /\ Elapsed(d, ts).at = d.at
         /\ Elapsed(d, ts).jitter <=> d.jitter
         /\ Elapsed(d, ts).muxer <=> d.muxer
         /\ Elapsed(d, ts).keyframe <=> d.keyframe
<1> DEFINE prev == IF d.prev < 0 \/ d.prev > ts THEN ts ELSE d.prev
           dur == d.duration + ts - prev
           e == [d EXCEPT !.duration = dur, !.prev = ts]
<1>1. Elapsed(d, ts) = e
  BY DEF Elapsed
<1>2. dur \in Int
  BY DEF Segments
<1> HIDE DEF dur, prev
<1>3. e \in Segments /\ e.writer = d.writer /\ e.temp = d.temp /\ e.on = d.on /\ e.at = d.at
  BY <1>2 DEF Segments
<1>4. (e.jitter <=> d.jitter) /\ (e.muxer <=> d.muxer) /\ (e.keyframe <=> d.keyframe)
  BY DEF Segments
<1> QED BY <1>1, <1>3, <1>4

\* Neither does a write, whatever comes of it; a key frame is noted.
LEMMA WriteKeeps ==
  ASSUME NEW d \in Segments, NEW m, NEW out, m.ts \in Int
  PROVE  LET a == AfterWrite(d, m, out) IN
         /\ a \in Segments /\ a.writer = d.writer
         /\ a.temp = d.temp /\ a.on = d.on /\ a.at = d.at
         /\ a.jitter <=> d.jitter
         /\ a.muxer <=> d.muxer
         /\ a.keyframe <=> (d.keyframe \/ (IsVideo(m) /\ IsKey(m)))
<1> DEFINE key == d.keyframe \/ (IsVideo(m) /\ IsKey(m))
           k == [d EXCEPT !.keyframe = key]
           e == Elapsed(k, m.ts)
<1>0. key \in BOOLEAN /\ (key <=> (d.keyframe \/ (IsVideo(m) /\ IsKey(m))))
  OBVIOUS
<1>7. AfterWrite(d, m, out) = IF out \in {"ok", "stray"} THEN e ELSE k
  BY DEF AfterWrite
<1> HIDE DEF key
<1>1. k \in Segments /\ k.writer = d.writer /\ k.temp = d.temp /\ k.on = d.on /\ k.at = d.at
  BY <1>0 DEF Segments
<1>2. (k.jitter <=> d.jitter) /\ (k.muxer <=> d.muxer) /\ (k.keyframe <=> key)
  BY <1>0 DEF Segments
<1> HIDE DEF k
<1>3. /\ e \in Segments /\ e.writer = k.writer /\ e.temp = k.temp /\ e.on = k.on /\ e.at = k.at
      /\ (e.jitter <=> k.jitter) /\ (e.muxer <=> k.muxer) /\ (e.keyframe <=> k.keyframe)
  BY <1>1, ElapsedKeeps
<1> HIDE DEF e
<1>8. CASE out \in {"ok", "stray"}
  BY <1>0, <1>1, <1>2, <1>3, <1>7, <1>8
<1>9. CASE out \notin {"ok", "stray"}
  BY <1>0, <1>1, <1>2, <1>7, <1>9
<1> QED BY <1>8, <1>9

\* Putting something behind the position moves it.
LEMMA MovedOnKeeps ==
  ASSUME NEW d \in Segments, NEW x \in Items
  PROVE  LET a == MovedOn(d, x) IN
         /\ a \in Segments /\ a.writer = d.writer
         /\ a.temp = d.temp /\ a.on = d.on /\ a.at = Append(d.at, x)
         /\ a.jitter <=> d.jitter
         /\ a.muxer <=> d.muxer
         /\ a.keyframe <=> d.keyframe
<1>1. Append(d.at, x) \in Seq(Items)
  BY AppendProperties DEF Segments
<1> DEFINE c == Append(d.at, x)
           a == [d EXCEPT !.at = c]
<1>0. MovedOn(d, x) = a
  BY DEF MovedOn
<1> HIDE DEF c
<1>2. a \in Segments /\ a.writer = d.writer /\ a.temp = d.temp /\ a.on = d.on /\ a.at = c
  BY <1>1 DEF Segments, c
<1>3. (a.jitter <=> d.jitter) /\ (a.muxer <=> d.muxer) /\ (a.keyframe <=> d.keyframe)
  BY DEF Segments
<1> HIDE DEF a
<1> QED BY <1>0, <1>2, <1>3 DEF c

-----------------------------------------------------------------------------
(***************************************************************************)
(* Facts about the files that several steps use.                           *)
(***************************************************************************)

\* Segments that stay on the files they shared, and of which none is opened, stay apart.
LEMMA StaysApart ==
  ASSUME Apart, disturbed \subseteq disturbed',
         \A u \in Sources :
           /\ IsOpen(seg'[u]) => IsOpen(seg[u])
           /\ seg'[u].writer = "open" => seg[u].writer = "open"
           /\ seg[u].writer = "closed" => seg'[u].writer = "closed"
           /\ seg'[u].temp = seg[u].temp,
         \A u, t \in Sources :
           IsOpen(seg[u]) /\ IsOpen(seg[t]) /\ seg'[u].on = seg'[t].on => seg[u].on = seg[t].on
  PROVE  Apart'
<1> SUFFICES ASSUME NEW s \in Sources, s \notin disturbed', NEW t \in Sources, s # t,
                    IsOpen(seg'[s]), seg'[t].writer = "open", seg'[t].on = seg'[s].on
             PROVE  seg'[s].writer = "closed" /\ seg'[t].temp = "path"
  BY DEF Apart, IsOpen
<1>1. /\ s \notin disturbed /\ IsOpen(seg[s]) /\ IsOpen(seg[t])
      /\ seg[t].writer = "open" /\ seg[t].on = seg[s].on
  BY DEF IsOpen
<1>2. seg[s].writer = "closed" /\ seg[t].temp = "path"
  BY <1>1 DEF Apart
<1> QED BY <1>2

\* A file that holds what it is to hold still does when it did not change, or,
\* once the writer is closed, when something was put at its end.
LEMMA StaysKept ==
  ASSUME TypesOK, NEW s \in Sources, IsOpen(seg[s]), Kept(s),
         base'[s] = base[s], seen'[s] = seen[s], file[seg[s].on] \in Seq(Items),
         seg'[s].writer = "open" =>
           seg[s].writer = "open" /\ (seg'[s].keyframe <=> seg[s].keyframe),
         \/ file'[seg'[s].on] = file[seg[s].on]
         \/ /\ seg'[s].writer = "closed"
            /\ \E x \in Items : file'[seg'[s].on] = Append(file[seg[s].on], x)
  PROVE  Kept(s)'
<1>1. PICK g : /\ Wants(g, seen[s])
               /\ seg[s].writer = "open" => file[seg[s].on] = base[s] \o g[Len(seen[s])]
               /\ seg[s].writer = "closed" =>
                    StartsWith(file[seg[s].on], base[s] \o g[Len(seen[s])])
  BY DEF Kept
<1> DEFINE w == base[s] \o g[Len(seen[s])]
           c == file[seg[s].on]
           e == file'[seg'[s].on]
<1>2. w \in Seq(Items)
  <2>1. base[s] \in Seq(Items) /\ seen[s] \in Seq(Noted)
    BY DEF TypesOK
  <2>2. g[Len(seen[s])] \in Seq(Items)
    BY <1>1, <2>1, LenProperties DEF Wants
  <2> QED BY <2>1, <2>2, ConcatProperties
<1>3. seg[s].writer \in {"open", "closed"}
  BY DEF IsOpen, TypesOK, Segments
<1>4. (seg[s].writer = "open" => c = w) /\ (seg[s].writer = "closed" => StartsWith(c, w))
  BY <1>1
<1>5. e = c \/ (seg'[s].writer = "closed" /\ \E x \in Items : e = Append(c, x))
  OBVIOUS
<1>6. c \in Seq(Items)
  OBVIOUS
<1> HIDE DEF w, c, e
<1>7. StartsWith(c, w)
  BY <1>3, <1>4, <1>6, StartsWithSelf
<1>8. seg'[s].writer = "open" => e = w
  BY <1>4, <1>5
<1>9. StartsWith(e, w)
  BY <1>2, <1>5, <1>6, <1>7, StartsWithAppend
<1>10. seg'[s].writer = "open" => KeySeen(s)'
  BY DEF Kept, KeySeen
<1>11. /\ seg'[s].writer = "open" => file'[seg'[s].on] = base'[s] \o g[Len(seen'[s])]
       /\ seg'[s].writer = "closed" => StartsWith(file'[seg'[s].on], base'[s] \o g[Len(seen'[s])])
  BY <1>8, <1>9 DEF w, e
<1>12. Wants(g, seen'[s])
  BY <1>1
<1> QED BY <1>10, <1>11, <1>12 DEF Kept

\* An open segment has a file, and what is put through its descriptor goes there: to the
\* end, when the file was opened for append or the descriptor is there.
LEMMA PutFile ==
  ASSUME IInv, NEW t \in Sources, IsOpen(seg[t]), NEW x \in Puts, file' = Put(seg[t], x)
  PROVE  /\ seg[t].on \in Names /\ file[seg[t].on] \in Seq(Items)
         /\ file' \in Files
         /\ file'.tmp = Missing \/ file'.path = Missing
         /\ \A n \in Names : file[n] # Missing => file'[n] # Missing
         /\ \A n \in Names : n # seg[t].on => file'[n] = file[n]
         /\ seg[t].temp = "path" \/ seg[t].at = file[seg[t].on] =>
              file'[seg[t].on] = Append(file[seg[t].on], x)
<1> DEFINE n == seg[t].on
           c == IF seg[t].temp = "path" \/ seg[t].at = file[n] THEN Append(file[n], x) ELSE Spoilt
<1>1. /\ file \in Files /\ n \in Names /\ file[n] # Missing
      /\ file.tmp = Missing \/ file.path = Missing
  BY DEF IInv, TypesOK, OnDisk
<1>2. file' = [file EXCEPT ![n] = c]
  BY DEF Put
<1>3. file[n] \in Seq(Items)
  BY <1>1 DEF Files, Names
<1>4. c \in Seq(Items) /\ c # Missing
  BY <1>3, ItemTypes, StaysThere
<1>5. seg[t].temp = "path" \/ seg[t].at = file[n] => c = Append(file[n], x)
  OBVIOUS
<1> HIDE DEF n, c
<1> DEFINE g == [file EXCEPT ![n] = c]
<1>6. /\ g \in Files /\ g[n] = c
      /\ n = "tmp" => file[n] = file.tmp /\ g.path = file.path /\ g.tmp = c
      /\ n = "path" => file[n] = file.path /\ g.tmp = file.tmp /\ g.path = c
  BY <1>1, <1>4, Named
<1> HIDE DEF g
<1>0. file' = g
  BY <1>2 DEF g
<1>7. n = "tmp" \/ n = "path"
  BY <1>1 DEF Names
<1>8. file'.tmp = Missing \/ file'.path = Missing
  BY <1>0, <1>1, <1>6, <1>7
<1>9. \A k \in Names : k # n => file'[k] = file[k]
  BY <1>1, <1>2 DEF Files, Names
<1>10. \A k \in Names : file[k] # Missing => file'[k] # Missing
  BY <1>0, <1>4, <1>6, <1>9
<1> QED BY <1>0, <1>1, <1>3, <1>5, <1>6, <1>8, <1>9, <1>10 DEF n

\* Of the undisturbed Sources this concerns those that closed the file; they see it grow.
LEMMA PutOthers ==
  ASSUME IInv, NEW t \in Sources, seg[t].writer = "open", NEW x \in Puts, file' = Put(seg[t], x),
         NEW u \in Sources \ disturbed, u # t, IsOpen(seg[u])
  PROVE  /\ seg[u].writer = "open" => file'[seg[u].on] = file[seg[u].on]
         /\ \/ file'[seg[u].on] = file[seg[u].on]
            \/ /\ seg[u].writer = "closed"
               /\ file'[seg[u].on] = Append(file[seg[u].on], x)
<1>1. IsOpen(seg[t]) /\ seg[u].on \in Names
  BY DEF IsOpen, IInv, OnDisk
<1>2. CASE seg[u].on = seg[t].on
  <2>1. seg[u].writer = "closed" /\ seg[t].temp = "path"
    BY <1>2 DEF IInv, Apart
  <2> QED BY <1>1, <1>2, <2>1, PutFile
<1>3. CASE seg[u].on # seg[t].on
  BY <1>1, <1>3, PutFile
<1> QED BY <1>2, <1>3

\* The files of the open segments are sequences of items.
LEMMA OpenFiles ==
  ASSUME IInv, NEW s \in Sources, IsOpen(seg[s])
  PROVE  seg[s].on \in Names /\ file[seg[s].on] \in Seq(Items)
<1>1. file \in Files /\ seg[s].on \in Names
  BY DEF IInv, TypesOK, OnDisk
<1> QED BY <1>1 DEF Files, Names

LEMMA InitIInv == Init => IInv
<1> SUFFICES ASSUME Init PROVE IInv
  OBVIOUS
<1>1. NewSegment \in Segments /\ ~IsOpen(NewSegment) /\ ~NewSegment.keyframe
  BY DEF NewSegment, Segments, IsOpen, Names
<1>2. file \in Files /\ file.tmp = Missing
  BY ItemTypes DEF Init, Files
<1>3. /\ \A s \in Sources : seg[s] = NewSegment
      /\ seg \in [Sources -> Segments] /\ sh_video \in [Sources -> Int]
      /\ next \in Nat /\ disturbed \in SUBSET Sources
  BY <1>1 DEF Init, Each
<1>4. enabled \in [Sources -> BOOLEAN] /\ \A s \in Sources : ~enabled[s]
  BY DEF Init, Each
<1>5. /\ base \in [Sources -> Seq(Items)] /\ seen \in [Sources -> Seq(Noted)]
      /\ \A s \in Sources : base[s] = <<>> /\ seen[s] = <<>>
  BY DEF Init, Each
<1> QED BY <1>1, <1>2, <1>3, <1>4, <1>5
        DEF IInv, TypesOK, Handles, OnDisk, Apart, AtEnd, Copied, IsOpen

LEMMA RestartIInv == ASSUME IInv, Restart PROVE IInv'
<1>1. NewSegment \in Segments /\ ~IsOpen(NewSegment) /\ ~NewSegment.keyframe
  BY DEF NewSegment, Segments, IsOpen, Names
<1>2. file' \in Files /\ (file'.tmp = Missing \/ file'.path = Missing)
  BY DEF Restart, IInv, TypesOK, OnDisk
<1>3. /\ \A s \in Sources : seg'[s] = NewSegment
      /\ seg' \in [Sources -> Segments] /\ sh_video' \in [Sources -> Int]
      /\ next' \in Nat /\ disturbed' \in SUBSET Sources
  BY <1>1 DEF Restart, Each, IInv, TypesOK
<1>4. enabled' \in [Sources -> BOOLEAN] /\ \A s \in Sources : ~enabled'[s]
  BY DEF Restart, Each
<1>5. /\ base' \in [Sources -> Seq(Items)] /\ seen' \in [Sources -> Seq(Noted)]
      /\ \A s \in Sources : base'[s] = <<>> /\ seen'[s] = <<>>
  BY DEF Restart, Each
<1> QED BY <1>1, <1>2, <1>3, <1>4, <1>5
        DEF IInv, TypesOK, Handles, OnDisk, Apart, AtEnd, Copied, IsOpen

(***************************************************************************)
(* Opening.  A segment is enabled only with a file of its own choice in    *)
(* which nothing is yet recorded beyond base.                              *)
(***************************************************************************)

\* An open that gets no descriptor leaves the files and the other segments.
LEMMA OpenNothingIInv ==
  ASSUME IInv, NEW s \in Sources, ~enabled[s], ~IsOpen(seg[s]),
         CreateDirFails(s) \/ FileOpenFails(s), UNCHANGED <<sh_video, next>>
  PROVE  IInv'
<1>1. /\ TypesOK /\ seg[s] \in Segments /\ seg[s].writer = "null" /\ ~seg[s].keyframe
  BY DEF IInv, TypesOK, Handles, IsOpen
<1>2. UNCHANGED <<file, base, seen, disturbed>>
  BY DEF CreateDirFails, FileOpenFails
<1>3. PICK d \in {seg[s], Opened(seg[s])} : seg' = [seg EXCEPT ![s] = d]
  <2>1. CASE CreateDirFails(s)
    BY <1>1, <2>1 DEF CreateDirFails, TypesOK
  <2>2. CASE FileOpenFails(s)
    BY <2>2 DEF FileOpenFails
  <2> QED BY <2>1, <2>2
<1>4. d \in Segments /\ d.writer = "null" /\ ~d.keyframe
  BY <1>1, OpenedKeeps
<1> HIDE DEF CreateDirFails, FileOpenFails
<1>5. /\ seg' \in [Sources -> Segments] /\ seg'[s].writer = "null" /\ ~seg'[s].keyframe
      /\ \A u \in Sources : u # s => seg'[u] = seg[u]
  BY <1>1, <1>3, <1>4 DEF TypesOK
<1>6. enabled' = [enabled EXCEPT ![s] = FALSE]
  BY DEF CreateDirFails, FileOpenFails, Enables
<1>7. /\ enabled' \in [Sources -> BOOLEAN] /\ ~enabled'[s]
      /\ \A u \in Sources : u # s => (enabled'[u] <=> enabled[u])
  BY <1>1, <1>6 DEF TypesOK
<1>8. TypesOK'
  BY <1>1, <1>2, <1>5, <1>7 DEF TypesOK
<1>9. Handles'
  BY <1>5, <1>7 DEF IInv, Handles, IsOpen
<1>10. OnDisk' /\ Apart' /\ AtEnd'
  <2>1. OnDisk'
    BY <1>2, <1>5 DEF IInv, OnDisk, IsOpen
  <2>2. Apart'
    BY <1>2, <1>5 DEF IInv, Apart, IsOpen
  <2>3. AtEnd'
    BY <1>2, <1>5 DEF IInv, AtEnd
  <2> QED BY <2>1, <2>2, <2>3
<1>11. Copied'
  <2> SUFFICES ASSUME NEW u \in Sources
               PROVE  /\ ~enabled'[u] => base'[u] = <<>> /\ seen'[u] = <<>>
                      /\ enabled'[u] /\ u \notin disturbed' => Kept(u)'
    BY DEF Copied
  <2>1. CASE u = s
    BY <1>2, <1>7, <2>1 DEF IInv, Copied
  <2>2. CASE u # s
    <3>1. ~enabled'[u] => base'[u] = <<>> /\ seen'[u] = <<>>
      BY <1>2, <1>7, <2>2 DEF IInv, Copied
    <3>2. ASSUME enabled'[u], u \notin disturbed' PROVE Kept(u)'
      <4>1. Kept(u) /\ IsOpen(seg[u])
        BY <1>2, <1>7, <2>2, <3>2 DEF IInv, Copied, Handles
      <4>2. seg'[u] = seg[u] /\ file' = file
        BY <1>2, <1>5, <2>2
      <4> QED BY <1>1, <1>2, <4>1, <4>2, OpenFiles, StaysKept
    <3> QED BY <3>1, <3>2
  <2> QED BY <2>1, <2>2
<1> QED BY <1>8, <1>9, <1>10, <1>11 DEF IInv

\* An open that gets one is behind the contents of the file, and who had the file before
\* is disturbed, but for those that closed it and see it grow.
LEMMA OpenFileIInv ==
  ASSUME IInv, NEW s \in Sources, ~enabled[s], ~IsOpen(seg[s]), NEW c \in Seq(Items), c # Missing,
         Found => c = file.path,
         file' = [file EXCEPT ![NameOpened] = c],
         seg' = [seg EXCEPT ![s] = Holding(seg[s], c)], Disturbs(s),
         NEW ok \in BOOLEAN, Enables(s, ok), UNCHANGED <<sh_video, next>>,
         \/ ~ok /\ UNCHANGED <<base, seen>>
         \/ ok /\ base' = [base EXCEPT ![s] = c] /\ seen' = [seen EXCEPT ![s] = <<>>]
  PROVE  IInv'
<1>1. /\ TypesOK /\ seg[s] \in Segments /\ seg[s].writer = "null" /\ ~seg[s].keyframe
      /\ file \in Files
  BY DEF IInv, TypesOK, Handles, IsOpen
<1> DEFINE o == Holding(seg[s], c)
           n == NameOpened
<1>2. /\ o \in Segments /\ o.writer = "open" /\ o.jitter /\ o.muxer /\ ~o.keyframe
      /\ o.temp = n /\ o.on = n /\ o.at = c
  BY <1>1, HoldingKeeps
<1>3. n \in Names /\ (n = "path" <=> Found)
  BY DEF NameOpened, Names
<1> HIDE DEF o
<1>4. /\ seg' \in [Sources -> Segments] /\ seg'[s] = o
      /\ \A u \in Sources : u # s => seg'[u] = seg[u]
  BY <1>1, <1>2 DEF TypesOK, o
<1>5. /\ file' \in Files /\ file'[n] = c
      /\ n = "tmp" => file'.path = file.path
      /\ n = "path" => file'.tmp = file.tmp
      /\ \A k \in Names : k # n => file'[k] = file[k]
  <2> HIDE DEF n
  <2>1. file' = [file EXCEPT ![n] = c]
    BY DEF n
  <2> DEFINE f == [file EXCEPT ![n] = c]
  <2>2. /\ f \in Files /\ f[n] = c
        /\ n = "tmp" => f.path = file.path
        /\ n = "path" => f.tmp = file.tmp
    <3>1. CASE n = "tmp"
      BY <1>1, <3>1 DEF Files
    <3>2. CASE n = "path"
      BY <1>1, <3>2 DEF Files
    <3> QED BY <1>3, <3>1, <3>2 DEF Names
  <2>3. \A k \in Names : k # n => f[k] = file[k]
    BY <1>1, <1>3 DEF Files, Names
  <2> HIDE DEF f
  <2>4. file' = f
    BY <2>1 DEF f
  <2> QED BY <2>2, <2>3, <2>4
<1>6. /\ enabled' \in [Sources -> BOOLEAN] /\ (enabled'[s] <=> ok)
      /\ \A u \in Sources : u # s => (enabled'[u] <=> enabled[u])
  BY <1>1 DEF TypesOK, Enables
<1>7. /\ disturbed' \in SUBSET Sources /\ disturbed \subseteq disturbed'
      /\ \A u \in Sources : u # s /\ seg[u].on = n /\ (seg[u].writer = "open" \/ ~Found) =>
           u \in disturbed'
      /\ \A u \in Sources : u # s /\ seg[u].on = n /\ seg[u].writer = "open" => s \in disturbed'
  BY <1>1 DEF Disturbs, TypesOK
<1> HIDE DEF n
<1>8. /\ base' \in [Sources -> Seq(Items)] /\ seen' \in [Sources -> Seq(Noted)]
      /\ \A u \in Sources : u # s => base'[u] = base[u] /\ seen'[u] = seen[u]
      /\ ok => base'[s] = c /\ seen'[s] = <<>>
      /\ ~ok => base'[s] = <<>> /\ seen'[s] = <<>>
  <2>1. base[s] = <<>> /\ seen[s] = <<>>
    BY DEF IInv, Copied
  <2>2. <<>> \in Seq(Noted)
    OBVIOUS
  <2> QED BY <1>1, <2>1, <2>2 DEF TypesOK
<1>9. TypesOK'
  BY <1>1, <1>4, <1>5, <1>6, <1>7, <1>8 DEF TypesOK
<1>10. Handles'
  <2>1. IsOpen(o)
    BY <1>2 DEF IsOpen
  <2> QED BY <1>2, <1>4, <1>6, <2>1 DEF IInv, Handles
<1>11. OnDisk'
  <2>1. file'.tmp = Missing \/ file'.path = Missing
    <3>1. CASE Found
      BY <1>3, <1>5, <3>1 DEF IInv, OnDisk, Found
    <3>2. CASE ~Found
      BY <1>3, <1>5, <3>2 DEF Found, Names
    <3> QED BY <3>1, <3>2
  <2>2. ASSUME NEW u \in Sources, IsOpen(seg'[u])
        PROVE  seg'[u].on \in Names /\ file'[seg'[u].on] # Missing
    <3>1. CASE u = s
      BY <1>2, <1>3, <1>4, <1>5, <3>1
    <3>2. CASE u # s
      <4>1. seg'[u] = seg[u] /\ seg[u].on \in Names /\ file[seg[u].on] # Missing
        BY <1>4, <2>2, <3>2 DEF IInv, OnDisk
      <4> QED BY <1>5, <4>1
    <3> QED BY <3>1, <3>2
  <2> QED BY <2>1, <2>2 DEF OnDisk
<1>12. Apart'
  <2> SUFFICES ASSUME NEW u \in Sources, u \notin disturbed', NEW t \in Sources, u # t,
                      IsOpen(seg'[u]), seg'[t].writer = "open", seg'[t].on = seg'[u].on
               PROVE  seg'[u].writer = "closed" /\ seg'[t].temp = "path"
    BY DEF Apart
  <2>1. CASE u = s
    BY <1>2, <1>4, <1>7, <2>1
  <2>2. CASE t = s
    <3>1. seg'[u] = seg[u] /\ seg[u].on = n /\ seg[u].writer # "open" /\ Found
      BY <1>2, <1>4, <1>7, <2>2
    <3>2. seg[u].writer = "closed"
      BY <1>1, <3>1 DEF IsOpen, TypesOK, Segments
    <3> QED BY <1>2, <1>3, <1>4, <2>2, <3>1, <3>2
  <2>3. CASE u # s /\ t # s
    BY <1>4, <1>7, <2>3 DEF IInv, Apart
  <2> QED BY <2>1, <2>2, <2>3
<1>13. ASSUME NEW u \in Sources, u \notin disturbed', u # s, IsOpen(seg[u])
       PROVE  file'[seg[u].on] = file[seg[u].on]
  <2>1. seg[u].on \in Names
    BY <1>13 DEF IInv, OnDisk
  <2>2. CASE seg[u].on # n
    BY <1>5, <2>1, <2>2
  <2>3. CASE seg[u].on = n
    <3>1. Found
      BY <1>7, <1>13, <2>3
    <3>2. file'[n] = file[n]
      BY <1>3, <1>5, <3>1
    <3> QED BY <2>3, <3>2
  <2> QED BY <2>2, <2>3
<1>14. AtEnd'
  <2> SUFFICES ASSUME NEW u \in Sources, u \notin disturbed',
                      seg'[u].writer = "open", seg'[u].temp = "tmp"
               PROVE  seg'[u].at = file'[seg'[u].on]
    BY DEF AtEnd
  <2>1. CASE u = s
    BY <1>2, <1>4, <1>5, <2>1
  <2>2. CASE u # s
    <3>1. seg'[u] = seg[u] /\ IsOpen(seg[u]) /\ u \notin disturbed
      BY <1>4, <1>7, <2>2 DEF IsOpen
    <3>2. seg[u].at = file[seg[u].on]
      BY <3>1 DEF IInv, AtEnd
    <3> QED BY <1>13, <2>2, <3>1, <3>2
  <2> QED BY <2>1, <2>2
<1>15. Copied'
  <2> SUFFICES ASSUME NEW u \in Sources
               PROVE  /\ ~enabled'[u] => base'[u] = <<>> /\ seen'[u] = <<>>
                      /\ enabled'[u] /\ u \notin disturbed' => Kept(u)'
    BY DEF Copied
  <2>1. CASE u = s /\ ~ok
    BY <1>6, <1>8, <2>1
  <2>2. CASE u = s /\ ok
    <3>1. PICK g : g = [i \in 0 .. 0 |-> <<>>]
      OBVIOUS
    <3>2. seen'[s] = <<>> /\ Len(seen'[s]) = 0 /\ base'[s] = c /\ <<>> \in Seq(Items)
      BY <1>8, <2>2
    <3>3. Wants(g, seen'[s])
      BY <3>1, <3>2 DEF Wants
    <3>4. file'[seg'[s].on] = base'[s] \o g[Len(seen'[s])]
      <4>1. c \o <<>> = c
        BY ConcatEmptySeq
      <4> QED BY <1>2, <1>4, <1>5, <3>1, <3>2, <4>1
    <3>5. KeySeen(s)'
      BY <1>2, <1>4, <3>2 DEF KeySeen
    <3>6. Kept(s)'
      BY <1>2, <1>4, <3>3, <3>4, <3>5 DEF Kept
    <3> QED BY <1>6, <2>2, <3>6
  <2>3. CASE u # s
    <3>1. ~enabled'[u] => base'[u] = <<>> /\ seen'[u] = <<>>
      BY <1>6, <1>8, <2>3 DEF IInv, Copied
    <3>2. ASSUME enabled'[u], u \notin disturbed' PROVE Kept(u)'
      <4>1. Kept(u) /\ IsOpen(seg[u])
        BY <1>6, <1>7, <2>3, <3>2 DEF IInv, Copied, Handles
      <4>2. seg'[u] = seg[u] /\ base'[u] = base[u] /\ seen'[u] = seen[u]
        BY <1>4, <1>8, <2>3
      <4>3. file'[seg[u].on] = file[seg[u].on]
        BY <1>13, <2>3, <3>2, <4>1
      <4> QED BY <4>1, <4>2, <4>3 DEF Kept, KeySeen
    <3> QED BY <3>1, <3>2
  <2> QED BY <2>1, <2>2, <2>3
<1> QED BY <1>9, <1>10, <1>11, <1>12, <1>14, <1>15 DEF IInv

LEMMA OpenIInv ==
  ASSUME IInv, NEW s \in Sources, ~enabled[s], ~IsOpen(seg[s]), Open(s),
         UNCHANGED <<sh_video, next>>
  PROVE  IInv'
<1>1. CASE CreateDirFails(s) \/ FileOpenFails(s)
  BY <1>1, OpenNothingIInv
<1>2. CASE FlvHeaderFails(s)
  <2>1. PICK part \in {<<>>, <<TornItem(0)>>} :
          /\ file' = [file EXCEPT !.tmp = part]
          /\ seg' = [seg EXCEPT ![s] = Holding(@, part)]
    BY <1>2 DEF FlvHeaderFails
  <2>2. part \in Seq(Items) /\ part # Missing
    <3>1. TornItem(0) \in Puts
      BY ItemTypes
    <3>2. <<>> \in Seq(Items) /\ <<TornItem(0)>> = Append(<<>>, TornItem(0)) /\ <<>> # Missing
      BY DEF Missing
    <3> QED BY <3>1, <3>2, StaysThere
  <2>3. ~Found /\ Disturbs(s) /\ Enables(s, FALSE) /\ UNCHANGED <<base, seen>>
    BY <1>2 DEF FlvHeaderFails
  <2>4. file' = [file EXCEPT ![NameOpened] = part]
    BY <2>1, <2>3 DEF NameOpened
  <2> QED BY <2>1, <2>2, <2>3, <2>4, OpenFileIInv
<1>3. CASE Succeeds(s)
  <2> DEFINE c == IF Found THEN file.path ELSE <<FlvHeader>>
  <2>1. c \in Seq(Items) /\ c # Missing
    <3>1. file.path \in Seq(Items)
      BY DEF IInv, TypesOK, Files
    <3>2. <<>> \in Seq(Items) /\ <<FlvHeader>> = Append(<<>>, FlvHeader) /\ FlvHeader \in Puts
      BY ItemTypes
    <3>3. <<FlvHeader>> \in Seq(Items) /\ <<FlvHeader>> # Missing
      BY <3>2, StaysThere
    <3> QED BY <3>1, <3>3 DEF Found
  <2>2. /\ file' = [file EXCEPT ![NameOpened] = c]
        /\ seg' = [seg EXCEPT ![s] = Holding(seg[s], c)]
        /\ base' = [base EXCEPT ![s] = c] /\ seen' = [seen EXCEPT ![s] = <<>>]
        /\ Disturbs(s) /\ Enables(s, TRUE)
    BY <1>3 DEF Succeeds
  <2>3. Found => c = file.path
    OBVIOUS
  <2> HIDE DEF c
  <2> QED BY <2>1, <2>2, <2>3, OpenFileIInv
<1> QED BY <1>1, <1>2, <1>3 DEF Open

(***************************************************************************)
(* Closing a segment, which may give its file the final name: no file has  *)
(* it then, and all descriptors on the file go along.  The descriptor of   *)
(* another Source that it may close disturbs that one.                     *)
(***************************************************************************)
LEMMA CloseFiles ==
  ASSUME IInv, NEW s \in Sources, IsOpen(seg[s]), NEW d \in Segments,
         d.writer = "closed", d.temp = seg[s].temp, d.on = seg[s].on,
         NEW ok \in CloseOutcomes(seg[s]), Close(s, d, ok)
  PROVE  /\ file' \in Files
         /\ file'.tmp = Missing \/ file'.path = Missing
         /\ file.path # Missing => file'.path = file.path
         /\ \A u \in Sources : IsOpen(seg[u]) =>
              /\ seg'[u].on \in Names
              /\ file'[seg'[u].on] = file[seg[u].on]
         /\ \A u, t \in Sources :
              IsOpen(seg[u]) /\ IsOpen(seg[t]) /\ seg'[u].on = seg'[t].on => seg[u].on = seg[t].on
         /\ disturbed \subseteq disturbed' /\ disturbed' \in SUBSET Sources
         /\ seg' \in [Sources -> Segments]
         /\ seg'[s].writer = "closed" /\ seg'[s].temp = d.temp
         /\ seg'[s].jitter <=> d.jitter
         /\ seg'[s].muxer <=> d.muxer
         /\ \A u \in Sources : u # s =>
              /\ seg'[u].writer = seg[u].writer \/ (u \in disturbed' /\ seg[u].writer = "open"
                                                    /\ seg'[u].writer = "closed")
              /\ seg'[u].temp = seg[u].temp /\ seg'[u].at = seg[u].at
              /\ seg'[u].jitter <=> seg[u].jitter
              /\ seg'[u].muxer <=> seg[u].muxer
              /\ seg'[u].keyframe <=> seg[u].keyframe
<1>1. /\ TypesOK /\ OnDisk /\ seg \in [Sources -> Segments] /\ file \in Files
      /\ disturbed \in SUBSET Sources
  BY DEF IInv, TypesOK
<1>2. PICK other \in {{}} \cup {{t} : t \in Reusing(s)} :
        /\ seg' = IF ok /\ Renames(d) THEN Moved(Released(s, d, other)) ELSE Released(s, d, other)
        /\ disturbed' = disturbed \cup other
  BY DEF Close
<1>3. file' = IF ok /\ Renames(d) THEN [tmp |-> Missing, path |-> file.tmp] ELSE file
  BY DEF Close
<1>4. other \subseteq Sources /\ \A t \in other : seg[t].writer = "open"
  BY DEF Reusing
<1> DEFINE r == Released(s, d, other)
<1>5. /\ r \in [Sources -> Segments] /\ r[s] = d
      /\ \A u \in Sources : u # s =>
           r[u] = IF u \in other THEN [seg[u] EXCEPT !.writer = "closed"] ELSE seg[u]
  <2>1. \A u \in Sources : [seg[u] EXCEPT !.writer = "closed"] \in Segments
    BY <1>1 DEF Segments
  <2> QED BY <1>1, <2>1 DEF Released
<1>6. ASSUME NEW u \in Sources, u # s
      PROVE  /\ r[u].writer = seg[u].writer \/ (u \in other /\ r[u].writer = "closed")
             /\ r[u].temp = seg[u].temp /\ r[u].at = seg[u].at /\ r[u].on = seg[u].on
             /\ r[u].jitter <=> seg[u].jitter
             /\ r[u].muxer <=> seg[u].muxer
             /\ r[u].keyframe <=> seg[u].keyframe
  <2>1. CASE u \in other
    <3> DEFINE e == seg[u]
               f == [e EXCEPT !.writer = "closed"]
    <3>1. r[u] = f /\ e \in Segments
      BY <1>1, <1>5, <1>6, <2>1
    <3>2. f.writer = "closed" /\ f.temp = e.temp /\ f.at = e.at /\ f.on = e.on
      BY <3>1 DEF Segments
    <3>3. (f.jitter <=> e.jitter) /\ (f.muxer <=> e.muxer) /\ (f.keyframe <=> e.keyframe)
      BY <3>1 DEF Segments
    <3> QED BY <2>1, <3>1, <3>2, <3>3
  <2>2. CASE u \notin other
    BY <1>5, <1>6, <2>2
  <2> QED BY <2>1, <2>2
<1> HIDE DEF r
<1>7. ASSUME NEW u \in Sources
      PROVE  /\ seg'[u] \in Segments
             /\ seg'[u].writer = r[u].writer /\ seg'[u].temp = r[u].temp /\ seg'[u].at = r[u].at
             /\ seg'[u].jitter <=> r[u].jitter
             /\ seg'[u].muxer <=> r[u].muxer
             /\ seg'[u].keyframe <=> r[u].keyframe
             /\ seg'[u].on = IF ok /\ Renames(d) /\ r[u].on = "tmp" THEN "path" ELSE r[u].on
  <2>1. seg' = IF ok /\ Renames(d) THEN Moved(r) ELSE r
    BY <1>2 DEF r
  <2>2. CASE ok /\ Renames(d) /\ r[u].on = "tmp"
    <3> DEFINE e == r[u]
               f == [e EXCEPT !.on = "path"]
    <3>1. seg'[u] = f /\ e \in Segments
      BY <1>5, <2>1, <2>2 DEF Moved
    <3>2. f \in Segments /\ f.writer = e.writer /\ f.temp = e.temp /\ f.at = e.at /\ f.on = "path"
      BY <3>1 DEF Segments, Names
    <3>3. (f.jitter <=> e.jitter) /\ (f.muxer <=> e.muxer) /\ (f.keyframe <=> e.keyframe)
      BY <3>1 DEF Segments
    <3> QED BY <2>2, <3>1, <3>2, <3>3
  <2>3. CASE ~(ok /\ Renames(d) /\ r[u].on = "tmp")
    <3>1. seg'[u] = r[u]
      BY <2>1, <2>3 DEF Moved
    <3> QED BY <1>5, <2>3, <3>1
  <2> QED BY <2>2, <2>3
<1>8. seg' \in [Sources -> Segments]
  <2>1. DOMAIN seg' = Sources /\ seg' = [u \in Sources |-> seg'[u]]
    BY <1>2 DEF Moved, Released
  <2> QED BY <1>7, <2>1
<1>9. \A u \in Sources : r[u].on = seg[u].on
  BY <1>5, <1>6
<1>10. /\ seg'[s].writer = "closed" /\ seg'[s].temp = d.temp
       /\ seg'[s].jitter <=> d.jitter
       /\ seg'[s].muxer <=> d.muxer
  BY <1>5, <1>7
<1>11. ASSUME NEW u \in Sources, u # s
       PROVE  /\ seg'[u].writer = seg[u].writer \/ (u \in disturbed' /\ seg[u].writer = "open"
                                                    /\ seg'[u].writer = "closed")
              /\ seg'[u].temp = seg[u].temp /\ seg'[u].at = seg[u].at
              /\ seg'[u].jitter <=> seg[u].jitter
              /\ seg'[u].muxer <=> seg[u].muxer
              /\ seg'[u].keyframe <=> seg[u].keyframe
  BY <1>2, <1>4, <1>6, <1>7, <1>11
<1>12. disturbed \subseteq disturbed' /\ disturbed' \in SUBSET Sources
  BY <1>1, <1>2, <1>4
<1>13. CASE ok /\ Renames(d)
  <2>1. file.tmp # Missing
    BY <1>13 DEF CloseOutcomes, CanRename, Renames
  <2>2. file.path = Missing
    BY <1>1, <2>1 DEF OnDisk
  <2>3. file' = [tmp |-> Missing, path |-> file.tmp] /\ file' \in Files
    BY <1>1, <1>3, <1>13, ItemTypes DEF Files
  <2>4. ASSUME NEW u \in Sources, IsOpen(seg[u]) PROVE seg[u].on = "tmp"
    BY <1>1, <2>2, <2>4 DEF OnDisk, Names
  <2>5. ASSUME NEW u \in Sources, IsOpen(seg[u])
        PROVE  seg'[u].on = "path" /\ file'["path"] = file["tmp"]
    BY <1>7, <1>9, <1>13, <2>3, <2>4, <2>5
  <2>6. file'.tmp = Missing
    BY <2>3
  <2>7. "path" \in Names
    BY DEF Names
  <2> QED BY <1>8, <1>10, <1>11, <1>12, <2>2, <2>3, <2>4, <2>5, <2>6, <2>7
<1>14. CASE ~(ok /\ Renames(d))
  <2>1. file' = file
    BY <1>3, <1>14
  <2>2. \A u \in Sources : seg'[u].on = seg[u].on
    BY <1>7, <1>9, <1>14
  <2> QED BY <1>1, <1>8, <1>10, <1>11, <1>12, <2>1, <2>2 DEF OnDisk
<1> QED BY <1>13, <1>14

LEMMA CloseIInv ==
  ASSUME IInv, NEW s \in Sources, IsOpen(seg[s]), NEW d \in Segments,
         d.writer = "closed", d.temp = seg[s].temp, d.on = seg[s].on,
         d.jitter <=> seg[s].jitter, d.muxer <=> seg[s].muxer,
         NEW ok \in CloseOutcomes(seg[s]), Close(s, d, ok),
         enabled' \in [Sources -> BOOLEAN], enabled[s] => enabled'[s],
         \A u \in Sources : u # s => (enabled'[u] <=> enabled[u]),
         sh_video' \in [Sources -> Int], next' \in Nat, UNCHANGED <<base, seen>>
  PROVE  IInv'
<1>1. /\ file' \in Files
      /\ file'.tmp = Missing \/ file'.path = Missing
      /\ \A u \in Sources : IsOpen(seg[u]) =>
           /\ seg'[u].on \in Names
           /\ file'[seg'[u].on] = file[seg[u].on]
      /\ \A u, t \in Sources :
           IsOpen(seg[u]) /\ IsOpen(seg[t]) /\ seg'[u].on = seg'[t].on => seg[u].on = seg[t].on
  BY CloseFiles
<1>2. /\ disturbed \subseteq disturbed' /\ disturbed' \in SUBSET Sources
      /\ seg' \in [Sources -> Segments]
      /\ seg'[s].writer = "closed" /\ seg'[s].temp = d.temp
      /\ seg'[s].jitter <=> d.jitter
      /\ seg'[s].muxer <=> d.muxer
      /\ \A u \in Sources : u # s =>
           /\ seg'[u].writer = seg[u].writer \/ (u \in disturbed' /\ seg[u].writer = "open"
                                                 /\ seg'[u].writer = "closed")
           /\ seg'[u].temp = seg[u].temp /\ seg'[u].at = seg[u].at
           /\ seg'[u].jitter <=> seg[u].jitter
           /\ seg'[u].muxer <=> seg[u].muxer
           /\ seg'[u].keyframe <=> seg[u].keyframe
  BY CloseFiles
<1> HIDE DEF Close
<1>3. \A u \in Sources : IsOpen(seg'[u]) <=> IsOpen(seg[u])
  BY <1>2 DEF IsOpen
<1>4. TypesOK'
  BY <1>1, <1>2 DEF IInv, TypesOK
<1>5. Handles'
  <2>1. ASSUME NEW u \in Sources
        PROVE  /\ IsOpen(seg'[u]) => seg'[u].jitter /\ seg'[u].muxer
               /\ enabled'[u] => IsOpen(seg'[u])
               /\ seg'[u].writer = "null" => ~seg'[u].keyframe
    <3>1. /\ IsOpen(seg[u]) => seg[u].jitter /\ seg[u].muxer
          /\ enabled[u] => IsOpen(seg[u])
          /\ seg[u].writer = "null" => ~seg[u].keyframe
      BY DEF IInv, Handles
    <3>2. CASE u = s
      BY <1>2, <1>3, <3>1, <3>2
    <3>3. CASE u # s
      BY <1>2, <1>3, <3>1, <3>3
    <3> QED BY <3>2, <3>3
  <2> QED BY <2>1 DEF Handles
<1>6. OnDisk'
  BY <1>1, <1>3 DEF IInv, OnDisk
<1>7. Apart'
  <2>1. \A u \in Sources :
           /\ IsOpen(seg'[u]) => IsOpen(seg[u])
           /\ seg'[u].writer = "open" => seg[u].writer = "open"
           /\ seg[u].writer = "closed" => seg'[u].writer = "closed"
           /\ seg'[u].temp = seg[u].temp
    BY <1>2, <1>3
  <2> QED BY <1>1, <1>2, <2>1, StaysApart DEF IInv
<1>8. AtEnd'
  <2> SUFFICES ASSUME NEW u \in Sources, u \notin disturbed',
                      seg'[u].writer = "open", seg'[u].temp = "tmp"
               PROVE  seg'[u].at = file'[seg'[u].on]
    BY DEF AtEnd
  <2>1. /\ u # s /\ seg[u].writer = "open" /\ u \notin disturbed
        /\ seg'[u].at = seg[u].at /\ seg[u].temp = "tmp"
    BY <1>2
  <2>2. IsOpen(seg[u]) /\ seg[u].at = file[seg[u].on]
    BY <2>1 DEF IInv, AtEnd, IsOpen
  <2> QED BY <1>1, <2>1, <2>2
<1>9. Copied'
  <2> SUFFICES ASSUME NEW u \in Sources
               PROVE  /\ ~enabled'[u] => base'[u] = <<>> /\ seen'[u] = <<>>
                      /\ enabled'[u] /\ u \notin disturbed' => Kept(u)'
    BY DEF Copied
  <2>1. ~enabled'[u] => base'[u] = <<>> /\ seen'[u] = <<>>
    <3>1. ~enabled'[u] => ~enabled[u]
      OBVIOUS
    <3> QED BY <3>1 DEF IInv, Copied
  <2>2. ASSUME enabled'[u], u \notin disturbed', enabled[u] PROVE Kept(u)'
    <3>1. Kept(u) /\ IsOpen(seg[u]) /\ TypesOK
      BY <1>2, <2>2 DEF IInv, Copied, Handles
    <3>2. seg'[u].writer = "open" =>
            seg[u].writer = "open" /\ (seg'[u].keyframe <=> seg[u].keyframe)
      BY <1>2
    <3>3. file'[seg'[u].on] = file[seg[u].on] /\ file[seg[u].on] \in Seq(Items)
      BY <1>1, <3>1, OpenFiles
    <3> QED BY <3>1, <3>2, <3>3, StaysKept
  <2>3. ASSUME enabled'[u], u \notin disturbed', ~enabled[u] PROVE Kept(u)'
    <3>1. u = s
      BY <2>3
    <3>2. base'[s] = <<>> /\ seen'[s] = <<>> /\ Len(seen'[s]) = 0 /\ <<>> \in Seq(Items)
      BY <2>3, <3>1 DEF IInv, Copied
    <3>3. PICK g : g = [i \in 0 .. 0 |-> <<>>]
      OBVIOUS
    <3>4. Wants(g, seen'[s]) /\ base'[s] \o g[Len(seen'[s])] = <<>>
      BY <3>2, <3>3, ConcatEmptySeq DEF Wants
    <3>5. StartsWith(file'[seg'[s].on], <<>>)
      <4>1. file'[seg'[s].on] \in Seq(Items)
        BY <1>1, OpenFiles
      <4> QED BY <4>1, StartsWithSelf
    <3> QED BY <1>2, <3>1, <3>4, <3>5 DEF Kept
  <2> QED BY <2>1, <2>2, <2>3
<1> QED BY <1>4, <1>5, <1>6, <1>7, <1>8, <1>9 DEF IInv

\* A step that leaves all this alone.
LEMMA StutterIInv ==
  ASSUME IInv, UNCHANGED <<enabled, seg, file, base, seen, disturbed, sh_video, next>>
  PROVE  IInv'
<1>1. TypesOK'
  BY DEF IInv, TypesOK
<1>2. Handles'
  BY DEF IInv, Handles
<1>3. OnDisk' /\ Apart' /\ AtEnd'
  <2>1. OnDisk'
    BY DEF IInv, OnDisk
  <2>2. Apart'
    BY DEF IInv, Apart
  <2>3. AtEnd'
    BY DEF IInv, AtEnd
  <2> QED BY <2>1, <2>2, <2>3
<1>4. \A s \in Sources : Kept(s) <=> Kept(s)'
  BY DEF Kept, KeySeen
<1>5. Copied'
  BY <1>4 DEF IInv, Copied
<1> QED BY <1>1, <1>2, <1>3, <1>5 DEF IInv

LEMMA OnPublishIInv == ASSUME IInv, NEW s \in Sources, OnPublish(s) PROVE IInv'
<1>1. UNCHANGED <<sh_video, next>>
  BY DEF OnPublish
<1>2. CASE enabled[s] /\ UNCHANGED <<enabled, seg, file, base, seen, disturbed, faults>>
  BY <1>1, <1>2, StutterIInv
<1>3. CASE ~enabled[s] /\ ~IsOpen(seg[s]) /\ Open(s)
  BY <1>1, <1>3, OpenIInv
<1>4. CASE /\ ~enabled[s] /\ IsOpen(seg[s])
           /\ \E ok \in CloseOutcomes(seg[s]) :
                Close(s, Closed(seg[s]), ok) /\ Enables(s, ok)
           /\ UNCHANGED <<base, seen>>
  <2>1. PICK ok \in CloseOutcomes(seg[s]) : Close(s, Closed(seg[s]), ok) /\ Enables(s, ok)
    BY <1>4
  <2>2. ok \in BOOLEAN
    BY DEF CloseOutcomes
  <2>3. seg[s] \in Segments /\ sh_video' \in [Sources -> Int] /\ next' \in Nat
    BY <1>1 DEF IInv, TypesOK
  <2>4. /\ enabled' \in [Sources -> BOOLEAN]
        /\ \A u \in Sources : u # s => (enabled'[u] <=> enabled[u])
    BY <2>1, <2>2 DEF IInv, TypesOK, Enables
  <2> DEFINE d == Closed(seg[s])
  <2>5. /\ d \in Segments /\ d.writer = "closed" /\ d.temp = seg[s].temp /\ d.on = seg[s].on
        /\ d.jitter <=> seg[s].jitter
        /\ d.muxer <=> seg[s].muxer
    BY <2>3, ClosedKeeps
  <2>6. Close(s, d, ok)
    BY <2>1
  <2> HIDE DEF d
  <2> QED BY <1>4, <2>3, <2>4, <2>5, <2>6, CloseIInv
<1> QED BY <1>2, <1>3, <1>4 DEF OnPublish

\* A roll closes the segment, wherever it stops.
LEMMA RollCloses ==
  ASSUME IInv, NEW s \in Sources, enabled[s], NEW m \in Msgs, Roll(s, m)
  PROVE  /\ IsOpen(seg[s]) /\ seen' = seen
         /\ \E d \in Segments, ok \in CloseOutcomes(seg[s]) :
              /\ Close(s, d, ok)
              /\ d.writer = "closed" /\ d.temp = seg[s].temp /\ d.on = seg[s].on
              /\ d.jitter <=> seg[s].jitter
              /\ d.muxer <=> seg[s].muxer
<1> DEFINE c == Closed(seg[s])
           H(out) == IF sh_video[s] >= 0 /\ out = "stray" THEN Elapsed(c, sh_video[s]) ELSE c
           D(ok, out, last) ==
             LET goes_on == sh_video[s] < 0 \/ out = "stray" IN
               CASE ~ok -> c
                 [] ok /\ ~goes_on -> H(out)
                 [] ok /\ goes_on -> AfterWrite(H(out), m, last)
           Like(d) == /\ d \in Segments /\ d.writer = "closed"
                      /\ d.temp = seg[s].temp /\ d.on = seg[s].on
                      /\ d.jitter <=> seg[s].jitter
                      /\ d.muxer <=> seg[s].muxer
<1>1. /\ IsOpen(seg[s]) /\ seg[s] \in Segments /\ sh_video[s] \in Int /\ m.ts \in Int
  BY DEF IInv, Handles, TypesOK, Msgs
<1>2. Like(c)
  BY <1>1, ClosedKeeps
<1>3. PICK ok \in CloseOutcomes(seg[s]),
           out \in {"nothing", "stray"}, last \in {"nothing", "stray"} :
        Close(s, D(ok, out, last), ok)
  BY DEF Roll
<1>4. D(ok, out, last) \in {c, H(out), AfterWrite(H(out), m, last)}
  BY DEF CloseOutcomes
<1> HIDE DEF c
<1>5. Like(H(out))
  BY <1>1, <1>2, ElapsedKeeps
<1> HIDE DEF H
<1>6. Like(AfterWrite(H(out), m, last))
  BY <1>1, <1>5, WriteKeeps
<1> DEFINE d == D(ok, out, last)
<1>7. Like(d)
  <2> HIDE DEF Like, D
  <2> QED BY <1>2, <1>4, <1>5, <1>6
<1>8. seen' = seen /\ Close(s, d, ok)
  BY <1>3 DEF Roll
<1>9. /\ d \in Segments /\ d.writer = "closed" /\ d.temp = seg[s].temp /\ d.on = seg[s].on
      /\ d.jitter <=> seg[s].jitter
      /\ d.muxer <=> seg[s].muxer
  <2> HIDE DEF d
  <2> QED BY <1>7
<1> HIDE DEF d, D, Like
<1> QED BY <1>1, <1>8, <1>9

LEMMA RollIInv ==
  ASSUME IInv, NEW s \in Sources, enabled[s], enabled' = enabled, base' = base,
         NEW m \in Msgs, Roll(s, m), sh_video' \in [Sources -> Int], next' \in Nat
  PROVE  IInv'
<1>1. IsOpen(seg[s]) /\ UNCHANGED <<base, seen>>
  BY RollCloses
<1>2. PICK d \in Segments, ok \in CloseOutcomes(seg[s]) :
        /\ Close(s, d, ok)
        /\ d.writer = "closed" /\ d.temp = seg[s].temp /\ d.on = seg[s].on
        /\ d.jitter <=> seg[s].jitter
        /\ d.muxer <=> seg[s].muxer
  BY RollCloses
<1>3. /\ enabled' \in [Sources -> BOOLEAN]
      /\ enabled[s] => enabled'[s]
      /\ \A u \in Sources : u # s => (enabled'[u] <=> enabled[u])
  BY DEF IInv, TypesOK
<1> QED BY <1>1, <1>2, <1>3, CloseIInv

-----------------------------------------------------------------------------
(***************************************************************************)
(* Writing.                                                                *)
(***************************************************************************)

\* The tests of WriteVideo, for the classes a source dispatches.
LEMMA KeyTests ==
  ASSUME NEW m \in Msgs
  PROVE  /\ IsKey(m) <=> m.cls = "avcKey"
         /\ IsVideoSeqenceHeader(m) <=> m.cls = "avcSH"
         /\ IsAudio(m) <=> m.type = "audio"
         /\ IsVideo(m) <=> m.type = "video"
         /\ m.type = "audio" <=> m.cls = "aacRaw"
<1>1. m.cls \in Classes
  BY DEF Msgs
<1>2. m.type = "audio" <=> m.cls = "aacRaw"
  BY DEF Msgs, MediaTypes
<1> QED BY <1>1, <1>2 DEF IsKey, IsKeyFrame, IsVideoSeqenceHeader, IsAudio, IsVideo, Classes

(***************************************************************************)
(* A message noted while the file is open, with what it came to there.     *)
(***************************************************************************)
LEMMA WriteCopies ==
  ASSUME TypesOK, NEW s \in Sources, Kept(s), seg[s].writer = "open",
         file[seg[s].on] \in Seq(Items), NEW m \in Msgs, NEW out \in Outs,
         seen' = [seen EXCEPT ![s] = Append(@, [id |-> m.id, cls |-> m.cls, out |-> out])],
         base'[s] = base[s], seg'[s].writer = "open", seg'[s].on = seg[s].on,
         seg'[s].keyframe <=> (seg[s].keyframe \/ m.cls = "avcKey"),
         NEW r \in Seq(Items), file'[seg[s].on] = file[seg[s].on] \o r,
         Wanted(seg[s], m) /\ out # "nothing" =>
           r = (IF out = "torn" THEN <<TornItem(m.id)>> ELSE <<Tag(m)>>),
         ~Wanted(seg[s], m) \/ out = "nothing" => r = <<>>
  PROVE  Kept(s)'
<1> DEFINE a == base[s]
<1>y. PICK y : y = [id |-> m.id, cls |-> m.cls, out |-> out]
  OBVIOUS
<1>q. PICK q : q = seen[s]
  OBVIOUS
<1>p. PICK p : p = seen'[s]
  OBVIOUS
<1>1. PICK g : Wants(g, q) /\ file[seg[s].on] = a \o g[Len(q)]
  BY <1>q DEF Kept
<1>2. PICK n : n = Len(q)
  OBVIOUS
<1>3. /\ q \in Seq(Noted) /\ a \in Seq(Items) /\ n \in Nat /\ g[n] \in Seq(Items)
      /\ y \in Noted /\ p = Append(q, y)
  <2>1. q \in Seq(Noted) /\ a \in Seq(Items)
    BY <1>q DEF TypesOK
  <2>2. n \in Nat /\ g[n] \in Seq(Items)
    BY <1>1, <1>2, <2>1, LenProperties DEF Wants
  <2>3. y \in Noted
    BY <1>y DEF Msgs, Noted
  <2>4. p = Append(q, y)
    BY <1>y, <1>q, <1>p DEF TypesOK
  <2> QED BY <2>1, <2>2, <2>3, <2>4
<1>4. y.id = m.id /\ y.cls = m.cls /\ y.out = out
  BY <1>y
<1>5. seg[s].keyframe <=> \E j \in 1 .. n : q[j].cls = "avcKey"
  BY <1>q, <1>2 DEF Kept, KeySeen
<1>6. /\ Len(p) = n + 1
      /\ \A i \in 1 .. n : p[i] = q[i]
      /\ p[n + 1] = y
      /\ WantsMore(g, n, p)
  <2>1. q \in Seq(Noted) /\ y \in Noted /\ Wants(g, q) /\ n = Len(q) /\ p = Append(q, y)
    BY <1>1, <1>2, <1>3
  <2>2. Len(p) = n + 1 /\ p[n + 1] = y
    BY ONLY <2>1, OneMore
  <2>3. WantsMore(g, n, p)
    BY ONLY <2>1, OneMore
  <2>4. \A i \in 1 .. n : p[i] = q[i]
    BY ONLY <2>1, OneMore
  <2> QED BY <2>2, <2>3, <2>4
<1>7. PICK h : Wants(h, p) /\ h[n + 1] = g[n] \o Recorded(p, n + 1)
  BY <1>6 DEF WantsMore
<1>8. (\E j \in 1 .. n + 1 : p[j].cls = "avcKey")
        <=> ((\E j \in 1 .. n : q[j].cls = "avcKey") \/ m.cls = "avcKey")
  <2>1. ASSUME NEW j \in 1 .. n + 1, p[j].cls = "avcKey"
        PROVE  (\E k \in 1 .. n : q[k].cls = "avcKey") \/ m.cls = "avcKey"
    <3>1. CASE j = n + 1
      BY <1>4, <1>6, <2>1, <3>1
    <3>2. CASE j # n + 1
      <4>1. j \in 1 .. n
        BY <1>3, <3>2
      <4> QED BY <1>6, <2>1, <4>1
    <3> QED BY <3>1, <3>2
  <2>2. ASSUME NEW j \in 1 .. n, q[j].cls = "avcKey"
        PROVE  \E k \in 1 .. n + 1 : p[k].cls = "avcKey"
    <3>1. j \in 1 .. n + 1
      BY <1>3
    <3> QED BY <1>6, <2>2, <3>1
  <2>3. ASSUME m.cls = "avcKey" PROVE \E k \in 1 .. n + 1 : p[k].cls = "avcKey"
    <3>1. n + 1 \in 1 .. n + 1
      BY <1>3
    <3> QED BY <1>4, <1>6, <2>3, <3>1
  <2> QED BY <2>1, <2>2, <2>3
<1>9. KeySeen(s)'
  BY <1>p, <1>5, <1>6, <1>8 DEF KeySeen
<1>10. Belongs(p, n + 1) <=> Wanted(seg[s], m)
  <2>1. Belongs(p, n + 1) <=> \/ m.cls \in AudioClasses \/ m.cls = "avcSH"
                              \/ \E j \in 1 .. n + 1 : p[j].cls = "avcKey"
    BY <1>4, <1>6 DEF Belongs
  <2>2. m.cls \in AudioClasses <=> m.type = "audio"
    BY KeyTests DEF AudioClasses, Msgs, Classes
  <2>3. Wanted(seg[s], m) <=> \/ m.type = "audio" \/ m.cls = "avcSH"
                              \/ seg[s].keyframe \/ m.cls = "avcKey"
    BY KeyTests DEF Wanted
  <2> QED BY <1>5, <1>8, <2>1, <2>2, <2>3
<1>11. Recorded(p, n + 1) = r
  <2>1. p[n + 1].id = m.id /\ p[n + 1].cls = m.cls /\ p[n + 1].out = out
    BY <1>4, <1>6
  <2>2. CASE Wanted(seg[s], m) /\ out # "nothing"
    BY <1>10, <2>1, <2>2 DEF Recorded, Tag
  <2>3. CASE ~Wanted(seg[s], m) \/ out = "nothing"
    BY <1>10, <2>1, <2>3 DEF Recorded
  <2> QED BY <2>2, <2>3
<1> HIDE DEF a
<1>12. (a \o g[n]) \o r = a \o (g[n] \o r)
  <2> DEFINE b == g[n]
  <2>1. a \in Seq(Items) /\ b \in Seq(Items) /\ r \in Seq(Items)
    BY <1>3
  <2> HIDE DEF b
  <2>2. (a \o b) \o r = a \o (b \o r)
    BY <2>1, ConcatAssociative
  <2> QED BY <2>2 DEF b
<1>13. file'[seg'[s].on] = a \o h[Len(p)]
  BY <1>1, <1>2, <1>6, <1>7, <1>11, <1>12
<1>14. file'[seg'[s].on] = base'[s] \o h[Len(seen'[s])] /\ Wants(h, seen'[s])
  BY <1>p, <1>7, <1>13 DEF a
<1>15. seg'[s].writer # "closed"
  OBVIOUS
<1> QED BY <1>9, <1>14, <1>15 DEF Kept

\* What a message adds to the file.
Due(s, m, out) ==
  CASE ~Wanted(seg[s], m) \/ out = "nothing" -> <<>>
    [] Wanted(seg[s], m) /\ out = "torn" -> <<TornItem(m.id)>>
    [] OTHER -> <<Tag(m)>>

\* The names that are there still are, and no second one has come.
FilesStay ==
  /\ file' \in Files
  /\ file'.tmp = Missing \/ file'.path = Missing
  /\ \A n \in Names : file[n] # Missing => file'[n] # Missing

\* What no write changes of a segment.
SameHandles(b, d) ==
  /\ b.writer = d.writer /\ b.temp = d.temp /\ b.on = d.on
  /\ b.jitter <=> d.jitter
  /\ b.muxer <=> d.muxer

\* What the file of t becomes disturbs no other Source, but for those that are disturbed then.
OthersKeep(t) ==
  \A u \in Sources \ disturbed' : u # t /\ IsOpen(seg[u]) =>
    /\ seg[u].writer = "open" => file'[seg[u].on] = file[seg[u].on]
    /\ \/ file'[seg[u].on] = file[seg[u].on]
       \/ /\ seg[u].writer = "closed"
          /\ \E x \in Items : file'[seg[u].on] = Append(file[seg[u].on], x)

(***************************************************************************)
(* A step in which t, if any Source, writes: what it means to the others   *)
(* is in the assumptions, which the kinds of writes fulfil.                *)
(***************************************************************************)
LEMMA WritesIInv ==
  ASSUME IInv, NEW t \in Sources,
         file' \in Files, file'.tmp = Missing \/ file'.path = Missing,
         \A n \in Names : file[n] # Missing => file'[n] # Missing,
         OthersKeep(t), seg' \in [Sources -> Segments],
         \A u \in Sources :
           /\ seg'[u].writer = seg[u].writer /\ seg'[u].temp = seg[u].temp
           /\ seg'[u].on = seg[u].on
           /\ u # t => seg'[u].at = seg[u].at
           /\ seg'[u].jitter <=> seg[u].jitter
           /\ seg'[u].muxer <=> seg[u].muxer
           /\ seg[u].writer # "closed" /\ u # t => (seg'[u].keyframe <=> seg[u].keyframe),
         IsOpen(seg[t]),
         t \notin disturbed' /\ seg[t].writer = "open" /\ seg[t].temp = "tmp" =>
           seg'[t].at = file'[seg[t].on],
         enabled[t] /\ t \notin disturbed' => Kept(t)',
         enabled[t] \/ seen'[t] = seen[t],
         \A u \in Sources : u # t => seen'[u] = seen[u],
         seen' \in [Sources -> Seq(Noted)], UNCHANGED <<enabled, base>>,
         disturbed \subseteq disturbed', disturbed' \in SUBSET Sources,
         sh_video' \in [Sources -> Int], next' \in Nat
  PROVE  IInv'
<1>1. \A u \in Sources : IsOpen(seg'[u]) <=> IsOpen(seg[u])
  BY DEF IsOpen
<1>2. TypesOK'
  BY DEF IInv, TypesOK
<1>3. Handles'
  <2>1. ASSUME NEW u \in Sources
        PROVE  /\ IsOpen(seg'[u]) => seg'[u].jitter /\ seg'[u].muxer
               /\ enabled'[u] => IsOpen(seg'[u])
               /\ seg'[u].writer = "null" => ~seg'[u].keyframe
    <3>1. /\ IsOpen(seg[u]) => seg[u].jitter /\ seg[u].muxer
          /\ enabled[u] => IsOpen(seg[u])
          /\ seg[u].writer = "null" => ~seg[u].keyframe
      BY DEF IInv, Handles
    <3>2. seg'[u].writer = "null" => u # t /\ seg[u].writer # "closed"
      BY DEF IsOpen
    <3> QED BY <1>1, <3>1, <3>2
  <2> QED BY <2>1 DEF Handles
<1>4. OnDisk'
  <2>1. ASSUME NEW u \in Sources, IsOpen(seg'[u])
        PROVE  seg'[u].on \in Names /\ file'[seg'[u].on] # Missing
    <3>1. seg[u].on \in Names /\ file[seg[u].on] # Missing
      BY <1>1, <2>1 DEF IInv, OnDisk
    <3> QED BY <3>1
  <2> QED BY <2>1 DEF OnDisk
<1>5. Apart'
  BY <1>1, StaysApart DEF IInv
<1>6. AtEnd'
  <2> SUFFICES ASSUME NEW u \in Sources, u \notin disturbed',
                      seg'[u].writer = "open", seg'[u].temp = "tmp"
               PROVE  seg'[u].at = file'[seg'[u].on]
    BY DEF AtEnd
  <2>1. CASE u = t
    BY <2>1
  <2>2. CASE u # t
    <3>1. seg[u].at = file[seg[u].on] /\ IsOpen(seg[u])
      BY DEF IInv, AtEnd, IsOpen
    <3> QED BY <2>2, <3>1 DEF OthersKeep
  <2> QED BY <2>1, <2>2
<1>7. Copied'
  <2> SUFFICES ASSUME NEW u \in Sources
               PROVE  /\ ~enabled'[u] => base'[u] = <<>> /\ seen'[u] = <<>>
                      /\ enabled'[u] /\ u \notin disturbed' => Kept(u)'
    BY DEF Copied
  <2>1. ~enabled[u] => base[u] = <<>> /\ seen[u] = <<>>
    BY DEF IInv, Copied
  <2>2. CASE u = t
    BY <2>1, <2>2
  <2>3. CASE u # t
    <3>1. ASSUME enabled[u], u \notin disturbed' PROVE Kept(u)'
      <4>1. Kept(u) /\ IsOpen(seg[u]) /\ TypesOK
        BY <3>1 DEF IInv, Copied, Handles
      <4>2. file[seg[u].on] \in Seq(Items)
        BY <4>1, OpenFiles
      <4>3. seg'[u].writer = "open" =>
              seg[u].writer = "open" /\ (seg'[u].keyframe <=> seg[u].keyframe)
        BY <2>3
      <4>4. \/ file'[seg'[u].on] = file[seg[u].on]
            \/ /\ seg'[u].writer = "closed"
               /\ \E x \in Items : file'[seg'[u].on] = Append(file[seg[u].on], x)
        <5>1. \/ file'[seg[u].on] = file[seg[u].on]
              \/ /\ seg[u].writer = "closed"
                 /\ \E x \in Items : file'[seg[u].on] = Append(file[seg[u].on], x)
          BY <2>3, <3>1, <4>1, Zenon DEF OthersKeep
        <5>2. seg'[u].on = seg[u].on /\ seg'[u].writer = seg[u].writer
          OBVIOUS
        <5> QED BY <5>1, <5>2
      <4>5. base'[u] = base[u] /\ seen'[u] = seen[u]
        BY <2>3
      <4> QED BY <4>1, <4>2, <4>3, <4>4, <4>5, StaysKept
    <3> QED BY <2>1, <2>3, <3>1
  <2> QED BY <2>2, <2>3
<1> QED BY <1>2, <1>3, <1>4, <1>5, <1>6, <1>7 DEF IInv

\* A message noted by s, of which r is added to its file.
LEMMA NotedIInv ==
  ASSUME IInv, NEW s \in Sources, enabled[s], seg[s].writer = "open",
         NEW m \in Msgs, NEW out \in Outs, Notes(s, m, out),
         NEW b \in Segments, seg' = [seg EXCEPT ![s] = b],
         SameHandles(b, seg[s]),
         b.keyframe <=> (seg[s].keyframe \/ m.cls = "avcKey"),
         FilesStay,
         OthersKeep(s),
         s \notin disturbed => file'[seg[s].on] = file[seg[s].on] \o Due(s, m, out),
         s \notin disturbed /\ seg[s].temp = "tmp" => b.at = file'[seg[s].on],
         UNCHANGED <<enabled, base, disturbed>>,
         sh_video' \in [Sources -> Int], next' \in Nat
  PROVE  IInv'
<1>1. TypesOK /\ IsOpen(seg[s])
  BY DEF IInv, IsOpen
<1>2. /\ seg' \in [Sources -> Segments] /\ seg'[s] = b
      /\ \A u \in Sources : u # s => seg'[u] = seg[u]
  BY <1>1 DEF TypesOK
<1>3. \A u \in Sources :
        /\ seg'[u].writer = seg[u].writer /\ seg'[u].temp = seg[u].temp
        /\ seg'[u].on = seg[u].on
        /\ u # s => seg'[u].at = seg[u].at
        /\ seg'[u].jitter <=> seg[u].jitter
        /\ seg'[u].muxer <=> seg[u].muxer
        /\ seg[u].writer # "closed" /\ u # s => (seg'[u].keyframe <=> seg[u].keyframe)
  BY <1>2 DEF SameHandles
<1>4. /\ seen' \in [Sources -> Seq(Noted)]
      /\ \A u \in Sources : u # s => seen'[u] = seen[u]
  <2> DEFINE y == [id |-> m.id, cls |-> m.cls, out |-> out]
  <2>1. y \in Noted
    BY DEF Msgs, Noted
  <2>2. seen' = seen \/ seen' = [seen EXCEPT ![s] = Append(seen[s], y)]
    BY DEF Notes
  <2> HIDE DEF y
  <2>3. Append(seen[s], y) \in Seq(Noted)
    BY <1>1, <2>1, AppendProperties DEF TypesOK
  <2> QED BY <1>1, <2>2, <2>3 DEF TypesOK
<1>5. s \notin disturbed' => Kept(s)'
  <2> SUFFICES ASSUME s \notin disturbed PROVE Kept(s)'
    OBVIOUS
  <2>1. seen' = [seen EXCEPT ![s] = Append(@, [id |-> m.id, cls |-> m.cls, out |-> out])]
    BY DEF Notes
  <2>2. Kept(s) /\ file[seg[s].on] \in Seq(Items)
    BY <1>1, OpenFiles DEF IInv, Copied
  <2>3. base'[s] = base[s]
    OBVIOUS
  <2>4. /\ seg'[s].writer = "open" /\ seg'[s].on = seg[s].on
        /\ seg'[s].keyframe <=> (seg[s].keyframe \/ m.cls = "avcKey")
    BY <1>2 DEF SameHandles
  <2>5. PICK r \in Seq(Items) : r = Due(s, m, out)
    <3>1. TornItem(m.id) \in Items /\ Tag(m) \in Items
      BY ItemTypes DEF Puts
    <3>2. <<>> \in Seq(Items) /\ <<TornItem(m.id)>> \in Seq(Items) /\ <<Tag(m)>> \in Seq(Items)
      BY <3>1
    <3> QED BY <3>2 DEF Due
  <2>6. /\ Wanted(seg[s], m) /\ out # "nothing" =>
             r = (IF out = "torn" THEN <<TornItem(m.id)>> ELSE <<Tag(m)>>)
        /\ ~Wanted(seg[s], m) \/ out = "nothing" => r = <<>>
        /\ file'[seg[s].on] = file[seg[s].on] \o r
    BY <2>5 DEF Due
  <2> QED BY <1>1, <2>1, <2>2, <2>3, <2>4, <2>6, WriteCopies
<1>6. /\ disturbed \subseteq disturbed' /\ disturbed' \in SUBSET Sources
  BY <1>1 DEF TypesOK
<1>7. s \notin disturbed' /\ seg[s].writer = "open" /\ seg[s].temp = "tmp" =>
        seg'[s].at = file'[seg[s].on]
  BY <1>2
<1> HIDE DEF Notes
<1> QED BY <1>1, <1>2, <1>3, <1>4, <1>5, <1>6, <1>7, WritesIInv DEF FilesStay

\* Nothing is written.
LEMMA NothingIInv ==
  ASSUME IInv, NEW s \in Sources, enabled[s], seg[s].writer = "open",
         NEW m \in Msgs, NEW out \in Outs, Notes(s, m, out),
         \/ seg' = seg /\ ~Wanted(seg[s], m)
         \/ seg' = [seg EXCEPT ![s] = AfterWrite(@, m, out)] /\ out = "nothing",
         UNCHANGED <<file, enabled, base, disturbed>>,
         sh_video' \in [Sources -> Int], next' \in Nat
  PROVE  IInv'
<1>1. TypesOK /\ IsOpen(seg[s]) /\ seg[s] \in Segments /\ m.ts \in Int
  BY DEF IInv, IsOpen, TypesOK, Msgs
<1>2. PICK b \in Segments :
        /\ seg' = [seg EXCEPT ![s] = b]
        /\ b.writer = "open" /\ b.temp = seg[s].temp /\ b.on = seg[s].on /\ b.at = seg[s].at
        /\ b.jitter <=> seg[s].jitter
        /\ b.muxer <=> seg[s].muxer
        /\ b.keyframe <=> (seg[s].keyframe \/ m.cls = "avcKey")
  <2>1. CASE seg' = seg /\ ~Wanted(seg[s], m)
    <3>1. m.cls # "avcKey"
      BY <2>1, KeyTests DEF Wanted
    <3>2. seg' = [seg EXCEPT ![s] = seg[s]]
      BY <1>1, <2>1 DEF TypesOK
    <3> QED BY <1>1, <3>1, <3>2
  <2>2. CASE seg' = [seg EXCEPT ![s] = AfterWrite(@, m, out)]
    <3> DEFINE a == AfterWrite(seg[s], m, out)
    <3>1. /\ a \in Segments /\ a.writer = "open"
          /\ a.temp = seg[s].temp /\ a.on = seg[s].on /\ a.at = seg[s].at
          /\ a.jitter <=> seg[s].jitter
          /\ a.muxer <=> seg[s].muxer
          /\ a.keyframe <=> (seg[s].keyframe \/ (IsVideo(m) /\ IsKey(m)))
      BY <1>1, WriteKeeps
    <3>2. IsVideo(m) /\ IsKey(m) <=> m.cls = "avcKey"
      BY KeyTests DEF Msgs
    <3>3. seg' = [seg EXCEPT ![s] = a]
      BY <2>2
    <3> HIDE DEF a
    <3> QED BY <3>1, <3>2, <3>3
  <2> QED BY <2>1, <2>2
<1>3. s \notin disturbed => file'[seg[s].on] = file[seg[s].on] \o Due(s, m, out)
  <2>1. file[seg[s].on] \in Seq(Items)
    BY <1>1, OpenFiles
  <2>2. Due(s, m, out) = <<>>
    BY DEF Due
  <2> QED BY <2>1, <2>2, ConcatEmptySeq
<1>4. FilesStay
  BY DEF IInv, TypesOK, OnDisk, FilesStay
<1>5. OthersKeep(s)
  BY DEF OthersKeep
<1>6. s \notin disturbed /\ seg[s].temp = "tmp" => b.at = file'[seg[s].on]
  BY <1>2 DEF IInv, AtEnd
<1>7. SameHandles(b, seg[s])
  BY <1>2 DEF SameHandles
<1> QED BY <1>2, <1>3, <1>4, <1>5, <1>6, <1>7, NotedIInv

\* A tag or a part of it is written.
LEMMA WrittenIInv ==
  ASSUME IInv, NEW s \in Sources, enabled[s], seg[s].writer = "open",
         NEW m \in Msgs, Wanted(seg[s], m), NEW x \in {Tag(m), TornItem(m.id)},
         NEW out, out = IF x = Tag(m) THEN "ok" ELSE "torn",
         seg' = [seg EXCEPT ![s] = MovedOn(AfterWrite(@, m, out), x)],
         file' = Put(seg[s], x), Notes(s, m, out),
         UNCHANGED <<enabled, base, disturbed>>,
         sh_video' \in [Sources -> Int], next' \in Nat
  PROVE  IInv'
<1>1. TypesOK /\ IsOpen(seg[s]) /\ seg[s] \in Segments /\ m.ts \in Int
  BY DEF IInv, IsOpen, TypesOK, Msgs
<1>2. x \in Puts /\ x \in Items /\ <<x>> \in Seq(Items) /\ out \in Outs
  <2>1. x \in Puts /\ out \in Outs
    BY ItemTypes DEF Outs
  <2> QED BY <2>1 DEF Puts
<1>3. PICK a : /\ a = AfterWrite(seg[s], m, out)
               /\ a \in Segments /\ a.writer = "open"
               /\ a.temp = seg[s].temp /\ a.on = seg[s].on /\ a.at = seg[s].at
               /\ a.jitter <=> seg[s].jitter
               /\ a.muxer <=> seg[s].muxer
               /\ a.keyframe <=> (seg[s].keyframe \/ (IsVideo(m) /\ IsKey(m)))
  BY <1>1, WriteKeeps
<1>4. PICK b \in Segments :
        /\ b = MovedOn(a, x) /\ b.writer = "open"
        /\ b.temp = seg[s].temp /\ b.on = seg[s].on /\ b.at = Append(seg[s].at, x)
        /\ b.jitter <=> seg[s].jitter
        /\ b.muxer <=> seg[s].muxer
        /\ b.keyframe <=> a.keyframe
  <2> DEFINE e == MovedOn(a, x)
  <2>1. /\ e \in Segments /\ e.writer = a.writer
        /\ e.temp = a.temp /\ e.on = a.on /\ e.at = Append(a.at, x)
        /\ e.jitter <=> a.jitter
        /\ e.muxer <=> a.muxer
        /\ e.keyframe <=> a.keyframe
    BY <1>2, <1>3, MovedOnKeeps
  <2>2. PICK b : b = e
    OBVIOUS
  <2> HIDE DEF e
  <2>3. /\ b \in Segments /\ b.writer = "open"
        /\ b.temp = seg[s].temp /\ b.on = seg[s].on /\ b.at = Append(seg[s].at, x)
        /\ b.jitter <=> seg[s].jitter
        /\ b.muxer <=> seg[s].muxer
        /\ b.keyframe <=> a.keyframe
    BY <1>3, <2>1, <2>2
  <2> QED BY <2>2, <2>3 DEF e
<1>5. seg' = [seg EXCEPT ![s] = b]
  BY <1>3, <1>4
<1>6. IsVideo(m) /\ IsKey(m) <=> m.cls = "avcKey"
  BY KeyTests DEF Msgs
<1>7. /\ file[seg[s].on] \in Seq(Items)
      /\ file' \in Files
      /\ file'.tmp = Missing \/ file'.path = Missing
      /\ \A n \in Names : file[n] # Missing => file'[n] # Missing
      /\ seg[s].temp = "path" \/ seg[s].at = file[seg[s].on] =>
           file'[seg[s].on] = Append(file[seg[s].on], x)
  BY <1>1, <1>2, PutFile
<1>8. s \notin disturbed => file'[seg[s].on] = Append(file[seg[s].on], x)
  <2>1. seg[s].temp \in Names
    BY <1>1 DEF Segments
  <2>2. s \notin disturbed /\ seg[s].temp = "tmp" => seg[s].at = file[seg[s].on]
    BY DEF IInv, AtEnd
  <2> QED BY <1>7, <2>1, <2>2 DEF Names
<1>9. s \notin disturbed => file'[seg[s].on] = file[seg[s].on] \o <<x>>
  BY <1>2, <1>7, <1>8, AppendIsConcat
<1>10. s \notin disturbed /\ seg[s].temp = "tmp" => b.at = file'[seg[s].on]
  BY <1>4, <1>8 DEF IInv, AtEnd
<1>11. OthersKeep(s)
  <2>1. seg[s].writer = "open" /\ disturbed' = disturbed
    OBVIOUS
  <2> QED BY <1>2, <2>1, PutOthers DEF OthersKeep
<1>12. b.keyframe <=> (seg[s].keyframe \/ m.cls = "avcKey")
  BY <1>3, <1>4, <1>6
<1>13. s \notin disturbed => file'[seg[s].on] = file[seg[s].on] \o Due(s, m, out)
  <2>1. Due(s, m, out) = <<x>>
    BY DEF Due
  <2> QED BY <1>9, <2>1
<1>14. SameHandles(b, seg[s])
  BY <1>4 DEF SameHandles
<1>15. FilesStay
  BY <1>7 DEF FilesStay
<1> QED BY <1>2, <1>5, <1>10, <1>11, <1>12, <1>13, <1>14, <1>15, NotedIInv

\* What goes through a closed handle is added to no file, or to that of another Source.
LEMMA WriteClosedIInv ==
  ASSUME IInv, NEW s \in Sources, enabled[s], NEW m \in Msgs, WriteClosed(s, m),
         UNCHANGED <<enabled, base>>, sh_video' \in [Sources -> Int], next' \in Nat
  PROVE  IInv'
<1>1. /\ TypesOK /\ IsOpen(seg[s]) /\ seg[s] \in Segments /\ m.ts \in Int
      /\ seg[s].writer = "closed" /\ seen' = seen
  BY DEF IInv, IsOpen, TypesOK, Msgs, WriteClosed
<1>2. ASSUME NEW out
      PROVE  LET a == AfterWrite(seg[s], m, out) IN
             a \in Segments /\ SameHandles(a, seg[s]) /\ a.at = seg[s].at
  BY <1>1, WriteKeeps DEF SameHandles
<1>3. CASE /\ \E out \in {"nothing", "stray"} : seg' = [seg EXCEPT ![s] = AfterWrite(@, m, out)]
           /\ UNCHANGED <<file, disturbed>>
  <2>1. PICK out : seg' = [seg EXCEPT ![s] = AfterWrite(seg[s], m, out)]
    BY <1>3
  <2>2. PICK a \in Segments :
          a = AfterWrite(seg[s], m, out) /\ SameHandles(a, seg[s]) /\ a.at = seg[s].at
    BY <1>2
  <2>3. /\ seg' \in [Sources -> Segments] /\ seg'[s] = a
        /\ \A u \in Sources : u # s => seg'[u] = seg[u]
    BY <1>1, <2>1, <2>2 DEF TypesOK
  <2>4. \A u \in Sources :
          /\ seg'[u].writer = seg[u].writer /\ seg'[u].temp = seg[u].temp
          /\ seg'[u].on = seg[u].on
          /\ u # s => seg'[u].at = seg[u].at
          /\ seg'[u].jitter <=> seg[u].jitter
          /\ seg'[u].muxer <=> seg[u].muxer
          /\ seg[u].writer # "closed" /\ u # s => (seg'[u].keyframe <=> seg[u].keyframe)
    BY <2>2, <2>3 DEF SameHandles
  <2>5. FilesStay /\ OthersKeep(s)
    BY <1>3 DEF IInv, TypesOK, OnDisk, FilesStay, OthersKeep
  <2>6. s \notin disturbed' => Kept(s)'
    <3> SUFFICES ASSUME s \notin disturbed PROVE Kept(s)'
      BY <1>3
    <3>1. Kept(s) /\ file[seg[s].on] \in Seq(Items)
      BY <1>1, OpenFiles DEF IInv, Copied
    <3>2. seg'[s].writer = "closed" /\ seg'[s].on = seg[s].on /\ file' = file
      BY <1>1, <1>3, <2>4
    <3>3. base'[s] = base[s] /\ seen'[s] = seen[s]
      BY <1>1
    <3> QED BY <1>1, <3>1, <3>2, <3>3, StaysKept
  <2>7. /\ seen' \in [Sources -> Seq(Noted)] /\ seen'[s] = seen[s]
        /\ \A u \in Sources : u # s => seen'[u] = seen[u]
        /\ disturbed \subseteq disturbed' /\ disturbed' \in SUBSET Sources
    BY <1>1, <1>3 DEF TypesOK
  <2> QED BY <1>1, <2>3, <2>4, <2>5, <2>6, <2>7, WritesIInv DEF FilesStay
<1>4. CASE \E t \in Reusing(s) :
             /\ seg' = [seg EXCEPT ![s] = AfterWrite(@, m, "stray"), ![t] = MovedOn(@, Tag(m))]
             /\ file' = Put(seg[t], Tag(m))
             /\ disturbed' = disturbed \cup {t}
  <2>1. PICK t \in Reusing(s) :
          /\ seg' = [seg EXCEPT ![s] = AfterWrite(@, m, "stray"), ![t] = MovedOn(@, Tag(m))]
          /\ file' = Put(seg[t], Tag(m))
          /\ disturbed' = disturbed \cup {t}
    BY <1>4
  <2>2. t \in Sources /\ seg[t].writer = "open" /\ IsOpen(seg[t]) /\ t # s /\ seg[t] \in Segments
    BY <1>1 DEF Reusing, IsOpen, TypesOK
  <2>3. Tag(m) \in Puts /\ Tag(m) \in Items
    BY ItemTypes DEF Puts
  <2>4. PICK a \in Segments :
          a = AfterWrite(seg[s], m, "stray") /\ SameHandles(a, seg[s]) /\ a.at = seg[s].at
    BY <1>2
  <2>5. PICK b \in Segments :
          /\ b = MovedOn(seg[t], Tag(m)) /\ SameHandles(b, seg[t])
          /\ b.keyframe <=> seg[t].keyframe
    <3> DEFINE e == MovedOn(seg[t], Tag(m))
    <3>1. /\ e \in Segments /\ e.writer = seg[t].writer
          /\ e.temp = seg[t].temp /\ e.on = seg[t].on
          /\ e.jitter <=> seg[t].jitter
          /\ e.muxer <=> seg[t].muxer
          /\ e.keyframe <=> seg[t].keyframe
      BY <2>2, <2>3, MovedOnKeeps
    <3> HIDE DEF e
    <3>2. e \in Segments /\ SameHandles(e, seg[t]) /\ (e.keyframe <=> seg[t].keyframe)
      BY <3>1 DEF SameHandles
    <3> QED BY <3>2 DEF e
  <2>6. /\ seg' \in [Sources -> Segments] /\ seg'[s] = a /\ seg'[t] = b
        /\ \A u \in Sources : u # s /\ u # t => seg'[u] = seg[u]
    <3>1. seg' = [seg EXCEPT ![s] = a, ![t] = b]
      BY <2>1, <2>2, <2>4, <2>5
    <3> QED BY <1>1, <2>2, <3>1 DEF TypesOK
  <2>7. \A u \in Sources :
          /\ seg'[u].writer = seg[u].writer /\ seg'[u].temp = seg[u].temp
          /\ seg'[u].on = seg[u].on
          /\ u # t => seg'[u].at = seg[u].at
          /\ seg'[u].jitter <=> seg[u].jitter
          /\ seg'[u].muxer <=> seg[u].muxer
          /\ seg[u].writer # "closed" /\ u # t => (seg'[u].keyframe <=> seg[u].keyframe)
    <3> SUFFICES ASSUME NEW u \in Sources
                 PROVE  /\ SameHandles(seg'[u], seg[u])
                        /\ u # t => seg'[u].at = seg[u].at
                        /\ seg[u].writer # "closed" /\ u # t =>
                             (seg'[u].keyframe <=> seg[u].keyframe)
      BY DEF SameHandles
    <3>1. CASE u = s
      BY <1>1, <2>4, <2>6, <3>1
    <3>2. CASE u = t
      BY <2>5, <2>6, <3>2
    <3>3. CASE u # s /\ u # t
      BY <2>6, <3>3 DEF SameHandles
    <3> QED BY <3>1, <3>2, <3>3
  <2>8. FilesStay
    BY <2>1, <2>2, <2>3, PutFile DEF FilesStay
  <2>9. OthersKeep(t)
    <3>1. \A u \in Sources \ disturbed' : u \in Sources \ disturbed
      BY <2>1
    <3> QED BY <2>1, <2>2, <2>3, <3>1, PutOthers DEF OthersKeep
  <2>10. /\ t \in disturbed'
         /\ disturbed \subseteq disturbed' /\ disturbed' \in SUBSET Sources
         /\ seen' \in [Sources -> Seq(Noted)] /\ seen'[t] = seen[t]
         /\ \A u \in Sources : u # t => seen'[u] = seen[u]
    BY <1>1, <2>1, <2>2 DEF TypesOK
  <2> QED BY <2>2, <2>6, <2>7, <2>8, <2>9, <2>10, WritesIInv DEF FilesStay
<1> QED BY <1>3, <1>4 DEF WriteClosed

LEMMA WriteIInv ==
  ASSUME IInv, NEW s \in Sources, enabled[s], NEW m \in Msgs, Write(s, m),
         UNCHANGED <<enabled, base>>, sh_video' \in [Sources -> Int], next' \in Nat
  PROVE  IInv'
<1>1. CASE WriteClosed(s, m)
  BY <1>1, WriteClosedIInv
<1>2. CASE Wanted(seg[s], m) /\ WriteOpen(s, m)
  <2>1. seg[s].writer = "open" /\ UNCHANGED disturbed
    BY <1>2 DEF WriteOpen
  <2>2. ASSUME NEW x \in {Tag(m), TornItem(m.id)},
               LET out == IF x = Tag(m) THEN "ok" ELSE "torn" IN
                 /\ seg' = [seg EXCEPT ![s] = MovedOn(AfterWrite(@, m, out), x)]
                 /\ file' = Put(seg[s], x)
                 /\ Notes(s, m, out)
        PROVE  IInv'
    BY <1>2, <2>1, <2>2, WrittenIInv
  <2>3. ASSUME seg' = [seg EXCEPT ![s] = AfterWrite(@, m, "nothing")],
               Notes(s, m, "nothing"), UNCHANGED file
        PROVE  IInv'
    <3>1. "nothing" \in Outs
      BY DEF Outs
    <3> QED BY <2>1, <2>3, <3>1, NothingIInv
  <2> QED BY <1>2, <2>2, <2>3 DEF WriteOpen
<1>3. CASE /\ ~Wanted(seg[s], m) /\ Notes(s, m, "unwanted")
           /\ UNCHANGED <<seg, file, disturbed, faults>>
  <2>1. CASE seg[s].writer = "open"
    <3>1. "unwanted" \in Outs
      BY DEF Outs
    <3> QED BY <1>3, <2>1, <3>1, NothingIInv
  <2>2. CASE seg[s].writer # "open"
    <3>1. seen' = seen
      BY <1>3, <2>2 DEF Notes
    <3>2. TypesOK' /\ Handles' /\ OnDisk'
      BY <1>3, <3>1 DEF IInv, TypesOK, Handles, OnDisk
    <3>3. Apart' /\ AtEnd'
      BY <1>3 DEF IInv, Apart, AtEnd
    <3>4. \A u \in Sources : Kept(u) <=> Kept(u)'
      BY <1>3, <3>1 DEF Kept, KeySeen
    <3>5. Copied'
      BY <1>3, <3>1, <3>4 DEF IInv, Copied
    <3> QED BY <3>2, <3>3, <3>5 DEF IInv
  <2> QED BY <2>1, <2>2
<1> QED BY <1>1, <1>2, <1>3 DEF Write

\* What is written while no Source is disturbed goes to the end of a file.
LEMMA WritesEnd ==
  ASSUME IInv, disturbed' = {}, NEW s \in Sources, NEW m \in Msgs, Write(s, m)
  PROVE  file'.path = file.path \/ \E x \in Items : file'.path = Append(file.path, x)
<1>1. CASE file' = file
  BY <1>1
<1>2. CASE \E t \in Sources : /\ file' = Put(seg[t], Tag(m)) /\ disturbed' = disturbed \cup {t}
  BY <1>2
<1>3. ASSUME NEW x \in {Tag(m), TornItem(m.id)}, seg[s].writer = "open",
             file' = Put(seg[s], x), disturbed' = disturbed
      PROVE  file'.path = file.path \/ \E y \in Items : file'.path = Append(file.path, y)
  <2>1. x \in Puts /\ x \in Items /\ IsOpen(seg[s])
    BY <1>3, ItemTypes DEF Puts, IsOpen
  <2>2. seg[s].temp = "path" \/ seg[s].at = file[seg[s].on]
    <3>1. seg[s].temp \in Names
      BY DEF IInv, TypesOK, Segments
    <3> QED BY <1>3, <3>1 DEF IInv, AtEnd, Names
  <2>3. /\ file'[seg[s].on] = Append(file[seg[s].on], x)
        /\ \A n \in Names : n # seg[s].on => file'[n] = file[n]
    BY <1>3, <2>1, <2>2, PutFile
  <2>4. CASE seg[s].on = "path"
    BY <2>1, <2>3, <2>4
  <2>5. CASE seg[s].on # "path"
    <3>1. file'["path"] = file["path"]
      BY <2>3, <2>5 DEF Names
    <3> QED BY <3>1
  <2> QED BY <2>4, <2>5
<1>4. CASE WriteClosed(s, m)
  <2>1. \A t \in Reusing(s) : t \in Sources
    BY DEF Reusing
  <2> QED BY <1>1, <1>2, <1>4, <2>1 DEF WriteClosed
<1>5. CASE WriteOpen(s, m)
  BY <1>1, <1>3, <1>5 DEF WriteOpen
<1>6. CASE UNCHANGED <<seg, file, disturbed, faults>>
  BY <1>1, <1>6
<1> QED BY <1>4, <1>5, <1>6 DEF Write

\* What Dispatch gives the plan.
LEMMA DispatchCases ==
  ASSUME IInv, NEW s \in Sources, Dispatch(s)
  PROVE  /\ enabled[s] /\ UNCHANGED <<enabled, base>>
         /\ sh_video' \in [Sources -> Int] /\ next' \in Nat
         /\ \E m \in Msgs : Roll(s, m) \/ Write(s, m)
<1>1. /\ enabled[s] /\ UNCHANGED <<enabled, base>> /\ next' = next + 1 /\ next \in Nat
      /\ sh_video \in [Sources -> Int]
  BY DEF Dispatch, IInv, TypesOK
<1>2. PICK cls \in {"avcSH", "avcKey", "avcInter", "aacRaw"}, ts \in Times :
        LET m == [id |-> next, cls |-> cls, ts |-> ts,
                  type |-> IF cls \in AudioClasses THEN "audio" ELSE "video"]
        IN  /\ sh_video' = IF IsVideo(m) /\ IsVideoSeqenceHeader(m)
                           THEN [sh_video EXCEPT ![s] = ts] ELSE sh_video
            /\ IF Rolls(s, m) THEN Roll(s, m) ELSE Write(s, m)
  BY DEF Dispatch
<1> DEFINE m == [id |-> next, cls |-> cls, ts |-> ts,
                 type |-> IF cls \in AudioClasses THEN "audio" ELSE "video"]
<1>3. m \in Msgs
  <2>1. ts \in Nat
    BY DvrAssumption
  <2>2. (IF cls \in AudioClasses THEN "audio" ELSE "video") \in MediaTypes
    BY DEF MediaTypes
  <2>3. m \in [id : Nat, cls : Classes, ts : Nat, type : MediaTypes]
    BY <1>1, <2>1, <2>2 DEF Classes
  <2>4. m.type = "video" <=> m.cls # "aacRaw"
    BY DEF AudioClasses
  <2> QED BY <2>3, <2>4 DEF Msgs
<1>4. Roll(s, m) \/ Write(s, m)
  BY <1>2
<1>5. sh_video' \in [Sources -> Int]
  <2>1. ts \in Int
    BY DvrAssumption
  <2>2. sh_video' = sh_video \/ sh_video' = [sh_video EXCEPT ![s] = ts]
    BY <1>2
  <2> QED BY <1>1, <2>1, <2>2
<1> HIDE DEF m
<1> QED BY <1>1, <1>3, <1>4, <1>5

LEMMA NextIInv == IInv /\ [Next]_vars => IInv'
<1> SUFFICES ASSUME IInv, [Next]_vars PROVE IInv'
  OBVIOUS
<1>1. ASSUME NEW s \in Sources, Dispatch(s) PROVE IInv'
  <2>1. PICK m \in Msgs : Roll(s, m) \/ Write(s, m)
    BY <1>1, DispatchCases
  <2>2. /\ enabled[s] /\ UNCHANGED <<enabled, base>>
        /\ sh_video' \in [Sources -> Int] /\ next' \in Nat
    BY <1>1, DispatchCases
  <2> QED BY <2>1, <2>2, RollIInv, WriteIInv
<1>2. CASE UNCHANGED vars
  BY <1>2, StutterIInv DEF vars, sourceVars
<1> QED BY <1>1, <1>2, OnPublishIInv, RestartIInv DEF Next
-----------------------------------------------------------------------------
(***************************************************************************)
(* HandlesPresent: through every failing open, close and write, OnAudio    *)
(* and OnVideo find the jitter and the muxer they use.                     *)
(***************************************************************************)
THEOREM DvrHandlesPresent == Spec => []HandlesPresent
<1>1. IInv => HandlesPresent
  BY DEF IInv, HandlesPresent, Handles
<1> QED BY <1>1, InitIInv, NextIInv, PTL DEF Spec

(***************************************************************************)
(* RecordingExact: a Source that has its file to itself records every      *)
(* message up to its first roll, and loses none of that to later steps of  *)
(* any Source, for any number of Sources, messages, failures and restarts. *)
(***************************************************************************)
THEOREM DvrRecordingExact == Spec => []RecordingExact
<1>1. IInv => RecordingExact
  <2> SUFFICES ASSUME IInv, NEW s \in Sources, s \notin disturbed, enabled[s]
               PROVE  /\ seg[s].writer = "open" => file[seg[s].on] = Recording(s)
                      /\ seg[s].writer = "closed" => StartsWith(file[seg[s].on], Recording(s))
    BY DEF RecordingExact
  <2>1. PICK g : /\ Wants(g, seen[s])
                 /\ seg[s].writer = "open" => file[seg[s].on] = base[s] \o g[Len(seen[s])]
                 /\ seg[s].writer = "closed" =>
                      StartsWith(file[seg[s].on], base[s] \o g[Len(seen[s])])
    BY DEF IInv, Copied, Kept
  <2>2. seen[s] \in Seq(Noted)
    BY DEF IInv, TypesOK
  <2> DEFINE want[i \in 0 .. Len(seen[s])] ==
               IF i = 0 THEN <<>> ELSE want[i - 1] \o Recorded(seen[s], i)
  <2>3. want[Len(seen[s])] = g[Len(seen[s])]
    BY <2>1, <2>2, WantsIsWant, Zenon
  <2>4. Recording(s) = base[s] \o want[Len(seen[s])]
    BY Zenon DEF Recording
  <2> HIDE DEF want
  <2> QED BY <2>1, <2>3, <2>4
<1> QED BY <1>1, InitIInv, NextIInv, PTL DEF Spec

(***************************************************************************)
(* FinalGrowsOnly: while no two Sources have met in a file since the       *)
(* process was started, no step of the DVR, and no restart, loses or       *)
(* changes what a file with its final name holds.                          *)
(***************************************************************************)
THEOREM DvrFinalGrowsOnly == Spec => FinalGrowsOnly
<1> DEFINE Grows == file.path # Missing /\ disturbed' = {} => StartsWith(file'.path, file.path)
<1>1. IInv /\ [Next]_vars => [Grows]_vars
  <2> SUFFICES ASSUME IInv, Next, file.path # Missing, disturbed' = {}
               PROVE  StartsWith(file'.path, file.path)
    OBVIOUS
  <2>1. file \in Files /\ file.path \in Seq(Items)
    BY DEF IInv, TypesOK, Files
  <2>2. CASE file'.path = file.path
    BY <2>1, <2>2, StartsWithSelf
  <2>3. ASSUME NEW s \in Sources, IsOpen(seg[s]), NEW d \in Segments,
               d.writer = "closed", d.temp = seg[s].temp, d.on = seg[s].on,
               NEW ok \in CloseOutcomes(seg[s]), Close(s, d, ok)
        PROVE  file'.path = file.path
    BY <2>3, CloseFiles
  <2>4. ASSUME NEW s \in Sources, OnPublish(s) PROVE StartsWith(file'.path, file.path)
    <3>1. CASE enabled[s] /\ UNCHANGED file
      BY <3>1, <2>2
    <3>2. CASE Open(s)
      <4>1. file'.path = file.path
        BY <2>1, <3>2 DEF Open, CreateDirFails, FileOpenFails, FlvHeaderFails, Succeeds,
                          NameOpened, Files
      <4> QED BY <4>1, <2>2
    <3>3. CASE /\ IsOpen(seg[s])
               /\ \E ok \in CloseOutcomes(seg[s]) : Close(s, Closed(seg[s]), ok)
      <4>1. seg[s] \in Segments
        BY DEF IInv, TypesOK
      <4>2. /\ Closed(seg[s]) \in Segments /\ Closed(seg[s]).writer = "closed"
            /\ Closed(seg[s]).temp = seg[s].temp /\ Closed(seg[s]).on = seg[s].on
        BY <4>1, ClosedKeeps
      <4> QED BY <3>3, <4>2, <2>2, <2>3
    <3> QED BY <2>4, <3>1, <3>2, <3>3 DEF OnPublish
  <2>5. ASSUME NEW s \in Sources, Dispatch(s) PROVE StartsWith(file'.path, file.path)
    <3>1. PICK m \in Msgs : enabled[s] /\ (Roll(s, m) \/ Write(s, m))
      BY <2>5, DispatchCases
    <3>2. CASE Roll(s, m)
      <4>1. PICK d \in Segments, ok \in CloseOutcomes(seg[s]) :
              Close(s, d, ok) /\ d.writer = "closed" /\ d.temp = seg[s].temp /\ d.on = seg[s].on
        BY <3>1, <3>2, RollCloses
      <4>2. IsOpen(seg[s])
        BY <3>1, <3>2, RollCloses
      <4> QED BY <4>1, <4>2, <2>2, <2>3
    <3>3. CASE Write(s, m)
      <4>1. file'.path = file.path \/ \E x \in Items : file'.path = Append(file.path, x)
        BY <3>3, WritesEnd
      <4>2. ASSUME NEW x \in Items, file'.path = Append(file.path, x)
            PROVE  StartsWith(file'.path, file.path)
        <5>1. StartsWith(file.path, file.path)
          BY <2>1, StartsWithSelf
        <5> QED BY <2>1, <4>2, <5>1, StartsWithAppend
      <4> QED BY <4>1, <4>2, <2>2
    <3> QED BY <3>1, <3>2, <3>3
  <2>6. CASE Restart
    BY <2>6, <2>2 DEF Restart
  <2> QED BY <2>4, <2>5, <2>6 DEF Next
<1> QED BY <1>1, InitIInv, NextIInv, PTL DEF Spec, FinalGrowsOnly
=============================================================================
