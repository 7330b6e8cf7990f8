---------------------------- MODULE SenderProofs ----------------------------
(***************************************************************************)
(* The loop of DoSendMessages never writes beyond its two arrays; both     *)
(* ends agree on the chunk size; and the sending half implements Channel.  *)
(***************************************************************************)
EXTENDS Sender, SequenceTheorems, WellFoundedInduction, TLAPS

\* The iovecs are a sequence, made of pairs, in an array that has an even number of places.
IovsOK ==
  /\ \E S : iovs \in Seq(S)
  /\ Len(iovs) % 2 = 0
  /\ nb_iovs \in Nat /\ nb_iovs % 2 = 0 /\ nb_iovs >= IovsMax

CacheOK == c0c3 \in Nat

IInv == IovsOK /\ CacheOK /\ CachesFit

\* Adding a chunk adds its two iovecs, and a sequence stays one.
LEMMA TwoMore ==
  ASSUME NEW s, NEW a, NEW b, \E S : s \in Seq(S)
  PROVE  /\ \E S : s \o <<a, b>> \in Seq(S)
         /\ Len(s \o <<a, b>>) = Len(s) + 2
         /\ Len(s) \in Nat
<1>1. PICK S : s \in Seq(S)
  OBVIOUS
<1> DEFINE T == S \cup {a, b}
<1>2. s \in Seq(T) /\ Len(s) \in Nat
  <2>1. Len(s) \in Nat /\ s \in [1 .. Len(s) -> S]
    BY <1>1
  <2>2. s \in [1 .. Len(s) -> T]
    BY <2>1
  <2> QED BY <2>1, <2>2
<1>3. <<a, b>> \in Seq(T) /\ Len(<<a, b>>) = 2
  OBVIOUS
<1> HIDE DEF T
<1>4. s \o <<a, b>> \in Seq(T) /\ Len(s \o <<a, b>>) = Len(s) + 2
  BY <1>2, <1>3
<1> QED BY <1>2, <1>4

\* A header takes between one and HeaderMax bytes.
LEMMA HeaderBytes == ASSUME NEW h PROVE Bytes(h) \in 1 .. HeaderMax
BY DEF Bytes, HeaderMax

\* Places are used in pairs, so that an array of even size is never full by half a pair.
LEMMA EvenGrowth ==
  ASSUME NEW n \in Nat, NEW nb \in Nat, NEW step \in Nat,
         n % 2 = 0, nb % 2 = 0, step % 2 = 0, step >= 2, n + 2 <= nb
  PROVE  LET g == IF n >= nb - 2 THEN nb + step ELSE nb
         IN  g \in Nat /\ g % 2 = 0 /\ g >= nb /\ n + 4 <= g
<1>1. CASE n >= nb - 2
  <2>1. (nb + step) % 2 = 0
    OBVIOUS
  <2> QED BY <1>1, <2>1
<1>2. CASE n < nb - 2
  <2>1. nb # n + 3
    OBVIOUS
  <2> QED BY <1>2, <2>1
<1> QED BY <1>1, <1>2

\* The test of CacheFull, as a bound on what is used.
LEMMA RoomLeft ==
  ASSUME NEW used \in Nat, NEW size \in Nat, NEW need \in Nat, ~(size - used < need)
  PROVE  used + need <= size
OBVIOUS

\* No call has begun: both arrays are empty.
LEMMA InitIInv == Init => IInv
<1> SUFFICES ASSUME Init PROVE IInv
  OBVIOUS
<1>1. iovs = <<>> /\ c0c3 = 0 /\ nb_iovs = IovsMax /\ call = "idle"
  BY DEF Init
<1>2. iovs \in Seq({}) /\ Len(iovs) = 0
  BY <1>1
<1> QED BY <1>1, <1>2, SenderAssumption DEF IInv, IovsOK, CacheOK, CachesFit

\* A batch starts with empty arrays, and so does the loop after a flush.
LEMMA EmptyFits ==
  ASSUME IInv, iovs' = <<>>, c0c3' = 0, nb_iovs' = nb_iovs
  PROVE  IInv'
<1>1. iovs' \in Seq({}) /\ Len(iovs') = 0
  OBVIOUS
<1> QED BY <1>1, SenderAssumption DEF IInv, IovsOK, CacheOK, CachesFit, HeaderMax

\* One turn of the loop.
LEMMA LoopFits == ASSUME IInv, DoSendMessages PROVE IInv'
<1>1. PICK h, v, w :
        /\ iovs' = iovs \o <<v, w>>
        /\ c0c3' = c0c3 + Bytes(h)
        /\ nb_iovs' = Grown
        /\ call' = "batch" => ~CacheFull(c0c3')
  BY DEF DoSendMessages
<1>2. /\ \E S : iovs' \in Seq(S)
      /\ Len(iovs') = Len(iovs) + 2
      /\ Len(iovs) \in Nat
  BY <1>1, TwoMore DEF IInv, IovsOK
<1>3. /\ Len(iovs) + 2 <= nb_iovs
      /\ Len(iovs) % 2 = 0 /\ nb_iovs \in Nat /\ nb_iovs % 2 = 0 /\ nb_iovs >= IovsMax
  BY DEF IInv, IovsOK, CachesFit, DoSendMessages
<1>4. IovsOK' /\ Len(iovs') + 2 <= nb_iovs'
  <2>1. IovsMax \in Nat /\ IovsMax >= 2 /\ IovsMax % 2 = 0
    BY SenderAssumption
  <2> DEFINE n == Len(iovs)
  <2>2. n \in Nat /\ n % 2 = 0 /\ n + 2 <= nb_iovs /\ Len(iovs') = n + 2
    BY <1>2, <1>3
  <2>3. nb_iovs' = IF n >= nb_iovs - 2 THEN nb_iovs + IovsMax ELSE nb_iovs
    BY <1>1 DEF Grown
  <2> HIDE DEF n
  <2>4. nb_iovs' \in Nat /\ nb_iovs' % 2 = 0 /\ nb_iovs' >= nb_iovs /\ n + 4 <= nb_iovs'
    BY <1>3, <2>1, <2>2, <2>3, EvenGrowth
  <2>5. nb_iovs' >= IovsMax /\ Len(iovs') % 2 = 0 /\ Len(iovs') + 2 <= nb_iovs'
    BY <1>3, <2>1, <2>2, <2>4
  <2>6. \E S : iovs' \in Seq(S)
    BY <1>2
  <2> QED BY <2>4, <2>5, <2>6 DEF IovsOK
<1>5. c0c3' \in Nat /\ (call' = "batch" => c0c3' + HeaderMax <= CacheMax)
  <2>1. c0c3' \in Nat
    <3>1. Bytes(h) \in Nat
      BY HeaderBytes DEF HeaderMax
    <3>2. c0c3 \in Nat /\ c0c3' = c0c3 + Bytes(h)
      BY <1>1 DEF IInv, CacheOK
    <3> QED BY <3>1, <3>2
  <2>2. ASSUME call' = "batch" PROVE c0c3' + HeaderMax <= CacheMax
    <3>1. ~(CacheMax - c0c3' < HeaderMax)
      BY <1>1, <2>2 DEF CacheFull
    <3>2. CacheMax \in Nat /\ HeaderMax \in Nat
      BY SenderAssumption DEF HeaderMax
    <3> QED BY <2>1, <3>1, <3>2, RoomLeft
  <2> QED BY <2>1, <2>2
<1> QED BY <1>4, <1>5 DEF IInv, CacheOK, CachesFit

\* Every step keeps the invariant; only three actions touch the arrays.
LEMMA NextIInv == IInv /\ [Next]_vars => IInv'
<1> SUFFICES ASSUME IInv, [Next]_vars PROVE IInv'
  OBVIOUS
<1> USE DEF cacheVars
<1>1. CASE \E m \in Packets : SendAndFreePacket(m)
  BY <1>1 DEF SendAndFreePacket, IInv, IovsOK, CacheOK, CachesFit
<1>2. CASE \E batch \in Batches : SendAndFreeMessage(batch)
  BY <1>2, EmptyFits DEF SendAndFreeMessage
<1>3. CASE DoSimpleSend
  <2>1. iovs' = iovs /\ c0c3' = c0c3 /\ nb_iovs' = nb_iovs /\ call' # "batch"
    BY <1>3 DEF DoSimpleSend
  <2> QED BY <2>1 DEF IInv, IovsOK, CacheOK, CachesFit
<1>4. CASE DoSendMessages
  BY <1>4, LoopFits
<1>5. CASE SendLargeIovs
  <2>1. CASE iovs' = <<>> /\ c0c3' = 0
    BY <1>5, <2>1, EmptyFits DEF SendLargeIovs
  <2>2. CASE iovs' = iovs /\ c0c3' = c0c3 /\ call' = call
    BY <1>5, <2>2 DEF SendLargeIovs, IInv, IovsOK, CacheOK, CachesFit
  <2> QED BY <1>5, <2>1, <2>2 DEF SendLargeIovs
<1>6. CASE ClientReads
  BY <1>6 DEF ClientReads, IInv, IovsOK, CacheOK, CachesFit
<1>7. CASE UNCHANGED vars
  BY <1>7 DEF vars, IInv, IovsOK, CacheOK, CachesFit
<1> QED BY <1>1, <1>2, <1>3, <1>4, <1>5, <1>6, <1>7 DEF Next

(***************************************************************************)
(* For every size of the header cache that holds one header and every even *)
(* step by which the iovecs grow, whatever the messages, batches and chunk *)
(* sizes: where DoSendMessages writes a header and two iovecs, they fit.   *)
(***************************************************************************)
THEOREM SendCachesFit == Spec => []CachesFit
<1>1. IInv => CachesFit
  BY DEF IInv
<1> QED BY <1>1, InitIInv, NextIInv, PTL DEF Spec
-----------------------------------------------------------------------------
\* A sequence of anything.
IsSeq(s) == \E S : s \in Seq(S)

LEMMA SeqJoin ==
  ASSUME NEW s, NEW t, IsSeq(s), IsSeq(t)
  PROVE  /\ IsSeq(s \o t)
         /\ Len(s) \in Nat /\ Len(t) \in Nat /\ Len(s \o t) = Len(s) + Len(t)
         /\ \A i \in 1 .. Len(s) + Len(t) :
              (s \o t)[i] = IF i <= Len(s) THEN s[i] ELSE t[i - Len(s)]
<1>1. PICK S : s \in Seq(S)
  BY DEF IsSeq
<1>2. PICK T : t \in Seq(T)
  BY DEF IsSeq
<1> DEFINE U == S \cup T
<1>3. s \in Seq(U) /\ t \in Seq(U)
  <2>1. S \subseteq U /\ T \subseteq U
    OBVIOUS
  <2> HIDE DEF U
  <2> QED BY <1>1, <1>2, <2>1, SeqMonotonic
<1> HIDE DEF U
<1>4. /\ s \o t \in Seq(U)
      /\ Len(s \o t) = Len(s) + Len(t)
      /\ \A i \in 1 .. Len(s) + Len(t) : (s \o t)[i] = IF i <= Len(s) THEN s[i] ELSE t[i - Len(s)]
  BY <1>3, ConcatProperties
<1>5. Len(s) \in Nat /\ Len(t) \in Nat
  BY <1>3, LenProperties
<1> QED BY <1>4, <1>5 DEF IsSeq

LEMMA SeqPart ==
  ASSUME NEW s, IsSeq(s), NEW m \in Nat, NEW n \in Nat, 1 <= m, n <= Len(s)
  PROVE  /\ IsSeq(SubSeq(s, m, n))
         /\ Len(SubSeq(s, m, n)) = IF m <= n THEN n - m + 1 ELSE 0
         /\ \A i \in 1 .. n - m + 1 : SubSeq(s, m, n)[i] = s[m + i - 1]
<1>1. PICK S : s \in Seq(S)
  BY DEF IsSeq
<1>2. \A i \in m .. n : s[i] \in S
  BY <1>1, ElementOfSeq, LenProperties
<1>3. /\ SubSeq(s, m, n) \in Seq(S)
      /\ Len(SubSeq(s, m, n)) = IF m <= n THEN n - m + 1 ELSE 0
      /\ \A i \in 1 .. n - m + 1 : SubSeq(s, m, n)[i] = s[m + i - 1]
  <2>1. m \in Int /\ n \in Int
    OBVIOUS
  <2> QED BY <1>2, <2>1, SubSeqProperties
<1> QED BY <1>3 DEF IsSeq

LEMMA SeqOf ==
  ASSUME NEW n \in Nat, NEW f, f = [i \in 1 .. n |-> f[i]]
  PROVE  IsSeq(f) /\ Len(f) = n
<1> DEFINE S == {f[i] : i \in 1 .. n}
<1>1. f \in [1 .. n -> S]
  OBVIOUS
<1> HIDE DEF S
<1>2. f \in Seq(S) /\ Len(f) = n
  BY <1>1
<1> QED BY <1>2 DEF IsSeq
-----------------------------------------------------------------------------
(***************************************************************************)
(* A place between two chunks of the stream of messages H: off units of    *)
(* the k-th message are behind it, and size is the chunk size there.       *)
(***************************************************************************)
Places == [k : Nat \ {0}, off : Nat, size : Nat \ {0}]

Inside(H, x) == x.k <= Len(H) + 1 /\ (x.off # 0 => x.k <= Len(H) /\ x.off < H[x.k].len)

HeaderAt(H, x) == IF x.off = 0 THEN chunk_header_c0(H[x.k]) ELSE chunk_header_c3(H[x.k])

PartAt(H, x) == Smaller(x.size, H[x.k].len - x.off)

After(H, x) ==
  IF x.off + PartAt(H, x) >= H[x.k].len
  THEN [k |-> x.k + 1, off |-> 0, size |-> IF H[x.k].size # 0 THEN H[x.k].size ELSE x.size]
  ELSE [k |-> x.k, off |-> x.off + PartAt(H, x), size |-> x.size]

\* Items a and b are the chunk that goes from place x to place y.
Chunk(H, x, y, a, b) ==
  /\ x.k <= Len(H) /\ y = After(H, x)
  /\ a.header = HeaderAt(H, x) /\ b.n = PartAt(H, x)

\* The first n chunks of the stream s go from place p[0] to place p[n].
Path(H, s, n, p) ==
  /\ \A j \in 0 .. n : p[j] \in Places /\ Inside(H, p[j])
  /\ \A j \in 1 .. n : Chunk(H, p[j - 1], p[j], s[2 * j - 1], s[2 * j])

SafeMsg(m) == m.cid % 64 >= 2 /\ (m.time < ExtendedTimestamp => m.time % (Escape + 1) # Escape)

\* A client c that has put g messages together is at place x.
Meets(H, g, c, x) ==
  /\ x.k = g + 1 /\ x.size = c.size
  /\ IF x.off = 0 THEN c.left = 0
     ELSE /\ c.left = H[x.k].len - x.off
          /\ SafeMsg(H[x.k]) /\ c.msg = Begins(chunk_header_c0(H[x.k]))

(***************************************************************************)
(* The stream s of length total is made of whole chunks from where the     *)
(* client is, up to place e as long as nothing has failed, and maybe of a  *)
(* header without its payload after that.                                  *)
(***************************************************************************)
Flow(H, s, total, state, g, c, e) ==
  \E n \in Nat : \E p :
    /\ Path(H, s, n, p)
    /\ Meets(H, g, c, p[0])
    /\ 2 * n <= total /\ total <= 2 * n + 1
    /\ state = "up" => total = 2 * n /\ p[n] = e

Handed(H) == H \in Seq(Messages) /\ \A i \in 1 .. Len(H) : H[i].len > 0

\* A chunk has some payload, and no more than the message has left.
LEMMA ChunkMoves ==
  ASSUME NEW H, Handed(H), NEW x \in Places, Inside(H, x), x.k <= Len(H)
  PROVE  /\ H[x.k] \in Messages
         /\ PartAt(H, x) \in Nat /\ PartAt(H, x) > 0 /\ PartAt(H, x) <= H[x.k].len - x.off
         /\ x.off < H[x.k].len
         /\ After(H, x) \in Places /\ Inside(H, After(H, x))
<1>1. Len(H) \in Nat /\ x.k \in 1 .. Len(H) /\ x.off \in Nat /\ x.size \in Nat \ {0}
  BY LenProperties DEF Handed, Places
<1>2. H[x.k] \in Messages /\ H[x.k].len > 0
  BY <1>1 DEF Handed
<1>3. H[x.k].len \in Nat /\ H[x.k].size \in Nat
  BY <1>2 DEF Messages
<1>4. x.off < H[x.k].len
  BY <1>1, <1>2, <1>3 DEF Inside
<1>5. PartAt(H, x) \in Nat /\ PartAt(H, x) > 0 /\ PartAt(H, x) <= H[x.k].len - x.off
  BY <1>1, <1>3, <1>4 DEF PartAt, Smaller
<1>6. After(H, x) \in Places /\ Inside(H, After(H, x))
  <2> DEFINE part == PartAt(H, x)
  <2>0. part \in Nat /\ part > 0
    BY <1>5
  <2>1. CASE x.off + PartAt(H, x) >= H[x.k].len
    BY <1>1, <1>3, <2>1 DEF After, Places, Inside
  <2>2. CASE ~(x.off + PartAt(H, x) >= H[x.k].len)
    <3>1. After(H, x) = [k |-> x.k, off |-> x.off + part, size |-> x.size]
      BY <2>2 DEF After
    <3>2. x.off + part < H[x.k].len
      BY <1>1, <1>3, <2>0, <2>2
    <3> HIDE DEF part
    <3> QED BY <1>1, <1>3, <2>0, <3>1, <3>2 DEF Places, Inside
  <2> QED BY <2>1, <2>2
<1> QED BY <1>2, <1>4, <1>5, <1>6

\* Handing over more messages, or looking at the same items in another place, changes nothing.
LEMMA FlowKept ==
  ASSUME NEW H, Handed(H), NEW K, Handed(K), NEW s, NEW t, NEW total \in Nat, NEW state,
         NEW g, NEW c, NEW e, Flow(H, s, total, state, g, c, e),
         Len(H) <= Len(K), \A i \in 1 .. Len(H) : K[i] = H[i],
         \A i \in 1 .. total : t[i] = s[i]
  PROVE  Flow(K, t, total, state, g, c, e)
<1>0. PICK n \in Nat : \E p :
        /\ Path(H, s, n, p) /\ Meets(H, g, c, p[0])
        /\ 2 * n <= total /\ total <= 2 * n + 1
        /\ state = "up" => total = 2 * n /\ p[n] = e
  BY DEF Flow
<1>1. PICK p :
        /\ Path(H, s, n, p) /\ Meets(H, g, c, p[0])
        /\ 2 * n <= total /\ total <= 2 * n + 1
        /\ state = "up" => total = 2 * n /\ p[n] = e
  BY <1>0
<1>2. Len(H) \in Nat /\ Len(K) \in Nat
  BY LenProperties DEF Handed
<1>3. ASSUME NEW j \in 0 .. n PROVE p[j] \in Places /\ Inside(K, p[j])
  <2>1. p[j] \in Places /\ Inside(H, p[j])
    BY <1>1 DEF Path
  <2> QED BY <1>2, <2>1 DEF Inside, Places
<1>4. ASSUME NEW j \in 1 .. n PROVE Chunk(K, p[j - 1], p[j], t[2 * j - 1], t[2 * j])
  <2>0. j - 1 \in 0 .. n
    OBVIOUS
  <2>1. Chunk(H, p[j - 1], p[j], s[2 * j - 1], s[2 * j]) /\ p[j - 1] \in Places
    BY <1>1, <2>0 DEF Path
  <2>2. 2 * j - 1 \in 1 .. total /\ 2 * j \in 1 .. total
    BY <1>1
  <2>3. t[2 * j - 1] = s[2 * j - 1] /\ t[2 * j] = s[2 * j]
    BY <2>2
  <2>4. p[j - 1].k \in 1 .. Len(H) /\ K[p[j - 1].k] = H[p[j - 1].k]
    BY <1>2, <2>1 DEF Chunk, Places
  <2> QED BY <1>2, <2>1, <2>3, <2>4 DEF Chunk, After, PartAt, HeaderAt
<1>5. Meets(K, g, c, p[0])
  <2>1. p[0] \in Places /\ Inside(H, p[0])
    BY <1>1 DEF Path
  <2>2. p[0].off # 0 => p[0].k \in 1 .. Len(H) /\ K[p[0].k] = H[p[0].k]
    BY <1>2, <2>1 DEF Inside, Places
  <2> QED BY <1>1, <2>2 DEF Meets
<1>6. Path(K, t, n, p)
  BY <1>3, <1>4 DEF Path
<1> QED BY <1>1, <1>5, <1>6 DEF Flow

\* One chunk more is written or gathered.
LEMMA FlowChunk ==
  ASSUME NEW H, Handed(H), NEW s, NEW t, NEW total \in Nat, NEW g, NEW c, NEW e,
         Flow(H, s, total, "up", g, c, e), e.k <= Len(H),
         \A i \in 1 .. total : t[i] = s[i],
         t[total + 1].header = HeaderAt(H, e), t[total + 2].n = PartAt(H, e)
  PROVE  Flow(H, t, total + 2, "up", g, c, After(H, e))
<1>0. PICK n \in Nat : \E p :
        /\ Path(H, s, n, p) /\ Meets(H, g, c, p[0])
        /\ total = 2 * n /\ p[n] = e
  BY DEF Flow
<1>1. PICK p :
        /\ Path(H, s, n, p) /\ Meets(H, g, c, p[0])
        /\ total = 2 * n /\ p[n] = e
  BY <1>0
<1> DEFINE q == [j \in 0 .. n + 1 |-> IF j <= n THEN p[j] ELSE After(H, e)]
<1>2. e \in Places /\ Inside(H, e)
  BY <1>1 DEF Path
<1>3. After(H, e) \in Places /\ Inside(H, After(H, e))
  BY <1>2, ChunkMoves
<1>4. /\ \A j \in 0 .. n : q[j] = p[j]
      /\ q[n + 1] = After(H, e) /\ q[0] = p[0]
  OBVIOUS
<1> HIDE DEF q
<1>5. ASSUME NEW j \in 0 .. n + 1 PROVE q[j] \in Places /\ Inside(H, q[j])
  <2>1. CASE j = n + 1
    BY <1>3, <1>4, <2>1
  <2>2. CASE j # n + 1
    <3>1. j \in 0 .. n
      BY <2>2
    <3> QED BY <1>1, <1>4, <3>1 DEF Path
  <2> QED BY <2>1, <2>2
<1>6. ASSUME NEW j \in 1 .. n + 1 PROVE Chunk(H, q[j - 1], q[j], t[2 * j - 1], t[2 * j])
  <2>1. CASE j = n + 1
    <3>1. 2 * j - 1 = total + 1 /\ 2 * j = total + 2 /\ j - 1 = n
      BY <1>1, <2>1
    <3>2. q[j - 1] = e /\ q[j] = After(H, e)
      BY <1>1, <1>4, <2>1, <3>1
    <3> QED BY <3>1, <3>2 DEF Chunk
  <2>2. CASE j # n + 1
    <3>1. j \in 1 .. n /\ j - 1 \in 0 .. n /\ j \in 0 .. n
      BY <2>2
    <3>2. Chunk(H, p[j - 1], p[j], s[2 * j - 1], s[2 * j])
      BY <1>1, <3>1 DEF Path
    <3>3. 2 * j - 1 \in 1 .. total /\ 2 * j \in 1 .. total
      BY <1>1, <3>1
    <3>4. t[2 * j - 1] = s[2 * j - 1] /\ t[2 * j] = s[2 * j]
      BY <3>3
    <3>5. q[j - 1] = p[j - 1] /\ q[j] = p[j]
      BY <1>4, <3>1
    <3> QED BY <3>2, <3>4, <3>5
  <2> QED BY <2>1, <2>2
<1>7. Path(H, t, n + 1, q)
  BY <1>5, <1>6 DEF Path
<1>8. total + 2 = 2 * (n + 1) /\ n + 1 \in Nat
  BY <1>1
<1>9. Meets(H, g, c, q[0])
  BY <1>1, <1>4
<1>10. \E m \in Nat : \E r :
         /\ Path(H, t, m, r) /\ Meets(H, g, c, r[0])
         /\ 2 * m <= total + 2 /\ total + 2 <= 2 * m + 1
         /\ total + 2 = 2 * m /\ r[m] = After(H, e)
  BY <1>4, <1>7, <1>8, <1>9
<1> QED BY <1>10 DEF Flow

\* A write fails: a part of the stream remains, and maybe half a chunk more.
LEMMA FlowCut ==
  ASSUME NEW H, NEW s, NEW t, NEW total \in Nat, NEW left \in Nat, NEW g, NEW c, NEW e, NEW d,
         Flow(H, s, total, "up", g, c, e), left <= total + 1,
         \A i \in 1 .. total : i <= left => t[i] = s[i]
  PROVE  Flow(H, t, left, "down", g, c, d)
<1>0. PICK n \in Nat : \E p :
        /\ Path(H, s, n, p) /\ Meets(H, g, c, p[0])
        /\ total = 2 * n /\ p[n] = e
  BY DEF Flow
<1>1. PICK p :
        /\ Path(H, s, n, p) /\ Meets(H, g, c, p[0])
        /\ total = 2 * n /\ p[n] = e
  BY <1>0
<1>2. PICK m \in Nat : m <= n /\ 2 * m <= left /\ left <= 2 * m + 1
  <2> DEFINE h == left \div 2
  <2>1. h \in Nat /\ 2 * h <= left /\ left <= 2 * h + 1
    OBVIOUS
  <2> HIDE DEF h
  <2>2. h <= n
    BY <1>1, <2>1
  <2> QED BY <2>1, <2>2
<1>3. ASSUME NEW j \in 1 .. m PROVE Chunk(H, p[j - 1], p[j], t[2 * j - 1], t[2 * j])
  <2>1. j \in 1 .. n /\ 2 * j - 1 \in 1 .. total /\ 2 * j \in 1 .. total
        /\ 2 * j - 1 <= left /\ 2 * j <= left
    BY <1>1, <1>2
  <2>2. Chunk(H, p[j - 1], p[j], s[2 * j - 1], s[2 * j])
    BY <1>1, <2>1 DEF Path
  <2>3. t[2 * j - 1] = s[2 * j - 1] /\ t[2 * j] = s[2 * j]
    BY <2>1
  <2> QED BY <2>2, <2>3
<1>4. \A j \in 0 .. m : p[j] \in Places /\ Inside(H, p[j])
  BY <1>1, <1>2 DEF Path
<1>5. Path(H, t, m, p)
  BY <1>3, <1>4 DEF Path
<1> QED BY <1>1, <1>2, <1>5 DEF Flow

\* The client reads one chunk.
LEMMA FlowRead ==
  ASSUME NEW H, NEW s, NEW total \in Nat, NEW state, NEW g, NEW c, NEW e,
         Flow(H, s, total, state, g, c, e), total >= 2
  PROVE  \E x \in Places : \E y :
           /\ Inside(H, x) /\ Meets(H, g, c, x) /\ Chunk(H, x, y, s[1], s[2])
           /\ \A t, i, d :
                (\A j \in 1 .. total - 2 : t[j] = s[j + 2]) /\ Meets(H, i, d, y)
                  => Flow(H, t, total - 2, state, i, d, e)
<1>0. PICK n \in Nat : \E p :
        /\ Path(H, s, n, p) /\ Meets(H, g, c, p[0])
        /\ 2 * n <= total /\ total <= 2 * n + 1
        /\ state = "up" => total = 2 * n /\ p[n] = e
  BY DEF Flow
<1>1. PICK p :
        /\ Path(H, s, n, p) /\ Meets(H, g, c, p[0])
        /\ 2 * n <= total /\ total <= 2 * n + 1
        /\ state = "up" => total = 2 * n /\ p[n] = e
  BY <1>0
<1>2. n - 1 \in Nat /\ 1 \in 1 .. n
  BY <1>1
<1>3. Chunk(H, p[0], p[1], s[1], s[2])
  <2>1. Chunk(H, p[1 - 1], p[1], s[2 * 1 - 1], s[2 * 1])
    BY <1>1, <1>2 DEF Path
  <2> QED BY <2>1
<1>4. p[0] \in Places /\ Inside(H, p[0])
  BY <1>1 DEF Path
<1>5. ASSUME NEW t, NEW i, NEW d, \A j \in 1 .. total - 2 : t[j] = s[j + 2], Meets(H, i, d, p[1])
      PROVE  Flow(H, t, total - 2, state, i, d, e)
  <2> DEFINE m == n - 1
             q == [j \in 0 .. m |-> p[j + 1]]
  <2>1. m \in Nat /\ n = m + 1 /\ 2 * m <= total - 2 /\ total - 2 <= 2 * m + 1
    BY <1>1, <1>2
  <2> HIDE DEF m
  <2>2. q[0] = p[1] /\ q[m] = p[n] /\ \A j \in 0 .. m : q[j] = p[j + 1]
    BY <2>1
  <2> HIDE DEF q
  <2>3. \A j \in 0 .. m : q[j] \in Places /\ Inside(H, q[j])
    <3> SUFFICES ASSUME NEW j \in 0 .. m PROVE q[j] \in Places /\ Inside(H, q[j])
      OBVIOUS
    <3>1. j + 1 \in 0 .. n
      BY <2>1
    <3> QED BY <1>1, <2>2, <3>1 DEF Path
  <2>4. ASSUME NEW j \in 1 .. m PROVE Chunk(H, q[j - 1], q[j], t[2 * j - 1], t[2 * j])
    <3>1. j + 1 \in 1 .. n /\ j - 1 \in 0 .. m /\ j \in 0 .. m
      BY <2>1
    <3>2. Chunk(H, p[(j + 1) - 1], p[j + 1], s[2 * (j + 1) - 1], s[2 * (j + 1)])
      BY <1>1, <3>1 DEF Path
    <3>3. q[j - 1] = p[(j + 1) - 1] /\ q[j] = p[j + 1]
      BY <2>2, <3>1
    <3>4. 2 * j - 1 \in 1 .. total - 2 /\ 2 * j \in 1 .. total - 2
      BY <2>1
    <3>5. t[2 * j - 1] = s[2 * j - 1 + 2] /\ t[2 * j] = s[2 * j + 2]
      BY <1>5, <3>4
    <3>6. 2 * j - 1 + 2 = 2 * (j + 1) - 1 /\ 2 * j + 2 = 2 * (j + 1)
      OBVIOUS
    <3> QED BY <3>2, <3>3, <3>5, <3>6
  <2>5. Path(H, t, m, q)
    BY <2>3, <2>4 DEF Path
  <2>6. Meets(H, i, d, q[0])
    BY <1>5, <2>2
  <2>7. state = "up" => total - 2 = 2 * m /\ q[m] = e
    BY <1>1, <2>1, <2>2
  <2> QED BY <2>1, <2>5, <2>6, <2>7 DEF Flow
<1> QED BY <1>1, <1>3, <1>4, <1>5
-----------------------------------------------------------------------------
(***************************************************************************)
(* The client at the beginning of a message: it takes the chunk if the     *)
(* message is safe, and loses its place if not.                            *)
(***************************************************************************)
Takes(c, h, n) ==
  /\ h.fmt \in {0, 3} /\ h.cid \in 2 .. 63
  /\ h.fmt = 0 => c.left = 0 /\ (h.ext <=> h.field = Escape) /\ n = Smaller(c.size, h.len)
  /\ h.fmt = 3 => /\ c.left > 0 /\ h.cid = c.msg.cid
                  /\ (h.ext <=> c.msg.field = Escape) /\ n = Smaller(c.size, c.left)

LEMMA TimeAnnounced ==
  ASSUME NEW m \in Messages
  PROVE  /\ m.cid % 64 \in 0 .. 63
         /\ SafeMsg(m) <=> m.cid % 64 \in 2 .. 63 /\ (IsExtended(m) <=> Field(m) = Escape)
<1>1. m.cid \in Nat /\ m.time \in Nat
  BY DEF Messages
<1>2. m.cid % 64 \in 0 .. 63
  BY <1>1
<1>3. IsExtended(m) <=> ~(m.time < ExtendedTimestamp)
  BY <1>1, SenderAssumption DEF IsExtended
<1>4. CASE IsExtended(m)
  BY <1>2, <1>3, <1>4 DEF SafeMsg, Field
<1>5. CASE ~IsExtended(m)
  BY <1>2, <1>3, <1>5 DEF SafeMsg, Field
<1> QED BY <1>2, <1>4, <1>5

LEMMA ClientTakes ==
  ASSUME NEW H, Handed(H), NEW x \in Places, Inside(H, x), x.k <= Len(H), NEW g \in Nat,
         NEW c, Meets(H, g, c, x)
  PROVE  LET m == H[x.k]
             h == HeaderAt(H, x)
             n == PartAt(H, x)
             b == IF h.fmt = 0 THEN Begins(h) ELSE c.msg
             left == (IF h.fmt = 0 THEN h.len ELSE c.left) - n
             d == [size |-> IF left = 0 /\ b.size # 0 THEN b.size ELSE c.size,
                   msg |-> b, left |-> left]
             i == IF left = 0 THEN g + 1 ELSE g
         IN  /\ Takes(c, h, n) <=> SafeMsg(m)
             /\ Takes(c, h, n) =>
                  /\ b = Begins(chunk_header_c0(m))
                  /\ Meets(H, i, d, After(H, x))
<1> DEFINE m == H[x.k]
           h == HeaderAt(H, x)
           n == PartAt(H, x)
           b == IF h.fmt = 0 THEN Begins(h) ELSE c.msg
           left == (IF h.fmt = 0 THEN h.len ELSE c.left) - n
           d == [size |-> IF left = 0 /\ b.size # 0 THEN b.size ELSE c.size,
                 msg |-> b, left |-> left]
           i == IF left = 0 THEN g + 1 ELSE g
<1>1. /\ m \in Messages /\ n \in Nat /\ n > 0 /\ n <= m.len - x.off /\ x.off < m.len
      /\ x.k \in Nat /\ x.off \in Nat /\ x.size \in Nat /\ m.len \in Nat /\ m.size \in Nat
  BY ChunkMoves DEF Places, Messages
<1>2. /\ x.k = g + 1 /\ x.size = c.size
      /\ x.off = 0 => c.left = 0
      /\ x.off # 0 => /\ c.left = m.len - x.off
                      /\ SafeMsg(m) /\ c.msg = Begins(chunk_header_c0(m))
  BY DEF Meets
<1>3. n = Smaller(x.size, m.len - x.off)
  BY DEF PartAt
<1>4. /\ m.cid % 64 \in 0 .. 63
      /\ SafeMsg(m) <=> m.cid % 64 \in 2 .. 63 /\ (IsExtended(m) <=> Field(m) = Escape)
  BY <1>1, TimeAnnounced
<1>5. After(H, x) = IF x.off + n >= m.len
                    THEN [k |-> x.k + 1, off |-> 0, size |-> IF m.size # 0 THEN m.size ELSE x.size]
                    ELSE [k |-> x.k, off |-> x.off + n, size |-> x.size]
  BY DEF After
<1>6. /\ h.cid = m.cid % 64 /\ (h.ext <=> IsExtended(m))
      /\ x.off = 0 => h = chunk_header_c0(m) /\ h.fmt = 0 /\ h.field = Field(m) /\ h.len = m.len
      /\ x.off # 0 => h.fmt = 3
  BY DEF HeaderAt, chunk_header_c0, chunk_header_c3
<1>7. LET f == Begins(chunk_header_c0(m)) IN f.cid = m.cid % 64 /\ f.field = Field(m) /\ f.size = m.size
  BY DEF Begins, chunk_header_c0
<1> HIDE DEF m, h, n
<1>8. Takes(c, h, n) <=> SafeMsg(m)
  <2>1. CASE x.off = 0
    <3>1. n = Smaller(c.size, h.len)
      BY <1>1, <1>2, <1>3, <1>6, <2>1
    <3> QED BY <1>2, <1>4, <1>6, <2>1, <3>1 DEF Takes
  <2>2. CASE x.off # 0
    <3>1. c.left > 0 /\ n = Smaller(c.size, c.left)
      BY <1>1, <1>2, <1>3, <2>2
    <3>2. h.fmt = 3 /\ h.cid = c.msg.cid /\ c.msg.field = Field(m) /\ SafeMsg(m)
      BY <1>2, <1>6, <1>7, <2>2
    <3> QED BY <1>4, <1>6, <3>1, <3>2 DEF Takes
  <2> QED BY <2>1, <2>2
<1>9. b = Begins(chunk_header_c0(m))
  BY <1>2, <1>6
<1>10. left = m.len - x.off - n /\ left \in Nat
  BY <1>1, <1>2, <1>6
<1>11. b.size = m.size
  BY <1>7, <1>9
<1>12. ASSUME SafeMsg(m) PROVE Meets(H, i, d, After(H, x))
  <2>1. CASE left = 0
    <3>1. After(H, x) = [k |-> x.k + 1, off |-> 0, size |-> IF m.size # 0 THEN m.size ELSE x.size]
      BY <1>1, <1>5, <1>10, <2>1
    <3>2. i = g + 1 /\ d.size = (IF m.size # 0 THEN m.size ELSE c.size) /\ d.left = 0
      BY <1>11, <2>1
    <3> QED BY <1>2, <3>1, <3>2 DEF Meets
  <2>2. CASE left # 0
    <3>1. After(H, x) = [k |-> x.k, off |-> x.off + n, size |-> x.size] /\ x.off + n # 0
      BY <1>1, <1>5, <1>10, <2>2
    <3>2. i = g /\ d.size = c.size /\ d.left = m.len - (x.off + n) /\ d.msg = b
      BY <1>1, <1>10, <2>2
    <3> QED BY <1>2, <1>9, <1>12, <3>1, <3>2 DEF Meets, m
  <2> QED BY <2>1, <2>2
<1> QED BY <1>8, <1>9, <1>12 DEF m, h, n

\* What the client has put together of a safe message is how the wire can carry it.
LEMMA DeliveredIsView ==
  ASSUME NEW m \in Messages, SafeMsg(m)
  PROVE  Delivered(Begins(chunk_header_c0(m))) = View(m)
<1> DEFINE f == Begins(chunk_header_c0(m))
<1>1. /\ f.cid = m.cid % 64 /\ f.sid = m.sid /\ f.len = m.len
      /\ f.time = IF IsExtended(m) THEN m.time ELSE Field(m)
  BY DEF Begins, chunk_header_c0
<1>2. f.time = IF m.time < ExtendedTimestamp THEN m.time % (Escape + 1) ELSE m.time
  <2>1. m.time \in Nat /\ ExtendedTimestamp \in Nat
    BY SenderAssumption DEF Messages
  <2> QED BY <1>1, <2>1 DEF IsExtended, Field
<1>3. View(m) = [cid |-> m.cid % 64, sid |-> m.sid, len |-> m.len,
                 time |-> IF m.time < ExtendedTimestamp THEN m.time % (Escape + 1) ELSE m.time,
                 safe |-> TRUE]
  <2>1. (m.cid % 64 >= 2 /\ (m.time < ExtendedTimestamp => m.time % (Escape + 1) # Escape)) = TRUE
    BY Zenon DEF SafeMsg
  <2> QED BY <2>1, Zenon DEF View
<1>4. Delivered(f) = [cid |-> f.cid, time |-> f.time, sid |-> f.sid, len |-> f.len, safe |-> TRUE]
  BY DEF Delivered
<1> HIDE DEF f
<1>5. Delivered(f) = View(m)
  BY <1>1, <1>2, <1>3, <1>4
<1> QED BY <1>5 DEF f
-----------------------------------------------------------------------------
\* Induction, as a fact about sets of numbers.
LEMMA SetInduction ==
  ASSUME NEW T \in SUBSET Nat, 0 \in T, \A n \in T : n + 1 \in T
  PROVE  T = Nat
<1> SUFFICES ASSUME Nat \ T # {} PROVE FALSE
  OBVIOUS
<1>1. IsWellFoundedOn({ss \in Nat \X Nat : ss[1] < ss[2]}, Nat)
  BY NatLessThanWellFounded DEF OpToRel
<1>2. PICK x \in Nat \ T : \A y \in Nat \ T : ~(<<y, x>> \in {ss \in Nat \X Nat : ss[1] < ss[2]})
  BY <1>1, WFMin
<1>3. ASSUME NEW y \in Nat \ T PROVE x <= y
  <2>1. ~(y < x)
    BY <1>2
  <2> QED BY <2>1
<1>4. x # 0 /\ x - 1 \in Nat /\ x - 1 \in T
  BY <1>3
<1> QED BY <1>4

\* w[i] is what NotEmpty has kept of the first i messages of s.
Keeps(w, s, n) ==
  w = [i \in 0 .. n |->
        IF i = 0 THEN <<>>
        ELSE IF s[i].len > 0 THEN Append(w[i - 1], s[i]) ELSE w[i - 1]]

LEMMA KeepsExists == ASSUME NEW s, NEW n \in Nat PROVE \E w : Keeps(w, s, n)
<1> DEFINE T == {k \in Nat : \E w : Keeps(w, s, k)}
<1>1. 0 \in T
  <2> DEFINE w == [i \in 0 .. 0 |-> <<>>]
  <2>1. Keeps(w, s, 0)
    BY DEF Keeps
  <2> QED BY <2>1
<1>2. ASSUME NEW k \in T PROVE k + 1 \in T
  <2>1. PICK w : Keeps(w, s, k)
    OBVIOUS
  <2> DEFINE next == IF s[k + 1].len > 0 THEN Append(w[k], s[k + 1]) ELSE w[k]
             v == [i \in 0 .. k + 1 |-> IF i <= k THEN w[i] ELSE next]
  <2>2. k \in Nat
    OBVIOUS
  <2>3. \A i \in 0 .. k : v[i] = w[i]
    BY <2>2
  <2>4. v[k + 1] = next
    BY <2>2
  <2>5. \A i \in 0 .. k : w[i] =
          IF i = 0 THEN <<>> ELSE IF s[i].len > 0 THEN Append(w[i - 1], s[i]) ELSE w[i - 1]
    BY <2>1 DEF Keeps
  <2>6. v = [i \in 0 .. k + 1 |-> v[i]]
    OBVIOUS
  <2> HIDE DEF v
  <2>7. ASSUME NEW i \in 0 .. k + 1
        PROVE  v[i] = IF i = 0 THEN <<>>
                      ELSE IF s[i].len > 0 THEN Append(v[i - 1], s[i]) ELSE v[i - 1]
    <3>1. CASE i = k + 1
      <4>1. i # 0 /\ i - 1 = k /\ k \in 0 .. k
        BY <2>2, <3>1
      <4>2. v[i - 1] = w[k]
        BY <2>3, <4>1
      <4> QED BY <2>4, <3>1, <4>1, <4>2
    <3>2. CASE i # k + 1
      <4>1. i \in 0 .. k /\ (i # 0 => i - 1 \in 0 .. k)
        BY <2>2, <3>2
      <4> QED BY <2>3, <2>5, <4>1
    <3> QED BY <3>1, <3>2
  <2>8. Keeps(v, s, k + 1)
    <3> HIDE DEF next
    <3> QED BY <2>6, <2>7, Zenon DEF Keeps
  <2> QED BY <2>2, <2>8
<1>3. T = Nat
  <2>1. T \in SUBSET Nat
    OBVIOUS
  <2> HIDE DEF T
  <2> QED BY <1>1, <1>2, <2>1, SetInduction
<1> QED BY <1>3

\* NotEmpty leaves messages that have a payload, and no others than it was given.
LEMMA NotEmptyKept ==
  ASSUME NEW M, NEW s \in Seq(M)
  PROVE  NotEmpty(s) \in Seq({m \in M : m.len > 0})
<1> DEFINE n == Len(s)
           K == {m \in M : m.len > 0}
           kept[i \in 0 .. n] ==
             IF i = 0 THEN <<>>
             ELSE IF s[i].len > 0 THEN Append(kept[i - 1], s[i]) ELSE kept[i - 1]
<1>0. n \in Nat
  BY LenProperties
<1>1. NotEmpty(s) = kept[n]
  BY Zenon DEF NotEmpty
<1>2. kept = CHOOSE w : w = [i \in 0 .. n |->
               IF i = 0 THEN <<>> ELSE IF s[i].len > 0 THEN Append(w[i - 1], s[i]) ELSE w[i - 1]]
  OBVIOUS
<1>3. kept = [i \in 0 .. n |->
               IF i = 0 THEN <<>> ELSE IF s[i].len > 0 THEN Append(kept[i - 1], s[i]) ELSE kept[i - 1]]
  <2> HIDE DEF n
  <2>1. \E w : w = [i \in 0 .. n |->
               IF i = 0 THEN <<>> ELSE IF s[i].len > 0 THEN Append(w[i - 1], s[i]) ELSE w[i - 1]]
    BY <1>0, KeepsExists DEF Keeps
  <2> HIDE DEF kept
  <2> QED BY <1>2, <2>1, Zenon
<1> HIDE DEF kept
<1>4. \A i \in 1 .. n : s[i] \in M
  BY ElementOfSeq
<1> HIDE DEF n
<1> DEFINE T == {i \in Nat : i <= n => kept[i] \in Seq(K)}
<1>5. 0 \in T
  <2>1. 0 \in 0 .. n
    BY <1>0
  <2>2. kept[0] = <<>>
    BY <1>3, <2>1
  <2>3. <<>> \in Seq(K)
    BY EmptySeq
  <2> QED BY <2>2, <2>3
<1>6. ASSUME NEW i \in T PROVE i + 1 \in T
  <2> SUFFICES ASSUME i + 1 <= n PROVE kept[i + 1] \in Seq(K)
    OBVIOUS
  <2>1. i \in Nat /\ i + 1 \in 0 .. n /\ i + 1 \in 1 .. n /\ i + 1 # 0 /\ (i + 1) - 1 = i /\ i <= n
    BY <1>0
  <2>2. kept[i] \in Seq(K)
    BY <2>1
  <2>3. kept[i + 1] = IF s[i + 1].len > 0 THEN Append(kept[i], s[i + 1]) ELSE kept[i]
    BY <1>3, <2>1
  <2>4. s[i + 1].len > 0 => s[i + 1] \in K
    BY <1>4, <2>1
  <2> HIDE DEF K
  <2> QED BY <2>2, <2>3, <2>4, AppendProperties
<1>7. T = Nat
  <2>1. T \in SUBSET Nat
    OBVIOUS
  <2> HIDE DEF T
  <2> QED BY <1>5, <1>6, <2>1, SetInduction
<1>8. kept[n] \in Seq(K)
  <2>1. n \in T
    BY <1>0, <1>7
  <2> QED BY <1>0, <2>1
<1> QED BY <1>1, <1>8
-----------------------------------------------------------------------------
(***************************************************************************)
(* The stream of a connection: what is written and not read, and then the  *)
(* iovecs that are gathered and not written.                               *)
(***************************************************************************)
First == IF call = "flush" THEN cur_pos ELSE 0

Total == IF link = "up" THEN Len(wire) + Len(iovs) - First ELSE Len(wire)

Stream ==
  [i \in 1 .. Total |->
    IF i <= Len(wire) THEN wire[i] ELSE Gathered(iovs[First + i - Len(wire)])]

\* Where the next chunk will be cut.
Cut == [k |-> Len(handed) - Len(todo) + 1, off |-> sent, size |-> out_size]

FlowInv ==
  link # "garbled" => Flow(handed, Stream, Total, link, Len(got), client, Cut)

\* What is left to do is the end of what was handed over.
Rest(H, t) ==
  /\ Handed(H) /\ IsSeq(t) /\ Len(t) <= Len(H)
  /\ \A i \in 1 .. Len(t) : t[i] = H[Len(H) - Len(t) + i]

Typed ==
  /\ Rest(handed, todo)
  /\ IsSeq(wire) /\ IsSeq(got) /\ IsSeq(iovs)
  /\ cur_pos \in Nat
  /\ cache = [i \in 0 .. CacheMax - 1 |-> cache[i]]
  /\ link \in {"up", "down", "garbled"}

Controlled ==
  link = "up" =>
    /\ call \in {"idle", "packet", "batch", "flush"}
    /\ call = "idle" => todo = <<>> /\ iovs = <<>>
    /\ call = "packet" => Len(todo) = 1 /\ iovs = <<>>
    /\ call = "batch" => todo # <<>>
    /\ call \in {"batch", "flush"} => \A i \in 1 .. Len(todo) : todo[i].size = 0
    /\ call = "flush" => cur_pos < Len(iovs) /\ (Len(iovs) < Limit => cur_pos = 0)

\* The headers of the iovecs lie in the part of the cache that is in use.
Placed == \A i \in 1 .. Len(iovs) : iovs[i].at \in Int /\ iovs[i].at < c0c3

JInv == IInv /\ Typed /\ Controlled /\ Placed /\ FlowInv

\* The stream has a length, and its end is a place.
LEMMA StreamEnd ==
  ASSUME Typed, Controlled, FlowInv, link = "up"
  PROVE  /\ Len(wire) \in Nat /\ Len(iovs) \in Nat /\ First \in Nat /\ First <= Len(iovs)
         /\ Total = Len(wire) + Len(iovs) - First /\ Total \in Nat
         /\ Cut \in Places /\ Inside(handed, Cut)
         /\ Flow(handed, Stream, Total, "up", Len(got), client, Cut)
<1>1. Len(wire) \in Nat /\ Len(iovs) \in Nat
  BY LenProperties DEF Typed, IsSeq
<1>2. First \in Nat /\ First <= Len(iovs)
  BY <1>1 DEF First, Typed, Controlled
<1>3. Flow(handed, Stream, Total, "up", Len(got), client, Cut)
  BY DEF FlowInv
<1>3a. PICK n \in Nat : \E p : Path(handed, Stream, n, p) /\ p[n] = Cut
  <2> HIDE DEF Stream, Total, Cut
  <2> QED BY <1>3 DEF Flow
<1>4. PICK p : Path(handed, Stream, n, p) /\ p[n] = Cut
  BY <1>3a, Zenon
<1>5. Cut \in Places /\ Inside(handed, Cut)
  <2>1. n \in 0 .. n
    OBVIOUS
  <2> HIDE DEF Stream, Total, Cut
  <2> QED BY <1>4, <2>1 DEF Path
<1>6. Total = Len(wire) + Len(iovs) - First /\ Total \in Nat
  BY <1>1, <1>2 DEF Total
<1> QED BY <1>1, <1>2, <1>3, <1>5, <1>6

\* The first message of todo is the one that is being cut.
LEMMA NextCut ==
  ASSUME Typed, Controlled, FlowInv, link = "up", todo # <<>>
  PROVE  LET m == Head(todo)
         IN  /\ m = handed[Cut.k] /\ Cut.k <= Len(handed) /\ m \in Messages
             /\ m = todo[1] /\ Len(todo) >= 1
             /\ Header(m) = HeaderAt(handed, Cut)
             /\ PayloadSize(m) = PartAt(handed, Cut)
<1> DEFINE m == Head(todo)
<1>1. Len(todo) \in Nat /\ Len(todo) >= 1 /\ m = todo[1]
  <2>1. PICK S : todo \in Seq(S)
    BY DEF Typed, Rest, IsSeq
  <2>2. Len(todo) \in Nat /\ Len(todo) # 0
    BY <2>1, EmptySeq, LenProperties
  <2> QED BY <2>1, <2>2
<1>2. Len(handed) \in Nat /\ Len(todo) <= Len(handed)
  BY LenProperties DEF Typed, Rest, Handed
<1>3. Cut.k = Len(handed) - Len(todo) + 1 /\ Cut.off = sent /\ Cut.size = out_size
  BY DEF Cut
<1>4. Cut.k <= Len(handed) /\ m = handed[Cut.k]
  <2>1. 1 \in 1 .. Len(todo)
    BY <1>1
  <2> QED BY <1>1, <1>2, <1>3, <2>1 DEF Typed, Rest
<1>5. m \in Messages
  BY <1>4, StreamEnd, ChunkMoves DEF Typed, Rest
<1>6. Header(m) = HeaderAt(handed, Cut)
  BY <1>3, <1>4 DEF Header, HeaderAt
<1>7. PayloadSize(m) = PartAt(handed, Cut)
  BY <1>3, <1>4 DEF PayloadSize, PartAt
<1> QED BY <1>1, <1>4, <1>5, <1>6, <1>7

\* Cutting a chunk goes to the next place.
LEMMA CutAdvances ==
  ASSUME Typed, Controlled, FlowInv, link = "up", todo # <<>>, Advance(Head(todo)),
         handed' = handed,
         out_size' = IF todo' # todo /\ Head(todo).size # 0 THEN Head(todo).size ELSE out_size
  PROVE  /\ Cut' = After(handed, Cut)
         /\ Rest(handed', todo') /\ Len(todo') \in {Len(todo), Len(todo) - 1}
         /\ \A i \in 1 .. Len(todo') : \E j \in 1 .. Len(todo) : todo'[i] = todo[j]
<1> DEFINE m == Head(todo)
<1>1. /\ m = handed[Cut.k] /\ m = todo[1] /\ PayloadSize(m) = PartAt(handed, Cut)
      /\ Len(todo) >= 1
  BY NextCut
<1>2. PICK S : todo \in Seq(S)
  BY DEF Typed, Rest, IsSeq
<1>3. Cut.k = Len(handed) - Len(todo) + 1 /\ Cut.off = sent /\ Cut.size = out_size
  BY DEF Cut
<1>4. Len(todo) \in Nat /\ Len(handed) \in Nat
  BY <1>2, LenProperties DEF Typed, Rest, Handed
<1>5. CASE sent + PayloadSize(m) >= m.len
  <2>1. todo' = Tail(todo) /\ sent' = 0
    BY <1>5 DEF Advance
  <2>2. /\ todo' \in Seq(S) /\ Len(todo') = Len(todo) - 1
        /\ \A i \in 1 .. Len(todo) - 1 : todo'[i] = todo[i + 1]
    BY <1>2, <1>1, <1>4, <2>1, HeadTailProperties
  <2>3. todo' # todo
    BY <1>4, <2>2
  <2>4. Cut' = [k |-> Cut.k + 1, off |-> 0, size |-> IF m.size # 0 THEN m.size ELSE Cut.size]
    <3>1. Len(handed) - Len(todo') + 1 = Cut.k + 1
      BY <1>3, <1>4, <2>2
    <3>2. out_size' = IF m.size # 0 THEN m.size ELSE Cut.size
      BY <1>3, <2>3
    <3> QED BY <2>1, <3>1, <3>2 DEF Cut
  <2>5. Cut' = After(handed, Cut)
    BY <1>1, <1>3, <1>5, <2>4 DEF After
  <2>6. \A i \in 1 .. Len(todo') : todo'[i] = todo[i + 1] /\ i + 1 \in 1 .. Len(todo)
    BY <1>4, <2>2
  <2>7. Rest(handed', todo')
    <3>1. IsSeq(todo') /\ Len(todo') <= Len(handed)
      BY <1>4, <2>2 DEF IsSeq, Typed, Rest
    <3>2. ASSUME NEW i \in 1 .. Len(todo') PROVE todo'[i] = handed[Len(handed) - Len(todo') + i]
      <4>1. i \in Nat /\ i + 1 \in 1 .. Len(todo) /\ todo'[i] = todo[i + 1]
        BY <1>4, <2>2, <2>6
      <4>2. todo[i + 1] = handed[Len(handed) - Len(todo) + (i + 1)]
        BY <4>1 DEF Typed, Rest
      <4>3. Len(handed) - Len(todo) + (i + 1) = Len(handed) - Len(todo') + i
        BY <1>4, <2>2, <4>1
      <4> QED BY <4>1, <4>2, <4>3
    <3> QED BY <3>1, <3>2 DEF Rest, Typed
  <2> QED BY <2>2, <2>5, <2>6, <2>7
<1>6. CASE ~(sent + PayloadSize(m) >= m.len)
  <2>1. todo' = todo /\ sent' = sent + PayloadSize(m)
    BY <1>6 DEF Advance
  <2>2. Cut' = [k |-> Cut.k, off |-> Cut.off + PayloadSize(m), size |-> Cut.size]
    BY <1>3, <2>1 DEF Cut
  <2>3. Cut' = After(handed, Cut)
    BY <1>1, <1>3, <1>6, <2>2 DEF After
  <2> QED BY <2>1, <2>3 DEF Typed
<1> QED BY <1>5, <1>6
-----------------------------------------------------------------------------
\* What was handed over and what is left, when a call begins.
LEMMA HandOver ==
  ASSUME Typed, todo = <<>>, NEW msgs \in Seq({m \in Messages : m.len > 0})
  PROVE  LET H == handed \o msgs
         IN  /\ Handed(H) /\ Rest(H, msgs)
             /\ Len(H) = Len(handed) + Len(msgs) /\ Len(handed) \in Nat /\ Len(msgs) \in Nat
             /\ \A i \in 1 .. Len(handed) : H[i] = handed[i]
<1> DEFINE H == handed \o msgs
           M == {m \in Messages : m.len > 0}
<1>1. handed \in Seq(Messages) /\ \A i \in 1 .. Len(handed) : handed[i].len > 0
  BY DEF Typed, Rest, Handed
<1>2. msgs \in Seq(M) /\ msgs \in Seq(Messages)
  <2>1. M \subseteq Messages
    OBVIOUS
  <2> QED BY <2>1, SeqMonotonic
<1>3. /\ H \in Seq(Messages) /\ Len(H) = Len(handed) + Len(msgs)
      /\ \A i \in 1 .. Len(handed) + Len(msgs) :
           H[i] = IF i <= Len(handed) THEN handed[i] ELSE msgs[i - Len(handed)]
  BY <1>1, <1>2, ConcatProperties
<1>4. Len(handed) \in Nat /\ Len(msgs) \in Nat
  BY <1>1, <1>2, LenProperties
<1>5. \A i \in 1 .. Len(msgs) : msgs[i].len > 0
  BY <1>2, ElementOfSeq
<1> HIDE DEF H, M
<1>6. ASSUME NEW i \in 1 .. Len(H) PROVE H[i].len > 0
  <2>1. CASE i <= Len(handed)
    BY <1>1, <1>3, <1>4, <2>1
  <2>2. CASE ~(i <= Len(handed))
    <3>1. i - Len(handed) \in 1 .. Len(msgs) /\ H[i] = msgs[i - Len(handed)]
      BY <1>3, <1>4, <2>2
    <3> QED BY <1>5, <3>1
  <2> QED BY <2>1, <2>2
<1>7. ASSUME NEW i \in 1 .. Len(msgs) PROVE msgs[i] = H[Len(H) - Len(msgs) + i]
  <2>1. /\ Len(H) - Len(msgs) + i = Len(handed) + i
        /\ Len(handed) + i \in 1 .. Len(handed) + Len(msgs)
        /\ ~(Len(handed) + i <= Len(handed)) /\ Len(handed) + i - Len(handed) = i
    BY <1>3, <1>4
  <2> QED BY <1>3, <2>1
<1>8. \A i \in 1 .. Len(handed) : H[i] = handed[i]
  BY <1>3, <1>4
<1>9. IsSeq(msgs)
  BY <1>2 DEF IsSeq
<1>10. Handed(H)
  BY <1>3, <1>6 DEF Handed
<1>11. Len(msgs) <= Len(H)
  BY <1>3, <1>4
<1>12. Rest(H, msgs)
  BY <1>7, <1>9, <1>10, <1>11 DEF Rest
<1>13. /\ Handed(H) /\ Rest(H, msgs)
       /\ Len(H) = Len(handed) + Len(msgs) /\ Len(handed) \in Nat /\ Len(msgs) \in Nat
       /\ \A i \in 1 .. Len(handed) : H[i] = handed[i]
  BY <1>3, <1>4, <1>8, <1>10, <1>12
<1> QED BY <1>13, Zenon DEF H

\* The beginning of a call, with nothing gathered: the stream stays what it is.
LEMMA CallBegins ==
  ASSUME JInv, call = "idle", link = "up", IInv',
         NEW msgs \in Seq({m \in Messages : m.len > 0}),
         todo' = msgs, handed' = handed \o msgs, sent' = 0, iovs' = <<>>,
         call' \in {"idle", "packet", "batch"},
         call' = "idle" => msgs = <<>>,
         call' = "packet" => Len(msgs) = 1,
         call' = "batch" => msgs # <<>> /\ \A i \in 1 .. Len(msgs) : msgs[i].size = 0,
         UNCHANGED <<cache, cur_pos, out_size, link, wire, client, got>>
  PROVE  JInv'
<1>1. Typed /\ Controlled /\ FlowInv /\ todo = <<>> /\ iovs = <<>>
  BY DEF JInv, Controlled
<1> DEFINE H == handed \o msgs
<1>2. /\ Handed(H) /\ Rest(H, msgs)
      /\ Len(H) = Len(handed) + Len(msgs) /\ Len(handed) \in Nat /\ Len(msgs) \in Nat
      /\ \A i \in 1 .. Len(handed) : H[i] = handed[i]
  BY <1>1, HandOver
<1> HIDE DEF H
<1>3. handed' = H
  BY DEF H
<1>4. Len(iovs) = 0 /\ IsSeq(iovs')
  BY <1>1 DEF Typed
<1>5. Typed'
  BY <1>1, <1>2, <1>3, <1>4 DEF Typed
<1>6. Controlled' /\ Placed'
  BY <1>4 DEF Controlled, Placed
<1>7. FlowInv'
  <2>1. /\ Len(wire) \in Nat /\ Total = Len(wire) /\ Total \in Nat
        /\ Cut \in Places /\ Inside(handed, Cut)
        /\ Flow(handed, Stream, Total, "up", Len(got), client, Cut)
    BY <1>1, <1>4, StreamEnd DEF First
  <2>2. Total' = Total
    BY <1>4, <2>1 DEF Total, First
  <2>3. Cut' = Cut
    <3>1. Cut.off = sent /\ Cut.k = Len(handed) - Len(todo) + 1 /\ Len(todo) = 0
      BY <1>1 DEF Cut
    <3>2. sent = 0
      BY <1>2, <2>1, <3>1 DEF Inside
    <3>3. Len(handed') - Len(todo') + 1 = Len(handed) - Len(todo) + 1
      BY <1>2, <1>3, <3>1
    <3> QED BY <3>2, <3>3 DEF Cut
  <2>4. \A i \in 1 .. Total : Stream'[i] = Stream[i]
    BY <2>1, <2>2 DEF Stream
  <2> HIDE DEF Stream, Total, Cut
  <2>5. Flow(H, Stream', Total, "up", Len(got), client, Cut)
    <3>1. Handed(handed) /\ Len(handed) <= Len(H)
      BY <1>1, <1>2 DEF Typed, Rest
    <3> QED BY <1>2, <2>1, <2>4, <3>1, FlowKept
  <2>6. Len(got)' = Len(got) /\ client' = client /\ link' = "up"
    OBVIOUS
  <2> QED BY <1>3, <2>2, <2>3, <2>5, <2>6 DEF FlowInv
<1> QED BY <1>5, <1>6, <1>7 DEF JInv

\* A packet is handed over.
LEMMA PacketJInv ==
  ASSUME JInv, IInv', NEW m \in Packets, SendAndFreePacket(m) PROVE JInv'
<1> DEFINE K == {x \in Messages : x.len > 0}
<1>1. m \in K
  BY SenderAssumption DEF SendAndFreePacket
<1>2. <<m>> \in Seq(K) /\ Len(<<m>>) = 1
  <2> HIDE DEF K
  <2> QED BY <1>1
<1>3. /\ call = "idle" /\ link = "up" /\ call' = "packet" /\ todo' = <<m>> /\ sent' = 0
      /\ handed' = Append(handed, m) /\ iovs' = iovs
      /\ UNCHANGED <<cache, cur_pos, out_size, link, wire, client, got>>
  BY DEF SendAndFreePacket, cacheVars, ends
<1>4. handed' = handed \o <<m>>
  <2>1. handed \in Seq(Messages) /\ m \in Messages
    BY <1>1 DEF JInv, Typed, Rest, Handed
  <2> QED BY <1>3, <2>1, AppendIsConcat
<1>5. iovs' = <<>>
  BY <1>3 DEF JInv, Controlled
<1> QED BY <1>2, <1>3, <1>4, <1>5, CallBegins

\* A batch is handed over.
LEMMA CheckedMessages ==
  ASSUME NEW batch \in Batches
  PROVE  Checked(batch) \in Seq({m \in Messages : m.size = 0})
<1> DEFINE M == {m \in Messages : m.size = 0}
<1>1. PICK n \in 1 .. MaxBatch : batch \in [1 .. n -> Media]
  BY DEF Batches
<1>2. n \in Nat /\ DOMAIN batch = 1 .. n /\ \A i \in 1 .. n : batch[i] \in M
  BY <1>1, SenderAssumption
<1>3. ASSUME NEW m \in M PROVE [FixedCid(m) EXCEPT !.sid = StreamId] \in M
  <2>1. m \in Messages /\ m.cid \in Nat /\ m.size = 0 /\ StreamId \in Nat
    BY SenderAssumption DEF Messages
  <2>2. FixedCid(m) \in Messages /\ FixedCid(m).size = 0
    BY <2>1 DEF FixedCid, Messages, Control
  <2> QED BY <2>1, <2>2 DEF Messages
<1> HIDE DEF M
<1>4. ASSUME NEW i \in 1 .. n PROVE Checked(batch)[i] \in M
  BY <1>2, <1>3 DEF Checked
<1>5. Checked(batch) = [i \in 1 .. n |-> Checked(batch)[i]]
  BY <1>2 DEF Checked
<1>6. Checked(batch) \in [1 .. n -> M]
  BY <1>4, <1>5
<1>7. Checked(batch) \in Seq(M)
  BY <1>2, <1>6
<1> QED BY <1>7 DEF M

LEMMA BatchJInv ==
  ASSUME JInv, IInv', NEW batch \in Batches, SendAndFreeMessage(batch) PROVE JInv'
<1> DEFINE msgs == NotEmpty(Checked(batch))
           M == {m \in Messages : m.size = 0}
           K == {m \in M : m.len > 0}
           L == {m \in Messages : m.len > 0}
<1>1. msgs \in Seq(K)
  BY CheckedMessages, NotEmptyKept
<1>2. /\ call = "idle" /\ link = "up"
      /\ call' = IF msgs = <<>> THEN "idle" ELSE "batch"
      /\ todo' = msgs /\ handed' = handed \o msgs /\ sent' = 0 /\ iovs' = <<>>
      /\ UNCHANGED <<cache, cur_pos, out_size, link, wire, client, got>>
  BY DEF SendAndFreeMessage, ends
<1> HIDE DEF msgs
<1>3. msgs \in Seq(L)
  <2>1. K \subseteq L
    OBVIOUS
  <2> QED BY <1>1, <2>1, SeqMonotonic
<1>4. \A i \in 1 .. Len(msgs) : msgs[i].size = 0
  BY <1>1, ElementOfSeq
<1> QED BY <1>2, <1>3, <1>4, CallBegins
-----------------------------------------------------------------------------
\* A write fails: what has been written of the stream remains, and no step of this end follows.
LEMMA WriteFails ==
  ASSUME JInv, link = "up", IInv', link' = "down", Rest(handed', todo'), handed' = handed,
         IsSeq(wire'), Len(wire') <= Total + 1,
         \A i \in 1 .. Total : i <= Len(wire') => wire'[i] = Stream[i],
         IsSeq(iovs'), Placed', cur_pos' \in Nat,
         UNCHANGED <<cache, client, got>>
  PROVE  JInv'
<1>1. Typed /\ Controlled /\ FlowInv
  BY DEF JInv
<1>2. Typed' /\ Controlled'
  BY <1>1 DEF Typed, Controlled
<1>3. Len(wire') \in Nat /\ Total' = Len(wire')
  BY LenProperties DEF IsSeq, Total
<1>4. Total \in Nat /\ Flow(handed, Stream, Total, "up", Len(got), client, Cut)
  BY <1>1, StreamEnd
<1>5. ASSUME NEW i \in 1 .. Total, i <= Len(wire') PROVE Stream'[i] = Stream[i]
  <2>1. i \in 1 .. Len(wire')
    BY <1>3, <1>4, <1>5
  <2>2. Stream'[i] = wire'[i]
    BY <1>3, <2>1 DEF Stream
  <2> QED BY <1>5, <2>2
<1> HIDE DEF Stream, Total, Cut
<1>6. Flow(handed, Stream', Len(wire'), "down", Len(got), client, Cut')
  BY <1>3, <1>4, <1>5, FlowCut
<1>7. FlowInv'
  BY <1>3, <1>6 DEF FlowInv
<1> QED BY <1>2, <1>7 DEF JInv

\* A chunk of a packet is written, or a part of it.
LEMMA SimpleJInv == ASSUME JInv, IInv', DoSimpleSend PROVE JInv'
<1> DEFINE m == Head(todo)
           a == [header |-> Header(m), n |-> 0]
           b == [header |-> NoHeader, n |-> PayloadSize(m)]
           items == <<a, b>>
<1>1. /\ Typed /\ Controlled /\ FlowInv /\ Placed
      /\ call = "packet" /\ link = "up" /\ iovs = <<>> /\ Len(todo) = 1
      /\ Advance(m) /\ WriteEv(items)
      /\ handed' = handed /\ cache' = cache /\ client' = client /\ got' = got
      /\ iovs' = iovs /\ cur_pos' = cur_pos /\ c0c3' = c0c3
  BY DEF JInv, Controlled, DoSimpleSend, cacheVars
<1>2. IF todo' = <<>>
      THEN call' = "idle" /\ out_size' = IF link' = "up" THEN OnSendPacket(m) ELSE out_size
      ELSE call' = call /\ out_size' = out_size
  BY DEF DoSimpleSend
<1>3. todo # <<>> /\ Len(iovs) = 0 /\ cur_pos \in Nat /\ IsSeq(wire) /\ IsSeq(iovs)
  <2>1. Len(<<>>) = 0
    OBVIOUS
  <2>2. todo # <<>> /\ Len(iovs) = 0
    BY <1>1, <2>1
  <2>3. cur_pos \in Nat /\ IsSeq(wire) /\ IsSeq(iovs)
    BY <1>1 DEF Typed
  <2> QED BY <2>2, <2>3
<1>4. /\ Len(wire) \in Nat /\ Total = Len(wire) /\ Total \in Nat
      /\ Cut \in Places /\ Inside(handed, Cut)
      /\ Flow(handed, Stream, Total, "up", Len(got), client, Cut)
  BY <1>1, <1>3, StreamEnd DEF First
<1>5. \A i \in 1 .. Total : Stream[i] = wire[i]
  BY <1>4 DEF Stream
<1>6. /\ Cut.k <= Len(handed)
      /\ a.header = HeaderAt(handed, Cut) /\ b.n = PartAt(handed, Cut)
  BY <1>1, <1>3, NextCut
<1>7. todo' = <<>> \/ todo' = todo
  <2>1. PICK S : todo \in Seq(S)
    BY <1>1 DEF Typed, Rest, IsSeq
  <2>2. Tail(todo) \in Seq(S) /\ Len(Tail(todo)) = 0
    <3>1. Len(Tail(todo)) = Len(todo) - 1 /\ Tail(todo) \in Seq(S)
      BY <1>3, <2>1, HeadTailProperties
    <3> QED BY <1>1, <3>1
  <2>3. Tail(todo) = <<>>
    BY <2>2, EmptySeq
  <2> QED BY <1>1, <2>3 DEF Advance
<1>8. /\ IsSeq(items) /\ Len(items) = 2 /\ items[1] = a /\ items[2] = b
  <2> HIDE DEF a, b
  <2>1. items \in Seq({a, b})
    OBVIOUS
  <2> QED BY <2>1 DEF IsSeq
<1>9. Rest(handed', todo') /\ Placed'
  <2>1. Placed'
    BY <1>1, <1>3 DEF Placed
  <2>2. IsSeq(<<>>) /\ Len(<<>>) = 0
    BY EmptySeq DEF IsSeq
  <2>3. Handed(handed) /\ Len(handed) \in Nat
    BY <1>1, LenProperties DEF Typed, Rest, Handed
  <2>4. Rest(handed, <<>>)
    BY <2>2, <2>3 DEF Rest
  <2> QED BY <1>1, <1>7, <2>1, <2>4 DEF Typed
<1> HIDE DEF a, b, items
<1>10. CASE link' = "up"
  <2>1. wire' = wire \o items
    BY <1>10 DEF items, a, b, WriteEv, DoSimpleSend
  <2>2. /\ IsSeq(wire') /\ Len(wire') = Total + 2
        /\ \A i \in 1 .. Total : wire'[i] = Stream[i]
        /\ wire'[Total + 1] = a /\ wire'[Total + 2] = b
    <3>1. /\ IsSeq(wire') /\ Len(wire') = Len(wire) + Len(items)
          /\ \A i \in 1 .. Len(wire) + Len(items) :
               wire'[i] = IF i <= Len(wire) THEN wire[i] ELSE items[i - Len(wire)]
      BY <1>3, <1>8, <2>1, SeqJoin
    <3>2. /\ Total + 1 \in 1 .. Len(wire) + Len(items) /\ (Total + 1) - Len(wire) = 1
          /\ Total + 2 \in 1 .. Len(wire) + Len(items) /\ (Total + 2) - Len(wire) = 2
      BY <1>4, <1>8
    <3> QED BY <1>4, <1>5, <1>8, <3>1, <3>2
  <2>3. out_size' = IF todo' # todo /\ m.size # 0 THEN m.size ELSE out_size
    BY <1>2, <1>3, <1>7, <1>10 DEF OnSendPacket
  <2>4. Cut' = After(handed, Cut)
    BY <1>1, <1>3, <2>3, CutAdvances
  <2>5. Typed'
    BY <1>1, <1>3, <1>9, <1>10, <2>2 DEF Typed
  <2>6. Controlled'
    BY <1>1, <1>2, <1>7, <1>10 DEF Controlled
  <2>7. Total' = Total + 2
    <3>1. call' # "flush"
      BY <1>1, <1>2
    <3> QED BY <1>1, <1>3, <1>4, <1>10, <2>2, <3>1 DEF Total, First
  <2>8. \A i \in 1 .. Total + 2 : Stream'[i] = wire'[i]
    BY <1>4, <2>2, <2>7 DEF Stream
  <2>9. /\ \A i \in 1 .. Total : Stream'[i] = Stream[i]
        /\ Stream'[Total + 1].header = HeaderAt(handed, Cut)
        /\ Stream'[Total + 2].n = PartAt(handed, Cut)
    BY <1>4, <1>6, <2>2, <2>8
  <2> HIDE DEF Stream, Total, Cut
  <2>10. Flow(handed, Stream', Total + 2, "up", Len(got), client, After(handed, Cut))
    <3>1. Handed(handed)
      BY <1>1 DEF Typed, Rest
    <3> QED BY <1>4, <1>6, <2>9, <3>1, FlowChunk
  <2>11. FlowInv'
    BY <1>1, <1>10, <2>4, <2>7, <2>10 DEF FlowInv
  <2> QED BY <1>9, <2>5, <2>6, <2>11 DEF JInv
<1>11. CASE link' # "up"
  <2>1. PICK n \in 0 .. Len(items) - 1 : link' = "down" /\ wire' = wire \o SubSeq(items, 1, n)
    BY <1>1, <1>11 DEF WriteEv
  <2>2. n \in Nat /\ n <= Len(items) /\ n <= 1
    BY <1>8, <2>1
  <2>3. IsSeq(SubSeq(items, 1, n)) /\ Len(SubSeq(items, 1, n)) = n
    <3>0. 1 \in Nat /\ 1 <= 1
      OBVIOUS
    <3>1. /\ IsSeq(SubSeq(items, 1, n))
          /\ Len(SubSeq(items, 1, n)) = IF 1 <= n THEN n - 1 + 1 ELSE 0
      BY <1>8, <2>2, <3>0, SeqPart, Zenon
    <3> QED BY <2>2, <3>1
  <2>4. /\ IsSeq(wire') /\ Len(wire') = Len(wire) + n
        /\ \A i \in 1 .. Len(wire) : wire'[i] = wire[i]
    <3> DEFINE part == SubSeq(items, 1, n)
    <3>1. IsSeq(part) /\ Len(part) = n /\ wire' = wire \o part
      BY <2>1, <2>3
    <3> HIDE DEF part
    <3>2. /\ IsSeq(wire') /\ Len(wire') = Len(wire) + Len(part)
          /\ \A i \in 1 .. Len(wire) + Len(part) :
               wire'[i] = IF i <= Len(wire) THEN wire[i] ELSE part[i - Len(wire)]
      BY <1>3, <3>1, SeqJoin
    <3> QED BY <1>4, <2>2, <3>1, <3>2
  <2>5. Len(wire') <= Total + 1 /\ \A i \in 1 .. Total : wire'[i] = Stream[i]
    BY <1>4, <1>5, <2>2, <2>4
  <2> HIDE DEF Stream, Total
  <2> QED BY <1>1, <1>3, <1>9, <2>1, <2>4, <2>5, WriteFails
<1> QED BY <1>10, <1>11

\* A chunk of a batch is gathered.
LEMMA GatherJInv == ASSUME JInv, IInv', DoSendMessages PROVE JInv'
<1> DEFINE m == Head(todo)
           h == Header(m)
           v == [at |-> c0c3, n |-> 0]
           w == [at |-> -1, n |-> PayloadSize(m)]
<1>1. /\ Typed /\ Controlled /\ FlowInv /\ Placed /\ IInv
      /\ call = "batch" /\ link = "up" /\ todo # <<>>
      /\ \A i \in 1 .. Len(todo) : todo[i].size = 0
  BY DEF JInv, Controlled, DoSendMessages
<1>2. /\ cache' = [cache EXCEPT ![c0c3] = h]
      /\ iovs' = iovs \o <<v, w>>
      /\ c0c3' = c0c3 + Bytes(h)
      /\ Advance(m)
      /\ call' = IF CacheFull(c0c3') \/ todo' = <<>> THEN "flush" ELSE "batch"
      /\ cur_pos' = 0
      /\ out_size' = out_size /\ handed' = handed
      /\ link' = link /\ wire' = wire /\ client' = client /\ got' = got
  BY DEF DoSendMessages, ends
<1>3. /\ Len(wire) \in Nat /\ Len(iovs) \in Nat /\ Total = Len(wire) + Len(iovs) /\ Total \in Nat
      /\ First = 0
      /\ Cut \in Places /\ Inside(handed, Cut)
      /\ Flow(handed, Stream, Total, "up", Len(got), client, Cut)
  BY <1>1, StreamEnd DEF First
<1>4. /\ Cut.k <= Len(handed) /\ m = todo[1] /\ Len(todo) >= 1
      /\ h = HeaderAt(handed, Cut) /\ w.n = PartAt(handed, Cut)
  BY <1>1, NextCut
<1>5. m.size = 0
  <2>1. Len(todo) \in Nat
    BY <1>1, LenProperties DEF Typed, Rest, IsSeq
  <2>2. 1 \in 1 .. Len(todo)
    BY <1>4, <2>1
  <2> QED BY <1>1, <1>4, <2>2
<1>6. /\ Cut' = After(handed, Cut)
      /\ Rest(handed', todo') /\ Len(todo') \in {Len(todo), Len(todo) - 1}
      /\ \A i \in 1 .. Len(todo') : \E j \in 1 .. Len(todo) : todo'[i] = todo[j]
  BY <1>1, <1>2, <1>5, CutAdvances
<1>7. /\ IsSeq(iovs') /\ Len(iovs') = Len(iovs) + 2
      /\ \A i \in 1 .. Len(iovs) : iovs'[i] = iovs[i]
      /\ iovs'[Len(iovs) + 1] = v /\ iovs'[Len(iovs) + 2] = w
  <2> HIDE DEF v, w
  <2> DEFINE two == <<v, w>>
  <2>1. IsSeq(two) /\ Len(two) = 2 /\ two[1] = v /\ two[2] = w
    <3>1. two \in Seq({v, w})
      OBVIOUS
    <3> QED BY <3>1 DEF IsSeq
  <2>2. iovs' = iovs \o two
    BY <1>2
  <2> HIDE DEF two
  <2>3. IsSeq(iovs)
    BY <1>1 DEF Typed
  <2>4. /\ IsSeq(iovs') /\ Len(iovs') = Len(iovs) + Len(two)
        /\ \A i \in 1 .. Len(iovs) + Len(two) :
             iovs'[i] = IF i <= Len(iovs) THEN iovs[i] ELSE two[i - Len(iovs)]
    BY <2>1, <2>2, <2>3, SeqJoin
  <2>5. /\ Len(iovs) + 1 \in 1 .. Len(iovs) + Len(two) /\ (Len(iovs) + 1) - Len(iovs) = 1
        /\ Len(iovs) + 2 \in 1 .. Len(iovs) + Len(two) /\ (Len(iovs) + 2) - Len(iovs) = 2
    BY <1>3, <2>1
  <2> QED BY <1>3, <2>1, <2>4, <2>5
<1>8. /\ c0c3 \in 0 .. CacheMax - 1
      /\ DOMAIN cache = 0 .. CacheMax - 1
      /\ c0c3' \in Int /\ c0c3 < c0c3'
  <2>1. c0c3 \in Nat /\ c0c3 + HeaderMax <= CacheMax
    BY <1>1 DEF IInv, CacheOK, CachesFit
  <2>2. CacheMax \in Nat
    BY SenderAssumption
  <2>3. Bytes(h) \in 1 .. HeaderMax
    BY HeaderBytes
  <2>4. DOMAIN cache = 0 .. CacheMax - 1
    BY <1>1 DEF Typed
  <2>5. HeaderMax = 16
    BY DEF HeaderMax
  <2>6. Bytes(h) \in Nat /\ Bytes(h) > 0
    BY <2>3, <2>5
  <2>7. c0c3' = c0c3 + Bytes(h)
    BY <1>2
  <2> HIDE DEF h
  <2>8. c0c3' \in Int /\ c0c3 < c0c3'
    BY <2>1, <2>6, <2>7
  <2> QED BY <2>1, <2>2, <2>4, <2>5, <2>8
<1>9. /\ cache'[c0c3] = h
      /\ \A i \in Int : i < c0c3 => cache'[i] = cache[i]
      /\ cache' = [i \in 0 .. CacheMax - 1 |-> cache'[i]]
  <2> HIDE DEF h
  <2>1. cache' = [i \in 0 .. CacheMax - 1 |-> cache'[i]] /\ cache'[c0c3] = h
    BY <1>2, <1>8
  <2>2. ASSUME NEW i \in Int, i < c0c3 PROVE cache'[i] = cache[i]
    BY <1>2, <1>8, <2>2
  <2> QED BY <2>1, <2>2
<1>10. Placed'
  <2> SUFFICES ASSUME NEW i \in 1 .. Len(iovs') PROVE iovs'[i].at \in Int /\ iovs'[i].at < c0c3'
    BY DEF Placed
  <2>1. CASE i <= Len(iovs)
    <3>1. i \in 1 .. Len(iovs) /\ iovs'[i] = iovs[i]
      BY <1>3, <1>7, <2>1
    <3>2. iovs[i].at \in Int /\ iovs[i].at < c0c3
      BY <1>1, <3>1 DEF Placed
    <3> QED BY <1>8, <3>1, <3>2
  <2>2. CASE i = Len(iovs) + 1
    BY <1>7, <1>8, <2>2
  <2>3. CASE i = Len(iovs) + 2
    BY <1>7, <1>8, <2>3
  <2> QED BY <1>3, <1>7, <2>1, <2>2, <2>3
<1> HIDE DEF h
<1>11. Typed'
  BY <1>1, <1>2, <1>6, <1>7, <1>9 DEF Typed
<1>12. Controlled'
  <2>1. call' = "batch" => todo' # <<>>
    BY <1>2
  <2>2. \A i \in 1 .. Len(todo') : todo'[i].size = 0
    BY <1>1, <1>6
  <2>3. cur_pos' < Len(iovs')
    BY <1>2, <1>3, <1>7
  <2> QED BY <1>2, <2>1, <2>2, <2>3 DEF Controlled
<1>13. Total' = Total + 2 /\ First' = 0
  BY <1>1, <1>2, <1>3, <1>7 DEF Total, First
<1>14. ASSUME NEW i \in 1 .. Total PROVE Stream'[i] = Stream[i]
  <2>1. i \in 1 .. Total'
    BY <1>3, <1>13
  <2>2. CASE i <= Len(wire)
    BY <1>2, <2>1, <2>2 DEF Stream
  <2>3. CASE ~(i <= Len(wire))
    <3> DEFINE j == i - Len(wire)
    <3>1. j \in 1 .. Len(iovs) /\ 0 + i - Len(wire) = j
      BY <1>3, <2>3
    <3>2. Stream[i] = Gathered(iovs[j])
      BY <1>3, <2>3, <3>1 DEF Stream
    <3>3. Stream'[i] = [header |-> IF iovs'[j].at >= 0 THEN cache'[iovs'[j].at] ELSE NoHeader,
                        n |-> iovs'[j].n]
      BY <1>2, <1>13, <2>1, <2>3, <3>1 DEF Stream, Gathered
    <3> HIDE DEF j
    <3>4. iovs'[j] = iovs[j] /\ iovs[j].at \in Int /\ iovs[j].at < c0c3
      BY <1>1, <1>7, <3>1 DEF Placed
    <3>5. cache'[iovs[j].at] = cache[iovs[j].at]
      BY <1>9, <3>4
    <3> QED BY <3>2, <3>3, <3>4, <3>5 DEF Gathered
  <2> QED BY <2>2, <2>3
<1>15. ASSUME NEW i \in 1 .. 2
       PROVE  Stream'[Total + i] =
                [header |-> IF iovs'[Len(iovs) + i].at >= 0
                            THEN cache'[iovs'[Len(iovs) + i].at] ELSE NoHeader,
                 n |-> iovs'[Len(iovs) + i].n]
  <2>1. /\ Total + i \in 1 .. Total' /\ ~(Total + i <= Len(wire))
        /\ 0 + (Total + i) - Len(wire) = Len(iovs) + i
    BY <1>3, <1>13
  <2> DEFINE k == Total + i
  <2>2. k \in 1 .. Total' /\ ~(k <= Len(wire')) /\ First' + k - Len(wire') = Len(iovs) + i
    BY <1>2, <1>13, <2>1
  <2> HIDE DEF k
  <2>3. Stream'[k] = IF k <= Len(wire') THEN wire'[k]
                     ELSE [header |-> IF iovs'[First' + k - Len(wire')].at >= 0
                                      THEN cache'[iovs'[First' + k - Len(wire')].at] ELSE NoHeader,
                           n |-> iovs'[First' + k - Len(wire')].n]
    <3> HIDE DEF First
    <3> QED BY <2>2 DEF Stream, Gathered
  <2>4. Stream'[k] = [header |-> IF iovs'[Len(iovs) + i].at >= 0
                                 THEN cache'[iovs'[Len(iovs) + i].at] ELSE NoHeader,
                      n |-> iovs'[Len(iovs) + i].n]
    BY <2>2, <2>3
  <2> QED BY <2>4 DEF k
<1>16. /\ Stream'[Total + 1].header = HeaderAt(handed, Cut)
       /\ Stream'[Total + 2].n = PartAt(handed, Cut)
  <2>1. 1 \in 1 .. 2 /\ 2 \in 1 .. 2
    OBVIOUS
  <2>2. Stream'[Total + 1].header = h
    <3>1. v.at = c0c3 /\ c0c3 >= 0
      BY <1>8
    <3> HIDE DEF v, w
    <3> QED BY <1>7, <1>9, <1>15, <2>1, <3>1
  <2>3. Stream'[Total + 2].n = w.n
    <3> HIDE DEF v, w
    <3> QED BY <1>7, <1>15, <2>1
  <2> QED BY <1>4, <2>2, <2>3
<1> HIDE DEF Stream, Total, Cut
<1>17. Flow(handed, Stream', Total + 2, "up", Len(got), client, After(handed, Cut))
  <2>1. Handed(handed)
    BY <1>1 DEF Typed, Rest
  <2> QED BY <1>3, <1>4, <1>14, <1>16, <2>1, FlowChunk
<1>18. FlowInv'
  BY <1>1, <1>2, <1>6, <1>13, <1>17 DEF FlowInv
<1> QED BY <1>10, <1>11, <1>12, <1>18 DEF JInv

\* Some of the iovecs are written, or a part of them.
LEMMA FlushJInv == ASSUME JInv, IInv', SendLargeIovs PROVE JInv'
<1> DEFINE items == [i \in 1 .. Portion |-> Gathered(iovs[cur_pos + i])]
<1>1. /\ Typed /\ Controlled /\ FlowInv /\ Placed
      /\ call = "flush" /\ link = "up" /\ cur_pos < Len(iovs)
      /\ Len(iovs) < Limit => cur_pos = 0
      /\ \A i \in 1 .. Len(todo) : todo[i].size = 0
  BY DEF JInv, Controlled, SendLargeIovs
<1>2. /\ WriteEv(items)
      /\ cur_pos' = cur_pos + Portion
      /\ IF cur_pos' >= Len(iovs)
         THEN iovs' = <<>> /\ c0c3' = 0 /\ call' = IF todo = <<>> THEN "idle" ELSE "batch"
         ELSE iovs' = iovs /\ c0c3' = c0c3 /\ call' = call
      /\ todo' = todo /\ sent' = sent /\ cache' = cache /\ out_size' = out_size
      /\ client' = client /\ handed' = handed /\ got' = got
  BY DEF SendLargeIovs
<1>3. /\ Len(wire) \in Nat /\ Len(iovs) \in Nat /\ First = cur_pos
      /\ Total = Len(wire) + Len(iovs) - cur_pos /\ Total \in Nat /\ cur_pos \in Nat
      /\ Flow(handed, Stream, Total, "up", Len(got), client, Cut)
  BY <1>1, StreamEnd DEF First
<1>4. Portion \in Nat /\ Portion > 0 /\ cur_pos + Portion <= Len(iovs)
  BY <1>1, <1>3, SenderAssumption DEF Portion, Smaller
<1>5. IsSeq(items) /\ Len(items) = Portion /\ \A i \in 1 .. Portion : items[i] = Gathered(iovs[cur_pos + i])
  <2>1. items = [i \in 1 .. Portion |-> items[i]]
    OBVIOUS
  <2>2. \A i \in 1 .. Portion : items[i] = Gathered(iovs[cur_pos + i])
    OBVIOUS
  <2> HIDE DEF items
  <2>3. IsSeq(items) /\ Len(items) = Portion
    BY <1>4, <2>1, SeqOf
  <2> QED BY <2>2, <2>3
<1> HIDE DEF items
<1>6. IsSeq(wire) /\ IsSeq(iovs) /\ IsSeq(<<>>) /\ Len(<<>>) = 0
  BY <1>1, EmptySeq DEF Typed, IsSeq
<1>7. /\ IsSeq(iovs') /\ Placed' /\ cur_pos' \in Nat /\ Rest(handed', todo')
  <2>1. iovs' = <<>> \/ (iovs' = iovs /\ c0c3' = c0c3)
    BY <1>2
  <2>2. Placed'
    BY <1>1, <1>6, <2>1 DEF Placed
  <2> QED BY <1>1, <1>2, <1>3, <1>4, <1>6, <2>1, <2>2 DEF Typed
<1>8. ASSUME NEW i \in 1 .. Total, i <= Len(wire) + Portion
      PROVE  Stream[i] = IF i <= Len(wire) THEN wire[i] ELSE items[i - Len(wire)]
  <2>1. CASE i <= Len(wire)
    BY <2>1 DEF Stream
  <2>2. CASE ~(i <= Len(wire))
    <3> DEFINE j == i - Len(wire)
    <3>1. j \in 1 .. Portion /\ First + i - Len(wire) = cur_pos + j
      BY <1>3, <1>4, <1>8, <2>2
    <3>2. Stream[i] = Gathered(iovs[cur_pos + j])
      BY <2>2, <3>1 DEF Stream
    <3> QED BY <1>5, <2>2, <3>1, <3>2
  <2> QED BY <2>1, <2>2
<1>9. CASE link' = "up"
  <2>1. wire' = wire \o items
    BY <1>2, <1>9 DEF WriteEv
  <2>2. /\ IsSeq(wire') /\ Len(wire') = Len(wire) + Portion
        /\ \A i \in 1 .. Len(wire) + Portion :
             wire'[i] = IF i <= Len(wire) THEN wire[i] ELSE items[i - Len(wire)]
    <3>1. /\ IsSeq(wire') /\ Len(wire') = Len(wire) + Len(items)
          /\ \A i \in 1 .. Len(wire) + Len(items) :
               wire'[i] = IF i <= Len(wire) THEN wire[i] ELSE items[i - Len(wire)]
      BY <1>5, <1>6, <2>1, SeqJoin
    <3> QED BY <1>5, <3>1
  <2>3. Typed'
    BY <1>1, <1>2, <1>7, <1>9, <2>2 DEF Typed
  <2>4. Controlled'
    <3>1. CASE cur_pos' >= Len(iovs)
      BY <1>1, <1>2, <1>9, <3>1 DEF Controlled
    <3>2. CASE ~(cur_pos' >= Len(iovs))
      <4>1. cur_pos' < Len(iovs)
        BY <1>2, <1>3, <1>4, <3>2
      <4>2. ~(Len(iovs) < Limit)
        BY <1>1, <1>2, <1>3, <4>1 DEF Portion
      <4> QED BY <1>1, <1>2, <1>9, <3>2, <4>1, <4>2 DEF Controlled
    <3> QED BY <3>1, <3>2
  <2>5. Total' = Total /\ \A i \in 1 .. Total : Stream'[i] = Stream[i]
    <3>1. CASE cur_pos' >= Len(iovs)
      <4>1. call' # "flush" /\ Len(iovs') = 0 /\ cur_pos + Portion = Len(iovs)
        BY <1>2, <1>3, <1>4, <1>6, <3>1
      <4>2. Total' = Total /\ Total = Len(wire') /\ Total = Len(wire) + Portion
        <5>1. First' = 0
          BY <4>1 DEF First
        <5>2. Total' = Len(wire') + Len(iovs') - First'
          BY <1>9 DEF Total
        <5>3. Total = Len(wire) + Portion
          BY <1>3, <1>4, <4>1
        <5> HIDE DEF Total, First
        <5> QED BY <1>3, <1>4, <2>2, <4>1, <5>1, <5>2, <5>3
      <4>3. ASSUME NEW i \in 1 .. Total PROVE Stream'[i] = Stream[i]
        <5>1. i \in 1 .. Total' /\ i <= Len(wire') /\ i \in 1 .. Len(wire) + Portion /\ i <= Len(wire) + Portion
          BY <1>3, <4>2
        <5>2. Stream'[i] = wire'[i]
          BY <5>1 DEF Stream
        <5> QED BY <1>8, <2>2, <5>1, <5>2
      <4> QED BY <4>2, <4>3
    <3>2. CASE ~(cur_pos' >= Len(iovs))
      <4>1. call' = "flush" /\ iovs' = iovs /\ First' = cur_pos + Portion
        BY <1>1, <1>2, <3>2 DEF First
      <4>2. Total' = Total
        BY <1>3, <1>4, <1>9, <2>2, <4>1 DEF Total
      <4>3. ASSUME NEW i \in 1 .. Total PROVE Stream'[i] = Stream[i]
        <5>1. i \in 1 .. Total' /\ i \in Nat
          BY <1>3, <4>2
        <5>2. CASE i <= Len(wire) + Portion
          <6>1. i <= Len(wire') /\ i \in 1 .. Len(wire) + Portion
            BY <1>3, <1>4, <2>2, <5>1, <5>2
          <6>2. Stream'[i] = wire'[i]
            BY <5>1, <6>1 DEF Stream
          <6> QED BY <1>8, <2>2, <5>2, <6>1, <6>2
        <5>3. CASE ~(i <= Len(wire) + Portion)
          <6> DEFINE j == cur_pos + i - Len(wire)
          <6>1. /\ ~(i <= Len(wire')) /\ ~(i <= Len(wire))
                /\ First + i - Len(wire) = j /\ First' + i - Len(wire') = j
            BY <1>3, <1>4, <2>2, <4>1, <5>1, <5>3
          <6> HIDE DEF j
          <6>2. Stream[i] = Gathered(iovs[j])
            <7> HIDE DEF First
            <7> QED BY <6>1 DEF Stream
          <6>3. Stream'[i] = [header |-> IF iovs'[j].at >= 0 THEN cache'[iovs'[j].at] ELSE NoHeader,
                              n |-> iovs'[j].n]
            <7> HIDE DEF First
            <7> QED BY <5>1, <6>1 DEF Stream, Gathered
          <6> QED BY <1>2, <4>1, <6>2, <6>3 DEF Gathered
        <5> QED BY <5>2, <5>3
      <4> QED BY <4>2, <4>3
    <3> QED BY <3>1, <3>2
  <2>6. Cut' = Cut
    BY <1>2 DEF Cut
  <2> HIDE DEF Stream, Total, Cut
  <2>7. Flow(handed, Stream', Total, "up", Len(got), client, Cut)
    <3>1. Handed(handed) /\ Len(handed) <= Len(handed)
      BY <1>1, LenProperties DEF Typed, Rest, Handed
    <3> QED BY <1>3, <2>5, <3>1, FlowKept
  <2>8. FlowInv'
    BY <1>2, <1>9, <2>5, <2>6, <2>7 DEF FlowInv
  <2> QED BY <1>7, <2>3, <2>4, <2>8 DEF JInv
<1>10. CASE link' # "up"
  <2>1. PICK n \in 0 .. Len(items) - 1 : link' = "down" /\ wire' = wire \o SubSeq(items, 1, n)
    BY <1>1, <1>2, <1>10 DEF WriteEv
  <2>2. n \in Nat /\ n <= Len(items) /\ n <= Portion /\ 1 \in Nat /\ 1 <= 1
    BY <1>4, <1>5, <2>1
  <2> DEFINE part == SubSeq(items, 1, n)
  <2>3. IsSeq(part) /\ Len(part) = n /\ \A i \in 1 .. n : part[i] = items[i]
    <3>1. /\ IsSeq(SubSeq(items, 1, n))
          /\ Len(SubSeq(items, 1, n)) = IF 1 <= n THEN n - 1 + 1 ELSE 0
          /\ \A i \in 1 .. n - 1 + 1 : SubSeq(items, 1, n)[i] = items[1 + i - 1]
      BY <1>5, <2>2, SeqPart, Zenon
    <3>2. n - 1 + 1 = n /\ \A i \in 1 .. n : 1 + i - 1 = i
      BY <2>2
    <3> HIDE DEF part
    <3>3. IsSeq(part) /\ Len(part) = n
      BY <2>2, <3>1, <3>2 DEF part
    <3>4. ASSUME NEW i \in 1 .. n PROVE part[i] = items[i]
      BY <3>1, <3>2 DEF part
    <3> QED BY <3>3, <3>4
  <2>4. wire' = wire \o part
    BY <2>1
  <2> HIDE DEF part
  <2>5. /\ IsSeq(wire') /\ Len(wire') = Len(wire) + Len(part)
        /\ \A i \in 1 .. Len(wire) + Len(part) :
             wire'[i] = IF i <= Len(wire) THEN wire[i] ELSE part[i - Len(wire)]
    BY <1>6, <2>3, <2>4, SeqJoin
  <2>6. Len(wire') <= Total + 1
    BY <1>3, <1>4, <2>2, <2>3, <2>5
  <2>7. ASSUME NEW i \in 1 .. Total, i <= Len(wire') PROVE wire'[i] = Stream[i]
    <3>1. i \in 1 .. Len(wire) + n /\ i <= Len(wire) + Portion
      BY <1>3, <1>4, <2>2, <2>3, <2>5, <2>7
    <3>2. ~(i <= Len(wire)) => i - Len(wire) \in 1 .. n
      BY <1>3, <2>2, <3>1
    <3> QED BY <1>8, <2>3, <2>5, <3>1, <3>2
  <2> HIDE DEF Stream, Total
  <2> QED BY <1>1, <1>2, <1>7, <2>1, <2>5, <2>6, <2>7, WriteFails
<1> QED BY <1>9, <1>10

\* What is in the way of the client: the next chunk, whose message is the first not put together.
LEMMA ReadSteps ==
  ASSUME JInv, ClientReads
  PROVE  /\ Len(got) \in Nat /\ Len(got) + 1 <= Len(handed) /\ Handed(handed)
         /\ \/ /\ link' = "garbled" /\ got' = got /\ ~SafeMsg(handed[Len(got) + 1])
            \/ /\ link' = link /\ FlowInv' /\ SafeMsg(handed[Len(got) + 1])
               /\ \/ got' = got
                  \/ got' = Append(got, View(handed[Len(got) + 1]))
<1>1. /\ Typed /\ Controlled /\ FlowInv /\ link # "garbled" /\ Len(wire) >= 2 /\ Handed(handed)
      /\ wire' = SubSeq(wire, 3, Len(wire))
      /\ call' = call /\ todo' = todo /\ sent' = sent /\ iovs' = iovs /\ cache' = cache
      /\ cur_pos' = cur_pos /\ out_size' = out_size /\ handed' = handed
  BY DEF JInv, Typed, Rest, ClientReads, cacheVars
<1>2. Len(wire) \in Nat /\ Len(got) \in Nat /\ IsSeq(got)
  BY <1>1, LenProperties DEF Typed, IsSeq
<1>3. /\ Total \in Nat /\ Len(wire) <= Total
      /\ Flow(handed, Stream, Total, link, Len(got), client, Cut)
  <2>1. CASE link = "up"
    <3>1. /\ Len(iovs) \in Nat /\ First \in Nat /\ First <= Len(iovs)
          /\ Total = Len(wire) + Len(iovs) - First
      BY <1>1, <2>1, StreamEnd
    <3> HIDE DEF First
    <3> QED BY <1>1, <1>2, <2>1, <3>1 DEF FlowInv
  <2>2. CASE link # "up"
    BY <1>1, <1>2, <2>2 DEF FlowInv, Total
  <2> QED BY <2>1, <2>2
<1>4. Stream[1] = wire[1] /\ Stream[2] = wire[2]
  <2>1. 1 \in 1 .. Total /\ 2 \in 1 .. Total /\ 1 <= Len(wire) /\ 2 <= Len(wire)
    BY <1>1, <1>2, <1>3
  <2> HIDE DEF Total
  <2> QED BY <2>1 DEF Stream
<1>4a. PICK x \in Places : \E y :
        /\ Inside(handed, x) /\ Meets(handed, Len(got), client, x)
        /\ Chunk(handed, x, y, Stream[1], Stream[2])
        /\ \A t, i, d :
             (\A j \in 1 .. Total - 2 : t[j] = Stream[j + 2]) /\ Meets(handed, i, d, y)
               => Flow(handed, t, Total - 2, link, i, d, Cut)
  <2> HIDE DEF Stream, Total, Cut
  <2>1. Total >= 2
    BY <1>1, <1>2, <1>3
  <2> QED BY <1>3, <2>1, FlowRead
<1>5. PICK y :
        /\ Inside(handed, x) /\ Meets(handed, Len(got), client, x)
        /\ Chunk(handed, x, y, Stream[1], Stream[2])
        /\ \A t, i, d :
             (\A j \in 1 .. Total - 2 : t[j] = Stream[j + 2]) /\ Meets(handed, i, d, y)
               => Flow(handed, t, Total - 2, link, i, d, Cut)
  BY <1>4a
<1> DEFINE h == HeaderAt(handed, x)
           n == PartAt(handed, x)
           m == handed[x.k]
           b == IF h.fmt = 0 THEN Begins(h) ELSE client.msg
           left == (IF h.fmt = 0 THEN h.len ELSE client.left) - n
           d == [size |-> IF left = 0 /\ b.size # 0 THEN b.size ELSE client.size,
                 msg |-> b, left |-> left]
           i == IF left = 0 THEN Len(got) + 1 ELSE Len(got)
<1>6. /\ x.k <= Len(handed) /\ y = After(handed, x) /\ wire[1].header = h /\ wire[2].n = n
      /\ x.k = Len(got) + 1
  BY <1>4, <1>5 DEF Chunk, Meets
<1>7. m \in Messages
  BY <1>1, <1>5, <1>6, ChunkMoves
<1>8. /\ Takes(client, h, n) <=> SafeMsg(m)
      /\ Takes(client, h, n) =>
           b = Begins(chunk_header_c0(m)) /\ Meets(handed, i, d, y)
  BY <1>1, <1>2, <1>5, <1>6, ClientTakes
<1>9. InPlace(h, n) <=> Takes(client, h, n)
  BY DEF InPlace, Takes
<1>10. IF ~InPlace(h, n)
       THEN link' = "garbled" /\ client' = client /\ got' = got
       ELSE /\ client' = d /\ link' = link
            /\ got' = IF left = 0 THEN Append(got, Delivered(b)) ELSE got
  BY <1>6 DEF ClientReads
<1> HIDE DEF h, n, m, b, left, d, i
<1>11. CASE ~InPlace(h, n)
  <2>1. link' = "garbled" /\ got' = got /\ ~SafeMsg(m)
    BY <1>8, <1>9, <1>10, <1>11
  <2> QED BY <1>1, <1>2, <1>6, <2>1 DEF m
<1>12. CASE InPlace(h, n)
  <2>1. /\ client' = d /\ link' = link /\ SafeMsg(m) /\ Meets(handed, i, d, y)
        /\ got' = IF left = 0 THEN Append(got, Delivered(b)) ELSE got
        /\ b = Begins(chunk_header_c0(m))
    BY <1>8, <1>9, <1>10, <1>12
  <2>2. Delivered(b) = View(m)
    BY <1>7, <2>1, DeliveredIsView
  <2>3. Len(got') = i
    <3>1. PICK S : got \in Seq(S)
      BY <1>2 DEF IsSeq
    <3>2. got \in Seq(S \cup {Delivered(b)}) /\ Delivered(b) \in S \cup {Delivered(b)}
      <4>1. S \subseteq S \cup {Delivered(b)}
        OBVIOUS
      <4> QED BY <3>1, <4>1, SeqMonotonic
    <3>3. Len(Append(got, Delivered(b))) = Len(got) + 1
      BY <3>2, AppendProperties
    <3> QED BY <2>1, <3>3 DEF i
  <2>4. /\ Len(wire') = Len(wire) - 2
        /\ \A j \in 1 .. Len(wire) - 2 : wire'[j] = wire[j + 2]
    <3> DEFINE w == SubSeq(wire, 3, Len(wire))
               a == 3
               z == Len(wire)
    <3>1. z \in Nat /\ z >= 2 /\ z <= Len(wire) /\ IsSeq(wire) /\ a \in Nat /\ 1 <= a /\ a = 3
      BY <1>1, <1>2 DEF Typed
    <3>2. w = SubSeq(wire, a, z) /\ wire' = w
      BY <1>1
    <3> HIDE DEF w, a, z
    <3>3. /\ Len(w) = IF a <= z THEN z - a + 1 ELSE 0
          /\ \A j \in 1 .. z - a + 1 : w[j] = wire[a + j - 1]
      BY <3>1, <3>2, SeqPart
    <3>4. Len(w) = z - 2
      BY <3>1, <3>3
    <3>5. ASSUME NEW j \in 1 .. z - 2 PROVE w[j] = wire[j + 2]
      <4>1. j \in 1 .. z - a + 1 /\ a + j - 1 = j + 2
        BY <3>1
      <4> QED BY <3>3, <4>1
    <3> QED BY <3>2, <3>4, <3>5 DEF z
  <2>5. First' = First /\ Total' = Total - 2
    <3>1. First' = First
      BY <1>1 DEF First
    <3>2. CASE link = "up"
      <4>1. /\ Len(iovs) \in Nat /\ First \in Nat
            /\ Total = Len(wire) + Len(iovs) - First
        BY <1>1, <3>2, StreamEnd
      <4>2. Total' = Len(wire') + Len(iovs') - First'
        BY <2>1, <3>2 DEF Total
      <4> HIDE DEF First
      <4> QED BY <1>1, <1>2, <2>4, <3>1, <4>1, <4>2
    <3>3. CASE link # "up"
      BY <1>1, <1>2, <2>1, <2>4, <3>1, <3>3 DEF Total
    <3> QED BY <3>2, <3>3
  <2>6. ASSUME NEW j \in 1 .. Total - 2 PROVE Stream'[j] = Stream[j + 2]
    <3>1. j \in 1 .. Total' /\ j + 2 \in 1 .. Total /\ j \in Nat
      BY <1>3, <2>5
    <3>2. CASE j + 2 <= Len(wire)
      <4>1. j <= Len(wire') /\ j \in 1 .. Len(wire) - 2
        BY <1>2, <2>4, <3>1, <3>2
      <4>2. Stream'[j] = wire'[j]
        BY <3>1, <4>1 DEF Stream
      <4>3. Stream[j + 2] = wire[j + 2]
        BY <3>1, <3>2 DEF Stream
      <4> QED BY <2>4, <4>1, <4>2, <4>3
    <3>3. CASE ~(j + 2 <= Len(wire))
      <4> DEFINE k == First + (j + 2) - Len(wire)
      <4>0. First \in Int
        <5>1. CASE link = "up"
          BY <1>1, <5>1, StreamEnd
        <5>2. CASE link # "up"
          BY <1>1 DEF First, Typed
        <5> QED BY <5>1, <5>2
      <4>1. ~(j <= Len(wire')) /\ First' + j - Len(wire') = k
        <5> HIDE DEF First
        <5> QED BY <1>2, <2>4, <2>5, <3>1, <3>3, <4>0
      <4>2. Stream[j + 2] = Gathered(iovs[k])
        BY <3>1, <3>3 DEF Stream
      <4> HIDE DEF k, First
      <4>3. Stream'[j] = [header |-> IF iovs'[k].at >= 0 THEN cache'[iovs'[k].at] ELSE NoHeader,
                          n |-> iovs'[k].n]
        BY <3>1, <4>1 DEF Stream, Gathered
      <4> QED BY <1>1, <4>2, <4>3 DEF Gathered
    <3> QED BY <3>2, <3>3
  <2>7. Cut' = Cut
    BY <1>1 DEF Cut
  <2>8. Flow(handed, Stream', Total - 2, link, i, d, Cut)
    <3> HIDE DEF Stream, Total, Cut
    <3> QED BY <1>5, <2>1, <2>6
  <2>9. FlowInv'
    <3> HIDE DEF Stream, Total, Cut
    <3> QED BY <1>1, <2>1, <2>3, <2>5, <2>7, <2>8 DEF FlowInv
  <2>10. got' = got \/ got' = Append(got, View(m))
    BY <2>1, <2>2
  <2> QED BY <1>1, <1>2, <1>6, <2>1, <2>9, <2>10 DEF m
<1> QED BY <1>11, <1>12

LEMMA ReadJInv == ASSUME JInv, IInv', ClientReads PROVE JInv'
<1>1. /\ Typed /\ Controlled /\ Placed
      /\ link' \in {link, "garbled"}
      /\ wire' = SubSeq(wire, 3, Len(wire)) /\ Len(wire) >= 2
      /\ call' = call /\ todo' = todo /\ iovs' = iovs /\ cache' = cache /\ c0c3' = c0c3
      /\ cur_pos' = cur_pos /\ handed' = handed
  BY DEF JInv, ClientReads, cacheVars
<1>2. IsSeq(got')
  <2>1. PICK S : got \in Seq(S)
    BY <1>1 DEF Typed, IsSeq
  <2>2. PICK z : got' = got \/ got' = Append(got, z)
    BY ReadSteps
  <2>3. got \in Seq(S \cup {z}) /\ z \in S \cup {z}
    <3>1. S \subseteq S \cup {z}
      OBVIOUS
    <3> QED BY <2>1, <3>1, SeqMonotonic
  <2>4. got' \in Seq(S \cup {z})
    BY <2>2, <2>3, AppendProperties
  <2> QED BY <2>4 DEF IsSeq
<1>3. IsSeq(wire')
  <2>1. Len(wire) \in Nat /\ IsSeq(wire) /\ 3 \in Nat /\ 1 <= 3 /\ Len(wire) <= Len(wire)
    BY <1>1, LenProperties DEF Typed, IsSeq
  <2> QED BY <1>1, <2>1, SeqPart, Zenon
<1>4. Typed'
  BY <1>1, <1>2, <1>3 DEF Typed
<1>5. Controlled' /\ Placed'
  BY <1>1 DEF Controlled, Placed
<1>6. FlowInv'
  BY ReadSteps DEF FlowInv
<1> QED BY <1>4, <1>5, <1>6 DEF JInv
-----------------------------------------------------------------------------
\* Before the first message both ends are at the beginning of an empty stream.
LEMMA InitJInv == Init => JInv
<1> SUFFICES ASSUME Init PROVE JInv
  OBVIOUS
<1>1. IInv
  BY InitIInv
<1>2. /\ call = "idle" /\ todo = <<>> /\ sent = 0 /\ iovs = <<>> /\ cur_pos = 0
      /\ out_size = FirstSize /\ link = "up" /\ wire = <<>> /\ handed = <<>> /\ got = <<>>
      /\ client.size = FirstSize /\ client.left = 0
      /\ cache = [i \in 0 .. CacheMax - 1 |-> NoHeader]
  BY DEF Init
<1>3. IsSeq(<<>>) /\ Len(<<>>) = 0 /\ <<>> \in Seq(Messages)
  BY EmptySeq DEF IsSeq
<1>4. Handed(handed) /\ Rest(handed, todo)
  BY <1>2, <1>3 DEF Handed, Rest
<1>5. Typed
  BY <1>2, <1>3, <1>4 DEF Typed
<1>6. Controlled /\ Placed
  BY <1>2, <1>3 DEF Controlled, Placed
<1>7. FlowInv
  <2>1. Total = 0 /\ Cut = [k |-> 1, off |-> 0, size |-> FirstSize] /\ Len(handed) = 0 /\ Len(got) = 0
    BY <1>2, <1>3 DEF Total, First, Cut
  <2>2. Cut \in Places /\ Inside(handed, Cut) /\ Meets(handed, Len(got), client, Cut)
    BY <1>2, <2>1, SenderAssumption DEF Places, Inside, Meets
  <2> HIDE DEF Stream, Total, Cut
  <2> DEFINE p == [j \in 0 .. 0 |-> Cut]
  <2>3. p[0] = Cut
    OBVIOUS
  <2> HIDE DEF p
  <2>4. Path(handed, Stream, 0, p)
    BY <2>2, <2>3 DEF Path
  <2>5. Flow(handed, Stream, Total, link, Len(got), client, Cut)
    BY <2>1, <2>2, <2>3, <2>4 DEF Flow
  <2> QED BY <2>5 DEF FlowInv
<1> QED BY <1>1, <1>5, <1>6, <1>7 DEF JInv

\* Every step keeps the invariant.
LEMMA NextJInv == JInv /\ [Next]_vars => JInv'
<1> SUFFICES ASSUME JInv, [Next]_vars PROVE JInv'
  OBVIOUS
<1>1. IInv'
  BY NextIInv DEF JInv
<1>2. CASE Next
  BY <1>1, <1>2, PacketJInv, BatchJInv, SimpleJInv, GatherJInv, FlushJInv, ReadJInv DEF Next
<1>3. CASE UNCHANGED vars
  BY <1>1, <1>3 DEF vars, cacheVars, ends, JInv, Typed, Controlled, Placed, FlowInv,
                    Stream, Total, First, Cut, Gathered
<1> QED BY <1>2, <1>3

\* A stream that is wholly read leaves the client where the next chunk will be cut.
LEMMA SizesMeet == JInv => SizesAgree
<1> SUFFICES ASSUME JInv, link = "up", call = "idle", wire = <<>> PROVE client.size = out_size
  BY DEF SizesAgree
<1>1. Typed /\ Controlled /\ FlowInv /\ iovs = <<>>
  BY DEF JInv, Controlled
<1>2. Total = 0 /\ Flow(handed, Stream, Total, "up", Len(got), client, Cut)
  <2>1. Len(<<>>) = 0
    OBVIOUS
  <2>2. Total = Len(wire) + Len(iovs) - First /\ First = 0
    BY <1>1, StreamEnd DEF First
  <2> QED BY <1>1, <2>1, <2>2, StreamEnd
<1>3. Meets(handed, Len(got), client, Cut)
  <2> HIDE DEF Stream, Total, Cut
  <2>0. PICK n \in Nat : \E p : Meets(handed, Len(got), client, p[0]) /\ Total = 2 * n /\ p[n] = Cut
    BY <1>2 DEF Flow
  <2>1. PICK p : Meets(handed, Len(got), client, p[0]) /\ Total = 2 * n /\ p[n] = Cut
    BY <2>0
  <2>2. n = 0
    BY <1>2, <2>1
  <2> QED BY <2>1, <2>2
<1> QED BY <1>3 DEF Meets, Cut

(***************************************************************************)
(* For every chunk size announced and any messages, batches, caches and    *)
(* failures: when a call has ended and the client has read everything, it  *)
(* cuts chunks by the size that the server writes them by.                 *)
(***************************************************************************)
THEOREM SendSizesAgree == Spec => []SizesAgree
<1> QED BY InitJInv, NextJInv, SizesMeet, PTL DEF Spec
-----------------------------------------------------------------------------
\* The messages handed over, as Channel sees them.
Accepted(H) == [i \in DOMAIN H |-> View(H[i])]

LEMMA AcceptedSeq ==
  ASSUME NEW H, Handed(H)
  PROVE  /\ IsSeq(Accepted(H)) /\ Len(Accepted(H)) = Len(H) /\ Len(H) \in Nat
         /\ \A i \in 1 .. Len(H) : Accepted(H)[i] = View(H[i])
<1>1. Len(H) \in Nat /\ DOMAIN H = 1 .. Len(H)
  BY LenProperties DEF Handed
<1>2. \A i \in 1 .. Len(H) : Accepted(H)[i] = View(H[i])
  BY <1>1 DEF Accepted
<1>3. Accepted(H) = [i \in 1 .. Len(H) |-> Accepted(H)[i]]
  BY <1>1 DEF Accepted
<1> QED BY <1>1, <1>2, <1>3, SeqOf

\* Handing over messages is Accept, or nothing when all of them are empty.
LEMMA AcceptStep ==
  ASSUME JInv, todo = <<>>, link = "up",
         NEW msgs \in Seq({m \in Messages : m.len > 0}), handed' = handed \o msgs,
         got' = got, link' = link
  PROVE  [Sending!Next]_(Sending!vars)
<1> DEFINE H == handed \o msgs
<1>1. /\ Handed(H) /\ Len(H) = Len(handed) + Len(msgs) /\ Len(handed) \in Nat /\ Len(msgs) \in Nat
      /\ \A i \in 1 .. Len(handed) : H[i] = handed[i]
  BY HandOver DEF JInv
<1>2. Handed(handed)
  BY DEF JInv, Typed, Rest
<1>3. handed' = H
  OBVIOUS
<1> HIDE DEF H
<1> DEFINE a == Accepted(handed)
           b == Accepted(H)
<1>4. /\ IsSeq(a) /\ Len(a) = Len(handed) /\ \A i \in 1 .. Len(handed) : a[i] = View(handed[i])
      /\ IsSeq(b) /\ Len(b) = Len(H) /\ \A i \in 1 .. Len(H) : b[i] = View(H[i])
  BY <1>1, <1>2, AcceptedSeq
<1>5. Accepted(handed)' = b
  BY <1>3 DEF Accepted
<1>6. CASE Len(msgs) = 0
  <2>1. msgs = <<>>
    BY <1>6, EmptySeq
  <2>2. handed' = handed
    <3>1. handed \in Seq(Messages)
      BY <1>2 DEF Handed
    <3> QED BY <2>1, <3>1, ConcatEmptySeq
  <2> QED BY <2>2 DEF Sending!vars
<1>7. CASE Len(msgs) # 0
  <2> HIDE DEF a, b
  <2>1. Len(b) > Len(a)
    BY <1>1, <1>4, <1>7
  <2>2. SubSeq(b, 1, Len(a)) = a
    <3> DEFINE u == SubSeq(b, 1, Len(a))
               n == Len(a)
               one == 1
    <3>1. n \in Nat /\ one \in Nat /\ 1 <= one /\ one = 1 /\ n <= Len(b)
      BY <1>1, <1>4, <2>1
    <3>2. u = SubSeq(b, one, n)
      OBVIOUS
    <3> HIDE DEF u, n, one
    <3>3. /\ IsSeq(u) /\ Len(u) = IF one <= n THEN n - one + 1 ELSE 0
          /\ \A i \in 1 .. n - one + 1 : u[i] = b[one + i - 1]
      BY <1>4, <3>1, <3>2, SeqPart
    <3>4. Len(u) = n
      BY <3>1, <3>3
    <3>5. ASSUME NEW i \in 1 .. n PROVE u[i] = a[i]
      <4>1. i \in 1 .. n - one + 1 /\ one + i - 1 = i
        BY <3>1
      <4>2. i \in 1 .. Len(handed) /\ i \in 1 .. Len(H)
        BY <1>1, <1>4, <3>1 DEF n
      <4> QED BY <1>1, <1>4, <3>3, <4>1, <4>2
    <3>6. PICK S : u \in Seq(S)
      BY <3>3 DEF IsSeq
    <3>7. PICK T : a \in Seq(T)
      BY <1>4 DEF IsSeq
    <3>8. u \in Seq(S \cup T) /\ a \in Seq(S \cup T)
      <4>1. S \subseteq S \cup T /\ T \subseteq S \cup T
        OBVIOUS
      <4> QED BY <3>6, <3>7, <4>1, SeqMonotonic
    <3>9. Len(a) = n
      BY DEF n
    <3>10. u = a
      BY <3>4, <3>5, <3>8, <3>9, SeqEqual
    <3> QED BY <3>10 DEF u
  <2>3. Sending!Accept
    BY <1>5, <2>1, <2>2, Zenon DEF Sending!Accept, Accepted, a
  <2> QED BY <2>3 DEF Sending!Next
<1> QED BY <1>1, <1>6, <1>7

\* A write that fails is Fail; one that succeeds is nothing.
LEMMA WriteStep ==
  ASSUME NEW items, WriteEv(items), link = "up", handed' = handed, got' = got
  PROVE  [Sending!Next]_(Sending!vars)
<1>1. CASE link' = link
  BY <1>1 DEF Sending!vars
<1>2. CASE link' = "down"
  BY <1>2 DEF Sending!Next, Sending!Fail
<1> QED BY <1>1, <1>2 DEF WriteEv

\* Reading a chunk is Deliver with the last one of a message, and Garble with an unsafe one.
LEMMA ReadStep == ASSUME JInv, ClientReads PROVE [Sending!Next]_(Sending!vars)
<1>1. handed' = handed /\ link # "garbled"
  BY DEF ClientReads
<1> DEFINE n == Len(got) + 1
           a == Accepted(handed)
<1>2. /\ Len(got) \in Nat /\ n <= Len(handed) /\ Handed(handed)
      /\ \/ link' = "garbled" /\ got' = got /\ ~SafeMsg(handed[n])
         \/ link' = link /\ (got' = got \/ got' = Append(got, View(handed[n])))
  BY ReadSteps
<1>3. /\ Len(a) = Len(handed) /\ Len(handed) \in Nat /\ n \in 1 .. Len(handed)
      /\ a[n] = View(handed[n])
  BY <1>2, AcceptedSeq
<1>4. CASE link' = "garbled" /\ got' = got /\ ~SafeMsg(handed[n])
  <2>1. ~a[n].safe
    <3> HIDE DEF n, a
    <3>1. View(handed[n]).safe <=> SafeMsg(handed[n])
      BY DEF View, SafeMsg
    <3> QED BY <1>3, <1>4, <3>1
  <2>2. n \in Len(got) + 1 .. Len(a)
    BY <1>2, <1>3
  <2>3. \E i \in Len(got) + 1 .. Len(a) : ~a[i].safe
    BY <2>1, <2>2
  <2>4. Sending!Garble
    BY <1>1, <1>4, <2>3, Zenon DEF Sending!Garble, Accepted
  <2> QED BY <2>4 DEF Sending!Next
<1>5. CASE link' = link /\ got' = got
  BY <1>1, <1>5 DEF Sending!vars
<1>6. CASE link' = link /\ got' = Append(got, View(handed[n]))
  <2>1. Len(got) < Len(a)
    BY <1>2, <1>3
  <2>2. got' = Append(got, a[Len(got) + 1])
    BY <1>3, <1>6
  <2>3. Sending!Deliver
    BY <1>1, <1>6, <2>1, <2>2, Zenon DEF Sending!Deliver, Accepted
  <2> QED BY <2>3 DEF Sending!Next
<1> QED BY <1>2, <1>4, <1>5, <1>6

(***************************************************************************)
(* The sending half takes no step that Channel does not allow, whatever    *)
(* the messages, batches, chunk sizes, caches, iovecs and failing writes:  *)
(* what the client puts together are the messages handed over, whole, once *)
(* and in order, and only an unsafe one makes it lose its place.           *)
(***************************************************************************)
THEOREM SendImplementsChannel == Spec => Sending!Safety
<1>1. Init => Sending!Init
  <2> SUFFICES ASSUME Init PROVE Sending!Init
    OBVIOUS
  <2>1. handed = <<>> /\ got = <<>> /\ link = "up"
    BY DEF Init
  <2>2. [i \in DOMAIN handed |-> View(handed[i])] = <<>>
    BY <2>1
  <2> QED BY <2>1, <2>2 DEF Sending!Init
<1>2. JInv /\ [Next]_vars => [Sending!Next]_(Sending!vars)
  <2> SUFFICES ASSUME JInv, [Next]_vars PROVE [Sending!Next]_(Sending!vars)
    OBVIOUS
  <2> DEFINE K == {m \in Messages : m.len > 0}
  <2>1. ASSUME NEW m \in Packets, SendAndFreePacket(m) PROVE [Sending!Next]_(Sending!vars)
    <3>1. m \in K /\ m \in Messages
      BY <2>1, SenderAssumption DEF SendAndFreePacket
    <3>2. <<m>> \in Seq(K)
      <4> HIDE DEF K
      <4> QED BY <3>1
    <3>3. link = "up" /\ todo = <<>> /\ got' = got /\ link' = link /\ handed' = Append(handed, m)
      BY <2>1 DEF SendAndFreePacket, ends, JInv, Controlled
    <3>4. handed' = handed \o <<m>>
      <4>1. handed \in Seq(Messages)
        BY DEF JInv, Typed, Rest, Handed
      <4> QED BY <3>1, <3>3, <4>1, AppendIsConcat
    <3> QED BY <3>2, <3>3, <3>4, AcceptStep
  <2>2. ASSUME NEW batch \in Batches, SendAndFreeMessage(batch) PROVE [Sending!Next]_(Sending!vars)
    <3> DEFINE msgs == NotEmpty(Checked(batch))
    <3>1. msgs \in Seq({m \in {x \in Messages : x.size = 0} : m.len > 0})
      BY CheckedMessages, NotEmptyKept
    <3>2. /\ link = "up" /\ todo = <<>> /\ got' = got /\ link' = link
          /\ handed' = handed \o msgs
      BY <2>2 DEF SendAndFreeMessage, ends, JInv, Controlled
    <3> HIDE DEF msgs
    <3>3. msgs \in Seq(K)
      <4>1. {m \in {x \in Messages : x.size = 0} : m.len > 0} \subseteq K
        OBVIOUS
      <4> QED BY <3>1, <4>1, SeqMonotonic
    <3> QED BY <3>2, <3>3, AcceptStep
  <2>3. CASE DoSimpleSend
    BY <2>3, WriteStep DEF DoSimpleSend
  <2>4. CASE DoSendMessages
    BY <2>4 DEF DoSendMessages, ends, Sending!vars
  <2>5. CASE SendLargeIovs
    BY <2>5, WriteStep DEF SendLargeIovs
  <2>6. CASE ClientReads
    BY <2>6, ReadStep
  <2>7. CASE UNCHANGED vars
    BY <2>7 DEF vars, ends, Sending!vars
  <2> QED BY <2>1, <2>2, <2>3, <2>4, <2>5, <2>6, <2>7 DEF Next
<1> QED BY <1>1, <1>2, InitJInv, NextJInv, PTL DEF Spec, Sending!Safety
=============================================================================
