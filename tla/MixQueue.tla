------------------------------ MODULE MixQueue ------------------------------
(***************************************************************************)
(* common/queue.hpp, MixQueue<SharedPtrMessage>: the mix_correct reorder   *)
(* buffer between a publisher and the relay.  A queue is a record          *)
(*   msgs       the multimap, as a set of entries [seq, msg]: seq is the   *)
(*              arrival number that orders entries of equal timestamp      *)
(*   nb_videos, nb_audios   the two counters                               *)
(*   arrivals   the number of messages pushed so far                       *)
(***************************************************************************)
EXTENDS Media, FiniteSets

CONSTANT Pure                       \* MIX_CORRECT_PURE_AV

ASSUME PureAssumption == Pure \in Nat \ {0}

EmptyMix == [msgs |-> {}, nb_videos |-> 0, nb_audios |-> 0, arrivals |-> 0]

MixPush(q, m) ==
  [msgs      |-> q.msgs \cup {[seq |-> q.arrivals + 1, msg |-> m]},
   nb_videos |-> IF IsVideo(m) THEN q.nb_videos + 1 ELSE q.nb_videos,
   nb_audios |-> IF IsVideo(m) THEN q.nb_audios ELSE q.nb_audios + 1,
   arrivals  |-> q.arrivals + 1]

(***************************************************************************)
(* mix_ok.  The third test of the code reads nb_audios_ twice.             *)
(***************************************************************************)
MixOk(q) ==
  \/ q.nb_videos >= Pure /\ q.nb_audios = 0
  \/ q.nb_audios >= Pure /\ q.nb_videos = 0
  \/ q.nb_audios > 0 /\ q.nb_audios > 0

\* Mutant: entries of equal timestamp come out last in, first out.
PrecedesLifo(a, b) ==
  a.msg.ts < b.msg.ts \/ (a.msg.ts = b.msg.ts /\ a.seq >= b.seq)

\* The multimap's order: by timestamp, equal keys in order of insertion.
Precedes(a, b) ==
  a.msg.ts < b.msg.ts \/ (a.msg.ts = b.msg.ts /\ a.seq <= b.seq)

\* msgs_.begin() of a non-empty queue.
MixBegin(q) == CHOOSE a \in q.msgs : \A b \in q.msgs : Precedes(a, b)

\* Mutant: Pop counts nothing but audio out.
MixPopAudioOnly(q) ==
  LET e == MixBegin(q)
  IN  [q EXCEPT !.msgs = @ \ {e}, !.nb_audios = IF IsAudio(e.msg) THEN @ - 1 ELSE @]

MixPop(q) ==
  LET e == MixBegin(q)
  IN  [q EXCEPT !.msgs      = @ \ {e},
                !.nb_audios = IF IsAudio(e.msg) THEN @ - 1 ELSE @,
                !.nb_videos = IF IsAudio(e.msg) THEN @ ELSE @ - 1]
=============================================================================
