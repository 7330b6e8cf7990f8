------------------------------ MODULE GopCache ------------------------------
(***************************************************************************)
(* protocol/gop_cache.cpp: the recent messages a new consumer is given.    *)
(* A cache is [msgs, cached_video_count, audio_after] (queue_,             *)
(* cached_video_count_, audio_after_last_video_count_).  Nothing calls     *)
(* GopCache::Set, so enable_gop_cache_ stays TRUE.                         *)
(***************************************************************************)
EXTENDS Media, Sequences

CONSTANT PureAudioGuess      \* PURE_AUDIO_GUESS_THRESHOLD

ASSUME GopAssumption == PureAudioGuess \in Nat

EmptyGop == [msgs |-> <<>>, cached_video_count |-> 0, audio_after |-> 0]

\* Mutant: Clear forgets the video counter.
CountedKeepsVideos(g, m) ==
  IF IsVideo(m)
  THEN IF IsKeyFrame(m)
       THEN [g EXCEPT !.cached_video_count = @ + 1, !.audio_after = 0]
       ELSE [msgs |-> <<>>, audio_after |-> 0,
             cached_video_count |-> g.cached_video_count + 1]
  ELSE [g EXCEPT !.audio_after = @ + 1]

(***************************************************************************)
(* The first part of GopCache::Cache: a video that is NOT a key frame      *)
(* clears the cache (the code's test is negated), a key frame is counted.  *)
(***************************************************************************)
Counted(g, m) ==
  IF IsVideo(m)
  THEN IF IsKeyFrame(m)
       THEN [g EXCEPT !.cached_video_count = @ + 1, !.audio_after = 0]
       ELSE [msgs |-> <<>>, cached_video_count |-> 1, audio_after |-> 0]
  ELSE [g EXCEPT !.audio_after = @ + 1]

PureAudioOverflow(g) == g.audio_after > PureAudioGuess

\* GopCache::Cache.
GopCacheMsg(g, m) ==
  LET c == Counted(g, m)
  IN  IF PureAudioOverflow(c) THEN EmptyGop ELSE [c EXCEPT !.msgs = Append(@, m)]

\* The messages Clear frees during GopCache::Cache.
GopFrees(g, m) ==
  IF Counted(g, m).msgs = <<>> \/ PureAudioOverflow(Counted(g, m)) THEN g.msgs ELSE <<>>

\* A copy of m is added.
GopCopies(g, m) == ~PureAudioOverflow(Counted(g, m))
=============================================================================
