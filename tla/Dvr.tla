-------------------------------- MODULE Dvr ---------------------------------
(***************************************************************************)
(* app/dvr.cpp with the FLV muxer and FileWriter below it: the messages of *)
(* several Sources recorded into FLV segments, with writes that fail, a    *)
(* process that is killed and started again, and the files that survive it.*)
(*                                                                         *)
(* The configured plan is the segment plan with dvr_wait_keyframe on and   *)
(* the segment's jitter off.  GetDvrPath does not look at the vhost,       *)
(* StringReplace replaces nothing, and Request::Copy leaves the stream     *)
(* out: all Sources open the same path each time, first under the same     *)
(* temporary name.  Metadata never reaches the DVR.  A tag is [kind, id,   *)
(* cls]; the low 24 bits of its time, in whose place                       *)
(* write_tag_header_to_cache writes the type, are left out.                *)
(*                                                                         *)
(* FileWriter::Close keeps stfd_: from then on the writer seems open, Open *)
(* returns at once, and what is written through the closed descriptor      *)
(* fails or, when the number is in use again, goes elsewhere, which may be *)
(* the file of another Source.  So a Source opens once in a process.       *)
(***************************************************************************)
EXTENDS Media, Sequences

CONSTANTS
  Sources,     \* the Sources of the process, one for each vhost
  Times,       \* timestamps of messages
  SegmentDuration,  \* segment_duration_
  AudioLimit,  \* NUM_TO_JUDGE_DVR_ONLY_HASH_AUDIO
  MaxMsgs,     \* messages dispatched, a kill counting as one
  MaxFaults,   \* failing system calls
  MaxRestarts  \* times the process is killed

ASSUME DvrAssumption ==
  /\ Times \subseteq Nat
  /\ SegmentDuration \in Nat \ {0} /\ AudioLimit \in Nat \ {0}
  /\ MaxMsgs \in Nat /\ MaxFaults \in Nat /\ MaxRestarts \in Nat

VARIABLES
  enabled,    \* dvr_enabled_, of each Source, as what follows
  seg,        \* FlvSegment, its FileWriter and the descriptor below it
  audio_num,  \* audio_num_before_segment_
  sh_video,   \* the time of sh_video_, -1 for nullptr
  base,       \* contents of the opened file after Open
  seen,       \* messages between Open and Close, each with what became of its write
  file,       \* the two names on disk: contents, or Missing
  disturbed,  \* Sources whose file another has opened or written to meanwhile
  next, faults, restarts

sourceVars == <<enabled, seg, audio_num, sh_video, base, seen>>
vars == <<sourceVars, file, disturbed, next, faults, restarts>>

Item(kind, id, cls) == [kind |-> kind, id |-> id, cls |-> cls]
FlvHeader == Item("header", 0, "none")
TornItem(id) == Item("torn", id, "none")
Missing == <<Item("missing", 0, "none")>>

\* What two Sources leave of a file when one has written over the other.
Spoilt == <<Item("spoilt", 0, "none")>>

(***************************************************************************)
(* A new FlvSegment.  writer is stfd_: "null", "open", or "closed" and     *)
(* kept.  The descriptor is on a file, under the name that has by now, at  *)
(* a position, the end of what it has seen the file hold; over holds the   *)
(* Sources whose closed handle may have got its number.                    *)
(***************************************************************************)
NewSegment ==
  [writer |-> "null", temp |-> "tmp", on |-> "none", at |-> <<>>, over |-> {},
   muxer |-> FALSE, jitter |-> FALSE, keyframe |-> FALSE, duration |-> 0, prev |-> -1]

Each(v) == [s \in Sources |-> v]

Init ==
  /\ enabled = Each(FALSE) /\ seg = Each(NewSegment)
  /\ audio_num = Each(0) /\ sh_video = Each(-1)
  /\ base = Each(<<>>) /\ seen = Each(<<>>)
  /\ file = [tmp |-> Missing, path |-> Missing] /\ disturbed = {}
  /\ next = 1 /\ faults = 0 /\ restarts = 0

IsOpen(d) == d.writer # "null"

\* The history of s, kept while it has its file to itself.
Notes(s, m, out) ==
  seen' = IF seg[s].writer = "open" /\ s \notin disturbed
          THEN [seen EXCEPT ![s] = Append(@, [id |-> m.id, cls |-> m.cls, out |-> out])] ELSE seen

\* A fault is possible while there are any left.
MayFail == faults < MaxFaults
Failed(f) == faults' = IF f THEN faults + 1 ELSE faults
-----------------------------------------------------------------------------
(***************************************************************************)
(* FlvSegment::Close: writer_->Close, then the rename of a temporary file. *)
(* A rename takes with it every descriptor on the file.                    *)
(***************************************************************************)
Renames(d) == d.temp = "tmp"
CanRename(d) == Renames(d) => file.tmp # Missing

\* Whether Close of an open segment succeeds.
CloseOutcomes(d) ==
  CASE ~CanRename(d) -> {FALSE}
    [] CanRename(d) /\ Renames(d) /\ MayFail -> BOOLEAN
    [] OTHER -> {TRUE}

\* The Sources whose descriptor may have the number that the closed handle of s kept.
Reusing(s) == {t \in Sources : s \in seg[t].over /\ seg[t].writer = "open"}

\* The segments after a Close of s, which leaves d, and may close a descriptor of another.
Released(s, d, other) ==
  [t \in Sources |-> CASE t = s -> d
                       [] t # s /\ t \in other -> [seg[t] EXCEPT !.writer = "closed"]
                       [] OTHER -> seg[t]]

\* The names the descriptors are on after a rename.
Moved(segs) ==
  [t \in Sources |-> IF segs[t].on = "tmp" THEN [segs[t] EXCEPT !.on = "path"] ELSE segs[t]]

Close(s, d, ok) ==
  /\ \E other \in {{}} \cup {{t} : t \in Reusing(s)} :
       /\ seg' = IF ok /\ Renames(d) THEN Moved(Released(s, d, other)) ELSE Released(s, d, other)
       /\ disturbed' = disturbed \cup other
  /\ file' = IF ok /\ Renames(d) THEN [tmp |-> Missing, path |-> file.tmp] ELSE file
  /\ Failed(~ok /\ CanRename(d))

Closed(d) == [d EXCEPT !.writer = "closed"]

(***************************************************************************)
(* Open of a segment that has no file yet, and how far it gets: the        *)
(* directory, the file, the FLV header (of which a part may be written).   *)
(***************************************************************************)

\* Mutant: a recording that is there already is not noticed.
FoundNever == FALSE
\* !new_flv_file: an earlier segment, of whichever Source, has the final name.
Found == file.path # Missing

NameOpened == IF Found THEN "path" ELSE "tmp"

\* create_jitter and the choice of a name; an appended file keeps the segment's state.
Opened(d) ==
  [d EXCEPT !.jitter = TRUE,
            !.temp = NameOpened,
            !.keyframe = IF Found THEN @ ELSE FALSE,
            !.duration = IF Found THEN @ ELSE 0,
            !.prev = IF Found THEN @ ELSE -1]

\* The segment once it has a descriptor, behind the given contents.
Holding(d, contents) ==
  [Opened(d) EXCEPT !.writer = "open", !.muxer = TRUE, !.on = NameOpened, !.at = contents,
                    !.over = {t \in Sources : seg[t].writer = "closed"}]

\* O_APPEND disturbs those who write to the file as well, O_TRUNC all who had it.
Disturbs(s) ==
  LET others  == {t \in Sources \ {s} : seg[t].on = NameOpened}
      writing == {t \in others : seg[t].writer = "open"}
  IN  disturbed' = disturbed \cup (IF Found THEN writing ELSE others)
                             \cup (IF writing = {} THEN {} ELSE {s})

\* dvr_enabled_ after OnPublish: set last, when Close and Open have succeeded.
Enables(s, ok) == enabled' = [enabled EXCEPT ![s] = ok]

CreateDirFails(s) ==
  /\ MayFail /\ Failed(TRUE) /\ Enables(s, FALSE)
  /\ UNCHANGED <<seg, file, base, seen, disturbed>>

FileOpenFails(s) ==
  /\ MayFail /\ Failed(TRUE) /\ Enables(s, FALSE)
  /\ seg' = [seg EXCEPT ![s] = Opened(@)]
  /\ UNCHANGED <<file, base, seen, disturbed>>

FlvHeaderFails(s) ==
  /\ MayFail /\ Failed(TRUE) /\ ~Found /\ Enables(s, FALSE)
  /\ \E part \in {<<>>, <<TornItem(0)>>} :
       /\ file' = [file EXCEPT !.tmp = part]
       /\ seg' = [seg EXCEPT ![s] = Holding(@, part)]
  /\ Disturbs(s)
  /\ UNCHANGED <<base, seen>>

Succeeds(s) ==
  LET contents == IF Found THEN file.path ELSE <<FlvHeader>> IN
    /\ Failed(FALSE) /\ Enables(s, TRUE)
    /\ file' = [file EXCEPT ![NameOpened] = contents]
    /\ seg' = [seg EXCEPT ![s] = Holding(@, contents)]
    /\ base' = [base EXCEPT ![s] = contents] /\ seen' = [seen EXCEPT ![s] = <<>>]
    /\ Disturbs(s)

Open(s) == CreateDirFails(s) \/ FileOpenFails(s) \/ FlvHeaderFails(s) \/ Succeeds(s)

(***************************************************************************)
(* DvrSegmentPlan::OnPublish.  A segment whose Open failed at the header   *)
(* is closed first; Open then finds its writer open and does nothing.      *)
(***************************************************************************)
OnPublish(s) ==
  /\ \/ /\ enabled[s]
        /\ UNCHANGED <<enabled, seg, file, base, seen, disturbed, faults>>
     \/ ~enabled[s] /\ ~IsOpen(seg[s]) /\ Open(s)
     \/ /\ ~enabled[s] /\ IsOpen(seg[s])
        /\ \E ok \in CloseOutcomes(seg[s]) :
             Close(s, Closed(seg[s]), ok) /\ Enables(s, ok)
        /\ UNCHANGED <<base, seen>>
  /\ UNCHANGED <<audio_num, sh_video, next, restarts>>
-----------------------------------------------------------------------------
(***************************************************************************)
(* Writing a tag.                                                          *)
(***************************************************************************)
IsKey(m) == IsKeyFrame(m) /\ ~IsVideoSeqenceHeader(m)

\* Mutant: the key frame itself does not count.
WantedLate(d, m) == IsAudio(m) \/ d.keyframe \/ IsVideoSeqenceHeader(m)

\* WriteVideo drops what comes before the first key frame, except headers.
Wanted(d, m) == IsAudio(m) \/ d.keyframe \/ IsKey(m) \/ IsVideoSeqenceHeader(m)

\* on_update_duration: a time that goes back counts nothing.
Elapsed(d, ts) ==
  LET prev == IF d.prev < 0 \/ d.prev > ts THEN ts ELSE d.prev
  IN  [d EXCEPT !.duration = @ + ts - prev, !.prev = ts]

\* WriteAudio or WriteVideo once its tag was written or not (out).
AfterWrite(d, m, out) ==
  LET k == [d EXCEPT !.keyframe = @ \/ (IsVideo(m) /\ IsKey(m))]
  IN  IF out \in {"ok", "stray"} THEN Elapsed(k, m.ts) ELSE k

Tag(m) == Item("tag", m.id, m.cls)

(***************************************************************************)
(* The files after x was written through the descriptor of d: behind the   *)
(* end when it was opened for append, else at its position, which is the   *)
(* end unless another Source has written or truncated.                     *)
(***************************************************************************)
Put(d, x) ==
  [file EXCEPT ![d.on] = IF d.temp = "path" \/ d.at = @ THEN Append(@, x) ELSE Spoilt]

\* The segment of which x was written.
MovedOn(d, x) == [d EXCEPT !.at = Append(@, x)]

\* A writev to a file takes all, a part or nothing of the tag.
WriteOpen(s, m) ==
  /\ seg[s].writer = "open"
  /\ \/ \E x \in {Tag(m), TornItem(m.id)} :
          LET out == IF x = Tag(m) THEN "ok" ELSE "torn" IN
            /\ out = "torn" => MayFail
            /\ seg' = [seg EXCEPT ![s] = MovedOn(AfterWrite(@, m, out), x)]
            /\ file' = Put(seg[s], x)
            /\ Notes(s, m, out)
            /\ Failed(out = "torn")
     \/ /\ MayFail /\ Failed(TRUE)
        /\ seg' = [seg EXCEPT ![s] = AfterWrite(@, m, "nothing")]
        /\ Notes(s, m, "nothing")
        /\ UNCHANGED file
  /\ UNCHANGED disturbed

\* Through the closed handle: it fails, or goes elsewhere, perhaps into the file of t.
WriteClosed(s, m) ==
  /\ seg[s].writer = "closed"
  /\ \/ /\ \E out \in {"nothing", "stray"} : seg' = [seg EXCEPT ![s] = AfterWrite(@, m, out)]
        /\ UNCHANGED <<file, disturbed>>
     \/ \E t \in Reusing(s) :
          /\ seg' = [seg EXCEPT ![s] = AfterWrite(@, m, "stray"), ![t] = MovedOn(@, Tag(m))]
          /\ file' = Put(seg[t], Tag(m))
          /\ disturbed' = disturbed \cup {t}
  /\ UNCHANGED <<seen, faults>>

\* DvrPlan::OnAudio and OnVideo.
Write(s, m) ==
  \/ Wanted(seg[s], m) /\ (WriteOpen(s, m) \/ WriteClosed(s, m))
  \/ /\ ~Wanted(seg[s], m)
     /\ Notes(s, m, "unwanted")
     /\ UNCHANGED <<seg, file, disturbed, faults>>
-----------------------------------------------------------------------------
(***************************************************************************)
(* DvrSegmentPlan::update_duration.  A key frame resets the count of audio *)
(* and is counted itself, so that only audio on its own ends a segment.    *)
(***************************************************************************)
IsOverflow(d) == d.duration > SegmentDuration

Counts(s, m) == IsOverflow(seg[s]) /\ (IsVideo(m) => IsKey(m))

AudioNumBefore(s, m) == IF IsVideo(m) THEN 0 ELSE audio_num[s]

Rolls(s, m) == Counts(s, m) /\ AudioNumBefore(s, m) >= AudioLimit

AudioNumAfter(s, m) ==
  IF Counts(s, m) THEN AudioNumBefore(s, m) + (IF Rolls(s, m) THEN 0 ELSE 1) ELSE audio_num[s]

(***************************************************************************)
(* Close, Open (which does nothing), the cached video header and the       *)
(* message, both through the handle just closed, whose descriptor no       *)
(* Source has then; the first failure ends it.                             *)
(***************************************************************************)
Roll(s, m) ==
  /\ \E ok \in CloseOutcomes(seg[s]), out, last \in {"nothing", "stray"} :
       LET c == Closed(seg[s])
           h == IF sh_video[s] >= 0 /\ out = "stray" THEN Elapsed(c, sh_video[s]) ELSE c
           goes_on == sh_video[s] < 0 \/ out = "stray"
       IN  Close(s, CASE ~ok -> c
                      [] ok /\ ~goes_on -> h
                      [] ok /\ goes_on -> AfterWrite(h, m, last), ok)
  /\ UNCHANGED seen

(***************************************************************************)
(* A message a source dispatches: OnAudio or OnVideo of the plan.  The     *)
(* source only dispatches what a publisher sends, and acquire_publish lets *)
(* none in before OnPublish succeeded.  After an error on_video_impl logs  *)
(* that it disables the DVR and calls OnUnpublish, which is empty.         *)
(* An AAC header never comes here (on_audio_impl gives up when it cannot   *)
(* be demuxed, see Media), so that sh_audio_ stays null.                   *)
(***************************************************************************)
Dispatch(s) ==
  /\ enabled[s] /\ next <= MaxMsgs
  /\ \E cls \in {"avcSH", "avcKey", "avcInter", "aacRaw"}, ts \in Times :
       LET m == [id |-> next, cls |-> cls, ts |-> ts,
                 type |-> IF cls \in AudioClasses THEN "audio" ELSE "video"]
       IN  /\ sh_video' = IF IsVideo(m) /\ IsVideoSeqenceHeader(m)
                          THEN [sh_video EXCEPT ![s] = ts] ELSE sh_video
           /\ audio_num' = [audio_num EXCEPT ![s] = AudioNumAfter(s, m)]
           /\ IF Rolls(s, m) THEN Roll(s, m) ELSE Write(s, m)
  /\ next' = next + 1
  /\ UNCHANGED <<enabled, base, restarts>>

\* The process is killed and started again: the files stay.
Restart ==
  /\ restarts < MaxRestarts /\ next <= MaxMsgs
  /\ restarts' = restarts + 1 /\ next' = next + 1
  /\ enabled' = Each(FALSE) /\ seg' = Each(NewSegment)
  /\ audio_num' = Each(0) /\ sh_video' = Each(-1)
  /\ base' = Each(<<>>) /\ seen' = Each(<<>>) /\ disturbed' = {}
  /\ UNCHANGED <<file, faults>>

Next == (\E s \in Sources : OnPublish(s) \/ Dispatch(s)) \/ Restart

Spec == Init /\ [][Next]_vars
-----------------------------------------------------------------------------
(***************************************************************************)
(* Properties.                                                             *)
(***************************************************************************)

\* Message i of q belongs into the file: everything from the first key frame on,
\* and audio and headers before it.
Belongs(q, i) ==
  \/ q[i].cls \in AudioClasses \cup {"avcSH"}
  \/ \E j \in 1 .. i : q[j].cls = "avcKey"

Recorded(q, i) ==
  CASE ~Belongs(q, i) \/ q[i].out = "nothing" -> <<>>
    [] Belongs(q, i) /\ q[i].out = "torn" -> <<TornItem(q[i].id)>>
    [] OTHER -> <<Item("tag", q[i].id, q[i].cls)>>

\* What the file of s is to hold: what it held when it was opened, and the messages since.
Recording(s) ==
  LET want[i \in 0 .. Len(seen[s])] ==
        IF i = 0 THEN <<>> ELSE want[i - 1] \o Recorded(seen[s], i)
  IN  base[s] \o want[Len(seen[s])]

StartsWith(all, part) == Len(part) <= Len(all) /\ SubSeq(all, 1, Len(part)) = part

(***************************************************************************)
(* A Source whose file no other Source opens or writes to meanwhile        *)
(* records every message dispatched until the first roll, in order and     *)
(* once: only video before the first key frame is left out, and a write    *)
(* that fails costs the message it failed for and no other.  After the     *)
(* roll, which ends the recording, the file still begins with all that.    *)
(***************************************************************************)
RecordingExact ==
  \A s \in Sources \ disturbed : enabled[s] =>
    /\ seg[s].writer = "open" => file[seg[s].on] = Recording(s)
    /\ seg[s].writer = "closed" => StartsWith(file[seg[s].on], Recording(s))

(***************************************************************************)
(* While the DVR is enabled its jitter and the muxer's writer are there:   *)
(* no sequence of failed opens and publishes makes OnAudio or OnVideo use  *)
(* a null pointer.                                                         *)
(***************************************************************************)
HandlesPresent ==
  \A s \in Sources : enabled[s] => seg[s].jitter /\ seg[s].muxer /\ IsOpen(seg[s])

(***************************************************************************)
(* A recording that got its final name is never lost or cut by a roll, a   *)
(* failure or a restart, as long as no two Sources have met in a file      *)
(* since the process was started.                                          *)
(***************************************************************************)
FinalGrowsOnly ==
  [][file.path # Missing /\ disturbed' = {} => StartsWith(file'.path, file.path)]_vars

(***************************************************************************)
(* The comment in generate_path has a path name its vhost, its stream and  *)
(* its time, so that what has a final name is the recording of one Source. *)
(* The code gives all Sources one path: while one renames its recording,   *)
(* another has the file open, and writes over it from where it was.        *)
(***************************************************************************)
FinishedWhole == \A i \in DOMAIN file.path : file.path[i] # Spoilt[1]
=============================================================================
