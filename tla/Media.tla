------------------------------- MODULE Media -------------------------------
(***************************************************************************)
(* The audio and video messages a publisher sends, as the relay tells them *)
(* apart.  A SharedPtrMessage keeps its RTMP type (IsAudio, IsVideo) and a *)
(* payload whose first two bytes classify it: the tests IsKeyFrame,        *)
(* Is*SeqenceHeader look at the bytes only and never at the RTMP type.     *)
(*                                                                         *)
(*   aacSH    AAC sequence header        0xAx 0x00                         *)
(*   aacRaw   AAC frame                  0xAx 0x01                         *)
(*   adpcm    ADPCM audio that begins    0x17 0x00                         *)
(*   avcSH    AVC sequence header        0x17 0x00, well formed            *)
(*   avcBadSH AVC sequence header that demux_avc rejects                   *)
(*   avcKey   AVC key frame              0x17 0x01                         *)
(*   avcInter AVC inter frame            0x27 0x01                         *)
(***************************************************************************)
EXTENDS Integers

AudioClasses == {"aacSH", "aacRaw", "adpcm"}
VideoClasses == {"avcSH", "avcBadSH", "avcKey", "avcInter"}
MediaTypes   == {"audio", "video"}

IsAudio(m) == m.type = "audio"
IsVideo(m) == m.type = "video"
IsAV(m)    == m.type \in MediaTypes

IsKeyFrame(m)           == m.cls \in {"avcSH", "avcBadSH", "avcKey", "adpcm"}
IsVideoSeqenceHeader(m) == m.cls \in {"avcSH", "avcBadSH", "adpcm"}
IsAudioSeqenceHeader(m) == m.cls = "aacSH"

\* FlvDemuxer::DemuxVideo of a sequence header succeeds.
DemuxVideoOk(m) == m.cls = "avcSH"

(***************************************************************************)
(* FlvDemuxer::DemuxAudio shifts the sound format right by four bits       *)
(* twice, reads codec 0 from every byte and answers ERROR_CODEC_UNSUPPORT. *)
(***************************************************************************)
DemuxAudioOk(m) == FALSE
=============================================================================
