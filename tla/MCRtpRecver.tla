----------------------------- MODULE MCRtpRecver -----------------------------
(* Small instances of RtpRecver for TLC.  Lossy: two frames of two packets.  *)
(* Ideal: frames of two, one and two packets; the second carries no video.   *)
EXTENDS RtpRecver

MCLossy  == {"lose", "reorder"}
MCMarkerLossy == {2, 4}
MCVideoLossy  == {2, 4}
MCMarker == {2, 3, 5}
MCVideo  == {2, 5}
=============================================================================
