----------------------------- MODULE MCStartup -----------------------------
(***************************************************************************)
(* TLC instance of Startup: the three builds, and INI files of up to three *)
(* pieces: every one that can matter to the lookup of a mode, and every    *)
(* one that can matter to the settings read into static buffers.           *)
(***************************************************************************)
EXTENDS Startup, FiniteSets

Piece(k, n, v, l) == [kind |-> k, name |-> n, value |-> v, long |-> l]

(* The section and another; entries of both modes with a number, a text    *)
(* or nothing; a comment that holds an entry, short or with its rest on    *)
(* the next piece; a line without '='.                                     *)
MCModePieces ==
    {Piece("header", "GENERAL", "empty", FALSE),
     Piece("header", "another", "empty", FALSE),
     Piece("entry", "NETWORKMOD", "number", FALSE),
     Piece("entry", "NETWORKMOD", "text", FALSE),
     Piece("entry", "MEDIAMOD", "number", FALSE),
     Piece("entry", "MEDIAMOD", "empty", FALSE),
     Piece("comment", "MEDIAMOD", "number", FALSE),
     Piece("comment", "MEDIAMOD", "number", TRUE),
     Piece("other", "another", "empty", FALSE)}

(* Two settings of which the one is asked for before the other, one of     *)
(* them twice; a password and an address of more than 32 bytes; a mode of  *)
(* that length; a name of that length.                                     *)
MCSettingPieces ==
    {Piece("header", "another", "empty", FALSE),
     Piece("entry", "RTPHOST", "text", FALSE),
     Piece("entry", "RTPPORT", "number", FALSE),
     Piece("entry", "RTPPORT", "text", FALSE),
     Piece("entry", "RTMPURL", "wide", FALSE),
     Piece("entry", "WIFIPASS", "wide", FALSE),
     Piece("entry", "MEDIAMOD", "wide", FALSE),
     Piece("entry", "long", "text", FALSE)}

MCFiles ==
    UNION {[1..n -> MCModePieces] : n \in 0..3}
    \cup {<<Piece("header", "GENERAL", "empty", FALSE)>> \o s :
             s \in UNION {[1..n -> MCSettingPieces] : n \in 1..2}}
MCModes == {"RTSP", "RTMP", "AVCHAT"}
=============================================================================
