----------------------------- MODULE MCFraming -----------------------------
(***************************************************************************)
(* Streams of one and two frames, each frame on one side or the other of a   *)
(* check in parse_message or unwrap_body.                                    *)
(***************************************************************************)
EXTENDS Framing

Frame(op, length, flagged, crc, wellformed) ==
  [op |-> op, length |-> length, flagged |-> flagged, crc |-> crc, wellformed |-> wellformed]

Wrapped(op, size, actual, flagged, crc) ==
  [op |-> "Compressed", length |-> 27, flagged |-> FALSE, crc |-> FALSE,
   wellformed |-> size >= 0,
   inner |-> [op |-> op, size |-> size, actual |-> actual, flagged |-> flagged, crc |-> crc,
              wellformed |-> TRUE]]

MCFrames ==
  {Frame("Msg", length, flagged, crc, TRUE) :
     length \in {20, 22, 25, 26, 30}, flagged \in BOOLEAN, crc \in BOOLEAN}
  \cup {Frame("Msg", length, FALSE, FALSE, TRUE) : length \in {-1, 0, 15, 16, 31, 48000001}}
  \cup {Frame("Msg", 30, FALSE, FALSE, FALSE), Frame("Query", 29, FALSE, FALSE, TRUE),
        Frame("Reply", 28, FALSE, FALSE, TRUE), Frame("legacy", 20, FALSE, FALSE, TRUE),
        Frame("unknown", 20, FALSE, FALSE, TRUE), Frame("Compressed", 24, FALSE, FALSE, FALSE)}
  \cup {Wrapped("Msg", size, size, flagged, crc) :
          size \in {-1, 6, 10, 30, 31}, flagged \in BOOLEAN, crc \in BOOLEAN}
  \cup {Wrapped("Compressed", 10, 10, FALSE, FALSE), Wrapped("Msg", 10, 11, FALSE, FALSE),
        Wrapped("Query", 10, -1, FALSE, FALSE)}

\* The frames worth following another one.
Followers == {Frame("Msg", 30, TRUE, TRUE, TRUE), Frame("Query", 29, FALSE, FALSE, TRUE),
              Frame("Msg", 31, FALSE, FALSE, TRUE), Wrapped("Msg", 30, 30, FALSE, FALSE)}

MCStreams == {<<f>> : f \in MCFrames} \cup {<<f, g>> : f \in MCFrames, g \in Followers}
=============================================================================
