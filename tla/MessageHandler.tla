--------------------------- MODULE MessageHandler ---------------------------
(***************************************************************************)
(* defaultMsgHandler of src/lib/Microgear/Microgear.c: which callback of   *)
(* the application a message is for, by its topic, a sequence of           *)
(* characters.  A topic of the broker for this gear is "/" appid "/" ..., *)
(* or begins with "@".  Control names are single characters behind their   *)
(* mark here: "E" for error, "I" for info, "P" for present, "A" for absent.*)
(* Topics are taken to be no longer than PUBSUBQUEUE_TOPICSIZE (96): of a  *)
(* longer one the code looks at a copy that is cut there, with a position  *)
(* from the whole topic, which this module does not describe.              *)
(***************************************************************************)
EXTENDS Integers, SequencesExt

\* A mutation: the search for the second separator starts at the first.
SuffixFromStart(topic) ==
  LET slashes == {i \in 1..Len(topic) : topic[i] = "/"} IN
  IF slashes = {} THEN topic
  ELSE SubSeq(topic, 1 + (CHOOSE i \in slashes : \A j \in slashes : i <= j), Len(topic))

\* topic+firstcharpos: what follows the first separator that is not the first
\* character, or all of the topic.
Suffix(topic) ==
  LET slashes == {i \in 2..Len(topic) : topic[i] = "/"} IN
  IF slashes = {} THEN topic
  ELSE SubSeq(topic, 1 + (CHOOSE i \in slashes : \A j \in slashes : i <= j), Len(topic))

\* The callback that is called, or "none"; only one that is set is called.
defaultMsgHandler(topic, callbacks) ==
  LET chosen ==
        IF topic # <<>> /\ topic[1] = "@"
        THEN IF topic = <<"@", "E">> THEN "error"
             ELSE IF topic = <<"@", "I">> THEN "info" ELSE "none"
        ELSE IF Suffix(topic) # <<>> /\ Suffix(topic)[1] = "&"
        THEN IF Suffix(topic) = <<"&", "P">> THEN "present"
             ELSE IF Suffix(topic) = <<"&", "A">> THEN "absent" ELSE "none"
        ELSE "message"
  IN IF chosen \in callbacks THEN chosen ELSE "none"
=============================================================================
