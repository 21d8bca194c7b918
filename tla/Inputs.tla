-------------------------------- MODULE Inputs --------------------------------
(***************************************************************************)
(* The pure parts that every request goes through, over the bodies they    *)
(* may meet: one state per body, and no steps.                             *)
(***************************************************************************)
EXTENDS MediaInspection

CONSTANT Bodies     \* [source, body]

VARIABLE input

Init == input \in Bodies
Next == UNCHANGED input
Spec == Init /\ [][Next]_input

-----------------------------------------------------------------------------

RECURSIVE Objects(_)
Objects(v) == (IF v.kind = "obj" THEN {v} ELSE {}) \cup UNION {Objects(c) : c \in Children(v)}

IsMedia(v) == Word(v, "type") \in ImageTypes \/ Unsupported(v)

\* The scan does not read a type of more than 256 bytes, and a conversation that
\* is no list is not walked.
Ordinary(body) ==
    /\ \A v \in Objects(body) : \A key \in {"type", "media_type"} :
          Field(v, key).kind = "str" => Field(v, key).form # "long"
    /\ Field(body, "messages").kind \in {"arr", "null"}
    /\ Field(body, "input").kind \in {"arr", "str", "null"}

\* No image and no unsupported attachment gets past: a body that is passed as it
\* came, because its bytes or the hint of its normalization showed no media, and
\* a body whose images were described, hold none of any protocol, wherever they
\* are, however often a key is repeated, whatever protocol is said or guessed
\* (executor.go:34, image_transform.go:44-66, 250-268, responses_input.go:17-88,
\* media_scan.go:12-132).  And where the protocol of messages is guessed, it is
\* the one of every image in them, so that none is refused as incompatible
\* (protocol_adapter.go:118-160).
NoImagePasses ==
    LET outcome == Outcome(input.source, input.body)
        guess == Detect(input.body, TRUE)
    IN  /\ outcome.way # "refused" /\ Ordinary(input.body) =>
             \A v \in Objects(outcome.body) : ~IsMedia(v)
        /\ guess # "none" /\ Field(input.body, "messages").kind = "arr" =>
             \A v \in Objects(input.body) :
                Word(v, "type") \in ImageTypes => Word(v, "type") = ImageBlockType[guess]
=============================================================================
