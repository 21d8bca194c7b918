--------------------------- MODULE ImageSelection ---------------------------
(***************************************************************************)
(* Which images of a request are resolved by the visual chain, which are   *)
(* replaced by a memory or a marker, and for which text they are           *)
(* described: the pure part of src/image_transform.go, with the helpers of *)
(* src/image_media.go and src/image_history.go it calls.                   *)
(*                                                                         *)
(* A request is a conversation and the images found in it, in their order: *)
(*   items[i]  = [user, result, text]  (from 1; index 0 is the code's -1)  *)
(*   images[a] = [at, kind, img]       (at: the item the image is in)      *)
(* A text is the set of the marker lists it matches; the empty text is {}. *)
(* A configuration is [retain, textOnly, max, restore, workers].           *)
(***************************************************************************)
EXTENDS Integers, Sequences, FiniteSetsExt

Marks == {"said", "reanalysis", "completed", "direct", "topic", "noun", "action", "plural"}

\* "barred" is refused from its metadata alone (PDF, remote URLs switched off),
\* "heavy" only when its data are decoded.
Kinds == {"inline", "remote", "heavy", "barred"}

Assets(req) == DOMAIN req.images

-----------------------------------------------------------------------------
\* How many old images the text asks for.
RestoreCount(text, maximum) ==
    IF \/ maximum = 0
       \/ "completed" \in text /\ "reanalysis" \notin text
       \/ "direct" \notin text /\ ("topic" \in text \/ ~({"noun", "action"} \subseteq text))
    THEN 0
    ELSE IF "plural" \in text THEN maximum ELSE 1

\* The latest item a user wrote: a bare tool result with the role of the user
\* is passed over.
LatestUserTurn(req) ==
    Max({0} \cup {i \in DOMAIN req.items :
        req.items[i].user /\ (req.items[i].text # {} \/ ~req.items[i].result)})

LatestText(req) ==
    IF LatestUserTurn(req) = 0 THEN {} ELSE req.items[LatestUserTurn(req)].text

\* The item of the newest image, if that is behind the latest user turn.
LatestItem(req) == Max({LatestUserTurn(req)} \cup {req.images[a].at : a \in Assets(req)})

\* The tool results that end at the latest item are one batch.
BatchStart(req) ==
    IF LatestItem(req) > LatestUserTurn(req) /\ req.items[LatestItem(req)].result
    THEN Min({s \in (LatestUserTurn(req) + 1)..LatestItem(req) :
                \A i \in s..LatestItem(req) : req.items[i].result})
    ELSE LatestItem(req)

Current(req) ==
    LET batch == BatchStart(req)..LatestItem(req)
    IN  {a \in Assets(req) : req.images[a].at \in batch}

Newest(S, n) == {a \in S : Cardinality({b \in S : b > a}) < n}

Least(m, n) == IF m < n THEN m ELSE n

TooMany(req, cfg) ==
    \/ Cardinality(Current(req)) > cfg.max
    \/ cfg.retain /\ Cardinality(Assets(req)) > cfg.max

\* Mutant of Full: the images of the turn do not use up the limit.
FullUnshared(req, cfg) ==
    LET historical == Assets(req) \ Current(req)
    IN  Current(req) \cup
        IF cfg.retain THEN historical
        ELSE Newest(historical, Least(RestoreCount(LatestText(req), cfg.restore), cfg.max))

\* The images the visual chain is to describe.
Full(req, cfg) ==
    LET current == Current(req)
        historical == Assets(req) \ current
        count == RestoreCount(LatestText(req), cfg.restore)
    IN  current \cup
        IF cfg.retain THEN historical
        ELSE Newest(historical, Least(count, cfg.max - Cardinality(current)))

\* The images that estimateExecutorInputTokens reserves tokens for; it checks no
\* limit before.
EstimatedFull(req, cfg) ==
    LET historical == Assets(req) \ Current(req)
        slots == Max({0, cfg.max - Cardinality(Current(req))})
    IN  Current(req) \cup
        IF cfg.retain THEN historical
        ELSE Newest(historical, Least(RestoreCount(LatestText(req), cfg.restore), slots))

Archived(req, cfg) == Assets(req) \ Full(req, cfg)

\* Data are decoded only for what reaches the chain.
Invalid(req, cfg) ==
    LET full == Full(req, cfg) IN
    \E a \in Assets(req) :
        req.images[a].kind = "barred" \/ (a \in full /\ req.images[a].kind = "heavy")

-----------------------------------------------------------------------------
\* The user's text an image is described for.

Nearby(req, i) ==
    LET said == {j \in 1..i : req.items[j].user /\ req.items[j].text # {}}
    IN  IF said = {} THEN {} ELSE req.items[Max(said)].text

ContextOf(req, a) ==
    IF req.images[a].at < LatestUserTurn(req) THEN LatestText(req)
    ELSE Nearby(req, req.images[a].at)

-----------------------------------------------------------------------------
\* The memories of archived images share one budget, the newest first.

Kept(n, S, length, budget) ==
    LET left[a \in 1..(n + 1)] ==   \* what is left for the assets before a
          IF a > n THEN budget
          ELSE IF a \in S /\ length[a] <= left[a + 1] THEN left[a + 1] - length[a] ELSE left[a + 1]
    IN  {a \in S : length[a] <= left[a + 1]}
=============================================================================
