--------------------------- MODULE HistorySummary ---------------------------
(***************************************************************************)
(* The summarizer behind HistoryCheckpoint: summarizeHistory, splitText    *)
(* and compressHistoryPiece of src/history.go, run by concurrent requests  *)
(* over one memoCache.  A history that is too long is cut into pieces; the *)
(* pieces are compressed two at a time, each in a goroutine, and the       *)
(* summaries are joined and cut again until one piece is left.             *)
(*                                                                         *)
(* A text is a sequence of units; a unit says which part <<from, to>> of   *)
(* the original history it speaks of.  Size is counted in units.           *)
(***************************************************************************)
EXTENDS Integers, SequencesExt

CONSTANTS
    Requests,
    Length,     \* units of the history each request compresses
    MaxChunk,   \* maxChunkChars
    MaxSummary, \* historySummaryTokenLimit
    Models,     \* number of text models that may compress
    Failed

ASSUME SizesAssumption ==
    /\ Length \in [Requests -> Nat \ {0}] /\ MaxChunk \in Nat \ {0, 1} /\ MaxSummary \in Nat \ {0}
    /\ Models \in Nat

Offsets == {1, 2}
Original(r) == [i \in 1..Length[r] |-> <<i, i>>]
Piece(text, last) == [text |-> text, last |-> last]
NoPiece == Piece(<<>>, FALSE)

VARIABLES
    pc,         \* of summarizeHistory
    pieces,     \* the pieces of this round not yet started, then those in work
    next,       \* the summaries of this round, joined
    ordered,    \* the results of this pair, by offset
    gor,        \* the goroutines of a pair; the last call uses the first
    result,     \* what summarizeHistory returns
    memory,     \* cached summaries: [piece, summary]
    flights     \* pieces that are being compressed, and by whom

vars == <<pc, pieces, next, ordered, gor, result, memory, flights>>

NoGor == [at |-> "free", piece |-> NoPiece, model |-> 0, value |-> <<>>]

Shaped(g) == [at |-> g.at, piece |-> g.piece, model |-> g.model, value |-> g.value]

TypeOK ==
    /\ pc \in [Requests -> {"split", "pair", "collect", "last", "done", "failed"}]
    /\ DOMAIN pieces = Requests /\ DOMAIN ordered = Requests
    /\ gor = [r \in Requests |-> [o \in Offsets |-> Shaped(gor[r][o])]]
    /\ \A r \in Requests, o \in Offsets :
         /\ gor[r][o].at \in {"free", "get", "enter", "wait", "call", "leave", "send", "sent"}
         /\ gor[r][o].model \in 0..(Models + 1)

Init ==
    /\ pc = [r \in Requests |-> "split"]
    /\ pieces = [r \in Requests |-> <<>>]
    /\ next = [r \in Requests |-> Original(r)]
    /\ ordered = [r \in Requests |-> <<>>]
    /\ gor = [r \in Requests |-> [o \in Offsets |-> NoGor]]
    /\ result = [r \in Requests |-> <<>>]
    /\ memory = {} /\ flights = {}

-----------------------------------------------------------------------------
\* summarizeHistory

\* Where splitText may cut: at the limit, or at a newline in its second half.
Cuts == (MaxChunk \div 2 + 1)..MaxChunk
Splits(text) ==
    LET f[s \in 0..Len(text)] ==    \* the splits of what is left after s units
          IF Len(text) - s <= MaxChunk
          THEN {<<SubSeq(text, s + 1, Len(text))>>}
          ELSE UNION {{<<SubSeq(text, s + 1, s + c)>> \o rest : rest \in f[s + c]} : c \in Cuts}
    IN  f[0]

Run(piece) == [NoGor EXCEPT !.at = "get", !.piece = piece]

Split(r) ==
    /\ pc[r] = "split"
    /\ IF Len(next[r]) <= MaxChunk
       THEN /\ gor' = [gor EXCEPT ![r][1] = Run(Piece(next[r], TRUE))]
            /\ pc' = [pc EXCEPT ![r] = "last"]
            /\ UNCHANGED <<pieces, next>>
       ELSE /\ \E s \in Splits(next[r]) : pieces' = [pieces EXCEPT ![r] = s]
            /\ next' = [next EXCEPT ![r] = <<>>]
            /\ pc' = [pc EXCEPT ![r] = "pair"]
            /\ UNCHANGED gor
    /\ UNCHANGED <<ordered, result, memory, flights>>

PairSize(r) == IF Len(pieces[r]) = 1 THEN 1 ELSE 2

\* The next pair is started, or the joined summaries are cut again.
Pair(r) ==
    /\ pc[r] = "pair"
    /\ IF pieces[r] = <<>>
       THEN pc' = [pc EXCEPT ![r] = "split"] /\ UNCHANGED <<gor, ordered>>
       ELSE /\ gor' = [gor EXCEPT ![r] = [o \in Offsets |->
                  IF o <= PairSize(r) THEN Run(Piece(pieces[r][o], FALSE)) ELSE NoGor]]
            /\ ordered' = [ordered EXCEPT ![r] = <<>>]
            /\ pc' = [pc EXCEPT ![r] = "collect"]
    /\ UNCHANGED <<pieces, next, result, memory, flights>>

\* Mutant of Joined: the summaries in the order they came in.
JoinedAsTheyCome(got) == FlattenSeq([k \in DOMAIN got |-> got[k].text])

Joined(got) ==
    LET at(o) == CHOOSE k \in DOMAIN got : got[k].offset = o
    IN  FlattenSeq([o \in DOMAIN got |-> got[at(o)].text])

\* The first error ends the request, and the goroutine of the other piece runs
\* on; when both results are in, they are joined by their offsets.
Collect(r) ==
    /\ pc[r] = "collect"
    /\ \E o \in Offsets :
         /\ gor[r][o].at = "sent"
         /\ gor' = [gor EXCEPT ![r][o] = NoGor]
         /\ LET got == Append(ordered[r], [offset |-> o, text |-> gor[r][o].value])
            IN  \/ /\ gor[r][o].value = Failed
                   /\ pc' = [pc EXCEPT ![r] = "failed"]
                   /\ result' = [result EXCEPT ![r] = Failed]
                   /\ UNCHANGED <<pieces, next, ordered>>
                \/ /\ gor[r][o].value # Failed /\ Len(got) < PairSize(r)
                   /\ ordered' = [ordered EXCEPT ![r] = got]
                   /\ UNCHANGED <<pc, pieces, next, result>>
                \/ /\ gor[r][o].value # Failed /\ Len(got) = PairSize(r)
                   /\ ordered' = [ordered EXCEPT ![r] = <<>>]
                   /\ next' = [next EXCEPT ![r] = @ \o Joined(got)]
                   /\ pieces' = [pieces EXCEPT ![r] = SubSeq(@, PairSize(r) + 1, Len(@))]
                   /\ pc' = [pc EXCEPT ![r] = "pair"]
                   /\ UNCHANGED result
    /\ UNCHANGED <<memory, flights>>

\* The last piece is compressed by the request itself.
Return(r) ==
    /\ pc[r] = "last" /\ gor[r][1].at = "sent"
    /\ result' = [result EXCEPT ![r] = gor[r][1].value]
    /\ pc' = [pc EXCEPT ![r] = IF gor[r][1].value = Failed THEN "failed" ELSE "done"]
    /\ gor' = [gor EXCEPT ![r][1] = NoGor]
    /\ UNCHANGED <<pieces, next, ordered, memory, flights>>

-----------------------------------------------------------------------------
\* compressHistoryPiece

Goto(r, o, at) == gor' = [gor EXCEPT ![r][o].at = at]

\* cache.get: what was cached may have expired or been evicted by now.
Get(r, o) ==
    /\ gor[r][o].at = "get"
    /\ LET hits == {m \in memory : m.piece = gor[r][o].piece}
       IN  \/ Goto(r, o, "enter") /\ memory' = memory \ hits
           \/ \E m \in hits :
                /\ gor' = [gor EXCEPT ![r][o] = [@ EXCEPT !.at = "send", !.value = m.summary]]
                /\ UNCHANGED memory
    /\ UNCHANGED <<pc, pieces, next, ordered, result, flights>>

\* cache.do: join the flight of the piece or lead one.
Enter(r, o) ==
    /\ gor[r][o].at = "enter"
    /\ IF \E f \in flights : f.piece = gor[r][o].piece
       THEN Goto(r, o, "wait") /\ UNCHANGED flights
       ELSE /\ gor' = [gor EXCEPT ![r][o] = [@ EXCEPT !.at = "call", !.model = 1]]
            /\ flights' = flights \cup {[piece |-> gor[r][o].piece, by |-> r, offset |-> o]}
    /\ UNCHANGED <<pc, pieces, next, ordered, result, memory>>

\* What a model may answer: an error, or a text that may be cut and too long.
Answers == [error : {FALSE}, cut : BOOLEAN, size : 0..(MaxSummary + 1)]
           \cup {[error |-> TRUE, cut |-> FALSE, size |-> 0]}

\* Mutant of Accepted: the mark of a cut answer is not looked at.
AcceptedCut(a) == ~a.error /\ a.size \in 1..MaxSummary

Accepted(a) == ~a.error /\ ~a.cut /\ a.size \in 1..MaxSummary

\* The summary of a text speaks of all the text does.
Summary(text, n) == [k \in 1..n |-> <<text[1][1], text[Len(text)][2]>>]

\* An accepted summary is cached within the flight.
Answer(r, o) ==
    /\ gor[r][o].at = "call" /\ gor[r][o].model <= Models
    /\ \E a \in Answers :
         LET summary == Summary(gor[r][o].piece.text, a.size) IN
         \/ /\ Accepted(a)
            /\ memory' = memory \cup {[piece |-> gor[r][o].piece, summary |-> summary, whole |-> ~a.cut]}
            /\ gor' = [gor EXCEPT ![r][o] = [@ EXCEPT !.at = "leave", !.value = summary]]
         \/ /\ ~Accepted(a)
            /\ gor' = [gor EXCEPT ![r][o].model = @ + 1]
            /\ UNCHANGED memory
    /\ UNCHANGED <<pc, pieces, next, ordered, result, flights>>

Exhausted(r, o) ==
    /\ gor[r][o].at = "call" /\ gor[r][o].model > Models
    /\ gor' = [gor EXCEPT ![r][o] = [@ EXCEPT !.at = "leave", !.value = Failed]]
    /\ UNCHANGED <<pc, pieces, next, ordered, result, memory, flights>>

\* The flight ends: its joiners get the leader's value.
Leave(r, o) ==
    /\ gor[r][o].at = "leave"
    /\ LET piece == gor[r][o].piece
       IN  /\ flights' = {f \in flights : f.piece # piece}
           /\ gor' = [s \in Requests |-> [p \in Offsets |->
                IF <<s, p>> = <<r, o>> \/ (gor[s][p].at = "wait" /\ gor[s][p].piece = piece)
                THEN [gor[s][p] EXCEPT !.at = "send", !.value = gor[r][o].value]
                ELSE gor[s][p]]]
    /\ UNCHANGED <<pc, pieces, next, ordered, result, memory>>

\* Mutant of Send: the channel of results has no room for both.
SendIfCollected(r, o) ==
    /\ gor[r][o].at = "send" /\ pc[r] \in {"collect", "last"}
    /\ Goto(r, o, "sent")
    /\ UNCHANGED <<pc, pieces, next, ordered, result, memory, flights>>

\* The channel has room for every result of the pair.
Send(r, o) ==
    /\ gor[r][o].at = "send"
    /\ Goto(r, o, "sent")
    /\ UNCHANGED <<pc, pieces, next, ordered, result, memory, flights>>

Ended(r) ==
    /\ pc[r] \in {"done", "failed"}
    /\ \A o \in Offsets : gor[r][o].at \in {"free", "sent"}
Terminated == (\A r \in Requests : pc[r] \in {"done", "failed"}) /\ UNCHANGED vars

Main(r) == Split(r) \/ Pair(r) \/ Collect(r) \/ Return(r)
Gor(r, o) ==
    \/ Get(r, o) \/ Enter(r, o) \/ Answer(r, o) \/ Exhausted(r, o) \/ Leave(r, o) \/ Send(r, o)

Next ==
    \/ \E r \in Requests : Main(r) \/ \E o \in Offsets : Gor(r, o)
    \/ Terminated

\* A goroutine that can run does, and the host answers a call.
Fairness == \A r \in Requests :
    WF_vars(Main(r)) /\ \A o \in Offsets : WF_vars(Gor(r, o))

Spec == Init /\ [][Next]_vars
FairSpec == Spec /\ Fairness

-----------------------------------------------------------------------------
\* Properties.

\* A text that speaks of the history from its first unit to its last, in order
\* and without a gap.
Gapless(text) ==
    \A k \in 1..(Len(text) - 1) :
        \/ text[k + 1] = text[k]
        \/ /\ text[k + 1][1] \in text[k][1]..(text[k][2] + 1)
           /\ text[k + 1][2] >= text[k][2]

\* Between the rounds no goroutine of a request is at work: a pair is started when
\* both results of the last one were taken, or the request has failed; and who
\* asks the models is in the map of flights, which has a piece once.
Places ==
    \A r \in Requests :
        LET free(o) == gor[r][o].at = "free" IN
        /\ pc[r] \in {"split", "pair", "done"} => free(1) /\ free(2)
        /\ pc[r] = "last" => free(2)
        /\ pc[r] = "collect" =>
             \/ ordered[r] = <<>> /\ (PairSize(r) = 1 => free(2))
             \/ /\ PairSize(r) = 2 /\ ordered[r] = <<ordered[r][1]>>
                /\ free(1) \/ free(2)
Flying ==
    /\ \A f, g \in flights : f.piece = g.piece => f = g
    /\ \A r \in Requests, o \in Offsets :
          gor[r][o].at \in {"call", "leave"} =>
              [piece |-> gor[r][o].piece, by |-> r, offset |-> o] \in flights
PiecesInv == TypeOK /\ Places /\ Flying

\* Stronger, so that a step keeps it: a unit does not end before it begins, and
\* beginnings and ends follow in order.
Units == Nat \X Nat
Reads(text) ==
    /\ \A k \in DOMAIN text : text[k] \in Units /\ text[k][1] <= text[k][2]
    /\ \A j, k \in DOMAIN text : j <= k => text[j][1] <= text[k][1] /\ text[j][2] <= text[k][2]
    /\ \A k \in 1..(Len(text) - 1) : text[k + 1][1] <= text[k][2] + 1
Spans(text, n) == text # <<>> /\ Reads(text) /\ text[1][1] = 1 /\ text[Len(text)][2] = n

StandsFor(summary, text) == \E n \in 1..MaxSummary : summary = Summary(text, n)

\* What a goroutine has to hand over, and what is cached, is of its text.
Served ==
    /\ \A m \in memory : StandsFor(m.summary, m.piece.text)
    /\ \A r \in Requests, o \in Offsets : gor[r][o].at \in {"leave", "send", "sent"} =>
          gor[r][o].value = Failed \/ StandsFor(gor[r][o].value, gor[r][o].piece.text)

\* Each piece of a pair is with its goroutine, or its summary has been collected.
InWork ==
    \A r \in Requests :
        /\ pc[r] = "collect" => \A o \in 1..PairSize(r) :
             \/ gor[r][o].at # "free" /\ gor[r][o].piece.text = pieces[r][o]
             \/ \E k \in DOMAIN ordered[r] :
                  ordered[r][k].offset = o /\ StandsFor(ordered[r][k].text, pieces[r][o])
        /\ pc[r] = "last" => gor[r][1].piece.text = next[r]
        /\ pc[r] \in {"split", "last"} => pieces[r] = <<>>
        /\ pc[r] = "collect" => pieces[r] # <<>>

\* What is joined and what is still in pieces speaks of the whole.
Spanning ==
    \A r \in Requests :
        /\ next[r] \in Seq(Units) /\ pieces[r] \in Seq(Seq(Units) \ {<<>>})
        /\ pc[r] \notin {"done", "failed"} => Spans(next[r] \o FlattenSeq(pieces[r]), Length[r])
        /\ pc[r] = "done" => StandsFor(result[r], Original(r))
TextsInv == DOMAIN next = Requests /\ DOMAIN result = Requests /\ Served /\ InWork /\ Spanning

\* However the goroutines of a pair come in, whatever was cached, joined or cut
\* in the middle of a summary: what is left to be compressed always speaks of
\* the whole history in order, and so does the summary that is returned, which
\* was not cut off and is within its limit (history.go:340-376, 409-430).
WholeHistory ==
    /\ TextsInv
    /\ \A r \in Requests :
        LET rest == FlattenSeq(pieces[r])
            text == next[r] \o rest
        IN  /\ pc[r] \notin {"done", "failed"} =>
                 /\ Gapless(text)
                 /\ text[1][1] = 1 /\ text[Len(text)][2] = Length[r]
            /\ pc[r] = "done" =>
                 /\ result[r] = Summary(Original(r), Len(result[r]))
                 /\ Len(result[r]) \in 1..MaxSummary

\* Only a whole summary within its limit is cached, for the text it is of, and
\* one goroutine at a time asks the models for a text, be it of the same pair or
\* of another request (history.go:399-405, 413-430, cache.go:138-159).
OnePerPiece ==
    /\ PiecesInv
    /\ \A m \in memory :
          m.whole /\ Len(m.summary) <= MaxSummary
          /\ m.summary = Summary(m.piece.text, Len(m.summary))
    /\ \A r, s \in Requests, o, p \in Offsets :
          /\ gor[r][o].at \in {"call", "leave"} /\ gor[s][p].at \in {"call", "leave"}
          /\ gor[r][o].piece = gor[s][p].piece
          => <<r, o>> = <<s, p>>

\* Every request ends, since accepted summaries are short enough for the rounds
\* to come to one piece, and so does every goroutine it started, those of a pair
\* that already failed included (history.go:343-375).
SummaryEnds == \A r \in Requests : <>Ended(r)
=============================================================================
