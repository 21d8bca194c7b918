------------------------ MODULE HistorySummaryProofs ------------------------
(***************************************************************************)
(* Proofs about HistorySummary: a text is compressed by one goroutine at a *)
(* time, whichever request and pair it belongs to, only whole summaries    *)
(* within the limit are cached, and however a history is cut, compressed   *)
(* and joined, what is left of it speaks of the whole; for any number of   *)
(* requests and models and histories of any length.                        *)
(***************************************************************************)
EXTENDS HistorySummary, SequenceTheorems, WellFoundedInduction, TLAPS

\* What is cached is a whole summary of its text, within the limit.
Whole(m) ==
    /\ m.whole /\ Len(m.summary) <= MaxSummary
    /\ m.summary = Summary(m.piece.text, Len(m.summary))
Strong == PiecesInv /\ \A m \in memory : Whole(m)

\* A summary of n units has n units.
LEMMA SummaryLength ==
    ASSUME NEW text, NEW n \in Nat
    PROVE  Len(Summary(text, n)) = n
<1> DEFINE unit == <<text[1][1], text[Len(text)][2]>>
           summary == [k \in 1..n |-> unit]
<1>1. summary \in Seq({unit}) /\ DOMAIN summary = 1..n
  <2>1. summary \in [1..n -> {unit}]
    OBVIOUS
  <2> HIDE DEF summary
  <2> QED BY <2>1, SeqDef
<1> HIDE DEF summary
<1>2. Len(summary) \in Nat /\ DOMAIN summary = 1..Len(summary)
  BY <1>1, LenProperties
<1>3. Len(summary) = n
  BY <1>1, <1>2
<1> QED BY <1>3 DEF summary, Summary

\* The invariant lets no two goroutines ask for one text.
LEMMA StrongIs ==
    Strong => OnePerPiece
<1> SUFFICES ASSUME Strong PROVE OnePerPiece
  OBVIOUS
<1>1. ASSUME NEW r \in Requests, NEW s \in Requests, NEW o \in Offsets, NEW p \in Offsets,
             gor[r][o].at \in {"call", "leave"}, gor[s][p].at \in {"call", "leave"},
             gor[r][o].piece = gor[s][p].piece
      PROVE  <<r, o>> = <<s, p>>
  <2> DEFINE f == [piece |-> gor[r][o].piece, by |-> r, offset |-> o]
             g == [piece |-> gor[s][p].piece, by |-> s, offset |-> p]
  <2>1. f \in flights /\ g \in flights
    BY <1>1 DEF Strong, PiecesInv, Flying
  <2>2. f = g
    BY <1>1, <2>1 DEF Strong, PiecesInv, Flying
  <2>3. f.by = g.by /\ f.offset = g.offset
    BY <2>2
  <2> QED BY <2>3
<1> QED BY <1>1 DEF Strong, Whole, OnePerPiece

\* Goroutine o of request r becomes g, and the others stay as they are.
Becomes(to, r, o, g) ==
    /\ to[r][o] = g
    /\ \A s \in Requests, p \in Offsets : <<s, p>> # <<r, o>> => to[s][p] = gor[s][p]

LEMMA GorChanges ==
    ASSUME TypeOK, NEW r \in Requests, NEW o \in Offsets, NEW g, Shaped(g) = g,
           gor' = [gor EXCEPT ![r][o] = g]
    PROVE  /\ Becomes(gor', r, o, g)
           /\ gor' = [s \in Requests |-> [p \in Offsets |-> Shaped(gor'[s][p])]]
<1>1. /\ DOMAIN gor = Requests
      /\ \A s \in Requests : /\ gor[s] = [p \in Offsets |-> gor[s][p]]
                             /\ \A p \in Offsets : gor[s][p] = Shaped(gor[s][p])
  BY DEF TypeOK
<1>2. gor' = [s \in Requests |-> IF s = r THEN [p \in Offsets |-> IF p = o THEN g ELSE gor[s][p]]
                                 ELSE gor[s]]
  BY <1>1
<1>3. Becomes(gor', r, o, g)
  BY <1>2 DEF Becomes
<1>4. \A s \in Requests, p \in Offsets : gor'[s][p] = Shaped(gor'[s][p])
  BY <1>1, <1>3 DEF Becomes
<1>5. gor' = [s \in Requests |-> [p \in Offsets |-> gor'[s][p]]]
  <2>1. gor' = [s \in Requests |-> gor'[s]]
    BY <1>2
  <2>2. ASSUME NEW s \in Requests
        PROVE  gor'[s] = [p \in Offsets |-> gor'[s][p]]
    <3>1. gor'[s] = IF s = r THEN [p \in Offsets |-> IF p = o THEN g ELSE gor[s][p]] ELSE gor[s]
      BY <1>2, Zenon
    <3>2. CASE s = r
      <4>1. gor'[s] = [p \in Offsets |-> IF p = o THEN g ELSE gor[s][p]]
        BY <3>1, <3>2, Zenon
      <4> QED BY <4>1, Zenon
    <3>3. CASE s # r
      <4>1. gor'[s] = gor[s]
        BY <3>1, <3>3, Zenon
      <4> QED BY <1>1, <4>1
    <3> QED BY <3>2, <3>3
  <2> QED BY <2>1, <2>2
<1> QED BY <1>3, <1>4, <1>5

\* From g to h the piece stays, the place becomes at and the model m.
Moved(g, h, at, m) == Shaped(h) = h /\ h.at = at /\ h.piece = g.piece /\ h.model = m

\* The record of a goroutine keeps its shape when fields of it change.
LEMMA Explicit ==
    ASSUME NEW g, NEW at, NEW model, NEW value
    PROVE  Moved(g, [at |-> at, piece |-> g.piece, model |-> model, value |-> value], at, model)
BY DEF Shaped, Moved

LEMMA NewAt ==
    ASSUME NEW g, g = Shaped(g), NEW a
    PROVE  Moved(g, [g EXCEPT !.at = a], a, g.model)
<1>1. [g EXCEPT !.at = a] = [at |-> a, piece |-> g.piece, model |-> g.model, value |-> g.value]
  BY DEF Shaped
<1>2. Moved(g, [at |-> a, piece |-> g.piece, model |-> g.model, value |-> g.value], a, g.model)
  BY Explicit
<1> QED BY <1>1, <1>2, Zenon

LEMMA NewModel ==
    ASSUME NEW g, g = Shaped(g), NEW m
    PROVE  Moved(g, [g EXCEPT !.model = m], g.at, m)
<1>1. [g EXCEPT !.model = m] = [at |-> g.at, piece |-> g.piece, model |-> m, value |-> g.value]
  BY DEF Shaped
<1>2. Moved(g, [at |-> g.at, piece |-> g.piece, model |-> m, value |-> g.value], g.at, m)
  BY Explicit
<1> QED BY <1>1, <1>2, Zenon

LEMMA NewAtModel ==
    ASSUME NEW g, g = Shaped(g), NEW a, NEW m
    PROVE  Moved(g, [g EXCEPT !.at = a, !.model = m], a, m)
<1> DEFINE Record(at, model) == [at |-> at, piece |-> g.piece, model |-> model, value |-> g.value]
<1>1. [g EXCEPT !.at = a] = Record(a, g.model)
  BY DEF Shaped
<1>2. [g EXCEPT !.at = a, !.model = m] = [[g EXCEPT !.at = a] EXCEPT !.model = m]
  OBVIOUS
<1>3. [Record(a, g.model) EXCEPT !.model = m] = Record(a, m)
  OBVIOUS
<1>4. Moved(g, Record(a, m), a, m)
  BY Explicit
<1> HIDE DEF Record
<1> QED BY <1>1, <1>2, <1>3, <1>4, Zenon

LEMMA NewAtValue ==
    ASSUME NEW g, g = Shaped(g), NEW a, NEW v
    PROVE  Moved(g, [g EXCEPT !.at = a, !.value = v], a, g.model)
<1> DEFINE Record(at, value) == [at |-> at, piece |-> g.piece, model |-> g.model, value |-> value]
<1>1. [g EXCEPT !.at = a] = Record(a, g.value)
  BY DEF Shaped
<1>2. [g EXCEPT !.at = a, !.value = v] = [[g EXCEPT !.at = a] EXCEPT !.value = v]
  OBVIOUS
<1>3. [Record(a, g.value) EXCEPT !.value = v] = Record(a, v)
  OBVIOUS
<1>4. Moved(g, Record(a, v), a, g.model)
  BY Explicit
<1> HIDE DEF Record
<1> QED BY <1>1, <1>2, <1>3, <1>4, Zenon

LEMMA Starts ==
    ASSUME NEW piece
    PROVE  /\ Shaped(NoGor) = NoGor /\ NoGor.at = "free" /\ NoGor.model = 0
           /\ Shaped(Run(piece)) = Run(piece) /\ Run(piece).at = "get" /\ Run(piece).model = 0
<1>1. Run(piece) = [at |-> "get", piece |-> piece, model |-> 0, value |-> <<>>]
  <2>1. [NoGor EXCEPT !.at = "get", !.piece = piece]
          = [[NoGor EXCEPT !.at = "get"] EXCEPT !.piece = piece]
    OBVIOUS
  <2>2. [NoGor EXCEPT !.at = "get"] = [at |-> "get", piece |-> NoPiece, model |-> 0, value |-> <<>>]
    BY DEF NoGor
  <2>3. [[at |-> "get", piece |-> NoPiece, model |-> 0, value |-> <<>>] EXCEPT !.piece = piece]
          = [at |-> "get", piece |-> piece, model |-> 0, value |-> <<>>]
    OBVIOUS
  <2> QED BY <2>1, <2>2, <2>3, Zenon DEF Run
<1> QED BY <1>1 DEF Shaped, NoGor

Ats == {"free", "get", "enter", "wait", "call", "leave", "send", "sent"}

\* A step of one goroutine at work: request and goroutines keep their places.
LEMMA GorKeeps ==
    ASSUME PiecesInv, NEW r \in Requests, NEW o \in Offsets, NEW g, Shaped(g) = g,
           g.at \in Ats \ {"free"}, gor[r][o].at # "free", g.model \in 0..(Models + 1),
           gor' = [gor EXCEPT ![r][o] = g], UNCHANGED <<pc, pieces, ordered>>
    PROVE  /\ TypeOK' /\ Places'
           /\ Becomes(gor', r, o, g)
<1>1. /\ Becomes(gor', r, o, g)
      /\ gor' = [s \in Requests |-> [p \in Offsets |-> Shaped(gor'[s][p])]]
  BY GorChanges DEF PiecesInv
<1>2. \A s \in Requests, p \in Offsets :
        /\ gor'[s][p].at \in Ats /\ gor'[s][p].model \in 0..(Models + 1)
        /\ gor'[s][p].at = "free" <=> gor[s][p].at = "free"
  BY <1>1 DEF Becomes, PiecesInv, TypeOK, Ats
<1>3. TypeOK'
  BY <1>1, <1>2 DEF PiecesInv, TypeOK, Ats
<1>4. 1 \in Offsets /\ 2 \in Offsets
  BY DEF Offsets
<1>5. Places'
  BY <1>2, <1>4 DEF PiecesInv, Places, PairSize
<1> QED BY <1>1, <1>3, <1>5

\* A goroutine that does not ask the models disturbs no flight.
LEMMA FlyingStays ==
    ASSUME PiecesInv, NEW r \in Requests, NEW o \in Offsets, NEW g, Becomes(gor', r, o, g),
           g.at \notin {"call", "leave"}, flights' = flights
    PROVE  Flying'
BY DEF PiecesInv, Flying, Becomes

\* Setting one field of a goroutine, as Goto does.
LEMMA OneField ==
    ASSUME NEW r, NEW o, NEW v
    PROVE  /\ [gor EXCEPT ![r][o].at = v] = [gor EXCEPT ![r][o] = [gor[r][o] EXCEPT !.at = v]]
           /\ [gor EXCEPT ![r][o].model = v] = [gor EXCEPT ![r][o] = [gor[r][o] EXCEPT !.model = v]]
OBVIOUS

\* What is known of a goroutine.
LEMMA GorTypes ==
    ASSUME PiecesInv, NEW r \in Requests, NEW o \in Offsets
    PROVE  gor[r][o] = Shaped(gor[r][o]) /\ gor[r][o].at \in Ats /\ gor[r][o].model \in 0..(Models + 1)
BY DEF PiecesInv, TypeOK, Ats

\* A step that moves a goroutine on, off and to places outside a flight.
LEMMA MovesOn ==
    ASSUME PiecesInv, NEW r \in Requests, NEW o \in Offsets, NEW at \in Ats \ {"free", "call", "leave"},
           NEW value, gor[r][o].at # "free", UNCHANGED <<pc, pieces, ordered, flights>>,
           \/ gor' = [gor EXCEPT ![r][o] = [gor[r][o] EXCEPT !.at = at]]
           \/ gor' = [gor EXCEPT ![r][o] = [gor[r][o] EXCEPT !.at = at, !.value = value]]
    PROVE  PiecesInv'
<1> DEFINE moved == [gor[r][o] EXCEPT !.at = at]
           given == [gor[r][o] EXCEPT !.at = at, !.value = value]
<1>2. gor[r][o] = Shaped(gor[r][o]) /\ gor[r][o].model \in 0..(Models + 1)
  BY GorTypes
<1>1. /\ Shaped(moved) = moved /\ moved.at = at /\ moved.model = gor[r][o].model
      /\ Shaped(given) = given /\ given.at = at /\ given.model = gor[r][o].model
  <2>1. Moved(gor[r][o], moved, at, gor[r][o].model) /\ Moved(gor[r][o], given, at, gor[r][o].model)
    BY <1>2, NewAt, NewAtValue, Zenon
  <2> QED BY <2>1 DEF Moved
<1> HIDE DEF moved, given
<1>3. ASSUME NEW g, Shaped(g) = g, g.at = at, g.model = gor[r][o].model,
             gor' = [gor EXCEPT ![r][o] = g]
      PROVE  PiecesInv'
  <2>1. TypeOK' /\ Places' /\ Becomes(gor', r, o, g)
    BY <1>2, <1>3, GorKeeps
  <2>2. Flying'
    BY <1>3, <2>1, FlyingStays
  <2> QED BY <2>1, <2>2 DEF PiecesInv
<1> QED BY <1>1, <1>3 DEF moved, given

LEMMA GetKeeps ==
    ASSUME Strong, NEW r \in Requests, NEW o \in Offsets, Get(r, o)
    PROVE  Strong'
<1>1. /\ PiecesInv /\ gor[r][o].at = "get" /\ UNCHANGED <<pc, pieces, ordered, flights>>
      /\ memory' \subseteq memory
      /\ \/ gor' = [gor EXCEPT ![r][o].at = "enter"]
         \/ \E m : gor' = [gor EXCEPT ![r][o] = [gor[r][o] EXCEPT !.at = "send", !.value = m.summary]]
  BY DEF Strong, Get, Goto
<1>2. PiecesInv'
  <2>1. "enter" \in Ats \ {"free", "call", "leave"} /\ "send" \in Ats \ {"free", "call", "leave"}
    BY DEF Ats
  <2>2. CASE gor' = [gor EXCEPT ![r][o].at = "enter"]
    <3>1. gor' = [gor EXCEPT ![r][o] = [gor[r][o] EXCEPT !.at = "enter"]]
      BY <2>2, OneField
    <3> QED BY <1>1, <2>1, <3>1, MovesOn
  <2>3. ASSUME NEW m, gor' = [gor EXCEPT ![r][o] = [gor[r][o] EXCEPT !.at = "send", !.value = m.summary]]
        PROVE  PiecesInv'
    BY <1>1, <2>1, <2>3, MovesOn
  <2> QED BY <1>1, <2>2, <2>3
<1> QED BY <1>1, <1>2 DEF Strong, Whole

LEMMA SendKeeps ==
    ASSUME Strong, NEW r \in Requests, NEW o \in Offsets, Send(r, o)
    PROVE  Strong'
<1>1. /\ PiecesInv /\ gor[r][o].at = "send" /\ UNCHANGED <<pc, pieces, ordered, flights, memory>>
      /\ gor' = [gor EXCEPT ![r][o].at = "sent"]
  BY DEF Strong, Send, Goto
<1>2. PiecesInv'
  BY <1>1, OneField, MovesOn DEF Ats
<1> QED BY <1>1, <1>2 DEF Strong, Whole

\* Only who finds no flight of its piece begins one.
LEMMA EnterKeeps ==
    ASSUME Strong, NEW r \in Requests, NEW o \in Offsets, Enter(r, o)
    PROVE  Strong'
<1> DEFINE piece == gor[r][o].piece
           g == [gor[r][o] EXCEPT !.at = "call", !.model = 1]
           flight == [piece |-> piece, by |-> r, offset |-> o]
<1>1. PiecesInv /\ gor[r][o].at = "enter" /\ UNCHANGED <<pc, pieces, ordered, memory>>
  BY DEF Strong, Enter
<1>2. CASE \E f \in flights : f.piece = piece
  <2>1. gor' = [gor EXCEPT ![r][o].at = "wait"] /\ flights' = flights
    BY <1>2 DEF Enter, Goto
  <2>2. PiecesInv'
    BY <1>1, <2>1, OneField, MovesOn DEF Ats
  <2> QED BY <1>1, <2>2 DEF Strong, Whole
<1>3. CASE ~\E f \in flights : f.piece = piece
  <2>1. gor' = [gor EXCEPT ![r][o] = g] /\ flights' = flights \cup {flight}
    BY <1>3 DEF Enter
  <2>2. Shaped(g) = g /\ g.at = "call" /\ g.piece = piece /\ g.model = 1
    <3>1. gor[r][o] = Shaped(gor[r][o])
      BY <1>1, GorTypes
    <3>2. Moved(gor[r][o], g, "call", 1)
      BY <3>1, NewAtModel, Zenon
    <3> QED BY <3>2 DEF Moved
  <2> HIDE DEF g
  <2>3. TypeOK' /\ Places' /\ Becomes(gor', r, o, g)
    <3>1. 1 \in 0..(Models + 1) /\ "call" \in Ats \ {"free"}
      BY SizesAssumption DEF Ats
    <3> QED BY <1>1, <2>1, <2>2, <3>1, GorKeeps
  <2>4. Flying'
    <3>1. \A a, b \in flights' : a.piece = b.piece => a = b
      BY <1>1, <1>3, <2>1 DEF PiecesInv, Flying
    <3>2. ASSUME NEW s \in Requests, NEW p \in Offsets, gor'[s][p].at \in {"call", "leave"}
          PROVE  [piece |-> gor'[s][p].piece, by |-> s, offset |-> p] \in flights'
      <4>1. CASE <<s, p>> = <<r, o>>
        BY <2>1, <2>2, <2>3, <4>1 DEF Becomes
      <4>2. CASE <<s, p>> # <<r, o>>
        BY <1>1, <2>1, <2>3, <3>2, <4>2 DEF PiecesInv, Flying, Becomes
      <4> QED BY <4>1, <4>2
    <3> QED BY <3>1, <3>2 DEF Flying
  <2> QED BY <1>1, <2>3, <2>4 DEF Strong, PiecesInv, Whole
<1> QED BY <1>2, <1>3

\* A goroutine in a flight stays in it, with its piece.
LEMMA StaysInFlight ==
    ASSUME PiecesInv, NEW r \in Requests, NEW o \in Offsets, NEW g, Shaped(g) = g,
           gor[r][o].at = "call", g.at \in {"call", "leave"}, g.piece = gor[r][o].piece,
           g.model \in 0..(Models + 1), gor' = [gor EXCEPT ![r][o] = g],
           UNCHANGED <<pc, pieces, ordered, flights>>
    PROVE  PiecesInv'
<1>1. TypeOK' /\ Places' /\ Becomes(gor', r, o, g)
  BY GorKeeps DEF Ats
<1>2. Flying'
  BY <1>1 DEF PiecesInv, Flying, Becomes
<1> QED BY <1>1, <1>2 DEF PiecesInv

LEMMA AnswerKeeps ==
    ASSUME Strong, NEW r \in Requests, NEW o \in Offsets,
           Answer(r, o) \/ Exhausted(r, o)
    PROVE  Strong'
<1>1. PiecesInv /\ gor[r][o].at = "call" /\ UNCHANGED <<pc, pieces, ordered, flights>>
  BY DEF Strong, Answer, Exhausted
<1>2. gor[r][o] = Shaped(gor[r][o]) /\ gor[r][o].model \in 0..(Models + 1)
  BY <1>1, GorTypes
<1>3. ASSUME NEW value, gor' = [gor EXCEPT ![r][o] = [gor[r][o] EXCEPT !.at = "leave", !.value = value]]
      PROVE  PiecesInv'
  <2> DEFINE g == [gor[r][o] EXCEPT !.at = "leave", !.value = value]
  <2>1. Shaped(g) = g /\ g.at = "leave" /\ g.piece = gor[r][o].piece /\ g.model = gor[r][o].model
    <3>1. Moved(gor[r][o], g, "leave", gor[r][o].model)
      BY <1>2, NewAtValue, Zenon
    <3> QED BY <3>1 DEF Moved
  <2>2. gor' = [gor EXCEPT ![r][o] = g]
    BY <1>3
  <2> HIDE DEF g
  <2> QED BY <1>1, <1>2, <2>1, <2>2, StaysInFlight
<1>4. CASE Exhausted(r, o)
  <2>1. PiecesInv' /\ memory' = memory
    BY <1>3, <1>4 DEF Exhausted
  <2> QED BY <2>1 DEF Strong, Whole
<1>5. CASE Answer(r, o)
  <2>1. PICK a \in Answers :
          LET summary == Summary(gor[r][o].piece.text, a.size) IN
          \/ /\ Accepted(a)
             /\ memory' = memory \cup {[piece |-> gor[r][o].piece, summary |-> summary, whole |-> ~a.cut]}
             /\ gor' = [gor EXCEPT ![r][o] = [gor[r][o] EXCEPT !.at = "leave", !.value = summary]]
          \/ /\ ~Accepted(a)
             /\ gor' = [gor EXCEPT ![r][o].model = @ + 1]
             /\ UNCHANGED memory
    BY <1>5 DEF Answer
  <2>2. CASE Accepted(a)
    <3> DEFINE summary == Summary(gor[r][o].piece.text, a.size)
               m == [piece |-> gor[r][o].piece, summary |-> summary, whole |-> ~a.cut]
    <3>1. a.size \in Nat /\ a.size <= MaxSummary /\ ~a.cut
      BY <2>2 DEF Accepted
    <3>2. Len(summary) = a.size
      BY <3>1, SummaryLength
    <3>3. Whole(m)
      BY <3>1, <3>2 DEF Whole
    <3>4. memory' = memory \cup {m} /\ PiecesInv'
      BY <1>3, <2>1, <2>2
    <3> HIDE DEF m
    <3> QED BY <3>3, <3>4 DEF Strong, Whole
  <2>3. CASE ~Accepted(a)
    <3> DEFINE g == [gor[r][o] EXCEPT !.model = gor[r][o].model + 1]
    <3>1. Shaped(g) = g /\ g.at = "call" /\ g.piece = gor[r][o].piece /\ g.model = gor[r][o].model + 1
      <4>1. Shaped(g) = g /\ g.at = gor[r][o].at /\ g.piece = gor[r][o].piece
            /\ g.model = gor[r][o].model + 1
        BY <1>2, NewModel DEF Moved
      <4> QED BY <1>1, <4>1
    <3>2. gor' = [gor EXCEPT ![r][o] = g] /\ memory' = memory
      BY <2>1, <2>3, OneField
    <3>3. gor[r][o].model + 1 \in 0..(Models + 1)
      <4>1. gor[r][o].model <= Models
        BY <1>5 DEF Answer
      <4> QED BY <1>2, <4>1, SizesAssumption
    <3> HIDE DEF g
    <3>4. PiecesInv'
      BY <1>1, <3>1, <3>2, <3>3, StaysInFlight
    <3> QED BY <3>2, <3>4 DEF Strong, Whole
  <2> QED BY <2>2, <2>3
<1> QED BY <1>4, <1>5

\* The end of a flight takes the leader and its joiners out of it, and nobody
\* else was in it.
LEMMA LeaveKeeps ==
    ASSUME Strong, NEW r \in Requests, NEW o \in Offsets, Leave(r, o)
    PROVE  Strong'
<1> DEFINE piece == gor[r][o].piece
           ends(s, p) == <<s, p>> = <<r, o>> \/ (gor[s][p].at = "wait" /\ gor[s][p].piece = piece)
           given(s, p) == [gor[s][p] EXCEPT !.at = "send", !.value = gor[r][o].value]
<1>1. /\ PiecesInv /\ gor[r][o].at = "leave" /\ UNCHANGED <<pc, pieces, ordered, memory>>
      /\ flights' = {f \in flights : f.piece # piece}
      /\ gor' = [s \in Requests |-> [p \in Offsets |-> IF ends(s, p) THEN given(s, p) ELSE gor[s][p]]]
  BY DEF Strong, Leave
<1>2. \A s \in Requests, p \in Offsets :
        /\ gor'[s][p] = IF ends(s, p) THEN given(s, p) ELSE gor[s][p]
        /\ gor'[s] = [q \in Offsets |-> gor'[s][q]]
  BY <1>1
<1>3. \A s \in Requests, p \in Offsets :
        /\ Shaped(given(s, p)) = given(s, p) /\ given(s, p).at = "send"
        /\ given(s, p).model = gor[s][p].model
  <2>1. \A s \in Requests, p \in Offsets : gor[s][p] = Shaped(gor[s][p])
    BY <1>1, GorTypes
  <2>2. \A s \in Requests, p \in Offsets : Moved(gor[s][p], given(s, p), "send", gor[s][p].model)
    BY <2>1, NewAtValue, Zenon
  <2> QED BY <2>2 DEF Moved
<1> HIDE DEF given
<1>4. ASSUME NEW s \in Requests, NEW p \in Offsets
      PROVE  /\ gor'[s][p] = Shaped(gor'[s][p])
             /\ gor'[s][p].at \in Ats /\ gor'[s][p].model \in 0..(Models + 1)
             /\ gor'[s][p].at = "free" <=> gor[s][p].at = "free"
             /\ gor'[s][p].at \in {"call", "leave"} => <<s, p>> # <<r, o>> /\ gor'[s][p] = gor[s][p]
  <2>1. gor[s][p] = Shaped(gor[s][p]) /\ gor[s][p].at \in Ats /\ gor[s][p].model \in 0..(Models + 1)
    BY <1>1, GorTypes
  <2>2. CASE ends(s, p)
    <3>1. gor'[s][p] = given(s, p)
      BY <1>2, <2>2
    <3>2. gor[s][p].at # "free"
      BY <1>1, <2>2
    <3> QED BY <1>3, <2>1, <3>1, <3>2 DEF Ats
  <2>3. CASE ~ends(s, p)
    BY <1>2, <2>1, <2>3
  <2> QED BY <2>2, <2>3
<1>5. TypeOK'
  <2>1. gor' = [s \in Requests |-> [p \in Offsets |-> Shaped(gor'[s][p])]]
    <3>1. gor' = [s \in Requests |-> gor'[s]]
      BY <1>1
    <3>2. \A s \in Requests : gor'[s] = [p \in Offsets |-> Shaped(gor'[s][p])]
      BY <1>2, <1>4
    <3> QED BY <3>1, <3>2
  <2>2. /\ pc' \in [Requests -> {"split", "pair", "collect", "last", "done", "failed"}]
        /\ DOMAIN pieces' = Requests /\ DOMAIN ordered' = Requests
    BY <1>1 DEF PiecesInv, TypeOK
  <2>3. \A s \in Requests, p \in Offsets :
           gor'[s][p].at \in Ats /\ gor'[s][p].model \in 0..(Models + 1)
    BY <1>4
  <2> QED BY <2>1, <2>2, <2>3 DEF TypeOK, Ats
<1>6. Places'
  <2>1. 1 \in Offsets /\ 2 \in Offsets
    BY DEF Offsets
  <2> QED BY <1>1, <1>4, <2>1 DEF PiecesInv, Places, PairSize
<1>7. Flying'
  <2>1. ASSUME NEW s \in Requests, NEW p \in Offsets, gor'[s][p].at \in {"call", "leave"}
        PROVE  [piece |-> gor'[s][p].piece, by |-> s, offset |-> p] \in flights'
    <3> DEFINE f == [piece |-> gor[s][p].piece, by |-> s, offset |-> p]
               g == [piece |-> piece, by |-> r, offset |-> o]
    <3>1. gor'[s][p] = gor[s][p] /\ <<s, p>> # <<r, o>>
      BY <1>4, <2>1
    <3>2. f \in flights /\ g \in flights
      BY <1>1, <2>1, <3>1 DEF PiecesInv, Flying
    <3>3. f # g
      BY <3>1
    <3>4. f.piece # g.piece
      BY <1>1, <3>2, <3>3 DEF PiecesInv, Flying
    <3> QED BY <1>1, <3>1, <3>2, <3>4
  <2>2. \A f, g \in flights' : f.piece = g.piece => f = g
    BY <1>1 DEF PiecesInv, Flying
  <2> QED BY <2>1, <2>2 DEF Flying
<1> QED BY <1>1, <1>5, <1>6, <1>7 DEF Strong, PiecesInv, Whole

-----------------------------------------------------------------------------
\* The steps of the request itself.

\* A step that puts nobody into a flight keeps the flights right.
LEMMA FlightsStay ==
    ASSUME PiecesInv, flights' = flights,
           \A s \in Requests, p \in Offsets :
               gor'[s][p].at \in {"call", "leave"} => gor'[s][p] = gor[s][p]
    PROVE  Flying'
BY DEF PiecesInv, Flying

\* What one request's step must show of its own place for Places to hold.
PlaceOf(r, at, g, parts, got) ==
    LET free(o) == g[o].at = "free" IN
    /\ at \in {"split", "pair", "done"} => free(1) /\ free(2)
    /\ at = "last" => free(2)
    /\ at = "collect" =>
         \/ got = <<>> /\ (Len(parts) = 1 => free(2))
         \/ Len(parts) # 1 /\ got = <<got[1]>> /\ (free(1) \/ free(2))

LEMMA PlacesAre ==
    Places <=> \A r \in Requests : PlaceOf(r, pc[r], gor[r], pieces[r], ordered[r])
BY DEF Places, PlaceOf, PairSize

LEMMA OthersStay ==
    ASSUME PiecesInv, NEW r \in Requests,
           \A s \in Requests : s # r => /\ pc'[s] = pc[s] /\ gor'[s] = gor[s]
                                        /\ pieces'[s] = pieces[s] /\ ordered'[s] = ordered[s],
           PlaceOf(r, pc'[r], gor'[r], pieces'[r], ordered'[r])
    PROVE  Places'
<1>1. \A s \in Requests : PlaceOf(s, pc[s], gor[s], pieces[s], ordered[s])
  BY PlacesAre DEF PiecesInv
<1>2. \A s \in Requests : PlaceOf(s, pc'[s], gor'[s], pieces'[s], ordered'[s])
  <2> TAKE s \in Requests
  <2>1. CASE s = r
    BY <2>1
  <2>2. CASE s # r
    <3>1. PlaceOf(s, pc[s], gor[s], pieces[s], ordered[s])
      BY <1>1
    <3> QED BY <2>2, <3>1
  <2> QED BY <2>1, <2>2
<1> QED BY <1>2 DEF Places, PlaceOf, PairSize

\* One goroutine of a request is started or freed.
LEMMA OneSet ==
    ASSUME PiecesInv, NEW r \in Requests, NEW o \in Offsets, NEW g, Shaped(g) = g,
           g.at \in {"free", "get"}, g.model = 0, gor' = [gor EXCEPT ![r][o] = g],
           flights' = flights, pc' \in [Requests -> {"split", "pair", "collect", "last", "done", "failed"}],
           DOMAIN pieces' = Requests, DOMAIN ordered' = Requests
    PROVE  /\ TypeOK' /\ Flying' /\ Becomes(gor', r, o, g)
           /\ \A s \in Requests : s # r => gor'[s] = gor[s]
<1>1. /\ Becomes(gor', r, o, g)
      /\ gor' = [s \in Requests |-> [p \in Offsets |-> Shaped(gor'[s][p])]]
  BY GorChanges DEF PiecesInv
<1>2. \A s \in Requests, p \in Offsets :
        /\ gor'[s][p].at \in Ats /\ gor'[s][p].model \in 0..(Models + 1)
        /\ gor'[s][p].at \in {"call", "leave"} => gor'[s][p] = gor[s][p]
  BY <1>1, SizesAssumption DEF Becomes, PiecesInv, TypeOK, Ats
<1>3. TypeOK'
  BY <1>1, <1>2 DEF TypeOK, Ats
<1>4. Flying'
  BY <1>2, FlightsStay
<1>5. \A s \in Requests : s # r => gor'[s] = gor[s]
  BY DEF PiecesInv, TypeOK
<1> QED BY <1>1, <1>3, <1>4, <1>5

LEMMA SplitKeeps ==
    ASSUME Strong, NEW r \in Requests, Split(r)
    PROVE  Strong'
<1>t. PiecesInv /\ TypeOK /\ PlaceOf(r, pc[r], gor[r], pieces[r], ordered[r])
  BY PlacesAre DEF Strong, PiecesInv
<1>u. pc[r] = "split" /\ UNCHANGED <<ordered, memory, flights>>
  BY DEF Split
<1>1. CASE Len(next[r]) <= MaxChunk
  <2> DEFINE g == Run(Piece(next[r], TRUE))
  <2>1. gor' = [gor EXCEPT ![r][1] = g] /\ pc' = [pc EXCEPT ![r] = "last"] /\ pieces' = pieces
    BY <1>1 DEF Split
  <2>2. Shaped(g) = g /\ g.at = "get" /\ g.model = 0
    BY Starts
  <2> HIDE DEF g
  <2>3. /\ pc' \in [Requests -> {"split", "pair", "collect", "last", "done", "failed"}]
        /\ pc'[r] = "last" /\ \A s \in Requests : s # r => pc'[s] = pc[s]
        /\ DOMAIN pieces' = Requests /\ DOMAIN ordered' = Requests
        /\ 1 \in Offsets /\ 2 \in Offsets
    BY <1>t, <1>u, <2>1 DEF TypeOK, Offsets
  <2>4. /\ TypeOK' /\ Flying' /\ Becomes(gor', r, 1, g)
        /\ \A s \in Requests : s # r => gor'[s] = gor[s]
    BY <1>t, <1>u, <2>1, <2>2, <2>3, OneSet
  <2>5. gor'[r][2].at = "free"
    BY <1>t, <1>u, <2>3, <2>4 DEF Becomes, PlaceOf
  <2>6. PlaceOf(r, pc'[r], gor'[r], pieces'[r], ordered'[r])
    BY <2>3, <2>5 DEF PlaceOf
  <2>7. Places'
    BY <1>t, <1>u, <2>1, <2>3, <2>4, <2>6, OthersStay
  <2> QED BY <1>u, <2>4, <2>7 DEF Strong, PiecesInv, Whole
<1>2. CASE ~(Len(next[r]) <= MaxChunk)
  <2>1. /\ pc' = [pc EXCEPT ![r] = "pair"] /\ gor' = gor
        /\ \E s : pieces' = [pieces EXCEPT ![r] = s]
    BY <1>2 DEF Split
  <2>2. /\ pc' \in [Requests -> {"split", "pair", "collect", "last", "done", "failed"}]
        /\ pc'[r] = "pair" /\ \A s \in Requests : s # r => pc'[s] = pc[s] /\ pieces'[s] = pieces[s]
        /\ DOMAIN pieces' = Requests
    BY <1>t, <2>1 DEF TypeOK
  <2>3. TypeOK' /\ Flying'
    BY <1>t, <1>u, <2>1, <2>2 DEF TypeOK, PiecesInv, Flying
  <2>4. PlaceOf(r, pc'[r], gor'[r], pieces'[r], ordered'[r])
    BY <1>t, <1>u, <2>1, <2>2 DEF PlaceOf
  <2>5. Places'
    BY <1>t, <1>u, <2>1, <2>2, <2>4, OthersStay
  <2> QED BY <1>u, <2>3, <2>5 DEF Strong, PiecesInv, Whole
<1> QED BY <1>1, <1>2

\* A pair is started when no goroutine of the request is at work.
LEMMA PairKeeps ==
    ASSUME Strong, NEW r \in Requests, Pair(r)
    PROVE  Strong'
<1>t. PiecesInv /\ TypeOK /\ PlaceOf(r, pc[r], gor[r], pieces[r], ordered[r])
  BY PlacesAre DEF Strong, PiecesInv
<1>u. pc[r] = "pair" /\ UNCHANGED <<pieces, memory, flights>>
  BY DEF Pair
<1>1. CASE pieces[r] = <<>>
  <2>1. pc' = [pc EXCEPT ![r] = "split"] /\ gor' = gor /\ ordered' = ordered
    BY <1>1 DEF Pair
  <2>2. /\ pc' \in [Requests -> {"split", "pair", "collect", "last", "done", "failed"}]
        /\ pc'[r] = "split" /\ \A s \in Requests : s # r => pc'[s] = pc[s]
    BY <1>t, <2>1 DEF TypeOK
  <2>3. TypeOK' /\ Flying'
    BY <1>t, <1>u, <2>1, <2>2 DEF TypeOK, PiecesInv, Flying
  <2>4. PlaceOf(r, pc'[r], gor'[r], pieces'[r], ordered'[r])
    BY <1>t, <1>u, <2>1, <2>2 DEF PlaceOf
  <2>5. Places'
    BY <1>t, <1>u, <2>1, <2>2, <2>4, OthersStay
  <2> QED BY <1>u, <2>3, <2>5 DEF Strong, PiecesInv, Whole
<1>2. CASE pieces[r] # <<>>
  <2> DEFINE g(o) == IF o <= PairSize(r) THEN Run(Piece(pieces[r][o], FALSE)) ELSE NoGor
  <2>1. /\ gor' = [gor EXCEPT ![r] = [o \in Offsets |-> g(o)]]
        /\ ordered' = [ordered EXCEPT ![r] = <<>>] /\ pc' = [pc EXCEPT ![r] = "collect"]
    BY <1>2 DEF Pair
  <2>2. \A o \in Offsets : Shaped(g(o)) = g(o) /\ g(o).at \in {"free", "get"} /\ g(o).model = 0
    BY Starts
  <2>3. PairSize(r) = 1 => g(2).at = "free"
    BY Starts
  <2> HIDE DEF g
  <2>4. /\ pc' \in [Requests -> {"split", "pair", "collect", "last", "done", "failed"}]
        /\ pc'[r] = "collect" /\ ordered'[r] = <<>>
        /\ \A s \in Requests : s # r => /\ pc'[s] = pc[s] /\ gor'[s] = gor[s]
                                        /\ ordered'[s] = ordered[s]
        /\ DOMAIN pieces' = Requests /\ DOMAIN ordered' = Requests
        /\ 1 \in Offsets /\ 2 \in Offsets
    BY <1>t, <1>u, <2>1 DEF TypeOK, Offsets
  <2>5. DOMAIN gor = Requests /\ \A s \in Requests : gor[s] = [p \in Offsets |-> Shaped(gor[s][p])]
    BY <1>t DEF TypeOK
  <2>6. \A o \in Offsets : gor'[r][o] = g(o)
    BY <2>1, <2>5
  <2>7. gor' = [s \in Requests |-> [p \in Offsets |-> Shaped(gor'[s][p])]]
    <3>1. gor' = [s \in Requests |-> gor'[s]]
      BY <2>1, <2>5
    <3>2. \A s \in Requests : gor'[s] = [p \in Offsets |-> gor'[s][p]]
      BY <2>1, <2>5
    <3>3. \A s \in Requests, p \in Offsets : gor'[s][p] = Shaped(gor'[s][p])
      <4> TAKE s \in Requests, p \in Offsets
      <4>1. CASE s = r
        BY <2>2, <2>6, <4>1
      <4>2. CASE s # r
        BY <2>4, <2>5, <4>2
      <4> QED BY <4>1, <4>2
    <3> QED BY <3>1, <3>2, <3>3
  <2>8. \A s \in Requests, p \in Offsets :
          /\ gor'[s][p].at \in Ats /\ gor'[s][p].model \in 0..(Models + 1)
          /\ gor'[s][p].at \in {"call", "leave"} => gor'[s][p] = gor[s][p]
    <3> TAKE s \in Requests, p \in Offsets
    <3>1. CASE s = r
      BY <2>2, <2>6, <3>1, SizesAssumption DEF Ats
    <3>2. CASE s # r
      <4>1. gor'[s] = gor[s]
        BY <2>4, <3>2
      <4> QED BY <1>t, <4>1 DEF TypeOK, Ats
    <3> QED BY <3>1, <3>2
  <2>9. TypeOK' /\ Flying'
    <3>1. TypeOK'
      BY <2>4, <2>7, <2>8 DEF TypeOK, Ats
    <3> QED BY <1>t, <1>u, <2>8, <3>1, FlightsStay
  <2>10. PlaceOf(r, pc'[r], gor'[r], pieces'[r], ordered'[r])
    BY <1>u, <2>3, <2>4, <2>6 DEF PlaceOf, PairSize
  <2>11. Places'
    BY <1>t, <1>u, <2>4, <2>10, OthersStay
  <2> QED BY <1>u, <2>9, <2>11 DEF Strong, PiecesInv, Whole
<1> QED BY <1>1, <1>2

\* When the last result of a pair is taken, no goroutine of it is left.
LEMMA CollectKeeps ==
    ASSUME Strong, NEW r \in Requests, Collect(r)
    PROVE  Strong'
<1>t. PiecesInv /\ TypeOK /\ PlaceOf(r, pc[r], gor[r], pieces[r], ordered[r])
  BY PlacesAre DEF Strong, PiecesInv
<1>u. pc[r] = "collect" /\ UNCHANGED <<memory, flights>>
  BY DEF Collect
<1>1. PICK o \in Offsets :
        /\ gor[r][o].at = "sent" /\ gor' = [gor EXCEPT ![r][o] = NoGor]
        /\ LET got == Append(ordered[r], [offset |-> o, text |-> gor[r][o].value])
           IN  \/ /\ pc' = [pc EXCEPT ![r] = "failed"]
                  /\ UNCHANGED <<pieces, ordered>>
               \/ /\ Len(got) < PairSize(r)
                  /\ ordered' = [ordered EXCEPT ![r] = got]
                  /\ UNCHANGED <<pc, pieces>>
               \/ /\ Len(got) = PairSize(r)
                  /\ ordered' = [ordered EXCEPT ![r] = <<>>]
                  /\ \E rest : pieces' = [pieces EXCEPT ![r] = rest]
                  /\ pc' = [pc EXCEPT ![r] = "pair"]
  BY DEF Collect
<1> DEFINE x == [offset |-> o, text |-> gor[r][o].value]
           got == Append(ordered[r], x)
<1>2. /\ pc' \in [Requests -> {"split", "pair", "collect", "last", "done", "failed"}]
      /\ DOMAIN pieces' = Requests /\ DOMAIN ordered' = Requests
      /\ \A s \in Requests : s # r => /\ pc'[s] = pc[s] /\ pieces'[s] = pieces[s]
                                      /\ ordered'[s] = ordered[s]
  BY <1>t, <1>1 DEF TypeOK
<1>3. /\ TypeOK' /\ Flying' /\ Becomes(gor', r, o, NoGor)
      /\ \A s \in Requests : s # r => gor'[s] = gor[s]
  <2>1. Shaped(NoGor) = NoGor /\ NoGor.at \in {"free", "get"} /\ NoGor.model = 0
    BY Starts
  <2>2. PiecesInv /\ flights' = flights /\ gor' = [gor EXCEPT ![r][o] = NoGor]
    BY <1>t, <1>u, <1>1
  <2> QED BY <1>2, <2>1, <2>2, OneSet
<1>4. /\ 1 \in Offsets /\ 2 \in Offsets /\ (o = 1 \/ o = 2)
      /\ gor'[r][o].at = "free"
      /\ \A p \in Offsets : p # o => gor'[r][p] = gor[r][p]
  BY <1>3, Starts DEF Becomes, Offsets
<1>5. \/ ordered[r] = <<>> /\ got = <<x>> /\ Len(got) = 1 /\ (Len(pieces[r]) = 1 => gor[r][2].at = "free")
      \/ Len(pieces[r]) # 1 /\ Len(got) = 2 /\ (gor[r][1].at = "free" \/ gor[r][2].at = "free")
  <2> HIDE DEF x
  <2>1. CASE ordered[r] = <<>> /\ (Len(pieces[r]) = 1 => gor[r][2].at = "free")
    BY <2>1
  <2>2. CASE Len(pieces[r]) # 1 /\ ordered[r] = <<ordered[r][1]>>
             /\ (gor[r][1].at = "free" \/ gor[r][2].at = "free")
    <3>1. PICK y : ordered[r] = <<y>>
      BY <2>2
    <3>2. Len(Append(<<y>>, x)) = 2
      OBVIOUS
    <3>3. Len(got) = 2
      BY <3>1, <3>2
    <3> HIDE DEF got
    <3> QED BY <2>2, <3>3
  <2> QED BY <1>t, <1>u, <2>1, <2>2 DEF PlaceOf
<1> HIDE DEF got
<1>6. PlaceOf(r, pc'[r], gor'[r], pieces'[r], ordered'[r])
  <2>1. CASE pc' = [pc EXCEPT ![r] = "failed"]
    <3>1. pc'[r] = "failed"
      BY <1>t, <2>1 DEF TypeOK
    <3> QED BY <3>1 DEF PlaceOf
  <2>2. CASE /\ Len(got) < PairSize(r) /\ ordered' = [ordered EXCEPT ![r] = got]
             /\ UNCHANGED <<pc, pieces>>
    <3>1. ordered'[r] = got /\ pc'[r] = "collect" /\ pieces'[r] = pieces[r]
      BY <1>t, <1>u, <2>2 DEF TypeOK
    <3>2. got = <<x>> /\ Len(pieces[r]) # 1
      BY <1>5, <2>2 DEF PairSize
    <3>3. got = <<got[1]>>
      BY <3>2
    <3> QED BY <1>4, <3>1, <3>2, <3>3 DEF PlaceOf
  <2>3. CASE Len(got) = PairSize(r) /\ pc' = [pc EXCEPT ![r] = "pair"]
    <3>1. pc'[r] = "pair"
      BY <1>t, <2>3 DEF TypeOK
    <3>2. gor'[r][1].at = "free" /\ gor'[r][2].at = "free"
      BY <1>1, <1>4, <1>5, <2>3 DEF PairSize
    <3> QED BY <3>1, <3>2 DEF PlaceOf
  <2> QED BY <1>1, <2>1, <2>2, <2>3 DEF got
<1>7. Places'
  BY <1>t, <1>2, <1>3, <1>6, OthersStay
<1> QED BY <1>u, <1>3, <1>7 DEF Strong, PiecesInv, Whole

LEMMA ReturnKeeps ==
    ASSUME Strong, NEW r \in Requests, Return(r)
    PROVE  Strong'
<1>t. PiecesInv /\ TypeOK /\ PlaceOf(r, pc[r], gor[r], pieces[r], ordered[r])
  BY PlacesAre DEF Strong, PiecesInv
<1>u. /\ pc[r] = "last" /\ UNCHANGED <<pieces, ordered, memory, flights>>
      /\ gor' = [gor EXCEPT ![r][1] = NoGor]
      /\ \E at \in {"failed", "done"} : pc' = [pc EXCEPT ![r] = at]
  BY DEF Return
<1>1. /\ pc' \in [Requests -> {"split", "pair", "collect", "last", "done", "failed"}]
      /\ pc'[r] \in {"failed", "done"} /\ \A s \in Requests : s # r => pc'[s] = pc[s]
      /\ DOMAIN pieces' = Requests /\ DOMAIN ordered' = Requests
      /\ 1 \in Offsets /\ 2 \in Offsets
  BY <1>t, <1>u DEF TypeOK, Offsets
<1>2. /\ TypeOK' /\ Flying' /\ Becomes(gor', r, 1, NoGor)
      /\ \A s \in Requests : s # r => gor'[s] = gor[s]
  BY <1>t, <1>u, <1>1, Starts, OneSet
<1>3. gor'[r][1].at = "free" /\ gor'[r][2].at = "free"
  BY <1>t, <1>u, <1>1, <1>2, Starts DEF Becomes, PlaceOf
<1>4. PlaceOf(r, pc'[r], gor'[r], pieces'[r], ordered'[r])
  BY <1>1, <1>3 DEF PlaceOf
<1>5. Places'
  BY <1>t, <1>u, <1>1, <1>2, <1>4, OthersStay
<1> QED BY <1>u, <1>2, <1>5 DEF Strong, PiecesInv, Whole

-----------------------------------------------------------------------------

LEMMA Initially ==
    ASSUME Init
    PROVE  Strong
<1>1. \A r \in Requests, o \in Offsets : gor[r][o] = NoGor
  BY DEF Init
<1>2. TypeOK
  <2>1. gor = [r \in Requests |-> [o \in Offsets |-> Shaped(gor[r][o])]]
    BY <1>1, Starts DEF Init
  <2>2. \A r \in Requests, o \in Offsets : gor[r][o].at = "free" /\ gor[r][o].model = 0
    BY <1>1, Starts
  <2> QED BY <2>1, <2>2, SizesAssumption DEF Init, TypeOK
<1>3. Places /\ Flying
  <2>1. 1 \in Offsets /\ 2 \in Offsets
    BY DEF Offsets
  <2> QED BY <1>1, <2>1, Starts DEF Init, Places, Flying
<1> QED BY <1>2, <1>3 DEF Init, Strong, PiecesInv

LEMMA StrongKept ==
    Strong /\ [Next]_vars => Strong'
<1> SUFFICES ASSUME Strong, [Next]_vars PROVE Strong'
  OBVIOUS
<1>1. ASSUME NEW r \in Requests, Main(r) PROVE Strong'
  BY <1>1, SplitKeeps, PairKeeps, CollectKeeps, ReturnKeeps DEF Main
<1>2. ASSUME NEW r \in Requests, NEW o \in Offsets, Gor(r, o) PROVE Strong'
  BY <1>2, GetKeeps, EnterKeeps, AnswerKeeps, LeaveKeeps, SendKeeps DEF Gor
<1>3. CASE UNCHANGED vars
  BY <1>3 DEF vars, Strong, PiecesInv, TypeOK, Places, PairSize, Flying, Whole
<1> QED BY <1>1, <1>2, <1>3 DEF Next, Terminated

\* In every reachable state a text is compressed by one goroutine, and what is
\* cached is a whole summary of its text within the limit (history.go:399-405,
\* 413-430, cache.go:138-159).
THEOREM OnePerPieces == Spec => []OnePerPiece
<1>1. Init => Strong
  BY Initially
<1>2. Strong /\ [Next]_vars => Strong'
  BY StrongKept
<1> QED BY <1>1, <1>2, StrongIs, PTL DEF Spec

-----------------------------------------------------------------------------
\* Sequences.

\* A set of numbers that has 0 and the successor of each has all.
LEMMA Induction ==
    ASSUME NEW S \in SUBSET Nat, 0 \in S, \A n \in S : n + 1 \in S
    PROVE  S = Nat
<1> DEFINE R == {p \in Nat \X Nat : p[1] < p[2]}
           T == Nat \ S
<1>1. IsWellFoundedOn(R, Nat)
  BY NatLessThanWellFounded, Zenon DEF OpToRel
<1>2. ASSUME T # {} PROVE FALSE
  <2>1. T \subseteq Nat
    OBVIOUS
  <2> HIDE DEF R
  <2>2. PICK x \in T : \A y \in T : <<y, x>> \notin R
    BY <1>1, <1>2, <2>1, WFMin, Zenon
  <2>3. x \in Nat /\ x # 0 /\ x - 1 \in Nat /\ x - 1 < x
    BY <2>2
  <2>4. <<x - 1, x>> \in R
    BY <2>3 DEF R
  <2>5. x - 1 \in S
    BY <2>2, <2>3, <2>4
  <2>6. (x - 1) + 1 \in S
    BY <2>5
  <2> QED BY <2>2, <2>3, <2>6
<1> QED BY <1>2

\* What FlattenSeq computes: one function joins the sequences from the left.
Joins(f, seqs) ==
    /\ f[1] = seqs[1]
    /\ \A i \in 2..Len(seqs) : f[i] = f[i - 1] \o seqs[i]

LEMMA FlattenIs ==
    ASSUME NEW S, NEW seqs \in Seq(Seq(S)), seqs # <<>>
    PROVE  \E f \in [1..Len(seqs) -> Seq(S)] : Joins(f, seqs) /\ FlattenSeq(seqs) = f[Len(seqs)]
<1> DEFINE n == Len(seqs)
           Def(f, i) == IF i = 1 THEN seqs[i] ELSE f[i - 1] \o seqs[i]
           Upto(m) == \E g \in [1..m -> Seq(S)] : \A i \in 1..m : g[i] = Def(g, i)
           flatten[i \in 1..n] == IF i = 1 THEN seqs[i] ELSE flatten[i - 1] \o seqs[i]
           All == {m \in Nat : m <= n => Upto(m)}
<1>1. n \in Nat /\ n # 0 /\ \A i \in 1..n : seqs[i] \in Seq(S)
  BY EmptySeq, LenProperties
<1>2. FlattenSeq(seqs) = flatten[n]
  BY <1>1 DEF FlattenSeq
<1>3. ASSUME NEW m \in Nat, m + 1 <= n, Upto(m) PROVE Upto(m + 1)
  <2>1. PICK g \in [1..m -> Seq(S)] : \A i \in 1..m : g[i] = Def(g, i)
    BY <1>3
  <2> DEFINE last == Def(g, m + 1)
             h == [i \in 1..(m + 1) |-> IF i = m + 1 THEN last ELSE g[i]]
  <2>2. last \in Seq(S)
    <3>1. m + 1 \in 1..n /\ (m # 0 => m \in 1..m)
      BY <1>1, <1>3
    <3>2. seqs[m + 1] \in Seq(S)
      BY <1>1, <3>1
    <3>3. CASE m = 0
      BY <3>2, <3>3
    <3>4. CASE m # 0
      <4>1. g[m] \in Seq(S)
        BY <3>1, <3>4
      <4>2. m + 1 # 1 /\ (m + 1) - 1 = m
        BY <3>4
      <4>3. last = g[m] \o seqs[m + 1]
        BY <4>2
      <4> QED BY <3>2, <4>1, <4>3, ConcatProperties
    <3> QED BY <3>3, <3>4
  <2> HIDE DEF last
  <2>3. h \in [1..(m + 1) -> Seq(S)]
    BY <2>2
  <2>4. ASSUME NEW i \in 1..(m + 1) PROVE h[i] = Def(h, i)
    <3>1. CASE i = m + 1
      <4>1. i # 1 => h[i - 1] = g[m]
        BY <3>1
      <4>2. last = IF i = 1 THEN seqs[i] ELSE g[m] \o seqs[i]
        BY <3>1 DEF last
      <4>3. h[i] = last
        BY <3>1
      <4> QED BY <4>1, <4>2, <4>3
    <3>2. CASE i # m + 1
      <4>1. i \in 1..m /\ (i # 1 => i - 1 \in 1..m)
        BY <3>2
      <4>2. h[i] = g[i] /\ (i # 1 => h[i - 1] = g[i - 1])
        BY <4>1
      <4> QED BY <2>1, <4>1, <4>2
    <3> QED BY <3>1, <3>2
  <2> HIDE DEF h
  <2> QED BY <2>3, <2>4
<1>4. Upto(0)
  <2>1. [i \in 1..0 |-> <<>>] \in [1..0 -> Seq(S)]
    OBVIOUS
  <2>2. \A i \in 1..0 : FALSE
    OBVIOUS
  <2> QED BY <2>1, <2>2
<1>5. Upto(n)
  <2> HIDE DEF Upto
  <2>1. All \in SUBSET Nat /\ 0 \in All
    BY <1>4
  <2>2. \A m \in All : m + 1 \in All
    BY <1>1, <1>3
  <2> HIDE DEF All
  <2>3. n \in All
    BY <1>1, <2>1, <2>2, Induction
  <2> QED BY <1>1, <2>3 DEF All
<1>6. PICK g \in [1..n -> Seq(S)] : \A i \in 1..n : g[i] = Def(g, i)
  BY <1>5
<1>7. g = [i \in 1..n |-> IF i = 1 THEN seqs[i] ELSE g[i - 1] \o seqs[i]]
  BY <1>6
<1>8. flatten = [i \in 1..n |-> IF i = 1 THEN seqs[i] ELSE flatten[i - 1] \o seqs[i]]
  BY <1>7
<1> HIDE DEF flatten
<1>9. \A i \in 1..n : flatten[i] = IF i = 1 THEN seqs[i] ELSE flatten[i - 1] \o seqs[i]
  BY <1>8
<1>10. Joins(flatten, seqs)
  <2>1. 1 \in 1..n /\ \A i \in 2..n : i \in 1..n /\ i # 1
    BY <1>1
  <2>2. flatten[1] = seqs[1] /\ \A i \in 2..n : flatten[i] = flatten[i - 1] \o seqs[i]
    BY <1>9, <2>1, Zenon
  <2> QED BY <2>2, Zenon DEF Joins
<1>11. flatten \in [1..n -> Seq(S)]
  <2> DEFINE In == {m \in Nat : m + 1 <= n => flatten[m + 1] \in Seq(S)}
  <2>1. 0 \in In
    <3>1. 0 + 1 = 1 /\ 1 \in 1..n
      BY <1>1
    <3>2. flatten[1] = seqs[1] /\ seqs[1] \in Seq(S)
      BY <1>1, <1>9, <3>1
    <3> QED BY <3>1, <3>2
  <2>2. ASSUME NEW m \in In PROVE m + 1 \in In
    <3>1. CASE (m + 1) + 1 <= n
      <4>1. m + 1 \in 1..n /\ (m + 1) + 1 \in 1..n /\ (m + 1) + 1 # 1 /\ ((m + 1) + 1) - 1 = m + 1
        BY <1>1, <3>1
      <4>2. flatten[m + 1] \in Seq(S) /\ seqs[(m + 1) + 1] \in Seq(S)
        BY <1>1, <4>1
      <4>3. flatten[(m + 1) + 1] = flatten[m + 1] \o seqs[(m + 1) + 1]
        BY <1>9, <4>1
      <4>4. flatten[(m + 1) + 1] \in Seq(S)
        BY <4>2, <4>3, ConcatProperties
      <4> QED BY <4>4
    <3>2. CASE ~((m + 1) + 1 <= n)
      BY <3>2
    <3> QED BY <3>1, <3>2
  <2>3. In \in SUBSET Nat
    OBVIOUS
  <2> HIDE DEF In
  <2>4. In = Nat
    BY <2>1, <2>2, <2>3, Induction
  <2>5. ASSUME NEW i \in 1..n PROVE flatten[i] \in Seq(S)
    <3>1. i - 1 \in Nat /\ (i - 1) + 1 = i /\ i <= n
      BY <1>1
    <3> QED BY <2>4, <3>1 DEF In
  <2> QED BY <1>8, <2>5
<1> QED BY <1>2, <1>10, <1>11

LEMMA Associative ==
    ASSUME NEW S
    PROVE  \A x, y, z \in Seq(S) : (x \o y) \o z = x \o (y \o z)
<1> TAKE x, y, z \in Seq(S)
<1> QED BY ConcatAssociative, SMTT(30)

\* It takes the first sequence off and joins the rest.
LEMMA FlattenFirst ==
    ASSUME NEW S, NEW seqs \in Seq(Seq(S)), seqs # <<>>
    PROVE  /\ FlattenSeq(seqs) = seqs[1] \o FlattenSeq(Tail(seqs))
           /\ FlattenSeq(seqs) \in Seq(S) /\ seqs[1] \in Seq(S)
           /\ FlattenSeq(Tail(seqs)) \in Seq(S)
<1> DEFINE n == Len(seqs)
           tail == Tail(seqs)
<1>1. /\ n \in Nat /\ n # 0 /\ \A i \in 1..n : seqs[i] \in Seq(S)
      /\ tail \in Seq(Seq(S)) /\ Len(tail) = n - 1
      /\ \A i \in 1..(n - 1) : tail[i] = seqs[i + 1]
  BY EmptySeq, LenProperties, HeadTailProperties
<1>2. PICK f \in [1..n -> Seq(S)] : Joins(f, seqs) /\ FlattenSeq(seqs) = f[n]
  BY FlattenIs
<1>j. f[1] = seqs[1] /\ \A i \in 2..n : f[i] = f[i - 1] \o seqs[i]
  BY <1>2 DEF Joins
<1>q. FlattenSeq(seqs) = f[n]
  BY <1>2
<1> HIDE DEF n, tail
<1>3. FlattenSeq(seqs) \in Seq(S) /\ seqs[1] \in Seq(S)
  <2>1. n \in 1..n /\ 1 \in 1..n
    BY <1>1
  <2> QED BY <1>1, <1>q, <2>1
<1>4. CASE n = 1
  <2>1. tail = <<>> /\ FlattenSeq(<<>>) = <<>>
    <3>1. Len(tail) = 0
      BY <1>1, <1>4
    <3>2. tail = <<>>
      BY <1>1, <3>1, EmptySeq
    <3> QED BY <3>2 DEF FlattenSeq
  <2>2. FlattenSeq(seqs) = seqs[1]
    BY <1>j, <1>q, <1>4
  <2>3. seqs[1] \o <<>> = seqs[1] /\ <<>> \in Seq(S)
    BY <1>3, ConcatEmptySeq, EmptySeq
  <2> QED BY <1>3, <2>1, <2>2, <2>3 DEF tail
<1>5. CASE n # 1
  <2>1. tail # <<>>
    BY <1>1, <1>5, EmptySeq
  <2>2. PICK g \in [1..(n - 1) -> Seq(S)] :
          /\ FlattenSeq(tail) = g[n - 1] /\ g[1] = tail[1]
          /\ \A i \in 2..(n - 1) : g[i] = g[i - 1] \o tail[i]
    <3>1. PICK g \in [1..Len(tail) -> Seq(S)] : Joins(g, tail) /\ FlattenSeq(tail) = g[Len(tail)]
      BY <1>1, <2>1, FlattenIs
    <3> QED BY <1>1, <3>1 DEF Joins
  <2>3. ASSUME NEW m \in Nat, m \in 2..n => f[m] = seqs[1] \o g[m - 1], m + 1 \in 2..n
        PROVE  f[m + 1] = seqs[1] \o g[(m + 1) - 1]
    <3>1. /\ (m + 1) - 1 = m /\ m \in 1..(n - 1) /\ m + 1 \in 1..n
          /\ m # 1 => m \in 2..n /\ m \in 2..(n - 1) /\ m - 1 \in 1..(n - 1)
      BY <1>1, <2>3
    <3>2. f[m + 1] = f[m] \o seqs[m + 1] /\ tail[m] = seqs[m + 1]
      <4>1. f[m + 1] = f[(m + 1) - 1] \o seqs[m + 1]
        BY <1>j, <2>3, Zenon
      <4> QED BY <1>1, <3>1, <4>1
    <3>3. CASE m = 1
      BY <1>j, <2>2, <3>1, <3>2, <3>3
    <3>4. CASE m # 1
      <4>1. f[m] = seqs[1] \o g[m - 1]
        BY <2>3, <3>1, <3>4, Zenon
      <4>2. g[m] = g[m - 1] \o seqs[m + 1]
        <5>1. g[m] = g[m - 1] \o tail[m]
          BY <2>2, <3>1, <3>4, Zenon
        <5> QED BY <3>2, <5>1, Zenon
      <4>3. g[m - 1] \in Seq(S) /\ seqs[1] \in Seq(S) /\ seqs[m + 1] \in Seq(S)
        BY <1>1, <1>3, <2>2, <3>1, <3>4
      <4>4. (seqs[1] \o g[m - 1]) \o seqs[m + 1] = seqs[1] \o (g[m - 1] \o seqs[m + 1])
        <5>1. \A x, y, z \in Seq(S) : (x \o y) \o z = x \o (y \o z)
          BY Associative, SMTT(30)
        <5> QED BY <4>3, <5>1, Zenon
      <4> QED BY <3>1, <3>2, <4>1, <4>2, <4>4
    <3> QED BY <3>3, <3>4
  <2> DEFINE All == {m \in Nat : m \in 2..n => f[m] = seqs[1] \o g[m - 1]}
  <2>4. 0 \in All
    <3>1. 0 \notin 2..n
      BY <1>1
    <3> QED BY <3>1
  <2>5. ASSUME NEW m \in All PROVE m + 1 \in All
    <3>1. m \in Nat /\ (m \in 2..n => f[m] = seqs[1] \o g[m - 1])
      OBVIOUS
    <3>2. m + 1 \in Nat
      BY <3>1
    <3>3. m + 1 \in 2..n => f[m + 1] = seqs[1] \o g[(m + 1) - 1]
      BY <2>3, <3>1, Zenon
    <3> QED BY <3>2, <3>3
  <2>6. All \in SUBSET Nat
    OBVIOUS
  <2> HIDE DEF All
  <2>7. All = Nat
    BY <2>4, <2>5, <2>6, Induction
  <2>8. f[n] = seqs[1] \o g[n - 1] /\ n - 1 \in 1..(n - 1)
    <3>1. n \in 2..n /\ n \in All /\ n - 1 \in 1..(n - 1)
      BY <1>1, <1>5, <2>7
    <3> QED BY <3>1 DEF All
  <2>9. FlattenSeq(tail) = g[n - 1] /\ g[n - 1] \in Seq(S)
    BY <2>2, <2>8
  <2> QED BY <1>3, <1>q, <2>8, <2>9 DEF tail
<1> QED BY <1>4, <1>5

\* The joins of one or two sequences, and of what is left without them.
LEMMA FlattenPair ==
    ASSUME NEW S, NEW a \in Seq(S), NEW b \in Seq(S)
    PROVE  FlattenSeq(<<a>>) = a /\ FlattenSeq(<<a, b>>) = a \o b
<1>1. <<a>> \in Seq(Seq(S)) /\ <<a, b>> \in Seq(Seq(S))
  OBVIOUS
<1>2. Tail(<<a>>) = <<>> /\ Tail(<<a, b>>) = <<b>> /\ Tail(<<b>>) = <<>> /\ <<b>> \in Seq(Seq(S))
  OBVIOUS
<1>3. FlattenSeq(<<>>) = <<>>
  BY DEF FlattenSeq
<1>4. FlattenSeq(<<a>>) = a \o <<>> /\ FlattenSeq(<<b>>) = b \o <<>>
  BY <1>1, <1>2, <1>3, FlattenFirst
<1>5. FlattenSeq(<<a, b>>) = a \o FlattenSeq(<<b>>)
  BY <1>1, <1>2, FlattenFirst
<1> QED BY <1>4, <1>5, ConcatEmptySeq

\* A sequence put in front is joined in front.
LEMMA FlattenFront ==
    ASSUME NEW S, NEW a \in Seq(S), NEW rest \in Seq(Seq(S))
    PROVE  FlattenSeq(<<a>> \o rest) = a \o FlattenSeq(rest)
<1> DEFINE all == <<a>> \o rest
<1>1. <<a>> \in Seq(Seq(S)) /\ Len(<<a>>) = 1
  OBVIOUS
<1>2. /\ all \in Seq(Seq(S)) /\ Len(all) = 1 + Len(rest) /\ Len(rest) \in Nat
      /\ \A i \in 1..(1 + Len(rest)) : all[i] = IF i <= 1 THEN <<a>>[i] ELSE rest[i - 1]
  BY <1>1, ConcatProperties, LenProperties
<1> HIDE DEF all
<1>3. all # <<>> /\ all[1] = a
  BY <1>2, EmptySeq
<1>4. /\ Tail(all) \in Seq(Seq(S)) /\ Len(Tail(all)) = Len(rest)
      /\ \A i \in 1..Len(Tail(all)) : Tail(all)[i] = all[i + 1]
  BY <1>2, <1>3, HeadTailProperties
<1>5. Tail(all) = rest
  <2>1. ASSUME NEW i \in 1..Len(Tail(all)) PROVE Tail(all)[i] = rest[i]
    <3>1. i + 1 \in 1..(1 + Len(rest)) /\ ~(i + 1 <= 1) /\ (i + 1) - 1 = i
      BY <1>2, <1>4
    <3> QED BY <1>2, <1>4, <3>1
  <2> QED BY <1>4, <2>1, SeqEqual
<1>6. FlattenSeq(all) = all[1] \o FlattenSeq(Tail(all))
  BY <1>2, <1>3, FlattenFirst
<1> QED BY <1>3, <1>5, <1>6 DEF all

-----------------------------------------------------------------------------
\* Texts.

LEMMA InBetween ==
    ASSUME NEW u \in Nat, NEW v \in Nat, NEW w \in Nat, u <= v, v <= w
    PROVE  u <= w /\ u <= w + 1
OBVIOUS

\* A text in which every unit begins like one of the text z and ends like one,
\* not before it and in the order of z, reads as z does.
LEMMA Rereads ==
    ASSUME NEW z \in Seq(Units), Reads(z), NEW t \in Seq(Units), t # <<>>,
           NEW p \in [1..Len(t) -> 1..Len(z)], NEW q \in [1..Len(t) -> 1..Len(z)],
           \A i \in 1..Len(t) : t[i][1] = z[p[i]][1] /\ t[i][2] = z[q[i]][2] /\ p[i] <= q[i],
           \A i, j \in 1..Len(t) : i <= j => p[i] <= p[j] /\ q[i] <= q[j],
           \A i \in 1..(Len(t) - 1) : p[i + 1] <= q[i] + 1
    PROVE  Reads(t)
<1> DEFINE n == Len(t)
           m == Len(z)
<1>1. n \in Nat /\ m \in Nat /\ DOMAIN t = 1..n /\ DOMAIN z = 1..m
      /\ (\A i \in 1..n : t[i] \in Units) /\ (\A i \in 1..m : z[i] \in Units)
  BY LenProperties
<1>2. /\ \A k \in 1..m : z[k][1] \in Nat /\ z[k][2] \in Nat /\ z[k][1] <= z[k][2]
      /\ \A j, k \in 1..m : j <= k => z[j][1] <= z[k][1] /\ z[j][2] <= z[k][2]
      /\ \A k \in 1..(m - 1) : z[k + 1][1] <= z[k][2] + 1
  BY <1>1 DEF Reads, Units
<1> HIDE DEF n, m
<1>3. ASSUME NEW i \in 1..n PROVE t[i][1] <= t[i][2]
  <2>1. p[i] \in 1..m /\ q[i] \in 1..m /\ p[i] <= q[i] /\ t[i][1] = z[p[i]][1] /\ t[i][2] = z[q[i]][2]
    BY DEF n, m
  <2>2. z[p[i]][1] <= z[q[i]][1] /\ z[q[i]][1] <= z[q[i]][2]
    BY <1>2, <2>1
  <2>3. z[p[i]][1] \in Nat /\ z[q[i]][1] \in Nat /\ z[q[i]][2] \in Nat
    BY <1>2, <2>1
  <2>4. z[p[i]][1] <= z[q[i]][2]
    BY <2>2, <2>3, InBetween
  <2> QED BY <2>1, <2>4, Zenon
<1>4. ASSUME NEW i \in 1..n, NEW j \in 1..n, i <= j
      PROVE  t[i][1] <= t[j][1] /\ t[i][2] <= t[j][2]
  <2>1. /\ p[i] \in 1..m /\ p[j] \in 1..m /\ p[i] <= p[j]
        /\ q[i] \in 1..m /\ q[j] \in 1..m /\ q[i] <= q[j]
        /\ t[i][1] = z[p[i]][1] /\ t[j][1] = z[p[j]][1]
        /\ t[i][2] = z[q[i]][2] /\ t[j][2] = z[q[j]][2]
    BY <1>4 DEF n, m
  <2> QED BY <1>2, <2>1
<1>5. ASSUME NEW i \in 1..(n - 1)
      PROVE  t[i + 1][1] <= t[i][2] + 1
  <2>1. i \in 1..n /\ i + 1 \in 1..n
    BY <1>1
  <2>2. /\ p[i + 1] \in 1..m /\ q[i] \in 1..m /\ p[i + 1] <= q[i] + 1
        /\ t[i + 1][1] = z[p[i + 1]][1] /\ t[i][2] = z[q[i]][2]
    BY <2>1 DEF n, m
  <2>3. z[p[i + 1]][1] \in Nat /\ z[q[i]][2] \in Nat
    BY <1>2, <2>2
  <2>4. CASE p[i + 1] <= q[i]
    <3>1. z[p[i + 1]][1] <= z[q[i]][1] /\ z[q[i]][1] <= z[q[i]][2] /\ z[q[i]][1] \in Nat
      BY <1>2, <2>2, <2>4
    <3>2. z[p[i + 1]][1] <= z[q[i]][2] + 1
      BY <2>3, <3>1, InBetween
    <3> QED BY <2>2, <3>2, Zenon
  <2>5. CASE ~(p[i + 1] <= q[i])
    <3>1. p[i + 1] = q[i] + 1 /\ q[i] \in 1..(m - 1)
      BY <1>1, <2>2, <2>5
    <3>2. z[q[i] + 1][1] <= z[q[i]][2] + 1
      BY <1>2, <3>1
    <3> QED BY <2>2, <3>1, <3>2
  <2> QED BY <2>4, <2>5
<1> QED BY <1>1, <1>3, <1>4, <1>5 DEF Reads, n

\* A summary of a text in the middle of another one leaves what that speaks of.
LEMMA SummaryInPlace ==
    ASSUME NEW x \in Seq(Units), NEW s \in Seq(Units), NEW y \in Seq(Units), s # <<>>,
           NEW len, Spans(x \o (s \o y), len), NEW n \in Nat \ {0}
    PROVE  Summary(s, n) \in Seq(Units) \ {<<>>} /\ Spans(x \o (Summary(s, n) \o y), len)
<1> DEFINE u == Summary(s, n)
           a == Len(x)
           l == Len(s)
           b == Len(y)
           z == x \o (s \o y)
           t == x \o (u \o y)
<1>1. /\ a \in Nat /\ l \in Nat /\ b \in Nat /\ l # 0
      /\ \A i \in 1..a : x[i] \in Units
      /\ \A i \in 1..l : s[i] \in Units
      /\ \A i \in 1..b : y[i] \in Units
  BY LenProperties, EmptySeq
<1>2. /\ u \in Seq(Units) /\ Len(u) = n /\ u # <<>>
      /\ \A i \in 1..n : u[i][1] = s[1][1] /\ u[i][2] = s[l][2]
  <2>1. <<s[1][1], s[l][2]>> \in Units
    BY <1>1 DEF Units
  <2>2. u \in [1..n -> Units]
    BY <2>1 DEF Summary
  <2>3. u \in Seq(Units)
    BY <2>2, SeqDef
  <2>4. Len(u) = n
    BY SummaryLength
  <2>5. \A i \in 1..n : u[i] = <<s[1][1], s[l][2]>>
    BY DEF Summary
  <2> QED BY <2>3, <2>4, <2>5, EmptySeq
<1> HIDE DEF u
<1>3. /\ z \in Seq(Units) /\ Len(z) = a + l + b
      /\ \A i \in 1..a : z[i] = x[i]
      /\ \A i \in 1..l : z[a + i] = s[i]
      /\ \A i \in 1..b : z[a + l + i] = y[i]
  <2>1. /\ s \o y \in Seq(Units) /\ Len(s \o y) = l + b
        /\ \A i \in 1..(l + b) : (s \o y)[i] = IF i <= l THEN s[i] ELSE y[i - l]
    BY ConcatProperties
  <2> DEFINE w == s \o y
  <2> HIDE DEF w
  <2>2. /\ x \o w \in Seq(Units) /\ Len(x \o w) = a + (l + b)
        /\ \A i \in 1..(a + (l + b)) : (x \o w)[i] = IF i <= a THEN x[i] ELSE w[i - a]
    BY <2>1, ConcatProperties DEF w
  <2>3. z = x \o w
    BY DEF w
  <2> QED BY <1>1, <2>1, <2>2, <2>3 DEF w
<1>4. /\ t \in Seq(Units) /\ Len(t) = a + n + b
      /\ \A i \in 1..a : t[i] = x[i]
      /\ \A i \in 1..n : t[a + i] = u[i]
      /\ \A i \in 1..b : t[a + n + i] = y[i]
  <2>1. /\ u \o y \in Seq(Units) /\ Len(u \o y) = n + b
        /\ \A i \in 1..(n + b) : (u \o y)[i] = IF i <= n THEN u[i] ELSE y[i - n]
    BY <1>2, ConcatProperties
  <2> DEFINE w == u \o y
  <2> HIDE DEF w
  <2>2. /\ w \in Seq(Units) /\ Len(w) = n + b
        /\ \A i \in 1..(n + b) : w[i] = IF i <= n THEN u[i] ELSE y[i - n]
    BY <2>1 DEF w
  <2>3. /\ x \o w \in Seq(Units) /\ Len(x \o w) = a + (n + b)
        /\ \A i \in 1..(a + (n + b)) : (x \o w)[i] = IF i <= a THEN x[i] ELSE w[i - a]
    <3>1. /\ x \o w \in Seq(Units) /\ Len(x \o w) = Len(x) + Len(w)
          /\ \A i \in 1..(Len(x) + Len(w)) : (x \o w)[i] = IF i <= Len(x) THEN x[i] ELSE w[i - Len(x)]
      BY <2>2, ConcatProperties, Zenon
    <3> QED BY <2>2, <3>1, Zenon
  <2>4. t = x \o w
    BY DEF w
  <2> HIDE DEF t, a, b
  <2>5. t \in Seq(Units) /\ Len(t) = a + n + b /\ n \in Nat
    BY <1>1, <2>3, <2>4
  <2>6. ASSUME NEW i \in 1..a PROVE t[i] = x[i]
    <3>1. i \in 1..(a + (n + b)) /\ i <= a
      BY <1>1, <2>5
    <3> QED BY <2>3, <2>4, <3>1
  <2>7. ASSUME NEW i \in 1..n PROVE t[a + i] = u[i]
    <3>1. a + i \in 1..(a + (n + b)) /\ ~(a + i <= a) /\ (a + i) - a = i /\ i \in 1..(n + b) /\ i <= n
      BY <1>1, <2>5
    <3> QED BY <2>2, <2>3, <2>4, <3>1
  <2>8. ASSUME NEW i \in 1..b PROVE t[a + n + i] = y[i]
    <3>1. /\ a + n + i \in 1..(a + (n + b)) /\ ~(a + n + i <= a) /\ (a + n + i) - a = n + i
          /\ n + i \in 1..(n + b) /\ ~(n + i <= n) /\ (n + i) - n = i
      BY <1>1, <2>5
    <3> QED BY <2>2, <2>3, <2>4, <3>1
  <2> QED BY <2>5, <2>6, <2>7, <2>8
<1>5. Reads(z) /\ z[1][1] = 1 /\ z[a + l + b][2] = len
  BY <1>3 DEF Spans
<1> HIDE DEF z, t
<1> DEFINE p == [i \in 1..(a + n + b) |-> IF i <= a THEN i ELSE IF i <= a + n THEN a + 1 ELSE i - n + l]
           q == [i \in 1..(a + n + b) |-> IF i <= a THEN i ELSE IF i <= a + n THEN a + l ELSE i - n + l]
<1> HIDE DEF a, l, b
<1>6. p \in [1..(a + n + b) -> 1..(a + l + b)] /\ q \in [1..(a + n + b) -> 1..(a + l + b)]
  BY <1>1
<1>7. ASSUME NEW i \in 1..(a + n + b)
      PROVE  t[i][1] = z[p[i]][1] /\ t[i][2] = z[q[i]][2] /\ p[i] <= q[i]
  <2>1. CASE i <= a
    <3>1. i \in 1..a
      BY <1>1, <2>1
    <3>2. t[i] = x[i] /\ z[i] = x[i]
      BY <1>3, <1>4, <3>1
    <3>3. p[i] = i /\ q[i] = i
      BY <2>1
    <3> HIDE DEF p, q
    <3> QED BY <3>1, <3>2, <3>3
  <2>2. CASE ~(i <= a) /\ i <= a + n
    <3>1. i - a \in 1..n /\ a + (i - a) = i /\ 1 \in 1..l /\ l \in 1..l
      BY <1>1, <2>2
    <3>2. t[i] = u[i - a] /\ z[a + 1] = s[1] /\ z[a + l] = s[l]
      BY <1>3, <1>4, <3>1
    <3>3. p[i] = a + 1 /\ q[i] = a + l /\ a + 1 <= a + l
      BY <1>1, <2>2
    <3> QED BY <1>2, <3>1, <3>2, <3>3
  <2>3. CASE ~(i <= a + n)
    <3>1. /\ i - (a + n) \in 1..b /\ a + n + (i - (a + n)) = i
          /\ a + l + (i - (a + n)) = i - n + l /\ ~(i <= a)
      BY <1>1, <2>3
    <3>2. t[i] = y[i - (a + n)] /\ z[i - n + l] = y[i - (a + n)]
      <4>1. t[a + n + (i - (a + n))] = y[i - (a + n)] /\ z[a + l + (i - (a + n))] = y[i - (a + n)]
        BY <1>3, <1>4, <3>1, Zenon
      <4> QED BY <3>1, <4>1
    <3>3. p[i] = i - n + l /\ q[i] = i - n + l /\ i - n + l \in Int
      BY <1>1, <2>3, <3>1
    <3> QED BY <3>2, <3>3
  <2> QED BY <1>1, <2>1, <2>2, <2>3
<1>8. \A i, j \in 1..(a + n + b) : i <= j => p[i] <= p[j] /\ q[i] <= q[j]
  BY <1>1
<1>9. \A i \in 1..((a + n + b) - 1) : p[i + 1] <= q[i] + 1
  BY <1>1
<1>10. p[1] = 1 /\ q[a + n + b] = a + l + b /\ a + n + b \in 1..(a + n + b) /\ 1 \in 1..(a + n + b)
  <2>1. a + n + b \in 1..(a + n + b) /\ 1 \in 1..(a + n + b)
    BY <1>1
  <2>2. p[1] = IF 1 <= a THEN 1 ELSE IF 1 <= a + n THEN a + 1 ELSE 1 - n + l
    BY <2>1
  <2>3. q[a + n + b] = IF a + n + b <= a THEN a + n + b
                       ELSE IF a + n + b <= a + n THEN a + l ELSE (a + n + b) - n + l
    BY <2>1
  <2> HIDE DEF p, q
  <2>4. p[1] = 1
    BY <1>1, <2>2
  <2>5. q[a + n + b] = a + l + b
    BY <1>1, <2>3
  <2> QED BY <2>1, <2>4, <2>5
<1> HIDE DEF p, q
<1>11. t # <<>> /\ Reads(t)
  <2>1. t # <<>>
    BY <1>1, <1>4, EmptySeq
  <2>2. Len(z) = a + l + b /\ Len(t) = a + n + b
    BY <1>3, <1>4
  <2>3. p \in [1..Len(t) -> 1..Len(z)] /\ q \in [1..Len(t) -> 1..Len(z)]
    BY <1>6, <2>2, Zenon
  <2>4. \A i \in 1..Len(t) : t[i][1] = z[p[i]][1] /\ t[i][2] = z[q[i]][2] /\ p[i] <= q[i]
    BY <1>7, <2>2, Zenon
  <2>5. \A i, j \in 1..Len(t) : i <= j => p[i] <= p[j] /\ q[i] <= q[j]
    BY <1>8, <2>2, Zenon
  <2>6. \A i \in 1..(Len(t) - 1) : p[i + 1] <= q[i] + 1
    BY <1>9, <2>2, Zenon
  <2>7. z \in Seq(Units)
    BY <1>3
  <2>8. t \in Seq(Units)
    BY <1>4
  <2>9. Reads(z)
    BY <1>5
  <2> QED BY <2>1, <2>3, <2>4, <2>5, <2>6, <2>7, <2>8, <2>9, Rereads, Zenon
<1>12. t[1][1] = 1 /\ t[a + n + b][2] = len
  BY <1>5, <1>7, <1>10
<1>13. Spans(t, len)
  BY <1>4, <1>11, <1>12 DEF Spans
<1> QED BY <1>2, <1>13 DEF t, u

\* Where splitText cuts: the splits of what is left after k units.
Rest(text, k, c, q) == {<<SubSeq(text, k + 1, k + c)>> \o rest : rest \in q}
SplitsAfter(text, g, k) ==
    IF Len(text) - k <= MaxChunk THEN {<<SubSeq(text, k + 1, Len(text))>>}
    ELSE UNION {Rest(text, k, c, g[k + c]) : c \in Cuts}

LEMMA CutSizes ==
    ASSUME NEW c \in Cuts
    PROVE  c \in Nat /\ 1 <= c /\ c <= MaxChunk /\ MaxChunk \in Nat
BY SizesAssumption DEF Cuts

\* It looks only at what is left after later cuts.
LEMMA LooksAhead ==
    ASSUME NEW text, NEW n \in Nat, Len(text) = n, NEW g, NEW h, NEW k \in 0..n,
           \A j \in (k + 1)..n : g[j] = h[j]
    PROVE  SplitsAfter(text, g, k) = SplitsAfter(text, h, k)
<1>1. CASE n - k <= MaxChunk
  BY <1>1 DEF SplitsAfter
<1>2. CASE ~(n - k <= MaxChunk)
  <2>1. ASSUME NEW c \in Cuts PROVE g[k + c] = h[k + c]
    <3>1. k + c \in (k + 1)..n
      BY <1>2, CutSizes
    <3> QED BY <3>1
  <2>2. {Rest(text, k, c, g[k + c]) : c \in Cuts} = {Rest(text, k, c, h[k + c]) : c \in Cuts}
    BY <2>1
  <2> QED BY <1>2, <2>2 DEF SplitsAfter
<1> QED BY <1>1, <1>2

LEMMA SplitsAre ==
    ASSUME NEW text, NEW n \in Nat, Len(text) = n
    PROVE  \E f : Splits(text) = f[0] /\ \A k \in 0..n : f[k] = SplitsAfter(text, f, k)
<1> DEFINE f[s \in 0..Len(text)] ==
          IF Len(text) - s <= MaxChunk
          THEN {<<SubSeq(text, s + 1, Len(text))>>}
          ELSE UNION {{<<SubSeq(text, s + 1, s + c)>> \o rest : rest \in f[s + c]} : c \in Cuts}
           From(m) == \E g : g = [k \in m..n |-> SplitsAfter(text, g, k)]
           All == {m \in Nat : m <= n => From(n - m)}
<1>1. Splits(text) = f[0]
  BY DEF Splits
<1>2. From(n)
  <2> DEFINE g == [k \in n..n |-> {<<SubSeq(text, k + 1, Len(text))>>}]
  <2>1. n - n <= MaxChunk
    BY SizesAssumption
  <2>2. \A k \in n..n : SplitsAfter(text, g, k) = {<<SubSeq(text, k + 1, Len(text))>>}
    BY <2>1 DEF SplitsAfter
  <2>3. g = [k \in n..n |-> SplitsAfter(text, g, k)]
    BY <2>2
  <2> QED BY <2>3
<1>3. ASSUME NEW m \in 1..n, From(m) PROVE From(m - 1)
  <2>1. PICK g : g = [k \in m..n |-> SplitsAfter(text, g, k)]
    BY <1>3
  <2> DEFINE first == SplitsAfter(text, g, m - 1)
             h == [k \in (m - 1)..n |-> IF k = m - 1 THEN first ELSE g[k]]
  <2> HIDE DEF first
  <2>2. \A k \in m..n : h[k] = g[k]
    OBVIOUS
  <2>3. ASSUME NEW k \in (m - 1)..n PROVE h[k] = SplitsAfter(text, h, k)
    <3>1. k \in 0..n /\ \A j \in (k + 1)..n : j \in m..n
      OBVIOUS
    <3>2. SplitsAfter(text, g, k) = SplitsAfter(text, h, k)
      <4>1. \A j \in (k + 1)..n : g[j] = h[j]
        BY <2>2, <3>1
      <4> HIDE DEF h
      <4> QED BY <3>1, <4>1, LooksAhead
    <3>3. h[k] = SplitsAfter(text, g, k)
      <4>1. CASE k = m - 1
        BY <4>1 DEF first
      <4>2. CASE k # m - 1
        <5>1. k \in m..n /\ h[k] = g[k]
          BY <4>2
        <5>2. g[k] = SplitsAfter(text, g, k)
          BY <2>1, <5>1, Zenon
        <5> QED BY <5>1, <5>2
      <4> QED BY <4>1, <4>2
    <3> QED BY <3>2, <3>3
  <2>4. h = [k \in (m - 1)..n |-> h[k]]
    OBVIOUS
  <2> HIDE DEF h
  <2>5. h = [k \in (m - 1)..n |-> SplitsAfter(text, h, k)]
    BY <2>3, <2>4
  <2> QED BY <2>5
<1>4. From(0)
  <2> HIDE DEF From
  <2>1. 0 \in All
    <3>1. n - 0 = n
      OBVIOUS
    <3> QED BY <1>2, <3>1
  <2>2. ASSUME NEW m \in All PROVE m + 1 \in All
    <3>1. m \in Nat /\ (m <= n => From(n - m))
      OBVIOUS
    <3>2. ASSUME m + 1 <= n PROVE From(n - (m + 1))
      <4>1. m <= n /\ n - m \in 1..n /\ (n - m) - 1 = n - (m + 1)
        BY <3>1, <3>2
      <4>2. From((n - m) - 1)
        BY <1>3, <3>1, <4>1
      <4> QED BY <4>1, <4>2
    <3> QED BY <3>1, <3>2
  <2>3. All \in SUBSET Nat
    OBVIOUS
  <2> HIDE DEF All
  <2>4. n \in All
    BY <2>1, <2>2, <2>3, Induction
  <2>5. n - n = 0 /\ n <= n
    OBVIOUS
  <2> QED BY <2>4, <2>5 DEF All
<1>5. PICK g : g = [k \in 0..n |-> SplitsAfter(text, g, k)]
  BY <1>4
<1>6. g = [s \in 0..Len(text) |->
            IF Len(text) - s <= MaxChunk
            THEN {<<SubSeq(text, s + 1, Len(text))>>}
            ELSE UNION {{<<SubSeq(text, s + 1, s + c)>> \o rest : rest \in g[s + c]} : c \in Cuts}]
  BY <1>5, Zenon DEF SplitsAfter, Rest
<1>7. f = [s \in 0..Len(text) |->
            IF Len(text) - s <= MaxChunk
            THEN {<<SubSeq(text, s + 1, Len(text))>>}
            ELSE UNION {{<<SubSeq(text, s + 1, s + c)>> \o rest : rest \in f[s + c]} : c \in Cuts}]
  BY <1>6, Zenon
<1> HIDE DEF f
<1>8. \A k \in 0..n : f[k] = SplitsAfter(text, f, k)
  BY <1>7, Zenon DEF SplitsAfter, Rest
<1> QED BY <1>1, <1>8

\* splitText: the pieces are not empty and, joined, give the text again
\* (history.go:374-390).
LEMMA SplitsWhole ==
    ASSUME NEW S, NEW text \in Seq(S), text # <<>>, NEW split \in Splits(text)
    PROVE  split \in Seq(Seq(S) \ {<<>>}) /\ split # <<>> /\ FlattenSeq(split) = text
<1> DEFINE n == Len(text)
           Pieces == Seq(Seq(S) \ {<<>>})
           Rejoins(q, k) == q \in Pieces /\ q # <<>> /\ FlattenSeq(q) = SubSeq(text, k + 1, n)
<1>1. n \in Nat /\ n # 0 /\ \A i \in 1..n : text[i] \in S
  BY EmptySeq, LenProperties
<1>2. PICK f : Splits(text) = f[0] /\ \A k \in 0..n : f[k] = SplitsAfter(text, f, k)
  BY <1>1, SplitsAre
<1>3. ASSUME NEW k \in 0..(n - 1), NEW m \in (k + 1)..n
      PROVE  SubSeq(text, k + 1, m) \in Seq(S) \ {<<>>}
  <2>1. k + 1 \in Int /\ m \in Int /\ k + 1 <= m /\ m - (k + 1) + 1 # 0
        /\ \A i \in (k + 1)..m : i \in 1..n
    BY <1>1
  <2>2. SubSeq(text, k + 1, m) \in Seq(S) /\ Len(SubSeq(text, k + 1, m)) = m - (k + 1) + 1
    BY <1>1, <2>1, SubSeqProperties
  <2> QED BY <2>1, <2>2, EmptySeq
<1>4. Pieces \subseteq Seq(Seq(S))
  BY SeqMonotonic
<1> HIDE DEF n
<1>5. ASSUME NEW k \in 0..(n - 1), \A j \in (k + 1)..(n - 1) : \A q \in f[j] : Rejoins(q, j)
      PROVE  \A q \in f[k] : Rejoins(q, k)
  <2>1. CASE n - k <= MaxChunk
    <3> DEFINE piece == SubSeq(text, k + 1, n)
    <3>1. piece \in Seq(S) \ {<<>>}
      BY <1>1, <1>3
    <3>2. f[k] = {<<piece>>}
      <4>1. k \in 0..n /\ Len(text) = n
        BY <1>1 DEF n
      <4>2. f[k] = SplitsAfter(text, f, k)
        BY <1>2, <4>1
      <4> QED BY <2>1, <4>1, <4>2 DEF SplitsAfter
    <3> HIDE DEF piece
    <3>3. <<piece>> \in Pieces /\ <<piece>> # <<>>
      BY <3>1
    <3>4. FlattenSeq(<<piece>>) = piece
      BY <3>1, FlattenPair
    <3> QED BY <3>2, <3>3, <3>4 DEF piece
  <2>2. CASE ~(n - k <= MaxChunk)
    <3> SUFFICES ASSUME NEW q \in f[k] PROVE Rejoins(q, k)
      OBVIOUS
    <3>1. PICK c \in Cuts : q \in Rest(text, k, c, f[k + c])
      <4>1. k \in 0..n /\ Len(text) = n
        BY <1>1 DEF n
      <4>2. f[k] = SplitsAfter(text, f, k)
        BY <1>2, <4>1
      <4>3. SplitsAfter(text, f, k) = UNION {Rest(text, k, d, f[k + d]) : d \in Cuts}
        BY <2>2, <4>1 DEF SplitsAfter
      <4>4. q \in UNION {Rest(text, k, d, f[k + d]) : d \in Cuts}
        BY <4>2, <4>3
      <4> QED BY <4>4, Zenon
    <3> DEFINE piece == SubSeq(text, k + 1, k + c)
    <3>2. PICK rest \in f[k + c] : q = <<piece>> \o rest
      BY <3>1 DEF Rest
    <3>3. k + c \in (k + 1)..(n - 1) /\ k + c \in (k + 1)..n /\ k + c \in Nat
      BY <1>1, <2>2, CutSizes
    <3>4. Rejoins(rest, k + c)
      BY <1>5, <3>3
    <3>5. piece \in Seq(S) \ {<<>>}
      BY <1>3, <3>3
    <3>6. piece \o SubSeq(text, k + c + 1, n) = SubSeq(text, k + 1, n)
      <4>1. k + 1 \in 1..(n + 1) /\ k + c \in ((k + 1) - 1)..n /\ n \in (k + c)..n
        BY <1>1, <3>3
      <4> QED BY <4>1, ConcatAdjacentSubSeq DEF n
    <3> HIDE DEF piece
    <3>7. q \in Pieces /\ q # <<>>
      <4>1. <<piece>> \in Pieces /\ <<piece>> # <<>>
        BY <3>5
      <4> HIDE DEF Pieces
      <4>2. q \in Pieces
        BY <3>2, <3>4, <4>1, ConcatProperties DEF Pieces
      <4>3. q # <<>>
        BY <3>2, <3>4, <4>1, ConcatEqualIffEmpty DEF Pieces
      <4> QED BY <4>2, <4>3
    <3>8. FlattenSeq(q) = piece \o FlattenSeq(rest)
      BY <1>4, <3>2, <3>4, <3>5, FlattenFront
    <3> QED BY <3>4, <3>6, <3>7, <3>8
  <2> QED BY <2>1, <2>2
<1> DEFINE All == {m \in Nat : \A k \in 0..(n - 1) : n - k <= m => \A q \in f[k] : Rejoins(q, k)}
<1>6. 0 \in All
  BY <1>1
<1> HIDE DEF Rejoins
<1>7. ASSUME NEW m \in All PROVE m + 1 \in All
  <2>1. m \in Nat /\ \A k \in 0..(n - 1) : n - k <= m => \A q \in f[k] : Rejoins(q, k)
    OBVIOUS
  <2>2. ASSUME NEW k \in 0..(n - 1), n - k <= m + 1 PROVE \A q \in f[k] : Rejoins(q, k)
    <3>1. ASSUME NEW j \in (k + 1)..(n - 1) PROVE \A q \in f[j] : Rejoins(q, j)
      <4>1. j \in 0..(n - 1) /\ n - j <= m
        BY <1>1, <2>1, <2>2
      <4> QED BY <2>1, <4>1
    <3> QED BY <1>5, <3>1
  <2> QED BY <2>1, <2>2
<1>8. All \in SUBSET Nat
  OBVIOUS
<1> HIDE DEF All
<1>9. n \in All
  BY <1>1, <1>6, <1>7, <1>8, Induction
<1>10. Rejoins(split, 0)
  <2>1. 0 \in 0..(n - 1) /\ n - 0 <= n
    BY <1>1
  <2> QED BY <1>2, <1>9, <2>1 DEF All
<1>11. SubSeq(text, 0 + 1, n) = text
  BY SubSeqFull DEF n
<1> QED BY <1>10, <1>11 DEF Rejoins

-----------------------------------------------------------------------------
\* Texts and the steps.

LEMMA JoinsUnits ==
    ASSUME NEW parts \in Seq(Seq(Units) \ {<<>>})
    PROVE  FlattenSeq(parts) \in Seq(Units) /\ parts \in Seq(Seq(Units))
<1>1. parts \in Seq(Seq(Units))
  BY SeqMonotonic
<1>2. CASE parts = <<>>
  BY <1>1, <1>2, EmptySeq DEF FlattenSeq
<1>3. CASE parts # <<>>
  BY <1>1, <1>3, FlattenFirst
<1> QED BY <1>1, <1>2, <1>3

LEMMA ReadsGapless ==
    ASSUME NEW text \in Seq(Units), Reads(text)
    PROVE  Gapless(text)
<1> SUFFICES ASSUME NEW k \in 1..(Len(text) - 1)
             PROVE  /\ text[k + 1][1] \in text[k][1]..(text[k][2] + 1)
                    /\ text[k + 1][2] >= text[k][2]
  BY DEF Gapless
<1>1. k \in 1..Len(text) /\ k + 1 \in 1..Len(text) /\ k <= k + 1 /\ DOMAIN text = 1..Len(text)
  BY LenProperties
<1>2. text[k] \in Units /\ text[k + 1] \in Units
  BY <1>1
<1>3. /\ text[k][1] <= text[k + 1][1] /\ text[k][2] <= text[k + 1][2]
      /\ text[k + 1][1] <= text[k][2] + 1
  BY <1>1 DEF Reads
<1>4. /\ text[k][1] \in Nat /\ text[k][2] \in Nat
      /\ text[k + 1][1] \in Nat /\ text[k + 1][2] \in Nat
  BY <1>2 DEF Units
<1> QED BY <1>3, <1>4

LEMMA OriginalSpans ==
    ASSUME NEW r \in Requests
    PROVE  /\ Original(r) \in Seq(Units) /\ Len(Original(r)) = Length[r]
           /\ Original(r)[1][1] = 1 /\ Original(r)[Length[r]][2] = Length[r]
           /\ Spans(Original(r), Length[r])
<1> DEFINE n == Length[r]
           t == Original(r)
<1>1. n \in Nat /\ n # 0
  BY SizesAssumption
<1>2. t \in [1..n -> Units] /\ \A i \in 1..n : t[i] = <<i, i>>
  BY <1>1 DEF Original, Units
<1> HIDE DEF n, t
<1>3. t \in Seq(Units) /\ DOMAIN t = 1..n
  BY <1>1, <1>2, SeqDef
<1>4. Len(t) = n
  BY <1>1, <1>3, LenProperties
<1>5. t # <<>> /\ 1 \in 1..n /\ n \in 1..n
  BY <1>1, <1>3, <1>4, EmptySeq
<1>6. Reads(t)
  <2>1. \A i \in 1..n : t[i] \in Units /\ t[i][1] = i /\ t[i][2] = i
    BY <1>2
  <2>2. \A i \in 1..(n - 1) : i \in 1..n /\ i + 1 \in 1..n
    BY <1>1
  <2> QED BY <1>1, <1>3, <1>4, <2>1, <2>2 DEF Reads
<1>7. t[1][1] = 1 /\ t[n][2] = n
  BY <1>2, <1>5
<1>8. Spans(t, n)
  BY <1>4, <1>5, <1>6, <1>7 DEF Spans
<1> QED BY <1>3, <1>4, <1>7, <1>8 DEF n, t

\* A summary of a text that spans the history stands for the history.
LEMMA StandsForWhole ==
    ASSUME NEW r \in Requests, NEW text, Spans(text, Length[r]), NEW s, StandsFor(s, text)
    PROVE  StandsFor(s, Original(r))
<1>1. PICK n \in 1..MaxSummary : s = Summary(text, n)
  BY DEF StandsFor
<1>2. text[1][1] = Original(r)[1][1] /\ text[Len(text)][2] = Original(r)[Len(Original(r))][2]
  BY OriginalSpans DEF Spans
<1>3. s = Summary(Original(r), n)
  BY <1>1, <1>2 DEF Summary
<1> QED BY <1>3 DEF StandsFor

\* The invariant gives the property.
LEMMA TextsAre ==
    ASSUME Strong, TextsInv
    PROVE  WholeHistory
<1> SUFFICES ASSUME NEW r \in Requests
             PROVE  LET text == next[r] \o FlattenSeq(pieces[r])
                    IN  /\ pc[r] \notin {"done", "failed"} =>
                             /\ Gapless(text)
                             /\ text[1][1] = 1 /\ text[Len(text)][2] = Length[r]
                        /\ pc[r] = "done" =>
                             /\ result[r] = Summary(Original(r), Len(result[r]))
                             /\ Len(result[r]) \in 1..MaxSummary
  BY DEF WholeHistory
<1> DEFINE text == next[r] \o FlattenSeq(pieces[r])
<1>1. /\ next[r] \in Seq(Units) /\ pieces[r] \in Seq(Seq(Units) \ {<<>>})
      /\ pc[r] \notin {"done", "failed"} => Spans(text, Length[r])
      /\ pc[r] = "done" => StandsFor(result[r], Original(r))
  BY DEF TextsInv, Spanning
<1>2. text \in Seq(Units)
  BY <1>1, JoinsUnits, ConcatProperties
<1>3. ASSUME pc[r] \notin {"done", "failed"}
      PROVE  Gapless(text) /\ text[1][1] = 1 /\ text[Len(text)][2] = Length[r]
  <2>1. Spans(text, Length[r])
    BY <1>1, <1>3
  <2> QED BY <1>2, <2>1, ReadsGapless DEF Spans
<1>4. ASSUME pc[r] = "done"
      PROVE  result[r] = Summary(Original(r), Len(result[r])) /\ Len(result[r]) \in 1..MaxSummary
  <2>1. PICK n \in 1..MaxSummary : result[r] = Summary(Original(r), n)
    BY <1>1, <1>4 DEF StandsFor
  <2>2. Len(result[r]) = n
    <3>1. n \in Nat
      BY SizesAssumption
    <3> QED BY <2>1, <3>1, SummaryLength
  <2> QED BY <2>1, <2>2
<1> QED BY <1>3, <1>4

\* What a goroutine is at, works on and has to hand over after a field changed.
Holds(h, at, piece, value) == h.at = at /\ h.piece = piece /\ h.value = value

LEMMA FieldsKept ==
    ASSUME NEW g, g = Shaped(g), NEW a, NEW m, NEW v
    PROVE  /\ Holds([g EXCEPT !.at = a], a, g.piece, g.value)
           /\ Holds([g EXCEPT !.model = m], g.at, g.piece, g.value)
           /\ Holds([g EXCEPT !.at = a, !.model = m], a, g.piece, g.value)
           /\ Holds([g EXCEPT !.at = a, !.value = v], a, g.piece, v)
<1> DEFINE Record(at, model, value) == [at |-> at, piece |-> g.piece, model |-> model, value |-> value]
<1>1. g = Record(g.at, g.model, g.value)
  BY DEF Shaped
<1>2. \A at, model, value : Holds(Record(at, model, value), at, g.piece, value)
  BY DEF Holds
<1>3. [g EXCEPT !.at = a] = Record(a, g.model, g.value)
  BY <1>1
<1>4. [g EXCEPT !.model = m] = Record(g.at, m, g.value)
  BY <1>1
<1>5. /\ [g EXCEPT !.at = a, !.model = m] = [[g EXCEPT !.at = a] EXCEPT !.model = m]
      /\ [g EXCEPT !.at = a, !.value = v] = [[g EXCEPT !.at = a] EXCEPT !.value = v]
  OBVIOUS
<1>6. /\ [Record(a, g.model, g.value) EXCEPT !.model = m] = Record(a, m, g.value)
      /\ [Record(a, g.model, g.value) EXCEPT !.value = v] = Record(a, g.model, v)
  OBVIOUS
<1> HIDE DEF Record
<1>7. /\ [g EXCEPT !.at = a, !.model = m] = Record(a, m, g.value)
      /\ [g EXCEPT !.at = a, !.value = v] = Record(a, g.model, v)
  BY <1>3, <1>5, <1>6, Zenon
<1> QED BY <1>2, <1>3, <1>4, <1>7

\* What goroutine g hands over is of its text.
HandsOver(g) ==
    g.at \in {"leave", "send", "sent"} => g.value = Failed \/ StandsFor(g.value, g.piece.text)

\* Goroutines that stay with their pieces, and hand over and cache what is of
\* them, keep the texts.
LEMMA TextsStay ==
    ASSUME TextsInv, UNCHANGED <<pc, pieces, next, ordered, result>>,
           \A s \in Requests, p \in Offsets :
               /\ gor'[s][p].piece = gor[s][p].piece
               /\ gor'[s][p].at = "free" <=> gor[s][p].at = "free"
               /\ HandsOver(gor'[s][p]),
           \A m \in memory' : m \in memory \/ StandsFor(m.summary, m.piece.text)
    PROVE  TextsInv'
<1>1. 1 \in Offsets /\ \A r \in Requests : \A o \in 1..PairSize(r) : o \in Offsets
  BY DEF Offsets, PairSize
<1>2. Served'
  BY DEF TextsInv, Served, HandsOver
<1>3. InWork'
  <2>1. ASSUME NEW r \in Requests, pc[r] = "collect", NEW o \in 1..PairSize(r)
        PROVE  \/ gor'[r][o].at # "free" /\ gor'[r][o].piece.text = pieces[r][o]
               \/ \E k \in DOMAIN ordered[r] :
                     ordered[r][k].offset = o /\ StandsFor(ordered[r][k].text, pieces[r][o])
    <3>1. o \in Offsets
      BY <1>1
    <3>2. \/ gor[r][o].at # "free" /\ gor[r][o].piece.text = pieces[r][o]
          \/ \E k \in DOMAIN ordered[r] :
                ordered[r][k].offset = o /\ StandsFor(ordered[r][k].text, pieces[r][o])
      BY <2>1 DEF TextsInv, InWork
    <3> QED BY <3>1, <3>2
  <2>2. \A r \in Requests : pc[r] = "last" => gor'[r][1].piece.text = next[r]
    BY <1>1 DEF TextsInv, InWork
  <2>3. \A r \in Requests : /\ pc[r] \in {"split", "last"} => pieces[r] = <<>>
                            /\ pc[r] = "collect" => pieces[r] # <<>>
    BY DEF TextsInv, InWork
  <2> QED BY <2>1, <2>2, <2>3 DEF InWork, PairSize
<1>4. Spanning'
  BY DEF TextsInv, Spanning
<1> QED BY <1>2, <1>3, <1>4 DEF TextsInv

LEMMA OneGoesOn ==
    ASSUME PiecesInv, TextsInv, NEW r \in Requests, NEW o \in Offsets, NEW g, Becomes(gor', r, o, g),
           UNCHANGED <<pc, pieces, next, ordered, result>>,
           g.piece = gor[r][o].piece, g.at # "free", gor[r][o].at # "free", HandsOver(g),
           \A m \in memory' : m \in memory \/ StandsFor(m.summary, m.piece.text)
    PROVE  TextsInv'
<1>1. \A s \in Requests, p \in Offsets : HandsOver(gor[s][p])
  BY DEF TextsInv, Served, HandsOver
<1>2. ASSUME NEW s \in Requests, NEW p \in Offsets
      PROVE  /\ gor'[s][p].piece = gor[s][p].piece
             /\ gor'[s][p].at = "free" <=> gor[s][p].at = "free"
             /\ HandsOver(gor'[s][p])
  <2>1. CASE <<s, p>> = <<r, o>>
    BY <2>1 DEF Becomes
  <2>2. CASE <<s, p>> # <<r, o>>
    BY <1>1, <2>2 DEF Becomes
  <2> QED BY <2>1, <2>2
<1> QED BY <1>2, TextsStay

\* A goroutine goes on as g, which is known by its fields.
LEMMA GoesOn ==
    ASSUME PiecesInv, TextsInv, NEW r \in Requests, NEW o \in Offsets, NEW g, NEW at, NEW value,
           gor' = [gor EXCEPT ![r][o] = g], Holds(g, at, gor[r][o].piece, value),
           UNCHANGED <<pc, pieces, next, ordered, result>>, at # "free", gor[r][o].at # "free",
           at \in {"leave", "send", "sent"} =>
               value = Failed \/ StandsFor(value, gor[r][o].piece.text),
           \A m \in memory' : m \in memory \/ StandsFor(m.summary, m.piece.text)
    PROVE  TextsInv'
<1>1. DOMAIN gor = Requests /\ \A s \in Requests : DOMAIN gor[s] = Offsets
  BY DEF PiecesInv, TypeOK
<1>2. Becomes(gor', r, o, g)
  BY <1>1 DEF Becomes
<1>3. g.at = at /\ g.piece = gor[r][o].piece /\ HandsOver(g)
  BY DEF Holds, HandsOver
<1> QED BY <1>2, <1>3, OneGoesOn

LEMMA GetTexts ==
    ASSUME Strong, TextsInv, NEW r \in Requests, NEW o \in Offsets, Get(r, o)
    PROVE  TextsInv'
<1> DEFINE g == gor[r][o]
<1>1. /\ PiecesInv /\ g.at = "get" /\ UNCHANGED <<pc, pieces, next, ordered, result>>
      /\ \A m \in memory' : m \in memory
  BY DEF Strong, Get, Goto
<1>2. g = Shaped(g)
  BY <1>1, GorTypes
<1>3. CASE gor' = [gor EXCEPT ![r][o].at = "enter"]
  <2>1. gor' = [gor EXCEPT ![r][o] = [g EXCEPT !.at = "enter"]]
    BY <1>3, OneField
  <2>2. Holds([g EXCEPT !.at = "enter"], "enter", g.piece, g.value)
    BY <1>2, FieldsKept
  <2> QED BY <1>1, <2>1, <2>2, GoesOn
<1>4. ASSUME NEW m \in memory, m.piece = g.piece,
             gor' = [gor EXCEPT ![r][o] = [g EXCEPT !.at = "send", !.value = m.summary]]
      PROVE  TextsInv'
  <2>1. Holds([g EXCEPT !.at = "send", !.value = m.summary], "send", g.piece, m.summary)
    BY <1>2, FieldsKept
  <2>2. StandsFor(m.summary, g.piece.text)
    BY <1>4 DEF TextsInv, Served
  <2> QED BY <1>1, <1>4, <2>1, <2>2, GoesOn
<1> QED BY <1>3, <1>4 DEF Get, Goto

LEMMA SendTexts ==
    ASSUME Strong, TextsInv, NEW r \in Requests, NEW o \in Offsets, Send(r, o)
    PROVE  TextsInv'
<1> DEFINE g == gor[r][o]
<1>1. /\ PiecesInv /\ g.at = "send" /\ UNCHANGED <<pc, pieces, next, ordered, result, memory>>
      /\ gor' = [gor EXCEPT ![r][o].at = "sent"]
  BY DEF Strong, Send, Goto
<1> DEFINE sent == [g EXCEPT !.at = "sent"]
<1>2. gor' = [gor EXCEPT ![r][o] = sent]
  BY <1>1, OneField
<1>3. Holds(sent, "sent", g.piece, g.value)
  <2>1. g = Shaped(g)
    BY <1>1, GorTypes
  <2> QED BY <2>1, FieldsKept
<1> HIDE DEF sent
<1>4. g.value = Failed \/ StandsFor(g.value, g.piece.text)
  BY <1>1 DEF TextsInv, Served
<1>5. \A m \in memory' : m \in memory
  BY <1>1
<1>6. UNCHANGED <<pc, pieces, next, ordered, result>> /\ g.at # "free" /\ PiecesInv
  BY <1>1
<1> QED BY <1>2, <1>3, <1>4, <1>5, <1>6, GoesOn

LEMMA EnterTexts ==
    ASSUME Strong, TextsInv, NEW r \in Requests, NEW o \in Offsets, Enter(r, o)
    PROVE  TextsInv'
<1> DEFINE g == gor[r][o]
<1>1. PiecesInv /\ g.at = "enter" /\ UNCHANGED <<pc, pieces, next, ordered, result, memory>>
  BY DEF Strong, Enter
<1>2. g = Shaped(g)
  BY <1>1, GorTypes
<1>3. CASE gor' = [gor EXCEPT ![r][o].at = "wait"]
  <2>1. gor' = [gor EXCEPT ![r][o] = [g EXCEPT !.at = "wait"]]
    BY <1>3, OneField
  <2>2. Holds([g EXCEPT !.at = "wait"], "wait", g.piece, g.value)
    BY <1>2, FieldsKept
  <2> QED BY <1>1, <2>1, <2>2, GoesOn
<1>4. CASE gor' = [gor EXCEPT ![r][o] = [g EXCEPT !.at = "call", !.model = 1]]
  <2> DEFINE called == [g EXCEPT !.at = "call", !.model = 1]
  <2>1. Holds(called, "call", g.piece, g.value)
    BY <1>2, FieldsKept
  <2>2. gor' = [gor EXCEPT ![r][o] = called]
    BY <1>4
  <2> HIDE DEF called
  <2> QED BY <1>1, <2>1, <2>2, GoesOn
<1> QED BY <1>3, <1>4 DEF Enter, Goto

LEMMA AnswerTexts ==
    ASSUME Strong, TextsInv, NEW r \in Requests, NEW o \in Offsets, Answer(r, o) \/ Exhausted(r, o)
    PROVE  TextsInv'
<1> DEFINE g == gor[r][o]
<1>1. PiecesInv /\ g.at = "call" /\ UNCHANGED <<pc, pieces, next, ordered, result>>
  BY DEF Strong, Answer, Exhausted
<1>2. g = Shaped(g)
  BY <1>1, GorTypes
<1>3. CASE Exhausted(r, o)
  <2>1. memory' = memory /\ gor' = [gor EXCEPT ![r][o] = [g EXCEPT !.at = "leave", !.value = Failed]]
    BY <1>3 DEF Exhausted
  <2>2. Holds([g EXCEPT !.at = "leave", !.value = Failed], "leave", g.piece, Failed)
    BY <1>2, FieldsKept
  <2> QED BY <1>1, <2>1, <2>2, GoesOn
<1>4. CASE Answer(r, o)
  <2>1. PICK a \in Answers :
          LET summary == Summary(g.piece.text, a.size) IN
          \/ /\ Accepted(a)
             /\ memory' = memory \cup {[piece |-> g.piece, summary |-> summary, whole |-> ~a.cut]}
             /\ gor' = [gor EXCEPT ![r][o] = [g EXCEPT !.at = "leave", !.value = summary]]
          \/ /\ ~Accepted(a)
             /\ gor' = [gor EXCEPT ![r][o].model = @ + 1]
             /\ UNCHANGED memory
    BY <1>4 DEF Answer
  <2>2. CASE Accepted(a)
    <3> DEFINE summary == Summary(g.piece.text, a.size)
               m == [piece |-> g.piece, summary |-> summary, whole |-> ~a.cut]
    <3>1. StandsFor(summary, g.piece.text)
      BY <2>2 DEF Accepted, StandsFor
    <3>2. /\ memory' = memory \cup {m}
          /\ gor' = [gor EXCEPT ![r][o] = [g EXCEPT !.at = "leave", !.value = summary]]
      BY <2>1, <2>2
    <3>3. Holds([g EXCEPT !.at = "leave", !.value = summary], "leave", g.piece, summary)
      BY <1>2, FieldsKept
    <3>4. m.summary = summary /\ m.piece = g.piece
      OBVIOUS
    <3> HIDE DEF summary, m
    <3>5. \A k \in memory' : k \in memory \/ StandsFor(k.summary, k.piece.text)
      BY <3>1, <3>2, <3>4
    <3> QED BY <1>1, <3>1, <3>2, <3>3, <3>5, GoesOn
  <2>3. CASE ~Accepted(a)
    <3>1. memory' = memory /\ gor' = [gor EXCEPT ![r][o] = [g EXCEPT !.model = g.model + 1]]
      BY <2>1, <2>3, OneField
    <3>2. Holds([g EXCEPT !.model = g.model + 1], g.at, g.piece, g.value)
      BY <1>2, FieldsKept
    <3> QED BY <1>1, <3>1, <3>2, GoesOn
  <2> QED BY <2>2, <2>3
<1> QED BY <1>3, <1>4

\* Who joined a flight gets the leader's value, of the text they share.
LEMMA LeaveTexts ==
    ASSUME Strong, TextsInv, NEW r \in Requests, NEW o \in Offsets, Leave(r, o)
    PROVE  TextsInv'
<1> DEFINE piece == gor[r][o].piece
           value == gor[r][o].value
           ends(s, p) == <<s, p>> = <<r, o>> \/ (gor[s][p].at = "wait" /\ gor[s][p].piece = piece)
           given(s, p) == [gor[s][p] EXCEPT !.at = "send", !.value = value]
<1>1. /\ PiecesInv /\ gor[r][o].at = "leave"
      /\ UNCHANGED <<pc, pieces, next, ordered, result, memory>>
      /\ gor' = [s \in Requests |-> [p \in Offsets |-> IF ends(s, p) THEN given(s, p) ELSE gor[s][p]]]
  BY DEF Strong, Leave
<1>2. value = Failed \/ StandsFor(value, piece.text)
  BY <1>1 DEF TextsInv, Served
<1>3. ASSUME NEW s \in Requests, NEW p \in Offsets
      PROVE  /\ gor'[s][p].piece = gor[s][p].piece
             /\ gor'[s][p].at = "free" <=> gor[s][p].at = "free"
             /\ HandsOver(gor'[s][p])
  <2>1. gor'[s][p] = IF ends(s, p) THEN given(s, p) ELSE gor[s][p]
    BY <1>1
  <2>2. Holds(given(s, p), "send", gor[s][p].piece, value)
    <3>1. gor[s][p] = Shaped(gor[s][p])
      BY <1>1, GorTypes
    <3> QED BY <3>1, FieldsKept
  <2> HIDE DEF given
  <2>3. CASE ends(s, p)
    <3>1. gor[s][p].at # "free" /\ gor[s][p].piece = piece
      BY <1>1, <2>3
    <3> QED BY <1>2, <2>1, <2>2, <2>3, <3>1 DEF Holds, HandsOver
  <2>4. CASE ~ends(s, p)
    <3>1. gor'[s][p] = gor[s][p]
      BY <2>1, <2>4
    <3> QED BY <3>1 DEF HandsOver, TextsInv, Served
  <2> QED BY <2>3, <2>4
<1> QED BY <1>1, <1>3, TextsStay

\* What one request's step must show of its own work for InWork and Spanning.
WorkOf(at, size, g, parts, got, joined) ==
    /\ at = "collect" => \A o \in 1..size :
         \/ g[o].at # "free" /\ g[o].piece.text = parts[o]
         \/ \E k \in DOMAIN got : got[k].offset = o /\ StandsFor(got[k].text, parts[o])
    /\ at = "last" => g[1].piece.text = joined
    /\ at \in {"split", "last"} => parts = <<>>
    /\ at = "collect" => parts # <<>>
SpanOf(r, at, parts, joined, res) ==
    /\ joined \in Seq(Units) /\ parts \in Seq(Seq(Units) \ {<<>>})
    /\ at \notin {"done", "failed"} => Spans(joined \o FlattenSeq(parts), Length[r])
    /\ at = "done" => StandsFor(res, Original(r))

LEMMA OneWorks ==
    ASSUME PiecesInv, TextsInv, NEW r \in Requests, memory' = memory,
           DOMAIN next' = Requests, DOMAIN result' = Requests,
           \A s \in Requests : s # r => /\ pc'[s] = pc[s] /\ gor'[s] = gor[s]
                                        /\ pieces'[s] = pieces[s] /\ ordered'[s] = ordered[s]
                                        /\ next'[s] = next[s] /\ result'[s] = result[s],
           \A o \in Offsets : gor'[r][o] = gor[r][o] \/ gor'[r][o].at \in {"free", "get"},
           WorkOf(pc'[r], PairSize(r)', gor'[r], pieces'[r], ordered'[r], next'[r]),
           SpanOf(r, pc'[r], pieces'[r], next'[r], result'[r])
    PROVE  TextsInv'
<1>1. ASSUME NEW s \in Requests, NEW o \in Offsets
      PROVE  gor'[s][o].at \in {"leave", "send", "sent"} =>
                gor'[s][o].value = Failed \/ StandsFor(gor'[s][o].value, gor'[s][o].piece.text)
  <2>1. gor'[s][o] = gor[s][o] \/ gor'[s][o].at \in {"free", "get"}
    BY Zenon
  <2>2. CASE gor'[s][o] = gor[s][o]
    BY <2>2 DEF TextsInv, Served
  <2>3. CASE gor'[s][o].at \in {"free", "get"}
    BY <2>3
  <2> QED BY <2>1, <2>2, <2>3
<1>2. Served'
  BY <1>1 DEF TextsInv, Served
<1>3. ASSUME NEW s \in Requests
      PROVE  /\ WorkOf(pc'[s], PairSize(s)', gor'[s], pieces'[s], ordered'[s], next'[s])
             /\ SpanOf(s, pc'[s], pieces'[s], next'[s], result'[s])
  <2>1. CASE s = r
    BY <2>1
  <2>2. CASE s # r
    <3>1. /\ WorkOf(pc[s], PairSize(s), gor[s], pieces[s], ordered[s], next[s])
          /\ SpanOf(s, pc[s], pieces[s], next[s], result[s])
      BY DEF WorkOf, SpanOf, TextsInv, InWork, Spanning
    <3>2. PairSize(s)' = PairSize(s)
      BY <2>2 DEF PairSize
    <3> QED BY <2>2, <3>1, <3>2
  <2> QED BY <2>1, <2>2
<1>4. InWork' /\ Spanning'
  BY <1>3 DEF InWork, Spanning, WorkOf, SpanOf
<1> QED BY <1>2, <1>4 DEF TextsInv

LEMMA SpanNow ==
    ASSUME TextsInv, NEW r \in Requests
    PROVE  /\ SpanOf(r, pc[r], pieces[r], next[r], result[r])
           /\ WorkOf(pc[r], PairSize(r), gor[r], pieces[r], ordered[r], next[r])
BY DEF TextsInv, Spanning, InWork, SpanOf, WorkOf

\* With no piece left, what is joined spans the history.
LEMMA NothingLeft ==
    ASSUME NEW joined \in Seq(Units)
    PROVE  joined \o FlattenSeq(<<>>) = joined
BY ConcatEmptySeq DEF FlattenSeq

LEMMA RunIs ==
    ASSUME NEW piece
    PROVE  Run(piece).at = "get" /\ Run(piece).piece = piece
BY DEF Run, NoGor

LEMMA SplitTexts ==
    ASSUME Strong, TextsInv, NEW r \in Requests, Split(r)
    PROVE  TextsInv'
<1>1. /\ PiecesInv /\ TypeOK /\ pc[r] = "split" /\ UNCHANGED <<ordered, result, memory>>
      /\ DOMAIN next = Requests /\ DOMAIN result = Requests
      /\ DOMAIN gor = Requests /\ DOMAIN gor[r] = Offsets
  BY DEF Strong, PiecesInv, TypeOK, Split, TextsInv
<1>2. pieces[r] = <<>> /\ next[r] \in Seq(Units) /\ Spans(next[r], Length[r])
      /\ pieces[r] \in Seq(Seq(Units) \ {<<>>})
  <2>1. /\ pieces[r] = <<>> /\ next[r] \in Seq(Units) /\ pieces[r] \in Seq(Seq(Units) \ {<<>>})
        /\ Spans(next[r] \o FlattenSeq(pieces[r]), Length[r])
    BY <1>1, SpanNow DEF SpanOf, WorkOf
  <2> QED BY <2>1, NothingLeft
<1>3. CASE Len(next[r]) <= MaxChunk
  <2> DEFINE g == Run(Piece(next[r], TRUE))
  <2>1. gor' = [gor EXCEPT ![r][1] = g] /\ pc' = [pc EXCEPT ![r] = "last"] /\ UNCHANGED <<pieces, next>>
    BY <1>3 DEF Split
  <2>2. g.at = "get" /\ g.piece.text = next[r]
    BY RunIs DEF Piece
  <2> HIDE DEF g
  <2>3. /\ pc'[r] = "last" /\ gor'[r][1] = g
        /\ \A o \in Offsets : gor'[r][o] = gor[r][o] \/ gor'[r][o].at \in {"free", "get"}
        /\ \A s \in Requests : s # r => pc'[s] = pc[s] /\ gor'[s] = gor[s]
    BY <1>1, <2>1, <2>2 DEF TypeOK, Offsets
  <2>4. WorkOf(pc'[r], PairSize(r)', gor'[r], pieces'[r], ordered'[r], next'[r])
    BY <1>2, <2>1, <2>2, <2>3 DEF WorkOf
  <2>5. SpanOf(r, pc'[r], pieces'[r], next'[r], result'[r])
    BY <1>2, <2>1, <2>3, NothingLeft DEF SpanOf
  <2> QED BY <1>1, <2>1, <2>3, <2>4, <2>5, OneWorks
<1>4. CASE ~(Len(next[r]) <= MaxChunk)
  <2>1. PICK split \in Splits(next[r]) : pieces' = [pieces EXCEPT ![r] = split]
    BY <1>4 DEF Split
  <2>2. next' = [next EXCEPT ![r] = <<>>] /\ pc' = [pc EXCEPT ![r] = "pair"] /\ gor' = gor
    BY <1>4 DEF Split
  <2>3. /\ split \in Seq(Seq(Units) \ {<<>>}) /\ FlattenSeq(split) = next[r]
    BY <1>2, SplitsWhole DEF Spans
  <2>4. /\ pc'[r] = "pair" /\ next'[r] = <<>> /\ pieces'[r] = split
        /\ \A s \in Requests : s # r => pc'[s] = pc[s] /\ pieces'[s] = pieces[s] /\ next'[s] = next[s]
        /\ DOMAIN next' = Requests
    BY <1>1, <2>1, <2>2 DEF TypeOK
  <2>5. WorkOf(pc'[r], PairSize(r)', gor'[r], pieces'[r], ordered'[r], next'[r])
    BY <2>4 DEF WorkOf
  <2>6. SpanOf(r, pc'[r], pieces'[r], next'[r], result'[r])
    <3>1. <<>> \in Seq(Units) /\ <<>> \o next[r] = next[r]
      BY <1>2, ConcatEmptySeq, EmptySeq
    <3> QED BY <1>2, <2>3, <2>4, <3>1 DEF SpanOf
  <2> QED BY <1>1, <2>2, <2>4, <2>5, <2>6, OneWorks
<1> QED BY <1>3, <1>4

LEMMA PairTexts ==
    ASSUME Strong, TextsInv, NEW r \in Requests, Pair(r)
    PROVE  TextsInv'
<1>1. /\ PiecesInv /\ TypeOK /\ pc[r] = "pair" /\ UNCHANGED <<pieces, next, result, memory>>
      /\ DOMAIN next = Requests /\ DOMAIN result = Requests
  BY DEF Strong, PiecesInv, Pair, TextsInv
<1>2. /\ next[r] \in Seq(Units) /\ pieces[r] \in Seq(Seq(Units) \ {<<>>})
      /\ Spans(next[r] \o FlattenSeq(pieces[r]), Length[r])
  BY <1>1, SpanNow DEF SpanOf
<1>3. CASE pieces[r] = <<>>
  <2>1. pc' = [pc EXCEPT ![r] = "split"] /\ gor' = gor /\ ordered' = ordered
    BY <1>3 DEF Pair
  <2>2. pc'[r] = "split" /\ \A s \in Requests : s # r => pc'[s] = pc[s]
    BY <1>1, <2>1 DEF TypeOK
  <2>3. WorkOf(pc'[r], PairSize(r)', gor'[r], pieces'[r], ordered'[r], next'[r])
    BY <1>1, <1>3, <2>2 DEF WorkOf
  <2>4. SpanOf(r, pc'[r], pieces'[r], next'[r], result'[r])
    BY <1>1, <1>2, <2>2 DEF SpanOf
  <2> QED BY <1>1, <2>1, <2>2, <2>3, <2>4, OneWorks
<1>4. CASE pieces[r] # <<>>
  <2> DEFINE g(o) == IF o <= PairSize(r) THEN Run(Piece(pieces[r][o], FALSE)) ELSE NoGor
  <2>1. /\ gor' = [gor EXCEPT ![r] = [o \in Offsets |-> g(o)]]
        /\ ordered' = [ordered EXCEPT ![r] = <<>>] /\ pc' = [pc EXCEPT ![r] = "collect"]
    BY <1>4 DEF Pair
  <2>2. \A o \in Offsets : g(o).at \in {"free", "get"}
    BY Starts
  <2>3. \A o \in 1..PairSize(r) : o \in Offsets /\ g(o).at # "free" /\ g(o).piece.text = pieces[r][o]
    <3>1. ASSUME NEW o \in 1..PairSize(r)
          PROVE  o \in Offsets /\ g(o).at # "free" /\ g(o).piece.text = pieces[r][o]
      <4>1. g(o) = Run(Piece(pieces[r][o], FALSE)) /\ o \in Offsets
        <5>1. PairSize(r) = 1 \/ PairSize(r) = 2
          BY DEF PairSize
        <5>2. o <= PairSize(r) /\ o \in Offsets
          BY <5>1 DEF Offsets
        <5> QED BY <5>2
      <4> QED BY <4>1, RunIs DEF Piece
    <3> QED BY <3>1
  <2> HIDE DEF g
  <2>4. /\ pc'[r] = "collect" /\ \A o \in Offsets : gor'[r][o] = g(o)
        /\ \A s \in Requests : s # r => /\ pc'[s] = pc[s] /\ gor'[s] = gor[s]
                                        /\ ordered'[s] = ordered[s]
    BY <1>1, <2>1 DEF TypeOK
  <2>5. WorkOf(pc'[r], PairSize(r)', gor'[r], pieces'[r], ordered'[r], next'[r])
    <3>1. PairSize(r)' = PairSize(r)
      BY <1>1 DEF PairSize
    <3> QED BY <1>1, <1>4, <2>3, <2>4, <3>1 DEF WorkOf
  <2>6. SpanOf(r, pc'[r], pieces'[r], next'[r], result'[r])
    BY <1>1, <1>2, <2>4 DEF SpanOf
  <2>7. \A o \in Offsets : gor'[r][o] = gor[r][o] \/ gor'[r][o].at \in {"free", "get"}
    BY <2>2, <2>4
  <2> QED BY <1>1, <2>4, <2>5, <2>6, <2>7, OneWorks
<1> QED BY <1>3, <1>4

\* The results of a pair, joined by their offsets.
LEMMA JoinedOne ==
    ASSUME NEW S, NEW x, x.offset = 1, x.text \in Seq(S)
    PROVE  Joined(<<x>>) = x.text
<1> DEFINE at(got, o) == CHOOSE k \in DOMAIN got : got[k].offset = o
<1>1. \A got : Joined(got) = FlattenSeq([o \in DOMAIN got |-> got[at(got, o)].text])
  BY DEF Joined
<1>2. DOMAIN <<x>> = {1} /\ <<x>>[1] = x
  OBVIOUS
<1>3. at(<<x>>, 1) = 1
  BY <1>2
<1> HIDE DEF at
<1>4. [o \in DOMAIN <<x>> |-> <<x>>[at(<<x>>, o)].text] = <<x.text>>
  BY <1>2, <1>3
<1> QED BY <1>1, <1>4, FlattenPair

LEMMA JoinedTwo ==
    ASSUME NEW S, NEW x, x.offset = 1, x.text \in Seq(S), NEW y, y.offset = 2, y.text \in Seq(S),
           NEW got, got = <<x, y>> \/ got = <<y, x>>
    PROVE  Joined(got) = x.text \o y.text
<1> DEFINE at(of, o) == CHOOSE k \in DOMAIN of : of[k].offset = o
<1>1. Joined(got) = FlattenSeq([o \in DOMAIN got |-> got[at(got, o)].text])
  BY DEF Joined
<1>2. /\ DOMAIN <<x, y>> = {1, 2} /\ <<x, y>>[1] = x /\ <<x, y>>[2] = y
      /\ DOMAIN <<y, x>> = {1, 2} /\ <<y, x>>[1] = y /\ <<y, x>>[2] = x
  OBVIOUS
<1>3. at(<<x, y>>, 1) = 1 /\ at(<<x, y>>, 2) = 2
  BY <1>2
<1>4. at(<<y, x>>, 1) = 2 /\ at(<<y, x>>, 2) = 1
  BY <1>2
<1> HIDE DEF at
<1>5. DOMAIN got = {1, 2} /\ got[at(got, 1)] = x /\ got[at(got, 2)] = y
  BY <1>2, <1>3, <1>4
<1>6. [o \in DOMAIN got |-> got[at(got, o)].text] = <<x.text, y.text>>
  BY <1>5
<1> QED BY <1>1, <1>6, FlattenPair

\* A summary can take the place of the text it stands for.
LEMMA InPlace ==
    ASSUME NEW x \in Seq(Units), NEW s \in Seq(Units) \ {<<>>}, NEW y \in Seq(Units),
           NEW len, Spans(x \o (s \o y), len), NEW a, StandsFor(a, s)
    PROVE  a \in Seq(Units) /\ Spans(x \o (a \o y), len)
<1>1. PICK n \in 1..MaxSummary : a = Summary(s, n)
  BY DEF StandsFor
<1>2. n \in Nat \ {0}
  BY SizesAssumption
<1> QED BY <1>1, <1>2, SummaryInPlace

\* What follows the first units of a sequence.
LEMMA FromOn ==
    ASSUME NEW S, NEW seq \in Seq(S), NEW n \in Nat, Len(seq) = n, NEW m \in 1..(n + 1)
    PROVE  /\ SubSeq(seq, m, n) \in Seq(S) /\ Len(SubSeq(seq, m, n)) = n - m + 1
           /\ \A i \in 1..(n - m + 1) : SubSeq(seq, m, n)[i] = seq[m + i - 1]
<1>1. m \in Int /\ n \in Int /\ \A i \in m..n : seq[i] \in S
  <2>1. \A i \in 1..n : seq[i] \in S
    BY LenProperties
  <2>2. \A i \in m..n : i \in 1..n
    OBVIOUS
  <2> QED BY <2>1, <2>2
<1>2. /\ SubSeq(seq, m, n) \in Seq(S) /\ Len(SubSeq(seq, m, n)) = IF m <= n THEN n - m + 1 ELSE 0
      /\ \A i \in 1..(n - m + 1) : SubSeq(seq, m, n)[i] = seq[m + i - 1]
  BY <1>1, SubSeqProperties
<1>3. (IF m <= n THEN n - m + 1 ELSE 0) = n - m + 1
  OBVIOUS
<1> QED BY <1>2, <1>3, Zenon

LEMMA UnitsAssociative ==
    \A x, y, z \in Seq(Units) : (x \o y) \o z = x \o (y \o z)
<1> DEFINE S == Units
<1> HIDE DEF S
<1>1. \A x, y, z \in Seq(S) : (x \o y) \o z = x \o (y \o z)
  BY Associative
<1> QED BY <1>1 DEF S

\* So can that of the first piece in front of the others.
LEMMA FirstInPlace ==
    ASSUME NEW x \in Seq(Units), NEW parts \in Seq(Seq(Units) \ {<<>>}), parts # <<>>,
           NEW len, Spans(x \o FlattenSeq(parts), len), NEW a, StandsFor(a, parts[1])
    PROVE  /\ SubSeq(parts, 2, Len(parts)) \in Seq(Seq(Units) \ {<<>>})
           /\ a \in Seq(Units) /\ x \o a \in Seq(Units)
           /\ Spans((x \o a) \o FlattenSeq(SubSeq(parts, 2, Len(parts))), len)
<1> DEFINE n == Len(parts)
           rest == SubSeq(parts, 2, n)
<1>1. /\ n \in Nat /\ n # 0 /\ \A i \in 1..n : parts[i] \in Seq(Units) \ {<<>>}
      /\ parts \in Seq(Seq(Units))
  BY EmptySeq, LenProperties, JoinsUnits
<1> HIDE DEF n
<1>2. /\ rest \in Seq(Seq(Units) \ {<<>>}) /\ Len(rest) = n - 1
      /\ \A i \in 1..(n - 1) : rest[i] = parts[i + 1]
  <2>1. 2 \in 1..(n + 1) /\ n - 2 + 1 = n - 1 /\ \A i \in 1..(n - 1) : 2 + i - 1 = i + 1
    BY <1>1
  <2>2. Len(parts) = n
    BY DEF n
  <2>3. /\ rest \in Seq(Seq(Units) \ {<<>>}) /\ Len(rest) = n - 2 + 1
        /\ \A i \in 1..(n - 2 + 1) : rest[i] = parts[2 + i - 1]
    BY <1>1, <2>1, <2>2, FromOn
  <2> HIDE DEF rest
  <2> QED BY <2>1, <2>3
<1>3. Tail(parts) = rest
  <2>1. /\ Tail(parts) \in Seq(Seq(Units) \ {<<>>}) /\ Len(Tail(parts)) = n - 1
        /\ \A i \in 1..(n - 1) : Tail(parts)[i] = parts[i + 1]
    BY HeadTailProperties DEF n
  <2> HIDE DEF rest
  <2> QED BY <1>2, <2>1, SeqEqual
<1> HIDE DEF rest
<1>4. FlattenSeq(parts) = parts[1] \o FlattenSeq(rest)
  BY <1>1, <1>3, FlattenFirst
<1>5. FlattenSeq(rest) \in Seq(Units)
  BY <1>2, JoinsUnits
<1>6. a \in Seq(Units) /\ Spans(x \o (a \o FlattenSeq(rest)), len)
  <2>1. parts[1] \in Seq(Units) \ {<<>>}
    BY <1>1
  <2> QED BY <1>4, <1>5, <2>1, InPlace
<1>7. x \o a \in Seq(Units) /\ Spans((x \o a) \o FlattenSeq(rest), len)
  <2>1. x \o a \in Seq(Units)
    BY <1>6, ConcatProperties
  <2>2. (x \o a) \o FlattenSeq(rest) = x \o (a \o FlattenSeq(rest))
    BY <1>5, <1>6, UnitsAssociative, Zenon
  <2> QED BY <1>6, <2>1, <2>2
<1> QED BY <1>2, <1>6, <1>7 DEF rest, n

\* And then that of the second one.
LEMMA SecondInPlace ==
    ASSUME NEW x \in Seq(Units), NEW parts \in Seq(Seq(Units) \ {<<>>}), parts # <<>>, Len(parts) # 1,
           NEW len, Spans(x \o FlattenSeq(parts), len),
           NEW a, StandsFor(a, parts[1]), NEW b, StandsFor(b, parts[2])
    PROVE  /\ SubSeq(parts, 3, Len(parts)) \in Seq(Seq(Units) \ {<<>>})
           /\ a \in Seq(Units) /\ b \in Seq(Units) /\ x \o (a \o b) \in Seq(Units)
           /\ Spans((x \o (a \o b)) \o FlattenSeq(SubSeq(parts, 3, Len(parts))), len)
<1> DEFINE n == Len(parts)
           one == SubSeq(parts, 2, n)
           two == SubSeq(parts, 3, n)
<1>1. n \in Nat /\ n >= 2 /\ Len(parts) = n
  <2>1. n \in Nat /\ n # 0 /\ n # 1
    BY EmptySeq, LenProperties
  <2> HIDE DEF n
  <2>2. n >= 2
    BY <2>1
  <2> QED BY <2>1, <2>2 DEF n
<1>2. /\ one \in Seq(Seq(Units) \ {<<>>}) /\ a \in Seq(Units) /\ x \o a \in Seq(Units)
      /\ Spans((x \o a) \o FlattenSeq(one), len)
  BY FirstInPlace
<1> HIDE DEF n
<1>3. /\ Len(one) = n - 2 + 1 /\ \A i \in 1..(n - 2 + 1) : one[i] = parts[2 + i - 1]
  <2>1. 2 \in 1..(n + 1)
    BY <1>1
  <2> QED BY <1>1, <2>1, FromOn
<1>4. /\ two \in Seq(Seq(Units) \ {<<>>}) /\ Len(two) = n - 3 + 1
      /\ \A i \in 1..(n - 3 + 1) : two[i] = parts[3 + i - 1]
  <2>1. 3 \in 1..(n + 1)
    BY <1>1
  <2> QED BY <1>1, <2>1, FromOn
<1> HIDE DEF one, two
<1>5. /\ n - 1 \in Nat /\ Len(one) = n - 1 /\ n - 1 # 0 /\ n - 3 + 1 = n - 2 /\ (n - 1) - 2 + 1 = n - 2
      /\ 1 \in 1..(n - 2 + 1) /\ 2 + 1 - 1 = 2 /\ 2 \in 1..((n - 1) + 1)
  BY <1>1, <1>3
<1>6. one # <<>> /\ one[1] = parts[2]
  BY <1>2, <1>3, <1>5, EmptySeq
<1>7. SubSeq(one, 2, n - 1) = two
  <2> DEFINE three == SubSeq(one, 2, n - 1)
  <2>1. /\ three \in Seq(Seq(Units) \ {<<>>}) /\ Len(three) = (n - 1) - 2 + 1
        /\ \A i \in 1..((n - 1) - 2 + 1) : three[i] = one[2 + i - 1]
    <3>1. n - 1 \in Nat /\ Len(one) = n - 1 /\ 2 \in 1..((n - 1) + 1)
      BY <1>5
    <3>2. one \in Seq(Seq(Units) \ {<<>>})
      BY <1>2
    <3> QED BY <3>1, <3>2, FromOn, SMTT(30)
  <2> HIDE DEF three
  <2>2. ASSUME NEW i \in 1..Len(three) PROVE three[i] = two[i]
    <3>1. /\ i \in 1..((n - 1) - 2 + 1) /\ i \in 1..(n - 3 + 1) /\ 2 + i - 1 \in 1..(n - 2 + 1)
          /\ 2 + (2 + i - 1) - 1 = 3 + i - 1
      BY <1>1, <2>1
    <3>2. one[2 + i - 1] = parts[2 + (2 + i - 1) - 1]
      BY <1>3, <3>1, Zenon
    <3> QED BY <1>4, <2>1, <3>1, <3>2
  <2>3. Len(three) = Len(two)
    BY <1>4, <1>5, <2>1
  <2>4. three = two
    BY <1>4, <2>1, <2>2, <2>3, SeqEqual
  <2> QED BY <2>4 DEF three
<1>8. /\ b \in Seq(Units) /\ (x \o a) \o b \in Seq(Units)
      /\ Spans(((x \o a) \o b) \o FlattenSeq(two), len)
  <2>1. StandsFor(b, one[1])
    BY <1>6
  <2> QED BY <1>2, <1>5, <1>6, <1>7, <2>1, FirstInPlace
<1>9. (x \o a) \o b = x \o (a \o b)
  BY <1>2, <1>8, UnitsAssociative, Zenon
<1> QED BY <1>2, <1>4, <1>8, <1>9 DEF two, n

\* A result that is not the last of its pair waits for the other.
LEMMA FirstResult ==
    ASSUME Strong, TextsInv, NEW r \in Requests, pc[r] = "collect", NEW o \in Offsets,
           gor[r][o].at = "sent", gor[r][o].value # Failed,
           Len(Append(ordered[r], [offset |-> o, text |-> gor[r][o].value])) < PairSize(r)
    PROVE  /\ ordered[r] = <<>> /\ PairSize(r) = 2
           /\ StandsFor(gor[r][o].value, pieces[r][o])
           /\ \A p \in Offsets : gor[r][p].at # "free" /\ gor[r][p].piece.text = pieces[r][p]
<1> DEFINE x == [offset |-> o, text |-> gor[r][o].value]
<1>1. PlaceOf(r, pc[r], gor[r], pieces[r], ordered[r]) /\ PairSize(r) \in {1, 2}
  BY PlacesAre DEF Strong, PiecesInv, PairSize
<1>2. WorkOf(pc[r], PairSize(r), gor[r], pieces[r], ordered[r], next[r])
  BY SpanNow
<1> HIDE DEF x
<1>3. ordered[r] = <<>> /\ PairSize(r) = 2
  <2>1. CASE ordered[r] = <<>>
    <3>1. Len(Append(<<>>, x)) = 1
      OBVIOUS
    <3>2. 1 < PairSize(r)
      BY <2>1, <3>1 DEF x
    <3> QED BY <1>1, <2>1, <3>2
  <2>2. CASE ordered[r] = <<ordered[r][1]>>
    <3>1. PICK y : ordered[r] = <<y>>
      BY <2>2
    <3>2. Len(Append(<<y>>, x)) = 2
      OBVIOUS
    <3>3. 2 < PairSize(r)
      BY <3>1, <3>2 DEF x
    <3> QED BY <1>1, <3>3
  <2> QED BY <1>1, <2>1, <2>2 DEF PlaceOf
<1>4. \A p \in Offsets : p \in 1..PairSize(r)
  BY <1>3 DEF Offsets
<1>5. ASSUME NEW p \in Offsets PROVE gor[r][p].at # "free" /\ gor[r][p].piece.text = pieces[r][p]
  <2>1. \/ gor[r][p].at # "free" /\ gor[r][p].piece.text = pieces[r][p]
        \/ \E k \in DOMAIN ordered[r] : ordered[r][k].offset = p
    BY <1>2, <1>4 DEF WorkOf
  <2>2. DOMAIN ordered[r] = {}
    BY <1>3
  <2> QED BY <2>1, <2>2
<1>6. StandsFor(gor[r][o].value, gor[r][o].piece.text)
  BY DEF TextsInv, Served
<1> QED BY <1>3, <1>5, <1>6

LEMMA AppendSecond ==
    ASSUME NEW x, NEW y
    PROVE  Append(<<y>>, x) = <<y, x>> /\ Len(<<y, x>>) = 2
<1>1. Len(<<y, x>>) = 2 /\ <<y, x>> \in Seq({x, y}) /\ <<y, x>>[1] = y /\ <<y, x>>[2] = x
  OBVIOUS
<1>2. /\ Append(<<y>>, x) \in Seq({x, y}) /\ Len(Append(<<y>>, x)) = 2
      /\ Append(<<y>>, x)[1] = y /\ Append(<<y>>, x)[2] = x
  OBVIOUS
<1>3. \A i \in 1..2 : i = 1 \/ i = 2
  OBVIOUS
<1> QED BY <1>1, <1>2, <1>3, SeqEqual

\* The results of a pair: the summaries of its pieces, as they came in.
PairResult(r, got) ==
    \/ /\ PairSize(r) = 1
       /\ \E x : got = <<x>> /\ x.offset = 1 /\ StandsFor(x.text, pieces[r][1])
    \/ /\ PairSize(r) = 2
       /\ \E x, y : /\ x.offset = 1 /\ StandsFor(x.text, pieces[r][1])
                    /\ y.offset = 2 /\ StandsFor(y.text, pieces[r][2])
                    /\ got = <<x, y>> \/ got = <<y, x>>

LEMMA LastResult ==
    ASSUME Strong, TextsInv, NEW r \in Requests, pc[r] = "collect", NEW o \in Offsets,
           gor[r][o].at = "sent", gor[r][o].value # Failed,
           NEW got, got = Append(ordered[r], [offset |-> o, text |-> gor[r][o].value]),
           Len(got) = PairSize(r)
    PROVE  PairResult(r, got)
<1> DEFINE v == gor[r][o].value
           x == [offset |-> o, text |-> v]
           other == IF o = 1 THEN 2 ELSE 1
<1>1. PlaceOf(r, pc[r], gor[r], pieces[r], ordered[r]) /\ PairSize(r) \in {1, 2}
  BY PlacesAre DEF Strong, PiecesInv, PairSize
<1>2. WorkOf(pc[r], PairSize(r), gor[r], pieces[r], ordered[r], next[r])
  BY SpanNow
<1>3. StandsFor(v, gor[r][o].piece.text)
  BY DEF TextsInv, Served
<1>s. (PairSize(r) = 1 <=> Len(pieces[r]) = 1) /\ (o = 1 \/ o = 2)
  BY DEF PairSize, Offsets
<1>o. x.offset = o /\ x.text = v
  OBVIOUS
<1> HIDE DEF x, v
<1>4. CASE ordered[r] = <<>>
  <2>1. Append(<<>>, x) = <<x>> /\ Len(<<x>>) = 1
    OBVIOUS
  <2>2. got = <<x>> /\ PairSize(r) = 1
    BY <1>4, <2>1 DEF x, v
  <2>3. o = 1
    <3>1. gor[r][2].at = "free"
      BY <1>1, <1>s, <2>2, <1>4 DEF PlaceOf
    <3> QED BY <1>s, <3>1
  <2>4. gor[r][1].piece.text = pieces[r][1]
    <3>1. 1 \in 1..PairSize(r) /\ DOMAIN ordered[r] = {}
      BY <1>4, <2>2
    <3> QED BY <1>2, <3>1 DEF WorkOf
  <2> QED BY <1>3, <1>o, <2>2, <2>3, <2>4 DEF PairResult
<1>5. CASE /\ Len(pieces[r]) # 1 /\ ordered[r] = <<ordered[r][1]>>
           /\ gor[r][1].at = "free" \/ gor[r][2].at = "free"
  <2>1. PICK y : ordered[r] = <<y>>
    BY <1>5
  <2>2. Append(<<y>>, x) = <<y, x>> /\ Len(<<y, x>>) = 2 /\ DOMAIN <<y>> = {1} /\ <<y>>[1] = y
    <3>1. Append(<<y>>, x) = <<y, x>> /\ Len(<<y, x>>) = 2
      BY AppendSecond
    <3>2. DOMAIN <<y>> = {1} /\ <<y>>[1] = y
      OBVIOUS
    <3> QED BY <3>1, <3>2
  <2>3. got = <<y, x>> /\ PairSize(r) = 2
    BY <2>1, <2>2 DEF x, v
  <2>4. gor[r][other].at = "free" /\ other \in 1..2 /\ o \in 1..2 /\ other # o
    BY <1>5, <1>s
  <2>5. y.offset = other /\ StandsFor(y.text, pieces[r][other])
    <3>1. PICK k \in DOMAIN ordered[r] :
             ordered[r][k].offset = other /\ StandsFor(ordered[r][k].text, pieces[r][other])
      <4> HIDE DEF other
      <4> QED BY <1>2, <2>3, <2>4 DEF WorkOf
    <3>2. ordered[r][k] = y
      BY <2>1, <2>2, <3>1
    <3> QED BY <3>1, <3>2
  <2>6. StandsFor(x.text, pieces[r][o])
    <3>1. ASSUME NEW k \in DOMAIN ordered[r] PROVE ordered[r][k].offset # o
      <4>1. ordered[r][k] = y
        BY <2>1, <2>2
      <4> QED BY <2>4, <2>5, <4>1
    <3>2. gor[r][o].piece.text = pieces[r][o]
      BY <1>2, <2>3, <2>4, <3>1 DEF WorkOf
    <3> QED BY <1>3, <1>o, <3>2
  <2>7. CASE o = 1
    <3>1. x.offset = 1 /\ y.offset = 2 /\ StandsFor(x.text, pieces[r][1]) /\ StandsFor(y.text, pieces[r][2])
      BY <1>o, <2>5, <2>6, <2>7
    <3> QED BY <2>3, <3>1 DEF PairResult
  <2>8. CASE o = 2
    <3>1. x.offset = 2 /\ y.offset = 1 /\ StandsFor(x.text, pieces[r][2]) /\ StandsFor(y.text, pieces[r][1])
      BY <1>o, <2>5, <2>6, <2>8
    <3> QED BY <2>3, <3>1 DEF PairResult
  <2> QED BY <1>s, <2>7, <2>8
<1> QED BY <1>1, <1>4, <1>5 DEF PlaceOf

LEMMA CollectTexts ==
    ASSUME Strong, TextsInv, NEW r \in Requests, Collect(r)
    PROVE  TextsInv'
<1>1. /\ PiecesInv /\ TypeOK /\ pc[r] = "collect" /\ memory' = memory
      /\ DOMAIN next = Requests /\ DOMAIN result = Requests
  BY DEF Strong, PiecesInv, Collect, TextsInv
<1>2. /\ next[r] \in Seq(Units) /\ pieces[r] \in Seq(Seq(Units) \ {<<>>})
      /\ Spans(next[r] \o FlattenSeq(pieces[r]), Length[r]) /\ pieces[r] # <<>>
  BY <1>1, SpanNow DEF SpanOf, WorkOf
<1>3. PICK o \in Offsets :
        /\ gor[r][o].at = "sent" /\ gor' = [gor EXCEPT ![r][o] = NoGor]
        /\ LET got == Append(ordered[r], [offset |-> o, text |-> gor[r][o].value])
           IN  \/ /\ gor[r][o].value = Failed
                  /\ pc' = [pc EXCEPT ![r] = "failed"]
                  /\ result' = [result EXCEPT ![r] = Failed]
                  /\ UNCHANGED <<pieces, next, ordered>>
               \/ /\ gor[r][o].value # Failed /\ Len(got) < PairSize(r)
                  /\ ordered' = [ordered EXCEPT ![r] = got]
                  /\ UNCHANGED <<pc, pieces, next, result>>
               \/ /\ gor[r][o].value # Failed /\ Len(got) = PairSize(r)
                  /\ ordered' = [ordered EXCEPT ![r] = <<>>]
                  /\ next' = [next EXCEPT ![r] = @ \o Joined(got)]
                  /\ pieces' = [pieces EXCEPT ![r] = SubSeq(@, PairSize(r) + 1, Len(@))]
                  /\ pc' = [pc EXCEPT ![r] = "pair"]
                  /\ UNCHANGED result
  BY DEF Collect
<1> DEFINE x == [offset |-> o, text |-> gor[r][o].value]
           got == Append(ordered[r], x)
<1>4. /\ \A s \in Requests : s # r => gor'[s] = gor[s]
      /\ gor'[r][o].at = "free" /\ \A p \in Offsets : p # o => gor'[r][p] = gor[r][p]
  BY <1>1, <1>3, Starts DEF TypeOK
<1>5. \A p \in Offsets : gor'[r][p] = gor[r][p] \/ gor'[r][p].at \in {"free", "get"}
  BY <1>4
<1>x. x.offset = o /\ x.text = gor[r][o].value
  OBVIOUS
<1> HIDE DEF x
<1>6. CASE /\ pc' = [pc EXCEPT ![r] = "failed"]
           /\ result' = [result EXCEPT ![r] = Failed]
           /\ UNCHANGED <<pieces, next, ordered>>
  <2>1. /\ pc'[r] = "failed" /\ DOMAIN result' = Requests /\ DOMAIN next' = Requests
        /\ \A s \in Requests : s # r => pc'[s] = pc[s] /\ result'[s] = result[s]
    BY <1>1, <1>6 DEF TypeOK
  <2>2. WorkOf(pc'[r], PairSize(r)', gor'[r], pieces'[r], ordered'[r], next'[r])
    BY <2>1 DEF WorkOf
  <2>3. SpanOf(r, pc'[r], pieces'[r], next'[r], result'[r])
    BY <1>2, <1>6, <2>1 DEF SpanOf
  <2> QED BY <1>1, <1>4, <1>5, <1>6, <2>1, <2>2, <2>3, OneWorks
<1>7. CASE /\ gor[r][o].value # Failed /\ Len(got) < PairSize(r)
           /\ ordered' = [ordered EXCEPT ![r] = got]
           /\ UNCHANGED <<pc, pieces, next, result>>
  <2>1. /\ ordered[r] = <<>> /\ PairSize(r) = 2
        /\ StandsFor(gor[r][o].value, pieces[r][o])
        /\ \A p \in Offsets : gor[r][p].at # "free" /\ gor[r][p].piece.text = pieces[r][p]
    <3>1. gor[r][o].at = "sent" /\ gor[r][o].value # Failed /\ pc[r] = "collect"
      BY <1>1, <1>3, <1>7
    <3>2. Len(Append(ordered[r], [offset |-> o, text |-> gor[r][o].value])) < PairSize(r)
      BY <1>7 DEF x
    <3> QED BY <3>1, <3>2, FirstResult
  <2>2. ordered'[r] = got /\ \A s \in Requests : s # r => ordered'[s] = ordered[s]
    BY <1>1, <1>7 DEF TypeOK
  <2>3. 1 \in DOMAIN got /\ got[1] = x
    BY <2>1
  <2> HIDE DEF got
  <2>4. PairSize(r)' = 2 /\ pc'[r] = "collect" /\ pieces'[r] = pieces[r]
    BY <1>1, <1>7, <2>1 DEF PairSize
  <2>5. ASSUME NEW p \in 1..2
        PROVE  \/ gor'[r][p].at # "free" /\ gor'[r][p].piece.text = pieces'[r][p]
               \/ \E k \in DOMAIN ordered'[r] :
                     ordered'[r][k].offset = p /\ StandsFor(ordered'[r][k].text, pieces'[r][p])
    <3>1. p \in Offsets
      BY DEF Offsets
    <3>2. CASE p = o
      BY <1>x, <2>1, <2>2, <2>3, <2>4, <3>2
    <3>3. CASE p # o
      <4>1. gor'[r][p] = gor[r][p]
        BY <1>4, <3>1, <3>3
      <4> QED BY <2>1, <2>4, <3>1, <4>1
    <3> QED BY <3>2, <3>3
  <2>6. WorkOf(pc'[r], PairSize(r)', gor'[r], pieces'[r], ordered'[r], next'[r])
    BY <1>2, <2>4, <2>5 DEF WorkOf
  <2>7. SpanOf(r, pc'[r], pieces'[r], next'[r], result'[r])
    BY <1>2, <1>7, <2>4 DEF SpanOf
  <2> QED BY <1>1, <1>4, <1>5, <1>7, <2>2, <2>6, <2>7, OneWorks
<1>8. CASE /\ gor[r][o].value # Failed /\ Len(got) = PairSize(r)
           /\ ordered' = [ordered EXCEPT ![r] = <<>>]
           /\ next' = [next EXCEPT ![r] = @ \o Joined(got)]
           /\ pieces' = [pieces EXCEPT ![r] = SubSeq(@, PairSize(r) + 1, Len(@))]
           /\ pc' = [pc EXCEPT ![r] = "pair"]
           /\ UNCHANGED result
  <2> DEFINE joined == next[r] \o Joined(got)
             rest == SubSeq(pieces[r], PairSize(r) + 1, Len(pieces[r]))
  <2>1. joined \in Seq(Units) /\ rest \in Seq(Seq(Units) \ {<<>>})
        /\ Spans(joined \o FlattenSeq(rest), Length[r])
    <3>1. PairResult(r, got)
      <4>1. got = Append(ordered[r], [offset |-> o, text |-> gor[r][o].value])
        BY DEF x
      <4>2. Len(got) = PairSize(r) /\ gor[r][o].at = "sent" /\ gor[r][o].value # Failed
        BY <1>3, <1>8
      <4> HIDE DEF got
      <4>3. pc[r] = "collect"
        BY <1>1
      <4> QED BY <4>1, <4>2, <4>3, LastResult
    <3> HIDE DEF got
    <3>2. ASSUME PairSize(r) = 1, NEW u, got = <<u>>, u.offset = 1, StandsFor(u.text, pieces[r][1])
          PROVE  joined \in Seq(Units) /\ rest \in Seq(Seq(Units) \ {<<>>})
                 /\ Spans(joined \o FlattenSeq(rest), Length[r])
      <4> DEFINE a == u.text
                 two == SubSeq(pieces[r], 2, Len(pieces[r]))
      <4>1. rest = two
        BY <3>2
      <4>2. /\ two \in Seq(Seq(Units) \ {<<>>}) /\ a \in Seq(Units) /\ next[r] \o a \in Seq(Units)
            /\ Spans((next[r] \o a) \o FlattenSeq(two), Length[r])
        BY <1>2, <3>2, FirstInPlace
      <4>3. Joined(<<u>>) = a
        BY <3>2, <4>2, JoinedOne
      <4> HIDE DEF two
      <4> QED BY <3>2, <4>1, <4>2, <4>3
    <3>3. ASSUME PairSize(r) = 2, NEW u, NEW w, u.offset = 1, StandsFor(u.text, pieces[r][1]),
                 w.offset = 2, StandsFor(w.text, pieces[r][2]), got = <<u, w>> \/ got = <<w, u>>
          PROVE  joined \in Seq(Units) /\ rest \in Seq(Seq(Units) \ {<<>>})
                 /\ Spans(joined \o FlattenSeq(rest), Length[r])
      <4> DEFINE three == SubSeq(pieces[r], 3, Len(pieces[r]))
      <4>1. rest = three /\ Len(pieces[r]) # 1
        <5>1. PairSize(r) + 1 = 3
          BY <3>3
        <5>2. Len(pieces[r]) # 1
          BY <3>3 DEF PairSize
        <5> QED BY <5>1, <5>2
      <4>2. /\ three \in Seq(Seq(Units) \ {<<>>}) /\ u.text \in Seq(Units) /\ w.text \in Seq(Units)
            /\ next[r] \o (u.text \o w.text) \in Seq(Units)
            /\ Spans((next[r] \o (u.text \o w.text)) \o FlattenSeq(three), Length[r])
        BY <1>2, <3>3, <4>1, SecondInPlace
      <4>3. Joined(got) = u.text \o w.text
        BY <3>3, <4>2, JoinedTwo
      <4> HIDE DEF three
      <4> QED BY <4>1, <4>2, <4>3
    <3> QED BY <3>1, <3>2, <3>3 DEF PairResult
  <2>2. /\ pc'[r] = "pair" /\ next'[r] = joined /\ pieces'[r] = rest
        /\ DOMAIN next' = Requests
        /\ \A s \in Requests : s # r => /\ pc'[s] = pc[s] /\ next'[s] = next[s]
                                        /\ pieces'[s] = pieces[s] /\ ordered'[s] = ordered[s]
    BY <1>1, <1>8 DEF TypeOK
  <2> HIDE DEF joined, rest, got
  <2>3. WorkOf(pc'[r], PairSize(r)', gor'[r], pieces'[r], ordered'[r], next'[r])
    BY <2>2 DEF WorkOf
  <2>4. SpanOf(r, pc'[r], pieces'[r], next'[r], result'[r])
    BY <2>1, <2>2 DEF SpanOf
  <2>5. result' = result
    BY <1>8
  <2> QED BY <1>1, <1>4, <1>5, <2>2, <2>3, <2>4, <2>5, OneWorks
<1> QED BY <1>3, <1>6, <1>7, <1>8 DEF x

LEMMA ReturnTexts ==
    ASSUME Strong, TextsInv, NEW r \in Requests, Return(r)
    PROVE  TextsInv'
<1>1. /\ PiecesInv /\ TypeOK /\ pc[r] = "last" /\ UNCHANGED <<pieces, next, ordered, memory>>
      /\ DOMAIN next = Requests /\ DOMAIN result = Requests
      /\ gor[r][1].at = "sent" /\ gor' = [gor EXCEPT ![r][1] = NoGor]
      /\ result' = [result EXCEPT ![r] = gor[r][1].value]
      /\ pc' = [pc EXCEPT ![r] = IF gor[r][1].value = Failed THEN "failed" ELSE "done"]
      /\ 1 \in Offsets
  BY DEF Strong, PiecesInv, Return, TextsInv, Offsets
<1>2. /\ next[r] \in Seq(Units) /\ pieces[r] \in Seq(Seq(Units) \ {<<>>}) /\ pieces[r] = <<>>
      /\ Spans(next[r] \o FlattenSeq(pieces[r]), Length[r]) /\ gor[r][1].piece.text = next[r]
  BY <1>1, SpanNow DEF SpanOf, WorkOf
<1>3. gor[r][1].value = Failed \/ StandsFor(gor[r][1].value, next[r])
  BY <1>1, <1>2 DEF TextsInv, Served
<1>4. gor[r][1].value = Failed \/ StandsFor(gor[r][1].value, Original(r))
  <2>1. Spans(next[r], Length[r])
    BY <1>2, NothingLeft
  <2> QED BY <1>3, <2>1, StandsForWhole
<1>5. /\ result'[r] = gor[r][1].value /\ DOMAIN result' = Requests /\ DOMAIN next' = Requests
      /\ pc'[r] = IF gor[r][1].value = Failed THEN "failed" ELSE "done"
      /\ \A s \in Requests : s # r => pc'[s] = pc[s] /\ result'[s] = result[s] /\ gor'[s] = gor[s]
      /\ gor'[r][1].at = "free" /\ \A o \in Offsets : o # 1 => gor'[r][o] = gor[r][o]
  BY <1>1, Starts DEF TypeOK
<1>6. WorkOf(pc'[r], PairSize(r)', gor'[r], pieces'[r], ordered'[r], next'[r])
  BY <1>5 DEF WorkOf
<1>7. SpanOf(r, pc'[r], pieces'[r], next'[r], result'[r])
  BY <1>1, <1>2, <1>4, <1>5 DEF SpanOf
<1>8. \A o \in Offsets : gor'[r][o] = gor[r][o] \/ gor'[r][o].at \in {"free", "get"}
  BY <1>5
<1> QED BY <1>1, <1>5, <1>6, <1>7, <1>8, OneWorks

LEMMA TextsInitially ==
    ASSUME Init
    PROVE  TextsInv
<1>1. \A r \in Requests, o \in Offsets : gor[r][o].at = "free"
  BY Starts DEF Init
<1>2. Served
  BY <1>1 DEF Init, Served
<1>3. \A r \in Requests : pc[r] = "split" /\ pieces[r] = <<>> /\ next[r] = Original(r)
  BY DEF Init
<1>4. InWork
  BY <1>3 DEF InWork
<1>5. Spanning
  <2>1. ASSUME NEW r \in Requests
        PROVE  /\ next[r] \in Seq(Units) /\ pieces[r] \in Seq(Seq(Units) \ {<<>>})
               /\ Spans(next[r] \o FlattenSeq(pieces[r]), Length[r])
    <3>1. <<>> \in Seq(Seq(Units) \ {<<>>})
      BY EmptySeq
    <3> QED BY <1>3, <3>1, OriginalSpans, NothingLeft
  <2> QED BY <1>3, <2>1 DEF Spanning
<1> QED BY <1>2, <1>4, <1>5 DEF Init, TextsInv

\* In every reachable state, what is left to be compressed speaks of the whole
\* history in order and without a gap, and so does a summary that is returned,
\* which was not cut off and is within its limit (history.go:340-376, 409-430).
THEOREM WholeHistories == Spec => []WholeHistory
<1> DEFINE Inv == Strong /\ TextsInv
<1>1. Init => Inv
  BY Initially, TextsInitially
<1>2. Inv /\ [Next]_vars => Inv'
  <2> SUFFICES ASSUME Inv, [Next]_vars PROVE TextsInv'
    BY StrongKept
  <2>1. ASSUME NEW r \in Requests, Main(r) PROVE TextsInv'
    BY <2>1, SplitTexts, PairTexts, CollectTexts, ReturnTexts DEF Main
  <2>2. ASSUME NEW r \in Requests, NEW o \in Offsets, Gor(r, o) PROVE TextsInv'
    BY <2>2, GetTexts, EnterTexts, AnswerTexts, LeaveTexts, SendTexts DEF Gor
  <2>3. CASE UNCHANGED vars
    BY <2>3 DEF vars, TextsInv, Served, InWork, Spanning, PairSize
  <2> QED BY <2>1, <2>2, <2>3 DEF Next, Terminated
<1>3. Inv => WholeHistory
  BY TextsAre
<1> HIDE DEF Inv
<1> QED BY <1>1, <1>2, <1>3, PTL DEF Spec

=============================================================================
