-------------------------- MODULE TextForwardProofs --------------------------
(***************************************************************************)
(* Proofs about TextForward, for every number of models, every size of the *)
(* gate and every length of a stream.                                      *)
(***************************************************************************)
EXTENDS TextForward, SequenceTheorems, TLAPS

USE NumModelsAssumption, BufferLimitAssumption, EmitAckLostAssumption

LEMMA InitForward == Init => ForwardInv
<1> SUFFICES ASSUME Init PROVE ForwardInv
  OBVIOUS
<1>1. 1 \in Models
  BY DEF Models
<1>2. TypeOK
  <2>1. <<>> \in Seq(SUBSET Marks) /\ <<>> \in Seq(Payloads)
    OBVIOUS
  <2>2. produced \in [Models -> Seq(SUBSET Marks)]
    BY <2>1 DEF Init
  <2> QED BY <1>1, <2>1, <2>2 DEF Init, TypeOK
<1>3. Streaming /\ Untouched /\ Authored /\ Holding /\ Leaving
  BY <1>1 DEF Init, Streaming, Untouched, Authored, Holding, Leaving, Said
<1> QED BY <1>2, <1>3 DEF ForwardInv, Init

\* An error before any output leaves everything as it was for the next model.
LEMMA NextModelSafe ==
    ASSUME ForwardInv, NextModel, pc \in {"start", "leave"},
           UNCHANGED <<produced, gate, emitted, cut, final, client, ended>>,
           ~EmitAckLost => ~emitted,
           upstream' \in [Models -> {"none", "open", "closed"}],
           \A m \in Models : upstream'[m] # "open"
    PROVE  ForwardInv'
<1>1. /\ pc' \in {"start", "close"} /\ failure' \in BOOLEAN
      /\ pc' = "close" => failure' = TRUE /\ model' = model
      /\ pc' = "start" => model < NumModels /\ model' = model + 1
      /\ model' \in Models
  <2>1. model \in 1..NumModels /\ NumModels \in Nat
    BY DEF ForwardInv, TypeOK, Models
  <2>2. CASE model < NumModels
    <3>1. pc' = "start" /\ model' = model + 1 /\ failure' = FALSE
      BY <2>2 DEF NextModel
    <3>2. model + 1 \in Models
      BY <2>1, <2>2 DEF Models
    <3> QED BY <2>2, <3>1, <3>2
  <2>3. CASE ~(model < NumModels)
    BY <2>1, <2>3 DEF NextModel, Models
  <2> QED BY <2>2, <2>3
<1>2. TypeOK'
  BY <1>1 DEF ForwardInv, TypeOK, Payloads, Models
<1>3. Streaming'
  BY <1>1 DEF Streaming, ForwardInv
<1>4. ASSUME ~EmitAckLost PROVE Untouched' /\ Authored' /\ Holding' /\ Leaving'
  <2>1. client = <<>> /\ ~emitted
    BY <1>4 DEF ForwardInv, Authored
  <2>2. \A m \in Models : m > model => produced[m] = <<>>
    BY <1>4 DEF ForwardInv, Untouched
  <2>3. model \in Models /\ model \in Nat /\ model' \in Nat
    BY <1>1 DEF ForwardInv, TypeOK, Models
  <2>4. Untouched'
    BY <1>1, <2>1, <2>2, <2>3 DEF Untouched, Models
  <2>5. Authored'
    BY <1>1, <2>1, <1>2 DEF Authored, TypeOK
  <2>6. Holding' /\ Leaving'
    BY <1>1, <1>4, <2>1 DEF Holding, Leaving, ForwardInv
  <2> QED BY <2>4, <2>5, <2>6
<1> QED BY <1>1, <1>2, <1>3, <1>4 DEF ForwardInv

LEMMA PrepareSafe == ForwardInv /\ Prepare => ForwardInv'
<1> SUFFICES ASSUME ForwardInv, Prepare PROVE ForwardInv'
  OBVIOUS
<1>1. /\ pc = "prepare" /\ pc' \in {"start", "close"} /\ failure' \in BOOLEAN
      /\ pc' = "close" => failure'
  BY DEF Prepare, ForwardInv, TypeOK
<1>2. UNCHANGED <<model, upstream, produced, gate, emitted, cut, final, client, ended>>
  BY DEF Prepare
<1>3. TypeOK'
  BY <1>1, <1>2 DEF ForwardInv, TypeOK
<1>4. Streaming'
  BY <1>1, <1>2 DEF ForwardInv, Streaming
<1>5. ASSUME ~EmitAckLost PROVE Untouched' /\ Authored' /\ Holding' /\ Leaving'
  BY <1>1, <1>2, <1>5 DEF ForwardInv, Untouched, Authored, Holding, Leaving, Said
<1> QED BY <1>1, <1>2, <1>3, <1>4, <1>5 DEF ForwardInv

LEMMA RefuseSafe == ForwardInv /\ Refuse => ForwardInv'
<1> SUFFICES ASSUME ForwardInv, Refuse PROVE ForwardInv'
  OBVIOUS
<1>1. pc = "start" /\ NextModel
  BY DEF Refuse
<1>2. UNCHANGED <<upstream, produced, gate, emitted, cut, final, client, ended>>
  BY DEF Refuse
<1>3. ~EmitAckLost => ~emitted
  BY <1>1 DEF ForwardInv, Untouched
<1>4. /\ upstream' \in [Models -> {"none", "open", "closed"}]
      /\ \A m \in Models : upstream'[m] # "open"
  BY <1>1, <1>2 DEF ForwardInv, TypeOK, Streaming
<1> QED BY <1>1, <1>2, <1>3, <1>4, NextModelSafe

\* A new stream has an empty gate and a model that has said nothing yet.
LEMMA OpenSafe == ForwardInv /\ Open => ForwardInv'
<1> SUFFICES ASSUME ForwardInv, Open PROVE ForwardInv'
  OBVIOUS
<1>1. /\ pc = "start" /\ pc' = "read" /\ gate' = <<>>
      /\ emitted' = FALSE /\ cut' = FALSE /\ final' = FALSE
      /\ upstream' = [upstream EXCEPT ![model] = "open"]
      /\ UNCHANGED <<model, produced, failure, client, ended>>
  BY DEF Open
<1>2. TypeOK'
  <2>1. gate' \in Seq(Payloads)
    BY <1>1
  <2> QED BY <1>1, <2>1 DEF ForwardInv, TypeOK
<1>3. Streaming'
  BY <1>1 DEF ForwardInv, TypeOK, Streaming
<1>4. ASSUME ~EmitAckLost PROVE Untouched' /\ Authored' /\ Holding' /\ Leaving'
  <2>1. produced[model] = <<>> /\ client = <<>>
    BY <1>1, <1>4 DEF ForwardInv, Untouched, Authored
  <2>2. Untouched' /\ Authored'
    BY <1>1, <1>4, <2>1 DEF ForwardInv, Untouched, Authored
  <2>3. Holding'
    BY <1>1, <2>1 DEF Holding, Said
  <2>4. Leaving'
    BY <1>1, <1>4 DEF ForwardInv, Leaving, Streaming
  <2> QED BY <2>2, <2>3, <2>4
<1>5. Len(gate') <= BufferLimit
  BY <1>1
<1> QED BY <1>1, <1>2, <1>3, <1>4, <1>5 DEF ForwardInv

\* A read without a payload changes at most where the goroutine is.
LEMMA ReadNothingSafe ==
    ASSUME ForwardInv, ReadError \/ \E done \in BOOLEAN : ReadNothing(done)
    PROVE  ForwardInv'
<1>1. /\ pc = "read"
      /\ UNCHANGED <<model, upstream, produced, gate, emitted, cut, final, client, ended>>
  BY DEF ReadError, ReadNothing
<1>2. \/ pc' = pc /\ failure' = failure
      \/ pc' = "leave" /\ failure' = TRUE
      \/ pc' = "leave" /\ failure' = ~emitted
  BY DEF ReadError, ReadNothing, Leave
<1>3. TypeOK'
  <2>1. pc' \in {"read", "leave"}
    BY <1>1, <1>2
  <2>2. failure' \in BOOLEAN
    BY <1>2 DEF ForwardInv, TypeOK
  <2> QED BY <1>1, <2>1, <2>2 DEF ForwardInv, TypeOK
<1>4. Streaming'
  BY <1>1, <1>2 DEF ForwardInv, Streaming
<1>5. ASSUME ~EmitAckLost PROVE Untouched' /\ Authored' /\ Holding' /\ Leaving'
  <2>1. Untouched /\ Authored /\ Holding /\ Leaving
    BY <1>5 DEF ForwardInv
  <2>2. Untouched' /\ Authored'
    BY <1>1, <1>2, <2>1 DEF Untouched, Authored
  <2>3. Holding'
    BY <1>1, <1>2, <2>1 DEF Holding, Said
  <2>4. (pc' = "leave" /\ ~failure') => emitted
    BY <1>1, <1>2
  <2>5. emitted => Len(client) = Len(produced[model])
    BY <1>1, <2>1 DEF Holding, ForwardInv, TypeOK
  <2>6. Leaving'
    BY <1>1, <1>2, <2>1, <2>4, <2>5 DEF Leaving, Holding, Said
  <2> QED BY <2>2, <2>3, <2>6
<1>6. (pc' = "read" => Len(gate') <= BufferLimit) /\ (pc' = "emit" => gate' # <<>>)
  BY <1>1, <1>2 DEF ForwardInv
<1> QED BY <1>3, <1>4, <1>5, <1>6 DEF ForwardInv

\* Appending a payload's marks to what the model in turn has said.
LEMMA Produces ==
    ASSUME ForwardInv, NEW marks \in SUBSET Marks,
           produced' = [produced EXCEPT ![model] = Append(@, marks)], model' = model
    PROVE  /\ produced' \in [Models -> Seq(SUBSET Marks)]
           /\ Len(produced[model]) \in Nat
           /\ Len(produced'[model]) = Len(produced[model]) + 1
           /\ \A m \in Models : m # model => produced'[m] = produced[m]
           /\ \A mark : Said(model, mark)' <=> (Said(model, mark) \/ mark \in marks)
<1>1. model \in Models /\ produced \in [Models -> Seq(SUBSET Marks)]
  BY DEF ForwardInv, TypeOK
<1> DEFINE old == produced[model]
<1>2. old \in Seq(SUBSET Marks)
  BY <1>1
<1>3. /\ produced'[model] = Append(old, marks)
      /\ produced' \in [Models -> Seq(SUBSET Marks)]
      /\ \A m \in Models : m # model => produced'[m] = produced[m]
  BY <1>1, <1>2
<1>4. /\ Len(old) \in Nat /\ DOMAIN old = 1..Len(old)
      /\ DOMAIN Append(old, marks) = 1..(Len(old) + 1)
      /\ Append(old, marks)[Len(old) + 1] = marks
      /\ \A j \in 1..Len(old) : Append(old, marks)[j] = old[j]
      /\ Len(Append(old, marks)) = Len(old) + 1
  BY <1>2
<1>5. ASSUME NEW mark PROVE Said(model, mark)' <=> (Said(model, mark) \/ mark \in marks)
  <2>1. Said(model, mark)' <=> \E j \in 1..(Len(old) + 1) : mark \in Append(old, marks)[j]
    BY <1>3, <1>4 DEF Said
  <2>2. Said(model, mark) <=> \E j \in 1..Len(old) : mark \in old[j]
    BY <1>4 DEF Said
  <2> HIDE DEF old
  <2> QED BY <2>1, <2>2, <1>4
<1> QED BY <1>3, <1>4, <1>5

LEMMA ReadPayloadSafe ==
    ASSUME ForwardInv, NEW marks \in SUBSET Marks, NEW done \in BOOLEAN, ReadPayload(marks, done)
    PROVE  ForwardInv'
<1> DEFINE payload == [from |-> model, n |-> Len(produced[model]) + 1]
           held == Append(gate, payload)
<1>1. /\ pc = "read" /\ produced' = [produced EXCEPT ![model] = Append(@, marks)]
      /\ cut' = (cut \/ "cut" \in marks) /\ final' = done
      /\ UNCHANGED <<model, upstream, emitted, client, ended>>
  BY DEF ReadPayload, CutAfter
<1>2. /\ produced' \in [Models -> Seq(SUBSET Marks)]
      /\ Len(produced[model]) \in Nat
      /\ Len(produced'[model]) = Len(produced[model]) + 1
      /\ \A m \in Models : m # model => produced'[m] = produced[m]
      /\ \A mark : Said(model, mark)' <=> (Said(model, mark) \/ mark \in marks)
  BY <1>1, Produces
<1>3. /\ payload \in Payloads /\ gate \in Seq(Payloads) /\ held \in Seq(Payloads)
      /\ Len(gate) \in Nat /\ Len(held) = Len(gate) + 1 /\ DOMAIN gate = 1..Len(gate)
      /\ DOMAIN held = 1..(Len(gate) + 1)
      /\ held[Len(gate) + 1] = payload /\ \A i \in 1..Len(gate) : held[i] = gate[i]
  <2>1. payload \in Payloads /\ gate \in Seq(Payloads)
    BY <1>2 DEF ForwardInv, TypeOK, Payloads
  <2> HIDE DEF payload
  <2> QED BY <2>1
<1>4. \/ ~emitted /\ cut' /\ pc' = "leave" /\ failure' = TRUE /\ gate' = gate
      \/ ~emitted /\ ~cut' /\ gate' = held /\ pc' = "leave" /\ failure' = TRUE
      \/ /\ ~emitted /\ ~cut' /\ gate' = held /\ "content" \in marks
         /\ pc' = "emit" /\ failure' = failure
      \/ /\ ~emitted /\ ~cut' /\ gate' = held /\ Len(held) <= BufferLimit
         /\ pc' = pc /\ failure' = failure
      \/ emitted /\ gate' = <<payload>> /\ pc' = "emit" /\ failure' = failure
  BY DEF ReadPayload, Gated, Leave
<1> HIDE DEF payload, held
<1>5. TypeOK'
  <2>1. gate' \in Seq(Payloads)
    <3>1. <<payload>> \in Seq(Payloads)
      BY <1>3
    <3>2. gate' = gate \/ gate' = held \/ gate' = <<payload>>
      BY <1>4
    <3> QED BY <1>3, <3>1, <3>2
  <2>2. pc' \in {"read", "emit", "leave"}
    BY <1>1, <1>4
  <2>3. failure' \in BOOLEAN
    <3>1. failure' = TRUE \/ failure' = failure
      BY <1>4
    <3> QED BY <3>1 DEF ForwardInv, TypeOK
  <2>4. cut' \in BOOLEAN /\ final' \in BOOLEAN
    BY <1>1 DEF ForwardInv, TypeOK
  <2> QED BY <1>1, <1>2, <2>1, <2>2, <2>3, <2>4 DEF ForwardInv, TypeOK
<1>6. Streaming'
  BY <1>1, <1>4 DEF ForwardInv, Streaming
<1>7. (pc' = "read" => Len(gate') <= BufferLimit) /\ (pc' = "emit" => gate' # <<>>)
  <2>1. held # <<>> /\ <<payload>> # <<>>
    BY <1>3
  <2>2. pc' = "emit" => gate' = held \/ gate' = <<payload>>
    BY <1>1, <1>4
  <2>3. pc' = "read" => Len(gate') <= BufferLimit
    BY <1>1, <1>4
  <2> QED BY <2>1, <2>2, <2>3
<1>8. ASSUME ~EmitAckLost PROVE Untouched' /\ Authored' /\ Holding' /\ Leaving'
  <2>1. Untouched /\ Authored /\ Holding /\ Leaving
    BY <1>8 DEF ForwardInv
  <2>2. /\ Len(client) + Len(gate) = Len(produced[model])
        /\ \A i \in DOMAIN gate : gate[i] = [from |-> model, n |-> Len(client) + i]
        /\ ~cut /\ (emitted => gate = <<>>)
        /\ emitted => Said(model, "content")
        /\ ~Said(model, "cut")
    BY <1>1, <2>1 DEF Holding
  <2>3. Len(client) \in Nat /\ model \in Models
    BY DEF ForwardInv, TypeOK
  <2>4. pc' \in {"read", "emit", "leave"}
    BY <1>1, <1>4
  <2>5. Untouched'
    BY <1>1, <1>2, <2>1, <2>3, <2>4 DEF Untouched, Models
  <2>6. Authored'
    BY <1>1, <1>2, <2>1, <2>3 DEF Authored
  <2>7. ASSUME pc' \in {"read", "emit"}
        PROVE  /\ Len(client) + Len(gate') = Len(produced'[model])
               /\ \A i \in DOMAIN gate' : gate'[i] = [from |-> model, n |-> Len(client) + i]
               /\ gate' # <<>>
    <3>1. payload = [from |-> model, n |-> Len(client) + Len(gate) + 1]
      BY <2>2 DEF payload
    <3>2. CASE gate' = held
      <4>1. Len(gate') = Len(gate) + 1 /\ DOMAIN gate' = 1..(Len(gate) + 1)
        BY <3>2, <1>3
      <4>2. \A i \in 1..Len(gate) : gate'[i] = [from |-> model, n |-> Len(client) + i]
        BY <3>2, <1>3, <2>2
      <4>3. gate'[Len(gate) + 1] = [from |-> model, n |-> Len(client) + (Len(gate) + 1)]
        BY <3>1, <3>2, <1>3, <2>3
      <4>4. \A i \in DOMAIN gate' : i \in 1..Len(gate) \/ i = Len(gate) + 1
        BY <4>1, <1>3
      <4>5. Len(client) + Len(gate') = Len(produced'[model])
        <5>1. Len(client) + Len(gate) = Len(produced[model])
          BY <2>2
        <5>2. Len(produced'[model]) = Len(produced[model]) + 1
          BY <1>2
        <5>3. Len(gate) \in Nat /\ Len(gate') = Len(gate) + 1
          BY <1>3, <4>1
        <5> QED BY <5>1, <5>2, <5>3, <2>3
      <4>6. \A i \in DOMAIN gate' : gate'[i] = [from |-> model, n |-> Len(client) + i]
        BY <4>2, <4>3, <4>4
      <4>7. gate' # <<>>
        BY <4>1, <1>3
      <4> QED BY <4>5, <4>6, <4>7
    <3>3. CASE emitted /\ gate' = <<payload>>
      BY <3>1, <3>3, <1>2, <1>3, <2>2, <2>3
    <3> QED BY <3>2, <3>3, <2>7, <1>4
  <2>8. /\ pc' = "read" => ~cut' /\ (emitted' => gate' = <<>>)
        /\ (emitted' \/ pc' = "emit") => Said(model, "content")'
        /\ ~cut' => ~Said(model, "cut")'
    BY <1>1, <1>2, <1>4, <2>2
  <2>9. Holding'
    BY <1>1, <2>4, <2>7, <2>8 DEF Holding, Said
  <2>10. Leaving'
    <3>1. ended = "open"
      BY <1>1 DEF ForwardInv, Streaming
    <3> QED BY <1>1, <1>4, <3>1 DEF Leaving
  <2> QED BY <2>5, <2>6, <2>9, <2>10
<1> QED BY <1>5, <1>6, <1>7, <1>8 DEF ForwardInv

\* The client gets the first held payload, which is the next one of the model.
LEMMA EmitOKSafe == ForwardInv /\ EmitOK => ForwardInv'
<1> SUFFICES ASSUME ForwardInv, EmitOK PROVE ForwardInv'
  OBVIOUS
<1>1. /\ pc = "emit" /\ emitted' = TRUE
      /\ client' = Append(client, Head(gate)) /\ gate' = Tail(gate)
      /\ UNCHANGED <<model, upstream, produced, cut, final, ended>>
  BY DEF EmitOK
<1>2. \/ gate' # <<>> /\ pc' = "emit" /\ failure' = failure
      \/ gate' = <<>> /\ pc' = "leave" /\ failure' = cut
      \/ gate' = <<>> /\ ~cut /\ pc' = "read" /\ failure' = failure
  BY <1>1 DEF EmitOK, Leave
<1>3. /\ gate \in Seq(Payloads) /\ client \in Seq(Payloads) /\ gate # <<>>
      /\ model \in Models /\ produced \in [Models -> Seq(SUBSET Marks)]
  BY <1>1 DEF ForwardInv, TypeOK
<1>4. /\ Head(gate) \in Payloads /\ gate' \in Seq(Payloads)
      /\ Len(gate') = Len(gate) - 1
      /\ \A i \in 1..Len(gate') : gate'[i] = gate[i + 1]
  BY <1>1, <1>3, HeadTailProperties
<1>5. /\ client' \in Seq(Payloads) /\ client' # <<>>
      /\ Len(client') = Len(client) + 1
      /\ \A i \in 1..Len(client) : client'[i] = client[i]
      /\ client'[Len(client) + 1] = Head(gate)
  <2>1. ASSUME NEW e \in Payloads
        PROVE  /\ Append(client, e) \in Seq(Payloads) /\ Append(client, e) # <<>>
               /\ Len(Append(client, e)) = Len(client) + 1
               /\ \A i \in 1..Len(client) : Append(client, e)[i] = client[i]
               /\ Append(client, e)[Len(client) + 1] = e
    BY <1>3, AppendProperties
  <2> QED BY <1>1, <1>4, <2>1
<1>6. Head(gate) = gate[1]
  BY <1>3
<1>7. TypeOK'
  <2>1. pc' \in {"emit", "leave", "read"}
    BY <1>2
  <2>2. failure' \in BOOLEAN
    BY <1>2 DEF ForwardInv, TypeOK
  <2> QED BY <1>1, <1>4, <1>5, <2>1, <2>2 DEF ForwardInv, TypeOK
<1>8. Streaming'
  BY <1>1, <1>2 DEF ForwardInv, Streaming
<1>9. (pc' = "read" => Len(gate') <= BufferLimit) /\ (pc' = "emit" => gate' # <<>>)
  BY <1>2
<1>10. ASSUME ~EmitAckLost PROVE Untouched' /\ Authored' /\ Holding' /\ Leaving'
  <2>1. /\ Untouched /\ Authored /\ Leaving
        /\ Len(client) + Len(gate) = Len(produced[model])
        /\ \A i \in DOMAIN gate : gate[i] = [from |-> model, n |-> Len(client) + i]
        /\ Said(model, "content")
        /\ ~cut => ~Said(model, "cut")
    BY <1>1, <1>10 DEF ForwardInv, Holding
  <2>2. /\ Len(client) \in Nat /\ Len(gate) \in Nat \ {0} /\ Len(gate') \in Nat
        /\ DOMAIN gate = 1..Len(gate) /\ DOMAIN gate' = 1..Len(gate')
        /\ DOMAIN client = 1..Len(client) /\ DOMAIN client' = 1..(Len(client) + 1)
        /\ Len(produced[model]) \in Nat
    BY <1>3, <1>4, <1>5
  <2>3. Untouched'
    BY <1>1, <1>2, <2>1 DEF Untouched
  <2>4. client'[Len(client) + 1] = [from |-> model, n |-> Len(client) + 1]
    BY <1>5, <1>6, <2>1, <2>2
  <2>5. Authored'
    <3>1. \A i \in DOMAIN client' : client'[i] = [from |-> model, n |-> i]
      <4>1. \A i \in DOMAIN client' : i \in 1..Len(client) \/ i = Len(client) + 1
        BY <2>2
      <4>2. \A i \in 1..Len(client) : client'[i] = [from |-> model, n |-> i]
        BY <1>5, <2>1, <2>2 DEF Authored
      <4> QED BY <4>1, <4>2, <2>4
    <3>2. Len(client') <= Len(produced[model])
      BY <1>5, <2>1, <2>2
    <3> QED BY <1>1, <1>5, <3>1, <3>2 DEF Authored
  <2>6. Len(client') + Len(gate') = Len(produced[model])
    <3>1. Len(client') = Len(client) + 1 /\ Len(gate') = Len(gate) - 1
      BY <1>4, <1>5
    <3>2. Len(client) + Len(gate) = Len(produced[model])
      BY <2>1
    <3>3. Len(client) \in Nat /\ Len(gate) \in Nat
      BY <2>2
    <3> QED BY <3>1, <3>2, <3>3
  <2>7. \A i \in DOMAIN gate' : gate'[i] = [from |-> model, n |-> Len(client') + i]
    <3>1. \A i \in DOMAIN gate' : i + 1 \in DOMAIN gate /\ gate'[i] = gate[i + 1]
      BY <1>4, <2>2
    <3>2. \A i \in DOMAIN gate' : Len(client) + (i + 1) = Len(client') + i
      BY <1>5, <2>2
    <3> QED BY <3>1, <3>2, <2>1
  <2>8. Holding'
    BY <1>1, <1>2, <2>1, <2>6, <2>7 DEF Holding, Said
  <2>9. Leaving'
    <3>1. gate' = <<>> => Len(client') = Len(produced[model])
      BY <2>2, <2>6
    <3>2. pc' = "leave" /\ failure' # TRUE => gate' = <<>> /\ ~Said(model, "cut")
      BY <1>2, <2>1
    <3>3. ended = "open"
      BY <1>1 DEF ForwardInv, Streaming
    <3> QED BY <1>1, <1>2, <3>1, <3>2, <3>3 DEF Leaving, Said
  <2> QED BY <2>3, <2>5, <2>8, <2>9
<1> QED BY <1>7, <1>8, <1>9, <1>10 DEF ForwardInv

LEMMA EmitFailsSafe == ForwardInv /\ EmitFails => ForwardInv'
<1> SUFFICES ASSUME ForwardInv, EmitFails PROVE ForwardInv'
  OBVIOUS
<1>1. /\ pc = "emit" /\ pc' = "leave" /\ failure' = TRUE
      /\ client' = client \/ (EmitAckLost /\ client' = Append(client, Head(gate)))
      /\ UNCHANGED <<model, upstream, produced, gate, emitted, cut, final, ended>>
  BY DEF EmitFails, Leave
<1>2. client' \in Seq(Payloads)
  <2>1. gate \in Seq(Payloads) /\ client \in Seq(Payloads) /\ gate # <<>>
    BY <1>1 DEF ForwardInv, TypeOK
  <2>2. Head(gate) \in Payloads
    BY <2>1, HeadTailProperties
  <2>3. Append(client, Head(gate)) \in Seq(Payloads)
    BY <2>1, <2>2, AppendProperties
  <2> QED BY <1>1, <2>1, <2>3
<1>3. TypeOK'
  BY <1>1, <1>2 DEF ForwardInv, TypeOK
<1>4. Streaming'
  BY <1>1 DEF ForwardInv, Streaming
<1>5. ASSUME ~EmitAckLost PROVE Untouched' /\ Authored' /\ Holding' /\ Leaving'
  <2>1. client' = client
    BY <1>1, <1>5
  <2>2. Untouched /\ Authored /\ Holding /\ Leaving
    BY <1>5 DEF ForwardInv
  <2>3. Untouched' /\ Authored'
    BY <1>1, <2>1, <2>2 DEF Untouched, Authored
  <2>4. Holding' /\ Leaving'
    BY <1>1, <2>1, <2>2 DEF Holding, Leaving, Said
  <2> QED BY <2>3, <2>4
<1> QED BY <1>1, <1>3, <1>4, <1>5 DEF ForwardInv

\* The stream is closed on the way out, and the next model begins afresh.
LEMMA CloseUpstreamSafe == ForwardInv /\ CloseUpstream => ForwardInv'
<1> SUFFICES ASSUME ForwardInv, CloseUpstream PROVE ForwardInv'
  OBVIOUS
<1>1. /\ pc = "leave" /\ upstream' = [upstream EXCEPT ![model] = "closed"]
      /\ UNCHANGED <<produced, gate, emitted, cut, final, client, ended>>
  BY DEF CloseUpstream
<1>2. /\ upstream' \in [Models -> {"none", "open", "closed"}]
      /\ \A m \in Models : upstream'[m] # "open"
  BY <1>1 DEF ForwardInv, TypeOK, Streaming
<1>3. CASE failure /\ ~emitted
  <2>1. NextModel
    BY <1>3 DEF CloseUpstream
  <2> QED BY <1>1, <1>2, <1>3, <2>1, NextModelSafe
<1>4. CASE ~(failure /\ ~emitted)
  <2>1. pc' = "close" /\ UNCHANGED <<model, failure>>
    BY <1>4 DEF CloseUpstream
  <2>2. TypeOK' /\ Streaming'
    BY <1>1, <1>2, <2>1 DEF ForwardInv, TypeOK, Streaming
  <2>3. ASSUME ~EmitAckLost PROVE Untouched' /\ Authored' /\ Holding' /\ Leaving'
    <3>1. Untouched /\ Authored /\ Holding /\ Leaving
      BY <2>3 DEF ForwardInv
    <3>2. Untouched' /\ Authored'
      BY <1>1, <2>1, <3>1 DEF Untouched, Authored
    <3>3. Holding' /\ Leaving'
      BY <1>1, <2>1, <3>1 DEF Holding, Leaving, Said
    <3> QED BY <3>2, <3>3
  <2> QED BY <2>1, <2>2, <2>3 DEF ForwardInv
<1> QED BY <1>3, <1>4

LEMMA CloseClientSafe == ForwardInv /\ CloseClient => ForwardInv'
<1> SUFFICES ASSUME ForwardInv, CloseClient PROVE ForwardInv'
  OBVIOUS
<1>1. /\ pc = "close" /\ pc' = "done"
      /\ ended' = "failed" \/ (ended' = "ok" /\ failure # TRUE)
      /\ UNCHANGED <<model, upstream, produced, gate, emitted, cut, final, failure, client>>
  BY DEF CloseClient
<1>2. TypeOK' /\ Streaming'
  BY <1>1 DEF ForwardInv, TypeOK, Streaming
<1>3. ASSUME ~EmitAckLost PROVE Untouched' /\ Authored' /\ Holding' /\ Leaving'
  <2>1. Untouched /\ Authored /\ Holding /\ Leaving
    BY <1>3 DEF ForwardInv
  <2>2. Untouched' /\ Authored'
    BY <1>1, <2>1 DEF Untouched, Authored
  <2>3. Holding'
    BY <1>1, <2>1 DEF Holding, Said
  <2>4. failure = TRUE \/ failure # TRUE
    OBVIOUS
  <2>5. Leaving'
    BY <1>1, <2>1, <2>4 DEF Leaving, Said
  <2> QED BY <2>2, <2>3, <2>5
<1> QED BY <1>1, <1>2, <1>3 DEF ForwardInv

-----------------------------------------------------------------------------

\* The inductive invariant of the forwarding goroutine holds in every reachable
\* state: one stream open at most, the client a prefix of what one model said.
THEOREM ForwardInvariance == Spec => []ForwardInv
<1>1. ForwardInv /\ [Next]_vars => ForwardInv'
  <2> SUFFICES ASSUME ForwardInv, [Next]_vars PROVE ForwardInv'
    OBVIOUS
  <2>1. CASE Prepare
    BY <2>1, PrepareSafe
  <2>2. CASE Refuse
    BY <2>2, RefuseSafe
  <2>3. CASE Open
    BY <2>3, OpenSafe
  <2>4. CASE Read
    <3>1. CASE ReadError \/ \E done \in BOOLEAN : ReadNothing(done)
      BY <3>1, ReadNothingSafe
    <3>2. CASE \E done \in BOOLEAN : \E marks \in SUBSET Marks : ReadPayload(marks, done)
      BY <3>2, ReadPayloadSafe
    <3> QED BY <2>4, <3>1, <3>2 DEF Read
  <2>5. CASE EmitOK
    BY <2>5, EmitOKSafe
  <2>6. CASE EmitFails
    BY <2>6, EmitFailsSafe
  <2>7. CASE CloseUpstream
    BY <2>7, CloseUpstreamSafe
  <2>8. CASE CloseClient
    BY <2>8, CloseClientSafe
  <2>9. CASE UNCHANGED vars
    BY <2>9 DEF vars, ForwardInv, TypeOK, Streaming, Untouched, Authored, Holding, Leaving, Said
  <2> QED BY <2>1, <2>2, <2>3, <2>4, <2>5, <2>6, <2>7, <2>8, <2>9 DEF Next, Terminated
<1> QED BY InitForward, <1>1, PTL DEF Spec

\* With a host whose failed emit had no effect, two models never write into one
\* answer (text_model.go:96-101).
THEOREM SingleAuthors == ~EmitAckLost => (Spec => []SingleAuthor)
<1> SUFFICES ASSUME ~EmitAckLost PROVE Spec => []SingleAuthor
  OBVIOUS
<1>1. ASSUME ForwardInv PROVE SingleAuthor
  <2>1. \A i \in DOMAIN client : client[i] = [from |-> model, n |-> i]
    BY <1>1 DEF ForwardInv, Authored
  <2>2. \A i \in DOMAIN client : client[i].from = model
    BY <2>1
  <2> QED BY <2>2 DEF SingleAuthor
<1> QED BY <1>1, ForwardInvariance, PTL

\* With such a host a stream closed as a success carried the whole of one
\* model's uncut answer, something deliverable in it (text_model.go:152-182).
THEOREM WholeAnswers == ~EmitAckLost => (Spec => []WholeAnswer)
<1> SUFFICES ASSUME ~EmitAckLost PROVE Spec => []WholeAnswer
  OBVIOUS
<1>1. ASSUME ForwardInv PROVE WholeAnswer
  <2> SUFFICES ASSUME ended = "ok"
               PROVE  /\ client # <<>> /\ Len(client) = Len(produced[client[1].from])
                      /\ Said(client[1].from, "content") /\ ~Said(client[1].from, "cut")
    BY DEF WholeAnswer, Said
  <2>1. emitted /\ Len(client) = Len(produced[model]) /\ ~Said(model, "cut")
    BY <1>1 DEF ForwardInv, Leaving
  <2>2. client # <<>> /\ Said(model, "content")
    BY <1>1, <2>1 DEF ForwardInv, Authored, Holding
  <2>3. 1 \in DOMAIN client
    BY <2>2 DEF ForwardInv, TypeOK
  <2>4. client[1].from = model
    BY <1>1, <2>3 DEF ForwardInv, Authored
  <2> QED BY <2>1, <2>2, <2>4
<1> QED BY <1>1, ForwardInvariance, PTL

\* At most one model streams at a time, none once the client's stream is closed,
\* whatever the host reports of an emit (text_model.go:133-135).
THEOREM OneUpstreams == Spec => []OneUpstream
<1>1. ForwardInv => OneUpstream
  BY DEF ForwardInv, Streaming, OneUpstream
<1> QED BY <1>1, ForwardInvariance, PTL

\* With such a host nothing of a model reaches the client before the model has
\* produced something deliverable, and what is held back until then is bounded
\* (text_stream.go:64-92).
THEOREM HeldUntilContents == ~EmitAckLost => (Spec => []HeldUntilContent)
<1> SUFFICES ASSUME ~EmitAckLost PROVE Spec => []HeldUntilContent
  OBVIOUS
<1>1. ASSUME ForwardInv PROVE HeldUntilContent
  <2>1. \A i \in DOMAIN client : client[i].from = model
    BY <1>1 DEF ForwardInv, Authored
  <2>2. client # <<>> => Said(model, "content")
    BY <1>1 DEF ForwardInv, Authored, Holding
  <2>3. \A i \in DOMAIN client : client # <<>>
    OBVIOUS
  <2>4. pc = "read" => Len(gate) <= BufferLimit
    BY <1>1 DEF ForwardInv
  <2> QED BY <2>1, <2>2, <2>3, <2>4 DEF HeldUntilContent, Said
<1> QED BY <1>1, ForwardInvariance, PTL

\* With such a host every behaviour of the goroutine is one of AnswerStream: an
\* emit delivers the next payload of the one author, the last close closes the
\* answer, and every other step leaves the client alone.
THEOREM ForwardsAnswer == ~EmitAckLost => (Spec => ImplementsAnswer)
<1> SUFFICES ASSUME ~EmitAckLost PROVE Spec => Answer!Spec
  BY DEF ImplementsAnswer
<1>1. Init => Answer!Init
  BY DEF Init, Answer!Init
<1>2. ASSUME ForwardInv, ForwardInv', [Next]_vars PROVE [Answer!Next]_(Answer!vars)
  <2>1. CASE EmitOK
    <3>1. /\ pc = "emit" /\ client' = Append(client, Head(gate)) /\ ended' = ended
      BY <2>1 DEF EmitOK
    <3>2. ended = "open"
      BY <1>2, <3>1 DEF ForwardInv, Streaming
    <3>3. \A i \in DOMAIN client : client[i].from = model
      BY <1>2 DEF ForwardInv, Authored
    <3>4. Head(gate) = [from |-> model, n |-> Len(client) + 1]
      <4>1. gate \in Seq(Payloads) /\ gate # <<>>
        BY <1>2, <3>1 DEF ForwardInv, TypeOK
      <4>2. 1 \in DOMAIN gate /\ Head(gate) = gate[1]
        BY <4>1
      <4>3. \A i \in DOMAIN gate : gate[i] = [from |-> model, n |-> Len(client) + i]
        BY <1>2, <3>1 DEF ForwardInv, Holding
      <4> QED BY <4>2, <4>3
    <3>5. model \in Models
      BY <1>2 DEF ForwardInv, TypeOK
    <3>6. Answer!Deliver(model)
      BY <3>1, <3>2, <3>3, <3>4 DEF Answer!Deliver
    <3> QED BY <3>5, <3>6 DEF Answer!Next
  <2>2. CASE EmitFails
    BY <2>2 DEF EmitFails, Answer!vars
  <2>3. CASE CloseClient
    <3>1. /\ pc = "close" /\ client' = client
          /\ ended' = IF failure THEN "failed" ELSE "ok"
      BY <2>3 DEF CloseClient
    <3>2. ended = "open"
      BY <1>2, <3>1 DEF ForwardInv, Streaming
    <3>3. ~failure => client # <<>>
      BY <1>2, <3>1 DEF ForwardInv, Leaving, Authored
    <3>4. Answer!CloseOK \/ Answer!CloseFailed
      BY <3>1, <3>2, <3>3 DEF Answer!CloseOK, Answer!CloseFailed
    <3> QED BY <3>4 DEF Answer!Next
  <2>4. CASE Prepare \/ Refuse \/ Open \/ CloseUpstream \/ UNCHANGED vars
    <3>1. UNCHANGED <<client, ended>>
      BY <2>4 DEF Prepare, Refuse, Open, CloseUpstream, vars
    <3> QED BY <3>1 DEF Answer!vars
  <2>5. CASE Read
    <3>1. UNCHANGED <<client, ended>>
      BY <2>5 DEF Read, ReadError, ReadNothing, ReadPayload
    <3> QED BY <3>1 DEF Answer!vars
  <2> QED BY <1>2, <2>1, <2>2, <2>3, <2>4, <2>5 DEF Next, Terminated
<1> QED BY <1>1, <1>2, ForwardInvariance, PTL DEF Spec, Answer!Spec
=============================================================================
