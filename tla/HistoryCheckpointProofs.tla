----------------------- MODULE HistoryCheckpointProofs -----------------------
(***************************************************************************)
(* What holds of HistoryCheckpoint for conversations of any length over any *)
(* identifiers, any settings and any sizes: its inductive invariant, and    *)
(* from it that a compressed request stands for the whole conversation and  *)
(* that no cut goes through a tool transaction.                             *)
(***************************************************************************)
EXTENDS HistoryCheckpoint, SequenceTheorems, FiniteSetTheorems, TLAPS

USE KindsAssumption, SizesAssumption

-----------------------------------------------------------------------------
\* Prefixes and suffixes.

\* The types and lengths of the two parts of a conversation.
LEMMA Parts ==
    ASSUME conv \in Seq(Kinds), NEW b \in 0..Len(conv)
    PROVE  /\ Prefix(b) \in Seq(Items) /\ Suffix(b) \in Seq(Items)
           /\ Len(Prefix(b)) = b /\ Len(Suffix(b)) = Len(conv) - b
           /\ \A i \in 1..b : Prefix(b)[i] = conv[i]
           /\ \A i \in 1..(Len(conv) - b) : Suffix(b)[i] = conv[b + i]
<1>1. Len(conv) \in Nat /\ \A i \in 1..Len(conv) : conv[i] \in Items
  BY ElementOfSeq
<1>2. (\A i \in 1..b : conv[i] \in Items) /\ (\A i \in b + 1..Len(conv) : conv[i] \in Items)
  BY <1>1
<1>3. /\ Prefix(b) \in Seq(Items)
      /\ Len(Prefix(b)) = IF 1 <= b THEN b - 1 + 1 ELSE 0
      /\ \A i \in 1..(b - 1 + 1) : Prefix(b)[i] = conv[1 + i - 1]
  BY <1>1, <1>2, SubSeqProperties DEF Prefix
<1>4. /\ Suffix(b) \in Seq(Items)
      /\ Len(Suffix(b)) = IF b + 1 <= Len(conv) THEN Len(conv) - (b + 1) + 1 ELSE 0
      /\ \A i \in 1..(Len(conv) - (b + 1) + 1) : Suffix(b)[i] = conv[b + 1 + i - 1]
  BY <1>1, <1>2, SubSeqProperties DEF Suffix
<1> QED BY <1>1, <1>3, <1>4

\* The conversation is its prefix and its suffix, and a longer prefix is a
\* shorter one and what lies between.
LEMMA Joins ==
    ASSUME conv \in Seq(Kinds), NEW b \in 0..Len(conv), NEW a \in 0..b
    PROVE  /\ Prefix(b) \o Suffix(b) = conv
           /\ Prefix(a) \o SubSeq(conv, a + 1, b) = Prefix(b)
<1>1. Len(conv) \in Nat
  OBVIOUS
<1>2. SubSeq(conv, 1, b) \o SubSeq(conv, b + 1, Len(conv)) = SubSeq(conv, 1, Len(conv))
  <2>1. 1 \in 1..Len(conv) + 1 /\ b \in (1 - 1)..Len(conv) /\ Len(conv) \in b..Len(conv)
    BY <1>1
  <2> QED BY <2>1, ConcatAdjacentSubSeq
<1>3. SubSeq(conv, 1, Len(conv)) = conv
  BY SubSeqFull
<1>4. SubSeq(conv, 1, a) \o SubSeq(conv, a + 1, b) = SubSeq(conv, 1, b)
  BY <1>1, ConcatAdjacentSubSeq
<1> QED BY <1>2, <1>3, <1>4 DEF Prefix, Suffix

\* A safe cut leaves every tool transaction whole: a result after the cut has
\* its call there, and a call before it has its result there.
LEMMA CutsWhole ==
    ASSUME conv \in Seq(Kinds), NEW b \in 0..Len(conv), BoundarySafe(conv, b), NEW id \in Ids
    PROVE  /\ ResultsOf(Suffix(b), id) # {} => CallsOf(Suffix(b), id) # {}
           /\ CallsOf(Prefix(b), id) # {} => ResultsOf(Prefix(b), id) # {}
<1>1. Len(conv) \in Nat /\ DOMAIN conv = 1..Len(conv)
  OBVIOUS
<1>2. /\ DOMAIN Prefix(b) = 1..b /\ DOMAIN Suffix(b) = 1..(Len(conv) - b)
      /\ \A i \in 1..b : Prefix(b)[i] = conv[i]
      /\ \A i \in 1..(Len(conv) - b) : Suffix(b)[i] = conv[b + i]
  <2>1. /\ Prefix(b) \in Seq(Items) /\ Suffix(b) \in Seq(Items)
        /\ Len(Prefix(b)) = b /\ Len(Suffix(b)) = Len(conv) - b
    BY Parts
  <2>2. DOMAIN Prefix(b) = 1..b /\ DOMAIN Suffix(b) = 1..(Len(conv) - b)
    BY <2>1
  <2> QED BY <2>2, Parts
<1>3. /\ \A c \in CallsOf(conv, id) : c <= b => ResultsOf(conv, id) # {}
      /\ \A c \in CallsOf(conv, id), r \in ResultsOf(conv, id) : c <= b <=> r <= b
      /\ CallsOf(conv, id) = {} => \A r \in ResultsOf(conv, id) : r <= b
  BY DEF BoundarySafe
<1>4. ASSUME NEW r \in ResultsOf(Suffix(b), id)
      PROVE  CallsOf(Suffix(b), id) # {}
  <2>1. b + r \in ResultsOf(conv, id) /\ ~(b + r <= b)
    BY <1>1, <1>2, <1>4 DEF ResultsOf
  <2>2. PICK c \in CallsOf(conv, id) : ~(c <= b)
    BY <1>3, <2>1
  <2>3. c - b \in 1..(Len(conv) - b) /\ b + (c - b) = c
    BY <1>1, <2>2 DEF CallsOf
  <2>4. c - b \in CallsOf(Suffix(b), id)
    BY <1>2, <2>2, <2>3 DEF CallsOf
  <2> QED BY <2>4
<1>5. ASSUME NEW c \in CallsOf(Prefix(b), id)
      PROVE  ResultsOf(Prefix(b), id) # {}
  <2>1. c \in CallsOf(conv, id) /\ c <= b
    BY <1>1, <1>2, <1>5 DEF CallsOf
  <2>2. PICK r \in ResultsOf(conv, id) : r <= b
    BY <1>3, <2>1
  <2>3. r \in 1..b
    BY <1>1, <2>2 DEF ResultsOf
  <2>4. r \in ResultsOf(Prefix(b), id)
    BY <1>2, <2>2, <2>3 DEF ResultsOf
  <2> QED BY <2>4
<1> QED BY <1>4, <1>5

-----------------------------------------------------------------------------
\* What a request finds in the cache, and where it cuts.

\* A usable checkpoint stands for a prefix that ends at a boundary.
LEMMA UsableStands ==
    ASSUME TypeOK, CheckpointsWhole, NEW c \in Usable
    PROVE  /\ Len(c.prefix) \in Boundaries(conv) /\ Len(c.prefix) \in 0..Len(conv)
           /\ c.covers = Prefix(Len(c.prefix)) /\ c.covers \in Seq(Items)
           /\ c.size \in Nat
  BY DEF Usable, Longest, Found, TypeOK, Checkpoints, CheckpointsWhole, Boundaries

\* So does what a new summary is based on.
LEMMA BaseStands ==
    ASSUME TypeOK, CheckpointsWhole
    PROVE  BasePrefix \in 0..Len(conv) /\ BaseCovers = Prefix(BasePrefix) /\ BaseCovers \in Seq(Items)
<1>1. CASE Usable = {}
  <2>1. Prefix(0) = <<>> /\ <<>> \in Seq(Items) /\ Len(conv) \in Nat
    BY SubSeqEmpty DEF Prefix, TypeOK
  <2> QED BY <1>1, <2>1 DEF BasePrefix, BaseCovers
<1>2. CASE Usable # {}
  <2>1. (CHOOSE c \in Usable : TRUE) \in Usable
    BY <1>2
  <2> QED BY <1>2, <2>1, UsableStands DEF BasePrefix, BaseCovers
<1> QED BY <1>1, <1>2

\* A cut is a boundary after the minimum and before the end.
LEMMA CutsKeep ==
    ASSUME TypeOK, NEW minimum \in Nat, NEW b \in Cuts(minimum)
    PROVE  b \in Boundaries(conv) /\ b \in 0..Len(conv) /\ minimum < b /\ b < Len(conv)
<1>1. b \in Boundaries(conv) /\ b \in 0..Len(conv) /\ b > minimum /\ UnitsAfter(conv, b) \in 1..KeepRecent
  BY DEF Cuts, Boundaries
<1>2. {x \in Boundaries(conv) : x > b} # {}
  <2>1. Cardinality({x \in Boundaries(conv) : x > b}) # 0
    BY <1>1 DEF UnitsAfter
  <2> QED BY <2>1, FS_EmptySet, Zenon
<1>3. PICK x \in Boundaries(conv) : x > b
  BY <1>2
<1>4. x \in 0..Len(conv) /\ Len(conv) \in Nat
  BY DEF Boundaries, TypeOK
<1> QED BY <1>1, <1>3, <1>4

\* Writing a checkpoint keeps the bound and what else is known of checkpoints.
LEMMA StoreKeeps ==
    ASSUME TypeOK, CheckpointsWhole, NEW c \in Checkpoints, c.covers = c.prefix, StoreCheckpoint(c)
    PROVE  /\ checkpoints' \subseteq Checkpoints /\ IsFiniteSet(checkpoints')
           /\ Cardinality(checkpoints') <= CacheLimit
           /\ CheckpointsWhole'
<1> DEFINE others == {d \in checkpoints : d.prefix # c.prefix}
<1>1. /\ others \subseteq checkpoints /\ IsFiniteSet(others) /\ Cardinality(others) \in Nat
      /\ Cardinality(others) <= Cardinality(checkpoints) /\ Cardinality(checkpoints) \in Nat
  <2>1. IsFiniteSet(checkpoints) /\ others \in SUBSET checkpoints
    BY DEF TypeOK
  <2>2. IsFiniteSet(others) /\ Cardinality(others) <= Cardinality(checkpoints)
    BY <2>1, FS_Subset
  <2> QED BY <2>1, <2>2, FS_CardinalityType
<1>2. PICK rest \in SUBSET others : 
        /\ checkpoints' = rest \cup {c} /\ IsFiniteSet(rest)
        /\ Cardinality(rest) \in Nat /\ Cardinality(rest) < CacheLimit
  <2>1. CASE Cardinality(others) < CacheLimit
    BY <1>1, <2>1 DEF StoreCheckpoint
  <2>2. CASE ~(Cardinality(others) < CacheLimit)
    <3>1. PICK d \in others : checkpoints' = (others \ {d}) \cup {c}
      BY <2>2 DEF StoreCheckpoint
    <3>2. IsFiniteSet(others \ {d}) /\ Cardinality(others \ {d}) = Cardinality(others) - 1
      BY <1>1, FS_RemoveElement
    <3>3. Cardinality(others \ {d}) \in Nat
      BY <3>2, FS_CardinalityType
    <3>4. Cardinality(others \ {d}) < CacheLimit
      <4>1. Cardinality(checkpoints) <= CacheLimit /\ CacheLimit \in Nat
        BY SizesAssumption DEF TypeOK
      <4> QED BY <1>1, <3>2, <4>1
    <3> QED BY <3>1, <3>2, <3>3, <3>4
  <2> QED BY <2>1, <2>2
<1>3. IsFiniteSet(checkpoints') /\ Cardinality(checkpoints') <= CacheLimit
  <2>1. IsFiniteSet(rest \cup {c}) /\ Cardinality(rest \cup {c}) <= Cardinality(rest) + 1
    <3>1. /\ IsFiniteSet(rest \cup {c})
          /\ Cardinality(rest \cup {c}) = IF c \in rest THEN Cardinality(rest) ELSE Cardinality(rest) + 1
      BY <1>2, FS_AddElement, Zenon
    <3> QED BY <1>2, <3>1
  <2>2. Cardinality(rest \cup {c}) \in Nat
    BY <2>1, FS_CardinalityType
  <2> QED BY <1>2, <2>1, <2>2
<1>4. checkpoints' \subseteq Checkpoints /\ CheckpointsWhole'
  BY <1>1, <1>2 DEF TypeOK, CheckpointsWhole
<1> QED BY <1>3, <1>4

-----------------------------------------------------------------------------
\* The initial state satisfies the invariant.
LEMMA InitHistoryInv == Init => HistoryInv
<1> SUFFICES ASSUME Init PROVE HistoryInv
  OBVIOUS
<1>1. conv \in Seq(Kinds) /\ Len(conv) = 0 /\ <<>> \in Seq(Items)
  BY DEF Init
<1>2. IsFiniteSet(checkpoints) /\ Cardinality(checkpoints) = 0
  BY FS_EmptySet DEF Init
<1>3. TypeOK
  BY <1>1, <1>2 DEF Init, TypeOK, NoPlan, NoAnswer, Answered, Answers
<1>4. WithinBudget /\ CheckpointsWhole /\ Planned /\ CutInTwo
  BY DEF Init, WithinBudget, CheckpointsWhole, Planned, CutInTwo, NoPlan, NoAnswer, Answered
<1> QED BY <1>3, <1>4 DEF HistoryInv

\* The client speaks, or the cache forgets: no answer and no plan is left that
\* was made for another conversation.
LEMMA ClientKeeps ==
    ASSUME HistoryInv, Say \/ GoBack \/ Evict \/ UNCHANGED vars
    PROVE  HistoryInv'
<1>t. TypeOK /\ WithinBudget /\ CheckpointsWhole /\ Planned /\ CutInTwo
  BY DEF HistoryInv
<1>1. CASE Say \/ GoBack
  <2>1. /\ ~plan.active /\ plan' = plan /\ answer' = NoAnswer /\ checkpoints' = checkpoints
        /\ branches' \in 0..MaxBranches
    <3>1. branches \in 0..MaxBranches /\ MaxBranches \in Nat
      BY <1>t, SizesAssumption DEF TypeOK
    <3>2. CASE Say
      BY <3>1, <3>2 DEF Say
    <3>3. CASE GoBack
      BY <3>1, <3>3 DEF GoBack
    <3> QED BY <1>1, <3>2, <3>3
  <2>2. conv' \in Seq(Kinds) /\ Len(conv') <= MaxItems
    <3>1. CASE Say
      BY <1>t, <3>1 DEF Say, TypeOK
    <3>2. CASE GoBack
      <4>1. PICK n \in 0..Len(conv) - 1 : conv' = SubSeq(conv, 1, n)
        BY <3>2 DEF GoBack, Prefix
      <4>2. /\ Len(conv) \in Nat /\ Len(conv) <= MaxItems /\ conv \in Seq(Kinds)
            /\ n \in Nat /\ n <= Len(conv)
        BY <1>t, <4>1 DEF TypeOK
      <4>3. SubSeq(conv, 1, n) \in Seq(Kinds) /\ Len(SubSeq(conv, 1, n)) = n
        BY <4>2
      <4> QED BY <4>1, <4>2, <4>3
    <3> QED BY <1>1, <3>1, <3>2
  <2>3. NoAnswer \in Answers /\ NoAnswer.kind = "none" /\ NoAnswer.fresh = FALSE
    BY DEF NoAnswer, Answered, Answers
  <2>4. TypeOK'
    BY <1>t, <2>1, <2>2, <2>3 DEF TypeOK
  <2>5. WithinBudget' /\ CheckpointsWhole' /\ Planned' /\ CutInTwo'
    BY <1>t, <2>1, <2>3 DEF WithinBudget, CheckpointsWhole, Planned, CutInTwo
  <2> QED BY <2>4, <2>5 DEF HistoryInv
<1>2. CASE Evict
  <2>1. PICK c \in checkpoints : checkpoints' = checkpoints \ {c}
    BY <1>2 DEF Evict
  <2>2. IsFiniteSet(checkpoints') /\ Cardinality(checkpoints') <= CacheLimit
    <3>1. checkpoints' \in SUBSET checkpoints /\ IsFiniteSet(checkpoints)
      BY <1>t, <2>1 DEF TypeOK
    <3>2. /\ IsFiniteSet(checkpoints') /\ Cardinality(checkpoints') <= Cardinality(checkpoints)
          /\ Cardinality(checkpoints') \in Nat /\ Cardinality(checkpoints) \in Nat
      BY <3>1, FS_Subset, FS_CardinalityType
    <3> QED BY <1>t, <3>2 DEF TypeOK
  <2>3. UNCHANGED <<conv, branches, plan, answer>>
    BY <1>2 DEF Evict
  <2>4. TypeOK'
    BY <1>t, <2>1, <2>2, <2>3 DEF TypeOK
  <2>5. WithinBudget' /\ CheckpointsWhole' /\ Planned' /\ CutInTwo'
    BY <1>t, <2>1, <2>3 DEF WithinBudget, CheckpointsWhole, Planned, CutInTwo, Prefix, Suffix
  <2> QED BY <2>4, <2>5 DEF HistoryInv
<1>3. CASE UNCHANGED vars
  BY <1>t, <1>3 DEF HistoryInv, vars, TypeOK, WithinBudget, CheckpointsWhole, Planned, CutInTwo, Prefix, Suffix
<1> QED BY <1>1, <1>2, <1>3

\* An answer without a fresh summary: the conversation as it is, a checkpoint
\* and what came after it, or a refusal.
LEMMA AnswerKeeps ==
    ASSUME HistoryInv, Pass \/ TooShort \/ Reuse \/ NoCut \/ SummaryFails
    PROVE  HistoryInv'
<1>t. TypeOK /\ WithinBudget /\ CheckpointsWhole /\ Planned /\ CutInTwo
  BY DEF HistoryInv
<1>u. UNCHANGED <<conv, branches, checkpoints>>
  BY DEF Pass, TooShort, Reuse, NoCut, SummaryFails
<1>p. plan' = plan \/ plan' = NoPlan
  BY DEF Pass, TooShort, Reuse, NoCut, SummaryFails
<1>c. /\ conv \in Seq(Kinds) /\ conv \in Seq(Items) /\ Len(conv) \in Nat
      /\ {FixedSize, Threshold, Budget} \subseteq Nat /\ <<>> \in Seq(Items)
  BY <1>t DEF TypeOK
<1>1. /\ answer' \in Answers /\ answer'.fresh = FALSE
      /\ answer'.kind \in {"raw", "compressed"} => answer'.size <= Budget
      /\ answer'.kind = "compressed" =>
           \E b \in 0..Len(conv) :
             /\ BoundarySafe(conv, b)
             /\ answer'.covers = Prefix(b) /\ answer'.recent = Suffix(b)
  <2>1. CASE Pass
    <3>1. RawSize \in Nat /\ RawSize <= Budget
      BY <1>c, <2>1 DEF Pass, RawSize, Size
    <3> QED BY <1>c, <2>1, <3>1 DEF Pass, Answered, Answers
  <2>2. CASE answer' \in {Exceeds, Unsummarised}
    <3>1. CASE answer' = Exceeds
      BY <1>c, <3>1 DEF Exceeds, Answered, Answers
    <3>2. CASE answer' = Unsummarised
      BY <1>c, <3>2 DEF Unsummarised, Answered, Answers
    <3> QED BY <2>2, <3>1, <3>2
  <2>3. CASE Reuse
    <3>1. PICK c \in Usable :
            /\ Fits(c)
            /\ answer' = Answered("compressed", c.covers, Suffix(Len(c.prefix)),
                                  Size(c.size, Len(Suffix(Len(c.prefix)))), FALSE)
      BY <2>3 DEF Reuse
    <3>2. /\ Len(c.prefix) \in Boundaries(conv) /\ Len(c.prefix) \in 0..Len(conv)
          /\ c.covers = Prefix(Len(c.prefix)) /\ c.covers \in Seq(Items)
          /\ c.size \in Nat
      BY <1>t, UsableStands
    <3>3. /\ Suffix(Len(c.prefix)) \in Seq(Items)
          /\ Len(Suffix(Len(c.prefix))) = Len(conv) - Len(c.prefix)
      BY <1>c, <3>2, Parts
    <3>4. /\ Size(c.size, Len(Suffix(Len(c.prefix)))) \in Nat
          /\ Size(c.size, Len(Suffix(Len(c.prefix)))) <= Budget
      <4>1. /\ Len(c.prefix) \in Nat /\ Len(conv) - Len(c.prefix) \in Nat
        BY <1>c, <3>2
      <4>2. FixedSize + c.size + (Len(conv) - Len(c.prefix)) <= Budget
        BY <3>1 DEF Size, Fits
      <4>3. FixedSize \in Nat
        BY <1>c
      <4>4. FixedSize + c.size + (Len(conv) - Len(c.prefix)) \in Nat
        <5>1. \A x, y, z \in Nat : x + y + z \in Nat
          OBVIOUS
        <5> QED BY <3>2, <4>1, <4>3, <5>1, Zenon
      <4> QED BY <3>3, <4>2, <4>4 DEF Size
    <3>5. BoundarySafe(conv, Len(c.prefix))
      BY <3>2 DEF Boundaries
    <3> QED BY <3>1, <3>2, <3>3, <3>4, <3>5 DEF Answered, Answers
  <2> QED BY <2>1, <2>2, <2>3 DEF Pass, TooShort, Reuse, NoCut, SummaryFails
<1>2. NoPlan \in [active : BOOLEAN, cut : Nat, from : Nat, base : Seq(Items)] /\ NoPlan.active = FALSE
  BY <1>c DEF NoPlan
<1>3. TypeOK'
  BY <1>t, <1>u, <1>p, <1>1, <1>2 DEF TypeOK
<1>4. WithinBudget' /\ CheckpointsWhole' /\ Planned'
  BY <1>t, <1>u, <1>p, <1>1, <1>2 DEF WithinBudget, CheckpointsWhole, Planned, Prefix
<1>5. CutInTwo'
  BY <1>u, <1>1 DEF CutInTwo, Prefix, Suffix
<1> QED BY <1>3, <1>4, <1>5 DEF HistoryInv

\* A summary is started on what its checkpoint stands for.
LEMMA StartKeeps ==
    ASSUME HistoryInv, StartSummary
    PROVE  HistoryInv'
<1>t. TypeOK /\ WithinBudget /\ CheckpointsWhole /\ Planned /\ CutInTwo
  BY DEF HistoryInv
<1>u. UNCHANGED <<conv, branches, checkpoints, answer>>
  BY DEF StartSummary
<1>1. PICK b \in Cuts(BasePrefix) :
        plan' = [active |-> TRUE, cut |-> b, from |-> BasePrefix, base |-> BaseCovers]
  BY DEF StartSummary, Chosen
<1>2. BasePrefix \in 0..Len(conv) /\ BaseCovers = Prefix(BasePrefix) /\ BaseCovers \in Seq(Items)
  BY <1>t, BaseStands
<1>3. b \in Boundaries(conv) /\ b \in 0..Len(conv) /\ BasePrefix < b /\ b < Len(conv)
  <2>1. BasePrefix \in Nat
    BY <1>2
  <2> QED BY <1>t, <2>1, CutsKeep
<1>4. TypeOK'
  BY <1>t, <1>u, <1>1, <1>2, <1>3 DEF TypeOK
<1>5. Planned'
  <2>1. BasePrefix \in 0..b
    BY <1>2, <1>3
  <2>2. Boundaries(conv)' = Boundaries(conv) /\ \A n : Prefix(n)' = Prefix(n)
    BY <1>u DEF Prefix
  <2> QED BY <1>1, <1>2, <1>3, <1>u, <2>1, <2>2 DEF Planned
<1>6. WithinBudget' /\ CheckpointsWhole' /\ CutInTwo'
  BY <1>t, <1>u DEF WithinBudget, CheckpointsWhole, CutInTwo, Prefix, Suffix
<1> QED BY <1>4, <1>5, <1>6 DEF HistoryInv

\* A new summary and its checkpoint stand for the prefix before the cut.
LEMMA SummaryKeeps ==
    ASSUME HistoryInv, SummaryMade
    PROVE  HistoryInv'
<1>t. TypeOK /\ WithinBudget /\ CheckpointsWhole /\ Planned /\ CutInTwo
  BY DEF HistoryInv
<1>u. plan.active /\ plan' = NoPlan /\ UNCHANGED <<conv, branches>>
  BY DEF SummaryMade
<1>c. /\ conv \in Seq(Kinds) /\ Len(conv) \in Nat
      /\ {FixedSize, Budget} \subseteq Nat /\ SummarySizes \subseteq Nat /\ <<>> \in Seq(Items)
  BY <1>t DEF TypeOK
<1>b. /\ plan.cut \in 0..Len(conv) /\ BoundarySafe(conv, plan.cut) /\ plan.cut < Len(conv)
      /\ plan.from \in 0..plan.cut /\ plan.base = Prefix(plan.from)
  BY <1>t, <1>u DEF Planned, Boundaries
<1>1. Summarized = Prefix(plan.cut)
  BY <1>c, <1>b, Joins DEF Summarized
<1>2. /\ Prefix(plan.cut) \in Seq(Items) /\ Suffix(plan.cut) \in Seq(Items)
      /\ Len(Suffix(plan.cut)) = Len(conv) - plan.cut
  BY <1>c, <1>b, Parts
<1>3. PICK size \in SummarySizes :
        /\ StoreCheckpoint([prefix |-> Prefix(plan.cut), covers |-> Prefix(plan.cut), size |-> size])
        /\ answer' = IF Size(size, Len(Suffix(plan.cut))) > Budget THEN Exceeds
                     ELSE Answered("compressed", Prefix(plan.cut), Suffix(plan.cut),
                                   Size(size, Len(Suffix(plan.cut))), TRUE)
  BY <1>1 DEF SummaryMade
<1>4. /\ checkpoints' \subseteq Checkpoints /\ IsFiniteSet(checkpoints')
      /\ Cardinality(checkpoints') <= CacheLimit /\ CheckpointsWhole'
  <2>1. [prefix |-> Prefix(plan.cut), covers |-> Prefix(plan.cut), size |-> size] \in Checkpoints
    BY <1>2 DEF Checkpoints
  <2> QED BY <1>t, <1>3, <2>1, StoreKeeps
<1>5. /\ answer' \in Answers
      /\ answer'.kind \in {"raw", "compressed"} => answer'.size <= Budget
      /\ answer'.fresh => answer'.recent # <<>>
      /\ answer'.kind = "compressed" =>
           answer'.covers = Prefix(plan.cut) /\ answer'.recent = Suffix(plan.cut)
  <2>1. Size(size, Len(Suffix(plan.cut))) \in Nat
    <3>1. Len(Suffix(plan.cut)) \in Nat /\ size \in Nat /\ FixedSize \in Nat
      BY <1>2, SizesAssumption, LenProperties
    <3> QED BY <3>1 DEF Size
  <2>2. CASE Size(size, Len(Suffix(plan.cut))) > Budget
    BY <1>c, <1>3, <2>2 DEF Exceeds, Answered, Answers
  <2>3. CASE ~(Size(size, Len(Suffix(plan.cut))) > Budget)
    <3>1. Suffix(plan.cut) # <<>>
      BY <1>c, <1>b, <1>2
    <3>2. Size(size, Len(Suffix(plan.cut))) <= Budget
      BY <1>c, <2>1, <2>3
    <3> QED BY <1>2, <1>3, <2>1, <2>3, <3>1, <3>2 DEF Answered, Answers
  <2> QED BY <2>2, <2>3
<1>6. TypeOK'
  <2>1. NoPlan \in [active : BOOLEAN, cut : Nat, from : Nat, base : Seq(Items)]
    BY <1>c DEF NoPlan
  <2> QED BY <1>t, <1>u, <1>4, <1>5, <2>1 DEF TypeOK
<1>7. WithinBudget' /\ Planned'
  BY <1>u, <1>5 DEF WithinBudget, Planned, NoPlan
<1>8. CutInTwo'
  BY <1>u, <1>b, <1>5 DEF CutInTwo, Prefix, Suffix
<1> QED BY <1>4, <1>6, <1>7, <1>8 DEF HistoryInv

\* The invariant holds in every state, for conversations of any length
\* (history.go:27-133, cache.go:161-182).
THEOREM HistoryInvariance == Spec => []HistoryInv
<1>1. HistoryInv /\ [Next]_vars => HistoryInv'
  BY ClientKeeps, AnswerKeeps, StartKeeps, SummaryKeeps DEF Next, Finished
<1> QED BY <1>1, InitHistoryInv, PTL DEF Spec

\* A compressed request stands for the whole conversation, and a checkpoint for
\* the prefix it is stored under (history.go:79-100, 224-236).
THEOREM Wholeness == Spec => []NothingLost
<1>1. HistoryInv => NothingLost
  <2> SUFFICES ASSUME HistoryInv PROVE NothingLost
    OBVIOUS
  <2>1. ASSUME answer.kind = "compressed" PROVE answer.covers \o answer.recent = conv
    <3>1. PICK b \in 0..Len(conv) : answer.covers = Prefix(b) /\ answer.recent = Suffix(b)
      BY <2>1 DEF HistoryInv, CutInTwo
    <3>2. conv \in Seq(Kinds) /\ b \in 0..b
      BY DEF HistoryInv, TypeOK
    <3> QED BY <3>1, <3>2, Joins
  <2> QED BY <2>1 DEF HistoryInv, CheckpointsWhole, NothingLost
<1> QED BY <1>1, HistoryInvariance, PTL

\* No cut goes through a tool transaction (history_boundaries.go:85-88).
THEOREM ToolPairs == Spec => []ToolPairsWhole
<1>1. HistoryInv => ToolPairsWhole
  <2> SUFFICES ASSUME HistoryInv, answer.kind = "compressed", NEW id \in Ids
               PROVE  /\ ResultsOf(answer.recent, id) # {} => CallsOf(answer.recent, id) # {}
                      /\ CallsOf(answer.covers, id) # {} => ResultsOf(answer.covers, id) # {}
    BY DEF ToolPairsWhole
  <2>1. PICK b \in 0..Len(conv) :
          BoundarySafe(conv, b) /\ answer.covers = Prefix(b) /\ answer.recent = Suffix(b)
    BY DEF HistoryInv, CutInTwo
  <2>2. conv \in Seq(Kinds)
    BY DEF HistoryInv, TypeOK
  <2> QED BY <2>1, <2>2, CutsWhole
<1> QED BY <1>1, HistoryInvariance, PTL
=============================================================================
