-------------------------- MODULE HistoryCheckpoint --------------------------
(***************************************************************************)
(* The compression of a long conversation before it goes to the text       *)
(* models: prepareFinalTextBody of src/history.go over the checkpoints it  *)
(* keeps in the memoCache.  A client extends its conversation, goes back   *)
(* to an earlier point of it, and asks for an answer at any time.          *)
(*                                                                         *)
(* Sizes are in tokens of one unit per item; system and developer messages,*)
(* which are never summarised, are part of FixedSize.  A summary is        *)
(* abstracted to the items it stands for and to its size.  A request that  *)
(* runs beside this one only adds a checkpoint under a key of its own; it  *)
(* reads the cache once, so that is the same as running before or after.   *)
(***************************************************************************)
EXTENDS HistoryBoundaries

CONSTANTS
    Kinds,          \* the items the client may say
    MaxItems,       \* bound: length of the conversation
    MaxBranches,    \* bound: how often the client goes back
    Threshold,      \* AutoCompressionThresholdTokens
    Budget,         \* PrimaryContextBudgetTokens
    KeepRecent,     \* AutoCompressionKeepRecentTurns
    Reserve,        \* size put aside for a summary before it is made
    SummarySizes,   \* sizes the compression models may return
    FixedSize,      \* the rest of the request
    CacheLimit      \* checkpoints the cache holds

ASSUME KindsAssumption == Kinds \subseteq Items
ASSUME SizesAssumption ==
    /\ {MaxItems, MaxBranches, Budget, KeepRecent, Reserve, FixedSize} \subseteq Nat
    /\ Threshold \in Nat /\ Threshold < Budget     \* src/config.go:144
    /\ SummarySizes \subseteq Nat /\ CacheLimit \in Nat \ {0}

VARIABLES
    conv,           \* the conversation, as the client has it
    branches,       \* how often the client went back
    checkpoints,    \* the cached summaries, each under the prefix it is for
    plan,           \* the cut being summarised and the checkpoint it extends
    answer          \* what the last request for conv came to

vars == <<conv, branches, checkpoints, plan, answer>>

Prefix(n) == SubSeq(conv, 1, n)
Suffix(n) == SubSeq(conv, n + 1, Len(conv))

Checkpoints == [prefix : Seq(Items), covers : Seq(Items), size : SummarySizes]
NoPlan == [active |-> FALSE, cut |-> 0, from |-> 0, base |-> <<>>]
Answers == [kind : {"none", "raw", "compressed", "exceeds", "failed"},
            covers : Seq(Items), recent : Seq(Items), size : Nat, fresh : BOOLEAN]
Answered(kind, covers, recent, size, fresh) ==
    [kind |-> kind, covers |-> covers, recent |-> recent, size |-> size, fresh |-> fresh]
NoAnswer == Answered("none", <<>>, <<>>, 0, FALSE)
Exceeds == Answered("exceeds", <<>>, <<>>, 0, FALSE)      \* refused as too long
Unsummarised == Answered("failed", <<>>, <<>>, 0, FALSE)  \* the summarizer failed

Size(summary, kept) == FixedSize + summary + kept
RawSize == Size(0, Len(conv))

TypeOK ==
    /\ conv \in Seq(Kinds) /\ Len(conv) <= MaxItems /\ branches \in 0..MaxBranches
    /\ checkpoints \subseteq Checkpoints /\ IsFiniteSet(checkpoints)
    /\ Cardinality(checkpoints) <= CacheLimit
    /\ plan \in [active : BOOLEAN, cut : Nat, from : Nat, base : Seq(Items)]
    /\ answer \in Answers

Init ==
    /\ conv = <<>> /\ branches = 0
    /\ checkpoints = {}
    /\ plan = NoPlan
    /\ answer = NoAnswer

-----------------------------------------------------------------------------
\* The client, and the cache under its other users.

Say ==
    /\ ~plan.active /\ Len(conv) < MaxItems
    /\ \E item \in Kinds : conv' = Append(conv, item)
    /\ answer' = NoAnswer
    /\ UNCHANGED <<branches, checkpoints, plan>>

GoBack ==
    /\ ~plan.active /\ branches < MaxBranches
    /\ branches' = branches + 1
    /\ \E n \in 0..Len(conv) - 1 : conv' = Prefix(n)
    /\ answer' = NoAnswer
    /\ UNCHANGED <<checkpoints, plan>>

Evict ==
    /\ \E c \in checkpoints : checkpoints' = checkpoints \ {c}
    /\ UNCHANGED <<conv, branches, plan, answer>>

-----------------------------------------------------------------------------
\* prepareFinalTextBody.

Asks == ~plan.active /\ answer = NoAnswer

\* Below the threshold the request goes out as it is.
Pass ==
    /\ Asks /\ RawSize < Threshold
    /\ answer' = Answered("raw", <<>>, conv, RawSize, FALSE)
    /\ UNCHANGED <<conv, branches, checkpoints, plan>>

\* Fewer than two items: there is nothing to compress.
TooShort ==
    /\ Asks /\ RawSize >= Threshold /\ Len(conv) < 2
    /\ answer' = Exceeds
    /\ UNCHANGED <<conv, branches, checkpoints, plan>>

\* getLast: the checkpoints of prefixes of conv, the longest first.
Found == {c \in checkpoints : Len(c.prefix) <= Len(conv) /\ c.prefix = Prefix(Len(c.prefix))}
Longest == {c \in Found : \A d \in Found : Len(d.prefix) <= Len(c.prefix)}

\* It is dropped when its end is not a safe semantic boundary of conv.
Usable == {c \in Longest : Len(c.prefix) \in Boundaries(conv)}

Compressible == Asks /\ RawSize >= Threshold /\ Len(conv) >= 2

\* Mutant of Fits: the checkpoint is taken whatever came after it.
FitsAlways(c) == c.size <= Budget

Fits(c) == Size(c.size, Len(conv) - Len(c.prefix)) <= Budget

\* The checkpoint's summary and the items after it fit the budget.
Reuse ==
    /\ Compressible
    /\ \E c \in Usable :
         LET kept == Suffix(Len(c.prefix)) IN
         /\ Fits(c)
         /\ answer' = Answered("compressed", c.covers, kept, Size(c.size, Len(kept)), FALSE)
    /\ UNCHANGED <<conv, branches, checkpoints, plan>>

\* chooseHistoryCheckpointPrefix: the cuts after minimum that keep one to
\* KeepRecent units and fit beside the reserve.
Cuts(minimum) ==
    {b \in Boundaries(conv) :
        /\ b > minimum
        /\ UnitsAfter(conv, b) \in 1..KeepRecent
        /\ Size(Reserve, Len(conv) - b) <= Budget}

\* The most units that can be kept are kept.
Chosen(minimum) == {b \in Cuts(minimum) : \A x \in Cuts(minimum) : b <= x}

NeedsSummary == Compressible /\ ~\E c \in Usable : Fits(c)
BasePrefix == IF Usable = {} THEN 0 ELSE Len((CHOOSE c \in Usable : TRUE).prefix)
BaseCovers == IF Usable = {} THEN <<>> ELSE (CHOOSE c \in Usable : TRUE).covers

\* The summarizer is started on the last checkpoint and what came after it.
StartSummary ==
    /\ NeedsSummary
    /\ \E b \in Chosen(BasePrefix) :
         plan' = [active |-> TRUE, cut |-> b, from |-> BasePrefix, base |-> BaseCovers]
    /\ UNCHANGED <<conv, branches, checkpoints, answer>>

NoCut ==
    /\ NeedsSummary /\ Chosen(BasePrefix) = {}
    /\ answer' = Exceeds
    /\ UNCHANGED <<conv, branches, checkpoints, plan>>

\* Every compression model failed, or returned a truncated or oversized summary.
SummaryFails ==
    /\ plan.active
    /\ plan' = NoPlan
    /\ answer' = Unsummarised
    /\ UNCHANGED <<conv, branches, checkpoints>>

\* Mutant of Summarized: the old summary is joined with the whole history.
SummarizedTwice == plan.base \o Prefix(plan.cut)

\* What the new summary stands for: the old summary and the delta.
Summarized == plan.base \o SubSeq(conv, plan.from + 1, plan.cut)

\* cache.set: the entry replaces the one of its key, and when the cache is full
\* it replaces another one.
StoreCheckpoint(c) ==
    LET others == {d \in checkpoints : d.prefix # c.prefix} IN
    IF Cardinality(others) < CacheLimit
    THEN checkpoints' = others \cup {c}
    ELSE \E d \in others : checkpoints' = (others \ {d}) \cup {c}

\* The checkpoint is kept also when the request turns out not to fit.
SummaryMade ==
    /\ plan.active
    /\ \E size \in SummarySizes :
         LET kept == Suffix(plan.cut)
             total == Size(size, Len(kept))
         IN  /\ StoreCheckpoint([prefix |-> Prefix(plan.cut), covers |-> Summarized, size |-> size])
             /\ answer' = IF total > Budget THEN Exceeds
                          ELSE Answered("compressed", Summarized, kept, total, TRUE)
    /\ plan' = NoPlan
    /\ UNCHANGED <<conv, branches>>

\* The client has its answer and says no more.
Finished == answer # NoAnswer /\ UNCHANGED vars

Next ==
    \/ Say \/ GoBack \/ Evict
    \/ Pass \/ TooShort \/ Reuse
    \/ StartSummary \/ NoCut \/ SummaryFails \/ SummaryMade
    \/ Finished

Spec == Init /\ [][Next]_vars

-----------------------------------------------------------------------------
\* Properties.

\* What goes to the text model stands for the whole conversation, in order and
\* without a gap or a repeat, and every checkpoint for the prefix it is stored
\* under, however often it was extended (history.go:79-100, 224-236).
NothingLost ==
    /\ answer.kind = "compressed" => answer.covers \o answer.recent = conv
    /\ \A c \in checkpoints : c.covers = c.prefix

\* A tool result that stays has its call beside it, and a call that went into
\* the summary has its result there: no cut goes through a tool transaction
\* (history_boundaries.go:85-88).
ToolPairsWhole ==
    answer.kind = "compressed" =>
        \A id \in Ids :
            /\ ResultsOf(answer.recent, id) # {} => CallsOf(answer.recent, id) # {}
            /\ CallsOf(answer.covers, id) # {} => ResultsOf(answer.covers, id) # {}

\* What is sent fits the working budget of the primary model (history.go:69,
\* 106), and a fresh compression keeps something of the conversation verbatim.
WithinBudget ==
    /\ answer.kind \in {"raw", "compressed"} => answer.size <= Budget
    /\ answer.fresh => answer.recent # <<>>

\* The inductive invariant behind these: the cache keeps its bound on
\* checkpoints (cache.go:161-182), a summary in the making extends what its
\* checkpoint stands for up to a safe cut before the end, and an answer is the
\* conversation cut in two at a safe place.
CheckpointsWhole == \A c \in checkpoints : c.covers = c.prefix

Planned ==
    plan.active =>
        /\ plan.cut \in Boundaries(conv) /\ plan.cut < Len(conv)
        /\ plan.from \in 0..plan.cut /\ plan.base = Prefix(plan.from)

CutInTwo ==
    answer.kind = "compressed" =>
        \E b \in 0..Len(conv) :
            /\ BoundarySafe(conv, b)
            /\ answer.covers = Prefix(b) /\ answer.recent = Suffix(b)

HistoryInv == TypeOK /\ WithinBudget /\ CheckpointsWhole /\ Planned /\ CutInTwo

\* A compressed request whose last item waits for an answer, a user message or
\* a tool result, keeps at least that item verbatim (plugin.go:177).
KeepsRecent ==
    LET last == conv[Len(conv)] IN
    answer.kind = "compressed" /\ (last.user \/ last.results # {}) => answer.recent # <<>>

\* A request is refused as exceeding the budget only when it does
\* (history.go:38, 77).
RefusedOverBudget == answer.kind = "exceeds" => RawSize > Budget
=============================================================================
