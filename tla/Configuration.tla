---------------------------- MODULE Configuration ----------------------------
(***************************************************************************)
(* normalizeConfig and normalizeVisionModels of src/config.go for the      *)
(* fields that depend on each other, the chains of models the plugin       *)
(* builds from them, and applyFinalTextOutputLimit of src/history.go.      *)
(*                                                                         *)
(* A model's name is [name, padded]; the name "" is blank.  A number that  *)
(* is 0 or negative stands for a missing one, and a list of visual models  *)
(* that is not listed for a nil one; a listed one may be empty.            *)
(***************************************************************************)
EXTENDS Integers, SequencesExt, FiniteSetsExt

CONSTANTS
    Default,        \* defaultPluginConfig
    DefaultLimit, MinLimit, DefaultBudget, LimitMargin  \* of a visual model

Trim(model) == [model EXCEPT !.padded = FALSE]
Blank(model) == model.name = ""
OrDefault(value, default) == IF value <= 0 THEN default ELSE value
NameOr(model, default) == Trim(IF Blank(model) THEN default ELSE model)
Lesser(m, n) == IF m < n THEN m ELSE n

\* Mutant of UniqueModels: names are compared as they were written.
UniqueModelsRaw(values, excluded) ==
    FoldLeft(LAMBDA models, m : IF Blank(m) \/ m \in excluded \cup ToSet(models) THEN models
                                ELSE Append(models, Trim(m)),
             <<>>, values)

\* The models in their order, without blanks, repetitions and those excluded.
UniqueModels(values, excluded) ==
    FoldLeft(LAMBDA models, m : IF Blank(m) \/ Trim(m) \in excluded \cup ToSet(models) THEN models
                                ELSE Append(models, Trim(m)),
             <<>>, values)

\* The numbers of a visual model.
VisionModel(m) ==
    LET limit == OrDefault(m.limit, DefaultLimit)
        wanted == Lesser(DefaultBudget, limit - LimitMargin)
    IN  [model |-> Trim(m.model), limit |-> limit,
         budget |-> IF m.budget > 0 THEN m.budget ELSE OrDefault(wanted, limit - MinLimit),
         enabled |-> m.enabled]

VisionModels(models) ==
    [k \in DOMAIN models |-> VisionModel(models[k])]

NamedModels(models) ==
    FoldLeft(LAMBDA named, m : IF Blank(m.model) THEN named ELSE Append(named, m), <<>>, models)

-----------------------------------------------------------------------------
\* The values normalizeConfig puts in, and what it then refuses.

GivenVision(c) == IF c.listed THEN c.vision ELSE Default.vision

WithDefaults(c) ==
    LET context == OrDefault(c.context, Default.context)
        budget == OrDefault(c.budget, Default.budget)
        primary == NameOr(c.primary, Default.primary)
    IN  [public |-> NameOr(c.public, Default.public),
         primary |-> primary,
         context |-> context,
         budget |-> budget,
         output |-> IF c.output > 0 THEN c.output ELSE Lesser(Default.output, context - budget),
         threshold |-> OrDefault(c.threshold, Default.threshold),
         target |-> OrDefault(c.target, Default.target),
         fallbacks |-> UniqueModels(c.fallbacks, {primary}),
         compression |-> Trim(c.compression),
         listed |-> TRUE, vision |-> VisionModels(NamedModels(GivenVision(c)))]

\* textModels of normalizeVisionModels
TextNames(n) ==
    {n.primary} \cup ToSet(n.fallbacks) \cup (IF Blank(n.compression) THEN {} ELSE {n.compression})

AcceptedNumbers(n) ==
    /\ n.budget < n.context
    /\ n.output <= n.context - n.budget
    /\ n.threshold < n.budget
    /\ n.target < n.threshold

AcceptedNames(n) ==
    /\ n.primary # n.public /\ n.public \notin ToSet(n.fallbacks) /\ n.compression # n.public

AcceptedVision(n, given) ==
    LET models == {n.vision[k].model : k \in DOMAIN n.vision} IN
    /\ given # <<>> /\ Len(given) <= 4
    /\ n.public \notin models /\ models \cap TextNames(n) = {}
    /\ Cardinality(models) = Len(n.vision)
    /\ \A k \in DOMAIN n.vision : n.vision[k].limit > MinLimit /\ n.vision[k].budget < n.vision[k].limit
    /\ \E k \in DOMAIN n.vision : n.vision[k].enabled

Accepted(c) ==
    LET n == WithDefaults(c)
    IN  AcceptedNumbers(n) /\ AcceptedNames(n) /\ AcceptedVision(n, GivenVision(c))

-----------------------------------------------------------------------------
\* What is built from a configuration.

\* routeModel, for a request that names a model
Routed(n, requested) == ~Blank(requested) /\ Trim(requested) = Trim(n.public)

\* textModels of bridge.go
TextChain(n) == UniqueModels(<<n.primary>> \o n.fallbacks, {})

\* the models of compressHistoryPiece
CompressionChain(n) ==
    UniqueModels(<<IF Blank(n.compression) THEN n.primary ELSE n.compression>> \o n.fallbacks, {})

\* the visual candidates that are not skipped for good
VisualChain(n) ==
    FoldLeft(LAMBDA chain, m : IF m.enabled THEN Append(chain, m.model) ELSE chain, <<>>, n.vision)

-----------------------------------------------------------------------------
\* applyFinalTextOutputLimit: a body's limits by key, 0 when missing or unusable.

LimitKeys == {"max_tokens", "max_output_tokens", "max_completion_tokens"}
ClientKeys(p) ==
    CASE p = "openai-response" -> {"max_output_tokens"}
      [] p = "openai" -> {"max_completion_tokens", "max_tokens"}
      [] OTHER -> {"max_tokens"}
FinalKey(p) == IF p = "openai-response" THEN "max_output_tokens" ELSE "max_tokens"

OutputLimit(limits, p, configured) ==
    LET client == {limits[k] : k \in ClientKeys(p)} \ {0}
    IN  [k \in LimitKeys |-> IF k # FinalKey(p) THEN 0 ELSE Min(client \cup {configured})]
=============================================================================
