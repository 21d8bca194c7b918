------------------------------ MODULE MCSettings ------------------------------
(***************************************************************************)
(* Settings for TLC: names that are missing, padded, repeated or shared by *)
(* two roles, numbers around every limit and every pair of visual models.  *)
(* Token numbers are in units of 1024 or so.                               *)
(***************************************************************************)
EXTENDS Settings

MCNames == {"", "bridge", "t1", "t2", "t3", "v1", "v2"}
Name(n) == [name |-> n, padded |-> FALSE]
Pad(n) == [name |-> n, padded |-> TRUE]
None == Name("")
Eye(m, limit, budget, enabled) == [model |-> m, limit |-> limit, budget |-> budget, enabled |-> enabled]

MCDefault ==
    [public |-> Name("bridge"), primary |-> Name("t1"), context |-> 11, budget |-> 8, output |-> 3,
     threshold |-> 6, target |-> 2, fallbacks |-> <<Name("t2")>>, compression |-> None,
     listed |-> TRUE, vision |-> <<Eye(Name("v1"), 0, 0, TRUE)>>]

Pair == <<Eye(Pad("v1"), 2, 0, TRUE), Eye(None, 0, 0, TRUE), Eye(Name("v2"), 20, 9, FALSE)>>
MCGiven ==
    {c \in [public : {None, Name("t1"), Pad("bridge")}, primary : {None, Pad("t1"), Name("bridge")},
     context : {0}, budget : {0}, output : {0}, threshold : {0}, target : {0},
     fallbacks : {<<Name("t2"), Pad("t2"), Pad("t1")>>, <<Pad("bridge"), None>>, <<Pad("v1")>>,
                  <<Pad("t3"), Name("t2"), Name("t3")>>},
     compression : {None, Pad("v1"), Name("t3"), Pad("bridge"), Pad("t2")},
     listed : BOOLEAN, vision : {<<>>, Pair, <<Eye(Name("t3"), 0, 0, TRUE)>>}] :
        c.listed \/ c.vision = <<>>}
    \cup
    [public : {None}, primary : {None}, context : {0, 9}, budget : {0, 7, 9}, output : {-1, 0, 1, 2, 3},
     threshold : {0, 5, 7}, target : {0, 4, 6}, fallbacks : {<<Name("t2"), Pad("t1")>>},
     compression : {Name("t3")}, listed : {TRUE}, vision : {Pair}]
    \cup
    [public : {None}, primary : {None}, context : {0}, budget : {0}, output : {0}, threshold : {0}, target : {0},
     fallbacks : {<<Name("t2")>>}, compression : {None},
     listed : {TRUE}, vision : [1..2 -> {Eye(m, limit, budget, enabled) :
         m \in {Name("v1"), Pad("v1"), Name("v2"), Pad("bridge"), None}, limit \in {-1, 1, 9},
         budget \in {0, 9}, enabled \in BOOLEAN}]]

NoLimits == [k \in LimitKeys |-> 0]
MCCalls ==
    [limits : {NoLimits, [NoLimits EXCEPT !["max_tokens"] = 1, !["max_completion_tokens"] = 5],
               [k \in LimitKeys |-> 5]},
     protocol : {"openai", "openai-response", "claude"}]
=============================================================================
