-------------------------- MODULE MCVisualTransform --------------------------
(***************************************************************************)
(* VisualTransform for TLC: conversations of up to four items, with a user *)
(* who restores no, one or all old images, tool results with and without   *)
(* the role of a user, up to three images of four contents, and two        *)
(* workers.  The memory of i1 fits the budget together with that of i2 or  *)
(* alone, but not twice.                                                   *)
(***************************************************************************)
EXTENDS VisualTransform

CONSTANTS i1, i2, far, big, pdf

MCImages == {i1, i2, far, big, pdf}
MCKeyed == {i1, i2}
MCLength == [i \in MCImages |-> IF i = i1 THEN 3 ELSE 2]
MCKind(i) == CASE i = far -> "remote" [] i = big -> "heavy" [] i = pdf -> "barred" [] OTHER -> "inline"

Item(user, result, text) == [user |-> user, result |-> result, text |-> text]
Ask == Item(TRUE, FALSE, {"said"})
Show == Item(TRUE, FALSE, {})
Look == Item(TRUE, FALSE, {"said", "direct"})
All == Item(TRUE, FALSE, {"said", "noun", "action", "plural"})
Done == Item(TRUE, FALSE, {"said", "completed", "direct"})
Answer == Item(FALSE, FALSE, {})
Tool == Item(FALSE, TRUE, {})
UserTool == Item(TRUE, TRUE, {})

\* The conversation and the item of each image.
MCShapes ==
    {<<<<Show>>, <<1>>>>, <<<<Answer>>, <<1>>>>, <<<<Ask, Look>>, <<1, 2>>>>,
     <<<<Ask, Done>>, <<1, 1>>>>, <<<<Ask, All>>, <<1, 1, 2>>>>, <<<<Ask, Ask>>, <<1, 1, 1>>>>,
     <<<<Ask, Show>>, <<1, 2>>>>, <<<<Look, UserTool, UserTool>>, <<1, 2, 3>>>>,
     <<<<Look, Tool, Answer, Tool>>, <<1, 2, 4>>>>}

MCContents == {<<i1, i2, i1>>}
MCOdd == {<<i1, i1, i2>>, <<far, i1, i2>>, <<i1, pdf, i2>>, <<big, i1, i2>>}

Request(s, c) ==
    [items |-> s[1],
     images |-> [a \in 1..Len(s[2]) |-> [at |-> s[2][a], kind |-> MCKind(c[a]), img |-> c[a]]]]
MCRequests ==
    {Request(s, c) : s \in MCShapes, c \in MCContents}
    \cup {Request(<<<<Ask, All>>, <<1, 1, 2>>>>, c) : c \in MCOdd}

MCConfigs ==
    {[retain |-> FALSE, textOnly |-> TRUE, max |-> 2, restore |-> 2, workers |-> 2]}
    \cup {[retain |-> retain, textOnly |-> ~retain, max |-> 3, restore |-> 2, workers |-> 2] :
       retain \in BOOLEAN}
    \cup {[retain |-> FALSE, textOnly |-> FALSE, max |-> 2, restore |-> 1, workers |-> 1]}
=============================================================================
