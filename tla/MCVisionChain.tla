---------------------------- MODULE MCVisionChain ----------------------------
(***************************************************************************)
(* VisionChain for TLC: two requests about any two of: an inline image     *)
(* asked about plainly or with a reanalysis, another inline image, and a   *)
(* remote one; three candidates, of which the second fits no text.         *)
(***************************************************************************)
EXTENDS VisionChain

CONSTANTS i1, i2, remote, ask, redo

MCImages == {i1, i2, remote}
MCInline == {i1, i2}
MCContexts == {ask, redo}
MCReanalysis == {redo}
MCUsable == [x \in MCContexts |-> {1, 3}]
MCTasks == {[img |-> i1, ctx |-> ask], [img |-> i1, ctx |-> redo],
            [img |-> i2, ctx |-> ask], [img |-> remote, ctx |-> redo]}
=============================================================================
