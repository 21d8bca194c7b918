---------------------------- MODULE MCMemoCache ----------------------------
(***************************************************************************)
(* Two keys in a cache of one or two entries, one client (the calls of     *)
(* several meet at the lock only), one restart, and a clock of two ticks:  *)
(* with a TTL of 0 an entry lives to the end of the tick it was written    *)
(* in, and is told from a later one by its expiry.                         *)
(***************************************************************************)
EXTENDS MemoCache

MCLimits == {1, 2}
=============================================================================
