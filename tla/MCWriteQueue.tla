----------------------------- MODULE MCWriteQueue -----------------------------
(***************************************************************************)
(* Values for TLC: one is the front of the other; where nothing is stored  *)
(* there is no word.                                                       *)
(***************************************************************************)
EXTENDS WriteQueue, TLC

MCValues == {<<0>>, <<0, 1>>}

MCGone == <<>>

AnyKey == Permutations(Keys)
===============================================================================
