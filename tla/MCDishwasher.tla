----------------------------- MODULE MCDishwasher -----------------------------
(***************************************************************************)
(* Small instances of Dishwasher for TLC.  Handlers are interchangeable.   *)
(***************************************************************************)
EXTENDS Dishwasher, TLC

HandlerSymmetry == Permutations(Handlers)
===============================================================================
