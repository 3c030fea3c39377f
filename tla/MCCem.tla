------------------------------- MODULE MCCem --------------------------------
(***************************************************************************)
(* Model-checking instance: three candidates in two dimensions, a table of *)
(* three entries with odd negative values, so that every rounding has its  *)
(* ties, and two costs, so that three candidates always share one.         *)
(***************************************************************************)
EXTENDS Cem

MCTable == [lo |-> 0, outs |-> <<-3, 0, 3>>]
MCMu == <<1, -1>>
MCStd == <<2, 3>>
=============================================================================
