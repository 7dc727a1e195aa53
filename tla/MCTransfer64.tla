---------------------------- MODULE MCTransfer64 ----------------------------
(***************************************************************************)
(* Integers of four bits, -8 .. 7, for TLC: three accounts of a currency.  *)
(***************************************************************************)
EXTENDS Transfer64

MCChart ==
    [a \in Accounts |-> [currency |-> "TRY", debitNormal |-> TRUE, allowNegative |-> TRUE]]

\* Nothing, the smallest integer, which is its own negation, and amounts of
\* which three fit, or not.
Small == {-8, 0, 1, 2}
Large == {1, 5, 6, 7}
None == {}
=============================================================================
