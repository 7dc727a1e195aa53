-------------------------------- MODULE Sums --------------------------------
(***************************************************************************)
(* Finite sums of integers.  The ledger adds up amounts everywhere: the    *)
(* legs of a transfer per currency, the legs per account, the active holds *)
(* on an account, the balances per currency.  Each of those loops and SQL  *)
(* sum() expressions is SumTo over an indexed family.  The sum is a        *)
(* recursive function, so that both TLC and the proofs can work with it.   *)
(***************************************************************************)
EXTENDS Integers

\* The partial sums 0, f[1], f[1] + f[2], ... of an indexed family.
PartialSums(f) ==
    LET s[i \in Nat] == IF i = 0 THEN 0 ELSE s[i - 1] + f[i]
    IN  s

\* f[1] + ... + f[n]
SumTo(f, n) == PartialSums(f)[n]

=============================================================================
