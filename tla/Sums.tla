-------------------------------- MODULE Sums --------------------------------
(***************************************************************************)
(* The sum of a function over an interval of indices that starts at 0.     *)
(* An account adds up the amounts of its transactions, whose identifiers   *)
(* are such an interval (u32 in the code).  The sum runs along the         *)
(* interval, rather than over a set in an arbitrary order, because a       *)
(* recursive function on an interval is what SumTheorems can reason about. *)
(***************************************************************************)
EXTENDS Integers

(* f[0] + f[1] + ... + f[n]: sum[i] adds the terms up to i.                 *)
SumUpTo(f, n) ==
  LET sum[i \in 0 .. n] == IF i = 0 THEN f[0] ELSE sum[i - 1] + f[i]
  IN  sum[n]

=============================================================================
