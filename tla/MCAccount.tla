----------------------------- MODULE MCAccount -----------------------------
(***************************************************************************)
(* Account for TLC.  Three identifiers: enough for a deposit, a withdrawal *)
(* that leaves less than the deposit, and a second deposit, each at any    *)
(* stage of a dispute.  The amounts include a negative one and zero, which *)
(* a row can carry, and two positive ones, so that a withdrawal can exceed *)
(* the balance and a message can carry another amount than the stored one. *)
(***************************************************************************)
EXTENDS AccountClaims

MCAmounts == {-1, 0, 1, 2}

=============================================================================
