----------------------------- MODULE MCService -----------------------------
(***************************************************************************)
(* Service for TLC.  Client 1 deposits, withdraws and disputes the deposit *)
(* and client 2 makes a deposit with the same identifier: the order of the *)
(* first three decides which are accepted.  The withdrawal and the dispute *)
(* have the same place in time, so the heap has to break a tie, by the     *)
(* identifier.                                                             *)
(***************************************************************************)
EXTENDS Service, TLC

(* The two completions are interchangeable.                                *)
MCSymmetry == Permutations(Completions)

MCAmounts == {0, 1, 2}

Row(chrono, client, type, id, amount) ==
  [ chrono_order |-> chrono, client_id |-> client,
    message |-> [transaction_type |-> type, transaction_id |-> id, amount |-> amount] ]

MCMessages ==
  { Row(0, 1, "Deposit", 0, 2),
    Row(1, 1, "Withdrawal", 1, 1),
    Row(1, 1, "Dispute", 0, 0),
    Row(2, 2, "Deposit", 0, 1),
    Row(3, 1, "Chargeback", 0, 0) }

(* For the liveness properties: three of them, and two for client 1.       *)
MCFewMessages ==
  {tx \in MCMessages : tx.message.transaction_type \in {"Deposit", "Withdrawal"}}

=============================================================================
