----------------------------- MODULE MCPipeline -----------------------------
(***************************************************************************)
(* Pipeline and Metrics for TLC.  Client 1 deposits, withdraws half of it, *)
(* has the deposit disputed and charged back, which depends on the order;  *)
(* client 2 makes a deposit with the same identifier; two kinds of row are *)
(* bad.  The files are those of up to MaxRows rows, and those that go on   *)
(* for two rows after a deposit and its dispute: two full batches.         *)
(***************************************************************************)
EXTENDS Metrics

CONSTANT MaxRows

MCAmounts == {0, 1, 2}

MCShardOf == [c \in ClientId |-> 1]

GoodRow(client, type, id, amount) ==
  [ client_id |-> client,
    message   |-> [transaction_type |-> type, transaction_id |-> id, amount |-> amount] ]

MCDeposit == GoodRow(1, "Deposit", 0, 2)
MCDispute == GoodRow(1, "Dispute", 0, 0)

MCRows ==
  { MCDeposit,
    MCDispute,
    GoodRow(1, "Chargeback", 0, 0),
    GoodRow(1, "Withdrawal", 1, 1),
    GoodRow(2, "Deposit", 0, 1) }

(* What follows a bad row is never read.                                   *)
MCFiles ==
  UNION {[1 .. n -> MCRows] : n \in 0 .. MaxRows}
    \cup {<<MCDeposit, MCDispute>> \o f : f \in [1 .. 2 -> MCRows]}
    \cup UNION {{Append(f, bad) : f \in [1 .. n -> MCRows], bad \in BadRow} :
                 n \in 0 .. MaxRows - 1}

=============================================================================
