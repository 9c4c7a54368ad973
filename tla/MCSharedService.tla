--------------------------- MODULE MCSharedService ---------------------------
(***************************************************************************)
(* SharedService for TLC: two clients in one shard and one in another, so  *)
(* that a flush changes accounts before, in and after the shard that is    *)
(* being read.                                                             *)
(***************************************************************************)
EXTENDS SharedService

MCAmounts == {0, 1, 2}

MCShardOf == [c \in ClientId |-> IF c = 3 THEN 2 ELSE 1]

Deposit(chrono, client, id, amount) ==
  [ chrono_order |-> chrono, client_id |-> client,
    message |-> [ transaction_type |-> "Deposit", transaction_id |-> id,
                  amount |-> amount ] ]

MCMessages ==
  { Deposit(0, 1, 0, 1), Deposit(1, 2, 0, 1), Deposit(2, 3, 0, 1) }

=============================================================================
