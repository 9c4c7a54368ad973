----------------------------- MODULE MCCsvReader -----------------------------
(***************************************************************************)
(* CsvReader for TLC: a row with every amount of up to MaxLength           *)
(* characters out of three digits, the signs, the point and a letter;      *)
(* every pair of rows over small sets of texts for all columns; and every  *)
(* three rows that are good, refused, or unreadable.                       *)
(***************************************************************************)
EXTENDS CsvReader

CONSTANT MaxLength

Record(type, client, tx, amount) ==
  [type |-> type, client |-> client, tx |-> tx, amount |-> amount]

MCAmountTexts == UNION {[1 .. n -> {"0", "5", "9", "-", "+", ".", "x"}] : n \in 0 .. MaxLength}

MCAmountRecords == {Record("deposit", <<"7">>, <<"1">>, a) : a \in MCAmountTexts}

(* 7 in three ways, 23 which is 7 in four bits, and two that are refused.  *)
MCClients == {<<"7">>, <<"0", "7">>, <<"+", "7">>, <<"2", "3">>, <<"1", "5">>, <<"-", "7">>, <<"x">>}

(* 33 is 1 in five bits.                                                   *)
MCTransactions == {<<"1">>, <<"3", "3">>, <<"0">>, <<>>}

MCPairs ==
  LET records == {Record(type, c, tx, <<>>) : type \in {"dispute", "Dispute"},
                                              c \in MCClients, tx \in MCTransactions}
  IN  {<<r, s>> : r \in records, s \in records}

MCTriples ==
  [1 .. 3 -> { Record("deposit", <<"7">>, <<"1">>, <<"5">>),
               Record("withdrawal", <<"7">>, <<"1">>, <<"x">>),
               Record("resolve", <<"7">>, <<"1">>, Absent),
               Unreadable }]

MCFiles == {<<r>> : r \in MCAmountRecords} \cup MCPairs \cup MCTriples

=============================================================================
