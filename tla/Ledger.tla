------------------------------- MODULE Ledger -------------------------------
(***************************************************************************)
(* What an account promises, with no running balance: a book of entries,   *)
(* each a deposit or a withdrawal with a state, and a statement worked out *)
(* from the book alone.  The account of account.rs keeps four numbers, a   *)
(* flag and four sets of ids up to date step by step instead; Account.tla  *)
(* is proved to implement this one (AccountProofs).                        *)
(***************************************************************************)
EXTENDS Sums

CONSTANTS MaxEntryId, EntryAmounts

EntryId == 0 .. MaxEntryId

Entry ==
  [ kind : {"Deposit", "Withdrawal"}, amount : {a \in EntryAmounts : a > 0},
    state : {"Normal", "Disputed", "Resolved", "Chargeback"} ]

VARIABLES
  entries,     \* the book: a partial function from identifiers to entries
  statement    \* what the client is told: available, held, total, locked

ledgerVars == <<entries, statement>>

-----------------------------------------------------------------------------
(* An entry's share of the total: the money it brought in or took out, and *)
(* on top of it the money a chargeback took away.                          *)
Contribution(e) ==
  (IF e.kind = "Deposit" THEN e.amount ELSE - e.amount)
    - (IF e.state = "Chargeback" THEN e.amount ELSE 0)

OnHold(e) == IF e.state = "Disputed" THEN e.amount ELSE 0

TotalOf(book) ==
  SumUpTo([i \in EntryId |-> IF i \in DOMAIN book THEN Contribution(book[i]) ELSE 0],
          MaxEntryId)

HeldOf(book) ==
  SumUpTo([i \in EntryId |-> IF i \in DOMAIN book THEN OnHold(book[i]) ELSE 0],
          MaxEntryId)

Statement(book) ==
  [ available |-> TotalOf(book) - HeldOf(book),
    held      |-> HeldOf(book),
    total     |-> TotalOf(book),
    locked    |-> \E i \in DOMAIN book : book[i].state = "Chargeback" ]

LedgerInit ==
  /\ entries = [i \in {} |-> i]
  /\ statement = Statement(entries)

(* A new entry: a withdrawal takes no more than what is available.         *)
Record(i, e) ==
  /\ ~ statement.locked
  /\ i \notin DOMAIN entries
  /\ e.state = "Normal"
  /\ e.kind = "Withdrawal" => e.amount <= statement.available
  /\ entries' = [j \in DOMAIN entries \cup {i} |-> IF j = i THEN e ELSE entries[j]]
  /\ statement' = Statement(entries')

(* An entry moves along Normal, Disputed, and Resolved or Chargeback.      *)
Move(i, from, to) ==
  /\ ~ statement.locked
  /\ i \in DOMAIN entries
  /\ entries[i].state = from
  /\ entries' = [entries EXCEPT ![i].state = to]
  /\ statement' = Statement(entries')

LedgerNext ==
  \/ \E i \in EntryId, e \in Entry : Record(i, e)
  \/ \E i \in EntryId : \/ Move(i, "Normal", "Disputed")
                        \/ Move(i, "Disputed", "Resolved")
                        \/ Move(i, "Disputed", "Chargeback")

LedgerSpec == LedgerInit /\ [][LedgerNext]_ledgerVars

=============================================================================
