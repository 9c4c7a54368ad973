------------------------------ MODULE Account ------------------------------
(***************************************************************************)
(* One account that receives any messages in any order: the state machine  *)
(* behind Account::process_deposit, process_withdrawal, process_dispute,   *)
(* process_resolve and process_chargeback (src/domain/account.rs).  An     *)
(* account is owned by one thread at a time (the DashMap entry guard in    *)
(* Service::handle_buffer), so a method call is one step.                  *)
(***************************************************************************)
EXTENDS AccountOps

VARIABLES
  account,    \* the account
  result,     \* what the last method call returned, "None" before the first
  accepted    \* history: <<type, id>> of the messages answered "Ok" so far

vars == <<account, result, accepted>>

Init ==
  /\ account = NewAccount
  /\ result = "None"
  /\ accepted = {}

(* The account, the return value and the history after a call.             *)
Call(msg) ==
  /\ account' = Processed(account, msg)
  /\ result' = ProcessResult(account, msg)
  /\ accepted' = accepted \cup
       {op \in {<<msg.transaction_type, msg.transaction_id>>} : result' = "Ok"}

Deposit(msg) == msg.transaction_type = "Deposit" /\ Call(msg)

Withdrawal(msg) == msg.transaction_type = "Withdrawal" /\ Call(msg)

Dispute(msg) == msg.transaction_type = "Dispute" /\ Call(msg)

Resolve(msg) == msg.transaction_type = "Resolve" /\ Call(msg)

Chargeback(msg) == msg.transaction_type = "Chargeback" /\ Call(msg)

Next ==
  \E msg \in InputMessage :
    \/ Deposit(msg)
    \/ Withdrawal(msg)
    \/ Dispute(msg)
    \/ Resolve(msg)
    \/ Chargeback(msg)

Spec == Init /\ [][Next]_vars

-----------------------------------------------------------------------------
(***************************************************************************)
(* Properties.                                                             *)
(***************************************************************************)

(* Every field of the account keeps its type.  What is on record is a      *)
(* deposit or a withdrawal, whatever was said of it since, and the four    *)
(* sets and the history speak of what is on record only.                   *)
TypeOK ==
  /\ IsAccount(account)
  /\ \A t \in DOMAIN account.transactions :
       account.transactions[t].message.transaction_type \in {"Deposit", "Withdrawal"}
  /\ account.normal \cup account.disputes \cup account.resolves \cup account.chargebacks
       \subseteq DOMAIN account.transactions
  /\ result \in Result \cup {"None"}
  /\ accepted \subseteq TransactionType \X DOMAIN account.transactions

(* No assertion of check_invariants ever fires: after any calls the four   *)
(* sets partition the map by state, held is the sum of the disputed        *)
(* amounts, total is available plus held and is negative only when locked. *)
AssertionsHold == CheckInvariants(account)

(* Money on hold never goes below zero, locked or not: a resolve or a      *)
(* chargeback only returns what a dispute of the same transaction put on   *)
(* hold (property test `held` is never negative).                          *)
HeldNonNegative == account.held >= 0

(* A client never owes more than was charged back to it: a withdrawal      *)
(* takes available money only, so total is at least minus the amounts of   *)
(* the charged back transactions.  At most one is ever charged back, since *)
(* the first chargeback locks the account, and only that locks it.         *)
DebtIsChargedBack ==
  /\ account.total + SumInStates(account, {"Chargeback"}) >= 0
  /\ \A s, t \in account.chargebacks : s = t
  /\ account.locked <=> account.chargebacks # {}

(* An operation on a transaction id that was once answered Ok is refused   *)
(* ever after, however the account evolved in between: a message that is   *)
(* delivered again changes nothing ("The service should be idempotent",    *)
(* ASSUMPTIONS.md).                                                        *)
AtMostOnce ==
  \A msg \in InputMessage :
    <<msg.transaction_type, msg.transaction_id>> \in accepted
      => ProcessResult(account, msg) # "Ok"

(* What an accepted operation says of its transaction from then on.        *)
AcceptedSound ==
  \A t \in TransactionId :
    LET known == t \in DOMAIN account.transactions
        In(states) == known /\ account.transactions[t].state \in states IN
    /\ <<"Deposit", t>> \in accepted => known
    /\ <<"Withdrawal", t>> \in accepted => known
    /\ <<"Dispute", t>> \in accepted => In({"Disputed", "Resolved", "Chargeback"})
    /\ <<"Resolve", t>> \in accepted => In({"Resolved"})
    /\ <<"Chargeback", t>> \in accepted => In({"Chargeback"})

(* The inductive invariant behind the theorems of AccountProofs: a sound   *)
(* account, and a history that agrees with the states of the transactions. *)
IInv ==
  /\ TypeOK
  /\ Sound(account)
  /\ AcceptedSound

(* A chargeback freezes the account for good: no later call changes a      *)
(* balance, a transaction or a set.                                        *)
LockedIsFinal == [][account.locked => account' = account]_vars

(* An account as its ledger: the transactions are the entries of the book, *)
(* and the running balances and the lock are the statement.                *)
Book(acc) ==
  [t \in DOMAIN acc.transactions |->
     [ kind   |-> acc.transactions[t].message.transaction_type,
       amount |-> acc.transactions[t].message.amount,
       state  |-> acc.transactions[t].state ]]

StatementOf(acc) ==
  [ available |-> acc.available, held |-> acc.held, total |-> acc.total, locked |-> acc.locked ]

Ledger ==
  INSTANCE Ledger WITH
    MaxEntryId   <- MaxTransactionId,
    EntryAmounts <- Amounts,
    entries      <- Book(account),
    statement    <- StatementOf(account)

(* The running balances, the lock and the states of the transactions       *)
(* follow the ledger, which works them out from the book.                  *)
ImplementsLedger == Ledger!LedgerSpec

=============================================================================
