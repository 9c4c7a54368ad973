----------------------------- MODULE AccountOps -----------------------------
(***************************************************************************)
(* The account of one client (src/domain/account.rs), as operators on an   *)
(* account record: what each process_* method returns, and the account it  *)
(* leaves behind.  Account.tla drives one account with these operators,    *)
(* and Service.tla keeps one account per client.                           *)
(*                                                                         *)
(* An amount is an integer number of ten-thousandths, as the BigInt inside *)
(* Amount is: it never overflows.  Left out of the record: client_id,      *)
(* which is the key of the map the account sits in, and the debug-only     *)
(* history_changes, which nothing reads.                                   *)
(***************************************************************************)
EXTENDS Sums, FiniteSets

CONSTANTS
  MaxTransactionId,   \* identifiers are 0 .. MaxTransactionId (u32::MAX in the code)
  Amounts             \* the amounts a message may carry

ASSUME MaxTransactionIdAssumption == MaxTransactionId \in Nat
ASSUME AmountsAssumption == Amounts \subseteq Int

TransactionId == 0 .. MaxTransactionId

TransactionType == {"Deposit", "Withdrawal", "Dispute", "Resolve", "Chargeback"}

TransactionState == {"Normal", "Disputed", "Resolved", "Chargeback"}

TransactionError ==
  { "InsufficientBalance", "AccountLocked", "TransactionNotDisputed",
    "InvalidTransaction", "DuplicateTransaction", "CannotRevertToNormal",
    "AmountNegative", "TransactionTerminalState", "AlreadyDisputed" }

Result == {"Ok"} \cup TransactionError

(* InputMessage.  A dispute, resolve or chargeback carries an amount too:  *)
(* the row it is parsed from has the column, and the account ignores it.   *)
InputMessage ==
  [ transaction_type : TransactionType,
    transaction_id   : TransactionId,
    amount           : Amounts ]

(* The value of the transactions map: the state and the recorded message.  *)
TransactionRecord == [ state : TransactionState, message : InputMessage ]

(* The fields of an account; the map is a partial function on identifiers. *)
IsAccount(acc) ==
  /\ acc \in [ available    : Int,
              held         : Int,
              total        : Int,
              locked       : BOOLEAN,
              transactions : [DOMAIN acc.transactions -> TransactionRecord],
              normal       : SUBSET TransactionId,
              disputes     : SUBSET TransactionId,
              resolves     : SUBSET TransactionId,
              chargebacks  : SUBSET TransactionId ]
  /\ DOMAIN acc.transactions \subseteq TransactionId

NewAccount ==
  [ available    |-> 0,
    held         |-> 0,
    total        |-> 0,
    locked       |-> FALSE,
    transactions |-> [t \in {} |-> t],
    normal       |-> {},
    disputes     |-> {},
    resolves     |-> {},
    chargebacks  |-> {} ]

-----------------------------------------------------------------------------
(***************************************************************************)
(* The lifecycle of a transaction.                                         *)
(***************************************************************************)

(* Faulty variants: a resolved transaction is not final; a transaction     *)
(* need not be disputed to be resolved or charged back.                    *)
CanTransitionAfterResolve(from, to) ==
  IF from = "Chargeback" THEN "AccountLocked"
  ELSE IF from = "Disputed" /\ to = "Disputed" THEN "AlreadyDisputed"
  ELSE IF from = "Normal" /\ to \in {"Resolved", "Chargeback"} THEN "TransactionNotDisputed"
  ELSE "Ok"

CanTransitionUndisputed(from, to) ==
  IF from = "Chargeback" THEN "AccountLocked"
  ELSE IF from = "Resolved" THEN "TransactionTerminalState"
  ELSE IF from = "Disputed" /\ to = "Disputed" THEN "AlreadyDisputed"
  ELSE "Ok"

(* The arms of the match, in its order.                                    *)
CanTransition(from, to) ==
  IF to = "Normal" THEN "CannotRevertToNormal"
  ELSE IF from = "Chargeback" THEN "AccountLocked"
  ELSE IF from = "Resolved" THEN "TransactionTerminalState"
  ELSE IF from = "Disputed" /\ to = "Disputed" THEN "AlreadyDisputed"
  ELSE IF from = "Normal" /\ to \in {"Resolved", "Chargeback"} THEN "TransactionNotDisputed"
  ELSE "Ok"

(* Faulty variant: the id stays in its old set.                            *)
MovedKeepingOld(ids, state, id, from, to) == ids \cup {t \in {id} : to = state}

(* The set of the ids in one state, after id has moved between two states. *)
Moved(ids, state, id, from, to) ==
  (ids \ {t \in {id} : from = state}) \cup {t \in {id} : to = state}

(* ExecuteTransition::execute: the id leaves the set of its old state, is  *)
(* put in the set of the new one, and the map records the new state.       *)
Execute(acc, id, from, to) ==
  [acc EXCEPT
     !.normal       = Moved(@, "Normal", id, from, to),
     !.disputes     = Moved(@, "Disputed", id, from, to),
     !.resolves     = Moved(@, "Resolved", id, from, to),
     !.chargebacks  = Moved(@, "Chargeback", id, from, to),
     !.transactions = [@ EXCEPT ![id].state = to]]

(* An unknown id, or the verdict of CanTransition on its recorded state.   *)
DoTransition(acc, id, to) ==
  IF id \notin DOMAIN acc.transactions
  THEN "InvalidTransaction"
  ELSE CanTransition(acc.transactions[id].state, to)

-----------------------------------------------------------------------------
(***************************************************************************)
(* The five methods.  Each is a result, the first early return that        *)
(* applies or "Ok", and the effect of the method when the result is "Ok".  *)
(***************************************************************************)

(* Faulty variant: the lock is not looked at.                              *)
SharedPrestepUnguarded(acc) == "Ok"

SharedPrestep(acc) == IF acc.locked THEN "AccountLocked" ELSE "Ok"

Recorded(acc, msg) ==
  [t \in DOMAIN acc.transactions \cup {msg.transaction_id} |->
     IF t = msg.transaction_id
     THEN [state |-> "Normal", message |-> msg]
     ELSE acc.transactions[t]]

(* Faulty variant: a second deposit with the same identifier is taken.     *)
DepositResultDuplicate(acc, msg) ==
  IF SharedPrestep(acc) # "Ok" THEN SharedPrestep(acc)
  ELSE IF ~ (msg.amount > 0) THEN "AmountNegative"
  ELSE "Ok"

DepositResult(acc, msg) ==
  IF SharedPrestep(acc) # "Ok" THEN SharedPrestep(acc)
  ELSE IF ~ (msg.amount > 0) THEN "AmountNegative"
  ELSE IF msg.transaction_id \in DOMAIN acc.transactions THEN "DuplicateTransaction"
  ELSE "Ok"

DepositEffect(acc, msg) ==
  [acc EXCEPT !.transactions = Recorded(acc, msg),
              !.normal       = @ \cup {msg.transaction_id},
              !.available    = @ + msg.amount,
              !.total        = @ + msg.amount]

(* Faulty variant: the balance is not looked at.                           *)
WithdrawalResultOverdraft(acc, msg) ==
  IF SharedPrestep(acc) # "Ok" THEN SharedPrestep(acc)
  ELSE IF ~ (msg.amount > 0) THEN "AmountNegative"
  ELSE IF msg.transaction_id \in DOMAIN acc.transactions THEN "DuplicateTransaction"
  ELSE "Ok"

WithdrawalResult(acc, msg) ==
  IF SharedPrestep(acc) # "Ok" THEN SharedPrestep(acc)
  ELSE IF ~ (msg.amount > 0) THEN "AmountNegative"
  ELSE IF msg.transaction_id \in DOMAIN acc.transactions THEN "DuplicateTransaction"
  ELSE IF acc.available < msg.amount THEN "InsufficientBalance"
  ELSE "Ok"

WithdrawalEffect(acc, msg) ==
  [acc EXCEPT !.transactions = Recorded(acc, msg),
              !.normal       = @ \cup {msg.transaction_id},
              !.available    = @ - msg.amount,
              !.total        = @ - msg.amount]

(* What dispute, resolve and chargeback check before they move any money.  *)
TransitionResult(acc, msg, to) ==
  IF SharedPrestep(acc) # "Ok" THEN SharedPrestep(acc)
  ELSE DoTransition(acc, msg.transaction_id, to)

(* Faulty variant: the amount of the message that refers to it.            *)
StoredAmountOfMessage(acc, msg) == msg.amount

(* The amount they move: the recorded one, whatever the message says.      *)
StoredAmount(acc, msg) == acc.transactions[msg.transaction_id].message.amount

StoredState(acc, msg) == acc.transactions[msg.transaction_id].state

(* Faulty variant: the dispute is recorded in the place of what it         *)
(* disputes.                                                               *)
DisputeEffectRecorded(acc, msg) ==
  LET amount == StoredAmount(acc, msg)
      moved  == [acc EXCEPT !.available = @ - amount, !.held = @ + amount,
                            !.transactions[msg.transaction_id].message = msg]
  IN  Execute(moved, msg.transaction_id, StoredState(acc, msg), "Disputed")

DisputeEffect(acc, msg) ==
  LET amount == StoredAmount(acc, msg)
      moved  == [acc EXCEPT !.available = @ - amount, !.held = @ + amount]
  IN  Execute(moved, msg.transaction_id, StoredState(acc, msg), "Disputed")

ResolveEffect(acc, msg) ==
  LET amount == StoredAmount(acc, msg)
      moved  == [acc EXCEPT !.held = @ - amount, !.available = @ + amount]
  IN  Execute(moved, msg.transaction_id, StoredState(acc, msg), "Resolved")

ChargebackEffect(acc, msg) ==
  LET amount == StoredAmount(acc, msg)
      moved  == [acc EXCEPT !.held = @ - amount, !.total = @ - amount, !.locked = TRUE]
  IN  Execute(moved, msg.transaction_id, StoredState(acc, msg), "Chargeback")

(* The dispatch on the type of the message (Service::handle_buffer).       *)
ProcessResult(acc, msg) ==
  CASE msg.transaction_type = "Deposit"    -> DepositResult(acc, msg)
    [] msg.transaction_type = "Withdrawal" -> WithdrawalResult(acc, msg)
    [] msg.transaction_type = "Dispute"    -> TransitionResult(acc, msg, "Disputed")
    [] msg.transaction_type = "Resolve"    -> TransitionResult(acc, msg, "Resolved")
    [] msg.transaction_type = "Chargeback" -> TransitionResult(acc, msg, "Chargeback")

ProcessEffect(acc, msg) ==
  CASE msg.transaction_type = "Deposit"    -> DepositEffect(acc, msg)
    [] msg.transaction_type = "Withdrawal" -> WithdrawalEffect(acc, msg)
    [] msg.transaction_type = "Dispute"    -> DisputeEffect(acc, msg)
    [] msg.transaction_type = "Resolve"    -> ResolveEffect(acc, msg)
    [] msg.transaction_type = "Chargeback" -> ChargebackEffect(acc, msg)

(* The account after the message: an early return leaves it as it was.     *)
Processed(acc, msg) ==
  IF ProcessResult(acc, msg) = "Ok" THEN ProcessEffect(acc, msg) ELSE acc

-----------------------------------------------------------------------------
(***************************************************************************)
(* check_invariants: the assertions the debug build evaluates before and   *)
(* after every message.                                                    *)
(***************************************************************************)

(* The amount of each transaction in one of the given states.              *)
Shares(acc, states) ==
  [t \in TransactionId |->
     IF t \in DOMAIN acc.transactions /\ acc.transactions[t].state \in states
     THEN acc.transactions[t].message.amount
     ELSE 0]

SumInStates(acc, states) == SumUpTo(Shares(acc, states), MaxTransactionId)

BalanceAssertions(acc) ==
  /\ acc.total >= 0 \/ acc.locked
  /\ acc.total = acc.available + acc.held

(* The set in which a transaction with the given state belongs.            *)
StateSet(acc, state) ==
  CASE state = "Normal"     -> acc.normal
    [] state = "Disputed"   -> acc.disputes
    [] state = "Resolved"   -> acc.resolves
    [] state = "Chargeback" -> acc.chargebacks

(* Each transaction is in the set of its state and in no other, each set   *)
(* holds recorded ids only, and the sizes add up.                          *)
MembershipAssertions(acc) ==
  LET ids == DOMAIN acc.transactions IN
  /\ \A t \in ids, state \in TransactionState :
       t \in StateSet(acc, state) <=> acc.transactions[t].state = state
  /\ \A state \in TransactionState : StateSet(acc, state) \subseteq ids
  /\ Cardinality(acc.normal) + Cardinality(acc.disputes)
       + Cardinality(acc.resolves) + Cardinality(acc.chargebacks) = Cardinality(ids)
  /\ \A s1, s2 \in TransactionState :
       s1 # s2 => StateSet(acc, s1) \cap StateSet(acc, s2) = {}

LockAssertion(acc) == acc.locked => acc.chargebacks # {}

HeldAssertion(acc) == acc.held = SumInStates(acc, {"Disputed"})

CheckInvariants(acc) ==
  /\ BalanceAssertions(acc)
  /\ MembershipAssertions(acc)
  /\ LockAssertion(acc)
  /\ HeldAssertion(acc)

-----------------------------------------------------------------------------
(***************************************************************************)
(* The inductive invariant of an account: what every method preserves.  It *)
(* says of each set which ids it holds, not only that the four are a       *)
(* partition, and it keeps two facts that check_invariants does not have:  *)
(* amounts on record are positive, and the debt is what was charged back.  *)
(***************************************************************************)
RecordsSound(acc) ==
  \A t \in DOMAIN acc.transactions :
    LET msg == acc.transactions[t].message IN
    /\ msg.transaction_type \in {"Deposit", "Withdrawal"}
    /\ msg.transaction_id = t
    /\ msg.amount > 0

SetsSound(acc) ==
  LET InState(s) == {t \in DOMAIN acc.transactions : acc.transactions[t].state = s} IN
  /\ acc.normal = InState("Normal")
  /\ acc.disputes = InState("Disputed")
  /\ acc.resolves = InState("Resolved")
  /\ acc.chargebacks = InState("Chargeback")

LockSound(acc) ==
  /\ acc.locked <=> acc.chargebacks # {}
  /\ \A s, t \in acc.chargebacks : s = t

BalanceSound(acc) ==
  /\ acc.total = acc.available + acc.held
  /\ acc.held = SumInStates(acc, {"Disputed"})
  /\ acc.total + SumInStates(acc, {"Chargeback"}) >= 0

Sound(acc) ==
  /\ IsAccount(acc)
  /\ RecordsSound(acc)
  /\ SetsSound(acc)
  /\ LockSound(acc)
  /\ BalanceSound(acc)

-----------------------------------------------------------------------------
(***************************************************************************)
(* What transactions add up to, one by one, for the properties about       *)
(* modules that keep an account per client.                                *)
(***************************************************************************)

(* The accounts acc after one more transaction.                            *)
AfterTransaction(acc, tx) ==
  [c \in DOMAIN acc \cup {tx.client_id} |->
     IF c = tx.client_id
     THEN Processed(IF c \in DOMAIN acc THEN acc[c] ELSE NewAccount, tx.message)
     ELSE acc[c]]

(* The accounts after each number of transactions, up to the first n.      *)
AccountsAfter(txs, n) ==
  LET after[i \in 0 .. n] ==
        IF i = 0 THEN [c \in {} |-> NewAccount] ELSE AfterTransaction(after[i - 1], txs[i])
  IN  after

=============================================================================
