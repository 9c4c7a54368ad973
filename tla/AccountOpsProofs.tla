------------------------- MODULE AccountOpsProofs -------------------------
(***************************************************************************)
(* Proofs about the operators of AccountOps, for every range of            *)
(* identifiers and every set of amounts.  They hold of one account that is *)
(* called on its own (AccountProofs) and of each account that the service  *)
(* keeps (ServiceProofs).                                                  *)
(***************************************************************************)
EXTENDS AccountOps, SumTheorems, FiniteSetTheorems, TLAPS

-----------------------------------------------------------------------------
(***************************************************************************)
(* Sums over the transactions map.                                         *)
(***************************************************************************)

(* The terms of the sums are natural numbers.                              *)
LEMMA SharesType ==
  ASSUME NEW acc, IsAccount(acc), RecordsSound(acc), NEW states
  PROVE  \A t \in 0 .. MaxTransactionId : Shares(acc, states)[t] \in Nat
<1>1. SUFFICES ASSUME NEW t \in TransactionId PROVE Shares(acc, states)[t] \in Nat
  BY DEF TransactionId
<1>2. CASE t \in DOMAIN acc.transactions
  <2>1. acc.transactions[t].message.amount \in Int
    BY <1>2, AmountsAssumption DEF IsAccount, TransactionRecord, InputMessage
  <2>2. acc.transactions[t].message.amount > 0
    BY <1>2 DEF RecordsSound
  <2>3. QED
    BY <2>1, <2>2 DEF Shares
<1>3. CASE t \notin DOMAIN acc.transactions
  BY <1>3 DEF Shares
<1>4. QED
  BY <1>2, <1>3

(* The sums are natural numbers.                                           *)
LEMMA SumInStatesType ==
  ASSUME NEW acc, IsAccount(acc), RecordsSound(acc), NEW states
  PROVE  SumInStates(acc, states) \in Nat
BY SharesType, SumIsNat, MaxTransactionIdAssumption DEF SumInStates

(* A sum over states in which there is no transaction is zero.             *)
LEMMA SumInNoState ==
  ASSUME NEW acc, NEW states,
         \A t \in DOMAIN acc.transactions : acc.transactions[t].state \notin states
  PROVE  SumInStates(acc, states) = 0
<1>1. \A t \in 0 .. MaxTransactionId : Shares(acc, states)[t] = 0
  BY DEF Shares, TransactionId
<1>2. QED
  BY <1>1, SumOfZeros, MaxTransactionIdAssumption DEF SumInStates

(* A transaction that is recorded, in state Normal, adds to no other sum.  *)
LEMMA SumAfterRecord ==
  ASSUME NEW acc, NEW msg,
         msg.transaction_id \notin DOMAIN acc.transactions,
         NEW new, new.transactions = Recorded(acc, msg),
         NEW states, "Normal" \notin states
  PROVE  SumInStates(new, states) = SumInStates(acc, states)
<1>1. ASSUME NEW t \in TransactionId
      PROVE  Shares(new, states)[t] = Shares(acc, states)[t]
  BY DEF Shares, Recorded
<1>2. Shares(new, states) = Shares(acc, states)
  BY <1>1 DEF Shares
<1>3. QED
  BY <1>2 DEF SumInStates

(* A transaction that changes state takes its amount from the one sum to   *)
(* the other.                                                              *)
LEMMA SumAfterMove ==
  ASSUME NEW acc, IsAccount(acc), RecordsSound(acc),
         NEW new, IsAccount(new), RecordsSound(new),
         NEW id \in DOMAIN acc.transactions,
         NEW to,
         new.transactions = [acc.transactions EXCEPT ![id].state = to],
         NEW states
  PROVE  LET amount == acc.transactions[id].message.amount
             from   == acc.transactions[id].state IN
         SumInStates(new, states) = SumInStates(acc, states)
           + ((IF to \in states THEN amount ELSE 0) - (IF from \in states THEN amount ELSE 0))
<1>1. id \in TransactionId /\ id \in 0 .. MaxTransactionId
  BY DEF IsAccount, TransactionId
<1>2. acc.transactions \in [DOMAIN acc.transactions -> TransactionRecord]
  BY DEF IsAccount
<1>3. new.transactions[id].state = to
      /\ new.transactions[id].message = acc.transactions[id].message
      /\ DOMAIN new.transactions = DOMAIN acc.transactions
  BY <1>2 DEF TransactionRecord
<1>4. ASSUME NEW t \in TransactionId, t # id
      PROVE  Shares(new, states)[t] = Shares(acc, states)[t]
  BY <1>2, <1>4 DEF Shares
<1>5. Shares(new, states)[id] = (IF to \in states THEN acc.transactions[id].message.amount ELSE 0)
  BY <1>1, <1>3 DEF Shares
<1>6. Shares(acc, states)[id]
        = (IF acc.transactions[id].state \in states THEN acc.transactions[id].message.amount ELSE 0)
  BY <1>1 DEF Shares
<1>7. /\ \A t \in 0 .. MaxTransactionId : Shares(acc, states)[t] \in Int
      /\ \A t \in 0 .. MaxTransactionId : Shares(new, states)[t] \in Int
  BY SharesType
<1>8. \A t \in 0 .. MaxTransactionId : t # id => Shares(new, states)[t] = Shares(acc, states)[t]
  BY <1>4 DEF TransactionId
<1>9. SumInStates(new, states)
        = SumInStates(acc, states) + (Shares(new, states)[id] - Shares(acc, states)[id])
  BY <1>1, <1>7, <1>8, SumUpdate, MaxTransactionIdAssumption DEF SumInStates
<1>10. QED
  BY <1>5, <1>6, <1>9

-----------------------------------------------------------------------------
(***************************************************************************)
(* Each method preserves Sound.                                            *)
(***************************************************************************)

LEMMA NewAccountSound == Sound(NewAccount)
<1>1. IsAccount(NewAccount)
  BY DEF IsAccount, NewAccount
<1>2. DOMAIN NewAccount.transactions = {}
  BY DEF NewAccount
<1>3. RecordsSound(NewAccount) /\ SetsSound(NewAccount) /\ LockSound(NewAccount)
  BY <1>2 DEF RecordsSound, SetsSound, LockSound, NewAccount
<1>4. SumInStates(NewAccount, {"Disputed"}) = 0 /\ SumInStates(NewAccount, {"Chargeback"}) = 0
  BY <1>2, SumInNoState
<1>5. BalanceSound(NewAccount)
  BY <1>4 DEF BalanceSound, NewAccount
<1>6. QED
  BY <1>1, <1>3, <1>5 DEF Sound

(* While an account is not locked nothing was charged back.                *)
LEMMA UnlockedNoChargeback ==
  ASSUME NEW acc, Sound(acc), ~ acc.locked
  PROVE  /\ acc.chargebacks = {}
         /\ SumInStates(acc, {"Chargeback"}) = 0
         /\ acc.total >= 0
<1>1. acc.chargebacks = {}
  BY DEF Sound, LockSound
<1>2. \A t \in DOMAIN acc.transactions : acc.transactions[t].state \notin {"Chargeback"}
  BY <1>1 DEF Sound, SetsSound
<1>3. SumInStates(acc, {"Chargeback"}) = 0
  BY <1>2, SumInNoState
<1>4. acc.total \in Int
  BY DEF Sound, IsAccount
<1>5. QED
  BY <1>1, <1>3, <1>4 DEF Sound, BalanceSound

(* Deposit and withdrawal: a new Normal transaction and new balances.      *)
LEMMA RecordSound ==
  ASSUME NEW acc, Sound(acc), ~ acc.locked,
         NEW msg \in InputMessage,
         msg.transaction_type \in {"Deposit", "Withdrawal"},
         msg.amount > 0,
         msg.transaction_id \notin DOMAIN acc.transactions,
         NEW new, IsAccount(new),
         new.transactions = Recorded(acc, msg),
         new.normal = acc.normal \cup {msg.transaction_id},
         new.disputes = acc.disputes,
         new.resolves = acc.resolves,
         new.chargebacks = acc.chargebacks,
         new.held = acc.held,
         new.total = new.available + acc.held, new.total >= 0,
         ~ new.locked
  PROVE  Sound(new)
<1>1. /\ DOMAIN new.transactions = DOMAIN acc.transactions \cup {msg.transaction_id}
      /\ new.transactions[msg.transaction_id] = [state |-> "Normal", message |-> msg]
      /\ \A t \in DOMAIN acc.transactions : new.transactions[t] = acc.transactions[t]
  BY DEF Recorded
<1>2. RecordsSound(new)
  BY <1>1 DEF Sound, RecordsSound
<1>3. SetsSound(new)
  BY <1>1 DEF Sound, SetsSound
<1>4. LockSound(new)
  BY DEF Sound, LockSound
<1>5. ASSUME NEW states, "Normal" \notin states
      PROVE  SumInStates(new, states) = SumInStates(acc, states)
  BY <1>5, SumAfterRecord
<1>6. BalanceSound(new)
  <2>1. SumInStates(new, {"Chargeback"}) = 0
    BY <1>5, UnlockedNoChargeback
  <2>2. SumInStates(new, {"Disputed"}) = acc.held
    BY <1>5 DEF Sound, BalanceSound
  <2>3. QED
    BY <2>1, <2>2 DEF BalanceSound, IsAccount
<1>7. QED
  BY <1>2, <1>3, <1>4, <1>6 DEF Sound

(* IsAccount without what it says of the map.                              *)
AccountWith(maps) ==
  [ available : Int, held : Int, total : Int, locked : BOOLEAN, transactions : maps,
    normal : SUBSET TransactionId, disputes : SUBSET TransactionId,
    resolves : SUBSET TransactionId, chargebacks : SUBSET TransactionId ]

LEMMA AccountWithRecorded ==
  ASSUME NEW maps, NEW acc \in AccountWith(maps), NEW newMaps, NEW map \in newMaps,
         NEW normal \in SUBSET TransactionId, NEW available \in Int, NEW total \in Int
  PROVE  [acc EXCEPT !.transactions = map, !.normal = normal,
                     !.available = available, !.total = total] \in AccountWith(newMaps)
BY DEF AccountWith

(* The map that a deposit or a withdrawal leaves behind has the right type.*)
LEMMA RecordedType ==
  ASSUME NEW acc, IsAccount(acc), NEW msg \in InputMessage
  PROVE  /\ DOMAIN Recorded(acc, msg) \subseteq TransactionId
         /\ Recorded(acc, msg) \in [DOMAIN Recorded(acc, msg) -> TransactionRecord]
<1>1. [state |-> "Normal", message |-> msg] \in TransactionRecord
  BY DEF TransactionRecord, TransactionState
<1>2. msg.transaction_id \in TransactionId
  BY DEF InputMessage
<1>3. \A t \in DOMAIN acc.transactions : acc.transactions[t] \in TransactionRecord
  BY DEF IsAccount
<1>4. QED
  BY <1>1, <1>2, <1>3 DEF Recorded, IsAccount

LEMMA DepositSound ==
  ASSUME NEW acc, Sound(acc), NEW msg \in InputMessage,
         msg.transaction_type = "Deposit", DepositResult(acc, msg) = "Ok"
  PROVE  Sound(DepositEffect(acc, msg))
<1> DEFINE new == DepositEffect(acc, msg)
<1>1. /\ ~ acc.locked
      /\ msg.amount > 0
      /\ msg.transaction_id \notin DOMAIN acc.transactions
  BY DEF DepositResult, SharedPrestep
<1>2. msg.amount \in Int /\ msg.transaction_id \in TransactionId
  BY AmountsAssumption DEF InputMessage
<1>3. /\ new.transactions = Recorded(acc, msg)
      /\ new.normal = acc.normal \cup {msg.transaction_id}
      /\ new.disputes = acc.disputes
      /\ new.resolves = acc.resolves
      /\ new.chargebacks = acc.chargebacks
      /\ new.held = acc.held
      /\ new.available = acc.available + msg.amount
      /\ new.total = acc.total + msg.amount
      /\ new.locked = acc.locked
  BY DEF DepositEffect, Sound, IsAccount
<1>4. IsAccount(new)
  <2>1. /\ DOMAIN Recorded(acc, msg) \subseteq TransactionId
        /\ Recorded(acc, msg) \in [DOMAIN Recorded(acc, msg) -> TransactionRecord]
    BY RecordedType DEF Sound
  <2>2. acc \in AccountWith({acc.transactions})
    BY DEF Sound, IsAccount, AccountWith
  <2>3. new \in AccountWith([DOMAIN Recorded(acc, msg) -> TransactionRecord])
    <3>1. /\ acc.normal \cup {msg.transaction_id} \in SUBSET TransactionId
          /\ acc.available + msg.amount \in Int
          /\ acc.total + msg.amount \in Int
      BY <1>2, <2>2 DEF AccountWith
    <3>2. QED
      BY <2>1, <2>2, <3>1, AccountWithRecorded DEF DepositEffect
  <2>4. QED
    BY <1>3, <2>1, <2>3 DEF IsAccount, AccountWith
<1>5. acc.total = acc.available + acc.held /\ acc.total >= 0
  BY <1>1, UnlockedNoChargeback DEF Sound, BalanceSound
<1>6. new.total = new.available + acc.held /\ new.total >= 0
  BY <1>1, <1>2, <1>3, <1>5 DEF Sound, IsAccount
<1>7. QED
  <2> HIDE DEF new
  <2>1. Sound(new)
    BY <1>1, <1>3, <1>4, <1>6, RecordSound
  <2>2. QED
    BY <2>1 DEF new

LEMMA WithdrawalSound ==
  ASSUME NEW acc, Sound(acc), NEW msg \in InputMessage,
         msg.transaction_type = "Withdrawal", WithdrawalResult(acc, msg) = "Ok"
  PROVE  Sound(WithdrawalEffect(acc, msg))
<1> DEFINE new == WithdrawalEffect(acc, msg)
<1>1. /\ ~ acc.locked
      /\ msg.amount > 0
      /\ msg.transaction_id \notin DOMAIN acc.transactions
      /\ ~ (acc.available < msg.amount)
  BY DEF WithdrawalResult, SharedPrestep
<1>2. msg.amount \in Int /\ msg.transaction_id \in TransactionId
  BY AmountsAssumption DEF InputMessage
<1>3. /\ new.transactions = Recorded(acc, msg)
      /\ new.normal = acc.normal \cup {msg.transaction_id}
      /\ new.disputes = acc.disputes
      /\ new.resolves = acc.resolves
      /\ new.chargebacks = acc.chargebacks
      /\ new.held = acc.held
      /\ new.available = acc.available - msg.amount
      /\ new.total = acc.total - msg.amount
      /\ new.locked = acc.locked
  BY DEF WithdrawalEffect, Sound, IsAccount
<1>4. IsAccount(new)
  <2>1. /\ DOMAIN Recorded(acc, msg) \subseteq TransactionId
        /\ Recorded(acc, msg) \in [DOMAIN Recorded(acc, msg) -> TransactionRecord]
    BY RecordedType DEF Sound
  <2>2. acc \in AccountWith({acc.transactions})
    BY DEF Sound, IsAccount, AccountWith
  <2>3. new \in AccountWith([DOMAIN Recorded(acc, msg) -> TransactionRecord])
    <3>1. /\ acc.normal \cup {msg.transaction_id} \in SUBSET TransactionId
          /\ acc.available - msg.amount \in Int
          /\ acc.total - msg.amount \in Int
      BY <1>2, <2>2 DEF AccountWith
    <3>2. QED
      BY <2>1, <2>2, <3>1, AccountWithRecorded DEF WithdrawalEffect
  <2>4. QED
    BY <1>3, <2>1, <2>3 DEF IsAccount, AccountWith
<1>5. acc.held \in Nat
  BY SumInStatesType DEF Sound, BalanceSound
<1>6. acc.total = acc.available + acc.held
  BY DEF Sound, BalanceSound
<1>7. new.total = new.available + acc.held /\ new.total >= 0
  BY <1>1, <1>2, <1>3, <1>5, <1>6 DEF Sound, IsAccount
<1>8. QED
  <2> HIDE DEF new
  <2>1. Sound(new)
    BY <1>1, <1>3, <1>4, <1>7, RecordSound
  <2>2. QED
    BY <2>1 DEF new

(* What ExecuteTransition::execute makes of each field.                    *)
Executed(new, acc, id, from, to) ==
  /\ new \in AccountWith({[acc.transactions EXCEPT ![id].state = to]})
  /\ new.transactions = [acc.transactions EXCEPT ![id].state = to]
  /\ new.normal = Moved(acc.normal, "Normal", id, from, to)
  /\ new.disputes = Moved(acc.disputes, "Disputed", id, from, to)
  /\ new.resolves = Moved(acc.resolves, "Resolved", id, from, to)
  /\ new.chargebacks = Moved(acc.chargebacks, "Chargeback", id, from, to)
  /\ new.available = acc.available
  /\ new.held = acc.held
  /\ new.total = acc.total
  /\ new.locked = acc.locked

LEMMA ExecuteFields ==
  ASSUME NEW maps, NEW acc \in AccountWith(maps),
         NEW id \in TransactionId, NEW from, NEW to
  PROVE  Executed(Execute(acc, id, from, to), acc, id, from, to)
<1>1. ASSUME NEW ids \in SUBSET TransactionId, NEW state
      PROVE  Moved(ids, state, id, from, to) \in SUBSET TransactionId
  BY DEF Moved
<1>2. /\ Moved(acc.normal, "Normal", id, from, to) \in SUBSET TransactionId
      /\ Moved(acc.disputes, "Disputed", id, from, to) \in SUBSET TransactionId
      /\ Moved(acc.resolves, "Resolved", id, from, to) \in SUBSET TransactionId
      /\ Moved(acc.chargebacks, "Chargeback", id, from, to) \in SUBSET TransactionId
  BY <1>1 DEF AccountWith
<1>3. QED
  BY <1>2 DEF Execute, Executed, AccountWith

(* Dispute, resolve and chargeback: the transaction changes state and its  *)
(* set, and the balances have changed accordingly in base.                 *)
LEMMA MoveSound ==
  ASSUME NEW acc, Sound(acc), ~ acc.locked,
         NEW id \in DOMAIN acc.transactions,
         NEW from, from = acc.transactions[id].state,
         NEW to \in {"Disputed", "Resolved", "Chargeback"},
         from \in {"Normal", "Disputed"}, from # to,
         NEW amount, amount = acc.transactions[id].message.amount,
         NEW base \in AccountWith({acc.transactions}),
         base.normal = acc.normal,
         base.disputes = acc.disputes,
         base.resolves = acc.resolves,
         base.chargebacks = acc.chargebacks,
         base.total = base.available + base.held,
         base.held = acc.held + ((IF to = "Disputed" THEN amount ELSE 0)
                                   - (IF from = "Disputed" THEN amount ELSE 0)),
         base.total + (IF to = "Chargeback" THEN amount ELSE 0) >= 0,
         base.locked <=> to = "Chargeback"
  PROVE  Sound(Execute(base, id, from, to))
<1> DEFINE new == Execute(base, id, from, to)
           map == [acc.transactions EXCEPT ![id].state = to]
<1>1. id \in TransactionId /\ base.transactions = acc.transactions
  BY DEF Sound, IsAccount, AccountWith
<1>2. /\ new \in AccountWith({map})
      /\ new.transactions = map
      /\ new.normal = Moved(acc.normal, "Normal", id, from, to)
      /\ new.disputes = Moved(acc.disputes, "Disputed", id, from, to)
      /\ new.resolves = Moved(acc.resolves, "Resolved", id, from, to)
      /\ new.chargebacks = Moved(acc.chargebacks, "Chargeback", id, from, to)
      /\ new.available = base.available
      /\ new.held = base.held
      /\ new.total = base.total
      /\ new.locked = base.locked
  <2>1. Executed(new, base, id, from, to)
    BY <1>1, ExecuteFields
  <2>2. QED
    BY <1>1, <2>1 DEF Executed
<1> HIDE DEF new
<1>3. /\ acc.transactions \in [DOMAIN acc.transactions -> TransactionRecord]
      /\ DOMAIN acc.transactions \subseteq TransactionId
  BY DEF Sound, IsAccount
<1>4. /\ map \in [DOMAIN acc.transactions -> TransactionRecord]
      /\ map[id].state = to
      /\ map[id].message = acc.transactions[id].message
      /\ \A t \in DOMAIN acc.transactions : t # id => map[t] = acc.transactions[t]
  BY <1>3 DEF TransactionRecord, TransactionState
<1> HIDE DEF map
<1>5. IsAccount(new)
  BY <1>2, <1>3, <1>4 DEF IsAccount, AccountWith
<1>6. RecordsSound(new)
  BY <1>2, <1>4 DEF Sound, RecordsSound
<1>7. SetsSound(new)
  <2>1. SetsSound(acc)
    BY DEF Sound
  <2>2. DOMAIN new.transactions = DOMAIN acc.transactions
    BY <1>2, <1>4
  <2>3. new.normal = {t \in DOMAIN new.transactions : new.transactions[t].state = "Normal"}
    BY <1>2, <1>4, <2>1, <2>2 DEF SetsSound, Moved
  <2>4. new.disputes = {t \in DOMAIN new.transactions : new.transactions[t].state = "Disputed"}
    BY <1>2, <1>4, <2>1, <2>2 DEF SetsSound, Moved
  <2>5. new.resolves = {t \in DOMAIN new.transactions : new.transactions[t].state = "Resolved"}
    BY <1>2, <1>4, <2>1, <2>2 DEF SetsSound, Moved
  <2>6. new.chargebacks = {t \in DOMAIN new.transactions : new.transactions[t].state = "Chargeback"}
    BY <1>2, <1>4, <2>1, <2>2 DEF SetsSound, Moved
  <2>7. QED
    BY <2>3, <2>4, <2>5, <2>6 DEF SetsSound
<1>8. LockSound(new)
  <2>1. acc.chargebacks = {}
    BY UnlockedNoChargeback
  <2>2. new.chargebacks = IF to = "Chargeback" THEN {id} ELSE {}
    BY <1>2, <2>1 DEF Moved
  <2>3. QED
    BY <1>2, <2>2 DEF LockSound
<1>9. BalanceSound(new)
  <2>1. ASSUME NEW states
        PROVE  SumInStates(new, states) = SumInStates(acc, states)
                 + ((IF to \in states THEN amount ELSE 0) - (IF from \in states THEN amount ELSE 0))
    BY <1>2, <1>5, <1>6, SumAfterMove DEF Sound, map
  <2>2. SumInStates(new, {"Disputed"}) = base.held
    BY <2>1 DEF Sound, BalanceSound
  <2>3. SumInStates(new, {"Chargeback"}) = IF to = "Chargeback" THEN amount ELSE 0
    <3>1. amount \in Int
      BY <1>3, AmountsAssumption DEF TransactionRecord, InputMessage
    <3>2. SumInStates(acc, {"Chargeback"}) = 0
      BY UnlockedNoChargeback
    <3>3. QED
      BY <2>1, <3>1, <3>2
  <2>4. QED
    BY <1>2, <2>2, <2>3 DEF BalanceSound
<1>10. QED
  BY <1>5, <1>6, <1>7, <1>8, <1>9 DEF Sound, new

(* The transitions that CanTransition lets through.                        *)
LEMMA TransitionAllowed ==
  ASSUME NEW acc, Sound(acc), NEW msg \in InputMessage,
         NEW to \in {"Disputed", "Resolved", "Chargeback"},
         TransitionResult(acc, msg, to) = "Ok"
  PROVE  /\ ~ acc.locked
         /\ msg.transaction_id \in DOMAIN acc.transactions
         /\ acc.transactions[msg.transaction_id].state
              = IF to = "Disputed" THEN "Normal" ELSE "Disputed"
<1>1. ~ acc.locked
  BY DEF TransitionResult, SharedPrestep
<1>2. DoTransition(acc, msg.transaction_id, to) = "Ok"
  BY <1>1 DEF TransitionResult, SharedPrestep
<1>3. msg.transaction_id \in DOMAIN acc.transactions
  BY <1>2 DEF DoTransition
<1>4. CanTransition(acc.transactions[msg.transaction_id].state, to) = "Ok"
  BY <1>2, <1>3 DEF DoTransition
<1>5. acc.transactions[msg.transaction_id].state \in TransactionState
  BY <1>3 DEF Sound, IsAccount, TransactionRecord
<1>6. QED
  BY <1>1, <1>3, <1>4, <1>5 DEF CanTransition, TransactionState

LEMMA AccountWithBalances ==
  ASSUME NEW maps, NEW acc \in AccountWith(maps),
         NEW available \in Int, NEW held \in Int, NEW total \in Int
  PROVE  /\ [acc EXCEPT !.available = available, !.held = held] \in AccountWith(maps)
         /\ [acc EXCEPT !.held = held, !.available = available] \in AccountWith(maps)
         /\ [acc EXCEPT !.held = held, !.total = total, !.locked = TRUE] \in AccountWith(maps)
BY DEF AccountWith

LEMMA StoredAmountType ==
  ASSUME NEW acc, Sound(acc), NEW msg, msg.transaction_id \in DOMAIN acc.transactions
  PROVE  StoredAmount(acc, msg) \in Int
BY AmountsAssumption DEF StoredAmount, Sound, IsAccount, TransactionRecord, InputMessage

LEMMA DisputeSound ==
  ASSUME NEW acc, Sound(acc), NEW msg \in InputMessage,
         TransitionResult(acc, msg, "Disputed") = "Ok"
  PROVE  Sound(DisputeEffect(acc, msg))
<1> DEFINE id == msg.transaction_id
           from == StoredState(acc, msg)
           amount == StoredAmount(acc, msg)
           base == [acc EXCEPT !.available = @ - amount, !.held = @ + amount]
<1>1. ~ acc.locked /\ id \in DOMAIN acc.transactions /\ from = "Normal"
  BY TransitionAllowed DEF StoredState
<1>2. /\ acc \in AccountWith({acc.transactions})
      /\ acc.total = acc.available + acc.held
      /\ acc.total >= 0
  BY <1>1, UnlockedNoChargeback DEF Sound, IsAccount, AccountWith, BalanceSound
<1>3. amount \in Int
  BY <1>1, StoredAmountType
<1>4. base \in AccountWith({acc.transactions})
  <2> HIDE DEF amount
  <2>1. /\ acc.available - amount \in Int /\ acc.available + amount \in Int
        /\ acc.held - amount \in Int /\ acc.held + amount \in Int
        /\ acc.total - amount \in Int
    BY <1>2, <1>3 DEF AccountWith
  <2>2. QED
    BY <1>2, <2>1, AccountWithBalances
<1>5. /\ base.normal = acc.normal
      /\ base.disputes = acc.disputes
      /\ base.resolves = acc.resolves
      /\ base.chargebacks = acc.chargebacks
      /\ base.available = acc.available - amount
      /\ base.held = acc.held + amount
      /\ base.total = acc.total
      /\ base.locked <=> FALSE
  BY <1>1, <1>2 DEF AccountWith
<1>6. /\ acc.available \in Int /\ acc.held \in Int /\ acc.total \in Int
      /\ from = acc.transactions[id].state
      /\ amount = acc.transactions[id].message.amount
  BY <1>2 DEF AccountWith, StoredState, StoredAmount
<1>7. DisputeEffect(acc, msg) = Execute(base, id, from, "Disputed")
  BY DEF DisputeEffect, StoredState
<1> HIDE DEF base, amount, from, id
<1>8. /\ base.total = base.available + base.held
      /\ base.held = acc.held + ((IF "Disputed" = "Disputed" THEN amount ELSE 0)
                                   - (IF from = "Disputed" THEN amount ELSE 0))
      /\ base.total + (IF "Disputed" = "Chargeback" THEN amount ELSE 0) >= 0
      /\ base.locked <=> "Disputed" = "Chargeback"
      /\ from \in {"Normal", "Disputed"} /\ from # "Disputed"
  BY <1>1, <1>2, <1>3, <1>5, <1>6
<1>9. Sound(Execute(base, id, from, "Disputed"))
  BY <1>1, <1>4, <1>5, <1>6, <1>8, MoveSound
<1>10. QED
  BY <1>7, <1>9

LEMMA ResolveSound ==
  ASSUME NEW acc, Sound(acc), NEW msg \in InputMessage,
         TransitionResult(acc, msg, "Resolved") = "Ok"
  PROVE  Sound(ResolveEffect(acc, msg))
<1> DEFINE id == msg.transaction_id
           from == StoredState(acc, msg)
           amount == StoredAmount(acc, msg)
           base == [acc EXCEPT !.held = @ - amount, !.available = @ + amount]
<1>1. ~ acc.locked /\ id \in DOMAIN acc.transactions /\ from = "Disputed"
  BY TransitionAllowed DEF StoredState
<1>2. /\ acc \in AccountWith({acc.transactions})
      /\ acc.total = acc.available + acc.held
      /\ acc.total >= 0
  BY <1>1, UnlockedNoChargeback DEF Sound, IsAccount, AccountWith, BalanceSound
<1>3. amount \in Int
  BY <1>1, StoredAmountType
<1>4. base \in AccountWith({acc.transactions})
  <2> HIDE DEF amount
  <2>1. /\ acc.available - amount \in Int /\ acc.available + amount \in Int
        /\ acc.held - amount \in Int /\ acc.held + amount \in Int
        /\ acc.total - amount \in Int
    BY <1>2, <1>3 DEF AccountWith
  <2>2. QED
    BY <1>2, <2>1, AccountWithBalances
<1>5. /\ base.normal = acc.normal
      /\ base.disputes = acc.disputes
      /\ base.resolves = acc.resolves
      /\ base.chargebacks = acc.chargebacks
      /\ base.available = acc.available + amount
      /\ base.held = acc.held - amount
      /\ base.total = acc.total
      /\ base.locked <=> FALSE
  BY <1>1, <1>2 DEF AccountWith
<1>6. /\ acc.available \in Int /\ acc.held \in Int /\ acc.total \in Int
      /\ from = acc.transactions[id].state
      /\ amount = acc.transactions[id].message.amount
  BY <1>2 DEF AccountWith, StoredState, StoredAmount
<1>7. ResolveEffect(acc, msg) = Execute(base, id, from, "Resolved")
  BY DEF ResolveEffect, StoredState
<1> HIDE DEF base, amount, from, id
<1>8. /\ base.total = base.available + base.held
      /\ base.held = acc.held + ((IF "Resolved" = "Disputed" THEN amount ELSE 0)
                                   - (IF from = "Disputed" THEN amount ELSE 0))
      /\ base.total + (IF "Resolved" = "Chargeback" THEN amount ELSE 0) >= 0
      /\ base.locked <=> "Resolved" = "Chargeback"
      /\ from \in {"Normal", "Disputed"} /\ from # "Resolved"
  BY <1>1, <1>2, <1>3, <1>5, <1>6
<1>9. Sound(Execute(base, id, from, "Resolved"))
  BY <1>1, <1>4, <1>5, <1>6, <1>8, MoveSound
<1>10. QED
  BY <1>7, <1>9

LEMMA ChargebackSound ==
  ASSUME NEW acc, Sound(acc), NEW msg \in InputMessage,
         TransitionResult(acc, msg, "Chargeback") = "Ok"
  PROVE  Sound(ChargebackEffect(acc, msg))
<1> DEFINE id == msg.transaction_id
           from == StoredState(acc, msg)
           amount == StoredAmount(acc, msg)
           base == [acc EXCEPT !.held = @ - amount, !.total = @ - amount, !.locked = TRUE]
<1>1. ~ acc.locked /\ id \in DOMAIN acc.transactions /\ from = "Disputed"
  BY TransitionAllowed DEF StoredState
<1>2. /\ acc \in AccountWith({acc.transactions})
      /\ acc.total = acc.available + acc.held
      /\ acc.total >= 0
  BY <1>1, UnlockedNoChargeback DEF Sound, IsAccount, AccountWith, BalanceSound
<1>3. amount \in Int
  BY <1>1, StoredAmountType
<1>4. base \in AccountWith({acc.transactions})
  <2> HIDE DEF amount
  <2>1. /\ acc.available - amount \in Int /\ acc.available + amount \in Int
        /\ acc.held - amount \in Int /\ acc.held + amount \in Int
        /\ acc.total - amount \in Int
    BY <1>2, <1>3 DEF AccountWith
  <2>2. QED
    BY <1>2, <2>1, AccountWithBalances
<1>5. /\ base.normal = acc.normal
      /\ base.disputes = acc.disputes
      /\ base.resolves = acc.resolves
      /\ base.chargebacks = acc.chargebacks
      /\ base.available = acc.available
      /\ base.held = acc.held - amount
      /\ base.total = acc.total - amount
      /\ base.locked <=> TRUE
  BY <1>1, <1>2 DEF AccountWith
<1>6. /\ acc.available \in Int /\ acc.held \in Int /\ acc.total \in Int
      /\ from = acc.transactions[id].state
      /\ amount = acc.transactions[id].message.amount
  BY <1>2 DEF AccountWith, StoredState, StoredAmount
<1>7. ChargebackEffect(acc, msg) = Execute(base, id, from, "Chargeback")
  BY DEF ChargebackEffect, StoredState
<1> HIDE DEF base, amount, from, id
<1>8. /\ base.total = base.available + base.held
      /\ base.held = acc.held + ((IF "Chargeback" = "Disputed" THEN amount ELSE 0)
                                   - (IF from = "Disputed" THEN amount ELSE 0))
      /\ base.total + (IF "Chargeback" = "Chargeback" THEN amount ELSE 0) >= 0
      /\ base.locked <=> "Chargeback" = "Chargeback"
      /\ from \in {"Normal", "Disputed"} /\ from # "Chargeback"
  BY <1>1, <1>2, <1>3, <1>5, <1>6
<1>9. Sound(Execute(base, id, from, "Chargeback"))
  BY <1>1, <1>4, <1>5, <1>6, <1>8, MoveSound
<1>10. QED
  BY <1>7, <1>9

(* Whatever the message and its outcome, a sound account stays sound.      *)
LEMMA ProcessedSound ==
  ASSUME NEW acc, Sound(acc), NEW msg \in InputMessage
  PROVE  Sound(Processed(acc, msg))
<1>1. CASE ProcessResult(acc, msg) # "Ok"
  BY <1>1 DEF Processed
<1>2. CASE ProcessResult(acc, msg) = "Ok"
  <2>1. SUFFICES Sound(ProcessEffect(acc, msg))
    BY <1>2 DEF Processed
  <2>2. CASE msg.transaction_type = "Deposit"
    BY <1>2, <2>2, DepositSound DEF ProcessResult, ProcessEffect
  <2>3. CASE msg.transaction_type = "Withdrawal"
    BY <1>2, <2>3, WithdrawalSound DEF ProcessResult, ProcessEffect
  <2>4. CASE msg.transaction_type = "Dispute"
    BY <1>2, <2>4, DisputeSound DEF ProcessResult, ProcessEffect
  <2>5. CASE msg.transaction_type = "Resolve"
    BY <1>2, <2>5, ResolveSound DEF ProcessResult, ProcessEffect
  <2>6. CASE msg.transaction_type = "Chargeback"
    BY <1>2, <2>6, ChargebackSound DEF ProcessResult, ProcessEffect
  <2>7. QED
    BY <2>2, <2>3, <2>4, <2>5, <2>6 DEF InputMessage, TransactionType
<1>3. QED
  BY <1>1, <1>2

-----------------------------------------------------------------------------
(***************************************************************************)
(* A sound account passes check_invariants.                                *)
(***************************************************************************)

LEMMA DisjointUnion ==
  ASSUME NEW S, NEW T, IsFiniteSet(S), IsFiniteSet(T), S \cap T = {}
  PROVE  /\ IsFiniteSet(S \cup T)
         /\ Cardinality(S \cup T) = Cardinality(S) + Cardinality(T)
         /\ Cardinality(S) \in Nat /\ Cardinality(T) \in Nat
<1>1. Cardinality(S \cap T) = 0
  BY FS_EmptySet
<1>2. Cardinality(S) \in Nat /\ Cardinality(T) \in Nat
  BY FS_CardinalityType
<1>3. IsFiniteSet(S \cup T)
      /\ Cardinality(S \cup T) = Cardinality(S) + Cardinality(T) - Cardinality(S \cap T)
  BY FS_Union, Zenon
<1>4. QED
  BY <1>1, <1>2, <1>3

LEMMA SoundMembership ==
  ASSUME NEW acc, Sound(acc)
  PROVE  MembershipAssertions(acc)
<1> DEFINE ids == DOMAIN acc.transactions
<1>1. /\ acc.normal = {t \in ids : acc.transactions[t].state = "Normal"}
      /\ acc.disputes = {t \in ids : acc.transactions[t].state = "Disputed"}
      /\ acc.resolves = {t \in ids : acc.transactions[t].state = "Resolved"}
      /\ acc.chargebacks = {t \in ids : acc.transactions[t].state = "Chargeback"}
  BY DEF Sound, SetsSound
<1>2. \A t \in ids : acc.transactions[t].state \in TransactionState
  BY DEF Sound, IsAccount, TransactionRecord
<1>3. ASSUME NEW state \in TransactionState
      PROVE  StateSet(acc, state) = {t \in ids : acc.transactions[t].state = state}
  BY <1>1 DEF StateSet, TransactionState
<1>4. Cardinality(acc.normal) + Cardinality(acc.disputes)
        + Cardinality(acc.resolves) + Cardinality(acc.chargebacks) = Cardinality(ids)
  <2>1. IsFiniteSet(ids)
    <3>1. IsFiniteSet(TransactionId)
      BY FS_Interval, MaxTransactionIdAssumption DEF TransactionId
    <3>2. QED
      BY <3>1, FS_Subset DEF Sound, IsAccount
  <2>2. /\ IsFiniteSet(acc.normal) /\ IsFiniteSet(acc.disputes)
        /\ IsFiniteSet(acc.resolves) /\ IsFiniteSet(acc.chargebacks)
    <3>1. /\ acc.normal \subseteq ids /\ acc.disputes \subseteq ids
          /\ acc.resolves \subseteq ids /\ acc.chargebacks \subseteq ids
      BY <1>1
    <3>2. QED
      BY <2>1, <3>1, FS_Subset
  <2>3. /\ acc.normal \cap acc.disputes = {}
        /\ (acc.normal \cup acc.disputes) \cap acc.resolves = {}
        /\ (acc.normal \cup acc.disputes \cup acc.resolves) \cap acc.chargebacks = {}
    BY <1>1
  <2>4. ids = acc.normal \cup acc.disputes \cup acc.resolves \cup acc.chargebacks
    BY <1>1, <1>2 DEF TransactionState
  <2>5. /\ IsFiniteSet(acc.normal \cup acc.disputes)
        /\ Cardinality(acc.normal \cup acc.disputes)
             = Cardinality(acc.normal) + Cardinality(acc.disputes)
    BY <2>2, <2>3, DisjointUnion
  <2>6. /\ IsFiniteSet(acc.normal \cup acc.disputes \cup acc.resolves)
        /\ Cardinality(acc.normal \cup acc.disputes \cup acc.resolves)
             = Cardinality(acc.normal \cup acc.disputes) + Cardinality(acc.resolves)
    BY <2>2, <2>3, <2>5, DisjointUnion
  <2>7. Cardinality(acc.normal \cup acc.disputes \cup acc.resolves \cup acc.chargebacks)
          = Cardinality(acc.normal \cup acc.disputes \cup acc.resolves)
              + Cardinality(acc.chargebacks)
    BY <2>2, <2>3, <2>6, DisjointUnion
  <2>8. QED
    BY <2>4, <2>5, <2>6, <2>7
<1>5. \A t \in ids, state \in TransactionState :
        t \in StateSet(acc, state) <=> acc.transactions[t].state = state
  BY <1>3
<1>6. \A state \in TransactionState : StateSet(acc, state) \subseteq ids
  BY <1>3
<1>7. \A s1, s2 \in TransactionState :
        s1 # s2 => StateSet(acc, s1) \cap StateSet(acc, s2) = {}
  BY <1>3
<1>8. QED
  BY <1>4, <1>5, <1>6, <1>7 DEF MembershipAssertions

LEMMA SoundImpliesAssertions ==
  ASSUME NEW acc, Sound(acc)
  PROVE  CheckInvariants(acc)
<1>1. BalanceAssertions(acc)
  BY UnlockedNoChargeback DEF Sound, BalanceSound, BalanceAssertions
<1>2. LockAssertion(acc) /\ HeldAssertion(acc)
  BY DEF Sound, LockSound, BalanceSound, LockAssertion, HeldAssertion
<1>3. QED
  BY <1>1, <1>2, SoundMembership DEF CheckInvariants

-----------------------------------------------------------------------------
(***************************************************************************)
(* What a message is answered, and what it does to the map.                *)
(***************************************************************************)

LEMMA ResultType ==
  ASSUME NEW acc, Sound(acc), NEW msg \in InputMessage
  PROVE  ProcessResult(acc, msg) \in Result
BY DEF ProcessResult, DepositResult, WithdrawalResult, TransitionResult, DoTransition,
       CanTransition, SharedPrestep, Result, TransactionError, InputMessage, TransactionType

(* What a message that is answered Ok does to the map of transactions.     *)
LEMMA AcceptedMap ==
  ASSUME NEW acc, Sound(acc), NEW msg \in InputMessage, ProcessResult(acc, msg) = "Ok"
  PROVE  LET id  == msg.transaction_id
             old == acc.transactions
             map == Processed(acc, msg).transactions IN
         /\ id \in DOMAIN map
         /\ DOMAIN map = DOMAIN old \cup {id}
         /\ \A t \in DOMAIN old : t # id => map[t] = old[t]
         /\ msg.transaction_type \in {"Deposit", "Withdrawal"} =>
              id \notin DOMAIN old /\ map[id].state = "Normal"
         /\ msg.transaction_type = "Dispute" =>
              id \in DOMAIN old /\ old[id].state = "Normal" /\ map[id].state = "Disputed"
         /\ msg.transaction_type = "Resolve" =>
              id \in DOMAIN old /\ old[id].state = "Disputed" /\ map[id].state = "Resolved"
         /\ msg.transaction_type = "Chargeback" =>
              id \in DOMAIN old /\ old[id].state = "Disputed" /\ map[id].state = "Chargeback"
<1> DEFINE id == msg.transaction_id
           old == acc.transactions
           map == Processed(acc, msg).transactions
<1>1. map = ProcessEffect(acc, msg).transactions
  BY DEF Processed
<1>2. acc \in AccountWith({old}) /\ id \in TransactionId
  BY DEF Sound, IsAccount, AccountWith, InputMessage
<1>3. old \in [DOMAIN old -> TransactionRecord]
  BY DEF Sound, IsAccount
<1>4. CASE msg.transaction_type \in {"Deposit", "Withdrawal"}
  <2>1. id \notin DOMAIN old
    BY <1>4 DEF ProcessResult, DepositResult, WithdrawalResult
  <2>2. map = Recorded(acc, msg)
    BY <1>1, <1>2, <1>4 DEF ProcessEffect, DepositEffect, WithdrawalEffect, AccountWith
  <2>3. QED
    BY <1>4, <2>1, <2>2 DEF Recorded
<1>5. ASSUME NEW to \in {"Disputed", "Resolved", "Chargeback"},
             TransitionResult(acc, msg, to) = "Ok",
             map = [old EXCEPT ![id].state = to]
      PROVE  /\ id \in DOMAIN old
             /\ DOMAIN map = DOMAIN old
             /\ old[id].state = IF to = "Disputed" THEN "Normal" ELSE "Disputed"
             /\ map[id].state = to
             /\ \A t \in DOMAIN old : t # id => map[t] = old[t]
  <2>1. /\ id \in DOMAIN old
        /\ old[id].state = IF to = "Disputed" THEN "Normal" ELSE "Disputed"
    BY <1>5, TransitionAllowed
  <2>2. QED
    BY <1>3, <1>5, <2>1 DEF TransactionRecord
<1>6. CASE msg.transaction_type = "Dispute"
  <2>1. TransitionResult(acc, msg, "Disputed") = "Ok"
    BY <1>6 DEF ProcessResult
  <2>2. map = [old EXCEPT ![id].state = "Disputed"]
    BY <1>1, <1>2, <1>6 DEF ProcessEffect, DisputeEffect, Execute, AccountWith
  <2>3. QED
    BY <1>5, <1>6, <2>1, <2>2
<1>7. CASE msg.transaction_type = "Resolve"
  <2>1. TransitionResult(acc, msg, "Resolved") = "Ok"
    BY <1>7 DEF ProcessResult
  <2>2. map = [old EXCEPT ![id].state = "Resolved"]
    BY <1>1, <1>2, <1>7 DEF ProcessEffect, ResolveEffect, Execute, AccountWith
  <2>3. QED
    BY <1>5, <1>7, <2>1, <2>2
<1>8. CASE msg.transaction_type = "Chargeback"
  <2>1. TransitionResult(acc, msg, "Chargeback") = "Ok"
    BY <1>8 DEF ProcessResult
  <2>2. map = [old EXCEPT ![id].state = "Chargeback"]
    BY <1>1, <1>2, <1>8 DEF ProcessEffect, ChargebackEffect, Execute, AccountWith
  <2>3. QED
    BY <1>5, <1>8, <2>1, <2>2
<1>9. QED
  BY <1>4, <1>6, <1>7, <1>8 DEF InputMessage, TransactionType

-----------------------------------------------------------------------------
(***************************************************************************)
(* The accounts of several clients, one transaction at a time.             *)
(***************************************************************************)

(* a holds the accounts after each of the first n transactions of txs.     *)
AreAccountsAfter(a, txs, n) ==
  a = [i \in 0 .. n |-> IF i = 0 THEN [c \in {} |-> NewAccount]
                        ELSE AfterTransaction(a[i - 1], txs[i])]

(* Any transactions lead to some accounts.                                 *)
LEMMA AccountsAfterExist ==
  ASSUME NEW n \in Nat, NEW txs
  PROVE  \E a : AreAccountsAfter(a, txs, n)
<1> DEFINE S == {k \in 0 .. n : \E a : AreAccountsAfter(a, txs, k)}
<1>1. 0 \in S
  <2> DEFINE b == [i \in 0 .. 0 |-> [c \in {} |-> NewAccount]]
  <2>1. AreAccountsAfter(b, txs, 0)
    BY DEF AreAccountsAfter
  <2>2. 0 \in 0 .. n
    OBVIOUS
  <2> HIDE DEF b
  <2>3. QED
    BY <2>1, <2>2
<1>2. ASSUME NEW i \in 1 .. n, i - 1 \in S
      PROVE  i \in S
  <2>1. PICK a : AreAccountsAfter(a, txs, i - 1)
    BY <1>2
  <2> DEFINE b == [j \in 0 .. i |-> IF j = i THEN AfterTransaction(a[i - 1], txs[i])
                                    ELSE a[j]]
  <2>2. ASSUME NEW j \in 0 .. i
        PROVE  b[j] = IF j = 0 THEN [c \in {} |-> NewAccount]
                      ELSE AfterTransaction(b[j - 1], txs[j])
    <3>1. CASE j = i
      <4>1. i - 1 \in 0 .. i /\ i - 1 # i /\ i # 0
        OBVIOUS
      <4>2. b[i - 1] = a[i - 1] /\ b[i] = AfterTransaction(a[i - 1], txs[i])
        BY <4>1
      <4>3. QED
        BY <3>1, <4>1, <4>2
    <3>2. CASE j # i
      <4>1. j \in 0 .. i - 1 /\ b[j] = a[j]
        BY <3>2
      <4>2. a[j] = IF j = 0 THEN [c \in {} |-> NewAccount]
                   ELSE AfterTransaction(a[j - 1], txs[j])
        BY <2>1, <4>1 DEF AreAccountsAfter
      <4>3. j # 0 => b[j - 1] = a[j - 1]
        BY <3>2
      <4>4. QED
        BY <4>1, <4>2, <4>3, Zenon
    <3>3. QED
      BY <3>1, <3>2
  <2>3. b = [j \in 0 .. i |-> IF j = 0 THEN [c \in {} |-> NewAccount]
                              ELSE AfterTransaction(b[j - 1], txs[j])]
    BY <2>2
  <2>4. AreAccountsAfter(b, txs, i)
    BY <2>3 DEF AreAccountsAfter
  <2>5. QED
    BY <2>4
<1>3. \A i \in 0 .. n : i \in S
  <2> HIDE DEF S
  <2>1. QED
    BY <1>1, <1>2, IntervalInduction
<1>4. QED
  BY <1>3

(* The recursive function in AccountsAfter is well-defined.                *)
LEMMA AccountsAfterUnfold ==
  ASSUME NEW txs, NEW n \in Nat
  PROVE  /\ AccountsAfter(txs, n)[0] = [c \in {} |-> NewAccount]
         /\ \A i \in 1 .. n :
              AccountsAfter(txs, n)[i] = AfterTransaction(AccountsAfter(txs, n)[i - 1], txs[i])
<1> DEFINE Step(g) == [i \in 0 .. n |-> IF i = 0 THEN [c \in {} |-> NewAccount]
                                        ELSE AfterTransaction(g[i - 1], txs[i])]
           after == CHOOSE g : g = Step(g)
<1>1. PICK a : AreAccountsAfter(a, txs, n)
  BY AccountsAfterExist
<1>2. a = Step(a)
  BY <1>1 DEF AreAccountsAfter
<1>3. after = Step(after)
  BY <1>2, Zenon
<1>4. AccountsAfter(txs, n) = after
  BY Zenon DEF AccountsAfter
<1> HIDE DEF after
<1>5. \A i \in 0 .. n : after[i] = IF i = 0 THEN [c \in {} |-> NewAccount]
                                   ELSE AfterTransaction(after[i - 1], txs[i])
  BY <1>3
<1>6. 0 \in 0 .. n /\ \A i \in 1 .. n : i \in 0 .. n /\ i # 0
  OBVIOUS
<1>7. QED
  BY <1>4, <1>5, <1>6

(* What comes later changes nothing of what the accounts were.             *)
LEMMA AccountsAfterPrefix ==
  ASSUME NEW p, NEW q, NEW m \in Nat, NEW n \in Nat, m <= n,
         \A i \in 1 .. m : q[i] = p[i]
  PROVE  \A i \in 0 .. m : AccountsAfter(q, n)[i] = AccountsAfter(p, m)[i]
<1> DEFINE S == {i \in 0 .. m : AccountsAfter(q, n)[i] = AccountsAfter(p, m)[i]}
<1>1. 0 \in S
  BY AccountsAfterUnfold
<1>2. ASSUME NEW i \in 1 .. m, i - 1 \in S
      PROVE  i \in S
  <2>1. i \in 1 .. n /\ q[i] = p[i] /\ AccountsAfter(q, n)[i - 1] = AccountsAfter(p, m)[i - 1]
    BY <1>2
  <2>2. /\ AccountsAfter(p, m)[i] = AfterTransaction(AccountsAfter(p, m)[i - 1], p[i])
        /\ AccountsAfter(q, n)[i] = AfterTransaction(AccountsAfter(q, n)[i - 1], q[i])
    BY <2>1, AccountsAfterUnfold
  <2>3. QED
    BY <2>1, <2>2
<1>3. \A i \in 0 .. m : i \in S
  <2> HIDE DEF S
  <2>1. QED
    BY <1>1, <1>2, IntervalInduction
<1>4. QED
  BY <1>3

=============================================================================
