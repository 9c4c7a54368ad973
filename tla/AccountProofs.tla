--------------------------- MODULE AccountProofs ---------------------------
(***************************************************************************)
(* Proofs about one account, for every range of identifiers and every set  *)
(* of amounts.                                                             *)
(***************************************************************************)
EXTENDS Account, AccountOpsProofs

(* Every step of Next is a call with some message.                         *)
LEMMA NextIsCall ==
  ASSUME Next
  PROVE  \E msg \in InputMessage : Call(msg)
BY DEF Next, Deposit, Withdrawal, Dispute, Resolve, Chargeback

LEMMA InitInvariant == Init => IInv
<1>1. ASSUME Init PROVE IInv
  <2>1. Sound(account)
    BY <1>1, NewAccountSound DEF Init
  <2>2. TypeOK
    BY <1>1, <2>1 DEF Init, TypeOK, Sound, NewAccount
  <2>3. AcceptedSound
    BY <1>1 DEF Init, AcceptedSound
  <2>4. QED
    BY <2>1, <2>2, <2>3 DEF IInv
<1>2. QED
  BY <1>1

LEMMA CallInvariant ==
  ASSUME IInv, NEW msg \in InputMessage, Call(msg)
  PROVE  IInv'
<1> DEFINE op == <<msg.transaction_type, msg.transaction_id>>
<1>1. Sound(account) /\ TypeOK /\ AcceptedSound
  BY DEF IInv
<1>2. Sound(account')
  BY <1>1, ProcessedSound DEF Call
<1>3. AcceptedSound'
  <2>1. CASE result' # "Ok"
    <3>1. account' = account /\ accepted' = accepted
      BY <2>1 DEF Call, Processed
    <3>2. QED
      BY <1>1, <3>1 DEF AcceptedSound
  <2>2. CASE result' = "Ok"
    <3> DEFINE id == msg.transaction_id
               old == account.transactions
               map == account'.transactions
    <3>1. ProcessResult(account, msg) = "Ok" /\ account' = Processed(account, msg)
      BY <2>2 DEF Call
    <3>2. /\ id \in DOMAIN map
          /\ DOMAIN map = DOMAIN old \cup {id}
          /\ \A t \in DOMAIN old : t # id => map[t] = old[t]
          /\ msg.transaction_type \in {"Deposit", "Withdrawal"} =>
               id \notin DOMAIN old /\ map[id].state = "Normal"
          /\ msg.transaction_type = "Dispute" =>
               id \in DOMAIN old /\ old[id].state = "Normal" /\ map[id].state = "Disputed"
          /\ msg.transaction_type = "Resolve" =>
               id \in DOMAIN old /\ old[id].state = "Disputed" /\ map[id].state = "Resolved"
          /\ msg.transaction_type = "Chargeback" =>
               id \in DOMAIN old /\ old[id].state = "Disputed" /\ map[id].state = "Chargeback"
      BY <1>1, <3>1, AcceptedMap
    <3>3. accepted' = accepted \cup {op}
      BY <2>2 DEF Call
    <3>4. msg.transaction_type \in TransactionType
      BY DEF InputMessage
    <3> HIDE DEF old, map
    <3>5. ASSUME NEW t \in TransactionId, t # id
          PROVE  /\ t \in DOMAIN map <=> t \in DOMAIN old
                 /\ t \in DOMAIN old => map[t] = old[t]
                 /\ \A ty : <<ty, t>> \in accepted' <=> <<ty, t>> \in accepted
      BY <3>2, <3>3, <3>5
    <3>6. ASSUME NEW t \in TransactionId
          PROVE  /\ <<"Deposit", t>> \in accepted' => t \in DOMAIN map
                 /\ <<"Withdrawal", t>> \in accepted' => t \in DOMAIN map
                 /\ <<"Dispute", t>> \in accepted' =>
                      t \in DOMAIN map /\ map[t].state \in {"Disputed", "Resolved", "Chargeback"}
                 /\ <<"Resolve", t>> \in accepted' =>
                      t \in DOMAIN map /\ map[t].state = "Resolved"
                 /\ <<"Chargeback", t>> \in accepted' =>
                      t \in DOMAIN map /\ map[t].state = "Chargeback"
      <4>1. CASE t # id
        BY <1>1, <3>5, <4>1 DEF AcceptedSound, old
      <4>2. CASE t = id
        <5>1. \A ty : <<ty, id>> \in accepted' =>
                        <<ty, id>> \in accepted \/ ty = msg.transaction_type
          BY <3>3
        <5>2. id \in TransactionId
          BY DEF InputMessage
        <5>3. /\ <<"Deposit", id>> \in accepted => id \in DOMAIN old
              /\ <<"Withdrawal", id>> \in accepted => id \in DOMAIN old
              /\ <<"Dispute", id>> \in accepted =>
                   id \in DOMAIN old /\ old[id].state \in {"Disputed", "Resolved", "Chargeback"}
              /\ <<"Resolve", id>> \in accepted =>
                   id \in DOMAIN old /\ old[id].state = "Resolved"
              /\ <<"Chargeback", id>> \in accepted =>
                   id \in DOMAIN old /\ old[id].state = "Chargeback"
          BY <1>1, <5>2 DEF AcceptedSound, old
        <5>4. QED
          BY <3>2, <3>4, <4>2, <5>1, <5>3 DEF TransactionType
      <4>3. QED
        BY <4>1, <4>2
    <3>7. QED
      BY <3>6 DEF AcceptedSound, map
  <2>3. QED
    BY <2>1, <2>2
<1>4. TypeOK'
  <2> DEFINE recorded == DOMAIN account'.transactions
  <2>1. IsAccount(account') /\ RecordsSound(account') /\ SetsSound(account')
    BY <1>2 DEF Sound
  <2>2. result' \in Result \cup {"None"}
    BY <1>1, ResultType DEF Call
  <2>3. op \in TransactionType \X TransactionId
    BY DEF InputMessage
  <2>4. accepted' \subseteq TransactionType \X TransactionId
    BY <1>1, <2>3 DEF TypeOK, IsAccount, Call
  <2>5. ASSUME NEW ty \in TransactionType, NEW t \in TransactionId, <<ty, t>> \in accepted'
        PROVE  t \in recorded
    BY <1>3, <2>5 DEF AcceptedSound, TransactionType
  <2>6. accepted' \subseteq TransactionType \X recorded
    BY <2>4, <2>5
  <2>7. /\ account'.normal \subseteq recorded /\ account'.disputes \subseteq recorded
        /\ account'.resolves \subseteq recorded /\ account'.chargebacks \subseteq recorded
    BY <2>1 DEF SetsSound
  <2>8. \A t \in recorded :
          account'.transactions[t].message.transaction_type \in {"Deposit", "Withdrawal"}
    BY <2>1 DEF RecordsSound
  <2>9. QED
    BY <2>1, <2>2, <2>6, <2>7, <2>8 DEF TypeOK
<1>5. QED
  BY <1>2, <1>3, <1>4 DEF IInv

(* The inductive invariant holds in every reachable state.                 *)
THEOREM Invariance == Spec => []IInv
<1>1. Init => IInv
  BY InitInvariant
<1>2. IInv /\ [Next]_vars => IInv'
  <2>1. ASSUME IInv, Next PROVE IInv'
    BY <2>1, NextIsCall, CallInvariant
  <2>2. ASSUME IInv, UNCHANGED vars PROVE IInv'
    BY <2>2 DEF vars, IInv, TypeOK, AcceptedSound
  <2>3. QED
    BY <2>1, <2>2
<1>3. QED
  BY <1>1, <1>2, PTL DEF Spec

(* The fields of the account keep their types, deposits and withdrawals    *)
(* stay on record, and the sets and the history speak of these only.       *)
THEOREM TypeCorrect == Spec => []TypeOK
<1>1. IInv => TypeOK
  BY DEF IInv
<1>2. QED
  BY <1>1, Invariance, PTL

(* No assertion of check_invariants fires, whatever calls are made.        *)
THEOREM AssertionsNeverFire == Spec => []AssertionsHold
<1>1. IInv => AssertionsHold
  BY SoundImpliesAssertions DEF IInv, AssertionsHold
<1>2. QED
  BY <1>1, Invariance, PTL

(* The money on hold is never negative.                                    *)
THEOREM HeldNeverNegative == Spec => []HeldNonNegative
<1>1. IInv => HeldNonNegative
  BY SumInStatesType DEF IInv, Sound, BalanceSound, HeldNonNegative
<1>2. QED
  BY <1>1, Invariance, PTL

(* A client owes at most the one transaction that was charged back.        *)
THEOREM DebtBounded == Spec => []DebtIsChargedBack
<1>1. IInv => DebtIsChargedBack
  BY DEF IInv, Sound, BalanceSound, LockSound, DebtIsChargedBack
<1>2. QED
  BY <1>1, Invariance, PTL

(* An operation that was once answered Ok is never answered Ok again.      *)
THEOREM AppliedAtMostOnce == Spec => []AtMostOnce
<1>1. ASSUME IInv, NEW msg \in InputMessage,
             <<msg.transaction_type, msg.transaction_id>> \in accepted,
             ProcessResult(account, msg) = "Ok"
      PROVE  FALSE
  <2> DEFINE id == msg.transaction_id
             old == account.transactions
  <2>1. Sound(account) /\ id \in TransactionId
    BY <1>1 DEF IInv, InputMessage
  <2>2. /\ msg.transaction_type \in {"Deposit", "Withdrawal"} => id \notin DOMAIN old
        /\ msg.transaction_type = "Dispute" =>
             id \in DOMAIN old /\ old[id].state = "Normal"
        /\ msg.transaction_type \in {"Resolve", "Chargeback"} =>
             id \in DOMAIN old /\ old[id].state = "Disputed"
    BY <1>1, <2>1, AcceptedMap
  <2>3. msg.transaction_type \in TransactionType
    BY DEF InputMessage
  <2>4. QED
    BY <1>1, <2>1, <2>2, <2>3 DEF IInv, AcceptedSound, TransactionType
<1>2. IInv => AtMostOnce
  BY <1>1 DEF AtMostOnce
<1>3. QED
  BY <1>2, Invariance, PTL

(* No step changes a locked account.                                       *)
THEOREM LockIsFinal == Spec => LockedIsFinal
<1>1. ASSUME account.locked, NEW msg \in InputMessage, Call(msg)
      PROVE  account' = account
  <2>1. ProcessResult(account, msg) = "AccountLocked"
    BY <1>1 DEF ProcessResult, DepositResult, WithdrawalResult, TransitionResult,
                SharedPrestep, InputMessage, TransactionType
  <2>2. QED
    BY <1>1, <2>1 DEF Call, Processed
<1>2. [Next]_vars => [account.locked => account' = account]_vars
  BY <1>1, NextIsCall DEF vars
<1>3. QED
  BY <1>2, PTL DEF Spec, LockedIsFinal

-----------------------------------------------------------------------------
(***************************************************************************)
(* An account implements the ledger: for any identifiers and any integer   *)
(* amounts, every call is a step of Ledger.tla on the book of the account, *)
(* or leaves the book and the statement as they were.                      *)
(***************************************************************************)

(***************************************************************************)
(* What the sums of the ledger are for the book of an account.             *)
(***************************************************************************)

(* The share of each transaction in the total.                             *)
Contributions(acc) ==
  [t \in TransactionId |->
     IF t \in DOMAIN acc.transactions THEN Ledger!Contribution(Book(acc)[t]) ELSE 0]

(* The running total agrees with the book.                                 *)
TotalSound(acc) == acc.total = SumUpTo(Contributions(acc), MaxTransactionId)

(* The sum that Ledger.tla sees is the sum that AccountOps.tla sees.        *)
LEMMA LedgerSum == ASSUME NEW f, NEW n PROVE Ledger!SumUpTo(f, n) = SumUpTo(f, n)
BY Zenon DEF Ledger!SumUpTo, SumUpTo

LEMMA BookDomain == ASSUME NEW acc PROVE DOMAIN Book(acc) = DOMAIN acc.transactions
BY DEF Book

(* The total and the held amount of the book, as sums over the map.        *)
LEMMA TotalOfBook ==
  ASSUME NEW acc
  PROVE  Ledger!TotalOf(Book(acc)) = SumUpTo(Contributions(acc), MaxTransactionId)
<1>1. Ledger!EntryId = TransactionId
  BY DEF Ledger!EntryId, TransactionId
<1>2. Ledger!TotalOf(Book(acc)) = Ledger!SumUpTo(Contributions(acc), MaxTransactionId)
  BY <1>1, BookDomain, Zenon DEF Ledger!TotalOf, Contributions
<1>3. QED
  BY <1>2, LedgerSum

LEMMA HeldOfBook ==
  ASSUME NEW acc
  PROVE  Ledger!HeldOf(Book(acc)) = SumInStates(acc, {"Disputed"})
<1> DEFINE onHold == [t \in TransactionId |->
             IF t \in DOMAIN Book(acc) THEN Ledger!OnHold(Book(acc)[t]) ELSE 0]
<1>1. Ledger!EntryId = TransactionId
  BY DEF Ledger!EntryId, TransactionId
<1>2. Ledger!HeldOf(Book(acc)) = Ledger!SumUpTo(onHold, MaxTransactionId)
  BY <1>1, Zenon DEF Ledger!HeldOf
<1>3. ASSUME NEW t \in TransactionId
      PROVE  onHold[t] = Shares(acc, {"Disputed"})[t]
  BY DEF Shares, Book, Ledger!OnHold
<1>4. onHold = Shares(acc, {"Disputed"})
  BY <1>3 DEF Shares
<1>5. QED
  BY <1>2, <1>4, LedgerSum DEF SumInStates

(* The statement of a sound account is the one worked out from its book.   *)
LEMMA StatementOfBook ==
  ASSUME NEW acc, Sound(acc), TotalSound(acc)
  PROVE  StatementOf(acc) = Ledger!Statement(Book(acc))
<1>1. Ledger!TotalOf(Book(acc)) = acc.total
  BY TotalOfBook DEF TotalSound
<1>2. Ledger!HeldOf(Book(acc)) = acc.held
  BY HeldOfBook DEF Sound, BalanceSound
<1>3. /\ acc.available \in Int /\ acc.held \in Int /\ acc.total \in Int
      /\ acc.locked \in BOOLEAN
      /\ acc.total = acc.available + acc.held
  BY DEF Sound, IsAccount, BalanceSound
<1>4. acc.available = acc.total - acc.held
  BY <1>3
<1>5. acc.locked = (\E t \in DOMAIN Book(acc) : Book(acc)[t].state = "Chargeback")
  <2>1. acc.locked <=> \E t \in DOMAIN acc.transactions : acc.transactions[t].state = "Chargeback"
    BY DEF Sound, LockSound, SetsSound
  <2>2. \A t \in DOMAIN acc.transactions : Book(acc)[t].state = acc.transactions[t].state
    BY DEF Book
  <2>3. QED
    BY <1>3, <2>1, <2>2, BookDomain
<1>6. QED
  BY <1>1, <1>2, <1>4, <1>5, Zenon DEF StatementOf, Ledger!Statement

(* The shares are integers.                                                *)
LEMMA ContributionsType ==
  ASSUME NEW acc, Sound(acc)
  PROVE  \A t \in 0 .. MaxTransactionId : Contributions(acc)[t] \in Int
<1>1. SUFFICES ASSUME NEW t \in TransactionId PROVE Contributions(acc)[t] \in Int
  BY DEF TransactionId
<1>2. CASE t \in DOMAIN acc.transactions
  <2>1. acc.transactions[t].message.amount \in Int
    BY <1>2, AmountsAssumption DEF Sound, IsAccount, TransactionRecord, InputMessage
  <2>2. Book(acc)[t].amount = acc.transactions[t].message.amount
    BY <1>2 DEF Book
  <2>3. QED
    BY <1>2, <2>1, <2>2 DEF Contributions, Ledger!Contribution
<1>3. CASE t \notin DOMAIN acc.transactions
  BY <1>3 DEF Contributions
<1>4. QED
  BY <1>2, <1>3

-----------------------------------------------------------------------------
(***************************************************************************)
(* What the methods do to the book and to the running total.               *)
(***************************************************************************)

(* The entry of a deposit or a withdrawal.                                 *)
NewEntry(msg) == [kind |-> msg.transaction_type, amount |-> msg.amount, state |-> "Normal"]

(* The book with one more entry; with one entry in another state.          *)
BookWith(book, i, e) == [j \in DOMAIN book \cup {i} |-> IF j = i THEN e ELSE book[j]]

BookMoved(book, i, to) == [book EXCEPT ![i].state = to]

(* What an operation adds to the total: the message or the chargeback.     *)
RecordShare(msg) == IF msg.transaction_type = "Deposit" THEN msg.amount ELSE - msg.amount

MoveShare(acc, id, to) ==
  IF to = "Chargeback" THEN - acc.transactions[id].message.amount ELSE 0

(* The map of transactions with one transaction in another state.          *)
MapMoved(acc, id, to) == [acc.transactions EXCEPT ![id].state = to]

(* A deposit or a withdrawal adds one entry and its share of the total.    *)
LEMMA RecordBook ==
  ASSUME NEW acc, Sound(acc), TotalSound(acc),
         NEW msg \in InputMessage,
         msg.transaction_id \notin DOMAIN acc.transactions,
         NEW new, Sound(new),
         new.transactions = Recorded(acc, msg),
         new.total = acc.total + RecordShare(msg)
  PROVE  /\ TotalSound(new)
         /\ Book(new) = BookWith(Book(acc), msg.transaction_id, NewEntry(msg))
<1> DEFINE id == msg.transaction_id
           old == Contributions(acc)
           now == Contributions(new)
<1>1. /\ DOMAIN new.transactions = DOMAIN acc.transactions \cup {id}
      /\ new.transactions[id] = [state |-> "Normal", message |-> msg]
      /\ \A t \in DOMAIN acc.transactions : new.transactions[t] = acc.transactions[t]
  BY DEF Recorded
<1>2. Book(new) = BookWith(Book(acc), id, NewEntry(msg))
  BY <1>1 DEF Book, BookWith, NewEntry
<1>3. id \in TransactionId /\ id \in 0 .. MaxTransactionId
  BY DEF InputMessage, TransactionId
<1>4. now[id] = RecordShare(msg)
  <2>1. msg.amount \in Int
    BY AmountsAssumption DEF InputMessage
  <2>2. Book(new)[id] = NewEntry(msg)
    BY <1>2 DEF BookWith
  <2>3. now[id] = Ledger!Contribution(NewEntry(msg))
    BY <1>1, <1>3, <2>2 DEF Contributions
  <2>4. QED
    BY <2>1, <2>3 DEF Ledger!Contribution, NewEntry, RecordShare
<1>5. old[id] = 0
  BY <1>3 DEF Contributions
<1>6. \A t \in 0 .. MaxTransactionId : t # id => now[t] = old[t]
  <2>1. SUFFICES ASSUME NEW t \in TransactionId, t # id PROVE now[t] = old[t]
    BY DEF TransactionId
  <2>2. t \in DOMAIN new.transactions <=> t \in DOMAIN acc.transactions
    BY <1>1, <2>1
  <2>3. t \in DOMAIN acc.transactions => Book(new)[t] = Book(acc)[t]
    BY <1>2, <2>1, BookDomain DEF BookWith
  <2>4. QED
    BY <2>2, <2>3 DEF Contributions
<1>7. /\ \A t \in 0 .. MaxTransactionId : old[t] \in Int
      /\ \A t \in 0 .. MaxTransactionId : now[t] \in Int
  BY ContributionsType
<1> HIDE DEF old, now, id
<1>8. SumUpTo(now, MaxTransactionId) = SumUpTo(old, MaxTransactionId) + (now[id] - old[id])
  BY <1>3, <1>6, <1>7, SumUpdate, MaxTransactionIdAssumption
<1>9. SumUpTo(now, MaxTransactionId) = new.total
  <2>1. acc.total = SumUpTo(old, MaxTransactionId)
    BY DEF TotalSound, old
  <2>2. now[id] \in Int
    BY <1>3, <1>7
  <2>3. QED
    BY <1>4, <1>5, <1>8, <2>1, <2>2
<1>10. QED
  BY <1>2, <1>9 DEF TotalSound, now, id

(* A dispute, a resolve or a chargeback moves one entry, and a chargeback  *)
(* takes the amount of the entry from the total.                           *)
LEMMA MoveBook ==
  ASSUME NEW acc, Sound(acc), TotalSound(acc),
         NEW id \in DOMAIN acc.transactions,
         acc.transactions[id].state # "Chargeback",
         NEW to \in {"Disputed", "Resolved", "Chargeback"},
         NEW new, Sound(new),
         new.transactions = MapMoved(acc, id, to),
         new.total = acc.total + MoveShare(acc, id, to)
  PROVE  /\ TotalSound(new)
         /\ Book(new) = BookMoved(Book(acc), id, to)
<1> DEFINE old == Contributions(acc)
           now == Contributions(new)
           amount == acc.transactions[id].message.amount
<1>1. /\ acc.transactions \in [DOMAIN acc.transactions -> TransactionRecord]
      /\ id \in TransactionId /\ id \in 0 .. MaxTransactionId
  BY DEF Sound, IsAccount, TransactionId
<1>2. /\ DOMAIN new.transactions = DOMAIN acc.transactions
      /\ new.transactions[id].state = to
      /\ new.transactions[id].message = acc.transactions[id].message
      /\ \A t \in DOMAIN acc.transactions : t # id => new.transactions[t] = acc.transactions[t]
  BY <1>1 DEF MapMoved, TransactionRecord
<1>3. /\ \A t \in DOMAIN acc.transactions : t # id => Book(new)[t] = Book(acc)[t]
      /\ Book(acc)[id] = [kind |-> acc.transactions[id].message.transaction_type,
                          amount |-> amount, state |-> acc.transactions[id].state]
      /\ Book(new)[id] = [kind |-> acc.transactions[id].message.transaction_type,
                          amount |-> amount, state |-> to]
  BY <1>2 DEF Book
<1>4. Book(new) = BookMoved(Book(acc), id, to)
  <2>1. [Book(acc)[id] EXCEPT !.state = to] = Book(new)[id]
    BY <1>3
  <2>2. Book(new) = [t \in DOMAIN acc.transactions |-> Book(new)[t]]
    BY <1>2 DEF Book
  <2>3. QED
    BY <1>3, <2>1, <2>2, BookDomain DEF BookMoved
<1>5. amount \in Int
  BY <1>1, AmountsAssumption DEF TransactionRecord, InputMessage
<1>6. now[id] - old[id] = (IF to = "Chargeback" THEN - amount ELSE 0)
  <2>1. old[id] = Ledger!Contribution(Book(acc)[id])
    BY <1>1 DEF Contributions
  <2>2. now[id] = Ledger!Contribution(Book(new)[id])
    BY <1>1, <1>2 DEF Contributions
  <2> HIDE DEF old, now, amount
  <2>3. QED
    BY <1>3, <1>5, <2>1, <2>2 DEF Ledger!Contribution
<1>7. \A t \in 0 .. MaxTransactionId : t # id => now[t] = old[t]
  BY <1>2, <1>3 DEF Contributions, TransactionId
<1>8. /\ \A t \in 0 .. MaxTransactionId : old[t] \in Int
      /\ \A t \in 0 .. MaxTransactionId : now[t] \in Int
  BY ContributionsType
<1> HIDE DEF old, now, amount
<1>9. SumUpTo(now, MaxTransactionId) = SumUpTo(old, MaxTransactionId) + (now[id] - old[id])
  BY <1>1, <1>7, <1>8, SumUpdate, MaxTransactionIdAssumption
<1>10. SumUpTo(now, MaxTransactionId) = new.total
  <2>1. acc.total = SumUpTo(old, MaxTransactionId) /\ acc.total \in Int
    BY DEF TotalSound, old, Sound, IsAccount
  <2>2. QED
    BY <1>5, <1>6, <1>9, <2>1 DEF amount, MoveShare
<1>11. QED
  BY <1>4, <1>10 DEF TotalSound, now

-----------------------------------------------------------------------------
(***************************************************************************)
(* A call is a step of the ledger.                                         *)
(***************************************************************************)

(* The step of the ledger that takes the book of acc to the book of new.   *)
Recording(acc, new, i, e) ==
  /\ ~ acc.locked
  /\ i \in TransactionId /\ e \in Ledger!Entry
  /\ i \notin DOMAIN Book(acc)
  /\ e.state = "Normal"
  /\ e.kind = "Withdrawal" => e.amount <= acc.available
  /\ Book(new) = BookWith(Book(acc), i, e)

Moving(acc, new, i, from, to) ==
  /\ ~ acc.locked
  /\ i \in TransactionId
  /\ i \in DOMAIN Book(acc)
  /\ Book(acc)[i].state = from
  /\ Book(new) = BookMoved(Book(acc), i, to)

(* An accepted deposit or withdrawal records its entry.                    *)
LEMMA DepositIsRecording ==
  ASSUME NEW acc, Sound(acc), TotalSound(acc), NEW msg \in InputMessage,
         msg.transaction_type = "Deposit", ProcessResult(acc, msg) = "Ok"
  PROVE  /\ TotalSound(Processed(acc, msg))
         /\ Recording(acc, Processed(acc, msg), msg.transaction_id, NewEntry(msg))
<1> DEFINE new == Processed(acc, msg)
<1>1. new = DepositEffect(acc, msg)
  BY DEF Processed, ProcessEffect
<1>2. /\ ~ acc.locked
      /\ msg.amount > 0
      /\ msg.transaction_id \notin DOMAIN acc.transactions
  BY DEF ProcessResult, DepositResult, SharedPrestep
<1>3. new.transactions = Recorded(acc, msg) /\ new.total = acc.total + RecordShare(msg)
  BY <1>1 DEF DepositEffect, Sound, IsAccount, RecordShare
<1>4. Sound(new)
  BY ProcessedSound
<1> HIDE DEF new
<1>5. /\ TotalSound(new)
      /\ Book(new) = BookWith(Book(acc), msg.transaction_id, NewEntry(msg))
  BY <1>2, <1>3, <1>4, RecordBook
<1>6. /\ NewEntry(msg) \in Ledger!Entry
      /\ NewEntry(msg).state = "Normal"
      /\ NewEntry(msg).kind # "Withdrawal"
  BY <1>2 DEF NewEntry, Ledger!Entry, InputMessage
<1>7. Recording(acc, new, msg.transaction_id, NewEntry(msg))
  BY <1>2, <1>5, <1>6, BookDomain DEF Recording, InputMessage
<1>8. QED
  BY <1>5, <1>7 DEF new

LEMMA WithdrawalIsRecording ==
  ASSUME NEW acc, Sound(acc), TotalSound(acc), NEW msg \in InputMessage,
         msg.transaction_type = "Withdrawal", ProcessResult(acc, msg) = "Ok"
  PROVE  /\ TotalSound(Processed(acc, msg))
         /\ Recording(acc, Processed(acc, msg), msg.transaction_id, NewEntry(msg))
<1> DEFINE new == Processed(acc, msg)
<1>1. new = WithdrawalEffect(acc, msg)
  BY DEF Processed, ProcessEffect
<1>2. /\ ~ acc.locked
      /\ msg.amount > 0
      /\ msg.transaction_id \notin DOMAIN acc.transactions
      /\ ~ (acc.available < msg.amount)
  BY DEF ProcessResult, WithdrawalResult, SharedPrestep
<1>3. acc.available \in Int /\ acc.total \in Int /\ msg.amount \in Int
  BY AmountsAssumption DEF Sound, IsAccount, InputMessage
<1>4. new.transactions = Recorded(acc, msg) /\ new.total = acc.total + RecordShare(msg)
  BY <1>1, <1>3 DEF WithdrawalEffect, Sound, IsAccount, RecordShare
<1>5. Sound(new)
  BY ProcessedSound
<1> HIDE DEF new
<1>6. /\ TotalSound(new)
      /\ Book(new) = BookWith(Book(acc), msg.transaction_id, NewEntry(msg))
  BY <1>2, <1>4, <1>5, RecordBook
<1>7. /\ NewEntry(msg) \in Ledger!Entry
      /\ NewEntry(msg).state = "Normal"
      /\ NewEntry(msg).amount <= acc.available
  BY <1>2, <1>3 DEF NewEntry, Ledger!Entry, InputMessage
<1>8. Recording(acc, new, msg.transaction_id, NewEntry(msg))
  BY <1>2, <1>6, <1>7, BookDomain DEF Recording, InputMessage
<1>9. QED
  BY <1>6, <1>8 DEF new

(* Dispute, resolve and chargeback, from what they do to map and total.    *)
LEMMA TransitionIsMoving ==
  ASSUME NEW acc, Sound(acc), TotalSound(acc), NEW msg \in InputMessage,
         NEW to \in {"Disputed", "Resolved", "Chargeback"},
         TransitionResult(acc, msg, to) = "Ok",
         NEW new, Sound(new),
         new.transactions = MapMoved(acc, msg.transaction_id, to),
         new.total = acc.total + MoveShare(acc, msg.transaction_id, to)
  PROVE  /\ TotalSound(new)
         /\ Moving(acc, new, msg.transaction_id,
                   IF to = "Disputed" THEN "Normal" ELSE "Disputed", to)
<1>1. /\ ~ acc.locked
      /\ msg.transaction_id \in DOMAIN acc.transactions
      /\ acc.transactions[msg.transaction_id].state
           = IF to = "Disputed" THEN "Normal" ELSE "Disputed"
  BY TransitionAllowed
<1>2. /\ TotalSound(new)
      /\ Book(new) = BookMoved(Book(acc), msg.transaction_id, to)
  <2>1. acc.transactions[msg.transaction_id].state # "Chargeback"
    BY <1>1
  <2>2. QED
    BY <1>1, <2>1, MoveBook
<1>3. Book(acc)[msg.transaction_id].state = acc.transactions[msg.transaction_id].state
  BY <1>1 DEF Book
<1>4. QED
  BY <1>1, <1>2, <1>3, BookDomain DEF Moving, InputMessage

(* An accepted dispute, resolve or chargeback moves its entry.             *)
LEMMA DisputeIsMoving ==
  ASSUME NEW acc, Sound(acc), TotalSound(acc), NEW msg \in InputMessage,
         msg.transaction_type = "Dispute", ProcessResult(acc, msg) = "Ok"
  PROVE  /\ TotalSound(Processed(acc, msg))
         /\ Moving(acc, Processed(acc, msg), msg.transaction_id, "Normal", "Disputed")
<1> DEFINE new == Processed(acc, msg)
<1>1. new = DisputeEffect(acc, msg)
  BY DEF Processed, ProcessEffect
<1>2. acc \in AccountWith({acc.transactions}) /\ acc.total \in Int
  BY DEF Sound, IsAccount, AccountWith
<1>3. /\ new.transactions = MapMoved(acc, msg.transaction_id, "Disputed")
      /\ new.total = acc.total + MoveShare(acc, msg.transaction_id, "Disputed")
  <2>1. new.transactions = MapMoved(acc, msg.transaction_id, "Disputed")
    BY <1>1, <1>2 DEF DisputeEffect, Execute, AccountWith, MapMoved
  <2>2. new.total = acc.total
    BY <1>1, <1>2 DEF DisputeEffect, Execute, AccountWith
  <2>3. QED
    BY <1>2, <2>1, <2>2 DEF MoveShare
<1>4. Sound(new)
  BY ProcessedSound
<1>5. TransitionResult(acc, msg, "Disputed") = "Ok"
  BY DEF ProcessResult
<1> HIDE DEF new
<1>6. TotalSound(new) /\ Moving(acc, new, msg.transaction_id, "Normal", "Disputed")
  BY <1>2, <1>3, <1>4, <1>5, TransitionIsMoving
<1>7. QED
  BY <1>6 DEF new

LEMMA ResolveIsMoving ==
  ASSUME NEW acc, Sound(acc), TotalSound(acc), NEW msg \in InputMessage,
         msg.transaction_type = "Resolve", ProcessResult(acc, msg) = "Ok"
  PROVE  /\ TotalSound(Processed(acc, msg))
         /\ Moving(acc, Processed(acc, msg), msg.transaction_id, "Disputed", "Resolved")
<1> DEFINE new == Processed(acc, msg)
<1>1. new = ResolveEffect(acc, msg)
  BY DEF Processed, ProcessEffect
<1>2. acc \in AccountWith({acc.transactions}) /\ acc.total \in Int
  BY DEF Sound, IsAccount, AccountWith
<1>3. /\ new.transactions = MapMoved(acc, msg.transaction_id, "Resolved")
      /\ new.total = acc.total + MoveShare(acc, msg.transaction_id, "Resolved")
  <2>1. new.transactions = MapMoved(acc, msg.transaction_id, "Resolved")
    BY <1>1, <1>2 DEF ResolveEffect, Execute, AccountWith, MapMoved
  <2>2. new.total = acc.total
    BY <1>1, <1>2 DEF ResolveEffect, Execute, AccountWith
  <2>3. QED
    BY <1>2, <2>1, <2>2 DEF MoveShare
<1>4. Sound(new)
  BY ProcessedSound
<1>5. TransitionResult(acc, msg, "Resolved") = "Ok"
  BY DEF ProcessResult
<1> HIDE DEF new
<1>6. TotalSound(new) /\ Moving(acc, new, msg.transaction_id, "Disputed", "Resolved")
  BY <1>2, <1>3, <1>4, <1>5, TransitionIsMoving
<1>7. QED
  BY <1>6 DEF new

LEMMA ChargebackIsMoving ==
  ASSUME NEW acc, Sound(acc), TotalSound(acc), NEW msg \in InputMessage,
         msg.transaction_type = "Chargeback", ProcessResult(acc, msg) = "Ok"
  PROVE  /\ TotalSound(Processed(acc, msg))
         /\ Moving(acc, Processed(acc, msg), msg.transaction_id, "Disputed", "Chargeback")
<1> DEFINE new == Processed(acc, msg)
<1>1. new = ChargebackEffect(acc, msg)
  BY DEF Processed, ProcessEffect
<1>2. acc \in AccountWith({acc.transactions}) /\ acc.total \in Int
  BY DEF Sound, IsAccount, AccountWith
<1>3. /\ new.transactions = MapMoved(acc, msg.transaction_id, "Chargeback")
      /\ new.total = acc.total + MoveShare(acc, msg.transaction_id, "Chargeback")
  <2>1. new.transactions = MapMoved(acc, msg.transaction_id, "Chargeback")
    BY <1>1, <1>2 DEF ChargebackEffect, Execute, AccountWith, MapMoved
  <2>2. new.total = acc.total - StoredAmount(acc, msg)
    BY <1>1, <1>2 DEF ChargebackEffect, Execute, AccountWith
  <2>3. QED
    BY <1>2, <2>1, <2>2 DEF MoveShare, StoredAmount
<1>4. Sound(new)
  BY ProcessedSound
<1>5. TransitionResult(acc, msg, "Chargeback") = "Ok"
  BY DEF ProcessResult
<1> HIDE DEF new
<1>6. TotalSound(new) /\ Moving(acc, new, msg.transaction_id, "Disputed", "Chargeback")
  BY <1>2, <1>3, <1>4, <1>5, TransitionIsMoving
<1>7. QED
  BY <1>6 DEF new

(* Recording and moving, with the new statement, are steps of the ledger.  *)
LEMMA RecordingIsRecord ==
  ASSUME Sound(account), TotalSound(account), Sound(account'), TotalSound(account'),
         NEW i, NEW e, Recording(account, account', i, e)
  PROVE  Ledger!LedgerNext
<1>1. i \in Ledger!EntryId
  BY DEF Recording, Ledger!EntryId, TransactionId
<1>2. /\ StatementOf(account).locked = account.locked
      /\ StatementOf(account).available = account.available
  BY DEF StatementOf
<1>3. StatementOf(account') = Ledger!Statement(Book(account'))
  BY StatementOfBook
<1>4. Ledger!Record(i, e)
  BY <1>2, <1>3 DEF Recording, Ledger!Record, BookWith
<1>5. QED
  BY <1>1, <1>4 DEF Recording, Ledger!LedgerNext

LEMMA MovingIsMove ==
  ASSUME Sound(account), TotalSound(account), Sound(account'), TotalSound(account'),
         NEW i, NEW from, NEW to, Moving(account, account', i, from, to),
         <<from, to>> \in {<<"Normal", "Disputed">>, <<"Disputed", "Resolved">>,
                           <<"Disputed", "Chargeback">>}
  PROVE  Ledger!LedgerNext
<1>1. i \in Ledger!EntryId
  BY DEF Moving, Ledger!EntryId, TransactionId
<1>2. StatementOf(account).locked = account.locked
  BY DEF StatementOf
<1>3. StatementOf(account') = Ledger!Statement(Book(account'))
  BY StatementOfBook
<1>4. Ledger!Move(i, from, to)
  BY <1>2, <1>3 DEF Moving, Ledger!Move, BookMoved
<1>5. QED
  BY <1>1, <1>4 DEF Ledger!LedgerNext

(* A call that is refused leaves the account as it was; any other is one   *)
(* step of the ledger.                                                     *)
LEMMA CallIsLedgerStep ==
  ASSUME IInv, TotalSound(account), NEW msg \in InputMessage, Call(msg)
  PROVE  TotalSound(account') /\ [Ledger!LedgerNext]_(Ledger!ledgerVars)
<1>1. Sound(account) /\ Sound(account') /\ account' = Processed(account, msg)
  BY ProcessedSound DEF IInv, Call
<1>2. CASE ProcessResult(account, msg) # "Ok"
  <2>1. account' = account
    BY <1>1, <1>2 DEF Processed
  <2>2. QED
    BY <2>1 DEF Ledger!ledgerVars
<1>3. CASE ProcessResult(account, msg) = "Ok"
  <2>1. CASE msg.transaction_type = "Deposit"
    BY <1>1, <1>3, <2>1, DepositIsRecording, RecordingIsRecord
  <2>2. CASE msg.transaction_type = "Withdrawal"
    BY <1>1, <1>3, <2>2, WithdrawalIsRecording, RecordingIsRecord
  <2>3. CASE msg.transaction_type = "Dispute"
    BY <1>1, <1>3, <2>3, DisputeIsMoving, MovingIsMove
  <2>4. CASE msg.transaction_type = "Resolve"
    BY <1>1, <1>3, <2>4, ResolveIsMoving, MovingIsMove
  <2>5. CASE msg.transaction_type = "Chargeback"
    BY <1>1, <1>3, <2>5, ChargebackIsMoving, MovingIsMove
  <2>6. QED
    BY <2>1, <2>2, <2>3, <2>4, <2>5 DEF InputMessage, TransactionType
<1>4. QED
  BY <1>2, <1>3

(* A new account has an empty book and the statement of an empty book.     *)
LEMMA NewAccountTotal == TotalSound(NewAccount)
<1>1. \A t \in 0 .. MaxTransactionId : Contributions(NewAccount)[t] = 0
  BY DEF Contributions, NewAccount, TransactionId
<1>2. QED
  BY <1>1, SumOfZeros, MaxTransactionIdAssumption DEF TotalSound, NewAccount

LEMMA InitIsLedgerInit == Init => TotalSound(account) /\ Ledger!LedgerInit
<1>1. ASSUME Init PROVE TotalSound(account) /\ Ledger!LedgerInit
  <2>1. account = NewAccount
    BY <1>1 DEF Init
  <2>2. TotalSound(account) /\ Sound(account)
    BY <2>1, NewAccountTotal, NewAccountSound
  <2>3. Book(account) = [i \in {} |-> i]
    BY <2>1 DEF Book, NewAccount
  <2>4. StatementOf(account) = Ledger!Statement(Book(account))
    BY <2>2, StatementOfBook
  <2>5. QED
    BY <2>2, <2>3, <2>4 DEF Ledger!LedgerInit
<1>2. QED
  BY <1>1

(* The account of account.rs implements the ledger: its running balances,  *)
(* its lock and the states of its transactions are, after every call, what *)
(* the book of deposits and withdrawals says, and the book only changes as *)
(* the ledger allows.                                                      *)
THEOREM AccountImplementsLedger == Spec => ImplementsLedger
<1>1. Init => TotalSound(account) /\ Ledger!LedgerInit
  BY InitIsLedgerInit
<1>2. IInv /\ TotalSound(account) /\ [Next]_vars
        => TotalSound(account)' /\ [Ledger!LedgerNext]_(Ledger!ledgerVars)
  <2>1. ASSUME IInv, TotalSound(account), Next
        PROVE  TotalSound(account') /\ [Ledger!LedgerNext]_(Ledger!ledgerVars)
    BY <2>1, NextIsCall, CallIsLedgerStep
  <2>2. ASSUME TotalSound(account), UNCHANGED vars
        PROVE  TotalSound(account') /\ [Ledger!LedgerNext]_(Ledger!ledgerVars)
    BY <2>2 DEF vars, Ledger!ledgerVars
  <2>3. QED
    BY <2>1, <2>2
<1>3. QED
  BY <1>1, <1>2, Invariance, PTL DEF Spec, ImplementsLedger, Ledger!LedgerSpec

=============================================================================
