# A TLA+ model of the payments engine

The engine reads a CSV file of deposits, withdrawals, disputes, resolves and
chargebacks, applies them to per-client accounts, and prints the accounts.
These modules model the code under `src/src`. This file says which part is
modelled where, what the TLC runs show, what TLAPS proves, and what is left.

## 1. Inventory of the system

| Component | State | Operations | What makes it correct |
|---|---|---|---|
| `Account` (`domain/account.rs`) | three balances, a lock, a map from transaction id to state and message, four sets of ids, one per state | `process_deposit`, `process_withdrawal`, `process_dispute`, `process_resolve`, `process_chargeback`, `check_invariants` | the sets partition the map by state; held is the sum of the disputed amounts; total = available + held, negative only when locked; an operation is applied at most once; a locked account never changes |
| `Service` (`service/mod.rs`) | the map of accounts; the heap of pending transactions, local to the task | `server_forever`, `iteration`, `handle_buffer`, `write_snapshot` | nothing received is lost or applied twice; the heap puts in order what it holds; an acknowledged completion is a barrier; the heap is bounded; the task ends when told to, after a last flush |
| program (`main.rs`) | the set of tasks, the service, outcome and completion channels, the cancellation token | `main`, `load_file`, the outcome task | what is printed is what the rows applied one by one give; nothing is printed for a file that was not read to its end; the program ends |
| `CsvReader` | the position in the file, the number of messages yielded, whether the end was seen | `new`, `next` | messages are numbered without gaps, also by a caller that goes on after an error; no identifier is taken for another; the first bad row ends the load |
| `Amount` | none | `parse`, `Display`, exact arithmetic, `is_positive` | numerals are read exactly up to truncation; printing and reading agree |
| `CsvWriter` | buffers between the writer and the output | `write_header`, `write_message`, `flush` | a header, then one true line per account; all of them are out when the program succeeds |
| metrics (`metrics.rs`) | counters, gauges, histograms | one call of `add` or `record` each, at the place where something happens or has ended | the instruments agree with each other and with what was done |
| command line | one argument | | not modelled |
| `payments.qnt` | | | a model in another language, not code of the program |

How they interact. `main` spawns three tasks: the service, the loader and the
outcome task. The loader sends one `Incoming` message per row on an unbounded
channel, each with a sender for its outcome, and a
`TransactionBatchCompletion` after the last row. The service selects, without
bias, between that channel and a cancellation token; it collects transactions in
a `BinaryHeap`, and applies the whole heap when it holds `batch_size` of them,
before it answers a completion, and once more before it returns. Each applied
transaction is answered on the outcome channel. On the answer to the completion
`main` prints every account, cancels the token and returns, and the runtime is
dropped with whatever tasks are left.

What is hard. Four tasks in parallel, with four kinds of channel end that can go
away; batches that reorder transactions only among themselves; a flush that
can fail half-way; a snapshot that holds a lock on a shard of the account map
across awaits, while flushes wait for it; counters that are added later than what they
count; balances, sets and a map that must stay consistent through any sequence
of calls; amounts at the boundary of a machine integer. `PROJECT.json` lists each
hazard at its line, with the properties aimed at it.

## 2. Modules

    Sums ── SumTheorems                     Ledger  (abstract)
      │          │                             │ implemented by
    AccountOps ──┼──────────── Account ────────┘
      │    AccountOpsProofs ─ AccountProofs    └─ AccountClaims ─ MCAccount
      │          │
      ├── Bank   │ (abstract)
      │     │    │ implemented by
      ├── Service ─ MCService
      │     │    └─ ServiceProofs
      │     └── SharedService ─ MCSharedService, SharedServiceProofs
      │           │ instance of                       Amount
      ├── Snapshot                                      └─ CsvReader ─ MCCsvReader, CsvReaderProofs
      └── Pipeline (instance of SharedService)
            ├── Metrics ─ MCPipeline
            └── PipelineProofs (instance of ServiceProofs)
                  └─ MetricsProofs (extends Metrics as well)

| Module | Models | How state and actions correspond to the code |
|---|---|---|
| `Sums` | the fold over the transactions in `check_invariants` | `SumUpTo` adds a function over `0 .. n`; recursive functions, no `RECURSIVE` operator, so that it can be proved about |
| `AccountOps` | `account.rs` | an account is a record with the fields of the struct. Per method, one operator for what it returns (the first early return that applies, in the code's order) and one for what it leaves behind. `CanTransition`, `Execute` and `DoTransition` are the lifecycle; `CheckInvariants` is `check_invariants`, assertion by assertion |
| `Account` | one account and its callers | one action per method, for any message |
| `Ledger` | the promise of an account | a book of entries and a statement worked out from the book alone |
| `AccountClaims` | two statements of comments and docs | see Findings |
| `Service` | `server_forever`, `iteration`, `handle_buffer` | the local heap is a set; the task's place in the code is `pc`; `confirming` is the completion the current flush precedes. One step per loop turn of `handle_buffer`, because other threads run between two turns. Producers, cancellation and dropped receivers are environment actions |
| `Bank` | the promise of the service to those who hold an end of its channels | requests are pending in the order of submission; one leaves at a time. No heap, no batches, no program counter. Not applied before an older transaction that was submitted earlier; completions are barriers both ways; the bank closes when told to, when everyone has left and nothing is pending, or at the first answer that nobody takes |
| `Snapshot` | `write_snapshot` and `CsvWriter` | header, lines and flush are steps, each of which may fail; `shard` is the shard whose read guard the iterator holds, across the await of every line; `lines` are written, the first `delivered` of them have reached the output |
| `SharedService` | one `Arc<Service>` used by its task and by a caller of `write_snapshot` | `Service` plus an instance of `Snapshot` on the same accounts; a step of a flush waits while its client's shard is guarded |
| `Pipeline` | `main.rs`, with the calls of `CsvReader` | `INSTANCE SharedService` supplies the service task and the snapshot; the loader, the outcome task and `main` take the place of the environment. Outcomes are the suffix of `processed` that the outcome task has not `handled` |
| `Metrics` | `metrics.rs` and every call of its instruments | the steps of `Pipeline`, each with what it counts; `tally` holds the locals that are added when a batch or a snapshot has ended |
| `Amount` | `Amount::parse`, `Display` | texts are sequences of characters, outcomes are sets ({} is an error); decimals and width are parameters |
| `CsvReader` | `CsvReader`, `TransactionType::from_str` | one action for each outcome of `next`; a record is four texts, or one that the CSV library refuses; the widths of the identifiers are parameters |
| `SumTheorems`, `AccountOpsProofs`, `AccountProofs`, `ServiceProofs`, `SharedServiceProofs`, `PipelineProofs`, `MetricsProofs`, `CsvReaderProofs` | | proofs only |

Abstractions. An amount inside an account is an integer (the code's `BigInt`
does not overflow); `client_id` is the key of the map and not a field;
`history_changes` is written in debug builds and read by nothing; logs are left out.
In `Pipeline`, rows that do not parse are two values, for the two kinds that are
counted differently: all of them end the load in the same way. The heap is
the sequence of its transactions in the order in which they came, which `pop` does not look at;
the refinement of `Bank` needs it. The map of accounts is divided in shards
as `DashMap` does it; `handle_buffer` keeps the guard of an account through one turn of its
loop, which has no await, and so a turn is one step. The modules also hold operators marked *Faulty
variant*: each is a definition changed the way a plausible bug would change it,
used to confirm that a property can fail.

## 3. Runs

| Run | What it shows | Bounds, and why they are enough |
|---|---|---|
| `account` | what is on record is a deposit or a withdrawal, and sets and history speak of nothing else; `check_invariants` never fires; held is not negative; debt is what was charged back, by one chargeback; an accepted operation is never accepted again; a locked account is final; the account implements `Ledger`; the inductive invariant `IInv` of the proofs | ids 0..2, amounts -1..2: two transactions that interact and one more, every sign, exact and overdrawn withdrawals. All sequences of calls of any length: the state space is finite |
| `service` | nothing lost or repeated; bounded heap; acknowledgements are barriers; inversions are late arrivals; clean stops; accounts sound; the service implements `Bank`; the inductive invariant `IInv` of the proofs | 5 transactions of 2 clients, one tie in `chrono_order`; 2 completions (interchangeable, hence the symmetry); `batch_size` 2, so there are full, short and empty flushes, several of each |
| `service_live` | `SharedService`: every shard of a snapshot is true of one moment; snapshots end, completions are acknowledged, the task stops when told, the channel drains when closed, although flushes wait for the snapshot and begin in the middle of it; the inductive invariant `ReaderSound` of the proofs | 3 transactions of 3 clients, 1 completion; two clients share a shard, so that a flush can hit the shard before it is read, in the middle, and after |
| `pipeline` | `OutputIsSequential` and the other safety properties of the whole program; what the metrics say at any moment and at the end; the program ends; a loaded file is printed; deadlock is checked; the inductive invariants `IInv` and `CountersSound` of the proofs | every file of up to 3 rows over 5 good kinds and 2 bad ones, and 25 of four rows; `batch_size` 2: up to two full batches, a short one, an empty last flush, a locked account; one shard, so that lines come in any order |
| `amount` | reading is exact, printing and reading agree; identifiers are not mixed up; numbering has no gaps | a row with every amount of up to 6 characters over `0 5 9 - + . x`, with 2 decimals and 11 bits: the truncation of a third decimal, both ends of the integer range, and every position of sign, point and letter occur; every pair of rows over 7 clients and 4 transactions with 4 and 5 bits, which include two numbers that agree in their low bits; every three rows of good, refused and unreadable ones |
| `account_redispute`, `account_effective`, `service_error_path`, `pipeline_log`, `metrics_errors`, `amount_wrap`, `amount_absent` | findings (violations) | as above, or less |

The bounds are constants of the configurations: `MaxTransactionId`, `Amounts`,
`Messages`, `Completions`, `BatchSize`, `Shards`, `MaxRows`, `MaxLength`, `Decimals`,
`Width`, `ClientBits`, `TransactionBits`. No action counts up without them. `account` and `pipeline` check for
deadlock; the service task does end, so its configurations do not.

Fairness. `Service!FairSpec` assumes that the runtime polls the task as long as it
can make a step (tokio's scheduler does); it assumes nothing of producers or
callers. `select!` is unbiased and gives no branch strong fairness; weak fairness
of the task as a whole is enough because the number of messages is finite: a
task that keeps receiving runs out of messages and then notices the token.
`SharedSpec` adds the same for a snapshot that has begun: the writes to its output come
to an end, one way or the other, and it has a thread besides the one that a waiting
flush blocks. `#[tokio::main]` gives it one; a runtime with a single thread does not.
`MeteredFairSpec` assumes the same of each of the four tasks of the program; that
reads of the file come back is part of it. Output may stay in a buffer for as long as nobody flushes it.

## 4. Findings

Each is a run that TLC refutes; the quotes are in `PROJECT.json`.

* `ASSUMPTIONS.md` and three doc comments describe an earlier account: disputes
  that are capped and can be repeated, partial resolves and chargebacks. The
  code, and `README.md`, have none of that.
* `server_forever` "flushes any remaining buffered messages before returning",
  but not when a flush or an acknowledgement fails.
* `main` does not wait for the task that logs failed transactions.
* `Amount::parse` multiplies without a check when there is no decimal point, so
  that a release build stores another number.
* `csv.parse_errors` counts records that the CSV library refuses, but not rows with
  a column that does not parse, which are its description.
* A row without the amount column is an error, although the documents call it
  zero, also when its other columns are in order.

What else a failed load leaves in the counters is not what `metrics.rs` describes them as. There is no
run for each; `MeteredLoaderStep` has them all, and `LoaderCounted` says nothing of a load that failed.

* `csv.files_loaded`, "Number of CSV files loaded" (`metrics.rs:23`), is added to before the file is
  opened (`csv_reader.rs:34`), so it is one after an open that failed.
* `csv.rows_parsed`, "Total rows successfully parsed from CSV files" (`metrics.rs:29`), is added to at the
  end of the file only (`csv_reader.rs:60`), and `pipeline.messages_enqueued`, "Messages sent to the service"
  (`metrics.rs:79`), after the loop of `load_file` only (`main.rs:152`). Both are zero after a bad row, although the rows
  before it were parsed and sent. The trace of `metrics_errors` ends in such a state.

Worth knowing, and contradicted by no document: `?` leaves `main` before the exporter is shut
down, so a run that fails has no last flush of its metrics, and only runs that fail have anything in
`csv.parse_errors`. What they counted before the latest periodic export is out, the rest is
lost; a snapshot taken while the task runs
shows each shard at a moment of its own; `parse` looks at the first four
characters after the point only, so that "1.2345x" is an amount; and a withdrawal can be disputed and charged back,
which takes the amount from the client a second time. `README.md` says so of
disputes, and `Ledger!Contribution` says what it adds up to.

## 5. Proofs

### The account

`AccountProofs` proves, for every `MaxTransactionId` in `Nat` and every set of
integer `Amounts` (the two named assumptions of `AccountOps`):

| Theorem | Statement |
|---|---|
| `Invariance` | `Spec => []IInv` |
| `TypeCorrect`, `AssertionsNeverFire`, `HeldNeverNegative`, `DebtBounded`, `AppliedAtMostOnce` | the invariants of the `account` run |
| `LockIsFinal` | `Spec => LockedIsFinal` |
| `AccountImplementsLedger` | `Spec => Ledger!LedgerSpec`, under the mapping of `Account` |

The argument. `CheckInvariants` is not inductive. That held does not become
negative needs that recorded amounts are positive; that total is not negative
while the account is open needs the exact debt, the sum of what was charged back;
that a second lock-out cannot happen needs that at most one transaction was ever charged
back; and `AtMostOnce` needs what an accepted operation says of the state of
its transaction from then on. `Sound` (`AccountOps`) collects the first three,
`AcceptedSound` (`Account`) is the last. `RecordSound` shows that a deposit or a
withdrawal preserves `Sound`, `MoveSound` that a transition does, and
`ProcessedSound` that any message does; `SoundImpliesAssertions` leads back to
`CheckInvariants`, sizes of the sets included. These lemmas speak of account
records and not of the variables of `Account`; they are in `AccountOpsProofs`, and
the proofs of the service use them as well.

Refinement. `Sound` says nothing of how `total` came about, so the refinement adds
`TotalSound`: total is the sum of the contributions of the entries. `StatementOfBook`
then gives the whole statement from the book. `RecordBook` and `MoveBook` say what a
deposit or withdrawal and a transition do to book and total, one lemma per method
turns that into a step of the ledger (`Recording`, `Moving`), and a refused call
is a stutter. What the theorem adds to `Sound`: the order of the calls does not
matter beyond the book they leave, so no balance can drift.

Sums. `SumTheorems` proves what the account proofs need of `SumUpTo`: it is an
integer, it is not negative for non-negative terms, zero for zeros, and an update
of one term changes it by the difference (`SumUpdate`). The induction is a
least-counterexample argument from the well-foundedness of `<` on `Nat`
(`WFMin`), because induction theorems that take a predicate as a parameter are
beyond the provers used.

### The service

`ServiceProofs` proves, for every set of clients, of messages (whose fields have
their types) and of completions, and every `BatchSize` in `Nat`, zero included:

| Theorem | Statement |
|---|---|
| `Invariance` | `Spec => []IInv` |
| `TypeCorrect`, `AccountsStaySound`, `NothingIsLostOrRepeated`, `HeapStaysBounded`, `Barrier`, `ChronologicalUnlessLate`, `StopsAreClean` | the invariants of the `service` run |
| `ServiceImplementsBank` | `Spec => Bank!BankSpec`, under the mapping of `Service` |

The argument. None of these properties is inductive. `IInv` adds what they lean on:

* `PlacesSound`: a transaction is in the channel, in the heap or among the applied,
  in one of them only and once. Without it `Without` could leave a copy behind, and the sizes in
  `NothingLostOrRepeated` would not add up.
* `BarriersSound`: what was sent before a completion is ahead of it in the channel or
  has been received, and while a completion is confirmed all that was sent before it
  has been. When its flush ends the heap is empty, so received is applied.
* `OrderSound`: nothing in the heap was there when something newer was applied.
  This is what makes an inversion a late arrival at the moment the heap gives up its oldest.
* `EndsSound`: what brought the task to where it is. Only in a task that failed may
  an application lack its answer, and only the last.
* every account is `Sound`, which `ProcessedSound` preserves.

There is one lemma for each part (`PlacesStep`, `BarriersStep`, ...), with one case for
each action that disturbs it; `Received` and `AppliedOne` say once what the two
steps with the most effect do to channel, heap and histories. `IInv` is also an invariant of the `service` run.

Refinement. `Pending` concatenates the heap, the completion being confirmed and
the channel. `JoinedShape` says what is at each place of it, and `JoinedTaken`,
`JoinedWithout` and `JoinedConfirmed` what receiving, applying and confirming do
to it: nothing, the removal of one place, and the removal of the first. `OldestIsReady` is
the heart: what the heap gives up may be applied next, because the heap holds a prefix of what
is pending. `AnswersStep` needs `EndsSound`, and the end of the task needs both it and
`BarriersSound`. `Bank` has its own copy of the account operators, `SameResults` and `SameEffects` identify them.

### A snapshot beside the service

`SharedServiceProofs` proves, with the constants of `ServiceProofs` and for every number of
shards and way to spread clients over them:

| Theorem | Statement |
|---|---|
| `ServiceInvariance` | `SharedSpec => []IInv`, the inductive invariant of the service |
| `ReaderInvariance` | `SharedSpec => []ReaderSound` |
| `ShardsStayTrue` | `SharedSpec => []ShardsAreRead` |
| `SharedServiceImplementsBank` | `SharedSpec => Bank!BankSpec`: waiting for a guard shows to nobody at the channels |

`ShardsAreRead` compares lines with accounts of the past; `ReaderSound` says what keeps
that comparable: the moments are those of the shards up to the guarded one, in the guarded one
the accounts of that moment are still those of now (`handle_buffer` waits for the guard: `Unguarded`),
and the shards behind it are complete. `AccountsAfterPrefix` (`AccountOpsProofs`) says that what is applied
later does not change what the accounts were; `ServiceKeepsReader` is the step of the service, `ReaderKeepsReader`
those of the snapshot.

### The program

`PipelineProofs` proves, for every set of files of any length, of clients, every
`BatchSize` in `Nat` and every number of shards and way to spread clients over them:

| Theorem | Statement |
|---|---|
| `ServiceInvariance` | `Spec => []Proofs!IInv`: the inductive invariant of the service holds in the program |
| `ProgramImplementsService` | `Spec => Proofs!Spec`: the program is the service with one choice of surroundings |
| `ProgramImplementsBank` | `Spec => Proofs!ImplementsBank`: its service keeps the promise of `Bank` to the other tasks |
| `Invariance` | `Spec => []IInv` |
| `TypeCorrect`, `FileOrder`, `SendsNeverFail`, `UndisturbedSnapshot`, `WholeFilesOnly`, `SequentialOutput` | the safety properties of `Pipeline` in the `pipeline` run |

The service is not proved about again. `ServiceStepOrNone` shows that every step of the
program is a step of the service in `Service.tla`, with its environment, or leaves the service
alone; so `ServiceProofs`, instantiated with the transactions of the files and the
one completion, gives its invariant. `IInv` of `Pipeline` adds what only the
program knows:

* `PlacesInOrder`: the rows that were read are, in file order, those applied,
  those in the heap and those in the channel, and the completion is behind them. Of the
  parts of `IInv` this is the one that carries the file order across the heap: the first of the heap is its
  oldest (`FirstIsOldest`), because there the rows lie by number.
* `SignalSound`: the completion is sent after the last row, and once it is
  acknowledged nothing is left (`NothingLeft`). `UndisturbedSnapshot` and `WholeFilesOnly` follow.
* `EndsSound`: who lets go of which end of a channel, and when. While `main`
  waits it holds a sender and has not cancelled, so the service runs, so `main` never leaves because
  all tasks have ended (`ReapStays`), and no send fails; nothing is ever dropped in
  the program, although `Service.tla` allows for it.
* `accounts = AccountsAfterRows[Len(processed)]`. `AccountsAfterRows` is a recursive function;
  that it satisfies its equation is `AccountsAfterUnfold` (`AccountOpsProofs`).
* `SnapshotSound`: each line is true of its account, no two lines are of one client, and
  a shard that is behind the iterator has all its lines. It needs that no account changes
  between the first line and the last, which is `SignalSound` again.

The order of dependence is what a reader of `main.rs` could not see at one place: the
output is right because the snapshot is undisturbed, which it is because the
acknowledgement is a barrier, which it is because loader and service share one
channel with the rows in order.

### The counters

`MetricsProofs` proves, with the constants of `PipelineProofs`:

| Theorem | Statement |
|---|---|
| `CountersInvariance` | `MeteredSpec => []CountersSound` |
| `CountersTrail` | `MeteredSpec => []CountersTrailByABatch` |
| `CountersAgreeAtTheEnd` | `MeteredSpec => []CountersAgree` |

A step that counts is a step of the program (`MeteredStep`), so all that is proved of
the program holds here (`KnownAlways`). Each instrument belongs to one task, and what the others do
leaves it alone (`LoaderCounts`, `OutcomeCounts`, `MainCounts`, `ServiceMeters`). `CountersSound` has
one part for each:

* `ServiceCounted`: counters and `tally` together are what was applied; between two batches the tally is empty.
* `BatchesCounted`: of the completed batches all are full, except that the one which ends with the
  completion may be short. It holds because `main` cancels after the acknowledgement only, so that
  no token ends a batch early (`WaitsForSignal`); a load that fails takes `main` out first.
* `LoaderCounted`: as long as the load has not failed, the file is counted when it is opened, and rows and
  messages all at once after the last send. `CountersAgree` needs no more, since `main` prints nothing after a
  failed load; what such a load leaves in the counters is in section 4.
* `OutcomesCounted`: what the outcome task has handled.
* `SnapshotCounted`: the lines counted are those of the accounts, one each (`OneLineEach`, from `SnapshotSound`).

`NumberOfBatches` turns full batches and a short one into the quotient that `CountersAgree`
speaks of. An earlier form of these statements divided by `BatchSize` and was wrong for zero, where the heap is
applied at every message, as it is for one: `Limit` is the size at which the heap is applied.

### The reader

`CsvReaderProofs` proves, for every set of files of any records (`FilesAssumption`: a record is
`Unreadable` or has its columns, each of which is `Absent` or a text), every number of decimals but
none, every width of amounts and identifiers, and builds that check for overflow or wrap:

| Theorem | Statement |
|---|---|
| `ReaderInvariance` | `Spec => []ReaderSound` |
| `ReaderTypeCorrect`, `Numbering`, `NoTwoIdentifiersMeet` | the invariants `TypeOK`, `RowsAreNumbered` and `NoAliases` of the `amount` run |
| `AmountsAreExact` | `OverflowChecks => (Spec => []NumeralsAreExact)`; without the checks it is refuted, by the `amount_wrap` run |
| `PointedAmountsAreExact` | `Spec => []PointedNumeralsAreExact`: a numeral with a point is read exactly in every build |
| `AmountsSurviveRoundTrip` | `Spec => []RoundTrip`, in every build |

`ReaderSound` adds that every message is read from its own row and that `chrono_order` is the number of
rows accepted so far, refused ones left out. That amounts fit needs that a wrapped product does
(`MachineProductType`), and that powers of two are positive (`PowerOfTwo`: they count subsets). `NoAliases` is
a fact about numerals: `SameNumberSameDigits` compares two texts from their last digit
to their first, where a sum of ten times a number and a digit determines both; what is left of the
longer text is zeros. `NumberIsValue` shows that the recursive function in `Number` is
well-defined, by the induction of `SumTheorems`.

Amounts are arithmetic with a variable exponent, of which the provers know no equation. So
`TenTo` multiplies factor by factor, and `TenToNext` and `TenToSum` are its laws; `NumberOfConcatenation`
says that putting a text before another of n digits multiplies its number by `TenTo(n)`, and `NumberIsBounded` that n
digits stay below it. From these:

* Reading (`ParseOfNumeral`). `parse` cuts or fills the fraction and reads one integer; `Scaled` works
  with all digits and divides. `KeptValue` shows that the two agree: a short fraction makes the
  quotient exact (`KeptShort`), the digits cut from a long one are a remainder (`KeptLong`), and a
  quotient is determined by its remainder's bounds (`DivisionIsUnique`).
* Printing (`ParseOfDisplay`). `DigitsOf` has as many digits as it needs (`FittingSize`), and they are
  those of the number (`DigitsOfNumber`: digit by digit, each prefix is a quotient). The integer part and the padded fraction
  of the text are then read as quotient and remainder by `SCALE`, which add up.
* Rows. `AmountsAreRead`, inductive beside `ReaderSound`, says that the amount of a message is that of its row.

The number of decimals is not zero (`DecimalsAssumption`; it is 4 in the code): `.` alone is read as
zero because it is filled up with decimals, and with none `parse` would refuse it.

### Only model-checked

Liveness: fairness and ENABLED are out of the provers' reach. Statements that the code
refutes are runs, under Findings: `amount_wrap` shows that a build which does not check may store
a wrapped product, and `PointedAmountsAreExact` that it takes a numeral without a point.

### How far a proof can be trusted

The SMT encoding of this prover has two weak places, and a leaf that mixes the wrong facts could be
proved from a contradiction in the encoding and not from its facts: it reduces the intersection of two
enumerated sets as if different variables had different values, and it treats a function on
another domain as a sequence when lengths are spoken of too. Leaves are therefore small, definitions with such
intersections are not expanded (`FromStr` behind `MessageType`), and witnesses that are functions
are hidden once their property is known. As a test, the goal of each leaf was replaced by FALSE: what is
still proved then are the cases that cannot occur, and each of these was looked at.

## 6. Not modelled

The CSV library (how lines are split, trimmed and laid out: what it does to a row is
`Unreadable`, `Absent` or four texts), the exporter of the metrics (it formats log
lines, from time to time and once more when `main` shuts it down; `CountersAgree` is about the moment of that last
flush, and no property is about a flush that never comes), durations, the command line (one argument), and `payments.qnt` (not code of
the program). The log: it is off by default, and goes to the standard output when it is
on, where nothing keeps it apart from the accounts. Panics of tasks: the assertions that
could panic are proved not to fire, and the overflow of an amount in a build that
checks for it ends the load as an error does. Memory is not: the
service channel is unbounded, so no bound could be stated.

## 7. Plan

Done, in this order: `Sums`, `AccountOps`, `Account`, `Ledger`, `SumTheorems`,
`AccountProofs`, `Service`, `Pipeline`, `Amount`; then `Bank`, `Snapshot`,
`SharedService`, `CsvReader` and `Metrics`, with the pipeline built on them; then the proofs
about the service, `ServiceProofs` and `SharedServiceProofs`, about the program, `PipelineProofs`,
about its counters, `MetricsProofs`,
and about the reader, `CsvReaderProofs`.

Then the refinement of `Bank` by the service beside a snapshot and in the program, and the amounts: read
exactly, printed and read again.

Left to TLC: liveness. A next step would be a `Bank` with the fairness its callers rely on, checked
as a refinement of `FairSpec`.
