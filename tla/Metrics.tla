------------------------------ MODULE Metrics ------------------------------
(***************************************************************************)
(* The instruments of src/metrics.rs, counted by the steps of the program  *)
(* of Pipeline.tla.  Each step counts at the place where the code does:    *)
(* some at once, some only when a file, a batch, a snapshot or a task has  *)
(* come to its end.                                                        *)
(*                                                                         *)
(* Left out: durations, the label of the transaction type, and the         *)
(* exporter, which reads the instruments from time to time and once more   *)
(* when main shuts it down.                                                *)
(***************************************************************************)
EXTENDS Pipeline

VARIABLES
  metrics,      \* the value of each instrument; of a histogram, the sum
  tally         \* locals that are added later: handle_buffer's two, write_snapshot's one

meteredVars == <<vars, metrics, tally>>

Instrument ==
  { "csv_files_loaded", "csv_parse_errors", "csv_rows_parsed",
    "service_ticks", "service_accounts_total",
    "service_batches_processed", "service_batch_size",
    "service_transactions_ok", "service_transactions_error",
    "service_batch_transactions_ok", "service_batch_transactions_failed",
    "snapshot_accounts_written", "snapshot_accounts_locked",
    "pipeline_messages_enqueued", "pipeline_transactions_ok",
    "pipeline_transactions_failed" }

MeteredInit ==
  /\ Init
  /\ metrics = [i \in Instrument |-> 0]
  /\ tally = [ok |-> 0, failed |-> 0, accounts |-> 0]

(* more says by how much instruments go up.                                *)
Count(more) ==
  metrics' = [i \in Instrument |-> metrics[i] + (IF i \in DOMAIN more THEN more[i] ELSE 0)]

Nothing == UNCHANGED <<metrics, tally>>

-----------------------------------------------------------------------------
(* A row whose record cannot be read is counted as an error; one with a    *)
(* column that is refused is not.  Rows and messages are counted together, *)
(* at the end of the file; the file itself before it is opened, whether    *)
(* that fails or not.                                                      *)
MeteredLoaderStep ==
  /\ ~ exited
  /\ UNCHANGED tally
  /\ \/ Open /\ Count([csv_files_loaded |-> 1])
     \/ ReadRow /\ UNCHANGED metrics
     \/ ReadBadRow /\ Count([csv_parse_errors |-> IF file[chrono + 1] = BadRecord THEN 1 ELSE 0])
     \/ EndOfFile /\ Count([csv_rows_parsed |-> chrono, pipeline_messages_enqueued |-> chrono])

-----------------------------------------------------------------------------
(* Faulty variant: the size of a batch is taken when it has been drained.  *)
BatchSizeOfDrained(heap) == 0

(* What service_batch_size records when a flush of the heap begins.        *)
BatchSizeOf(heap) == Len(heap)

(* Faulty variant: what a batch has counted is kept for the next one.      *)
KeptTally == tally

(* A flush begins to count anew.                                           *)
FreshTally == [tally EXCEPT !.ok = 0, !.failed = 0]

(* A message is a tick; a flush of an empty heap counts for nothing.       *)
Selected ==
  /\ pc = "Select"
  /\ LET flushing == pc' \in {"Flush", "FinalFlush"} /\ buffer' # <<>> IN
     /\ Count([ service_ticks             |-> IF queue' # queue THEN 1 ELSE 0,
                service_batches_processed |-> IF flushing THEN 1 ELSE 0,
                service_batch_size        |-> IF flushing THEN BatchSizeOf(buffer') ELSE 0 ])
     /\ tally' = FreshTally

(* Every outcome counts at once, and in the tally of its batch.            *)
Applying ==
  /\ processed' # processed
  /\ IF processed'[Len(processed')].result = "Ok"
     THEN Count([service_transactions_ok |-> 1]) /\ tally' = [tally EXCEPT !.ok = @ + 1]
     ELSE Count([service_transactions_error |-> 1])
            /\ tally' = [tally EXCEPT !.failed = @ + 1]

(* Faulty variant: only one of the two tallies is added.                   *)
FlushedOkOnly ==
  /\ pc # "Select" /\ processed' = processed
  /\ metrics' = [metrics EXCEPT
       !["service_batch_transactions_ok"] = @ + tally.ok,
       !["service_accounts_total"] =
          IF tally.ok + tally.failed = 0 THEN @ ELSE Cardinality(DOMAIN accounts)]
  /\ UNCHANGED tally

(* The tally is added, and the number of accounts recorded, when the batch *)
(* is through, unless it was empty.                                        *)
Flushed ==
  /\ pc # "Select" /\ processed' = processed
  /\ metrics' = [metrics EXCEPT
       !["service_batch_transactions_ok"] = @ + tally.ok,
       !["service_batch_transactions_failed"] = @ + tally.failed,
       !["service_accounts_total"] =
          IF tally.ok + tally.failed = 0 THEN @ ELSE Cardinality(DOMAIN accounts)]
  /\ UNCHANGED tally

MeteredServiceStep == ServiceStep /\ (Selected \/ Applying \/ Flushed)

-----------------------------------------------------------------------------
(* The outcome task adds what it counted when its channel is closed.       *)
MeteredOutcomeStep ==
  /\ ~ exited
  /\ UNCHANGED tally
  /\ LET ok == {i \in 1 .. handled : processed[i].result = "Ok"} IN
     \/ TakeOutcome /\ UNCHANGED metrics
     \/ /\ EndOutcomes
        /\ Count([ pipeline_transactions_ok     |-> Cardinality(ok),
                   pipeline_transactions_failed |-> handled - Cardinality(ok) ])

(* write_snapshot counts the accounts after the header, and records that   *)
(* number and the locked ones among its lines after the last flush.        *)
MeteredMainStep ==
  /\ MainStep
  /\ tally' = IF snapshot = "Header" /\ snapshot' = "Rows"
              THEN [tally EXCEPT !.accounts = Cardinality(DOMAIN accounts)] ELSE tally
  /\ metrics' = IF snapshot' = "Done" /\ snapshot # "Done"
                THEN [metrics EXCEPT
                  !["snapshot_accounts_written"] = tally.accounts,
                  !["snapshot_accounts_locked"] =
                     Cardinality({i \in 2 .. Len(lines) : lines[i].statement.locked})]
                ELSE metrics

MeteredNext ==
  \/ MeteredLoaderStep
  \/ MeteredServiceStep
  \/ MeteredOutcomeStep
  \/ MeteredMainStep
  \/ OutputStep /\ Nothing
  \/ Exited /\ Nothing

MeteredSpec == MeteredInit /\ [][MeteredNext]_meteredVars

MeteredFairSpec ==
  /\ MeteredSpec
  /\ WF_meteredVars(MeteredLoaderStep) /\ WF_meteredVars(MeteredServiceStep)
  /\ WF_meteredVars(MeteredOutcomeStep) /\ WF_meteredVars(MeteredMainStep)

-----------------------------------------------------------------------------
(***************************************************************************)
(* Properties.                                                             *)
(***************************************************************************)

(* The most that a batch can hold, as in Service!HeapBounded.              *)
Limit == IF BatchSize = 0 THEN 1 ELSE BatchSize

(* Whenever the instruments are read, they miss or anticipate no more than *)
(* the batch that is in flight: what was applied and what was said to be   *)
(* in a batch differ by what is left of it, and what was applied and what  *)
(* was added up per batch by what it has done so far.  The outcome task    *)
(* adds all or nothing.                                                    *)
CountersTrailByABatch ==
  LET applied == metrics.service_transactions_ok + metrics.service_transactions_error
      batched == metrics.service_batch_transactions_ok
                   + metrics.service_batch_transactions_failed
  IN  /\ applied = Len(processed)
      /\ metrics.service_batch_size - applied = IF pc = "Select" THEN 0 ELSE Len(buffer)
      /\ applied - batched \in 0 .. Limit
      /\ pc = "Select" => batched = applied
      /\ metrics.pipeline_transactions_ok + metrics.pipeline_transactions_failed
           \in {0, Len(processed)}

(* When main gets as far as shutting the exporter down after a snapshot,   *)
(* all that reader, loader, service and snapshot counted agrees, with each *)
(* other and with the file, the accounts and the output: so does what the  *)
(* last flush of the metrics reports, whatever was exported before it.     *)
CountersAgree ==
  main \in {"Finishing", "Returned"} =>
    LET rows == Len(file) IN
    /\ metrics.csv_files_loaded = 1 /\ metrics.csv_parse_errors = 0
    /\ metrics.csv_rows_parsed = rows /\ metrics.pipeline_messages_enqueued = rows
    /\ metrics.service_ticks = rows + 1
    /\ metrics.service_batch_transactions_ok + metrics.service_batch_transactions_failed = rows
    /\ metrics.service_batch_transactions_failed = metrics.service_transactions_error
    /\ metrics.service_batches_processed = (rows + Limit - 1) \div Limit
    /\ metrics.service_accounts_total = Cardinality(DOMAIN accounts)
    /\ metrics.snapshot_accounts_written = delivered - 1
    /\ metrics.snapshot_accounts_written = Cardinality(DOMAIN accounts)
    /\ metrics.snapshot_accounts_locked = Cardinality({c \in DOMAIN accounts : accounts[c].locked})

(***************************************************************************)
(* The inductive invariant behind the theorems of MetricsProofs.           *)
(***************************************************************************)

CountersTyped ==
  /\ metrics \in [Instrument -> Nat]
  /\ tally \in [ok : Nat, failed : Nat, accounts : Nat]

Flushing == pc \in {"Flush", "FinalFlush"}

(* Has the service taken the completion out of its channel?                *)
SignalTaken == Signal \in acked \/ confirming = Signal

(* Each sum of the service is behind by what the current flush has done,   *)
(* or ahead by what it has left.                                           *)
ServiceCounted ==
  /\ metrics.service_transactions_ok + metrics.service_transactions_error = Len(processed)
  /\ metrics.service_transactions_ok
       = metrics.service_batch_transactions_ok + IF Flushing THEN tally.ok ELSE 0
  /\ metrics.service_transactions_error
       = metrics.service_batch_transactions_failed + IF Flushing THEN tally.failed ELSE 0
  /\ metrics.service_batch_size = Len(processed) + IF Flushing THEN Len(buffer) ELSE 0
  /\ Flushing => tally.ok + tally.failed + Len(buffer) <= Limit
  /\ Flushing /\ Signal \in acked => tally.ok + tally.failed = 0
  /\ ~ Flushing \/ tally.ok + tally.failed = 0 =>
       metrics.service_accounts_total = Cardinality(DOMAIN accounts)
  /\ metrics.service_ticks = Len(processed) + Len(buffer) + IF SignalTaken THEN 1 ELSE 0

(* While main waits all batches are full, but for the one that ends with   *)
(* the completion; and it waits for that, unless the load has failed.      *)
BatchesCounted ==
  LET full == metrics.service_batches_processed * Limit IN
  /\ ~ SignalTaken /\ main = "Waiting" =>
       full = Len(processed) + IF Flushing THEN Len(buffer) ELSE 0
  /\ SignalTaken => full - Limit < Len(file) /\ Len(file) <= full
  /\ loader = "Loaded" /\ main # "Waiting" => Signal \in acked

(* A load that has not failed counts its file when it is opened, and its   *)
(* rows and messages when it has come to the end.  Nothing is said of one  *)
(* that has failed: what it leaves in the counters is not what they are    *)
(* described as.                                                           *)
LoaderCounted ==
  loader # "Failed" =>
    LET counted == IF loader = "Loaded" THEN chrono ELSE 0 IN
    /\ metrics.csv_files_loaded = IF loader = "Opening" THEN 0 ELSE 1
    /\ metrics.csv_parse_errors = 0
    /\ metrics.csv_rows_parsed = counted /\ metrics.pipeline_messages_enqueued = counted

OutcomesCounted ==
  metrics.pipeline_transactions_ok + metrics.pipeline_transactions_failed
    = IF logger = "Running" THEN 0 ELSE Len(processed)

SnapshotCounted ==
  /\ snapshot \in {"Rows", "Flush", "Done"} => tally.accounts = Cardinality(DOMAIN accounts)
  /\ snapshot = "Done" =>
       /\ metrics.snapshot_accounts_written = tally.accounts
       /\ metrics.snapshot_accounts_locked
            = Cardinality({c \in DOMAIN accounts : accounts[c].locked})

CountersSound ==
  /\ CountersTyped
  /\ ServiceCounted
  /\ BatchesCounted
  /\ LoaderCounted
  /\ OutcomesCounted
  /\ SnapshotCounted

(* "Number of CSV rows that failed to parse" (the description of           *)
(* csv.parse_errors, metrics.rs): a load that ends after its first row and *)
(* before the end of the file ends at such a row.                          *)
ParseErrorsAreCounted ==
  loader = "Failed" /\ chrono > 0 => metrics.csv_parse_errors = 1

=============================================================================
