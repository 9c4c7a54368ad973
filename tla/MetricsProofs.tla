---------------------------- MODULE MetricsProofs ----------------------------
(***************************************************************************)
(* Proofs about the instruments, for every set of input files and every    *)
(* batch size.  Counting changes nothing of what the program does, so all  *)
(* that PipelineProofs shows of it holds here; the counters need an        *)
(* inductive invariant of their own, CountersSound.                        *)
(***************************************************************************)
EXTENDS Metrics, PipelineProofs

(* What PipelineProofs knows of every state.                               *)
Known == IInv /\ FileKept /\ Proofs!IInv

(* A step that counts is a step of the program.                            *)
LEMMA MeteredStep == MeteredNext => Next
BY DEF MeteredNext, MeteredLoaderStep, MeteredServiceStep, MeteredOutcomeStep,
   MeteredMainStep, Next, LoaderStep, OutcomeStep

LEMMA KnownAlways == MeteredSpec => []Known
<1>1. MeteredInit => Init
  BY DEF MeteredInit
<1>2. [MeteredNext]_meteredVars => [Next]_vars
  BY MeteredStep DEF meteredVars
<1>3. MeteredSpec => Spec
  BY <1>1, <1>2, PTL DEF MeteredSpec, Spec
<1>4. IInv /\ FileKept /\ Proofs!IInv => Known
  BY DEF Known
<1>5. QED
  BY <1>3, <1>4, Invariance, FileStays, ServiceInvariance, PTL

-----------------------------------------------------------------------------
(***************************************************************************)
(* Who counts what.                                                        *)
(***************************************************************************)

LoaderInstrument ==
  {"csv_files_loaded", "csv_parse_errors", "csv_rows_parsed", "pipeline_messages_enqueued"}

ServiceInstrument ==
  { "service_ticks", "service_accounts_total", "service_batches_processed",
    "service_batch_size", "service_transactions_ok", "service_transactions_error",
    "service_batch_transactions_ok", "service_batch_transactions_failed" }

OutcomeInstrument == {"pipeline_transactions_ok", "pipeline_transactions_failed"}

SnapshotInstrument == {"snapshot_accounts_written", "snapshot_accounts_locked"}

Kept(S) == \A i \in S : metrics'[i] = metrics[i]

LEMMA InstrumentsSplit ==
  Instrument = LoaderInstrument \cup ServiceInstrument \cup OutcomeInstrument
                 \cup SnapshotInstrument
BY DEF Instrument, LoaderInstrument, ServiceInstrument, OutcomeInstrument, SnapshotInstrument

(* What Count adds.                                                        *)
LEMMA Counting ==
  ASSUME metrics \in [Instrument -> Nat], NEW more, Count(more),
         \A i \in DOMAIN more : more[i] \in Nat
  PROVE  /\ metrics' \in [Instrument -> Nat]
         /\ \A i \in Instrument \ DOMAIN more : metrics'[i] = metrics[i]
         /\ \A i \in Instrument \cap DOMAIN more : metrics'[i] = metrics[i] + more[i]
<1>1. metrics' = [i \in Instrument |->
                    metrics[i] + (IF i \in DOMAIN more THEN more[i] ELSE 0)]
  BY DEF Count
<1>2. ASSUME NEW i \in Instrument
      PROVE  /\ metrics[i] \in Nat
             /\ (IF i \in DOMAIN more THEN more[i] ELSE 0) \in Nat
  OBVIOUS
<1>3. ASSUME NEW i \in Instrument
      PROVE  /\ metrics'[i] \in Nat
             /\ i \notin DOMAIN more => metrics'[i] = metrics[i]
             /\ i \in DOMAIN more => metrics'[i] = metrics[i] + more[i]
  BY <1>1, <1>2, <1>3
<1>4. metrics' \in [Instrument -> Nat]
  BY <1>1, <1>2
<1>5. QED
  BY <1>3, <1>4

(* The loader.                                                             *)
LEMMA LoaderCounts ==
  ASSUME CountersTyped, chrono \in Nat, MeteredLoaderStep
  PROVE  /\ tally' = tally /\ metrics' \in [Instrument -> Nat]
         /\ Kept(ServiceInstrument) /\ Kept(OutcomeInstrument) /\ Kept(SnapshotInstrument)
         /\ \/ /\ Open
               /\ metrics'.csv_files_loaded = metrics.csv_files_loaded + 1
               /\ Kept({"csv_parse_errors", "csv_rows_parsed", "pipeline_messages_enqueued"})
            \/ ReadRow /\ Kept(LoaderInstrument)
            \/ /\ ReadBadRow
               /\ Kept({"csv_files_loaded", "csv_rows_parsed", "pipeline_messages_enqueued"})
            \/ /\ EndOfFile
               /\ metrics'.csv_rows_parsed = metrics.csv_rows_parsed + chrono
               /\ metrics'.pipeline_messages_enqueued
                    = metrics.pipeline_messages_enqueued + chrono
               /\ Kept({"csv_files_loaded", "csv_parse_errors"})
<1> USE DEF Kept, LoaderInstrument, ServiceInstrument, OutcomeInstrument, SnapshotInstrument
<1>1. metrics \in [Instrument -> Nat] /\ tally' = tally
  BY DEF CountersTyped, MeteredLoaderStep
<1>2. CASE Open /\ Count([csv_files_loaded |-> 1])
  <2> DEFINE more == [csv_files_loaded |-> 1]
  <2>1. DOMAIN more = {"csv_files_loaded"} /\ more["csv_files_loaded"] = 1
    OBVIOUS
  <2> HIDE DEF more
  <2>2. /\ metrics' \in [Instrument -> Nat]
        /\ \A i \in Instrument \ DOMAIN more : metrics'[i] = metrics[i]
        /\ \A i \in Instrument \cap DOMAIN more : metrics'[i] = metrics[i] + more[i]
    BY <1>1, <1>2, <2>1, Counting DEF more
  <2>3. QED
    BY <1>1, <1>2, <2>1, <2>2 DEF Instrument
<1>3. CASE ReadRow /\ UNCHANGED metrics
  BY <1>1, <1>3
<1>4. CASE ReadBadRow /\ Count([ csv_parse_errors |->
                                   IF file[chrono + 1] = BadRecord THEN 1 ELSE 0 ])
  <2> DEFINE more == [csv_parse_errors |-> IF file[chrono + 1] = BadRecord THEN 1 ELSE 0]
  <2>1. DOMAIN more = {"csv_parse_errors"} /\ more["csv_parse_errors"] \in Nat
    OBVIOUS
  <2> HIDE DEF more
  <2>2. /\ metrics' \in [Instrument -> Nat]
        /\ \A i \in Instrument \ DOMAIN more : metrics'[i] = metrics[i]
    BY <1>1, <1>4, <2>1, Counting DEF more
  <2>3. QED
    BY <1>1, <1>4, <2>1, <2>2 DEF Instrument
<1>5. CASE EndOfFile /\ Count([ csv_rows_parsed |-> chrono,
                                pipeline_messages_enqueued |-> chrono ])
  <2> DEFINE more == [csv_rows_parsed |-> chrono, pipeline_messages_enqueued |-> chrono]
  <2>1. /\ DOMAIN more = {"csv_rows_parsed", "pipeline_messages_enqueued"}
        /\ more["csv_rows_parsed"] = chrono /\ more["pipeline_messages_enqueued"] = chrono
    OBVIOUS
  <2> HIDE DEF more
  <2>2. /\ metrics' \in [Instrument -> Nat]
        /\ \A i \in Instrument \ DOMAIN more : metrics'[i] = metrics[i]
        /\ \A i \in Instrument \cap DOMAIN more : metrics'[i] = metrics[i] + more[i]
    BY <1>1, <1>5, <2>1, Counting DEF more
  <2>3. QED
    BY <1>1, <1>5, <2>1, <2>2 DEF Instrument
<1>6. QED
  BY <1>2, <1>3, <1>4, <1>5 DEF MeteredLoaderStep

(* The outcome task, for whatever it has taken.                            *)
LEMMA OutcomeCounts ==
  ASSUME CountersTyped, handled \in Nat, MeteredOutcomeStep
  PROVE  /\ tally' = tally /\ metrics' \in [Instrument -> Nat]
         /\ Kept(LoaderInstrument) /\ Kept(ServiceInstrument) /\ Kept(SnapshotInstrument)
         /\ \/ TakeOutcome /\ Kept(OutcomeInstrument)
            \/ /\ EndOutcomes
               /\ metrics'.pipeline_transactions_ok + metrics'.pipeline_transactions_failed
                    = metrics.pipeline_transactions_ok + metrics.pipeline_transactions_failed
                        + handled
<1> USE DEF Kept, LoaderInstrument, ServiceInstrument, OutcomeInstrument, SnapshotInstrument
<1> DEFINE ok == {i \in 1 .. handled : processed[i].result = "Ok"}
           more == [ pipeline_transactions_ok     |-> Cardinality(ok),
                     pipeline_transactions_failed |-> handled - Cardinality(ok) ]
<1>1. metrics \in [Instrument -> Nat] /\ tally' = tally
  BY DEF CountersTyped, MeteredOutcomeStep
<1>2. CASE TakeOutcome /\ UNCHANGED metrics
  BY <1>1, <1>2
<1>3. Cardinality(ok) \in Nat /\ Cardinality(ok) <= handled
  <2>1. IsFiniteSet(1 .. handled) /\ Cardinality(1 .. handled) = handled
    <3>1. 1 \in Int /\ handled \in Int /\ (handled = 0 \/ 1 <= handled)
      OBVIOUS
    <3>2. /\ IsFiniteSet(1 .. handled)
          /\ Cardinality(1 .. handled) = IF 1 > handled THEN 0 ELSE handled - 1 + 1
      BY <3>1, FS_Interval
    <3>3. QED
      BY <3>1, <3>2
  <2>2. ok \subseteq 1 .. handled
    OBVIOUS
  <2>3. IsFiniteSet(ok) /\ Cardinality(ok) <= handled
    BY <2>1, <2>2, FS_Subset
  <2>4. QED
    BY <2>3, FS_CardinalityType
<1>4. CASE EndOutcomes /\ Count(more)
  <2>1. /\ DOMAIN more = OutcomeInstrument
        /\ more["pipeline_transactions_ok"] = Cardinality(ok)
        /\ more["pipeline_transactions_failed"] = handled - Cardinality(ok)
    OBVIOUS
  <2> HIDE DEF ok, more
  <2>2. more["pipeline_transactions_ok"] \in Nat /\ more["pipeline_transactions_failed"] \in Nat
    BY <1>3, <2>1
  <2>3. \A i \in DOMAIN more : more[i] \in Nat
    BY <2>1, <2>2
  <2>4. /\ metrics' \in [Instrument -> Nat]
        /\ \A i \in Instrument \ DOMAIN more : metrics'[i] = metrics[i]
        /\ \A i \in Instrument \cap DOMAIN more : metrics'[i] = metrics[i] + more[i]
    BY <1>1, <1>4, <2>3, Counting
  <2>5. /\ metrics'.pipeline_transactions_ok
             = metrics.pipeline_transactions_ok + Cardinality(ok)
        /\ metrics'.pipeline_transactions_failed
             = metrics.pipeline_transactions_failed + (handled - Cardinality(ok))
    BY <2>1, <2>4 DEF Instrument
  <2>6. /\ metrics.pipeline_transactions_ok \in Nat
        /\ metrics.pipeline_transactions_failed \in Nat
    BY <1>1 DEF Instrument
  <2>7. metrics'.pipeline_transactions_ok + metrics'.pipeline_transactions_failed
          = metrics.pipeline_transactions_ok + metrics.pipeline_transactions_failed + handled
    BY <1>3, <2>5, <2>6
  <2>8. Kept(LoaderInstrument) /\ Kept(ServiceInstrument) /\ Kept(SnapshotInstrument)
    BY <2>1, <2>4 DEF Instrument
  <2>9. QED
    BY <1>1, <1>4, <2>4, <2>7, <2>8
<1>5. QED
  BY <1>2, <1>4 DEF MeteredOutcomeStep

(* main.                                                                   *)
LEMMA MainCounts ==
  ASSUME CountersTyped, MeteredMainStep,
         Cardinality(DOMAIN accounts) \in Nat,
         Cardinality({i \in 2 .. Len(lines) : lines[i].statement.locked}) \in Nat
  PROVE  /\ MainStep
         /\ metrics' \in [Instrument -> Nat] /\ tally' \in [ok : Nat, failed : Nat, accounts : Nat]
         /\ Kept(LoaderInstrument) /\ Kept(ServiceInstrument) /\ Kept(OutcomeInstrument)
         /\ tally'.ok = tally.ok /\ tally'.failed = tally.failed
         /\ IF snapshot = "Header" /\ snapshot' = "Rows"
            THEN tally'.accounts = Cardinality(DOMAIN accounts)
            ELSE tally'.accounts = tally.accounts
         /\ IF snapshot' = "Done" /\ snapshot # "Done"
            THEN /\ metrics'.snapshot_accounts_written = tally.accounts
                 /\ metrics'.snapshot_accounts_locked
                      = Cardinality({i \in 2 .. Len(lines) : lines[i].statement.locked})
            ELSE Kept(SnapshotInstrument)
<1> USE DEF Kept, LoaderInstrument, ServiceInstrument, OutcomeInstrument, SnapshotInstrument
<1> DEFINE locked == Cardinality({i \in 2 .. Len(lines) : lines[i].statement.locked})
<1>1. /\ metrics \in [Instrument -> Nat] /\ tally \in [ok : Nat, failed : Nat, accounts : Nat]
      /\ locked \in Nat
  BY DEF CountersTyped
<1>2. /\ MainStep
      /\ tally' = IF snapshot = "Header" /\ snapshot' = "Rows"
                  THEN [tally EXCEPT !.accounts = Cardinality(DOMAIN accounts)] ELSE tally
      /\ metrics' = IF snapshot' = "Done" /\ snapshot # "Done"
                    THEN [metrics EXCEPT !["snapshot_accounts_written"] = tally.accounts,
                                         !["snapshot_accounts_locked"] = locked]
                    ELSE metrics
  BY DEF MeteredMainStep
<1> HIDE DEF locked
<1>3. /\ tally' \in [ok : Nat, failed : Nat, accounts : Nat]
      /\ tally'.ok = tally.ok /\ tally'.failed = tally.failed
      /\ IF snapshot = "Header" /\ snapshot' = "Rows"
         THEN tally'.accounts = Cardinality(DOMAIN accounts)
         ELSE tally'.accounts = tally.accounts
  BY <1>1, <1>2
<1>4. /\ metrics' \in [Instrument -> Nat]
      /\ Kept(LoaderInstrument) /\ Kept(ServiceInstrument) /\ Kept(OutcomeInstrument)
      /\ IF snapshot' = "Done" /\ snapshot # "Done"
         THEN /\ metrics'.snapshot_accounts_written = tally.accounts
              /\ metrics'.snapshot_accounts_locked = locked
         ELSE Kept(SnapshotInstrument)
  BY <1>1, <1>2 DEF Instrument
<1>5. QED
  BY <1>2, <1>3, <1>4 DEF locked

-----------------------------------------------------------------------------
(***************************************************************************)
(* What the service does where it counts.                                  *)
(***************************************************************************)

LEMMA LimitType == Limit \in Nat \ {0}
BY BatchSizeAssumption DEF Limit

(* What is known of the service.                                           *)
LEMMA KnownService ==
  ASSUME Known
  PROVE  /\ Service!TypeOK /\ PlacesInOrder /\ SignalSound /\ EndsSound
         /\ file \in Files /\ chrono \in 0 .. Len(file) /\ chrono \in Nat /\ Len(file) \in Nat
         /\ queue \in Seq(Service!Envelope) /\ buffer \in Seq(AllTransactions)
         /\ Len(buffer) \in Nat /\ Len(processed) \in Nat
         /\ Len(processed) + Len(buffer) <= chrono
         /\ confirming \in {Signal, NoCompletion} /\ NoCompletion # Signal
         /\ Len(buffer) <= Limit /\ (pc = "Select" => Len(buffer) < Limit)
         /\ pc \in {"Select", "Flush", "FinalFlush", "Returned"}
         /\ pc = "Returned" => buffer = <<>>
<1>1. /\ Service!TypeOK /\ PlacesInOrder /\ SignalSound /\ EndsSound
      /\ file \in Files /\ chrono \in 0 .. Len(file) /\ chrono \in Nat /\ Len(file) \in Nat
  BY FileType DEF Known, IInv, TypeOK, FileKept
<1>2. /\ queue \in Seq(Service!Envelope) /\ buffer \in Seq(AllTransactions)
      /\ Len(buffer) \in Nat /\ Len(processed) \in Nat
      /\ confirming \in {Signal, NoCompletion}
  BY <1>1, ServiceTyped
<1>3. Len(processed) + Len(buffer) <= chrono
  BY <1>1, <1>2 DEF PlacesInOrder
<1>4. Len(buffer) <= Limit /\ (pc = "Select" => Len(buffer) < Limit)
  BY DEF Known, Proofs!IInv, Proofs!HeapBounded, Limit
<1>5. pc \in {"Select", "Flush", "FinalFlush", "Returned"}
  BY <1>1, ServiceTyped DEF EndsSound
<1>6. pc = "Returned" => buffer = <<>>
  BY DEF Known, Proofs!IInv, Proofs!EndsSound, Proofs!Running
<1>7. QED
  BY <1>1, <1>2, <1>3, <1>4, <1>5, <1>6, NoCompletionAssumption

(* Once the completion was acknowledged the heap is empty.                 *)
LEMMA AcknowledgedAll ==
  ASSUME Known, Signal \in acked
  PROVE  /\ Len(processed) = chrono /\ buffer = <<>> /\ queue = <<>>
         /\ loader = "Loaded" /\ chrono = Len(file)
<1>1. Len(processed) = chrono
  BY KnownService DEF SignalSound
<1>2. ~ SignalQueued
  BY DEF SignalQueued
<1>3. Signal \in DOMAIN before
  BY KnownService, ServiceTyped
<1>4. QED
  BY <1>1, <1>2, <1>3, NothingLeft, KnownService DEF Known, SignalSound

LEMMA TailIsShorter ==
  ASSUME NEW S, NEW s \in Seq(S), s # <<>>
  PROVE  Tail(s) # s
<1>1. Len(Tail(s)) = Len(s) - 1 /\ Len(s) \in Nat
  BY HeadTailProperties
<1>2. \A n \in Nat : n - 1 # n
  OBVIOUS
<1>3. Len(Tail(s)) # Len(s)
  BY <1>1, <1>2, Zenon
<1>4. QED
  BY <1>3, Zenon

(* A step of the select loop.                                              *)
LEMMA Selecting ==
  ASSUME Known, ServiceStep, pc = "Select"
  PROVE  /\ UNCHANGED <<processed, accounts, acked>>
         /\ \/ /\ UNCHANGED <<queue, buffer, confirming>> /\ pc' = "FinalFlush"
               /\ main # "Waiting" /\ confirming # Signal
            \/ /\ queue' # queue /\ confirming' = confirming /\ ~ SignalTaken
               /\ Len(buffer') = Len(buffer) + 1
               /\ buffer' # <<>>
               /\ pc' = IF Len(buffer') >= BatchSize THEN "Flush" ELSE "Select"
            \/ /\ queue' # queue /\ confirming' = Signal /\ ~ SignalTaken /\ buffer' = buffer
               /\ Len(processed) + Len(buffer) = Len(file)
               /\ loader = "Loaded" /\ pc' = "Flush"
<1>1. confirming # Signal
  BY KnownService DEF SignalSound
<1>2. CASE Service!TakeCancelled \/ Service!TakeClosed
  <2>1. /\ cancelled \/ ~ senders
        /\ UNCHANGED <<processed, accounts, acked, queue, buffer, confirming>>
        /\ pc' = "FinalFlush"
    BY <1>2 DEF Service!TakeCancelled, Service!TakeClosed, Service!GoTo
  <2>2. main # "Waiting"
    BY <2>1, KnownService DEF EndsSound
  <2>3. QED
    BY <1>1, <2>1, <2>2
<1>3. CASE Service!TakeIncoming
  <2>1. /\ queue # <<>> /\ Head(queue).kind = "Incoming" /\ queue' = Tail(queue)
        /\ buffer' = Append(buffer, Head(queue).transaction)
        /\ pc' = IF Len(buffer') >= BatchSize THEN "Flush" ELSE "Select"
        /\ UNCHANGED <<processed, accounts, acked, confirming>>
    BY <1>3 DEF Service!TakeIncoming, Service!Receive, Service!Full
  <2>2. /\ Len(processed) + Len(buffer) < chrono
    BY <2>1, HeadOfChannel, KnownService
  <2>3. queue' # queue
    BY <2>1, KnownService, TailIsShorter
  <2>4. Len(buffer') = Len(buffer) + 1 /\ buffer' # <<>>
    BY <2>1, KnownService
  <2>5. Signal \notin acked
    BY <2>2, KnownService, AcknowledgedAll
  <2>6. QED
    BY <1>1, <2>1, <2>3, <2>4, <2>5 DEF SignalTaken
<1>4. CASE Service!TakeCompletion
  <2>1. /\ queue # <<>> /\ Head(queue).kind = "TransactionBatchCompletion"
        /\ queue' = Tail(queue) /\ confirming' = Head(queue).completion
        /\ pc' = "Flush"
        /\ UNCHANGED <<processed, accounts, acked, buffer>>
    BY <1>4 DEF Service!TakeCompletion
  <2>2. /\ Len(processed) + Len(buffer) = chrono /\ SignalQueued
        /\ Head(queue).completion = Signal
    BY <2>1, HeadOfChannel, KnownService
  <2>3. queue' # queue
    BY <2>1, KnownService, TailIsShorter
  <2>4. Signal \notin acked /\ Signal \in DOMAIN before
    BY <2>2 DEF SignalQueued
  <2>5. loader = "Loaded" /\ chrono = Len(file)
    BY <2>4, KnownService DEF SignalSound
  <2>6. QED
    BY <1>1, <2>1, <2>2, <2>3, <2>4, <2>5 DEF SignalTaken
<1>5. QED
  BY <1>2, <1>3, <1>4, TaskSteps
  DEF Service!TaskStep, Service!ApplyOldest, Service!EndFlush, Service!Acknowledge,
      Service!AcknowledgeFails, Service!Return

(* A step of handle_buffer: a transaction, or the end.                     *)
LEMMA InFlush ==
  ASSUME Known, ServiceStep, pc # "Select"
  PROVE  /\ Flushing
         /\ \/ /\ UNCHANGED <<pc, queue, confirming, acked>>
               /\ processed' # processed /\ Signal \notin acked
               /\ Len(processed') = Len(processed) + 1 /\ Len(buffer') = Len(buffer) - 1
            \/ /\ UNCHANGED <<processed, accounts>>
               /\ buffer = <<>> /\ buffer' = <<>> /\ pc' \in {"Select", "Returned"}
               /\ SignalTaken' <=> SignalTaken
               /\ Signal \in acked => Signal \in acked'
<1>1. CASE Service!ApplyOldest
  <2>1. /\ UNCHANGED <<pc, queue, confirming, acked>> /\ Len(processed) < chrono
        /\ Len(processed') = Len(processed) + 1 /\ Len(buffer') = Len(buffer) - 1
    BY <1>1, AppliesFirst DEF Known
  <2>2. Signal \notin acked /\ processed' # processed
    BY <2>1, KnownService, AcknowledgedAll
  <2>3. QED
    BY <1>1, <2>1, <2>2 DEF Service!ApplyOldest, Flushing
<1>2. CASE Service!EndFlush
  BY <1>2 DEF Service!EndFlush, Service!GoTo, Flushing, SignalTaken
<1>3. CASE Service!Acknowledge
  <2>1. confirming = Signal
    BY <1>3, KnownService DEF Service!Acknowledge
  <2>2. QED
    BY <1>3, <2>1 DEF Service!Acknowledge, Service!Confirm, Flushing, SignalTaken
<1>4. CASE Service!AcknowledgeFails
  BY <1>4, KnownService DEF Service!AcknowledgeFails, EndsSound
<1>5. CASE Service!Return
  <2>1. /\ pc = "FinalFlush" /\ buffer = <<>> /\ buffer' = <<>> /\ pc' = "Returned"
        /\ confirming' = NoCompletion
        /\ UNCHANGED <<accounts, acked, processed>>
    BY <1>5 DEF Service!Return, Service!Stop
  <2>2. confirming # Signal /\ confirming' # Signal
    BY <2>1, KnownService DEF SignalSound
  <2>3. QED
    BY <2>1, <2>2 DEF Flushing, SignalTaken
<1>6. QED
  BY <1>1, <1>2, <1>3, <1>4, <1>5, TaskSteps
  DEF Service!TaskStep, Service!TakeCancelled, Service!TakeClosed, Service!TakeIncoming,
      Service!Receive, Service!TakeCompletion

(* What is counted in the select loop.                                     *)
LEMMA SelectedCounts ==
  ASSUME CountersTyped, Len(buffer') \in Nat, Selected
  PROVE  LET flushing == pc' \in {"Flush", "FinalFlush"} /\ buffer' # <<>> IN
         /\ metrics' \in [Instrument -> Nat] /\ tally' \in [ok : Nat, failed : Nat, accounts : Nat]
         /\ tally'.ok = 0 /\ tally'.failed = 0 /\ tally'.accounts = tally.accounts
         /\ Kept(LoaderInstrument) /\ Kept(OutcomeInstrument) /\ Kept(SnapshotInstrument)
         /\ Kept({ "service_accounts_total", "service_transactions_ok",
                   "service_transactions_error", "service_batch_transactions_ok",
                   "service_batch_transactions_failed" })
         /\ metrics'.service_ticks = metrics.service_ticks + IF queue' # queue THEN 1 ELSE 0
         /\ metrics'.service_batches_processed
              = metrics.service_batches_processed + IF flushing THEN 1 ELSE 0
         /\ metrics'.service_batch_size
              = metrics.service_batch_size + IF flushing THEN Len(buffer') ELSE 0
<1> USE DEF Kept, LoaderInstrument, OutcomeInstrument, SnapshotInstrument
<1> DEFINE flushing == pc' \in {"Flush", "FinalFlush"} /\ buffer' # <<>>
           more == [ service_ticks             |-> IF queue' # queue THEN 1 ELSE 0,
                     service_batches_processed |-> IF flushing THEN 1 ELSE 0,
                     service_batch_size        |-> IF flushing THEN Len(buffer') ELSE 0 ]
<1>1. /\ metrics \in [Instrument -> Nat] /\ tally \in [ok : Nat, failed : Nat, accounts : Nat]
      /\ Count(more) /\ tally' = [tally EXCEPT !.ok = 0, !.failed = 0]
  BY DEF CountersTyped, Selected, BatchSizeOf, FreshTally
<1>2. /\ DOMAIN more = {"service_ticks", "service_batches_processed", "service_batch_size"}
      /\ more["service_ticks"] = IF queue' # queue THEN 1 ELSE 0
      /\ more["service_batches_processed"] = IF flushing THEN 1 ELSE 0
      /\ more["service_batch_size"] = IF flushing THEN Len(buffer') ELSE 0
  OBVIOUS
<1>3. /\ more["service_ticks"] \in Nat /\ more["service_batches_processed"] \in Nat
      /\ more["service_batch_size"] \in Nat
  OBVIOUS
<1> HIDE DEF flushing, more
<1>4. \A i \in DOMAIN more : more[i] \in Nat
  BY <1>2, <1>3
<1>5. /\ metrics' \in [Instrument -> Nat]
      /\ \A i \in Instrument \ DOMAIN more : metrics'[i] = metrics[i]
      /\ \A i \in Instrument \cap DOMAIN more : metrics'[i] = metrics[i] + more[i]
  BY <1>1, <1>4, Counting
<1>6. /\ metrics'.service_ticks = metrics.service_ticks + more["service_ticks"]
      /\ metrics'.service_batches_processed
           = metrics.service_batches_processed + more["service_batches_processed"]
      /\ metrics'.service_batch_size = metrics.service_batch_size + more["service_batch_size"]
  BY <1>2, <1>5 DEF Instrument
<1>7. /\ Kept(LoaderInstrument) /\ Kept(OutcomeInstrument) /\ Kept(SnapshotInstrument)
      /\ Kept({ "service_accounts_total", "service_transactions_ok",
                "service_transactions_error", "service_batch_transactions_ok",
                "service_batch_transactions_failed" })
  BY <1>2, <1>5 DEF Instrument
<1>8. /\ tally' \in [ok : Nat, failed : Nat, accounts : Nat]
      /\ tally'.ok = 0 /\ tally'.failed = 0 /\ tally'.accounts = tally.accounts
  BY <1>1
<1>9. QED
  BY <1>2, <1>5, <1>6, <1>7, <1>8 DEF flushing

(* What is counted when a transaction is applied.                          *)
LEMMA AppliedCounts ==
  ASSUME CountersTyped, Applying
  PROVE  /\ metrics' \in [Instrument -> Nat] /\ tally' \in [ok : Nat, failed : Nat, accounts : Nat]
         /\ tally'.accounts = tally.accounts
         /\ Kept(LoaderInstrument) /\ Kept(OutcomeInstrument) /\ Kept(SnapshotInstrument)
         /\ Kept({ "service_ticks", "service_accounts_total", "service_batches_processed",
                   "service_batch_size", "service_batch_transactions_ok",
                   "service_batch_transactions_failed" })
         /\ \/ /\ metrics'.service_transactions_ok = metrics.service_transactions_ok + 1
               /\ metrics'.service_transactions_error = metrics.service_transactions_error
               /\ tally'.ok = tally.ok + 1 /\ tally'.failed = tally.failed
            \/ /\ metrics'.service_transactions_ok = metrics.service_transactions_ok
               /\ metrics'.service_transactions_error = metrics.service_transactions_error + 1
               /\ tally'.ok = tally.ok /\ tally'.failed = tally.failed + 1
<1> USE DEF Kept, LoaderInstrument, OutcomeInstrument, SnapshotInstrument
<1>1. metrics \in [Instrument -> Nat] /\ tally \in [ok : Nat, failed : Nat, accounts : Nat]
  BY DEF CountersTyped
<1>2. CASE Count([service_transactions_ok |-> 1]) /\ tally' = [tally EXCEPT !.ok = @ + 1]
  <2> DEFINE more == [service_transactions_ok |-> 1]
  <2>1. DOMAIN more = {"service_transactions_ok"} /\ more["service_transactions_ok"] = 1
    OBVIOUS
  <2> HIDE DEF more
  <2>2. /\ metrics' \in [Instrument -> Nat]
        /\ \A i \in Instrument \ DOMAIN more : metrics'[i] = metrics[i]
        /\ \A i \in Instrument \cap DOMAIN more : metrics'[i] = metrics[i] + more[i]
    BY <1>1, <1>2, <2>1, Counting DEF more
  <2>3. QED
    BY <1>1, <1>2, <2>1, <2>2 DEF Instrument
<1>3. CASE Count([service_transactions_error |-> 1]) /\ tally' = [tally EXCEPT !.failed = @ + 1]
  <2> DEFINE more == [service_transactions_error |-> 1]
  <2>1. DOMAIN more = {"service_transactions_error"} /\ more["service_transactions_error"] = 1
    OBVIOUS
  <2> HIDE DEF more
  <2>2. /\ metrics' \in [Instrument -> Nat]
        /\ \A i \in Instrument \ DOMAIN more : metrics'[i] = metrics[i]
        /\ \A i \in Instrument \cap DOMAIN more : metrics'[i] = metrics[i] + more[i]
    BY <1>1, <1>3, <2>1, Counting DEF more
  <2>3. QED
    BY <1>1, <1>3, <2>1, <2>2 DEF Instrument
<1>4. QED
  BY <1>2, <1>3 DEF Applying

(* What is counted when the heap is empty.                                 *)
LEMMA FlushedCounts ==
  ASSUME CountersTyped, Cardinality(DOMAIN accounts) \in Nat, Flushed
  PROVE  /\ metrics' \in [Instrument -> Nat] /\ tally' = tally
         /\ Kept(LoaderInstrument) /\ Kept(OutcomeInstrument) /\ Kept(SnapshotInstrument)
         /\ Kept({ "service_ticks", "service_batches_processed", "service_batch_size",
                   "service_transactions_ok", "service_transactions_error" })
         /\ metrics'.service_batch_transactions_ok
              = metrics.service_batch_transactions_ok + tally.ok
         /\ metrics'.service_batch_transactions_failed
              = metrics.service_batch_transactions_failed + tally.failed
         /\ metrics'.service_accounts_total =
              IF tally.ok + tally.failed = 0 THEN metrics.service_accounts_total
                                             ELSE Cardinality(DOMAIN accounts)
<1> USE DEF Kept, LoaderInstrument, OutcomeInstrument, SnapshotInstrument
<1>1. metrics \in [Instrument -> Nat] /\ tally \in [ok : Nat, failed : Nat, accounts : Nat]
  BY DEF CountersTyped
<1>2. /\ tally' = tally
      /\ metrics' = [metrics EXCEPT
           !["service_batch_transactions_ok"] = @ + tally.ok,
           !["service_batch_transactions_failed"] = @ + tally.failed,
           !["service_accounts_total"] =
              IF tally.ok + tally.failed = 0 THEN @ ELSE Cardinality(DOMAIN accounts)]
  BY DEF Flushed
<1>3. /\ metrics["service_batch_transactions_ok"] + tally.ok \in Nat
      /\ metrics["service_batch_transactions_failed"] + tally.failed \in Nat
      /\ metrics["service_accounts_total"] \in Nat
  BY <1>1 DEF Instrument
<1>4. metrics' \in [Instrument -> Nat]
  BY <1>1, <1>2, <1>3
<1>5. QED
  BY <1>1, <1>2, <1>4 DEF Instrument

-----------------------------------------------------------------------------
(***************************************************************************)
(* Numbers of accounts.                                                    *)
(***************************************************************************)

(* There are as many accounts as the service made, which are finitely many.*)
LEMMA FiniteAccounts ==
  ASSUME Known
  PROVE  IsFiniteSet(DOMAIN accounts) /\ Cardinality(DOMAIN accounts) \in Nat
<1> DEFINE client == [i \in 1 .. Len(processed) |-> processed[i].transaction.client_id]
<1>1. DOMAIN accounts = {processed[i].transaction.client_id : i \in 1 .. Len(processed)}
  BY DEF Known, Proofs!IInv, Proofs!AccountsSound, Proofs!Applied
<1>2. client \in Surjection(1 .. Len(processed), DOMAIN accounts)
  BY <1>1 DEF Surjection
<1>3. IsFiniteSet(1 .. Len(processed))
  BY KnownService, FS_Interval
<1>4. IsFiniteSet(DOMAIN accounts)
  BY <1>2, <1>3, FS_Surjection
<1>5. QED
  BY <1>4, FS_CardinalityType

LEMMA FiniteLines ==
  ASSUME Known, NEW S \in SUBSET (2 .. Len(lines))
  PROVE  IsFiniteSet(S) /\ Cardinality(S) \in Nat
<1>1. Len(lines) \in Int /\ 2 \in Int
  BY DEF Known, IInv, TypeOK
<1>2. IsFiniteSet(2 .. Len(lines))
  BY <1>1, FS_Interval
<1>3. QED
  BY <1>2, FS_Subset, FS_CardinalityType

(* When all lines are written there is one for each account.               *)
LEMMA OneLineEach ==
  ASSUME Known, snapshot \in {"Flush", "Done"}
  PROVE  /\ Len(lines) - 1 = Cardinality(DOMAIN accounts)
         /\ Cardinality({i \in 2 .. Len(lines) : lines[i].statement.locked})
              = Cardinality({c \in DOMAIN accounts : accounts[c].locked})
<1>1. /\ SnapshotSound /\ IInv
      /\ lines \in Seq(Snapshot!Line) /\ Len(lines) \in Nat
  BY DEF Known, IInv, TypeOK
<1>2. lines # <<>>
  BY <1>1 DEF SnapshotSound
<1>3. Len(lines) \in 0 .. Len(lines) /\ Len(lines) > 0
  BY <1>1, <1>2, EmptySeq
<1>4. ASSUME NEW i \in 2 .. Len(lines)
      PROVE  /\ lines[i].client \in DOMAIN accounts
             /\ lines[i].statement.locked = accounts[lines[i].client].locked
  <2>1. lines[i].client \in DOMAIN accounts /\ lines[i] = Snapshot!Row(lines[i].client)
    BY <1>1 DEF SnapshotSound
  <2>2. lines[i].statement = Snapshot!Statement(accounts[lines[i].client])
    BY <2>1 DEF Snapshot!Row
  <2>3. QED
    BY <2>1, <2>2 DEF Snapshot!Statement
<1>5. \A i, j \in 2 .. Len(lines) : lines[i].client = lines[j].client => i = j
  BY <1>1 DEF SnapshotSound
<1>6. \A c \in DOMAIN accounts : \E i \in 2 .. Len(lines) : lines[i].client = c
  BY <1>1 DEF SnapshotSound
<1>7. Len(lines) - 1 = Cardinality(DOMAIN accounts)
  <2> DEFINE Clients == {lines[i].client : i \in 2 .. Len(lines)}
  <2>1. Clients = DOMAIN accounts
    BY <1>4, <1>6
  <2>2. Cardinality(Clients) = Len(lines) - 1
    BY <1>1, <1>3, LinesCounted
  <2>3. QED
    BY <2>1, <2>2
<1>8. Cardinality({i \in 2 .. Len(lines) : lines[i].statement.locked})
        = Cardinality({c \in DOMAIN accounts : accounts[c].locked})
  <2> DEFINE Locked == {i \in 2 .. Len(lines) : lines[i].statement.locked}
             Owners == {c \in DOMAIN accounts : accounts[c].locked}
             owner == [i \in Locked |-> lines[i].client]
  <2>1. owner \in [Locked -> Owners]
    BY <1>4
  <2>2. \A i, j \in Locked : owner[i] = owner[j] => i = j
    BY <1>5
  <2>3. \A c \in Owners : \E i \in Locked : owner[i] = c
    BY <1>4, <1>6
  <2>4. owner \in Bijection(Locked, Owners)
    BY <2>1, <2>2, <2>3 DEF Bijection, Injection, Surjection, IsInjective
  <2>5. ExistsBijection(Locked, Owners) /\ IsFiniteSet(Locked)
    BY <2>4, FiniteLines DEF ExistsBijection
  <2>6. QED
    BY <2>5, FS_Bijection
<1>9. QED
  BY <1>7, <1>8

-----------------------------------------------------------------------------
(***************************************************************************)
(* The parts of the invariant, over every step.                            *)
(***************************************************************************)

(* A step of the service counts in one of three ways.                      *)
LEMMA ServiceMeters ==
  ASSUME Known, MeteredServiceStep
  PROVE  /\ ServiceStep
         /\ \/ pc = "Select" /\ Selected
            \/ pc # "Select" /\ Applying /\ processed' # processed
            \/ pc # "Select" /\ Flushed /\ processed' = processed
BY Selecting DEF MeteredServiceStep, Selected, Applying, Flushed

(* What the other steps leave to the service.                              *)
LEMMA BesideService ==
  ASSUME Known, CountersTyped, MeteredNext, ~ MeteredServiceStep
  PROVE  /\ Kept(ServiceInstrument) /\ tally'.ok = tally.ok /\ tally'.failed = tally.failed
         /\ metrics' \in [Instrument -> Nat] /\ tally' \in [ok : Nat, failed : Nat, accounts : Nat]
         /\ UNCHANGED <<pc, processed, buffer, accounts, acked, confirming, file>>
<1>1. tally \in [ok : Nat, failed : Nat, accounts : Nat] /\ metrics \in [Instrument -> Nat]
  BY DEF CountersTyped
<1>2. CASE MeteredLoaderStep
  <2>1. UNCHANGED <<pc, processed, buffer, accounts, acked, confirming, file>>
    BY <1>2 DEF MeteredLoaderStep, Open, ReadRow, ReadBadRow, EndOfFile, Service!Send,
       Service!SendCompletion, Service!task, service
  <2>2. QED
    BY <1>1, <1>2, <2>1, LoaderCounts, KnownService
<1>3. CASE MeteredOutcomeStep
  <2>1. UNCHANGED <<pc, processed, buffer, accounts, acked, confirming, file>>
    BY <1>3 DEF MeteredOutcomeStep, TakeOutcome, EndOutcomes, Service!DropOutcomeReceiver,
       Service!task, service, loading
  <2>2. handled \in Nat
    BY KnownService DEF Known, IInv, TypeOK
  <2>3. QED
    BY <1>1, <1>3, <2>1, <2>2, OutcomeCounts
<1>4. CASE MeteredMainStep
  <2>1. /\ Cardinality(DOMAIN accounts) \in Nat
        /\ Cardinality({i \in 2 .. Len(lines) : lines[i].statement.locked}) \in Nat
    BY FiniteAccounts, FiniteLines
  <2>2. QED
    BY <1>4, <2>1, MainCounts, MainSteps
<1>5. CASE (OutputStep \/ Exited) /\ Nothing
  BY <1>1, <1>5 DEF OutputStep, Exited, Nothing, vars, service, loading, Kept
<1>6. QED
  BY <1>2, <1>3, <1>4, <1>5 DEF MeteredNext

LEMMA TypedStep ==
  ASSUME Known, Known', CountersTyped, MeteredNext
  PROVE  CountersTyped'
<1>1. CASE MeteredServiceStep
  <2>1. Len(buffer') \in Nat
    BY KnownService, ServiceTyped DEF Known, IInv, TypeOK
  <2>2. CASE Selected
    BY <2>1, <2>2, SelectedCounts DEF CountersTyped
  <2>3. CASE Applying
    BY <2>3, AppliedCounts DEF CountersTyped
  <2>4. CASE Flushed
    BY <2>4, FlushedCounts, FiniteAccounts DEF CountersTyped
  <2>5. QED
    BY <1>1, <2>2, <2>3, <2>4, ServiceMeters
<1>2. QED
  BY <1>1, BesideService DEF CountersTyped

(* The sums of the service.                                                *)
LEMMA ServiceCountedStep ==
  ASSUME Known, Known', CountersTyped, ServiceCounted, MeteredNext
  PROVE  ServiceCounted'
<1>1. /\ metrics \in [Instrument -> Nat] /\ tally.ok \in Nat /\ tally.failed \in Nat
      /\ Len(buffer) \in Nat /\ Len(processed) \in Nat /\ Limit \in Nat \ {0}
      /\ Len(buffer') \in Nat /\ Len(buffer') <= Limit
  <2>1. Len(buffer') \in Nat
    BY ServiceTyped DEF Known, IInv, TypeOK
  <2>2. Len(buffer') <= Limit
    BY DEF Known, Proofs!IInv, Proofs!HeapBounded, Limit
  <2>3. QED
    BY <2>1, <2>2, KnownService, LimitType DEF CountersTyped
<1>2. /\ metrics.service_transactions_ok \in Nat /\ metrics.service_transactions_error \in Nat
      /\ metrics.service_batch_transactions_ok \in Nat
      /\ metrics.service_batch_transactions_failed \in Nat
      /\ metrics.service_batch_size \in Nat /\ metrics.service_ticks \in Nat
  BY <1>1 DEF Instrument
<1>3. CASE MeteredServiceStep /\ pc = "Select"
  <2>1. /\ ~ Flushing
        /\ metrics'.service_transactions_ok = metrics.service_transactions_ok
        /\ metrics'.service_transactions_error = metrics.service_transactions_error
        /\ metrics'.service_batch_transactions_ok = metrics.service_batch_transactions_ok
        /\ metrics'.service_batch_transactions_failed = metrics.service_batch_transactions_failed
        /\ metrics'.service_accounts_total = metrics.service_accounts_total
        /\ metrics'.service_ticks = metrics.service_ticks + IF queue' # queue THEN 1 ELSE 0
        /\ metrics'.service_batch_size = metrics.service_batch_size
             + IF pc' \in {"Flush", "FinalFlush"} /\ buffer' # <<>> THEN Len(buffer') ELSE 0
        /\ tally'.ok = 0 /\ tally'.failed = 0
    BY <1>1, <1>3, ServiceMeters, SelectedCounts DEF Kept, Flushing
  <2>2. /\ UNCHANGED <<processed, accounts, acked>>
        /\ queue' = queue => Len(buffer') = Len(buffer) /\ (SignalTaken' <=> SignalTaken)
        /\ queue' # queue =>
             \/ Len(buffer') = Len(buffer) + 1 /\ ~ SignalTaken /\ ~ SignalTaken'
             \/ Len(buffer') = Len(buffer) /\ ~ SignalTaken /\ SignalTaken'
    BY <1>3, ServiceMeters, Selecting DEF SignalTaken
  <2>3. metrics'.service_batch_size = Len(processed') + IF Flushing' THEN Len(buffer') ELSE 0
    <3>1. metrics.service_batch_size = Len(processed)
      BY <1>1, <1>2, <2>1 DEF ServiceCounted
    <3>2. buffer' = <<>> => Len(buffer') = 0
      OBVIOUS
    <3>3. QED
      BY <1>1, <1>2, <2>1, <2>2, <3>1, <3>2 DEF Flushing
  <2>4. metrics'.service_ticks
          = Len(processed') + Len(buffer') + IF SignalTaken' THEN 1 ELSE 0
    <3>1. metrics.service_ticks = Len(processed) + Len(buffer) + IF SignalTaken THEN 1 ELSE 0
      BY DEF ServiceCounted
    <3>2. CASE queue' = queue
      BY <1>1, <1>2, <2>1, <2>2, <3>1, <3>2
    <3>3. CASE queue' # queue
      BY <1>1, <1>2, <2>1, <2>2, <3>1, <3>3
    <3>4. QED
      BY <3>2, <3>3
  <2>5. /\ metrics.service_transactions_ok + metrics.service_transactions_error = Len(processed)
        /\ metrics.service_transactions_ok = metrics.service_batch_transactions_ok
        /\ metrics.service_transactions_error = metrics.service_batch_transactions_failed
        /\ metrics.service_accounts_total = Cardinality(DOMAIN accounts)
    BY <1>1, <1>2, <2>1 DEF ServiceCounted
  <2>6. QED
    BY <1>1, <1>2, <2>1, <2>2, <2>3, <2>4, <2>5 DEF ServiceCounted
<1>4. CASE MeteredServiceStep /\ pc # "Select" /\ processed' # processed
  <2>1. /\ metrics'.service_batch_transactions_ok = metrics.service_batch_transactions_ok
        /\ metrics'.service_batch_transactions_failed = metrics.service_batch_transactions_failed
        /\ metrics'.service_ticks = metrics.service_ticks
        /\ metrics'.service_batch_size = metrics.service_batch_size
        /\ \/ /\ metrics'.service_transactions_ok = metrics.service_transactions_ok + 1
              /\ metrics'.service_transactions_error = metrics.service_transactions_error
              /\ tally'.ok = tally.ok + 1 /\ tally'.failed = tally.failed
           \/ /\ metrics'.service_transactions_ok = metrics.service_transactions_ok
              /\ metrics'.service_transactions_error = metrics.service_transactions_error + 1
              /\ tally'.ok = tally.ok /\ tally'.failed = tally.failed + 1
    BY <1>4, ServiceMeters, AppliedCounts DEF Kept
  <2>2. /\ UNCHANGED <<pc, confirming, acked>> /\ Signal \notin acked
        /\ Len(processed') = Len(processed) + 1 /\ Len(buffer') = Len(buffer) - 1
        /\ Flushing
    BY <1>4, ServiceMeters, InFlush
  <2>3. Flushing' /\ (SignalTaken' <=> SignalTaken) /\ Signal \notin acked'
    BY <2>2 DEF Flushing, SignalTaken
  <2>4. /\ metrics.service_transactions_ok + metrics.service_transactions_error = Len(processed)
        /\ metrics.service_transactions_ok = metrics.service_batch_transactions_ok + tally.ok
        /\ metrics.service_transactions_error
             = metrics.service_batch_transactions_failed + tally.failed
        /\ metrics.service_batch_size = Len(processed) + Len(buffer)
        /\ tally.ok + tally.failed + Len(buffer) <= Limit
        /\ metrics.service_ticks = Len(processed) + Len(buffer) + IF SignalTaken THEN 1 ELSE 0
    BY <2>2 DEF ServiceCounted
  <2>5. tally'.ok + tally'.failed = tally.ok + tally.failed + 1
    BY <1>1, <2>1
  <2>6. /\ metrics'.service_transactions_ok + metrics'.service_transactions_error
             = Len(processed')
        /\ metrics'.service_transactions_ok
             = metrics'.service_batch_transactions_ok + tally'.ok
        /\ metrics'.service_transactions_error
             = metrics'.service_batch_transactions_failed + tally'.failed
    <3>1. /\ \A m, n, p \in Nat : m + n = p => m + 1 + n = p + 1 /\ m + (n + 1) = p + 1
          /\ \A m, n, p \in Nat : m = n + p => m + 1 = n + (p + 1)
      OBVIOUS
    <3>2. /\ metrics.service_transactions_ok + 1 + metrics.service_transactions_error
               = Len(processed) + 1
          /\ metrics.service_transactions_ok + (metrics.service_transactions_error + 1)
               = Len(processed) + 1
      <4>1. Len(processed) \in Nat
        BY <1>1
      <4>2. metrics.service_transactions_ok + metrics.service_transactions_error = Len(processed)
        BY <2>4
      <4>3. QED
        BY <1>2, <3>1, <4>1, <4>2
    <3>3. /\ metrics.service_transactions_ok + 1
               = metrics.service_batch_transactions_ok + (tally.ok + 1)
          /\ metrics.service_transactions_error + 1
               = metrics.service_batch_transactions_failed + (tally.failed + 1)
      <4>1. tally.ok \in Nat /\ tally.failed \in Nat
        BY <1>1
      <4>2. /\ metrics.service_transactions_ok = metrics.service_batch_transactions_ok + tally.ok
            /\ metrics.service_transactions_error
                 = metrics.service_batch_transactions_failed + tally.failed
        BY <2>4
      <4>3. QED
        BY <1>2, <3>1, <4>1, <4>2
    <3>4. QED
      BY <2>1, <2>2, <2>4, <3>2, <3>3
  <2>7. /\ metrics'.service_batch_size = Len(processed') + Len(buffer')
        /\ metrics'.service_ticks
             = Len(processed') + Len(buffer') + IF SignalTaken' THEN 1 ELSE 0
    BY <1>1, <1>2, <2>1, <2>2, <2>3, <2>4
  <2>8. /\ tally'.ok + tally'.failed + Len(buffer') <= Limit
        /\ tally'.ok + tally'.failed # 0
    <3>1. \A a, b, n, m \in Nat : a + b + n <= m => a + b + 1 + (n - 1) <= m /\ a + b + 1 # 0
      OBVIOUS
    <3>2. /\ tally.ok + tally.failed + 1 + (Len(buffer) - 1) <= Limit
          /\ tally.ok + tally.failed + 1 # 0
      BY <1>1, <2>4, <3>1
    <3>3. QED
      BY <2>2, <2>5, <3>2
  <2>9. QED
    BY <2>3, <2>6, <2>7, <2>8 DEF ServiceCounted
<1>5. CASE MeteredServiceStep /\ pc # "Select" /\ processed' = processed
  <2>1. /\ metrics'.service_transactions_ok = metrics.service_transactions_ok
        /\ metrics'.service_transactions_error = metrics.service_transactions_error
        /\ metrics'.service_ticks = metrics.service_ticks
        /\ metrics'.service_batch_size = metrics.service_batch_size
        /\ metrics'.service_batch_transactions_ok
             = metrics.service_batch_transactions_ok + tally.ok
        /\ metrics'.service_batch_transactions_failed
             = metrics.service_batch_transactions_failed + tally.failed
        /\ metrics'.service_accounts_total =
             IF tally.ok + tally.failed = 0 THEN metrics.service_accounts_total
                                            ELSE Cardinality(DOMAIN accounts)
    BY <1>5, ServiceMeters, FlushedCounts, FiniteAccounts DEF Kept
  <2>2. /\ UNCHANGED <<processed, accounts>> /\ buffer = <<>> /\ buffer' = <<>>
        /\ ~ Flushing' /\ Flushing
        /\ SignalTaken' <=> SignalTaken
    BY <1>5, ServiceMeters, InFlush DEF Flushing
  <2>3. Len(buffer) = 0 /\ Len(buffer') = 0
    BY <2>2
  <2>4. metrics'.service_accounts_total = Cardinality(DOMAIN accounts')
    BY <2>1, <2>2 DEF ServiceCounted
  <2>5. QED
    BY <1>1, <1>2, <2>1, <2>2, <2>3, <2>4 DEF ServiceCounted
<1>6. CASE ~ MeteredServiceStep
  <2>1. /\ Kept(ServiceInstrument) /\ tally'.ok = tally.ok /\ tally'.failed = tally.failed
        /\ UNCHANGED <<pc, processed, buffer, accounts, acked, confirming>>
    BY <1>6, BesideService
  <2>2. QED
    BY <2>1 DEF ServiceCounted, Kept, ServiceInstrument, Flushing, SignalTaken
<1>7. QED
  BY <1>3, <1>4, <1>5, <1>6

(* One batch more.                                                         *)
LEMMA OneBatchMore ==
  ASSUME NEW b \in Nat, NEW n \in Nat
  PROVE  b * n \in Nat /\ (b + 1) * n = b * n + n
OBVIOUS

(* main gives up a file that was read to its end for no other reason than  *)
(* that it was acknowledged.                                               *)
LEMMA WaitsForSignal ==
  ASSUME Known, loader = "Loaded" /\ main # "Waiting" => Signal \in acked, MeteredNext,
         loader' = "Loaded" /\ main' # "Waiting"
  PROVE  Signal \in acked'
<1>1. CASE MeteredLoaderStep
  <2>1. loader \in {"Opening", "Reading"} /\ main' = main
    BY <1>1 DEF MeteredLoaderStep, Open, ReadRow, ReadBadRow, EndOfFile, printing
  <2>2. QED
    BY <2>1, KnownService DEF EndsSound
<1>2. CASE MeteredServiceStep
  <2>1. ServiceStep
    BY <1>2 DEF MeteredServiceStep
  <2>2. UNCHANGED <<loader, main>>
    BY <2>1, TaskSteps
  <2>3. Signal \in acked => Signal \in acked'
    BY <2>1, Selecting, InFlush
  <2>4. QED
    BY <2>2, <2>3
<1>3. CASE MeteredOutcomeStep
  BY <1>3 DEF MeteredOutcomeStep, TakeOutcome, EndOutcomes, Service!DropOutcomeReceiver,
     Service!task, service, loading, printing
<1>4. CASE MeteredMainStep
  <2>1. MainStep
    BY <1>4 DEF MeteredMainStep
  <2>2. UNCHANGED <<loader, acked>>
    BY <2>1, MainSteps
  <2>3. CASE main # "Waiting"
    BY <2>2, <2>3
  <2>4. CASE main = "Waiting"
    <3>1. \A task \in tasks : ~ Reap(task)
      BY <2>4, ReapStays DEF Known
    <3>2. CASE ReceiveSignal
      BY <2>2, <3>2 DEF ReceiveSignal
    <3>3. CASE LoseSignal
      <4>1. pc \notin {"FinalFlush", "Returned"}
        BY <2>4, KnownService DEF EndsSound
      <4>2. Service!Running
        BY <4>1, KnownService DEF Service!Running
      <4>3. QED
        BY <2>2, <3>3, <4>2 DEF LoseSignal
    <3>4. QED
      BY <2>1, <2>4, <3>1, <3>2, <3>3
      DEF MainStep, WriteOutput, PrintFails, Finish, Return, Exit
  <2>5. QED
    BY <2>3, <2>4
<1>5. CASE (OutputStep \/ Exited) /\ Nothing
  BY <1>5 DEF OutputStep, Exited, vars, service, loading, printing
<1>6. QED
  BY <1>1, <1>2, <1>3, <1>4, <1>5 DEF MeteredNext

(* The number of batches.                                                  *)
LEMMA BatchesCountedStep ==
  ASSUME Known, Known', CountersTyped, BatchesCounted, MeteredNext
  PROVE  BatchesCounted'
<1> DEFINE batches == metrics.service_batches_processed
           full == batches * Limit
<1>1. /\ batches \in Nat /\ Limit \in Nat \ {0} /\ full \in Nat
      /\ Len(buffer) \in Nat /\ Len(processed) \in Nat /\ Len(file) \in Nat /\ file' = file
  BY KnownService, LimitType, OneBatchMore, MeteredStep, TransactionsStay
  DEF CountersTyped, Instrument
<1>2. loader' = "Loaded" /\ main' # "Waiting" => Signal \in acked'
  BY WaitsForSignal DEF BatchesCounted
<1>3. /\ ~ SignalTaken /\ main = "Waiting" =>
           full = Len(processed) + IF Flushing THEN Len(buffer) ELSE 0
      /\ SignalTaken => full - Limit < Len(file) /\ Len(file) <= full
  BY DEF BatchesCounted
<1>4. main' = "Waiting" => main = "Waiting"
  BY MeteredStep, TaskSteps
  DEF Next, LoaderStep, Open, ReadRow, ReadBadRow, EndOfFile, OutcomeStep, TakeOutcome,
      EndOutcomes, MainStep, Reap, Leave, ReceiveSignal, LoseSignal, WriteOutput, PrintFails,
      Finish, Return, Exit, OutputStep, Exited, vars, printing
<1>5. SUFFICES /\ ~ SignalTaken' /\ main' = "Waiting" =>
                    full' = Len(processed') + IF Flushing' THEN Len(buffer') ELSE 0
               /\ SignalTaken' => full' - Limit < Len(file) /\ Len(file) <= full'
  BY <1>1, <1>2 DEF BatchesCounted, Limit
<1>6. CASE MeteredServiceStep /\ pc = "Select"
  <2>1. batches' = batches
          + IF pc' \in {"Flush", "FinalFlush"} /\ buffer' # <<>> THEN 1 ELSE 0
    <3>1. Len(buffer') \in Nat
      BY ServiceTyped DEF Known, IInv, TypeOK
    <3>2. QED
      BY <1>6, <3>1, ServiceMeters, SelectedCounts
  <2>2. ServiceStep /\ ~ Flushing /\ UNCHANGED <<processed, acked, main>>
    BY <1>6, ServiceMeters, Selecting, TaskSteps DEF Flushing
  <2>3. CASE /\ UNCHANGED <<queue, buffer, confirming>> /\ pc' = "FinalFlush"
             /\ main # "Waiting" /\ confirming # Signal
    <3>1. SignalTaken' => SignalTaken /\ buffer' = <<>>
      BY <2>2, <2>3, AcknowledgedAll DEF SignalTaken
    <3>2. SignalTaken' => batches' = batches
      BY <1>1, <2>1, <3>1
    <3>3. SignalTaken' => full' = full
      BY <3>2 DEF Limit
    <3>4. QED
      BY <1>3, <2>2, <2>3, <3>1, <3>3
  <2>4. CASE /\ confirming' = confirming /\ ~ SignalTaken /\ Len(buffer') = Len(buffer) + 1
             /\ buffer' # <<>>
             /\ pc' = IF Len(buffer') >= BatchSize THEN "Flush" ELSE "Select"
    <3>1. ~ SignalTaken'
      BY <2>2, <2>4 DEF SignalTaken
    <3>2. Len(buffer) < Limit
      BY <1>6, KnownService
    <3>3. SUFFICES ASSUME main = "Waiting"
                   PROVE  full' = Len(processed') + IF Flushing' THEN Len(buffer') ELSE 0
      BY <1>4, <3>1
    <3>4. full = Len(processed)
      BY <1>1, <1>3, <2>2, <2>4, <3>3
    <3>5. CASE pc' = "Flush"
      <4>1. Len(buffer') = Limit
        BY <1>1, <2>4, <3>2, <3>5, BatchSizeAssumption DEF Limit
      <4>2. batches' = batches + 1
        BY <2>1, <2>4, <3>5
      <4>3. full' = full + Limit
        BY <1>1, <4>2, OneBatchMore DEF Limit
      <4>4. QED
        BY <1>1, <2>2, <3>4, <3>5, <4>1, <4>3 DEF Flushing
    <3>6. CASE pc' = "Select"
      <4>1. batches' = batches
        BY <1>1, <2>1, <3>6
      <4>2. full' = full
        BY <4>1 DEF Limit
      <4>3. QED
        BY <1>1, <2>2, <3>4, <3>6, <4>2 DEF Flushing
    <3>7. QED
      BY <2>4, <3>5, <3>6
  <2>5. CASE /\ confirming' = Signal /\ ~ SignalTaken /\ buffer' = buffer
             /\ Len(processed) + Len(buffer) = Len(file)
             /\ loader = "Loaded" /\ pc' = "Flush"
    <3>1. SignalTaken'
      BY <2>5 DEF SignalTaken
    <3>2. main = "Waiting"
      BY <2>5 DEF BatchesCounted, SignalTaken
    <3>3. full = Len(processed)
      BY <1>1, <1>3, <2>2, <2>5, <3>2
    <3>4. CASE buffer = <<>>
      <4>1. Len(buffer) = 0 /\ batches' = batches
        BY <1>1, <2>1, <2>5, <3>4
      <4>2. full' = full
        BY <4>1 DEF Limit
      <4>3. full' = Len(file)
        BY <1>1, <2>5, <3>3, <4>1, <4>2
      <4>4. QED
        BY <1>1, <3>1, <4>3
    <3>5. CASE buffer # <<>>
      <4>1. Len(buffer) > 0 /\ Len(buffer) <= Limit
        BY <3>5, KnownService, EmptySeq
      <4>2. batches' = batches + 1
        BY <2>1, <2>5, <3>5
      <4>3. full' = Len(processed) + Limit
        BY <1>1, <3>3, <4>2, OneBatchMore DEF Limit
      <4>4. QED
        BY <1>1, <2>5, <3>1, <4>1, <4>3
    <3>6. QED
      BY <3>4, <3>5
  <2>6. QED
    BY <1>6, <2>2, <2>3, <2>4, <2>5, Selecting
<1>7. CASE MeteredServiceStep /\ pc # "Select"
  <2>1. batches' = batches /\ ServiceStep
    BY <1>7, ServiceMeters, AppliedCounts, FlushedCounts, FiniteAccounts DEF Kept
  <2>2. full' = full
    BY <2>1 DEF Limit
  <2>3. Flushing /\ (SignalTaken' <=> SignalTaken)
    BY <1>7, <2>1, InFlush DEF SignalTaken
  <2>4. Len(processed') + (IF Flushing' THEN Len(buffer') ELSE 0) = Len(processed) + Len(buffer)
    <3>1. CASE /\ pc' = pc /\ Len(processed') = Len(processed) + 1
               /\ Len(buffer') = Len(buffer) - 1
      BY <1>1, <2>3, <3>1 DEF Flushing
    <3>2. CASE processed' = processed /\ buffer = <<>> /\ buffer' = <<>>
      BY <1>1, <3>2
    <3>3. QED
      BY <1>7, <2>1, <3>1, <3>2, InFlush
  <2>5. QED
    BY <1>3, <1>4, <2>2, <2>3, <2>4
<1>8. CASE ~ MeteredServiceStep
  <2>1. batches' = batches /\ UNCHANGED <<pc, processed, buffer, acked, confirming>>
    BY <1>8, BesideService DEF Kept, ServiceInstrument
  <2>2. full' = full
    BY <2>1 DEF Limit
  <2>3. QED
    BY <1>3, <1>4, <2>1, <2>2 DEF Flushing, SignalTaken
<1>9. QED
  BY <1>6, <1>7, <1>8

(* The loader, and what it has counted of the rows.                        *)
LEMMA LoaderCountedStep ==
  ASSUME Known, Known', CountersTyped, LoaderCounted, MeteredNext
  PROVE  LoaderCounted'
<1>1. /\ metrics.csv_files_loaded \in Nat /\ metrics.csv_rows_parsed \in Nat
      /\ metrics.pipeline_messages_enqueued \in Nat /\ chrono \in Nat
  BY KnownService DEF CountersTyped, Instrument
<1>2. CASE Kept(LoaderInstrument) /\ UNCHANGED <<loader, chrono>>
  BY <1>2 DEF LoaderCounted, Kept, LoaderInstrument
<1>3. CASE MeteredLoaderStep
  <2>1. CASE /\ Open
             /\ metrics'.csv_files_loaded = metrics.csv_files_loaded + 1
             /\ Kept({"csv_parse_errors", "csv_rows_parsed", "pipeline_messages_enqueued"})
    <3>1. loader = "Opening" /\ loader' \in {"Reading", "Failed"} /\ chrono' = chrono
      BY <2>1 DEF Open
    <3>2. QED
      BY <1>1, <2>1, <3>1 DEF LoaderCounted, Kept
  <2>2. CASE ReadRow /\ Kept(LoaderInstrument)
    <3>1. loader = "Reading" /\ loader' = "Reading"
      BY <2>2 DEF ReadRow
    <3>2. QED
      BY <2>2, <3>1 DEF LoaderCounted, Kept, LoaderInstrument
  <2>3. CASE /\ ReadBadRow
             /\ Kept({"csv_files_loaded", "csv_rows_parsed", "pipeline_messages_enqueued"})
    <3>1. loader = "Reading" /\ loader' = "Failed"
      BY <2>3 DEF ReadBadRow
    <3>2. QED
      BY <2>3, <3>1 DEF LoaderCounted, Kept
  <2>4. CASE /\ EndOfFile
             /\ metrics'.csv_rows_parsed = metrics.csv_rows_parsed + chrono
             /\ metrics'.pipeline_messages_enqueued = metrics.pipeline_messages_enqueued + chrono
             /\ Kept({"csv_files_loaded", "csv_parse_errors"})
    <3>1. loader = "Reading" /\ loader' = "Loaded" /\ chrono' = chrono
      BY <2>4 DEF EndOfFile
    <3>2. QED
      BY <1>1, <2>4, <3>1 DEF LoaderCounted, Kept
  <2>5. QED
    BY <1>1, <1>3, <2>1, <2>2, <2>3, <2>4, LoaderCounts
<1>4. CASE MeteredServiceStep
  <2>1. UNCHANGED <<loader, chrono>> /\ Len(buffer') \in Nat
    <3>1. UNCHANGED <<loader, chrono>>
      BY <1>4, ServiceMeters, TaskSteps
    <3>2. Len(buffer') \in Nat
      BY ServiceTyped DEF Known, IInv, TypeOK
    <3>3. QED
      BY <3>1, <3>2
  <2>2. Kept(LoaderInstrument)
    BY <1>4, <2>1, ServiceMeters, SelectedCounts, AppliedCounts, FlushedCounts, FiniteAccounts
  <2>3. QED
    BY <1>2, <2>1, <2>2
<1>5. CASE MeteredOutcomeStep
  <2>1. handled \in Nat
    BY KnownService DEF Known, IInv, TypeOK
  <2>2. UNCHANGED <<loader, chrono>>
    BY <1>5 DEF MeteredOutcomeStep, TakeOutcome, EndOutcomes, loading
  <2>3. QED
    BY <1>2, <1>5, <2>1, <2>2, OutcomeCounts
<1>6. CASE MeteredMainStep
  BY <1>2, <1>6, MainCounts, MainSteps, FiniteAccounts, FiniteLines
<1>7. CASE (OutputStep \/ Exited) /\ Nothing
  BY <1>2, <1>7 DEF OutputStep, Exited, Nothing, Kept, vars, loading
<1>8. QED
  BY <1>3, <1>4, <1>5, <1>6, <1>7 DEF MeteredNext

(* The outcome task adds what it has counted when nothing more can come.   *)
LEMMA OutcomesCountedStep ==
  ASSUME Known, Known', CountersTyped, OutcomesCounted, MeteredNext
  PROVE  OutcomesCounted'
<1>1. /\ handled \in Nat /\ Len(processed) \in Nat /\ logger \in {"Running", "Ended"}
      /\ metrics.pipeline_transactions_ok \in Nat
      /\ metrics.pipeline_transactions_failed \in Nat
  BY KnownService DEF Known, IInv, TypeOK, CountersTyped, Instrument
<1>2. CASE Kept(OutcomeInstrument) /\ UNCHANGED <<logger, processed>>
  BY <1>2 DEF OutcomesCounted, Kept, OutcomeInstrument
<1>3. CASE MeteredOutcomeStep
  <2>1. CASE TakeOutcome /\ Kept(OutcomeInstrument)
    BY <1>2, <2>1 DEF TakeOutcome, service
  <2>2. CASE /\ EndOutcomes
             /\ metrics'.pipeline_transactions_ok + metrics'.pipeline_transactions_failed
                  = metrics.pipeline_transactions_ok + metrics.pipeline_transactions_failed
                      + handled
    <3>1. /\ logger = "Running" /\ logger' = "Ended" /\ handled = Len(processed)
          /\ processed' = processed
      BY <2>2 DEF EndOutcomes, Service!DropOutcomeReceiver, Service!task
    <3>2. metrics.pipeline_transactions_ok + metrics.pipeline_transactions_failed = 0
      BY <3>1 DEF OutcomesCounted
    <3>3. QED
      BY <1>1, <2>2, <3>1, <3>2 DEF OutcomesCounted
  <2>3. QED
    BY <1>1, <1>3, <2>1, <2>2, OutcomeCounts
<1>4. CASE MeteredServiceStep
  <2>1. logger' = logger /\ Len(buffer') \in Nat
    <3>1. logger' = logger
      BY <1>4, ServiceMeters, TaskSteps
    <3>2. Len(buffer') \in Nat
      BY ServiceTyped DEF Known, IInv, TypeOK
    <3>3. QED
      BY <3>1, <3>2
  <2>2. Kept(OutcomeInstrument)
    BY <1>4, <2>1, ServiceMeters, SelectedCounts, AppliedCounts, FlushedCounts, FiniteAccounts
  <2>3. logger # "Running" => processed' = processed
    <3>1. SUFFICES ASSUME logger # "Running" PROVE processed' = processed
      OBVIOUS
    <3>2. ~ listening
      BY <3>1, KnownService DEF EndsSound
    <3>3. ServiceStep /\ ~ Service!ApplyOldest
      BY <1>4, <3>2, ServiceMeters, AppliesFirst DEF Known
    <3>4. QED
      BY <3>3, TaskSteps
      DEF Service!TaskStep, Service!TakeCancelled, Service!TakeClosed, Service!TakeIncoming,
          Service!Receive, Service!TakeCompletion, Service!EndFlush, Service!Acknowledge,
          Service!Confirm, Service!AcknowledgeFails, Service!Return, Service!GoTo
  <2>4. QED
    BY <2>1, <2>2, <2>3 DEF OutcomesCounted, Kept, OutcomeInstrument
<1>5. CASE MeteredLoaderStep
  <2>1. UNCHANGED <<logger, processed>>
    BY <1>5 DEF MeteredLoaderStep, Open, ReadRow, ReadBadRow, EndOfFile, Service!Send,
       Service!SendCompletion, Service!task, service, logging
  <2>2. QED
    BY <1>2, <1>5, <2>1, LoaderCounts, KnownService
<1>6. CASE MeteredMainStep
  BY <1>2, <1>6, MainCounts, MainSteps, FiniteAccounts, FiniteLines
<1>7. CASE (OutputStep \/ Exited) /\ Nothing
  BY <1>2, <1>7 DEF OutputStep, Exited, Nothing, Kept, vars, service, logging
<1>8. QED
  BY <1>3, <1>4, <1>5, <1>6, <1>7 DEF MeteredNext

(* No account is made once the snapshot has begun.                         *)
LEMMA AccountsRest ==
  ASSUME Known, MeteredServiceStep, snapshot # "Idle"
  PROVE  accounts' = accounts
<1>1. Signal \in acked
  BY DEF Known, IInv, SnapshotSound
<1>2. QED
  BY <1>1, ServiceMeters, Selecting, InFlush

(* What the snapshot records.                                              *)
LEMMA SnapshotCountedStep ==
  ASSUME Known, Known', CountersTyped, SnapshotCounted, MeteredNext
  PROVE  SnapshotCounted'
<1>1. snapshot \in {"Idle", "Header", "Rows", "Flush", "Done", "Failed"}
  BY DEF Known, IInv, TypeOK
<1>2. CASE /\ Kept(SnapshotInstrument) /\ tally'.accounts = tally.accounts
           /\ snapshot' = snapshot /\ (snapshot # "Idle" => accounts' = accounts)
  BY <1>2 DEF SnapshotCounted, Kept, SnapshotInstrument
<1>3. CASE MeteredMainStep
  <2> DEFINE listed == Cardinality({i \in 2 .. Len(lines) : lines[i].statement.locked})
             owned == Cardinality({c \in DOMAIN accounts : accounts[c].locked})
  <2>1. /\ MainStep
        /\ IF snapshot = "Header" /\ snapshot' = "Rows"
           THEN tally'.accounts = Cardinality(DOMAIN accounts)
           ELSE tally'.accounts = tally.accounts
        /\ IF snapshot' = "Done" /\ snapshot # "Done"
           THEN /\ metrics'.snapshot_accounts_written = tally.accounts
                /\ metrics'.snapshot_accounts_locked = listed
           ELSE Kept(SnapshotInstrument)
    BY <1>3, MainCounts, FiniteAccounts, FiniteLines
  <2>2. accounts' = accounts
    BY <2>1, MainSteps
  <2>3. \/ snapshot' = snapshot
        \/ snapshot' \in {"Idle", "Header", "Failed"}
        \/ snapshot = "Header" /\ snapshot' = "Rows"
        \/ snapshot = "Rows" /\ snapshot' = "Flush"
        \/ snapshot = "Flush" /\ snapshot' = "Done"
    <3>1. CASE WriteOutput
      BY <3>1, OutputSteps
    <3>2. QED
      BY <2>1, <3>1
      DEF MainStep, Reap, ReceiveSignal, Service!Begin, Service!Snapshot!Begin, LoseSignal,
          PrintFails, Snapshot!Fail, Finish, Snapshot!Flush, Return, Exit, output
  <2>4. snapshot = "Flush" => listed = owned
    BY OneLineEach
  <2> HIDE DEF listed, owned
  <2>5. CASE snapshot = "Flush" /\ snapshot' = "Done"
    <3>1. /\ metrics'.snapshot_accounts_written = tally.accounts
          /\ metrics'.snapshot_accounts_locked = owned
          /\ tally'.accounts = tally.accounts
          /\ tally.accounts = Cardinality(DOMAIN accounts)
      BY <2>1, <2>4, <2>5 DEF SnapshotCounted
    <3>2. QED
      BY <2>2, <2>5, <3>1 DEF SnapshotCounted, owned
  <2>6. CASE snapshot = "Header" /\ snapshot' = "Rows"
    BY <2>1, <2>2, <2>6 DEF SnapshotCounted
  <2>7. CASE snapshot = "Rows" /\ snapshot' = "Flush"
    BY <2>1, <2>2, <2>7 DEF SnapshotCounted
  <2>8. CASE snapshot' = snapshot
    BY <1>2, <2>1, <2>2, <2>8
  <2>9. CASE snapshot' \in {"Idle", "Header", "Failed"}
    BY <2>9 DEF SnapshotCounted
  <2>10. QED
    BY <2>3, <2>5, <2>6, <2>7, <2>8, <2>9
<1>4. CASE MeteredServiceStep
  <2>1. snapshot' = snapshot /\ (snapshot # "Idle" => accounts' = accounts)
    BY <1>4, ServiceMeters, TaskSteps, AccountsRest DEF output
  <2>2. Len(buffer') \in Nat
    BY ServiceTyped DEF Known, IInv, TypeOK
  <2>3. Kept(SnapshotInstrument) /\ tally'.accounts = tally.accounts
    BY <1>4, <2>2, ServiceMeters, SelectedCounts, AppliedCounts, FlushedCounts, FiniteAccounts
  <2>4. QED
    BY <1>2, <2>1, <2>3
<1>5. CASE MeteredLoaderStep
  <2>1. snapshot' = snapshot
    BY <1>5 DEF MeteredLoaderStep, Open, ReadRow, ReadBadRow, EndOfFile, printing, output
  <2>2. accounts' = accounts
    BY <1>5 DEF MeteredLoaderStep, Open, ReadRow, ReadBadRow, EndOfFile, Service!Send,
       Service!SendCompletion, Service!task, service
  <2>3. QED
    BY <1>2, <1>5, <2>1, <2>2, LoaderCounts, KnownService
<1>6. CASE MeteredOutcomeStep
  <2>1. snapshot' = snapshot /\ accounts' = accounts
    BY <1>6 DEF MeteredOutcomeStep, TakeOutcome, EndOutcomes, Service!DropOutcomeReceiver,
       Service!task, service, printing, output
  <2>2. handled \in Nat
    BY KnownService DEF Known, IInv, TypeOK
  <2>3. QED
    BY <1>2, <1>6, <2>1, <2>2, OutcomeCounts
<1>7. CASE (OutputStep \/ Exited) /\ Nothing
  <2>1. snapshot' = snapshot /\ accounts' = accounts
    BY <1>7 DEF OutputStep, Snapshot!HandOn, Exited, vars, service, printing, output
  <2>2. QED
    BY <1>2, <1>7, <2>1 DEF Nothing, Kept
<1>8. QED
  BY <1>3, <1>4, <1>5, <1>6, <1>7 DEF MeteredNext

-----------------------------------------------------------------------------
(***************************************************************************)
(* The invariant, and what follows.                                        *)
(***************************************************************************)

LEMMA CountersInit == MeteredInit => CountersSound
<1> SUFFICES ASSUME MeteredInit PROVE CountersSound
  OBVIOUS
<1>1. /\ metrics = [i \in Instrument |-> 0] /\ tally = [ok |-> 0, failed |-> 0, accounts |-> 0]
      /\ Init
  BY DEF MeteredInit
<1>2. /\ pc = "Select" /\ processed = <<>> /\ buffer = <<>> /\ acked = {}
      /\ confirming = NoCompletion /\ DOMAIN accounts = {} /\ snapshot = "Idle"
      /\ loader = "Opening" /\ chrono = 0 /\ logger = "Running" /\ main = "Waiting"
  BY <1>1 DEF Init, Service!SharedInit, Service!Init, Service!Snapshot!Init
<1>3. Len(processed) = 0 /\ Len(buffer) = 0 /\ Cardinality(DOMAIN accounts) = 0
  BY <1>2, FS_EmptySet
<1>4. \A i \in Instrument : metrics[i] = 0
  BY <1>1
<1>5. ~ SignalTaken /\ ~ Flushing
  BY <1>2, NoCompletionAssumption DEF SignalTaken, Flushing
<1>6. CountersTyped
  BY <1>1 DEF CountersTyped
<1>7. ServiceCounted
  BY <1>2, <1>3, <1>4, <1>5 DEF ServiceCounted, Instrument
<1>8. BatchesCounted
  <2>1. metrics.service_batches_processed * Limit = 0
    BY <1>4, LimitType DEF Instrument
  <2>2. QED
    BY <1>2, <1>3, <1>5, <2>1 DEF BatchesCounted
<1>9. LoaderCounted /\ OutcomesCounted /\ SnapshotCounted
  BY <1>2, <1>4 DEF LoaderCounted, OutcomesCounted, SnapshotCounted, Instrument
<1>10. QED
  BY <1>6, <1>7, <1>8, <1>9 DEF CountersSound

(* The invariant speaks of the variables alone.                            *)
LEMMA CountersStutter ==
  ASSUME CountersSound, UNCHANGED meteredVars
  PROVE  CountersSound'
BY DEF CountersSound, CountersTyped, ServiceCounted, BatchesCounted, LoaderCounted,
   OutcomesCounted, SnapshotCounted, Flushing, SignalTaken, Limit, meteredVars, vars, service,
   output, loading, logging, printing

(* The counters are sound in every reachable state.                        *)
THEOREM CountersInvariance == MeteredSpec => []CountersSound
<1>1. MeteredInit => CountersSound
  BY CountersInit
<1>2. Known /\ Known' /\ CountersSound /\ [MeteredNext]_meteredVars => CountersSound'
  <2>1. ASSUME Known, Known', CountersSound, MeteredNext PROVE CountersSound'
    BY <2>1, TypedStep, ServiceCountedStep, BatchesCountedStep, LoaderCountedStep,
       OutcomesCountedStep, SnapshotCountedStep
    DEF CountersSound
  <2>2. QED
    BY <2>1, CountersStutter
<1>3. QED
  BY <1>1, <1>2, KnownAlways, PTL DEF MeteredSpec

(* What is exported at any time misses or anticipates no more than one     *)
(* batch, whatever handle_buffer has still to add at its end.              *)
THEOREM CountersTrail == MeteredSpec => []CountersTrailByABatch
<1>1. Known /\ CountersSound => CountersTrailByABatch
  <2>1. SUFFICES ASSUME Known, CountersSound PROVE CountersTrailByABatch
    OBVIOUS
  <2> DEFINE applied == metrics.service_transactions_ok + metrics.service_transactions_error
             batched == metrics.service_batch_transactions_ok
                          + metrics.service_batch_transactions_failed
             done == IF Flushing THEN tally.ok + tally.failed ELSE 0
  <2>2. CountersTyped /\ ServiceCounted /\ OutcomesCounted
    BY <2>1 DEF CountersSound
  <2>3. /\ metrics.service_transactions_ok \in Nat /\ metrics.service_transactions_error \in Nat
        /\ metrics.service_batch_transactions_ok \in Nat
        /\ metrics.service_batch_transactions_failed \in Nat
        /\ metrics.service_batch_size \in Nat
        /\ tally.ok \in Nat /\ tally.failed \in Nat
        /\ Len(buffer) \in Nat /\ Len(processed) \in Nat /\ Limit \in Nat
    BY <2>1, <2>2, KnownService, LimitType DEF CountersTyped, Instrument
  <2>4. applied = Len(processed)
    BY <2>2 DEF ServiceCounted
  <2>5. applied - batched = done /\ done \in 0 .. Limit
    <3>1. CASE Flushing
      <4> DEFINE a == metrics.service_transactions_ok
                 b == metrics.service_transactions_error
                 m == metrics.service_batch_transactions_ok
                 n == metrics.service_batch_transactions_failed
                 j == tally.ok
                 k == tally.failed
      <4>1. a = m + j /\ b = n + k /\ j + k + Len(buffer) <= Limit
        BY <2>2, <3>1 DEF ServiceCounted
      <4>2. m \in Nat /\ n \in Nat /\ j \in Nat /\ k \in Nat
        BY <2>3
      <4>3. (a + b) - (m + n) = j + k /\ j + k \in 0 .. Limit
        <5> HIDE DEF a, b, m, n, j, k
        <5>1. QED
          BY <2>3, <4>1, <4>2
      <4>4. done = j + k
        BY <3>1
      <4>5. applied = a + b /\ batched = m + n
        OBVIOUS
      <4> HIDE DEF a, b, m, n, j, k, applied, batched, done
      <4>6. QED
        BY <4>3, <4>4, <4>5
    <3>2. CASE ~ Flushing
      <4>1. /\ metrics.service_transactions_ok = metrics.service_batch_transactions_ok
            /\ metrics.service_transactions_error = metrics.service_batch_transactions_failed
        BY <2>2, <2>3, <3>2 DEF ServiceCounted
      <4>2. QED
        BY <2>3, <3>2, <4>1
    <3>3. QED
      BY <3>1, <3>2
  <2>6. pc = "Select" => batched = applied
    <3>1. SUFFICES ASSUME pc = "Select" PROVE batched = applied
      OBVIOUS
    <3>2. done = 0
      BY <3>1 DEF Flushing
    <3>3. applied \in Nat /\ batched \in Nat
      BY <2>3
    <3> HIDE DEF applied, batched
    <3>4. QED
      BY <2>5, <3>2, <3>3
  <2>7. metrics.service_batch_size - applied = IF pc = "Select" THEN 0 ELSE Len(buffer)
    <3>1. metrics.service_batch_size = Len(processed) + IF Flushing THEN Len(buffer) ELSE 0
      BY <2>2 DEF ServiceCounted
    <3>2. /\ pc \in {"Select", "Flush", "FinalFlush", "Returned"}
          /\ pc = "Returned" => Len(buffer) = 0
      BY <2>1, KnownService
    <3>3. QED
      BY <2>3, <2>4, <3>1, <3>2 DEF Flushing
  <2>8. metrics.pipeline_transactions_ok + metrics.pipeline_transactions_failed
          \in {0, Len(processed)}
    BY <2>2 DEF OutcomesCounted
  <2>9. QED
    BY <2>4, <2>5, <2>6, <2>7, <2>8 DEF CountersTrailByABatch
<1>2. QED
  BY <1>1, KnownAlways, CountersInvariance, PTL

(* The number of full batches and a last one.                              *)
LEMMA NumberOfBatches ==
  ASSUME NEW b \in Nat, NEW n \in Nat \ {0}, NEW rows \in Nat,
         b * n - n < rows, rows <= b * n
  PROVE  b = (rows + n - 1) \div n
<1> DEFINE q == (rows + n - 1) \div n
<1>1. q \in Int /\ n * q <= rows + n - 1 /\ rows + n - 1 < n * q + n
  OBVIOUS
<1> HIDE DEF q
<1>2. ASSUME NEW m \in Int, NEW k \in Int, m >= k + 1
      PROVE  n * m >= n * k + n
  <2>1. m - k - 1 \in Nat
    BY <1>2
  <2>2. n * (m - k - 1) \in Nat
    BY <2>1
  <2>3. n * (m - k - 1) = n * m - n * k - n
    OBVIOUS
  <2>4. n * m \in Int /\ n * k \in Int
    OBVIOUS
  <2>5. QED
    BY <2>2, <2>3, <2>4
<1>3. n * b = b * n
  OBVIOUS
<1>4. ~ (b >= q + 1)
  BY <1>1, <1>2, <1>3
<1>5. ~ (q >= b + 1)
  BY <1>1, <1>2, <1>3
<1>6. QED
  BY <1>1, <1>4, <1>5 DEF q

(* When main returns, all the instruments tell of the same run: the whole  *)
(* file, its batches, and the accounts that were printed.                  *)
THEOREM CountersAgreeAtTheEnd == MeteredSpec => []CountersAgree
<1>1. Known /\ CountersSound => CountersAgree
  <2>1. SUFFICES ASSUME Known, CountersSound, main \in {"Finishing", "Returned"}
                 PROVE  CountersAgree
    BY DEF CountersAgree
  <2>2. /\ CountersTyped /\ ServiceCounted /\ BatchesCounted /\ LoaderCounted
        /\ SnapshotCounted /\ SnapshotSound
    BY <2>1 DEF CountersSound, Known, IInv
  <2>3. snapshot = "Done" /\ Signal \in acked /\ SignalTaken
    BY <2>1, <2>2 DEF SnapshotSound, SignalTaken
  <2>4. /\ Len(processed) = Len(file) /\ chrono = Len(file) /\ Len(buffer) = 0
        /\ loader = "Loaded" /\ Len(file) \in Nat
    BY <2>1, <2>3, AcknowledgedAll, KnownService
  <2>5. /\ metrics.service_transactions_ok \in Nat /\ metrics.service_transactions_error \in Nat
        /\ metrics.service_batch_transactions_ok \in Nat
        /\ metrics.service_batch_transactions_failed \in Nat
        /\ metrics.service_batches_processed \in Nat
        /\ tally.ok \in Nat /\ tally.failed \in Nat
    BY <2>2 DEF CountersTyped, Instrument
  <2>6. Flushing => tally.ok = 0 /\ tally.failed = 0
    BY <2>2, <2>3, <2>5 DEF ServiceCounted
  <2>7. /\ metrics.service_transactions_ok = metrics.service_batch_transactions_ok
        /\ metrics.service_transactions_error = metrics.service_batch_transactions_failed
        /\ metrics.service_transactions_ok + metrics.service_transactions_error = Len(file)
    BY <2>2, <2>4, <2>5, <2>6 DEF ServiceCounted
  <2>8. metrics.service_ticks = Len(file) + 1
    BY <2>2, <2>3, <2>4 DEF ServiceCounted
  <2>9. metrics.service_accounts_total = Cardinality(DOMAIN accounts)
    BY <2>2, <2>6 DEF ServiceCounted
  <2>10. metrics.service_batches_processed = (Len(file) + Limit - 1) \div Limit
    BY <2>2, <2>3, <2>4, <2>5, LimitType, NumberOfBatches DEF BatchesCounted
  <2>11. /\ metrics.csv_files_loaded = 1 /\ metrics.csv_parse_errors = 0
         /\ metrics.csv_rows_parsed = Len(file)
         /\ metrics.pipeline_messages_enqueued = Len(file)
    BY <2>2, <2>4 DEF LoaderCounted
  <2>12. /\ metrics.snapshot_accounts_written = Cardinality(DOMAIN accounts)
         /\ metrics.snapshot_accounts_locked
              = Cardinality({c \in DOMAIN accounts : accounts[c].locked})
    BY <2>2, <2>3 DEF SnapshotCounted
  <2>13. delivered - 1 = Cardinality(DOMAIN accounts)
    <3>1. delivered = Len(lines)
      BY <2>2, <2>3 DEF SnapshotSound
    <3>2. QED
      BY <2>1, <2>3, <3>1, OneLineEach
  <2>14. QED
    BY <2>7, <2>8, <2>9, <2>10, <2>11, <2>12, <2>13 DEF CountersAgree
<1>2. QED
  BY <1>1, KnownAlways, CountersInvariance, PTL

=============================================================================
