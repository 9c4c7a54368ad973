------------------------------ MODULE Pipeline ------------------------------
(***************************************************************************)
(* The program (src/main.rs): a loader reads a CSV file and sends each row *)
(* to the service, the service applies them, an outcome task logs the ones *)
(* that failed, and main waits for the completion signal, prints every     *)
(* account and exits.  The three tasks and main run in parallel; the       *)
(* service and the snapshot are those of SharedService.tla, with main and  *)
(* its tasks in the place of that module's surroundings.                   *)
(*                                                                         *)
(* Left out: metrics (see Metrics.tla), traces, and the column layout of   *)
(* the output.                                                             *)
(***************************************************************************)
EXTENDS AccountOps, Sequences

CONSTANTS
  ClientId,
  BatchSize,
  Files,          \* the input files: sequences of rows
  BadRecord,      \* a row that cannot be read from the file or deserialized
  BadField,       \* a row with a column that CsvReader::next refuses
  Signal,         \* the completion the loader sends after the last row
  NoCompletion,
  Shards, ShardOf \* see Snapshot.tla

BadRow == {BadRecord, BadField}

Row == [client_id : ClientId, message : InputMessage]

ASSUME FilesAssumption == Files \subseteq Seq(BadRow \cup Row)
ASSUME BatchSizeAssumption == BatchSize \in Nat
ASSUME NoCompletionAssumption == NoCompletion # Signal
ASSUME ShardsAssumption == Shards \in Nat \ {0} /\ ShardOf \in [ClientId -> 1 .. Shards]

VARIABLES
  queue, senders, cancelled, listening, abandoned, pc, confirming, buffer,
  accounts, acked, sent, received, processed, before,   \* see Service.tla
  snapshot, shard, lines, delivered, moments,   \* see SharedService.tla
  file,       \* the rows of the input file
  loader,     \* where load_file is
  chrono,     \* chrono_order of the reader: the number of rows it has parsed
  handled,    \* how many outcomes the outcome task has taken from its channel
  logger,     \* is the outcome task running?
  main,       \* where main is
  tasks,      \* the tasks main has not yet seen the end of
  exited      \* has the runtime been shut down?

service == <<queue, senders, cancelled, listening, abandoned, pc, confirming, buffer,
             accounts, acked, sent, received, processed, before>>
output == <<snapshot, shard, lines, delivered, moments>>
loading == <<file, loader, chrono>>
logging == <<handled, logger>>
printing == <<output, main, tasks, exited>>
vars == <<service, loading, logging, printing>>

(* InputMessage number n of the file, as CsvReader numbers them.           *)
Transaction(n) ==
  [chrono_order |-> n, client_id |-> file[n + 1].client_id, message |-> file[n + 1].message]

AllTransactions ==
  UNION {{[chrono_order |-> n, client_id |-> f[i].client_id, message |-> f[i].message] :
            i \in {j \in 1 .. Len(f) : f[j] \in Row}, n \in 0 .. Len(f)} : f \in Files}

Service ==
  INSTANCE SharedService WITH
    Messages    <- AllTransactions,
    Completions <- {Signal}

Snapshot == INSTANCE Snapshot

Init ==
  /\ Service!SharedInit
  /\ file \in Files
  /\ loader = "Opening"
  /\ chrono = 0
  /\ handled = 0
  /\ logger = "Running"
  /\ main = "Waiting"
  /\ tasks = {"service", "loader", "outcomes"}
  /\ exited = FALSE

-----------------------------------------------------------------------------
(***************************************************************************)
(* load_file, with the CsvReader in it.  The sends never fail: the service *)
(* outlives the loader (NoSendFails).                                      *)
(***************************************************************************)

Open ==
  /\ loader = "Opening"
  /\ loader' \in {"Reading", "Failed"}
  /\ UNCHANGED <<service, file, chrono, logging, printing>>

(* Faulty variant: the counter of the reader is not used.                  *)
ReadRowUnnumbered ==
  /\ loader = "Reading"
  /\ chrono < Len(file) /\ file[chrono + 1] \notin BadRow
  /\ Service!Send([Transaction(chrono) EXCEPT !.chrono_order = 0])
  /\ chrono' = chrono + 1
  /\ UNCHANGED <<file, loader, logging, printing>>

ReadRow ==
  /\ loader = "Reading"
  /\ chrono < Len(file) /\ file[chrono + 1] \notin BadRow
  /\ Service!Send(Transaction(chrono))
  /\ chrono' = chrono + 1
  /\ UNCHANGED <<file, loader, logging, printing>>

(* Faulty variant: a bad row ends the file instead of the load.            *)
ReadBadRowAsEnd ==
  /\ loader = "Reading"
  /\ chrono < Len(file) /\ file[chrono + 1] \in BadRow
  /\ Service!SendCompletion(Signal)
  /\ loader' = "Loaded"
  /\ UNCHANGED <<file, chrono, logging, printing>>

(* A row that cannot be parsed ends the load; the completion is dropped    *)
(* unsent.                                                                 *)
ReadBadRow ==
  /\ loader = "Reading"
  /\ chrono < Len(file) /\ file[chrono + 1] \in BadRow
  /\ loader' = "Failed"
  /\ UNCHANGED <<service, file, chrono, logging, printing>>

EndOfFile ==
  /\ loader = "Reading"
  /\ chrono = Len(file)
  /\ Service!SendCompletion(Signal)
  /\ loader' = "Loaded"
  /\ UNCHANGED <<file, chrono, logging, printing>>

-----------------------------------------------------------------------------
(***************************************************************************)
(* The outcome task.  Outcomes are taken in the order they were sent, that *)
(* is, the order in which transactions were applied.                       *)
(***************************************************************************)

(* Faulty variant: the first failure ends the task, and with it the        *)
(* receiver of outcomes.                                                   *)
TakeOutcomeUntilFailure ==
  /\ logger = "Running"
  /\ handled < Len(processed)
  /\ handled' = handled + 1
  /\ IF processed[handled + 1].result = "Ok"
     THEN UNCHANGED <<logger, service>>
     ELSE logger' = "Ended" /\ Service!DropOutcomeReceiver
  /\ UNCHANGED <<loading, printing>>

TakeOutcome ==
  /\ logger = "Running"
  /\ handled < Len(processed)
  /\ handled' = handled + 1
  /\ UNCHANGED <<service, loading, logger, printing>>

(* The channel is closed when nobody holds a sender: not the loader, and   *)
(* no transaction that is still queued or in the heap.                     *)
EndOutcomes ==
  /\ logger = "Running"
  /\ handled = Len(processed)
  /\ loader \in {"Loaded", "Failed"}
  /\ \A i \in 1 .. Len(queue) : queue[i].kind # "Incoming"
  /\ buffer = <<>>
  /\ logger' = "Ended"
  /\ Service!DropOutcomeReceiver
  /\ UNCHANGED <<loading, handled, printing>>

-----------------------------------------------------------------------------
(***************************************************************************)
(* main.                                                                   *)
(***************************************************************************)

Ended(task) ==
  CASE task = "service"  -> pc \in {"Returned", "Failed"}
    [] task = "loader"   -> loader \in {"Loaded", "Failed"}
    [] task = "outcomes" -> logger = "Ended"

(* main leaves with its result, and its sender to the service is dropped.  *)
Leave(how) ==
  /\ main' = how
  /\ Service!CloseSenders

(* The end of a task is only logged; the loop is over when none is left.   *)
Reap(task) ==
  /\ main = "Waiting"
  /\ task \in tasks /\ Ended(task)
  /\ tasks' = tasks \ {task}
  /\ IF tasks' = {} THEN Leave("Returned") ELSE UNCHANGED <<main, service>>
  /\ UNCHANGED <<output, loading, logging, exited>>

(* Faulty variant: the service is cancelled first.                         *)
ReceiveSignalCancelling ==
  /\ main = "Waiting"
  /\ Signal \in acked
  /\ main' = "Printing"
  /\ Snapshot!Begin
  /\ Service!Cancel
  /\ UNCHANGED <<moments, loading, logging, tasks, exited>>

(* The completion was acknowledged: main starts to write the snapshot.     *)
ReceiveSignal ==
  /\ main = "Waiting"
  /\ Signal \in acked
  /\ main' = "Printing"
  /\ Service!Begin
  /\ UNCHANGED <<loading, logging, tasks, exited>>

(* Faulty variant: the loss of the signal is noticed only once it was      *)
(* sent.                                                                   *)
LoseSignalLate ==
  /\ main = "Waiting"
  /\ Signal \in DOMAIN before \ acked
  /\ ~ Service!Running
  /\ Leave("Failed")
  /\ UNCHANGED <<output, loading, logging, tasks, exited>>

(* The sender of the signal is gone, with the loader that did not come to  *)
(* send it or with the service that had it: main returns an error.         *)
LoseSignal ==
  /\ main = "Waiting"
  /\ Signal \notin acked
  /\ loader = "Failed" \/ (Signal \in DOMAIN before /\ ~ Service!Running)
  /\ Leave("Failed")
  /\ UNCHANGED <<output, loading, logging, tasks, exited>>

WriteOutput ==
  /\ main = "Printing"
  /\ Service!ReaderStep
  /\ snapshot' \notin {"Done", "Failed"}
  /\ UNCHANGED <<loading, logging, main, tasks, exited>>

(* An error of write_snapshot is the error of main.                        *)
PrintFails ==
  /\ main = "Printing"
  /\ Snapshot!Fail
  /\ Leave("Failed")
  /\ UNCHANGED <<moments, loading, logging, tasks, exited>>

(* The last flush, and at once the cancellation of the service.            *)
Finish ==
  /\ main = "Printing"
  /\ Snapshot!Flush
  /\ Service!Cancel
  /\ main' = "Finishing"
  /\ UNCHANGED <<moments, loading, logging, tasks, exited>>

(* The exporter of metrics, in a build that has one, is shut down last,    *)
(* and that may fail.                                                      *)
Return ==
  /\ main = "Finishing"
  /\ Leave("Returned") \/ Leave("Failed")
  /\ UNCHANGED <<output, loading, logging, tasks, exited>>

(* The runtime is dropped after main: it lets a task that is running come  *)
(* to an await, which a flush has none of, and drops the tasks.            *)
Exit ==
  /\ main \in {"Returned", "Failed"}
  /\ pc \notin {"Flush", "FinalFlush"}
  /\ exited' = TRUE
  /\ UNCHANGED <<service, output, loading, logging, main, tasks>>

-----------------------------------------------------------------------------
LoaderStep == ~ exited /\ (Open \/ ReadRow \/ ReadBadRow \/ EndOfFile)

ServiceStep ==
  /\ ~ exited
  /\ Service!SharedTaskStep
  /\ UNCHANGED <<loading, logging, main, tasks, exited>>

OutcomeStep == ~ exited /\ (TakeOutcome \/ EndOutcomes)

MainStep ==
  /\ ~ exited
  /\ \/ \E task \in tasks : Reap(task)
     \/ ReceiveSignal \/ LoseSignal
     \/ WriteOutput \/ PrintFails \/ Finish \/ Return \/ Exit

(* Output goes from buffer to buffer and out on its own.                   *)
OutputStep ==
  /\ ~ exited
  /\ Snapshot!HandOn
  /\ UNCHANGED <<service, moments, loading, logging, main, tasks, exited>>

(* A process that has exited; every other state without a next one would   *)
(* be a deadlock.                                                          *)
Exited == exited /\ UNCHANGED vars

Next == LoaderStep \/ ServiceStep \/ OutcomeStep \/ MainStep \/ OutputStep \/ Exited

Spec == Init /\ [][Next]_vars

(* Every task that can make a step is polled in the end, main with them.   *)
FairSpec ==
  /\ Spec
  /\ WF_vars(LoaderStep) /\ WF_vars(ServiceStep)
  /\ WF_vars(OutcomeStep) /\ WF_vars(MainStep)

-----------------------------------------------------------------------------
(***************************************************************************)
(* Properties.                                                             *)
(***************************************************************************)

TypeOK ==
  /\ Service!TypeOK
  /\ loader \in {"Opening", "Reading", "Loaded", "Failed"}
  /\ chrono \in 0 .. Len(file)
  /\ sent = {Transaction(n) : n \in 0 .. chrono - 1}
  /\ handled \in 0 .. Len(processed)
  /\ logger \in {"Running", "Ended"}
  /\ main \in {"Waiting", "Printing", "Finishing", "Returned", "Failed"}
  /\ tasks \subseteq {"service", "loader", "outcomes"}
  /\ snapshot \in {"Idle", "Header", "Rows", "Flush", "Done", "Failed"}
  /\ shard \in 0 .. Shards
  /\ lines \in Seq(Snapshot!Line)
  /\ delivered \in 0 .. Len(lines)

(* "Transactions are processed in the order they appear in the CSV"        *)
(* (README.md, Input handling), whatever the batches they fall in.         *)
ProcessedInFileOrder ==
  \A i \in 1 .. Len(processed) : processed[i].transaction = Transaction(i - 1)

(* The accounts after the first rows of the file, one row at a time.       *)
AccountsAfterRows == AccountsAfter(file, Len(file))

(* What reaches the output is a header and then, in any order, lines that  *)
(* the rows of the file, applied one by one with no batches, no heap and   *)
(* no channel, add up to: no line differs or comes twice, and when main    *)
(* returns without an error all of them are out.                           *)
OutputIsSequential ==
  delivered > 0 \/ main \in {"Finishing", "Returned"} =>
    LET final == AccountsAfterRows[Len(file)]
        Rows == {lines[i] : i \in 2 .. delivered}
    IN  /\ delivered > 0 => lines[1] = Snapshot!Header
        /\ Rows \subseteq { [kind |-> "row", client |-> c,
                             statement |-> Snapshot!Statement(final[c])] : c \in DOMAIN final }
        /\ Cardinality(Rows) = Cardinality(2 .. delivered)
        /\ main \in {"Finishing", "Returned"} => delivered = Cardinality(DOMAIN final) + 1

(* No output for a file that was not read to its end: a row that does not  *)
(* parse "is an error and halts processing" (README.md, Input handling).   *)
OnlyWholeFilesArePrinted ==
  lines # <<>> \/ main \in {"Printing", "Finishing", "Returned"} =>
    /\ \A i \in 1 .. Len(file) : file[i] \notin BadRow
    /\ Len(processed) = Len(file)

(* While main goes through the map of accounts, holding a guard of it over *)
(* each write, the service has nothing to apply: no account changes under  *)
(* the snapshot and no flush waits for the guard.                          *)
SnapshotIsUndisturbed ==
  main = "Printing" => pc = "Select" /\ buffer = <<>> /\ queue = <<>>

(* Nothing is sent to a receiver that is gone: not a row or the completion *)
(* to the service, not an outcome, not the acknowledgement.                *)
NoSendFails ==
  /\ loader \in {"Opening", "Reading"} => Service!Running
  /\ pc # "Failed"

-----------------------------------------------------------------------------
(***************************************************************************)
(* The inductive invariant behind the theorems of PipelineProofs.          *)
(***************************************************************************)

(* Is the completion still in the channel?                                 *)
SignalQueued == Signal \in DOMAIN before \ acked /\ confirming # Signal

(* The rows that were read are, in the order of the file: those that were  *)
(* applied, those in the heap, and those in the channel; behind them is    *)
(* the completion.  The service drops none, however it ends.               *)
PlacesInOrder ==
  LET taken == Len(processed) + Len(buffer)
      waiting == chrono - taken
  IN  /\ \A i \in 1 .. Len(processed) : processed[i].transaction = Transaction(i - 1)
      /\ \A i \in 1 .. Len(buffer) : buffer[i] = Transaction(Len(processed) + i - 1)
      /\ waiting >= 0
      /\ \A i \in 1 .. waiting : queue[i] = Service!Incoming(Transaction(taken + i - 1))
      /\ Len(queue) = IF SignalQueued THEN waiting + 1 ELSE waiting
      /\ SignalQueued => queue[waiting + 1] = Service!BatchCompletion(Signal)

(* The completion is sent after the last row, and its flush begins when    *)
(* all rows are in the heap.                                               *)
SignalSound ==
  /\ Signal \in DOMAIN before <=> loader = "Loaded"
  /\ loader = "Loaded" => chrono = Len(file)
  /\ confirming = Signal =>
       /\ pc = "Flush"
       /\ Signal \in DOMAIN before \ acked
       /\ Len(processed) + Len(buffer) = chrono
  /\ Signal \in acked => Len(processed) = chrono /\ pc # "Flush"

(* Who has let go of the service by then: main cancels it, and drops its   *)
(* sender, only after the loader has; the outcome task goes when nothing   *)
(* is left to apply.                                                       *)
EndsSound ==
  /\ loader \in {"Opening", "Reading"} => main = "Waiting"
  /\ senders <=> main \notin {"Returned", "Failed"}
  /\ cancelled => main \notin {"Waiting", "Printing"} /\ Signal \in acked
  /\ main = "Waiting" => "service" \in tasks
  /\ pc # "Failed"
  /\ pc \in {"FinalFlush", "Returned"} => main \notin {"Waiting", "Printing"} /\ queue = <<>>
  /\ listening <=> logger = "Running"
  /\ ~ listening => loader \in {"Loaded", "Failed"} /\ Len(processed) = chrono
  /\ abandoned = {}

(* Where the snapshot is in main, and what its lines say of the accounts.  *)
SnapshotSound ==
  /\ main = "Waiting" => snapshot = "Idle"
  /\ main = "Printing" => snapshot \in {"Header", "Rows", "Flush"}
  /\ main \in {"Finishing", "Returned"} => snapshot = "Done"
  /\ snapshot # "Idle" => Signal \in acked
  /\ snapshot \in {"Idle", "Header"} <=> lines = <<>> /\ snapshot # "Failed"
  /\ snapshot = "Rows" => shard \in 1 .. Shards
  /\ lines # <<>> => lines[1] = Snapshot!Header
  /\ \A i \in 2 .. Len(lines) :
       lines[i].client \in DOMAIN accounts /\ lines[i] = Snapshot!Row(lines[i].client)
  /\ \A i, j \in 2 .. Len(lines) : lines[i].client = lines[j].client => i = j
  /\ \A c \in DOMAIN accounts :
       (snapshot = "Rows" /\ ShardOf[c] < shard) \/ snapshot \in {"Flush", "Done"} =>
         \E i \in 2 .. Len(lines) : lines[i].client = c
  /\ snapshot = "Done" => delivered = Len(lines)

IInv ==
  /\ TypeOK
  /\ \A i \in 1 .. chrono : file[i] \notin BadRow
  /\ PlacesInOrder
  /\ SignalSound
  /\ EndsSound
  /\ accounts = AccountsAfterRows[Len(processed)]
  /\ SnapshotSound

(* The comment in main, "Start a task to log failed transactions/messages",*)
(* read for a run that ends without an error: all of them were logged.     *)
FailuresAreLogged ==
  exited /\ main = "Returned" =>
    \A i \in 1 .. Len(processed) : processed[i].result # "Ok" => i <= handled

(* The program ends, for any file.                                         *)
Terminates == <>exited

(* Once a whole file is loaded, every client it names is printed, unless   *)
(* an error ends main.                                                     *)
LoadedFilesArePrinted ==
  \A c \in ClientId :
    loader = "Loaded" /\ (\E i \in 1 .. chrono : file[i].client_id = c)
      ~> (\E i \in 1 .. delivered : lines[i].kind = "row" /\ lines[i].client = c)
           \/ main = "Failed"

=============================================================================
