--------------------------- MODULE PipelineProofs ---------------------------
(***************************************************************************)
(* Proofs about the program, for every set of input files, of clients and  *)
(* of amounts, every batch size, and every number of shards.               *)
(*                                                                         *)
(* What ServiceProofs shows of the service with any surroundings is used   *)
(* here of the service with main and its tasks around it.                  *)
(***************************************************************************)
EXTENDS Pipeline, AccountOpsProofs, SequenceTheorems

Proofs ==
  INSTANCE ServiceProofs WITH
    Messages    <- AllTransactions,
    Completions <- {Signal}

-----------------------------------------------------------------------------
(***************************************************************************)
(* Rows and transactions.                                                  *)
(***************************************************************************)

(* A transaction is told by its number.                                    *)
LEMMA TransactionFields ==
  ASSUME NEW n
  PROVE  /\ Transaction(n).chrono_order = n
         /\ Transaction(n).client_id = file[n + 1].client_id
         /\ Transaction(n).message = file[n + 1].message
BY DEF Transaction

(* The file is a sequence of rows.                                         *)
LEMMA FileType ==
  ASSUME file \in Files
  PROVE  file \in Seq(BadRow \cup Row) /\ Len(file) \in Nat
BY FilesAssumption

(* A row that can be read is a transaction that may be sent.               *)
LEMMA ReadableRow ==
  ASSUME file \in Files, NEW n \in 0 .. Len(file) - 1, file[n + 1] \notin BadRow
  PROVE  file[n + 1] \in Row /\ Transaction(n) \in AllTransactions
<1>1. n + 1 \in 1 .. Len(file) /\ n \in 0 .. Len(file)
  BY FileType
<1>2. file[n + 1] \in Row
  BY <1>1, FileType
<1>3. QED
  BY <1>1, <1>2 DEF Transaction, AllTransactions

-----------------------------------------------------------------------------
(***************************************************************************)
(* The service of the program is the one that ServiceProofs is about.      *)
(***************************************************************************)

(* The transactions that a file may hold are requests of the service.      *)
LEMMA TransactionsArePending == AllTransactions \subseteq Proofs!PendingTransaction
<1>1. SUFFICES ASSUME NEW f \in Files, NEW i \in 1 .. Len(f), f[i] \in Row,
                      NEW n \in 0 .. Len(f)
               PROVE  [ chrono_order |-> n, client_id |-> f[i].client_id,
                        message |-> f[i].message ] \in Proofs!PendingTransaction
  BY DEF AllTransactions
<1>2. n \in Nat /\ f[i].client_id \in ClientId /\ f[i].message \in InputMessage
  BY <1>1 DEF Row
<1>3. f[i].message \in Proofs!InputMessage
  BY <1>2 DEF InputMessage, Proofs!InputMessage, TransactionId, Proofs!TransactionId,
     TransactionType, Proofs!TransactionType
<1>4. QED
  BY <1>2, <1>3 DEF Proofs!PendingTransaction

(* An account takes a transaction alike in every module.                   *)
LEMMA AccountsAlike ==
  ASSUME NEW acc, NEW msg
  PROVE  /\ Service!Processed(acc, msg) = Processed(acc, msg)
         /\ Proofs!Processed(acc, msg) = Processed(acc, msg)
         /\ Service!ProcessResult(acc, msg) = Proofs!ProcessResult(acc, msg)
         /\ Service!NewAccount = NewAccount /\ Proofs!NewAccount = NewAccount
<1>1. /\ Service!Processed(acc, msg) = Processed(acc, msg)
      /\ Service!ProcessResult(acc, msg) = ProcessResult(acc, msg)
  BY DEF Service!Processed, Processed, Service!ProcessResult, ProcessResult,
     Service!ProcessEffect, ProcessEffect, Service!DepositResult,
     DepositResult, Service!WithdrawalResult, WithdrawalResult,
     Service!TransitionResult, TransitionResult, Service!DoTransition,
     DoTransition, Service!CanTransition, CanTransition,
     Service!SharedPrestep, SharedPrestep, Service!DepositEffect,
     DepositEffect, Service!WithdrawalEffect, WithdrawalEffect,
     Service!DisputeEffect, DisputeEffect, Service!ResolveEffect,
     ResolveEffect, Service!ChargebackEffect, ChargebackEffect,
     Service!Recorded, Recorded, Service!Execute, Execute, Service!Moved,
     Moved, Service!StoredAmount, StoredAmount, Service!StoredState,
     StoredState
<1>2. /\ Proofs!Processed(acc, msg) = Processed(acc, msg)
      /\ Proofs!ProcessResult(acc, msg) = ProcessResult(acc, msg)
  BY DEF Proofs!Processed, Processed, Proofs!ProcessResult, ProcessResult,
     Proofs!ProcessEffect, ProcessEffect, Proofs!DepositResult, DepositResult,
     Proofs!WithdrawalResult, WithdrawalResult, Proofs!TransitionResult,
     TransitionResult, Proofs!DoTransition, DoTransition,
     Proofs!CanTransition, CanTransition, Proofs!SharedPrestep, SharedPrestep,
     Proofs!DepositEffect, DepositEffect, Proofs!WithdrawalEffect,
     WithdrawalEffect, Proofs!DisputeEffect, DisputeEffect,
     Proofs!ResolveEffect, ResolveEffect, Proofs!ChargebackEffect,
     ChargebackEffect, Proofs!Recorded, Recorded, Proofs!Execute, Execute,
     Proofs!Moved, Moved, Proofs!StoredAmount, StoredAmount,
     Proofs!StoredState, StoredState
<1>3. QED
  BY <1>1, <1>2 DEF NewAccount, Service!NewAccount, Proofs!NewAccount

(* What the program does to the service is a step of it.                   *)
LEMMA ServiceSteps ==
  /\ Service!TaskStep => Proofs!TaskStep
  /\ \A tx : Service!Send(tx) => Proofs!Send(tx)
  /\ Service!SendCompletion(Signal) => Proofs!SendCompletion(Signal)
  /\ Service!CloseSenders => Proofs!CloseSenders
  /\ Service!Cancel => Proofs!Cancel
  /\ Service!DropOutcomeReceiver => Proofs!DropOutcomeReceiver
<1> USE DEF Service!env, Proofs!env, Service!history, Proofs!history, Service!task,
     Proofs!task, Service!Running, Proofs!Running, Service!GoTo, Proofs!GoTo,
     Service!Stop, Proofs!Stop, Service!Incoming, Proofs!Incoming,
     Service!BatchCompletion, Proofs!BatchCompletion
<1>1. Service!ApplyOldest => Proofs!ApplyOldest
  <2>1. \A acc, msg : /\ Service!Processed(acc, msg) = Proofs!Processed(acc, msg)
                      /\ Service!ProcessResult(acc, msg) = Proofs!ProcessResult(acc, msg)
    BY AccountsAlike
  <2>2. \A c : Service!AccountOf(c) = Proofs!AccountOf(c)
    BY AccountsAlike DEF Service!AccountOf, Proofs!AccountOf
  <2>3. \A heap, i : Service!Without(heap, i) = Proofs!Without(heap, i)
    BY DEF Service!Without, Proofs!Without
  <2>4. Service!Oldest(buffer) = Proofs!Oldest(buffer)
    BY DEF Service!Oldest, Proofs!Oldest, Service!Older, Proofs!Older
  <2>5. QED
    BY <2>1, <2>2, <2>3, <2>4 DEF Service!ApplyOldest, Proofs!ApplyOldest
<1>2. Service!TaskStep => Proofs!TaskStep
  BY <1>1 DEF Service!TaskStep, Proofs!TaskStep, Service!TakeCancelled,
     Proofs!TakeCancelled, Service!TakeClosed, Proofs!TakeClosed,
     Service!TakeIncoming, Proofs!TakeIncoming, Service!TakeCompletion,
     Proofs!TakeCompletion, Service!Receive, Proofs!Receive, Service!Full,
     Proofs!Full, Service!EndFlush, Proofs!EndFlush, Service!Acknowledge,
     Proofs!Acknowledge, Service!AcknowledgeFails, Proofs!AcknowledgeFails,
     Service!Confirm, Proofs!Confirm, Service!Return, Proofs!Return
<1>3. \A tx : Service!Send(tx) => Proofs!Send(tx)
  BY DEF Service!Send, Proofs!Send
<1>4. Service!SendCompletion(Signal) => Proofs!SendCompletion(Signal)
  BY DEF Service!SendCompletion, Proofs!SendCompletion
<1>5. /\ Service!CloseSenders => Proofs!CloseSenders
      /\ Service!Cancel => Proofs!Cancel
      /\ Service!DropOutcomeReceiver => Proofs!DropOutcomeReceiver
  BY DEF Service!CloseSenders, Proofs!CloseSenders, Service!Cancel, Proofs!Cancel,
     Service!DropOutcomeReceiver, Proofs!DropOutcomeReceiver
<1>6. QED
  BY <1>2, <1>3, <1>4, <1>5

(* main does no more to the service than close or cancel it.               *)
LEMMA MainOnService ==
  ASSUME MainStep
  PROVE  UNCHANGED service \/ Service!CloseSenders \/ Service!Cancel
BY DEF MainStep, Reap, Leave, ReceiveSignal, LoseSignal, WriteOutput, PrintFails, Finish,
   Return, Exit, Service!Begin, Service!ReaderStep, Service!vars, Service!env,
   Service!history, service

(* Every step of the program is a step of the service or leaves it alone.  *)
LEMMA ServiceStepOrNone ==
  ASSUME file \in Files, chrono \in 0 .. Len(file), Next
  PROVE  [Proofs!Next]_Proofs!vars
<1> USE DEF Proofs!Next, Proofs!EnvironmentStep
<1>1. CASE UNCHANGED service
  BY <1>1 DEF service, Proofs!vars, Proofs!env, Proofs!history
<1>2. CASE ReadRow
  <2>1. Transaction(chrono) \in AllTransactions
    BY <1>2, FileType, ReadableRow DEF ReadRow
  <2>2. QED
    BY <1>2, <2>1, ServiceSteps DEF ReadRow
<1>3. CASE EndOfFile
  BY <1>3, ServiceSteps DEF EndOfFile
<1>4. CASE ServiceStep
  BY <1>4, ServiceSteps DEF ServiceStep, Service!SharedTaskStep
<1>5. CASE EndOutcomes
  BY <1>5, ServiceSteps DEF EndOutcomes
<1>6. CASE MainStep
  <2>1. UNCHANGED service \/ Service!CloseSenders \/ Service!Cancel
    BY <1>6, MainOnService
  <2>2. QED
    BY <1>1, <2>1, ServiceSteps
<1>7. QED
  BY <1>1, <1>2, <1>3, <1>4, <1>5, <1>6
  DEF Next, LoaderStep, OutcomeStep, OutputStep, Exited, Open, ReadBadRow, TakeOutcome, vars

(* The files stay, and no more is read than there is.                      *)
FileKept == file \in Files /\ chrono \in 0 .. Len(file)

LEMMA FileStays == Spec => []FileKept
<1>1. Init => FileKept
  BY FileType DEF Init, FileKept
<1>2. FileKept /\ [Next]_vars => FileKept'
  <2>1. SUFFICES ASSUME FileKept, [Next]_vars PROVE FileKept'
    OBVIOUS
  <2>2. file \in Files /\ chrono \in 0 .. Len(file) /\ Len(file) \in Nat
    BY <2>1, FileType DEF FileKept
  <2>3. CASE UNCHANGED <<file, chrono>>
    BY <2>2, <2>3 DEF FileKept
  <2>4. CASE ReadRow
    BY <2>2, <2>4 DEF ReadRow, FileKept
  <2>5. QED
    BY <2>1, <2>3, <2>4
    DEF vars, loading, Next, LoaderStep, ServiceStep, OutcomeStep, MainStep, OutputStep, Exited,
        Open, ReadBadRow, EndOfFile, TakeOutcome, EndOutcomes, Reap, ReceiveSignal, LoseSignal,
        WriteOutput, PrintFails, Finish, Return, Exit
<1>3. QED
  BY <1>1, <1>2, PTL DEF Spec

(* What ServiceProofs assumes of its constants.                            *)
LEMMA InstanceAssumptions ==
  /\ AllTransactions \subseteq Proofs!PendingTransaction
  /\ BatchSize \in Nat
  /\ NoCompletion \notin {Signal}
BY TransactionsArePending, BatchSizeAssumption, NoCompletionAssumption

LEMMA ServiceInit == Init => Proofs!Init
BY AccountsAlike DEF Init, Service!SharedInit, Service!Init, Proofs!Init

LEMMA ServiceStepOrStutter == FileKept /\ [Next]_vars => [Proofs!Next]_Proofs!vars
<1>1. SUFFICES ASSUME FileKept, [Next]_vars PROVE [Proofs!Next]_Proofs!vars
  OBVIOUS
<1>2. CASE Next
  BY <1>1, <1>2, ServiceStepOrNone DEF FileKept
<1>3. CASE UNCHANGED vars
  BY <1>3 DEF vars, service, Proofs!vars, Proofs!env, Proofs!history
<1>4. QED
  BY <1>1, <1>2, <1>3

(* The program, of which the loader, the outcome task and main are left    *)
(* out, is the service with some surroundings: every property of that one  *)
(* is a property of the program.                                           *)
THEOREM ProgramImplementsService == Spec => Proofs!Spec
BY ServiceInit, ServiceStepOrStutter, FileStays, PTL DEF Spec, Proofs!Spec

(* In the program too the service keeps the promise of Bank.tla: its heap, *)
(* its batches and the place in its code show to the loader, the outcome   *)
(* task and main in nothing but the order that Bank!Ready leaves open.     *)
THEOREM ProgramImplementsBank == Spec => Proofs!ImplementsBank
<1>1. Proofs!Spec => Proofs!ImplementsBank
  BY Proofs!ServiceImplementsBank, InstanceAssumptions, MaxTransactionIdAssumption,
     AmountsAssumption
<1>2. QED
  BY <1>1, ProgramImplementsService, PTL

(* The inductive invariant of the service holds in the program: with it,   *)
(* all that ServiceProofs concludes from it.                               *)
THEOREM ServiceInvariance == Spec => []Proofs!IInv
<1>1. Init => Proofs!IInv
  <2>1. Init => Proofs!Init
    BY ServiceInit
  <2>2. Proofs!Init => Proofs!IInv
    BY Proofs!InitInvariant, InstanceAssumptions, MaxTransactionIdAssumption, AmountsAssumption
  <2>3. QED
    BY <2>1, <2>2
<1>2. FileKept /\ Proofs!IInv /\ [Next]_vars => Proofs!IInv'
  BY ServiceStepOrStutter, Proofs!StepInvariant, InstanceAssumptions,
     MaxTransactionIdAssumption, AmountsAssumption
<1>3. QED
  BY <1>1, <1>2, FileStays, PTL DEF Spec

-----------------------------------------------------------------------------
(***************************************************************************)
(* The accounts, row by row.                                               *)
(***************************************************************************)

(* The accounts after n rows of the file.                                  *)
LEMMA AccountsAfterRow ==
  ASSUME file \in Files
  PROVE  /\ AccountsAfterRows[0] = [c \in {} |-> NewAccount]
         /\ \A n \in 1 .. Len(file) :
              AccountsAfterRows[n] = AfterTransaction(AccountsAfterRows[n - 1], file[n])
BY FileType, AccountsAfterUnfold DEF AccountsAfterRows

-----------------------------------------------------------------------------
(***************************************************************************)
(* The parts of the inductive invariant of the program.                    *)
(***************************************************************************)

(* What the service has, in the types it has them.                         *)
LEMMA ServiceTyped ==
  ASSUME Service!TypeOK
  PROVE  /\ queue \in Seq(Service!Envelope) /\ Len(queue) \in Nat
         /\ buffer \in Seq(AllTransactions) /\ Len(buffer) \in Nat
         /\ processed \in Seq(Service!Application) /\ Len(processed) \in Nat
         /\ confirming \in {Signal, NoCompletion}
         /\ DOMAIN before \subseteq {Signal} /\ acked \subseteq DOMAIN before
         /\ senders \in BOOLEAN /\ cancelled \in BOOLEAN /\ listening \in BOOLEAN
         /\ pc \in {"Select", "Flush", "FinalFlush", "Returned", "Failed"}
BY DEF Service!TypeOK

(* The two kinds of envelope.                                              *)
LEMMA Envelopes ==
  /\ \A tx : /\ Service!Incoming(tx).kind = "Incoming"
             /\ Service!Incoming(tx).transaction = tx
  /\ \A k : /\ Service!BatchCompletion(k).kind = "TransactionBatchCompletion"
            /\ Service!BatchCompletion(k).completion = k
BY DEF Service!Incoming, Service!BatchCompletion

(* No row changes.                                                         *)
LEMMA TransactionsStay ==
  ASSUME Next
  PROVE  file' = file /\ \A n : Transaction(n)' = Transaction(n)
<1>1. file' = file
  BY DEF vars, loading, Next, LoaderStep, ServiceStep, OutcomeStep, MainStep, OutputStep, Exited,
     Open, ReadRow, ReadBadRow, EndOfFile, TakeOutcome, EndOutcomes, Reap, ReceiveSignal,
     LoseSignal, WriteOutput, PrintFails, Finish, Return, Exit
<1>2. QED
  BY <1>1 DEF Transaction

(* The head of the channel.                                                *)
LEMMA HeadOfChannel ==
  ASSUME Service!TypeOK, PlacesInOrder, chrono \in Nat, queue # <<>>
  PROVE  LET taken == Len(processed) + Len(buffer) IN
         /\ Head(queue) = queue[1] /\ Len(queue) > 0
         /\ Tail(queue) \in Seq(Service!Envelope)
         /\ Len(Tail(queue)) = Len(queue) - 1
         /\ \A i \in 1 .. Len(queue) - 1 : Tail(queue)[i] = queue[i + 1]
         /\ Head(queue).kind = "Incoming" =>
              taken < chrono /\ Head(queue).transaction = Transaction(taken)
         /\ Head(queue).kind # "Incoming" =>
              taken = chrono /\ SignalQueued /\ Head(queue).completion = Signal /\ Len(queue) = 1
<1> DEFINE taken == Len(processed) + Len(buffer)
<1>1. /\ Head(queue) = queue[1] /\ Len(queue) > 0 /\ Len(queue) \in Nat
      /\ Tail(queue) \in Seq(Service!Envelope)
      /\ Len(Tail(queue)) = Len(queue) - 1
      /\ \A i \in 1 .. Len(queue) - 1 : Tail(queue)[i] = queue[i + 1]
  BY ServiceTyped, HeadTailProperties, EmptySeq
<1>2. taken \in Nat /\ taken <= chrono
  BY ServiceTyped DEF PlacesInOrder
<1>3. CASE taken < chrono
  <2>1. 1 \in 1 .. chrono - taken /\ taken + 1 - 1 = taken
    BY <1>2, <1>3
  <2>2. queue[1] = Service!Incoming(Transaction(taken))
    BY <2>1 DEF PlacesInOrder
  <2>3. QED
    BY <1>1, <1>3, <2>2, Envelopes
<1>4. CASE taken = chrono
  <2>1. chrono - taken = 0
    BY <1>2, <1>4
  <2>2. SignalQueued /\ queue[1] = Service!BatchCompletion(Signal) /\ Len(queue) = 1
    BY <1>1, <2>1 DEF PlacesInOrder
  <2>3. QED
    BY <1>1, <1>4, <2>2, Envelopes
<1>5. QED
  BY <1>2, <1>3, <1>4

(* The oldest transaction of the heap is the one that came first.          *)
LEMMA FirstIsOldest ==
  ASSUME Service!TypeOK, PlacesInOrder, NEW n \in Service!Oldest(buffer)
  PROVE  n = 1 /\ Len(buffer) > 0 /\ buffer[1] = Transaction(Len(processed))
<1>1. Len(processed) \in Nat /\ Len(buffer) \in Nat /\ DOMAIN buffer = 1 .. Len(buffer)
  BY ServiceTyped
<1>2. /\ n \in 1 .. Len(buffer)
      /\ \A j \in 1 .. Len(buffer) : ~ (buffer[j].chrono_order < buffer[n].chrono_order)
  BY <1>1 DEF Service!Oldest, Service!Older
<1>3. \A i \in 1 .. Len(buffer) : /\ buffer[i] = Transaction(Len(processed) + i - 1)
                                 /\ buffer[i].chrono_order = Len(processed) + i - 1
  BY TransactionFields DEF PlacesInOrder
<1>4. 1 \in 1 .. Len(buffer)
  BY <1>1, <1>2
<1>5. ~ (Len(processed) < Len(processed) + n - 1)
  <2>1. buffer[1].chrono_order = Len(processed) /\ buffer[n].chrono_order = Len(processed) + n - 1
    BY <1>1, <1>2, <1>3, <1>4
  <2>2. QED
    BY <1>2, <1>4, <2>1
<1>6. n = 1
  BY <1>1, <1>2, <1>5
<1>7. buffer[1] = Transaction(Len(processed))
  BY <1>1, <1>3, <1>4
<1>8. QED
  BY <1>1, <1>4, <1>6, <1>7

(* A step of the task, in the program.                                     *)
LEMMA TaskSteps ==
  ASSUME ServiceStep
  PROVE  /\ UNCHANGED <<file, loader, chrono, handled, logger, output, main, tasks>>
         /\ UNCHANGED <<senders, cancelled, listening, abandoned, sent, before>>
         /\ Service!TaskStep
<1>1. Service!TaskStep /\ UNCHANGED <<file, loader, chrono, handled, logger, output, main, tasks>>
  BY DEF ServiceStep, Service!SharedTaskStep, Service!reader, output, loading, logging
<1>2. UNCHANGED <<senders, cancelled, listening, abandoned, sent, before>>
  BY <1>1 DEF Service!TaskStep, Service!TakeCancelled, Service!TakeClosed, Service!TakeIncoming,
     Service!Receive, Service!TakeCompletion, Service!ApplyOldest, Service!EndFlush,
     Service!Acknowledge, Service!Confirm, Service!AcknowledgeFails, Service!Return,
     Service!GoTo, Service!Stop, Service!env, Service!history
<1>3. QED
  BY <1>1, <1>2

(* A step of main leaves the files and the tasks alone, and of the service *)
(* changes no more than the token and its sender.                          *)
LEMMA MainSteps ==
  ASSUME MainStep
  PROVE  /\ UNCHANGED <<file, loader, chrono, handled, logger>>
         /\ UNCHANGED <<queue, listening, abandoned, pc, confirming, buffer, accounts, acked,
                        sent, received, processed, before>>
<1>1. UNCHANGED <<file, loader, chrono, handled, logger>>
  BY DEF MainStep, Reap, ReceiveSignal, LoseSignal, WriteOutput, PrintFails, Finish, Return, Exit,
     loading, logging
<1>2. QED
  BY <1>1, MainOnService DEF service, Service!CloseSenders, Service!Cancel, Service!task

(* What the heap gives up is applied, and answered, and is the next row.   *)
LEMMA AppliesFirst ==
  ASSUME IInv, FileKept, ServiceStep, Service!ApplyOldest
  PROVE  LET row == file[Len(processed) + 1] IN
         /\ Len(processed) < chrono /\ listening
         /\ UNCHANGED <<queue, pc, confirming, acked>>
         /\ Len(buffer') = Len(buffer) - 1
         /\ \A i \in 1 .. Len(buffer) - 1 : buffer'[i] = buffer[i + 1]
         /\ Len(processed') = Len(processed) + 1
         /\ \A i \in 1 .. Len(processed) : processed'[i] = processed[i]
         /\ processed'[Len(processed) + 1].transaction = Transaction(Len(processed))
         /\ accounts' = AfterTransaction(accounts, row)
<1>1. /\ Service!TypeOK /\ PlacesInOrder /\ EndsSound
      /\ chrono \in Nat
  BY FileType DEF IInv, TypeOK, FileKept
<1>2. /\ buffer \in Seq(AllTransactions) /\ Len(buffer) \in Nat
      /\ processed \in Seq(Service!Application) /\ Len(processed) \in Nat
  BY <1>1, ServiceTyped
<1>3. PICK n \in Service!Oldest(buffer) :
        /\ processed' = Append(processed,
             [ transaction |-> buffer[n],
               result      |-> Service!ProcessResult(Service!AccountOf(buffer[n].client_id),
                                                     buffer[n].message),
               answered    |-> listening,
               seen        |-> received ])
        /\ listening => /\ buffer' = Service!Without(buffer, n)
                        /\ UNCHANGED <<pc, queue, confirming>>
        /\ UNCHANGED acked
        /\ accounts' = [c \in DOMAIN accounts \cup {buffer[n].client_id} |->
                          IF c = buffer[n].client_id
                          THEN Service!Processed(Service!AccountOf(c), buffer[n].message)
                          ELSE accounts[c]]
  BY DEF Service!ApplyOldest
<1>4. n = 1 /\ Len(buffer) > 0 /\ buffer[1] = Transaction(Len(processed))
  BY <1>1, FirstIsOldest
<1>5. Len(processed) < chrono
  <2>1. Len(processed) + Len(buffer) <= chrono
    BY <1>1, <1>2 DEF PlacesInOrder
  <2>2. QED
    BY <1>1, <1>2, <1>4, <2>1
<1>6. listening
  BY <1>1, <1>2, <1>5 DEF EndsSound
<1>7. /\ Len(buffer') = Len(buffer) - 1
      /\ \A i \in 1 .. Len(buffer) - 1 : buffer'[i] = buffer[i + 1]
  <2>1. buffer' = [j \in 1 .. Len(buffer) - 1 |-> buffer[IF j < 1 THEN j ELSE j + 1]]
    BY <1>3, <1>4, <1>6 DEF Service!Without
  <2>2. Len(buffer) - 1 \in Nat
    BY <1>2, <1>4
  <2>3. QED
    BY <2>1, <2>2
<1>8. /\ Len(processed') = Len(processed) + 1
      /\ \A i \in 1 .. Len(processed) : processed'[i] = processed[i]
      /\ processed'[Len(processed) + 1].transaction = Transaction(Len(processed))
  BY <1>2, <1>3, <1>4
<1>9. /\ buffer[n].client_id = file[Len(processed) + 1].client_id
      /\ buffer[n].message = file[Len(processed) + 1].message
  BY <1>4, TransactionFields
<1>10. \A c : Service!AccountOf(c) = IF c \in DOMAIN accounts THEN accounts[c] ELSE NewAccount
  BY AccountsAlike DEF Service!AccountOf
<1>11. \A acc, msg : Service!Processed(acc, msg) = Processed(acc, msg)
  BY AccountsAlike
<1>12. QED
  BY <1>3, <1>5, <1>6, <1>7, <1>8, <1>9, <1>10, <1>11 DEF AfterTransaction

(* The rows stay in their order, wherever they go.                         *)
LEMMA PlacesStep ==
  ASSUME IInv, FileKept, Next
  PROVE  PlacesInOrder'
<1> USE TransactionsStay
<1>1. /\ Service!TypeOK /\ PlacesInOrder /\ SignalSound /\ EndsSound
      /\ chrono \in Nat /\ file \in Files /\ chrono \in 0 .. Len(file)
  BY FileType DEF IInv, TypeOK, FileKept
<1>2. /\ queue \in Seq(Service!Envelope) /\ Len(queue) \in Nat
      /\ buffer \in Seq(AllTransactions) /\ Len(buffer) \in Nat
      /\ processed \in Seq(Service!Application) /\ Len(processed) \in Nat
  BY <1>1, ServiceTyped
<1>3. CASE UNCHANGED <<queue, buffer, processed, chrono, before, acked, confirming>>
  BY <1>1, <1>3 DEF PlacesInOrder, SignalQueued
<1>4. CASE ReadRow
  <2>1. /\ queue' = Append(queue, Service!Incoming(Transaction(chrono)))
        /\ chrono' = chrono + 1 /\ loader = "Reading"
        /\ UNCHANGED <<buffer, processed, before, acked, confirming>>
    BY <1>4 DEF ReadRow, Service!Send, Service!task
  <2>2. ~ SignalQueued /\ ~ SignalQueued'
    BY <1>1, <2>1 DEF SignalSound, SignalQueued
  <2>3. Transaction(chrono) \in AllTransactions
    BY <1>1, <1>4, FileType, ReadableRow DEF ReadRow
  <2>4. Service!Incoming(Transaction(chrono)) \in Service!Envelope
    BY <2>3 DEF Service!Envelope
  <2>5. /\ Len(queue') = Len(queue) + 1
        /\ \A i \in 1 .. Len(queue) : queue'[i] = queue[i]
        /\ queue'[Len(queue) + 1] = Service!Incoming(Transaction(chrono))
    BY <1>2, <2>1, <2>4, AppendProperties
  <2>6. Len(queue) = chrono - (Len(processed) + Len(buffer))
    BY <1>1, <2>2 DEF PlacesInOrder
  <2> DEFINE taken == Len(processed) + Len(buffer)
  <2>7. ASSUME NEW i \in 1 .. chrono + 1 - taken
        PROVE  queue'[i] = Service!Incoming(Transaction(taken + i - 1))
    <3>1. CASE i \in 1 .. chrono - taken
      <4>1. queue[i] = Service!Incoming(Transaction(taken + i - 1))
        BY <1>1, <3>1 DEF PlacesInOrder
      <4>2. QED
        BY <2>5, <2>6, <3>1, <4>1
    <3>2. CASE i = Len(queue) + 1
      <4>1. taken + i - 1 = chrono
        BY <1>1, <1>2, <2>6, <3>2
      <4>2. QED
        BY <2>5, <3>2, <4>1
    <3>3. taken \in Nat /\ chrono \in Nat /\ Len(queue) = chrono - taken
      BY <1>1, <1>2, <2>6
    <3>4. i \in 1 .. chrono - taken \/ i = Len(queue) + 1
      <4> HIDE DEF taken
      <4>1. QED
        BY <2>7, <3>3
    <3>5. QED
      BY <3>1, <3>2, <3>4
  <2>8. Len(queue') = chrono + 1 - taken /\ chrono + 1 - taken >= 0
    BY <1>1, <1>2, <2>5, <2>6
  <2>9. QED
    BY <1>1, <2>1, <2>2, <2>7, <2>8 DEF PlacesInOrder
<1>5. CASE EndOfFile
  <2>1. /\ queue' = Append(queue, Service!BatchCompletion(Signal))
        /\ Signal \in DOMAIN before' /\ loader = "Reading"
        /\ UNCHANGED <<chrono, buffer, processed, acked, confirming>>
    BY <1>5 DEF EndOfFile, Service!SendCompletion, Service!task
  <2>2. Signal \notin DOMAIN before /\ acked \subseteq DOMAIN before /\ confirming # Signal
    BY <1>1, <2>1, ServiceTyped DEF SignalSound
  <2>3. ~ SignalQueued /\ SignalQueued'
    BY <2>1, <2>2 DEF SignalQueued
  <2>4. Service!BatchCompletion(Signal) \in Service!Envelope
    BY DEF Service!Envelope
  <2>5. /\ Len(queue') = Len(queue) + 1
        /\ \A i \in 1 .. Len(queue) : queue'[i] = queue[i]
        /\ queue'[Len(queue) + 1] = Service!BatchCompletion(Signal)
    BY <1>2, <2>1, <2>4, AppendProperties
  <2>6. Len(queue) = chrono - (Len(processed) + Len(buffer))
    BY <1>1, <2>3 DEF PlacesInOrder
  <2>7. QED
    BY <1>1, <1>2, <2>1, <2>3, <2>5, <2>6 DEF PlacesInOrder
<1>6. CASE ServiceStep /\ Service!TakeIncoming
  <2>1. /\ queue # <<>> /\ Head(queue).kind = "Incoming" /\ queue' = Tail(queue)
        /\ buffer' = Append(buffer, Head(queue).transaction)
        /\ UNCHANGED <<processed, acked, confirming>>
    BY <1>6 DEF Service!TakeIncoming, Service!Receive
  <2>2. UNCHANGED <<chrono, before>>
    BY <1>6, TaskSteps
  <2>3. SignalQueued' <=> SignalQueued
    BY <2>1, <2>2 DEF SignalQueued
  <2> DEFINE taken == Len(processed) + Len(buffer)
  <2>4. /\ taken < chrono /\ Head(queue).transaction = Transaction(taken)
        /\ Len(queue') = Len(queue) - 1
        /\ \A i \in 1 .. Len(queue) - 1 : queue'[i] = queue[i + 1]
    BY <1>1, <2>1, HeadOfChannel
  <2>5. Transaction(taken) \in AllTransactions
    <3>1. taken \in 0 .. Len(file) - 1 /\ taken + 1 \in 1 .. chrono
      BY <1>1, <1>2, <2>4, FileType
    <3>2. file[taken + 1] \notin BadRow
      BY <3>1 DEF IInv
    <3>3. QED
      BY <1>1, <3>1, <3>2, ReadableRow
  <2>6. /\ Len(buffer') = Len(buffer) + 1
        /\ \A i \in 1 .. Len(buffer) : buffer'[i] = buffer[i]
        /\ buffer'[Len(buffer) + 1] = Transaction(taken)
    BY <1>2, <2>1, <2>4, <2>5, AppendProperties
  <2>7. ASSUME NEW i \in 1 .. Len(buffer')
        PROVE  buffer'[i] = Transaction(Len(processed) + i - 1)
    <3>1. CASE i \in 1 .. Len(buffer)
      <4>1. buffer[i] = Transaction(Len(processed) + i - 1)
        BY <1>1, <3>1 DEF PlacesInOrder
      <4>2. QED
        BY <2>6, <3>1, <4>1
    <3>2. CASE i = Len(buffer) + 1
      <4>1. Len(processed) + i - 1 = taken
        BY <1>2, <3>2
      <4>2. QED
        BY <2>6, <3>2, <4>1
    <3>3. QED
      BY <1>2, <2>6, <3>1, <3>2
  <2>8. ASSUME NEW i \in 1 .. chrono - (taken + 1)
        PROVE  queue'[i] = Service!Incoming(Transaction(taken + 1 + i - 1))
    <3>1. i + 1 \in 1 .. chrono - taken /\ taken + (i + 1) - 1 = taken + 1 + i - 1
      BY <1>1, <1>2
    <3>2. queue[i + 1] = Service!Incoming(Transaction(taken + (i + 1) - 1))
      BY <1>1, <3>1 DEF PlacesInOrder
    <3>3. i \in 1 .. Len(queue) - 1
      BY <1>1, <1>2, <3>1 DEF PlacesInOrder
    <3>4. QED
      BY <2>4, <3>1, <3>2, <3>3
  <2>9. SignalQueued => queue'[chrono - (taken + 1) + 1] = Service!BatchCompletion(Signal)
    <3>1. SUFFICES ASSUME SignalQueued
                   PROVE  queue'[chrono - (taken + 1) + 1] = Service!BatchCompletion(Signal)
      OBVIOUS
    <3>2. /\ Len(queue) = chrono - taken + 1
          /\ queue[chrono - taken + 1] = Service!BatchCompletion(Signal)
      BY <1>1, <3>1 DEF PlacesInOrder
    <3>3. chrono - taken \in 1 .. Len(queue) - 1 /\ chrono - (taken + 1) + 1 = chrono - taken
      BY <1>1, <1>2, <2>4, <3>2
    <3>4. QED
      BY <2>4, <3>2, <3>3
  <2>10. Len(queue') = IF SignalQueued THEN chrono - (taken + 1) + 1 ELSE chrono - (taken + 1)
    BY <1>1, <1>2, <2>4 DEF PlacesInOrder
  <2>11. Len(processed') + Len(buffer') = taken + 1 /\ chrono - (taken + 1) >= 0
    BY <1>1, <1>2, <2>1, <2>4, <2>6
  <2>12. \A i \in 1 .. Len(processed') : processed'[i].transaction = Transaction(i - 1)
    BY <1>1, <2>1 DEF PlacesInOrder
  <2> HIDE DEF taken
  <2>13. QED
    BY <2>1, <2>2, <2>3, <2>7, <2>8, <2>9, <2>10, <2>11, <2>12 DEF PlacesInOrder
<1>7. CASE ServiceStep /\ Service!TakeCompletion
  <2>1. /\ queue # <<>> /\ Head(queue).kind = "TransactionBatchCompletion" /\ queue' = Tail(queue)
        /\ confirming' = Head(queue).completion
        /\ UNCHANGED <<buffer, processed, acked>>
    BY <1>7 DEF Service!TakeCompletion
  <2>2. UNCHANGED <<chrono, before>>
    BY <1>7, TaskSteps
  <2>3. /\ Len(processed) + Len(buffer) = chrono /\ Len(queue') = 0
        /\ confirming' = Signal
    BY <1>1, <2>1, HeadOfChannel
  <2>4. ~ SignalQueued'
    BY <2>3 DEF SignalQueued
  <2>5. QED
    BY <1>1, <1>2, <2>1, <2>2, <2>3, <2>4 DEF PlacesInOrder
<1>8. CASE ServiceStep /\ Service!ApplyOldest
  <2>1. UNCHANGED <<chrono, before, queue, confirming, acked>>
    BY <1>8, TaskSteps, AppliesFirst
  <2>2. SignalQueued' <=> SignalQueued
    BY <2>1 DEF SignalQueued
  <2>3. /\ Len(buffer') = Len(buffer) - 1
        /\ \A i \in 1 .. Len(buffer) - 1 : buffer'[i] = buffer[i + 1]
        /\ Len(processed') = Len(processed) + 1
        /\ \A i \in 1 .. Len(processed) : processed'[i] = processed[i]
        /\ processed'[Len(processed) + 1].transaction = Transaction(Len(processed))
    BY <1>8, AppliesFirst
  <2>4. ASSUME NEW i \in 1 .. Len(processed')
        PROVE  processed'[i].transaction = Transaction(i - 1)
    <3>1. CASE i \in 1 .. Len(processed)
      BY <1>1, <2>3, <3>1 DEF PlacesInOrder
    <3>2. CASE i = Len(processed) + 1
      BY <1>2, <2>3, <3>2
    <3>3. QED
      BY <1>2, <2>3, <3>1, <3>2
  <2>5. ASSUME NEW i \in 1 .. Len(buffer')
        PROVE  buffer'[i] = Transaction(Len(processed') + i - 1)
    <3>1. i + 1 \in 1 .. Len(buffer) /\ Len(processed) + (i + 1) - 1 = Len(processed') + i - 1
      BY <1>2, <2>3
    <3>2. buffer[i + 1] = Transaction(Len(processed) + (i + 1) - 1)
      BY <1>1, <3>1 DEF PlacesInOrder
    <3>3. QED
      BY <2>3, <3>1, <3>2
  <2>6. Len(processed') + Len(buffer') = Len(processed) + Len(buffer)
    BY <1>2, <2>3
  <2>7. QED
    BY <1>1, <2>1, <2>2, <2>4, <2>5, <2>6 DEF PlacesInOrder
<1>9. CASE ServiceStep /\ Service!Acknowledge
  <2>1. /\ confirming # NoCompletion /\ acked' = acked \cup {confirming}
        /\ UNCHANGED <<queue, buffer, processed>>
    BY <1>9 DEF Service!Acknowledge, Service!Confirm
  <2>2. UNCHANGED <<chrono, before>>
    BY <1>9, TaskSteps
  <2>3. ~ SignalQueued /\ ~ SignalQueued'
    BY <1>1, <2>1, ServiceTyped DEF SignalQueued
  <2>4. QED
    BY <1>1, <2>1, <2>2, <2>3 DEF PlacesInOrder
<1>10. CASE ServiceStep /\ Service!AcknowledgeFails
  BY <1>1, <1>10 DEF Service!AcknowledgeFails, EndsSound
<1>11. CASE ServiceStep /\ Service!Return
  <2>1. /\ pc = "FinalFlush" /\ buffer = <<>> /\ queue' = <<>> /\ buffer' = <<>>
        /\ confirming' = NoCompletion
        /\ UNCHANGED <<processed, acked>>
    BY <1>11 DEF Service!Return, Service!Stop
  <2>2. UNCHANGED <<chrono, before>>
    BY <1>11, TaskSteps
  <2>3. queue = <<>>
    BY <1>1, <2>1 DEF EndsSound
  <2>4. confirming # Signal
    BY <1>1, <2>1 DEF SignalSound
  <2>5. QED
    BY <1>1, <2>1, <2>2, <2>3, <2>4, NoCompletionAssumption DEF PlacesInOrder, SignalQueued
<1>12. CASE ServiceStep
  <2>1. CASE Service!TakeCancelled \/ Service!TakeClosed \/ Service!EndFlush
    BY <1>3, <1>12, <2>1, TaskSteps
    DEF Service!TakeCancelled, Service!TakeClosed, Service!EndFlush, Service!GoTo
  <2>2. QED
    BY <1>6, <1>7, <1>8, <1>9, <1>10, <1>11, <1>12, <2>1, TaskSteps DEF Service!TaskStep
<1>13. CASE Open \/ ReadBadRow \/ OutcomeStep \/ OutputStep \/ Exited
  BY <1>3, <1>13
  DEF Open, ReadBadRow, OutcomeStep, TakeOutcome, EndOutcomes, Service!DropOutcomeReceiver,
      Service!task, OutputStep, Exited, vars, service, loading
<1>14. CASE MainStep
  BY <1>3, <1>14, MainSteps
<1>15. QED
  BY <1>4, <1>5, <1>12, <1>13, <1>14 DEF Next, LoaderStep

(* Once the completion is acknowledged, nothing is left to apply.          *)
LEMMA NothingLeft ==
  ASSUME IInv, FileKept, Len(processed) = chrono, ~ SignalQueued
  PROVE  queue = <<>> /\ buffer = <<>>
<1>1. /\ Service!TypeOK /\ PlacesInOrder /\ chrono \in Nat
  BY FileType DEF IInv, TypeOK, FileKept
<1>2. /\ queue \in Seq(Service!Envelope) /\ Len(queue) \in Nat
      /\ buffer \in Seq(AllTransactions) /\ Len(buffer) \in Nat
      /\ Len(processed) \in Nat
  BY <1>1, ServiceTyped
<1>3. /\ chrono - (Len(processed) + Len(buffer)) >= 0
      /\ Len(queue) = chrono - (Len(processed) + Len(buffer))
  BY <1>1 DEF PlacesInOrder
<1>4. Len(buffer) = 0 /\ Len(queue) = 0
  BY <1>1, <1>2, <1>3
<1>5. QED
  BY <1>2, <1>4, EmptySeq

(* The completion follows the rows.                                        *)
LEMMA SignalStep ==
  ASSUME IInv, FileKept, Next
  PROVE  SignalSound'
<1> USE NoCompletionAssumption
<1>1. /\ Service!TypeOK /\ PlacesInOrder /\ SignalSound /\ EndsSound
      /\ chrono \in Nat /\ Len(file) \in Nat /\ file' = file
  BY FileType, TransactionsStay DEF IInv, TypeOK, FileKept
<1>2. /\ Len(queue) \in Nat /\ Len(buffer) \in Nat /\ Len(processed) \in Nat
      /\ buffer \in Seq(AllTransactions)
      /\ confirming \in {Signal, NoCompletion} /\ acked \subseteq DOMAIN before
  BY <1>1, ServiceTyped
<1>3. CASE UNCHANGED <<before, loader, chrono, confirming, acked, processed, buffer, pc>>
  BY <1>1, <1>3 DEF SignalSound
<1>4. CASE Open \/ ReadBadRow
  <2>1. /\ loader \in {"Opening", "Reading"} /\ loader' \in {"Reading", "Failed"}
        /\ UNCHANGED <<before, chrono, confirming, acked, processed, buffer, pc>>
    BY <1>4 DEF Open, ReadBadRow, service
  <2>2. QED
    BY <1>1, <2>1 DEF SignalSound
<1>5. CASE ReadRow
  <2>1. /\ loader = "Reading" /\ loader' = loader
        /\ UNCHANGED <<before, confirming, acked, processed, buffer, pc>>
    BY <1>5 DEF ReadRow, Service!Send, Service!task
  <2>2. Signal \notin DOMAIN before
    BY <1>1, <2>1 DEF SignalSound
  <2>3. QED
    BY <1>1, <1>2, <2>1, <2>2 DEF SignalSound
<1>6. CASE EndOfFile
  <2>1. /\ loader = "Reading" /\ loader' = "Loaded" /\ chrono = Len(file) /\ chrono' = chrono
        /\ DOMAIN before' = DOMAIN before \cup {Signal}
        /\ UNCHANGED <<confirming, acked, processed, buffer, pc>>
    BY <1>6 DEF EndOfFile, Service!SendCompletion, Service!task
  <2>2. Signal \notin DOMAIN before
    BY <1>1, <2>1 DEF SignalSound
  <2>3. QED
    BY <1>1, <1>2, <2>1, <2>2 DEF SignalSound
<1>7. CASE ServiceStep
  <2>1. UNCHANGED <<before, loader, chrono>>
    BY <1>7, TaskSteps
  <2>2. CASE Service!TakeIncoming
    <3>1. /\ queue # <<>> /\ Head(queue).kind = "Incoming" /\ pc = "Select"
          /\ UNCHANGED <<confirming, acked, processed>>
      BY <2>2 DEF Service!TakeIncoming, Service!Receive
    <3>2. Len(processed) + Len(buffer) < chrono
      BY <1>1, <3>1, HeadOfChannel
    <3>3. confirming # Signal /\ Signal \notin acked
      BY <1>1, <1>2, <3>1, <3>2 DEF SignalSound
    <3>4. QED
      BY <1>1, <2>1, <3>1, <3>3 DEF SignalSound
  <2>3. CASE Service!TakeCompletion
    <3>1. /\ queue # <<>> /\ Head(queue).kind = "TransactionBatchCompletion"
          /\ pc' = "Flush" /\ confirming' = Head(queue).completion
          /\ UNCHANGED <<acked, processed, buffer>>
      BY <2>3 DEF Service!TakeCompletion
    <3>2. Len(processed) + Len(buffer) = chrono /\ SignalQueued
      BY <1>1, <3>1, HeadOfChannel
    <3>3. QED
      BY <1>1, <2>1, <3>1, <3>2 DEF SignalSound, SignalQueued
  <2>4. CASE Service!ApplyOldest
    <3>1. /\ Len(processed) < chrono
          /\ UNCHANGED <<pc, confirming, acked>>
          /\ Len(processed') = Len(processed) + 1 /\ Len(buffer') = Len(buffer) - 1
      BY <1>7, <2>4, AppliesFirst
    <3>2. Len(processed') + Len(buffer') = Len(processed) + Len(buffer)
      BY <1>2, <3>1
    <3>3. Signal \notin acked
      BY <1>1, <1>2, <3>1 DEF SignalSound
    <3>4. QED
      BY <1>1, <2>1, <3>1, <3>2, <3>3 DEF SignalSound
  <2>5. CASE Service!Acknowledge
    <3>1. /\ buffer = <<>> /\ confirming # NoCompletion
          /\ acked' = acked \cup {confirming} /\ confirming' = NoCompletion /\ pc' = "Select"
          /\ UNCHANGED processed
      BY <2>5 DEF Service!Acknowledge, Service!Confirm
    <3>2. confirming = Signal
      BY <1>2, <3>1
    <3>3. Len(processed) = chrono /\ Signal \in DOMAIN before
      BY <1>1, <1>2, <3>1, <3>2 DEF SignalSound
    <3>4. QED
      BY <1>1, <2>1, <3>1, <3>3 DEF SignalSound
  <2>6. CASE Service!TakeCancelled \/ Service!TakeClosed \/ Service!EndFlush
    <3>1. /\ pc = "Select" \/ confirming = NoCompletion
          /\ pc' # "Flush"
          /\ UNCHANGED <<confirming, acked, processed, buffer>>
      BY <2>6 DEF Service!TakeCancelled, Service!TakeClosed, Service!EndFlush, Service!GoTo
    <3>2. confirming # Signal
      BY <1>1, <3>1 DEF SignalSound
    <3>3. QED
      BY <1>1, <2>1, <3>1, <3>2 DEF SignalSound
  <2>7. CASE Service!Return
    <3>1. /\ pc' = "Returned" /\ confirming' = NoCompletion
          /\ UNCHANGED <<acked, processed>>
      BY <2>7 DEF Service!Return, Service!Stop
    <3>2. QED
      BY <1>1, <2>1, <3>1 DEF SignalSound
  <2>8. CASE Service!AcknowledgeFails
    BY <1>1, <2>8 DEF Service!AcknowledgeFails, EndsSound
  <2>9. QED
    BY <1>7, <2>2, <2>3, <2>4, <2>5, <2>6, <2>7, <2>8, TaskSteps DEF Service!TaskStep
<1>8. CASE OutcomeStep \/ OutputStep \/ Exited
  BY <1>3, <1>8
  DEF OutcomeStep, TakeOutcome, EndOutcomes, Service!DropOutcomeReceiver, Service!task,
      OutputStep, Exited, vars, service, loading
<1>9. CASE MainStep
  BY <1>3, <1>9, MainSteps
<1>10. QED
  BY <1>4, <1>5, <1>6, <1>7, <1>8, <1>9 DEF Next, LoaderStep

(* While main waits the service runs, so main never sees the last task end.*)
LEMMA ReapStays ==
  ASSUME IInv, NEW task, Reap(task)
  PROVE  "service" \in tasks' /\ UNCHANGED <<main, senders, cancelled, output>>
<1>1. main = "Waiting" /\ Ended(task) /\ tasks' = tasks \ {task}
  BY DEF Reap
<1>2. "service" \in tasks /\ pc \notin {"FinalFlush", "Returned", "Failed"}
  BY <1>1 DEF IInv, EndsSound
<1>3. task # "service"
  BY <1>1, <1>2 DEF Ended
<1>4. "service" \in tasks' /\ tasks' # {}
  BY <1>1, <1>2, <1>3
<1>5. QED
  BY <1>4 DEF Reap, service

(* Nobody lets go of the service too early.                                *)
LEMMA EndsStep ==
  ASSUME IInv, FileKept, Next
  PROVE  EndsSound'
<1>1. /\ Service!TypeOK /\ PlacesInOrder /\ SignalSound /\ EndsSound
      /\ chrono \in Nat /\ file' = file
      /\ loader \in {"Opening", "Reading", "Loaded", "Failed"}
      /\ logger \in {"Running", "Ended"}
  BY FileType, TransactionsStay DEF IInv, TypeOK, FileKept
<1>2. /\ Len(queue) \in Nat /\ Len(buffer) \in Nat /\ Len(processed) \in Nat
      /\ queue \in Seq(Service!Envelope)
      /\ buffer \in Seq(AllTransactions)
      /\ senders \in BOOLEAN /\ cancelled \in BOOLEAN /\ listening \in BOOLEAN
  BY <1>1, ServiceTyped
<1>3. CASE UNCHANGED <<loader, main, senders, cancelled, tasks, pc, queue, listening, logger,
                       processed, chrono, abandoned, acked>>
  BY <1>1, <1>3 DEF EndsSound
<1>4. CASE LoaderStep
  <2>1. /\ loader \in {"Opening", "Reading"}
        /\ UNCHANGED <<main, senders, cancelled, tasks, pc, listening, logger, processed,
                       abandoned, acked>>
    BY <1>4 DEF LoaderStep, Open, ReadRow, ReadBadRow, EndOfFile, Service!Send,
       Service!SendCompletion, Service!env, Service!task, service, logging, printing
  <2>2. main = "Waiting" /\ listening
    BY <1>1, <2>1 DEF EndsSound
  <2>3. pc \notin {"FinalFlush", "Returned"}
    BY <1>1, <2>2 DEF EndsSound
  <2>4. QED
    BY <1>1, <2>1, <2>2, <2>3 DEF EndsSound
<1>5. CASE ServiceStep
  <2>1. UNCHANGED <<loader, main, senders, cancelled, tasks, listening, logger, chrono, abandoned>>
    BY <1>5, TaskSteps
  <2>2. CASE Service!TakeCancelled \/ Service!TakeClosed
    <3>1. /\ cancelled \/ (~ senders /\ queue = <<>>)
          /\ pc' = "FinalFlush"
          /\ UNCHANGED <<queue, processed, acked>>
      BY <2>2 DEF Service!TakeCancelled, Service!TakeClosed, Service!GoTo
    <3>2. CASE cancelled
      <4>1. main \notin {"Waiting", "Printing"} /\ Signal \in acked
        BY <1>1, <3>2 DEF EndsSound
      <4>2. Len(processed) = chrono /\ ~ SignalQueued
        BY <1>1, <4>1 DEF SignalSound, SignalQueued
      <4>3. queue = <<>>
        BY <4>2, NothingLeft
      <4>4. QED
        BY <1>1, <2>1, <3>1, <4>1, <4>3 DEF EndsSound
    <3>3. CASE ~ senders /\ queue = <<>>
      BY <1>1, <2>1, <3>1, <3>3 DEF EndsSound
    <3>4. QED
      BY <3>1, <3>2, <3>3
  <2>3. CASE Service!TakeIncoming \/ Service!TakeCompletion \/ Service!EndFlush
               \/ Service!Acknowledge
    <3>1. /\ pc' \in {"Select", "Flush"} /\ acked \subseteq acked'
          /\ UNCHANGED processed
      BY <2>3 DEF Service!TakeIncoming, Service!Receive, Service!TakeCompletion, Service!EndFlush,
         Service!GoTo, Service!Acknowledge, Service!Confirm
    <3>2. QED
      BY <1>1, <2>1, <3>1 DEF EndsSound
  <2>4. CASE Service!ApplyOldest
    <3>1. listening /\ UNCHANGED <<queue, pc, acked>>
      BY <1>5, <2>4, AppliesFirst
    <3>2. QED
      BY <1>1, <2>1, <3>1 DEF EndsSound
  <2>5. CASE Service!Return
    <3>1. /\ pc = "FinalFlush" /\ pc' = "Returned" /\ queue' = <<>>
          /\ UNCHANGED <<processed, acked>>
      BY <2>5 DEF Service!Return, Service!Stop
    <3>2. QED
      BY <1>1, <2>1, <3>1 DEF EndsSound
  <2>6. CASE Service!AcknowledgeFails
    BY <1>1, <2>6 DEF Service!AcknowledgeFails, EndsSound
  <2>7. QED
    BY <1>5, <2>2, <2>3, <2>4, <2>5, <2>6, TaskSteps DEF Service!TaskStep
<1>6. CASE TakeOutcome \/ OutputStep \/ Exited
  BY <1>3, <1>6
  DEF TakeOutcome, OutputStep, Exited, vars, service, loading, logging, printing
<1>7. CASE EndOutcomes
  <2>1. /\ loader \in {"Loaded", "Failed"} /\ buffer = <<>>
        /\ \A i \in 1 .. Len(queue) : queue[i].kind # "Incoming"
        /\ logger' = "Ended" /\ listening' = FALSE
        /\ UNCHANGED <<loader, main, senders, cancelled, tasks, pc, queue, processed, chrono,
                       abandoned, acked>>
    BY <1>7 DEF EndOutcomes, Service!DropOutcomeReceiver, Service!task, loading, printing
  <2>2. Len(buffer) = 0
    BY <2>1
  <2>3. ~ (Len(processed) < chrono)
    <3>1. SUFFICES ASSUME Len(processed) < chrono PROVE FALSE
      OBVIOUS
    <3>2. 1 \in 1 .. chrono - (Len(processed) + Len(buffer))
      BY <1>1, <1>2, <2>2, <3>1
    <3>3. \E tx : queue[1] = Service!Incoming(tx)
      BY <1>1, <3>2 DEF PlacesInOrder
    <3>4. 1 \in 1 .. Len(queue)
      BY <1>1, <1>2, <3>2 DEF PlacesInOrder
    <3>5. QED
      BY <2>1, <3>3, <3>4, Envelopes
  <2>4. Len(processed) <= chrono
    BY <1>1, <1>2, <2>2 DEF PlacesInOrder
  <2>5. Len(processed) = chrono
    BY <1>1, <1>2, <2>3, <2>4
  <2>6. QED
    BY <1>1, <2>1, <2>5 DEF EndsSound
<1>8. CASE MainStep
  <2>1. UNCHANGED <<loader, logger, queue, listening, abandoned, pc, acked, processed, chrono>>
    BY <1>8, MainSteps
  <2>2. ASSUME NEW task \in tasks, Reap(task)
        PROVE  EndsSound'
    <3>1. "service" \in tasks' /\ UNCHANGED <<main, senders, cancelled>>
      BY <2>2, ReapStays
    <3>2. QED
      BY <1>1, <2>1, <3>1 DEF EndsSound
  <2>3. CASE ReceiveSignal \/ WriteOutput
    <3>1. /\ main' = "Printing" /\ main \in {"Waiting", "Printing"}
          /\ UNCHANGED <<senders, cancelled, tasks>>
      BY <2>3
      DEF ReceiveSignal, WriteOutput, Service!Begin, Service!ReaderStep, Service!vars, Service!env
    <3>2. Signal \in DOMAIN before
      <4>1. Signal \in acked
        BY <2>3 DEF ReceiveSignal, WriteOutput, IInv, SnapshotSound
      <4>2. QED
        BY <1>1, <4>1, ServiceTyped
    <3>3. loader \notin {"Opening", "Reading"}
      BY <1>1, <3>2 DEF SignalSound
    <3>4. QED
      BY <1>1, <2>1, <3>1, <3>3 DEF EndsSound
  <2>4. CASE LoseSignal
    <3>1. /\ main = "Waiting" /\ main' = "Failed" /\ senders' = FALSE
          /\ loader = "Failed" \/ Signal \in DOMAIN before
          /\ UNCHANGED <<cancelled, tasks>>
      BY <2>4 DEF LoseSignal, Leave, Service!CloseSenders
    <3>2. loader \notin {"Opening", "Reading"}
      BY <1>1, <3>1 DEF SignalSound
    <3>3. QED
      BY <1>1, <2>1, <3>1, <3>2 DEF EndsSound
  <2>5. CASE PrintFails \/ Return
    <3>1. /\ main \in {"Printing", "Finishing"} /\ main' \in {"Returned", "Failed"}
          /\ senders' = FALSE
          /\ UNCHANGED <<cancelled, tasks>>
      BY <2>5 DEF PrintFails, Return, Leave, Service!CloseSenders
    <3>2. loader \notin {"Opening", "Reading"}
      BY <1>1, <3>1 DEF EndsSound
    <3>3. QED
      BY <1>1, <2>1, <3>1, <3>2 DEF EndsSound
  <2>6. CASE Finish
    <3>1. /\ main = "Printing" /\ main' = "Finishing" /\ cancelled' = TRUE
          /\ UNCHANGED <<senders, tasks>>
      BY <2>6 DEF Finish, Service!Cancel
    <3>2. loader \notin {"Opening", "Reading"}
      BY <1>1, <3>1 DEF EndsSound
    <3>3. Signal \in acked
      BY <3>1 DEF IInv, SnapshotSound
    <3>4. QED
      BY <1>1, <2>1, <3>1, <3>2, <3>3 DEF EndsSound
  <2>7. CASE Exit
    BY <1>3, <2>1, <2>7 DEF Exit, service
  <2>8. QED
    BY <1>8, <2>2, <2>3, <2>4, <2>5, <2>6, <2>7 DEF MainStep
<1>9. QED
  BY <1>4, <1>5, <1>6, <1>7, <1>8 DEF Next, OutcomeStep

(* The accounts are those of the rows that were applied, one by one.       *)
LEMMA AccountsStep ==
  ASSUME IInv, FileKept, Next
  PROVE  accounts' = AccountsAfterRows'[Len(processed')]
<1>1. /\ accounts = AccountsAfterRows[Len(processed)]
      /\ Service!TypeOK /\ file \in Files /\ chrono \in 0 .. Len(file)
  BY DEF IInv, TypeOK, FileKept
<1>2. AccountsAfterRows' = AccountsAfterRows
  BY TransactionsStay DEF AccountsAfterRows
<1>3. CASE UNCHANGED <<accounts, processed>>
  BY <1>1, <1>2, <1>3
<1>4. CASE ServiceStep /\ Service!ApplyOldest
  <2>1. /\ Len(processed) < chrono
        /\ Len(processed') = Len(processed) + 1
        /\ accounts' = AfterTransaction(accounts, file[Len(processed) + 1])
    BY <1>4, AppliesFirst
  <2>2. Len(processed) \in Nat /\ Len(file) \in Nat
    BY <1>1, FileType, ServiceTyped
  <2>3. Len(processed) + 1 \in 1 .. Len(file) /\ Len(processed) + 1 - 1 = Len(processed)
    BY <1>1, <2>1, <2>2
  <2>4. AccountsAfterRows[Len(processed) + 1]
          = AfterTransaction(AccountsAfterRows[Len(processed) + 1 - 1], file[Len(processed) + 1])
    BY <1>1, <2>3, AccountsAfterRow
  <2>5. QED
    BY <1>1, <1>2, <2>1, <2>3, <2>4
<1>5. CASE ServiceStep
  <2>1. Service!ApplyOldest \/ UNCHANGED <<accounts, processed>>
    BY <1>5, TaskSteps
    DEF Service!TaskStep, Service!TakeCancelled, Service!TakeClosed, Service!TakeIncoming,
        Service!Receive, Service!TakeCompletion, Service!EndFlush, Service!Acknowledge,
        Service!Confirm, Service!AcknowledgeFails, Service!Return, Service!GoTo
  <2>2. QED
    BY <1>3, <1>4, <1>5, <2>1
<1>6. CASE LoaderStep \/ OutcomeStep \/ OutputStep \/ Exited
  BY <1>3, <1>6
  DEF LoaderStep, Open, ReadRow, ReadBadRow, EndOfFile, Service!Send, Service!SendCompletion,
      OutcomeStep, TakeOutcome, EndOutcomes, Service!DropOutcomeReceiver, Service!task,
      OutputStep, Exited, vars, service
<1>7. CASE MainStep
  BY <1>3, <1>7, MainSteps
<1>8. QED
  BY <1>5, <1>6, <1>7 DEF Next

-----------------------------------------------------------------------------
(***************************************************************************)
(* The output.                                                             *)
(***************************************************************************)

(* What a turn of write_snapshot does, seen from main.                     *)
LEMMA OutputSteps ==
  ASSUME WriteOutput
  PROVE  /\ main = "Printing" /\ main' = main /\ delivered' = delivered
         /\ \/ /\ snapshot = "Header" /\ snapshot' = "Rows" /\ shard' = 1
               /\ lines' = Append(lines, Snapshot!Header)
            \/ /\ snapshot = "Rows" /\ UNCHANGED <<snapshot, shard>>
               /\ \E c \in DOMAIN accounts \ Snapshot!Listed :
                    ShardOf[c] = shard /\ lines' = Append(lines, Snapshot!Row(c))
            \/ /\ snapshot = "Rows" /\ lines' = lines
               /\ \A c \in DOMAIN accounts : ShardOf[c] = shard => c \in Snapshot!Listed
               /\ IF shard < Shards THEN shard' = shard + 1 /\ snapshot' = "Rows"
                                    ELSE shard' = 0 /\ snapshot' = "Flush"
<1>1. Service!Snapshot!SnapshotStep /\ snapshot' \notin {"Done", "Failed"}
  BY DEF WriteOutput, Service!ReaderStep
<1>2. CASE Service!Snapshot!WriteHeader
  BY <1>2 DEF WriteOutput, Service!Snapshot!WriteHeader, Service!Snapshot!Write,
     Service!Snapshot!Header, Snapshot!Header
<1>3. CASE Service!Snapshot!WriteRow
  BY <1>3 DEF WriteOutput, Service!Snapshot!WriteRow, Service!Snapshot!Write,
     Service!Snapshot!Here, Service!Snapshot!Listed, Snapshot!Listed,
     Service!Snapshot!Row, Service!Snapshot!Statement, Snapshot!Row, Snapshot!Statement
<1>4. CASE Service!Snapshot!NextShard
  BY <1>4 DEF WriteOutput, Service!Snapshot!NextShard, Service!Snapshot!Here,
     Service!Snapshot!Listed, Snapshot!Listed
<1>5. QED
  BY <1>1, <1>2, <1>3, <1>4
  DEF Service!Snapshot!SnapshotStep, Service!Snapshot!Flush, Service!Snapshot!Fail

(* The clients that are listed are those of the lines after the header.    *)
LEMMA ListedRows ==
  ASSUME lines \in Seq(Snapshot!Line), SnapshotSound
  PROVE  \A c : c \in Snapshot!Listed <=> \E i \in 2 .. Len(lines) : lines[i].client = c
<1>1. Len(lines) \in Nat /\ DOMAIN lines = 1 .. Len(lines)
  OBVIOUS
<1>2. \A i \in 2 .. Len(lines) : lines[i].kind = "row"
  <2>1. \A i \in 2 .. Len(lines) : \E c : lines[i] = Snapshot!Row(c)
    BY DEF SnapshotSound
  <2>2. \A c : Snapshot!Row(c).kind = "row"
    BY DEF Snapshot!Row
  <2>3. QED
    BY <2>1, <2>2
<1>3. lines # <<>> => lines[1].kind # "row"
  BY DEF SnapshotSound, Snapshot!Header
<1>4. \A i \in 1 .. Len(lines) : lines[i].kind = "row" <=> i \in 2 .. Len(lines)
  <2>1. ASSUME NEW i \in 1 .. Len(lines)
        PROVE  i \in 2 .. Len(lines) \/ (i = 1 /\ lines # <<>>)
    BY <1>1
  <2>2. QED
    BY <1>1, <1>2, <1>3, <2>1
<1>5. QED
  BY <1>1, <1>4 DEF Snapshot!Listed

(* A line is added to the output.                                          *)
LEMMA LineWritten ==
  ASSUME lines \in Seq(Snapshot!Line), NEW line \in Snapshot!Line, lines' = Append(lines, line)
  PROVE  /\ lines' \in Seq(Snapshot!Line) /\ lines' # <<>>
         /\ Len(lines) \in Nat /\ Len(lines') = Len(lines) + 1
         /\ \A i \in 1 .. Len(lines) : lines'[i] = lines[i]
         /\ lines'[Len(lines) + 1] = line
BY AppendProperties, EmptySeq

(* An account makes a line.                                                *)
LEMMA RowType ==
  ASSUME Proofs!IInv, NEW c \in DOMAIN accounts
  PROVE  Snapshot!Row(c) \in Snapshot!Line
<1>1. c \in ClientId
  BY DEF Proofs!IInv, Proofs!TypeOK
<1>2. Proofs!IsAccount(accounts[c])
  BY DEF Proofs!IInv, Proofs!Sound
<1>3. QED
  BY <1>1, <1>2 DEF Snapshot!Row, Snapshot!Statement, Snapshot!Line, Proofs!IsAccount

(* The lines are those of the accounts that main is in the middle of, and  *)
(* no account changes until it is through.                                 *)
LEMMA SnapshotStep ==
  ASSUME IInv, FileKept, Proofs!IInv, Next
  PROVE  SnapshotSound' /\ lines' \in Seq(Snapshot!Line) /\ shard' \in 0 .. Shards
<1> USE ShardsAssumption
<1>1. /\ Service!TypeOK /\ SignalSound /\ SnapshotSound
      /\ lines \in Seq(Snapshot!Line) /\ Len(lines) \in Nat /\ shard \in 0 .. Shards
      /\ snapshot \in {"Idle", "Header", "Rows", "Flush", "Done", "Failed"}
      /\ main \in {"Waiting", "Printing", "Finishing", "Returned", "Failed"}
  BY DEF IInv, TypeOK
<1>2. ASSUME accounts' = accounts, \A c : Snapshot!Row(c)' = Snapshot!Row(c),
             UNCHANGED <<main, snapshot, lines, shard, delivered>>, acked \subseteq acked'
      PROVE  SnapshotSound' /\ lines' \in Seq(Snapshot!Line) /\ shard' \in 0 .. Shards
  BY <1>1, <1>2 DEF SnapshotSound, Snapshot!Header
<1>3. accounts' = accounts => \A c : Snapshot!Row(c)' = Snapshot!Row(c)
  BY DEF Snapshot!Row
<1>4. CASE ServiceStep
  <2>1. UNCHANGED <<main, snapshot, lines, shard, delivered>>
    BY <1>4, TaskSteps DEF output
  <2>2. CASE Service!ApplyOldest
    <3>1. Len(processed) < chrono /\ acked' = acked
      BY <1>4, <2>2, AppliesFirst
    <3>2. Signal \notin acked
      BY <1>1, <3>1, FileType, ServiceTyped DEF SignalSound, FileKept
    <3>3. snapshot = "Idle" /\ lines = <<>>
      BY <1>1, <3>2 DEF SnapshotSound
    <3>4. Len(lines) = 0
      BY <3>3
    <3>5. main \notin {"Printing", "Finishing", "Returned"}
      BY <1>1, <3>3 DEF SnapshotSound
    <3>6. QED
      BY <1>1, <2>1, <3>1, <3>3, <3>4, <3>5 DEF SnapshotSound
  <2>3. Service!ApplyOldest \/ (accounts' = accounts /\ acked \subseteq acked')
    BY <1>4, TaskSteps
    DEF Service!TaskStep, Service!TakeCancelled, Service!TakeClosed, Service!TakeIncoming,
        Service!Receive, Service!TakeCompletion, Service!EndFlush, Service!Acknowledge,
        Service!Confirm, Service!AcknowledgeFails, Service!Return, Service!GoTo
  <2>4. QED
    BY <1>2, <1>3, <2>1, <2>2, <2>3
<1>5. CASE LoaderStep \/ OutcomeStep \/ Exited
  <2>1. UNCHANGED <<accounts, acked, main, snapshot, lines, shard, delivered>>
    BY <1>5
    DEF LoaderStep, Open, ReadRow, ReadBadRow, EndOfFile, Service!Send, Service!SendCompletion,
        OutcomeStep, TakeOutcome, EndOutcomes, Service!DropOutcomeReceiver, Service!task,
        Exited, vars, service, printing, output
  <2>2. QED
    BY <1>2, <1>3, <2>1
<1>6. CASE OutputStep
  <2>1. /\ delivered < Len(lines)
        /\ UNCHANGED <<accounts, acked, main, snapshot, lines, shard>>
    BY <1>6 DEF OutputStep, Snapshot!HandOn, service
  <2>2. snapshot # "Done"
    BY <1>1, <2>1 DEF SnapshotSound
  <2>3. QED
    BY <1>1, <1>3, <2>1, <2>2 DEF SnapshotSound, Snapshot!Header
<1>7. CASE MainStep
  <2>1. UNCHANGED <<accounts, acked>> /\ \A c : Snapshot!Row(c)' = Snapshot!Row(c)
    BY <1>3, <1>7, MainSteps
  <2>2. CASE \E task \in tasks : Reap(task)
    BY <1>2, <2>1, <2>2, ReapStays DEF output
  <2>3. CASE Exit
    BY <1>2, <2>1, <2>3 DEF Exit, output
  <2>4. CASE ReceiveSignal
    <3>1. /\ main' = "Printing" /\ Signal \in acked
          /\ snapshot = "Idle" /\ snapshot' = "Header"
          /\ UNCHANGED <<shard, lines, delivered>>
      BY <2>4 DEF ReceiveSignal, Service!Begin, Service!Snapshot!Begin
    <3>2. lines = <<>> /\ Len(lines) = 0
      BY <1>1, <3>1 DEF SnapshotSound
    <3>3. QED
      BY <1>1, <2>1, <3>1, <3>2 DEF SnapshotSound
  <2>5. CASE LoseSignal
    <3>1. main' = "Failed" /\ UNCHANGED <<snapshot, shard, lines, delivered>>
      BY <2>5 DEF LoseSignal, Leave, output
    <3>2. QED
      BY <1>1, <2>1, <3>1 DEF SnapshotSound, Snapshot!Header
  <2>6. CASE PrintFails
    <3>1. /\ main' = "Failed" /\ main = "Printing" /\ snapshot' = "Failed" /\ shard' = 0
          /\ UNCHANGED <<lines, delivered>>
      BY <2>6 DEF PrintFails, Leave, Snapshot!Fail
    <3>2. Signal \in acked
      BY <1>1, <3>1 DEF SnapshotSound
    <3>3. QED
      BY <1>1, <2>1, <3>1, <3>2 DEF SnapshotSound, Snapshot!Header
  <2>7. CASE Finish
    <3>1. /\ main' = "Finishing" /\ snapshot = "Flush" /\ snapshot' = "Done"
          /\ delivered' = Len(lines)
          /\ UNCHANGED <<lines, shard>>
      BY <2>7 DEF Finish, Snapshot!Flush
    <3>2. QED
      BY <1>1, <2>1, <3>1 DEF SnapshotSound, Snapshot!Header
  <2>8. CASE Return
    <3>1. /\ main = "Finishing" /\ main' \in {"Returned", "Failed"}
          /\ UNCHANGED <<snapshot, shard, lines, delivered>>
      BY <2>8 DEF Return, Leave, output
    <3>2. QED
      BY <1>1, <2>1, <3>1 DEF SnapshotSound, Snapshot!Header
  <2>9. CASE WriteOutput
    <3>1. main = "Printing" /\ main' = main /\ delivered' = delivered
      BY <2>9, OutputSteps
    <3>2. CASE /\ snapshot = "Header" /\ snapshot' = "Rows" /\ shard' = 1
               /\ lines' = Append(lines, Snapshot!Header)
      <4>1. lines = <<>>
        BY <1>1, <3>2 DEF SnapshotSound
      <4>2. Snapshot!Header \in Snapshot!Line
        BY DEF Snapshot!Line, Snapshot!Header
      <4>3. /\ lines' \in Seq(Snapshot!Line) /\ lines' # <<>>
            /\ Len(lines') = 1 /\ lines'[1] = Snapshot!Header
        BY <1>1, <3>2, <4>1, <4>2, LineWritten
      <4>4. \A c \in DOMAIN accounts : ~ (ShardOf[c] < 1)
        BY <1>1 DEF Service!TypeOK
      <4>5. Signal \in acked
        BY <1>1, <3>2 DEF SnapshotSound
      <4>6. QED
        BY <2>1, <3>1, <3>2, <4>3, <4>4, <4>5 DEF SnapshotSound, Snapshot!Header
    <3>3. CASE /\ snapshot = "Rows" /\ UNCHANGED <<snapshot, shard>>
               /\ \E c \in DOMAIN accounts \ Snapshot!Listed :
                    ShardOf[c] = shard /\ lines' = Append(lines, Snapshot!Row(c))
      <4>1. PICK c \in DOMAIN accounts : /\ c \notin Snapshot!Listed
                                       /\ lines' = Append(lines, Snapshot!Row(c))
        BY <3>3
      <4>2. /\ lines' \in Seq(Snapshot!Line) /\ lines' # <<>>
            /\ Len(lines') = Len(lines) + 1
            /\ \A i \in 1 .. Len(lines) : lines'[i] = lines[i]
            /\ lines'[Len(lines) + 1] = Snapshot!Row(c)
        BY <1>1, <4>1, LineWritten, RowType
      <4>3. Snapshot!Row(c).client = c
        BY DEF Snapshot!Row
      <4>4. \A i \in 2 .. Len(lines) : lines[i].client # c
        BY <1>1, <4>1, ListedRows
      <4>5. lines # <<>> /\ Len(lines) > 0
        BY <1>1, <3>3, EmptySeq DEF SnapshotSound
      <4>6. \A i \in 2 .. Len(lines') : (i \in 2 .. Len(lines) /\ lines'[i] = lines[i])
                                        \/ (i = Len(lines) + 1 /\ lines'[i] = Snapshot!Row(c))
        BY <1>1, <4>2
      <4>7. \A i \in 2 .. Len(lines') : /\ lines'[i].client \in DOMAIN accounts
                                       /\ lines'[i] = Snapshot!Row(lines'[i].client)
        BY <1>1, <4>3, <4>6 DEF SnapshotSound
      <4>8. \A i, j \in 2 .. Len(lines') : lines'[i].client = lines'[j].client => i = j
        <5>1. ASSUME NEW i \in 2 .. Len(lines'), NEW j \in 2 .. Len(lines'),
                     lines'[i].client = lines'[j].client
              PROVE  i = j
          <6>1. CASE i \in 2 .. Len(lines) /\ j \in 2 .. Len(lines)
            <7>1. lines'[i] = lines[i] /\ lines'[j] = lines[j]
              BY <4>2, <6>1
            <7>2. QED
              BY <1>1, <5>1, <6>1, <7>1 DEF SnapshotSound
          <6>2. CASE i \in 2 .. Len(lines) /\ j = Len(lines) + 1
            <7>1. lines'[i] = lines[i] /\ lines'[j] = Snapshot!Row(c)
              BY <4>2, <6>2
            <7>2. QED
              BY <4>3, <4>4, <5>1, <6>2, <7>1
          <6>3. CASE i = Len(lines) + 1 /\ j \in 2 .. Len(lines)
            <7>1. lines'[j] = lines[j] /\ lines'[i] = Snapshot!Row(c)
              BY <4>2, <6>3
            <7>2. QED
              BY <4>3, <4>4, <5>1, <6>3, <7>1
          <6>4. QED
            BY <4>6, <6>1, <6>2, <6>3
        <5>2. QED
          BY <5>1
      <4>9. \A d \in DOMAIN accounts : ShardOf[d] < shard =>
              \E i \in 2 .. Len(lines') : lines'[i].client = d
        <5>1. SUFFICES ASSUME NEW d \in DOMAIN accounts, ShardOf[d] < shard
                       PROVE  \E i \in 2 .. Len(lines') : lines'[i].client = d
          OBVIOUS
        <5>2. PICK i \in 2 .. Len(lines) : lines[i].client = d
          BY <1>1, <3>3, <5>1 DEF SnapshotSound
        <5>3. i \in 2 .. Len(lines') /\ lines'[i] = lines[i]
          BY <1>1, <4>2
        <5>4. QED
          BY <5>2, <5>3
      <4>10. lines'[1] = Snapshot!Header
        BY <1>1, <4>2, <4>5 DEF SnapshotSound
      <4>11. Signal \in acked /\ shard \in 1 .. Shards
        BY <1>1, <3>3 DEF SnapshotSound
      <4>12. /\ (\A i \in 2 .. Len(lines) : /\ lines[i].client \in DOMAIN accounts
                                           /\ lines[i] = Snapshot!Row(lines[i].client))'
             /\ (\A i, j \in 2 .. Len(lines) : lines[i].client = lines[j].client => i = j)'
        BY <2>1, <4>7, <4>8
      <4>13. (\A d \in DOMAIN accounts :
                (snapshot = "Rows" /\ ShardOf[d] < shard) \/ snapshot \in {"Flush", "Done"} =>
                  \E i \in 2 .. Len(lines) : lines[i].client = d)'
        BY <2>1, <3>3, <4>9
      <4>14. (lines # <<>> => lines[1] = Snapshot!Header)'
        BY <4>10 DEF Snapshot!Header
      <4>15. shard' \in 0 .. Shards /\ snapshot' = "Rows" /\ shard' \in 1 .. Shards
        BY <3>3, <4>11
      <4>16. QED
        BY <2>1, <3>1, <4>2, <4>11, <4>12, <4>13, <4>14, <4>15 DEF SnapshotSound
    <3>4. CASE /\ snapshot = "Rows" /\ lines' = lines
               /\ \A c \in DOMAIN accounts : ShardOf[c] = shard => c \in Snapshot!Listed
               /\ IF shard < Shards THEN shard' = shard + 1 /\ snapshot' = "Rows"
                                    ELSE shard' = 0 /\ snapshot' = "Flush"
      <4>1. \A c \in DOMAIN accounts : ShardOf[c] \in 1 .. Shards
        BY <1>1 DEF Service!TypeOK
      <4>2. \A c \in DOMAIN accounts : ShardOf[c] = shard \/ ShardOf[c] < shard =>
              \E i \in 2 .. Len(lines) : lines[i].client = c
        BY <1>1, <3>4, ListedRows DEF SnapshotSound
      <4>3. \A c \in DOMAIN accounts :
              (snapshot' = "Rows" /\ ShardOf[c] < shard') \/ snapshot' \in {"Flush", "Done"} =>
                \E i \in 2 .. Len(lines) : lines[i].client = c
        BY <1>1, <3>4, <4>1, <4>2
      <4>4. lines # <<>> /\ Signal \in acked /\ shard \in 1 .. Shards
        BY <1>1, <3>4 DEF SnapshotSound
      <4>5. snapshot' = "Rows" => shard' \in 1 .. Shards
        BY <3>4, <4>4
      <4>6. snapshot' \in {"Rows", "Flush"} /\ shard' \in 0 .. Shards
        BY <3>4, <4>4
      <4>7. QED
        BY <1>1, <2>1, <3>1, <3>4, <4>3, <4>4, <4>5, <4>6 DEF SnapshotSound, Snapshot!Header
    <3>5. QED
      BY <2>9, <3>2, <3>3, <3>4, OutputSteps
  <2>10. QED
    BY <1>7, <2>2, <2>3, <2>4, <2>5, <2>6, <2>7, <2>8, <2>9 DEF MainStep
<1>8. QED
  BY <1>4, <1>5, <1>6, <1>7 DEF Next

-----------------------------------------------------------------------------
(***************************************************************************)
(* The theorems.                                                           *)
(***************************************************************************)

(* The types of the service mean the same in every module.                 *)
LEMMA TypesAlike ==
  /\ Proofs!TypeOK => Service!TypeOK
  /\ Proofs!TypeOK' => Service!TypeOK'
BY DEF Service!TypeOK, Proofs!TypeOK, Service!Envelope, Proofs!Envelope, Service!Application,
   Proofs!Application, Service!Heaped, Proofs!Heaped, Service!Result, Proofs!Result,
   Service!TransactionError, Proofs!TransactionError, Service!Incoming, Proofs!Incoming,
   Service!BatchCompletion, Proofs!BatchCompletion

(* Every variable of the program stays in its type.                        *)
LEMMA TypeStep ==
  ASSUME IInv, FileKept, Proofs!IInv, Proofs!IInv', FileKept', Next
  PROVE  TypeOK'
<1> USE TransactionsStay
<1>1. Service!TypeOK'
  BY TypesAlike DEF Proofs!IInv
<1>2. /\ Service!TypeOK /\ Len(processed) \in Nat /\ chrono \in Nat
      /\ TypeOK
  BY FileType, ServiceTyped DEF IInv, TypeOK, FileKept
<1>3. chrono' \in 0 .. Len(file')
  BY DEF FileKept
<1>4. SnapshotSound' /\ lines' \in Seq(Snapshot!Line) /\ shard' \in 0 .. Shards
  BY SnapshotStep
<1>5. sent' = {Transaction(n)' : n \in 0 .. chrono' - 1}
  <2>1. CASE UNCHANGED <<sent, chrono>>
    BY <1>2, <2>1 DEF TypeOK
  <2>2. CASE ReadRow
    <3>1. sent' = sent \cup {Transaction(chrono)} /\ chrono' = chrono + 1
      BY <2>2 DEF ReadRow, Service!Send
    <3>2. 0 .. chrono' - 1 = (0 .. chrono - 1) \cup {chrono}
      BY <1>2, <3>1
    <3>3. QED
      BY <1>2, <3>1, <3>2 DEF TypeOK
  <2>3. QED
    BY <2>1, <2>2, TaskSteps, MainSteps
    DEF Next, LoaderStep, Open, ReadBadRow, EndOfFile, Service!SendCompletion, OutcomeStep,
        TakeOutcome, EndOutcomes, Service!DropOutcomeReceiver, OutputStep, Exited, vars,
        service, loading
<1>6. handled' \in 0 .. Len(processed')
  <2>1. CASE UNCHANGED <<handled, processed>>
    BY <1>2, <2>1 DEF TypeOK
  <2>2. CASE ServiceStep /\ Service!ApplyOldest
    <3>1. handled' = handled /\ Len(processed') = Len(processed) + 1
      BY <2>2, TaskSteps, AppliesFirst
    <3>2. QED
      BY <1>2, <3>1 DEF TypeOK
  <2>3. CASE ServiceStep
    <3>1. handled' = handled /\ (Service!ApplyOldest \/ UNCHANGED processed)
      BY <2>3, TaskSteps
      DEF Service!TaskStep, Service!TakeCancelled, Service!TakeClosed, Service!TakeIncoming,
          Service!Receive, Service!TakeCompletion, Service!EndFlush, Service!Acknowledge,
          Service!Confirm, Service!AcknowledgeFails, Service!Return, Service!GoTo
    <3>2. QED
      BY <2>1, <2>2, <2>3, <3>1
  <2>4. CASE TakeOutcome
    BY <1>2, <2>4 DEF TakeOutcome, service, TypeOK
  <2>5. QED
    BY <2>1, <2>3, <2>4, MainSteps
    DEF Next, LoaderStep, Open, ReadRow, ReadBadRow, EndOfFile, Service!Send,
        Service!SendCompletion, Service!task, OutcomeStep, EndOutcomes,
        Service!DropOutcomeReceiver, OutputStep, Exited, vars, service, logging
<1>7. delivered' \in 0 .. Len(lines')
  <2>1. Len(lines) \in Nat /\ Len(lines') \in Nat /\ delivered \in 0 .. Len(lines)
    BY <1>2, <1>4 DEF TypeOK
  <2>2. CASE UNCHANGED <<delivered, lines>>
    BY <1>2, <2>2 DEF TypeOK
  <2>3. CASE OutputStep
    BY <2>1, <2>3 DEF OutputStep, Snapshot!HandOn
  <2>4. CASE WriteOutput
    <3>1. delivered' = delivered /\ (lines' = lines \/ \E line : lines' = Append(lines, line))
      BY <2>4, OutputSteps
    <3>2. lines' = lines \/ Len(lines') = Len(lines) + 1
      BY <1>2, <3>1 DEF TypeOK
    <3>3. QED
      BY <2>1, <3>1, <3>2
  <2>5. CASE Finish
    BY <2>1, <2>5 DEF Finish, Snapshot!Flush
  <2>6. QED
    BY <2>2, <2>3, <2>4, <2>5, TaskSteps
    DEF Next, LoaderStep, Open, ReadRow, ReadBadRow, EndOfFile, OutcomeStep, TakeOutcome,
        EndOutcomes, MainStep, Reap, ReceiveSignal, Service!Begin, Service!Snapshot!Begin,
        LoseSignal, PrintFails, Snapshot!Fail, Return, Exit, Exited, vars, printing, output
<1>8. /\ loader' \in {"Opening", "Reading", "Loaded", "Failed"}
      /\ logger' \in {"Running", "Ended"}
  BY <1>2, TaskSteps, MainSteps
  DEF TypeOK, Next, LoaderStep, Open, ReadRow, ReadBadRow, EndOfFile, OutcomeStep, TakeOutcome,
      EndOutcomes, OutputStep, Exited, vars, loading, logging
<1>9. /\ main' \in {"Waiting", "Printing", "Finishing", "Returned", "Failed"}
      /\ tasks' \subseteq {"service", "loader", "outcomes"}
  BY <1>2, TaskSteps
  DEF TypeOK, Next, LoaderStep, Open, ReadRow, ReadBadRow, EndOfFile, OutcomeStep, TakeOutcome,
      EndOutcomes, MainStep, Reap, Leave, ReceiveSignal, LoseSignal, WriteOutput, PrintFails,
      Finish, Return, Exit, OutputStep, Exited, vars, printing
<1>10. snapshot' \in {"Idle", "Header", "Rows", "Flush", "Done", "Failed"}
  <2>1. CASE WriteOutput
    BY <2>1, OutputSteps
  <2>2. QED
    BY <1>2, <2>1, TaskSteps
    DEF TypeOK, Next, LoaderStep, Open, ReadRow, ReadBadRow, EndOfFile, OutcomeStep, TakeOutcome,
        EndOutcomes, MainStep, Reap, ReceiveSignal, Service!Begin, Service!Snapshot!Begin,
        LoseSignal, PrintFails, Snapshot!Fail, Finish, Snapshot!Flush, Return, Exit,
        OutputStep, Snapshot!HandOn, Exited, vars, printing, output
<1>11. QED
  BY <1>1, <1>3, <1>4, <1>5, <1>6, <1>7, <1>8, <1>9, <1>10 DEF TypeOK

(* All the rows that were read could be.                                   *)
LEMMA RowsStep ==
  ASSUME IInv, FileKept, Next
  PROVE  \A i \in 1 .. chrono' : file'[i] \notin BadRow
<1>1. file' = file /\ chrono \in Nat /\ \A i \in 1 .. chrono : file[i] \notin BadRow
  BY FileType, TransactionsStay DEF IInv, FileKept
<1>2. CASE ReadRow
  BY <1>1, <1>2 DEF ReadRow
<1>3. chrono' = chrono \/ ReadRow
  BY TaskSteps, MainSteps
  DEF Next, LoaderStep, Open, ReadBadRow, EndOfFile, OutcomeStep, TakeOutcome, EndOutcomes,
      OutputStep, Exited, vars, loading
<1>4. QED
  BY <1>1, <1>2, <1>3

(* The invariant holds in the initial states.                              *)
LEMMA InitInvariant == Init => IInv
<1> SUFFICES ASSUME Init PROVE IInv
  OBVIOUS
<1>1. /\ queue = <<>> /\ buffer = <<>> /\ processed = <<>> /\ sent = {}
      /\ senders = TRUE /\ cancelled = FALSE /\ listening = TRUE /\ abandoned = {}
      /\ pc = "Select" /\ confirming = NoCompletion /\ acked = {} /\ DOMAIN before = {}
      /\ accounts = [c \in {} |-> NewAccount]
      /\ snapshot = "Idle" /\ shard = 0 /\ lines = <<>> /\ delivered = 0
      /\ file \in Files /\ loader = "Opening" /\ chrono = 0 /\ handled = 0
      /\ logger = "Running" /\ main = "Waiting" /\ tasks = {"service", "loader", "outcomes"}
  BY AccountsAlike DEF Init, Service!SharedInit, Service!Init, Service!Snapshot!Init
<1>2. Len(queue) = 0 /\ Len(buffer) = 0 /\ Len(processed) = 0 /\ Len(lines) = 0
  BY <1>1
<1>3. TypeOK
  <2>1. Service!TypeOK
    <3>1. Proofs!Init
      BY AccountsAlike DEF Init, Service!SharedInit, Service!Init, Proofs!Init
    <3>2. Proofs!IInv
      BY <3>1, Proofs!InitInvariant, InstanceAssumptions, MaxTransactionIdAssumption,
         AmountsAssumption
    <3>3. QED
      BY <3>2, TypesAlike DEF Proofs!IInv
  <2>2. sent = {Transaction(n) : n \in 0 .. chrono - 1}
    BY <1>1
  <2>3. lines \in Seq(Snapshot!Line)
    BY <1>1
  <2>4. chrono \in 0 .. Len(file) /\ shard \in 0 .. Shards
    BY <1>1, FileType, ShardsAssumption
  <2>5. QED
    BY <1>1, <1>2, <2>1, <2>2, <2>3, <2>4 DEF TypeOK
<1>4. PlacesInOrder /\ SignalSound
  <2>1. ~ SignalQueued
    BY <1>1 DEF SignalQueued
  <2>2. Len(processed) + Len(buffer) = 0 /\ chrono - (Len(processed) + Len(buffer)) = 0
    <3>1. Len(processed) = 0 /\ Len(buffer) = 0 /\ chrono = 0
      BY <1>1, <1>2
    <3>2. 0 + 0 = 0 /\ 0 - 0 = 0
      OBVIOUS
    <3>3. QED
      BY <3>1, <3>2
  <2>3. PlacesInOrder
    BY <1>2, <2>1, <2>2 DEF PlacesInOrder
  <2>4. SignalSound
    BY <1>1, NoCompletionAssumption DEF SignalSound
  <2>5. QED
    BY <2>3, <2>4
<1>5. EndsSound
  BY <1>1 DEF EndsSound
<1>6. SnapshotSound
  BY <1>1, <1>2 DEF SnapshotSound
<1>7. accounts = AccountsAfterRows[Len(processed)]
  BY <1>1, <1>2, AccountsAfterRow
<1>8. QED
  BY <1>1, <1>3, <1>4, <1>5, <1>6, <1>7 DEF IInv

(* The invariant speaks of the variables alone.                            *)
LEMMA StutterInvariant ==
  ASSUME IInv, UNCHANGED vars
  PROVE  IInv'
<1> USE DEF IInv
<1>1. UNCHANGED <<queue, senders, cancelled, listening, abandoned, pc, confirming, buffer,
                  accounts, acked, sent, received, processed, before, snapshot, shard, lines,
                  delivered, file, loader, chrono, handled, logger, main, tasks>>
  BY DEF vars, service, output, loading, logging, printing
<1>2. \A n : Transaction(n)' = Transaction(n)
  BY <1>1 DEF Transaction
<1>3. AccountsAfterRows' = AccountsAfterRows
  BY <1>1 DEF AccountsAfterRows
<1>4. \A c : Snapshot!Row(c)' = Snapshot!Row(c)
  BY <1>1 DEF Snapshot!Row
<1>5. TypeOK'
  <2>1. Service!TypeOK'
    BY <1>1 DEF TypeOK, Service!TypeOK, Service!Heaped
  <2>2. QED
    BY <1>1, <1>2, <2>1 DEF TypeOK
<1>6. PlacesInOrder'
  BY <1>1, <1>2 DEF PlacesInOrder, SignalQueued
<1>7. SignalSound' /\ EndsSound'
  BY <1>1 DEF SignalSound, EndsSound
<1>8. SnapshotSound'
  BY <1>1, <1>4 DEF SnapshotSound, Snapshot!Header
<1>9. QED
  BY <1>1, <1>3, <1>5, <1>6, <1>7, <1>8

(* The inductive invariant holds in every reachable state.                 *)
THEOREM Invariance == Spec => []IInv
<1>1. Init => IInv
  BY InitInvariant
<1>2. IInv /\ FileKept /\ FileKept' /\ Proofs!IInv /\ Proofs!IInv' /\ [Next]_vars => IInv'
  <2>1. ASSUME IInv, FileKept, FileKept', Proofs!IInv, Proofs!IInv', Next PROVE IInv'
    BY <2>1, TypeStep, RowsStep, PlacesStep, SignalStep, EndsStep, AccountsStep, SnapshotStep
    DEF IInv
  <2>2. QED
    BY <2>1, StutterInvariant
<1>3. QED
  BY <1>1, <1>2, FileStays, ServiceInvariance, PTL DEF Spec

-----------------------------------------------------------------------------
(***************************************************************************)
(* What follows of the program.                                            *)
(***************************************************************************)

(* The variables keep their types, and the transactions sent are those of  *)
(* the rows that were read.                                                *)
THEOREM TypeCorrect == Spec => []TypeOK
<1>1. IInv => TypeOK
  BY DEF IInv
<1>2. QED
  BY <1>1, Invariance, PTL

(* Transactions are applied in the order of the file: between the row that *)
(* load_file reads and Service::process_transaction lie a channel, batches *)
(* and a heap, and none of them changes the order.                         *)
THEOREM FileOrder == Spec => []ProcessedInFileOrder
<1>1. IInv => ProcessedInFileOrder
  BY DEF IInv, PlacesInOrder, ProcessedInFileOrder
<1>2. QED
  BY <1>1, Invariance, PTL

(* The service outlives the loader, and it never fails: of the errors that *)
(* load_file and Service::run return, those of a send cannot occur.        *)
THEOREM SendsNeverFail == Spec => []NoSendFails
<1>1. IInv => NoSendFails
  <2>1. SUFFICES ASSUME IInv PROVE NoSendFails
    OBVIOUS
  <2>2. Service!TypeOK /\ EndsSound
    BY <2>1 DEF IInv, TypeOK
  <2>3. pc # "Failed"
    BY <2>2 DEF EndsSound
  <2>4. ASSUME loader \in {"Opening", "Reading"} PROVE Service!Running
    <3>1. pc \notin {"FinalFlush", "Returned", "Failed"}
      BY <2>2, <2>4 DEF EndsSound
    <3>2. QED
      BY <3>1, <2>2, ServiceTyped DEF Service!Running
  <2>5. QED
    BY <2>3, <2>4 DEF NoSendFails
<1>2. QED
  BY <1>1, Invariance, PTL

(* While main writes the snapshot the service has nothing to do: the       *)
(* guards that Service::write_snapshot holds over its awaits are in        *)
(* nobody's way, and the accounts it writes are those of one moment.       *)
THEOREM UndisturbedSnapshot == Spec => []SnapshotIsUndisturbed
<1>1. IInv /\ FileKept => SnapshotIsUndisturbed
  <2>1. SUFFICES ASSUME IInv, FileKept, main = "Printing"
                 PROVE  pc = "Select" /\ buffer = <<>> /\ queue = <<>>
    BY DEF SnapshotIsUndisturbed
  <2>2. Service!TypeOK /\ SignalSound /\ EndsSound /\ SnapshotSound
    BY <2>1 DEF IInv, TypeOK
  <2>3. Signal \in acked
    BY <2>1, <2>2 DEF SnapshotSound
  <2>4. Len(processed) = chrono /\ pc # "Flush"
    BY <2>2, <2>3 DEF SignalSound
  <2>5. pc = "Select"
    BY <2>1, <2>2, <2>4, ServiceTyped DEF EndsSound
  <2>6. ~ SignalQueued
    BY <2>3 DEF SignalQueued
  <2>7. QED
    BY <2>1, <2>4, <2>5, <2>6, NothingLeft
<1>2. QED
  BY <1>1, Invariance, FileStays, PTL

(* A snapshot that was begun is one of the whole file.                     *)
LEMMA WholeFile ==
  ASSUME IInv, FileKept, lines # <<>> \/ main \in {"Printing", "Finishing", "Returned"}
  PROVE  chrono = Len(file) /\ Len(processed) = Len(file)
<1>1. Service!TypeOK /\ SignalSound /\ SnapshotSound
  BY DEF IInv, TypeOK
<1>2. snapshot # "Idle"
  BY <1>1 DEF SnapshotSound
<1>3. Signal \in acked
  BY <1>1, <1>2 DEF SnapshotSound
<1>4. Signal \in DOMAIN before
  BY <1>1, <1>3, ServiceTyped
<1>5. QED
  BY <1>1, <1>3, <1>4 DEF SignalSound

(* No line is written for a file that main could not read to its end.      *)
THEOREM WholeFilesOnly == Spec => []OnlyWholeFilesArePrinted
<1>1. IInv /\ FileKept => OnlyWholeFilesArePrinted
  BY WholeFile DEF IInv, OnlyWholeFilesArePrinted
<1>2. QED
  BY <1>1, Invariance, FileStays, PTL

(* The lines of the output, and their number.                              *)
LEMMA LinesCounted ==
  ASSUME IInv, NEW n \in 0 .. Len(lines), n > 0
  PROVE  LET Rows == {lines[i] : i \in 2 .. n}
             Clients == {lines[i].client : i \in 2 .. n}
         IN  /\ Cardinality(Rows) = Cardinality(2 .. n)
             /\ Cardinality(Clients) = Cardinality(2 .. n)
             /\ Cardinality(2 .. n) = n - 1
<1> DEFINE Rows == {lines[i] : i \in 2 .. n}
           Clients == {lines[i].client : i \in 2 .. n}
<1>1. lines \in Seq(Snapshot!Line) /\ Len(lines) \in Nat
  BY DEF IInv, TypeOK
<1>2. IsFiniteSet(2 .. n) /\ Cardinality(2 .. n) = n - 1
  <2>1. n \in Int /\ 2 \in Int
    BY <1>1
  <2>2. IsFiniteSet(2 .. n) /\ Cardinality(2 .. n) = IF 2 > n THEN 0 ELSE n - 2 + 1
    BY <2>1, FS_Interval
  <2>3. QED
    BY <2>1, <2>2
<1>3. \A i, j \in 2 .. n : lines[i].client = lines[j].client => i = j
  BY <1>1 DEF IInv, SnapshotSound
<1>4. ExistsBijection(2 .. n, Rows)
  <2> DEFINE f == [i \in 2 .. n |-> lines[i]]
  <2>1. f \in Bijection(2 .. n, Rows)
    BY <1>3 DEF Bijection, Injection, Surjection, IsInjective
  <2>2. QED
    BY <2>1 DEF ExistsBijection
<1>5. ExistsBijection(2 .. n, Clients)
  <2> DEFINE f == [i \in 2 .. n |-> lines[i].client]
  <2>1. f \in Bijection(2 .. n, Clients)
    BY <1>3 DEF Bijection, Injection, Surjection, IsInjective
  <2>2. QED
    BY <2>1 DEF ExistsBijection
<1>6. QED
  BY <1>2, <1>4, <1>5, FS_Bijection

(* The output is what the rows of the file add up to one by one, with no   *)
(* batches, no heap and no channel, and it is complete when main returns.  *)
THEOREM SequentialOutput == Spec => []OutputIsSequential
<1>1. IInv /\ FileKept => OutputIsSequential
  <2>1. SUFFICES ASSUME IInv, FileKept, delivered > 0 \/ main \in {"Finishing", "Returned"}
                 PROVE  OutputIsSequential
    BY DEF OutputIsSequential
  <2> DEFINE Rows == {lines[i] : i \in 2 .. delivered}
             Clients == {lines[i].client : i \in 2 .. delivered}
  <2>2. /\ SnapshotSound /\ lines \in Seq(Snapshot!Line) /\ Len(lines) \in Nat
        /\ delivered \in 0 .. Len(lines)
    BY <2>1 DEF IInv, TypeOK
  <2>3. ASSUME main \in {"Finishing", "Returned"}
        PROVE  snapshot = "Done" /\ delivered = Len(lines) /\ lines # <<>>
    BY <2>2, <2>3 DEF SnapshotSound
  <2>4. lines # <<>> /\ delivered > 0
    <3>1. CASE delivered > 0
      BY <2>2, <3>1
    <3>2. CASE main \in {"Finishing", "Returned"}
      BY <2>2, <2>3, <3>2, EmptySeq
    <3>3. QED
      BY <2>1, <3>1, <3>2
  <2>5. Len(processed) = Len(file)
    BY <2>1, <2>4, WholeFile
  <2>6. accounts = AccountsAfterRows[Len(file)]
    BY <2>1, <2>5 DEF IInv
  <2>7. lines[1] = Snapshot!Header
    BY <2>2, <2>4 DEF SnapshotSound
  <2>8. ASSUME NEW i \in 2 .. delivered
        PROVE  /\ lines[i].client \in DOMAIN accounts
               /\ lines[i] = [kind |-> "row", client |-> lines[i].client,
                              statement |-> Snapshot!Statement(accounts[lines[i].client])]
    <3>1. i \in 2 .. Len(lines)
      BY <2>2
    <3>2. QED
      BY <2>2, <3>1 DEF SnapshotSound, Snapshot!Row
  <2>9. Rows \subseteq { [kind |-> "row", client |-> c,
                          statement |-> Snapshot!Statement(accounts[c])] : c \in DOMAIN accounts }
    BY <2>8
  <2>10. /\ Cardinality(Rows) = Cardinality(2 .. delivered)
         /\ Cardinality(Clients) = delivered - 1
    BY <2>1, <2>2, <2>4, LinesCounted
  <2>11. ASSUME main \in {"Finishing", "Returned"}
         PROVE  delivered = Cardinality(DOMAIN accounts) + 1
    <3>1. \A c \in DOMAIN accounts : \E i \in 2 .. delivered : lines[i].client = c
      BY <2>2, <2>3, <2>11 DEF SnapshotSound
    <3>2. Clients = DOMAIN accounts
      BY <3>1, <2>8
    <3>3. QED
      BY <2>2, <2>10, <3>2
  <2>12. QED
    BY <2>4, <2>6, <2>7, <2>9, <2>10, <2>11 DEF OutputIsSequential
<1>2. QED
  BY <1>1, Invariance, FileStays, PTL

=============================================================================
