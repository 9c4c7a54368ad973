------------------------------ MODULE Service ------------------------------
(***************************************************************************)
(* The transaction service (src/service/mod.rs): one task that selects     *)
(* between a cancellation token and an unbounded channel of messages,      *)
(* buffers transactions in a heap, and applies a whole buffer to the       *)
(* per-client accounts when it is full, when a batch completion arrives,   *)
(* and once more before the task returns.                                  *)
(*                                                                         *)
(* Around the task, in any order and at any moment: producers that send    *)
(* transactions and completions and finally drop their senders, a caller   *)
(* that cancels, and receivers of outcomes and of acknowledgements that    *)
(* may be dropped while the task runs (in main.rs, when a task ends early  *)
(* or main returns).                                                       *)
(*                                                                         *)
(* A flush has no await between two messages, yet other threads run        *)
(* between them, so each message of a flush is a step of its own.  Metrics *)
(* and traces are left out.                                                *)
(***************************************************************************)
EXTENDS AccountOps, Sequences, Functions

CONSTANTS
  ClientId,         \* u16 in the code
  Messages,         \* the transactions that producers may send, each at most once
  Completions,      \* the batch completions that producers may send
  BatchSize,        \* config.batch_size
  NoCompletion      \* no completion is being confirmed

PendingTransaction == [chrono_order : Nat, client_id : ClientId, message : InputMessage]

ASSUME MessagesAssumption == Messages \subseteq PendingTransaction
ASSUME BatchSizeAssumption == BatchSize \in Nat
ASSUME NoCompletionAssumption == NoCompletion \notin Completions

VARIABLES
  queue,        \* the channel into the service: a sequence of envelopes
  senders,      \* is a sender of that channel left?
  cancelled,    \* has the token been cancelled?
  listening,    \* does the receiver of outcomes exist?
  abandoned,    \* the completions whose acknowledgement nobody waits for any more
  pc,           \* where the task is
  confirming,   \* the completion that the current flush precedes
  buffer,       \* the heap: its transactions, in the order in which they came
  accounts,     \* a partial function from clients to accounts
  acked,        \* the completions that were acknowledged
  sent,         \* history: the transactions that were put in the channel
  received,     \* history: the transactions taken out of it
  processed,    \* history: what was applied, in that order, and in which flush
  before        \* history: for each completion sent, what had been sent before it

env == <<senders, cancelled, listening, abandoned>>
history == <<sent, received, before>>
vars == <<queue, env, pc, confirming, buffer, accounts, acked, processed, history>>

Incoming(tx) == [kind |-> "Incoming", transaction |-> tx]
BatchCompletion(k) == [kind |-> "TransactionBatchCompletion", completion |-> k]

Running == pc \in {"Select", "Flush", "FinalFlush"}

Init ==
  /\ queue = <<>>
  /\ senders = TRUE
  /\ cancelled = FALSE
  /\ listening = TRUE
  /\ abandoned = {}
  /\ pc = "Select"
  /\ confirming = NoCompletion
  /\ buffer = <<>>
  /\ accounts = [c \in {} |-> NewAccount]
  /\ acked = {}
  /\ sent = {}
  /\ received = {}
  /\ processed = <<>>
  /\ before = [k \in {} |-> {}]

-----------------------------------------------------------------------------
(***************************************************************************)
(* The surroundings of the task.  A send on a channel whose receiver is    *)
(* gone fails and changes nothing.                                         *)
(***************************************************************************)

task == <<pc, confirming, buffer, accounts, acked, received, processed>>

Send(tx) ==
  /\ senders /\ Running
  /\ tx \notin sent
  /\ queue' = Append(queue, Incoming(tx))
  /\ sent' = sent \cup {tx}
  /\ UNCHANGED <<env, task, before>>

SendCompletion(k) ==
  /\ senders /\ Running
  /\ k \notin DOMAIN before
  /\ queue' = Append(queue, BatchCompletion(k))
  /\ before' = [j \in DOMAIN before \cup {k} |-> IF j = k THEN sent ELSE before[j]]
  /\ UNCHANGED <<env, task, sent>>

CloseSenders ==
  /\ senders
  /\ senders' = FALSE
  /\ UNCHANGED <<queue, cancelled, listening, abandoned, task, sent, before>>

Cancel ==
  /\ ~ cancelled
  /\ cancelled' = TRUE
  /\ UNCHANGED <<queue, senders, listening, abandoned, task, sent, before>>

DropOutcomeReceiver ==
  /\ listening
  /\ listening' = FALSE
  /\ UNCHANGED <<queue, senders, cancelled, abandoned, task, sent, before>>

DropAcknowledgement(k) ==
  /\ k \in DOMAIN before \ (acked \cup abandoned)
  /\ abandoned' = abandoned \cup {k}
  /\ UNCHANGED <<queue, senders, cancelled, listening, task, sent, before>>

-----------------------------------------------------------------------------
(***************************************************************************)
(* server_forever: the select loop.  select! is not biased: when both      *)
(* branches are ready either may be taken.                                 *)
(***************************************************************************)

(* The task goes on elsewhere and changes nothing else.                    *)
GoTo(place) ==
  /\ pc' = place
  /\ UNCHANGED <<queue, env, confirming, buffer, accounts, acked, processed, history>>

(* The task ends: its receiver is dropped and with it what is queued, and  *)
(* the heap is dropped with what a failed flush left in it.                *)
Stop(how) ==
  /\ pc' = how
  /\ queue' = <<>>
  /\ buffer' = <<>>
  /\ confirming' = NoCompletion

(* Faulty variants: returning without a last flush; noticing the token     *)
(* only while the heap is empty.                                           *)
TakeCancelledUnflushed ==
  /\ pc = "Select" /\ cancelled
  /\ Stop("Returned")
  /\ UNCHANGED <<env, accounts, acked, processed, history>>

TakeCancelledWhenEmpty == pc = "Select" /\ cancelled /\ buffer = <<>> /\ GoTo("FinalFlush")

TakeCancelled == pc = "Select" /\ cancelled /\ GoTo("FinalFlush")

(* Faulty variant: the end of the channel ends the task at once.           *)
TakeClosedUnflushed ==
  /\ pc = "Select" /\ ~ senders /\ queue = <<>>
  /\ Stop("Returned")
  /\ UNCHANGED <<env, accounts, acked, processed, history>>

(* recv() returns None when the senders are gone and the channel is empty. *)
TakeClosed == pc = "Select" /\ ~ senders /\ queue = <<>> /\ GoTo("FinalFlush")

(* Faulty variant: one more than a batch.                                  *)
FullLate(heap) == Len(heap) > BatchSize

Full(heap) == Len(heap) >= BatchSize

(* The head of the channel is a transaction; heap is the heap with it.     *)
Receive(heap) ==
  /\ pc = "Select"
  /\ queue # <<>> /\ Head(queue).kind = "Incoming"
  /\ queue' = Tail(queue)
  /\ buffer' = heap
  /\ received' = received \cup {Head(queue).transaction}
  /\ pc' = IF Full(heap) THEN "Flush" ELSE "Select"
  /\ UNCHANGED <<env, confirming, accounts, acked, processed, sent, before>>

(* Faulty variant: the transaction replaces what the heap holds.           *)
TakeIncomingOver == Receive(<<Head(queue).transaction>>)

(* A transaction goes in the heap; a full heap is flushed.                 *)
TakeIncoming == Receive(Append(buffer, Head(queue).transaction))

(* A completion is acknowledged after a flush.                             *)
TakeCompletion ==
  /\ pc = "Select"
  /\ queue # <<>> /\ Head(queue).kind = "TransactionBatchCompletion"
  /\ queue' = Tail(queue)
  /\ confirming' = Head(queue).completion
  /\ pc' = "Flush"
  /\ UNCHANGED <<env, buffer, accounts, acked, processed, history>>

-----------------------------------------------------------------------------
(***************************************************************************)
(* handle_buffer.                                                          *)
(***************************************************************************)

(* Faulty variant: the heap without the reversed order, newest first.      *)
Newer(a, b) == a.chrono_order > b.chrono_order

(* Faulty variant: the tie between contemporaries is not broken.           *)
OlderByTime(a, b) == a.chrono_order < b.chrono_order

(* The reversed order of InputMessage: a is popped before b.               *)
Older(a, b) ==
  \/ a.chrono_order < b.chrono_order
  \/ a.chrono_order = b.chrono_order /\ a.client_id < b.client_id
  \/ /\ a.chrono_order = b.chrono_order /\ a.client_id = b.client_id
     /\ a.message.transaction_id < b.message.transaction_id

(* Elements that compare equal come out of a BinaryHeap in any order.      *)
Oldest(heap) == {i \in DOMAIN heap : \A j \in DOMAIN heap : ~ Older(heap[j], heap[i])}

Without(heap, i) == [j \in 1 .. Len(heap) - 1 |-> heap[IF j < i THEN j ELSE j + 1]]

(* Faulty variant: a new account for every transaction.                    *)
FreshAccountOf(c) == NewAccount

AccountOf(c) == IF c \in DOMAIN accounts THEN accounts[c] ELSE NewAccount

(* One turn of the loop: the account, made on first use, takes the         *)
(* transaction, and only then is the outcome sent to the caller.  When     *)
(* nobody listens that send is an error, which ends the task.              *)
ApplyOldest ==
  /\ pc \in {"Flush", "FinalFlush"}
  /\ \E i \in Oldest(buffer) : LET tx == buffer[i] IN
       /\ accounts' = [c \in DOMAIN accounts \cup {tx.client_id} |->
                         IF c = tx.client_id
                         THEN Processed(AccountOf(c), tx.message)
                         ELSE accounts[c]]
       /\ processed' = Append(processed,
            [ transaction |-> tx,
              result      |-> ProcessResult(AccountOf(tx.client_id), tx.message),
              answered    |-> listening,
              seen        |-> received ])
       /\ \/ /\ listening
             /\ buffer' = Without(buffer, i)
             /\ UNCHANGED <<pc, queue, confirming>>
          \/ /\ ~ listening
             /\ Stop("Failed")
  /\ UNCHANGED <<env, acked, history>>

(* The answer to the completion, and back to the loop.                     *)
Confirm ==
  /\ confirming \notin abandoned
  /\ acked' = acked \cup {confirming}
  /\ confirming' = NoCompletion
  /\ pc' = "Select"
  /\ UNCHANGED <<queue, env, buffer, accounts, processed, history>>

(* Faulty variants: the acknowledgement is forgotten, or given before the  *)
(* flush is over, or given after every flush.                              *)
EndFlushUnconfirmed == pc = "Flush" /\ buffer = <<>> /\ GoTo("Select")

AcknowledgeEarly == pc = "Flush" /\ confirming # NoCompletion /\ Confirm

AcknowledgeAlways == pc = "Flush" /\ buffer = <<>> /\ Confirm

(* An empty heap ends the flush: back to the loop, by way of the           *)
(* acknowledgement if there is one to give.                                *)
EndFlush == pc = "Flush" /\ buffer = <<>> /\ confirming = NoCompletion /\ GoTo("Select")

Acknowledge == pc = "Flush" /\ buffer = <<>> /\ confirming # NoCompletion /\ Confirm

AcknowledgeFails ==
  /\ pc = "Flush" /\ buffer = <<>>
  /\ confirming \in abandoned
  /\ Stop("Failed")
  /\ UNCHANGED <<env, accounts, acked, processed, history>>

Return ==
  /\ pc = "FinalFlush" /\ buffer = <<>>
  /\ Stop("Returned")
  /\ UNCHANGED <<env, accounts, acked, processed, history>>

-----------------------------------------------------------------------------
TaskStep ==
  \/ TakeCancelled \/ TakeClosed \/ TakeIncoming \/ TakeCompletion
  \/ ApplyOldest \/ EndFlush \/ Acknowledge \/ AcknowledgeFails \/ Return

EnvironmentStep ==
  \/ \E tx \in Messages : Send(tx)
  \/ \E k \in Completions : SendCompletion(k) \/ DropAcknowledgement(k)
  \/ CloseSenders \/ Cancel \/ DropOutcomeReceiver

Next == TaskStep \/ EnvironmentStep

Spec == Init /\ [][Next]_vars

(* The runtime keeps polling the task while it can make a step; nothing    *)
(* obliges a producer or a caller to do anything.                          *)
FairSpec == Spec /\ WF_vars(TaskStep)

-----------------------------------------------------------------------------
(***************************************************************************)
(* Properties.                                                             *)
(***************************************************************************)

Envelope == {Incoming(tx) : tx \in Messages} \cup {BatchCompletion(k) : k \in Completions}

Application ==
  [transaction : Messages, result : Result, answered : BOOLEAN, seen : SUBSET Messages]

Heaped == {buffer[i] : i \in DOMAIN buffer}

TypeOK ==
  /\ queue \in Seq(Envelope)
  /\ {senders, cancelled, listening} \subseteq BOOLEAN
  /\ pc \in {"Select", "Flush", "FinalFlush", "Returned", "Failed"}
  /\ confirming \in Completions \cup {NoCompletion}
  /\ buffer \in Seq(Messages)
  /\ DOMAIN accounts \subseteq ClientId
  /\ processed \in Seq(Application)
  /\ DOMAIN before \subseteq Completions
  /\ before \in [DOMAIN before -> SUBSET sent]
  /\ acked \cup abandoned \subseteq DOMAIN before
  /\ Heaped \subseteq received /\ received \subseteq sent /\ sent \subseteq Messages

Applied == {processed[i].transaction : i \in 1 .. Len(processed)}

Answered ==
  {processed[i].transaction : i \in {j \in 1 .. Len(processed) : processed[j].answered}}

Queued == {tx \in Messages : \E i \in 1 .. Len(queue) : queue[i] = Incoming(tx)}

(* The identifiers of the transactions of a client that were accepted.     *)
AcceptedFor(c) ==
  { processed[i].transaction.message.transaction_id :
      i \in {j \in 1 .. Len(processed) :
               processed[j].transaction.client_id = c /\ processed[j].result = "Ok"} }

(* Whatever the order in which transactions arrive and flushes run, no     *)
(* account ever fails check_invariants; a client has an account if and     *)
(* only if one of its transactions was applied, accepted or not; and the   *)
(* account knows the identifiers of those that were accepted, no others.   *)
AccountsSound ==
  /\ DOMAIN accounts = {tx.client_id : tx \in Applied}
  /\ \A c \in DOMAIN accounts :
       /\ CheckInvariants(accounts[c])
       /\ DOMAIN accounts[c].transactions = AcceptedFor(c)

(* While the task runs, a transaction that was sent is in one place: the   *)
(* channel, the heap, or the accounts, to which it was applied once.       *)
NothingLostOrRepeated ==
  /\ Cardinality(Applied) = Len(processed)
  /\ Running =>
       /\ sent = Queued \cup Heaped \cup Applied
       /\ Cardinality(sent) = Cardinality(Queued) + Len(buffer) + Len(processed)

(* The heap never outgrows a batch, and in the loop it is short of one:    *)
(* memory is bounded by the batch size (at least one transaction).         *)
HeapBounded ==
  LET limit == IF BatchSize = 0 THEN 1 ELSE BatchSize IN
  /\ Len(buffer) <= limit
  /\ pc = "Select" => Len(buffer) < limit

(* An acknowledged completion is a barrier: all that was sent before it    *)
(* has been applied, and answered, even if it filled no batch.             *)
AcknowledgedIsApplied == \A k \in acked : before[k] \subseteq Answered

(* A transaction is applied before an older one only if the older one had  *)
(* not been received at that time: inversions happen between flushes.      *)
InversionsAreLateArrivals ==
  \A i, j \in 1 .. Len(processed) :
    /\ i < j
    /\ processed[j].transaction.chrono_order < processed[i].transaction.chrono_order
    => processed[j].transaction \notin processed[i].seen

(* When the task returns, by cancellation or because the senders are gone, *)
(* it has applied and answered all that it had received.  When it fails,   *)
(* at most one transaction was applied without an answer, and it fails for *)
(* a receiver that was dropped and for no other reason.                    *)
StopsCleanly ==
  /\ pc = "Returned" => received = Answered
  /\ Cardinality(Applied \ Answered) <= 1
  /\ Applied # Answered => pc = "Failed"
  /\ pc = "Failed" => ~ listening \/ abandoned # {}

(***************************************************************************)
(* The inductive invariant behind the theorems of ServiceProofs.           *)
(***************************************************************************)

(* Every request is in one place only, and in it once.                     *)
PlacesSound ==
  /\ IsInjective(queue) /\ IsInjective(buffer)
  /\ \A i, j \in 1 .. Len(processed) :
       processed[i].transaction = processed[j].transaction => i = j
  /\ Queued \cap received = {}
  /\ Heaped \cap Applied = {} /\ Applied \subseteq received
  /\ Running => sent = Queued \cup received /\ received = Heaped \cup Applied

(* What was sent before a completion is ahead of it in the channel, or has *)
(* left the channel.                                                       *)
BarriersSound ==
  /\ \A i \in 1 .. Len(queue), k \in Completions :
       queue[i] = BatchCompletion(k) =>
         /\ k \in DOMAIN before
         /\ \A tx \in before[k] \ received : \E j \in 1 .. i - 1 : queue[j] = Incoming(tx)
  /\ confirming # NoCompletion =>
       pc = "Flush" /\ confirming \in DOMAIN before /\ before[confirming] \subseteq received

(* No transaction in the heap has been overtaken by a newer one that was   *)
(* applied while it was there.                                             *)
OrderSound ==
  \A i \in 1 .. Len(processed) :
    /\ processed[i].seen \subseteq received
    /\ \A tx \in Heaped :
         tx.chrono_order < processed[i].transaction.chrono_order => tx \notin processed[i].seen

(* Only the last transaction may lack an answer, and only in a task that   *)
(* failed; and why the task is where it is.                                *)
EndsSound ==
  /\ \A i \in 1 .. Len(processed) :
       processed[i].answered \/ (i = Len(processed) /\ pc = "Failed")
  /\ pc = "FinalFlush" => cancelled \/ (~ senders /\ queue = <<>>)
  /\ pc = "Returned" => received = Applied
  /\ pc = "Failed" => ~ listening \/ abandoned # {}
  /\ ~ Running => queue = <<>> /\ buffer = <<>>

IInv ==
  /\ TypeOK
  /\ PlacesSound
  /\ BarriersSound
  /\ OrderSound
  /\ EndsSound
  /\ HeapBounded
  /\ AcknowledgedIsApplied
  /\ InversionsAreLateArrivals
  /\ AccountsSound
  /\ \A c \in DOMAIN accounts : Sound(accounts[c])

(* The service is a bank: what is pending there is what lies in the heap,  *)
(* the completion whose flush is running, and the channel.  Batches, the   *)
(* heap and the selection show in nothing but the order of Bank!Ready.     *)
Pending ==
  [i \in DOMAIN buffer |-> Incoming(buffer[i])]
    \o (IF confirming = NoCompletion THEN <<>> ELSE <<BatchCompletion(confirming)>>)
    \o queue

Answers ==
  LET heard == {i \in 1 .. Len(processed) : processed[i].answered} IN
  [i \in 1 .. Cardinality(heard) |->
     [transaction |-> processed[i].transaction, result |-> processed[i].result]]

Bank ==
  INSTANCE Bank WITH
    Transactions <- Messages,
    Requests     <- Completions,
    pending      <- Pending,
    book         <- accounts,
    answers      <- Answers,
    confirmed    <- acked,
    open         <- Running

ImplementsBank == Bank!BankSpec

(* The comment on server_forever, "Flushes any remaining buffered messages *)
(* before returning", read for every way in which it returns.              *)
FlushedBeforeReturning == pc \in {"Returned", "Failed"} => received = Applied

(* A completion that reached the channel is acknowledged, unless the task  *)
(* ends or the one who waits for the acknowledgement gives up.             *)
CompletionsAreAcknowledged ==
  \A k \in Completions :
    k \in DOMAIN before ~> k \in acked \cup abandoned \/ ~ Running

(* The task ends once it is told to: the token is cancelled, or the last   *)
(* sender is dropped.                                                      *)
StopsWhenTold == cancelled \/ ~ senders ~> ~ Running

(* Without a cancellation or a dropped receiver, dropping the senders has  *)
(* every transaction that was sent applied and answered.                   *)
DrainsWhenClosed ==
  ~ senders ~> sent = Answered \/ cancelled \/ ~ listening \/ abandoned # {}

=============================================================================
