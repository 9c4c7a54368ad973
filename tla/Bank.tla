-------------------------------- MODULE Bank --------------------------------
(***************************************************************************)
(* What the service promises to those who hold an end of its channels, and *)
(* nothing of how: no heap, no batches, no place in the code.  Requests    *)
(* are pending in the order in which they were submitted.  One transaction *)
(* at a time leaves, is applied to its account and answered.  A client can *)
(* rely on this of the order: a transaction is not applied before an older *)
(* one that was submitted earlier; and a completion is a barrier both      *)
(* ways, confirmed when nothing submitted earlier is pending, while        *)
(* nothing submitted later has been applied.                               *)
(*                                                                         *)
(* Service.tla implements this module.                                     *)
(***************************************************************************)
EXTENDS AccountOps, Sequences

CONSTANTS
  Transactions,     \* what may be submitted
  Requests          \* completions that may be asked for

VARIABLES
  pending,      \* requests in the order of their submission
  book,         \* the accounts of the clients that were named so far
  answers,      \* what was answered, in that order
  confirmed,    \* the completions that were confirmed
  open,         \* does the bank take and apply requests?
  senders, cancelled, listening, abandoned    \* the callers: see Service.tla

callers == <<senders, cancelled, listening, abandoned>>
bank == <<pending, book, answers, confirmed, open>>

IsTransaction(request) == request.kind = "Incoming"

BankInit ==
  /\ pending = <<>>
  /\ book = [c \in {} |-> NewAccount]
  /\ answers = <<>>
  /\ confirmed = {}
  /\ open = TRUE
  /\ senders = TRUE /\ cancelled = FALSE /\ listening = TRUE /\ abandoned = {}

(* Order in time, and among contemporaries by client and identifier.       *)
Precedes(a, b) ==
  LET key(tx) == <<tx.chrono_order, tx.client_id, tx.message.transaction_id>> IN
  \E n \in 1 .. 3 : /\ key(a)[n] < key(b)[n]
                    /\ \A m \in 1 .. n - 1 : key(a)[m] = key(b)[m]

(* The requests that may be applied next.                                  *)
Ready ==
  {i \in DOMAIN pending :
     /\ IsTransaction(pending[i])
     /\ \A j \in 1 .. i - 1 :
          /\ IsTransaction(pending[j])
          /\ ~ Precedes(pending[j].transaction, pending[i].transaction)}

Submit(request) ==
  /\ open /\ senders
  /\ pending' = Append(pending, request)
  /\ UNCHANGED <<book, answers, confirmed, open, callers>>

AccountBefore(c) == IF c \in DOMAIN book THEN book[c] ELSE NewAccount

Post(tx) ==
  book' = [c \in DOMAIN book \cup {tx.client_id} |->
             IF c = tx.client_id THEN Processed(AccountBefore(c), tx.message) ELSE book[c]]

(* Applied and answered, in one.                                           *)
Apply(i) ==
  LET tx == pending[i].transaction IN
  /\ open /\ listening
  /\ Post(tx)
  /\ answers' = Append(answers,
       [transaction |-> tx, result |-> ProcessResult(AccountBefore(tx.client_id), tx.message)])
  /\ pending' = [j \in 1 .. Len(pending) - 1 |-> pending[IF j < i THEN j ELSE j + 1]]
  /\ UNCHANGED <<confirmed, open, callers>>

Confirm ==
  /\ open
  /\ pending # <<>> /\ ~ IsTransaction(Head(pending))
  /\ Head(pending).completion \notin abandoned
  /\ confirmed' = confirmed \cup {Head(pending).completion}
  /\ pending' = Tail(pending)
  /\ UNCHANGED <<book, answers, open, callers>>

Close ==
  /\ open
  /\ open' = FALSE
  /\ pending' = <<>>
  /\ UNCHANGED <<confirmed, callers>>

(* The bank closes when it is told to, with what is still pending, or when *)
(* the callers are gone and nothing is.                                    *)
CloseOrderly ==
  /\ cancelled \/ (~ senders /\ pending = <<>>)
  /\ Close /\ UNCHANGED <<book, answers>>

(* It also closes at the first answer that nobody takes: to a transaction, *)
(* which has then been applied, or to a completion.                        *)
CloseUnheard ==
  /\ Close
  /\ UNCHANGED answers
  /\ \/ ~ listening /\ \E i \in Ready : Post(pending[i].transaction)
     \/ /\ pending # <<>> /\ ~ IsTransaction(Head(pending))
        /\ Head(pending).completion \in abandoned
        /\ UNCHANGED book

(* The callers: each of these happens once and is not taken back.          *)
Callers ==
  /\ UNCHANGED bank
  /\ (cancelled => cancelled') /\ (senders' => senders) /\ (listening' => listening)
  /\ abandoned \subseteq abandoned'

BankNext ==
  \/ Callers
  \/ \E tx \in Transactions : Submit([kind |-> "Incoming", transaction |-> tx])
  \/ \E k \in Requests : Submit([kind |-> "TransactionBatchCompletion", completion |-> k])
  \/ \E i \in Ready : Apply(i)
  \/ Confirm \/ CloseOrderly \/ CloseUnheard

BankSpec == BankInit /\ [][BankNext]_<<bank, callers>>

=============================================================================
