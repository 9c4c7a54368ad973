--------------------------- MODULE ServiceProofs ---------------------------
(***************************************************************************)
(* Proofs about the service, for every set of messages, of clients and of  *)
(* completions, every batch size, and any producers and callers.           *)
(***************************************************************************)
EXTENDS Service, AccountOpsProofs, SequenceTheorems

-----------------------------------------------------------------------------
(***************************************************************************)
(* Sequences: what is in them, after an element was added or taken out.    *)
(***************************************************************************)

(* What Append makes of a sequence.                                        *)
LEMMA Appended ==
  ASSUME NEW S, NEW s \in Seq(S), NEW e \in S
  PROVE  /\ Append(s, e) \in Seq(S)
         /\ Len(Append(s, e)) = Len(s) + 1
         /\ \A i \in 1 .. Len(s) : Append(s, e)[i] = s[i]
         /\ Append(s, e)[Len(s) + 1] = e
BY AppendProperties

(* What Tail makes of a sequence.                                          *)
LEMMA Behead ==
  ASSUME NEW S, NEW s \in Seq(S), s # <<>>
  PROVE  /\ s[1] \in S /\ Head(s) = s[1]
         /\ Len(s) \in Nat \ {0}
         /\ Tail(s) \in Seq(S)
         /\ Len(Tail(s)) = Len(s) - 1
         /\ \A i \in 1 .. Len(s) - 1 : Tail(s)[i] = s[i + 1]
BY HeadTailProperties, EmptySeq

(* What Without makes of a sequence.                                       *)
LEMMA Withdrawn ==
  ASSUME NEW S, NEW s \in Seq(S), NEW n \in DOMAIN s
  PROVE  /\ Without(s, n) \in Seq(S)
         /\ Len(Without(s, n)) = Len(s) - 1
         /\ \A i \in 1 .. Len(s) - 1 :
              Without(s, n)[i] = IF i < n THEN s[i] ELSE s[i + 1]
<1>1. Len(s) \in Nat /\ n \in 1 .. Len(s) /\ DOMAIN s = 1 .. Len(s)
  OBVIOUS
<1>2. \A i \in 1 .. Len(s) - 1 : (IF i < n THEN i ELSE i + 1) \in 1 .. Len(s)
  BY <1>1
<1>3. \A i \in 1 .. Len(s) - 1 : Without(s, n)[i] = s[IF i < n THEN i ELSE i + 1]
  BY DEF Without
<1>4. Without(s, n) \in [1 .. Len(s) - 1 -> S]
  BY <1>1, <1>2 DEF Without
<1>5. Len(s) - 1 \in Nat
  BY <1>1
<1>6. Without(s, n) \in Seq(S) /\ Len(Without(s, n)) = Len(s) - 1
  BY <1>4, <1>5
<1>7. QED
  BY <1>1, <1>3, <1>6

(* An injective sequence stays so without one of its elements, and what    *)
(* was taken out is no longer in it.                                       *)
LEMMA WithoutInjective ==
  ASSUME NEW S, NEW s \in Seq(S), NEW n \in DOMAIN s, IsInjective(s)
  PROVE  /\ IsInjective(Without(s, n))
         /\ {Without(s, n)[i] : i \in DOMAIN Without(s, n)} = {s[i] : i \in DOMAIN s} \ {s[n]}
<1> DEFINE w == Without(s, n)
           at(i) == IF i < n THEN i ELSE i + 1
<1>1. Len(s) \in Nat /\ n \in 1 .. Len(s) /\ DOMAIN s = 1 .. Len(s)
  OBVIOUS
<1>2. DOMAIN w = 1 .. Len(s) - 1 /\ \A i \in 1 .. Len(s) - 1 : w[i] = s[at(i)]
  BY <1>1 DEF Without
<1>3. \A i \in 1 .. Len(s) - 1 : at(i) \in 1 .. Len(s) /\ at(i) # n
  BY <1>1
<1>4. \A i, j \in 1 .. Len(s) - 1 : at(i) = at(j) => i = j
  BY <1>1
<1>5. \A i \in 1 .. Len(s) : i # n => \E j \in 1 .. Len(s) - 1 : at(j) = i
  <2>1. SUFFICES ASSUME NEW i \in 1 .. Len(s), i # n
                 PROVE  \E j \in 1 .. Len(s) - 1 : at(j) = i
    OBVIOUS
  <2>2. CASE i < n
    BY <1>1, <2>2
  <2>3. CASE i > n
    <3>1. i - 1 \in 1 .. Len(s) - 1 /\ at(i - 1) = i
      BY <1>1, <2>3
    <3>2. QED
      BY <3>1
  <2>4. QED
    BY <1>1, <2>1, <2>2, <2>3
<1>6. \A i, j \in 1 .. Len(s) : s[i] = s[j] => i = j
  BY <1>1 DEF IsInjective
<1> HIDE DEF w, at
<1>7. IsInjective(w)
  BY <1>2, <1>3, <1>4, <1>6 DEF IsInjective
<1>8. {w[i] : i \in DOMAIN w} = {s[i] : i \in DOMAIN s} \ {s[n]}
  <2>1. ASSUME NEW i \in 1 .. Len(s) - 1
        PROVE  w[i] \in {s[j] : j \in DOMAIN s} \ {s[n]}
    <3>1. w[i] = s[at(i)] /\ at(i) \in 1 .. Len(s) /\ at(i) # n
      BY <1>2, <1>3
    <3>2. s[at(i)] # s[n]
      BY <1>1, <1>6, <3>1
    <3>3. QED
      BY <1>1, <3>1, <3>2
  <2>2. ASSUME NEW i \in 1 .. Len(s), s[i] # s[n]
        PROVE  \E j \in DOMAIN w : s[i] = w[j]
    <3>1. PICK j \in 1 .. Len(s) - 1 : at(j) = i
      BY <1>5, <2>2
    <3>2. QED
      BY <1>2, <3>1
  <2>3. QED
    BY <1>1, <1>2, <2>1, <2>2
<1>9. QED
  BY <1>7, <1>8 DEF w

(* An injective sequence has as many elements as places.                   *)
LEMMA InjectiveSize ==
  ASSUME NEW S, NEW s \in Seq(S), IsInjective(s)
  PROVE  /\ IsFiniteSet({s[i] : i \in DOMAIN s})
         /\ Cardinality({s[i] : i \in DOMAIN s}) = Len(s)
<1> DEFINE T == {s[i] : i \in DOMAIN s}
<1>1. Len(s) \in Nat /\ DOMAIN s = 1 .. Len(s) /\ s \in [1 .. Len(s) -> T]
  OBVIOUS
<1>2. s \in Bijection(1 .. Len(s), T)
  BY <1>1 DEF Bijection, Injection, Surjection, IsInjective
<1>3. ExistsBijection(1 .. Len(s), T)
  BY <1>2 DEF ExistsBijection
<1>4. IsFiniteSet(T)
  BY <1>1, <1>3, FS_NatBijection
<1>5. QED
  BY <1>1, <1>3, <1>4, FS_CountingElements

-----------------------------------------------------------------------------
(***************************************************************************)
(* What the steps do to the places in which a transaction may be.          *)
(***************************************************************************)

(* An envelope says what is in it.                                         *)
LEMMA Envelopes ==
  ASSUME NEW e \in Envelope
  PROVE  /\ e.kind = "Incoming" => e.transaction \in Messages /\ e = Incoming(e.transaction)
         /\ e.kind = "TransactionBatchCompletion" =>
              e.completion \in Completions /\ e = BatchCompletion(e.completion)
         /\ \A tx, k : Incoming(tx) # BatchCompletion(k)
         /\ \A tx1, tx2 : Incoming(tx1) = Incoming(tx2) => tx1 = tx2
         /\ \A k1, k2 : BatchCompletion(k1) = BatchCompletion(k2) => k1 = k2
BY DEF Envelope, Incoming, BatchCompletion

(* A request is added to the channel.                                      *)
LEMMA Enqueued ==
  ASSUME queue \in Seq(Envelope), NEW e \in Envelope, queue' = Append(queue, e)
  PROVE  /\ queue' \in Seq(Envelope)
         /\ Len(queue') = Len(queue) + 1
         /\ \A i \in 1 .. Len(queue) : queue'[i] = queue[i]
         /\ queue'[Len(queue) + 1] = e
         /\ Queued' = Queued \cup {tx \in Messages : Incoming(tx) = e}
<1>1. /\ queue' \in Seq(Envelope)
      /\ Len(queue) \in Nat
      /\ Len(queue') = Len(queue) + 1
      /\ \A i \in 1 .. Len(queue) : queue'[i] = queue[i]
      /\ queue'[Len(queue) + 1] = e
  BY Appended
<1>2. ASSUME NEW tx \in Messages
      PROVE  (\E i \in 1 .. Len(queue') : queue'[i] = Incoming(tx))
               <=> (\E i \in 1 .. Len(queue) : queue[i] = Incoming(tx)) \/ Incoming(tx) = e
  BY <1>1
<1>3. QED
  BY <1>1, <1>2 DEF Queued

(* A request leaves the channel.                                           *)
LEMMA Dequeued ==
  ASSUME queue \in Seq(Envelope), queue # <<>>, IsInjective(queue), queue' = Tail(queue)
  PROVE  /\ queue[1] \in Envelope /\ Head(queue) = queue[1]
         /\ Len(queue) \in Nat \ {0}
         /\ queue' \in Seq(Envelope)
         /\ Len(queue') = Len(queue) - 1
         /\ \A i \in 1 .. Len(queue) - 1 : queue'[i] = queue[i + 1]
         /\ IsInjective(queue')
         /\ Queued' = Queued \ {tx \in Messages : Incoming(tx) = queue[1]}
<1>1. /\ queue[1] \in Envelope /\ Head(queue) = queue[1]
      /\ Len(queue) \in Nat \ {0}
      /\ queue' \in Seq(Envelope)
      /\ Len(queue') = Len(queue) - 1
      /\ \A i \in 1 .. Len(queue) - 1 : queue'[i] = queue[i + 1]
  BY Behead
<1>2. /\ DOMAIN queue = 1 .. Len(queue) /\ DOMAIN queue' = 1 .. Len(queue) - 1
      /\ \A i, j \in 1 .. Len(queue) : queue[i] = queue[j] => i = j
  BY <1>1 DEF IsInjective
<1>3. IsInjective(queue')
  <2>1. SUFFICES ASSUME NEW i \in 1 .. Len(queue) - 1, NEW j \in 1 .. Len(queue) - 1,
                        queue'[i] = queue'[j]
                 PROVE  i = j
    BY <1>2 DEF IsInjective
  <2>2. queue[i + 1] = queue[j + 1] /\ i + 1 \in 1 .. Len(queue) /\ j + 1 \in 1 .. Len(queue)
    BY <1>1, <2>1
  <2>3. QED
    BY <1>2, <2>2
<1>4. ASSUME NEW tx \in Messages
      PROVE  (\E i \in 1 .. Len(queue') : queue'[i] = Incoming(tx))
               <=> (\E i \in 1 .. Len(queue) : queue[i] = Incoming(tx)) /\ Incoming(tx) # queue[1]
  <2>1. ASSUME NEW i \in 1 .. Len(queue'), queue'[i] = Incoming(tx)
        PROVE  (\E j \in 1 .. Len(queue) : queue[j] = Incoming(tx)) /\ Incoming(tx) # queue[1]
    <3>1. i + 1 \in 1 .. Len(queue) /\ i + 1 # 1 /\ 1 \in 1 .. Len(queue)
      BY <1>1
    <3>2. queue[i + 1] = Incoming(tx)
      BY <1>1, <2>1
    <3>3. QED
      BY <1>2, <3>1, <3>2
  <2>2. ASSUME NEW i \in 1 .. Len(queue), queue[i] = Incoming(tx), Incoming(tx) # queue[1]
        PROVE  \E j \in 1 .. Len(queue') : queue'[j] = Incoming(tx)
    <3>1. i - 1 \in 1 .. Len(queue') /\ i - 1 \in 1 .. Len(queue) - 1 /\ (i - 1) + 1 = i
      BY <1>1, <2>2
    <3>2. queue'[i - 1] = queue[i]
      BY <1>1, <3>1
    <3>3. QED
      BY <2>2, <3>1, <3>2
  <2>3. QED
    BY <2>1, <2>2
<1>5. QED
  BY <1>1, <1>3, <1>4 DEF Queued

(* A transaction comes out of the channel.                                 *)
LEMMA Received ==
  ASSUME TypeOK, PlacesSound, TakeIncoming
  PROVE  \E tx \in Messages :
           /\ pc = "Select" /\ queue # <<>> /\ queue' = Tail(queue)
           /\ queue[1] = Incoming(tx)
           /\ tx \in sent /\ tx \notin received
           /\ buffer' = Append(buffer, tx)
           /\ buffer' \in Seq(Messages)
           /\ Len(buffer') = Len(buffer) + 1
           /\ Heaped' = Heaped \cup {tx}
           /\ received' = received \cup {tx}
           /\ Queued' = Queued \ {tx}
           /\ pc' = IF Len(buffer') >= BatchSize THEN "Flush" ELSE "Select"
<1> DEFINE tx == Head(queue).transaction
<1>1. /\ pc = "Select" /\ queue # <<>> /\ queue' = Tail(queue)
      /\ Head(queue).kind = "Incoming"
      /\ buffer' = Append(buffer, tx)
      /\ received' = received \cup {tx}
      /\ pc' = IF Len(buffer') >= BatchSize THEN "Flush" ELSE "Select"
  BY DEF TakeIncoming, Receive, Full
<1>2. queue \in Seq(Envelope) /\ buffer \in Seq(Messages) /\ IsInjective(queue)
  BY DEF TypeOK, PlacesSound
<1>3. /\ Head(queue) = queue[1] /\ queue[1] \in Envelope /\ 1 \in 1 .. Len(queue)
      /\ Queued' = Queued \ {t \in Messages : Incoming(t) = queue[1]}
  BY <1>1, <1>2, Dequeued
<1>4. tx \in Messages /\ queue[1] = Incoming(tx)
  BY <1>1, <1>3, Envelopes
<1>5. {t \in Messages : Incoming(t) = queue[1]} = {tx}
  BY <1>3, <1>4, Envelopes
<1>6. tx \in Queued
  BY <1>3, <1>4 DEF Queued
<1>7. tx \in sent /\ tx \notin received
  BY <1>1, <1>6 DEF PlacesSound, Running
<1> HIDE DEF tx
<1>8. /\ buffer' \in Seq(Messages)
      /\ Len(buffer) \in Nat
      /\ Len(buffer') = Len(buffer) + 1
      /\ \A i \in 1 .. Len(buffer) : buffer'[i] = buffer[i]
      /\ buffer'[Len(buffer) + 1] = tx
      /\ DOMAIN buffer = 1 .. Len(buffer)
      /\ DOMAIN buffer' = 1 .. Len(buffer) + 1
  BY <1>1, <1>2, <1>4, Appended
<1>9. Heaped' = Heaped \cup {tx}
  BY <1>8 DEF Heaped
<1>10. QED
  BY <1>1, <1>3, <1>4, <1>5, <1>7, <1>8, <1>9

(* A transaction is added to what was applied.                             *)
LEMMA Extended ==
  ASSUME processed \in Seq(Application), NEW app \in Application,
         processed' = Append(processed, app)
  PROVE  /\ processed' \in Seq(Application)
         /\ Len(processed) \in Nat
         /\ Len(processed') = Len(processed) + 1
         /\ \A i \in 1 .. Len(processed) : processed'[i] = processed[i]
         /\ processed'[Len(processed) + 1] = app
         /\ Applied' = Applied \cup {app.transaction}
<1>1. /\ processed' \in Seq(Application)
      /\ Len(processed) \in Nat
      /\ Len(processed') = Len(processed) + 1
      /\ \A i \in 1 .. Len(processed) : processed'[i] = processed[i]
      /\ processed'[Len(processed) + 1] = app
  BY Appended
<1>2. Applied' = Applied \cup {app.transaction}
  <2>1. ASSUME NEW i \in 1 .. Len(processed')
        PROVE  processed'[i].transaction \in Applied \cup {app.transaction}
    BY <1>1 DEF Applied
  <2>2. ASSUME NEW i \in 1 .. Len(processed)
        PROVE  processed[i].transaction \in Applied'
    BY <1>1 DEF Applied
  <2>3. app.transaction \in Applied'
    BY <1>1 DEF Applied
  <2>4. QED
    BY <2>1, <2>2, <2>3 DEF Applied
<1>3. QED
  BY <1>1, <1>2

(* The account that takes a transaction is sound.                          *)
LEMMA AccountOfSound ==
  ASSUME \A c \in DOMAIN accounts : Sound(accounts[c]), NEW c
  PROVE  Sound(AccountOf(c))
BY NewAccountSound DEF AccountOf

(* The message of a transaction that may be sent.                          *)
LEMMA MessageType ==
  ASSUME NEW tx \in Messages
  PROVE  tx.chrono_order \in Nat /\ tx.client_id \in ClientId /\ tx.message \in InputMessage
BY MessagesAssumption DEF PendingTransaction

(* A transaction goes from the heap to its account.                        *)
LEMMA AppliedOne ==
  ASSUME TypeOK, PlacesSound, \A c \in DOMAIN accounts : Sound(accounts[c]), ApplyOldest
  PROVE  \E n \in DOMAIN buffer, app \in Application :
           LET tx == buffer[n] IN
           /\ n \in Oldest(buffer)
           /\ app = [ transaction |-> tx,
                      result      |-> ProcessResult(AccountOf(tx.client_id), tx.message),
                      answered    |-> listening,
                      seen        |-> received ]
           /\ accounts' = [c \in DOMAIN accounts \cup {tx.client_id} |->
                             IF c = tx.client_id
                             THEN Processed(AccountOf(c), tx.message) ELSE accounts[c]]
           /\ processed' = Append(processed, app)
           /\ tx \in Messages /\ tx \in Heaped /\ tx \notin Applied
           /\ \/ /\ listening /\ buffer' = Without(buffer, n)
                 /\ UNCHANGED <<pc, queue, confirming>>
              \/ /\ ~ listening /\ Stop("Failed")
           /\ buffer' \in Seq(Messages) /\ IsInjective(buffer')
           /\ Len(buffer') <= Len(buffer)
           /\ Heaped' = IF listening THEN Heaped \ {tx} ELSE {}
<1>1. PICK n \in Oldest(buffer) : LET tx == buffer[n] IN
        /\ accounts' = [c \in DOMAIN accounts \cup {tx.client_id} |->
                          IF c = tx.client_id
                          THEN Processed(AccountOf(c), tx.message) ELSE accounts[c]]
        /\ processed' = Append(processed,
             [ transaction |-> tx,
               result      |-> ProcessResult(AccountOf(tx.client_id), tx.message),
               answered    |-> listening,
               seen        |-> received ])
        /\ \/ /\ listening /\ buffer' = Without(buffer, n)
              /\ UNCHANGED <<pc, queue, confirming>>
           \/ /\ ~ listening /\ Stop("Failed")
  BY Zenon DEF ApplyOldest
<1> DEFINE tx == buffer[n]
           app == [ transaction |-> tx,
                    result      |-> ProcessResult(AccountOf(tx.client_id), tx.message),
                    answered    |-> listening,
                    seen        |-> received ]
<1>2. /\ n \in DOMAIN buffer /\ buffer \in Seq(Messages) /\ IsInjective(buffer)
      /\ tx \in Messages /\ tx \in Heaped
  BY DEF Oldest, TypeOK, PlacesSound, Heaped
<1>3. tx \notin Applied
  BY <1>2 DEF PlacesSound
<1>4. app \in Application
  <2>1. ProcessResult(AccountOf(tx.client_id), tx.message) \in Result
    BY <1>2, AccountOfSound, MessageType, ResultType
  <2>2. listening \in BOOLEAN /\ received \in SUBSET Messages
    BY DEF TypeOK
  <2>3. QED
    BY <1>2, <2>1, <2>2 DEF Application
<1>5. CASE listening
  <2>1. buffer' = Without(buffer, n) /\ UNCHANGED <<pc, queue, confirming>>
    BY <1>1, <1>5
  <2>2. /\ buffer' \in Seq(Messages)
        /\ Len(buffer) \in Nat
        /\ Len(buffer') = Len(buffer) - 1
        /\ IsInjective(buffer')
        /\ Heaped' = Heaped \ {tx}
    <3>1. /\ Without(buffer, n) \in Seq(Messages)
          /\ Len(buffer) \in Nat
          /\ Len(Without(buffer, n)) = Len(buffer) - 1
      BY <1>2, Withdrawn
    <3>2. /\ IsInjective(Without(buffer, n))
          /\ {Without(buffer, n)[i] : i \in DOMAIN Without(buffer, n)} = Heaped \ {tx}
      BY <1>2, WithoutInjective DEF Heaped
    <3>3. QED
      BY <2>1, <3>1, <3>2 DEF Heaped
  <2>3. Len(buffer') <= Len(buffer)
    BY <2>2
  <2> HIDE DEF app
  <2>4. QED
    BY <1>1, <1>2, <1>3, <1>4, <1>5, <2>1, <2>2, <2>3 DEF app
<1>6. CASE ~ listening
  <2>1. Stop("Failed")
    BY <1>1, <1>6
  <2>2. /\ buffer' \in Seq(Messages)
        /\ IsInjective(buffer')
        /\ Len(buffer') <= Len(buffer)
        /\ Heaped' = {}
    BY <1>2, <2>1 DEF Stop, Heaped, IsInjective
  <2>3. QED
    BY <1>1, <1>2, <1>3, <1>4, <1>6, <2>1, <2>2
<1>7. QED
  BY <1>5, <1>6

-----------------------------------------------------------------------------
(***************************************************************************)
(* Each part of the invariant, after a step.                               *)
(***************************************************************************)

(* What a producer, a caller or a receiver may do to the task: send it a   *)
(* transaction, or a completion, or nothing but be gone.                   *)
LEMMA Surroundings ==
  ASSUME EnvironmentStep
  PROVE  \/ \E tx \in Messages : Send(tx)
         \/ \E k \in Completions : SendCompletion(k)
         \/ /\ UNCHANGED <<queue, task, sent, before>>
            /\ cancelled => cancelled'
            /\ senders' => senders
            /\ listening' => listening
            /\ abandoned \subseteq abandoned'
            /\ abandoned' \subseteq abandoned \cup DOMAIN before
<1>1. CASE \E k \in Completions : DropAcknowledgement(k)
  BY <1>1 DEF DropAcknowledgement
<1>2. CASE CloseSenders \/ Cancel \/ DropOutcomeReceiver
  BY <1>2 DEF CloseSenders, Cancel, DropOutcomeReceiver
<1>3. QED
  BY <1>1, <1>2 DEF EnvironmentStep

LEMMA TypeStep ==
  ASSUME IInv, Next
  PROVE  TypeOK'
<1> USE DEF IInv
<1>1. ASSUME NEW tx \in Messages, Send(tx) PROVE TypeOK'
  <2>1. Incoming(tx) \in Envelope /\ queue' = Append(queue, Incoming(tx))
    BY <1>1 DEF Envelope, Send
  <2>2. queue' \in Seq(Envelope)
    BY <2>1, Enqueued DEF TypeOK
  <2>3. UNCHANGED <<env, task, before>> /\ sent' = sent \cup {tx}
    BY <1>1 DEF Send
  <2>4. UNCHANGED Heaped
    BY <2>3 DEF Heaped, task
  <2>5. QED
    BY <2>2, <2>3, <2>4 DEF TypeOK, env, task
<1>2. ASSUME NEW k \in Completions, SendCompletion(k) PROVE TypeOK'
  <2>1. BatchCompletion(k) \in Envelope /\ queue' = Append(queue, BatchCompletion(k))
    BY <1>2 DEF Envelope, SendCompletion
  <2>2. queue' \in Seq(Envelope)
    BY <2>1, Enqueued DEF TypeOK
  <2>3. /\ UNCHANGED <<env, task, sent>>
        /\ before' = [j \in DOMAIN before \cup {k} |-> IF j = k THEN sent ELSE before[j]]
    BY <1>2 DEF SendCompletion
  <2>4. UNCHANGED Heaped
    BY <2>3 DEF Heaped, task
  <2>5. /\ DOMAIN before' = DOMAIN before \cup {k}
        /\ before' \in [DOMAIN before' -> SUBSET sent']
    BY <2>3 DEF TypeOK
  <2>6. QED
    BY <2>2, <2>3, <2>4, <2>5 DEF TypeOK, env, task
<1>3. ASSUME EnvironmentStep, UNCHANGED <<queue, task, sent, before>> PROVE TypeOK'
  <2>1. /\ abandoned' \subseteq abandoned \cup DOMAIN before
        /\ {senders', cancelled', listening'} \subseteq BOOLEAN
    BY <1>3 DEF TypeOK, EnvironmentStep, Send, SendCompletion, CloseSenders, Cancel,
                DropOutcomeReceiver, DropAcknowledgement, env
  <2>2. UNCHANGED Heaped
    BY <1>3 DEF Heaped, task
  <2>3. QED
    BY <1>3, <2>1, <2>2 DEF TypeOK, task
<1>4. CASE TakeIncoming
  <2>1. PICK tx \in Messages :
          /\ queue # <<>> /\ queue' = Tail(queue)
          /\ tx \in sent
          /\ buffer' \in Seq(Messages)
          /\ Heaped' = Heaped \cup {tx}
          /\ received' = received \cup {tx}
          /\ pc' = IF Len(buffer') >= BatchSize THEN "Flush" ELSE "Select"
    BY <1>4, Received
  <2>2. queue' \in Seq(Envelope)
    BY <2>1, Behead DEF TypeOK
  <2>3. UNCHANGED <<env, confirming, accounts, acked, processed, sent, before>>
    BY <1>4 DEF TakeIncoming, Receive
  <2>4. QED
    BY <2>1, <2>2, <2>3 DEF TypeOK, env
<1>5. CASE TakeCompletion
  <2>1. queue' \in Seq(Envelope) /\ Head(queue) \in Envelope
    BY <1>5, Behead DEF TypeOK, TakeCompletion
  <2>2. confirming' \in Completions
    BY <1>5, <2>1, Envelopes DEF TakeCompletion
  <2>3. UNCHANGED Heaped
    BY <1>5 DEF Heaped, TakeCompletion
  <2>4. QED
    BY <1>5, <2>1, <2>2, <2>3 DEF TypeOK, TakeCompletion, env, history
<1>6. CASE ApplyOldest
  <2>1. PICK n \in DOMAIN buffer, app \in Application :
          /\ accounts' = [c \in DOMAIN accounts \cup {buffer[n].client_id} |->
                            IF c = buffer[n].client_id
                            THEN Processed(AccountOf(c), buffer[n].message) ELSE accounts[c]]
          /\ processed' = Append(processed, app)
          /\ buffer[n] \in Messages
          /\ UNCHANGED <<pc, queue, confirming>> \/ Stop("Failed")
          /\ buffer' \in Seq(Messages)
          /\ Heaped' \subseteq Heaped
    BY <1>6, AppliedOne
  <2>2. processed' \in Seq(Application)
    BY <2>1, Extended DEF TypeOK
  <2>3. DOMAIN accounts' \subseteq ClientId
    BY <2>1, MessageType DEF TypeOK
  <2>4. /\ queue' \in Seq(Envelope)
        /\ confirming' \in Completions \cup {NoCompletion}
        /\ pc' \in {"Select", "Flush", "FinalFlush", "Returned", "Failed"}
    BY <2>1 DEF TypeOK, Stop
  <2>5. UNCHANGED <<env, acked, history>>
    BY <1>6 DEF ApplyOldest
  <2>6. QED
    BY <2>1, <2>2, <2>3, <2>4, <2>5 DEF TypeOK, env, history
<1>7. ASSUME NEW place \in {"Select", "FinalFlush"}, GoTo(place) PROVE TypeOK'
  <2>1. UNCHANGED Heaped
    BY <1>7 DEF Heaped, GoTo
  <2>2. QED
    BY <1>7, <2>1 DEF TypeOK, GoTo, env, history
<1>8. CASE Acknowledge
  <2>1. UNCHANGED Heaped
    BY <1>8 DEF Heaped, Acknowledge, Confirm
  <2>2. confirming \in DOMAIN before
    BY <1>8 DEF BarriersSound, Acknowledge
  <2>3. QED
    BY <1>8, <2>1, <2>2 DEF TypeOK, Acknowledge, Confirm, env, history
<1>9. ASSUME NEW how \in {"Returned", "Failed"}, Stop(how),
             UNCHANGED <<env, accounts, acked, processed, history>>
      PROVE  TypeOK'
  <2>1. Heaped' = {} /\ queue' \in Seq(Envelope) /\ buffer' \in Seq(Messages)
    BY <1>9 DEF Heaped, Stop
  <2>2. QED
    BY <1>9, <2>1 DEF TypeOK, Stop, env, history
<1>10. CASE TaskStep
  BY <1>4, <1>5, <1>6, <1>7, <1>8, <1>9, <1>10
     DEF TaskStep, TakeCancelled, TakeClosed, EndFlush, AcknowledgeFails, Return
<1>11. CASE EnvironmentStep
  BY <1>1, <1>2, <1>3, <1>11, Surroundings
<1>12. QED
  BY <1>10, <1>11 DEF Next

(* A request that is not in the channel can be added once.                 *)
LEMMA EnqueuedInjective ==
  ASSUME queue \in Seq(Envelope), IsInjective(queue),
         NEW e \in Envelope, \A i \in 1 .. Len(queue) : queue[i] # e,
         queue' = Append(queue, e)
  PROVE  IsInjective(queue')
<1>1. /\ Len(queue) \in Nat /\ DOMAIN queue = 1 .. Len(queue)
      /\ DOMAIN queue' = 1 .. Len(queue) + 1
      /\ \A i \in 1 .. Len(queue) : queue'[i] = queue[i]
      /\ queue'[Len(queue) + 1] = e
  BY Enqueued
<1>2. QED
  BY <1>1 DEF IsInjective

LEMMA PlacesStep ==
  ASSUME IInv, Next
  PROVE  PlacesSound'
<1> USE DEF IInv
<1>1. ASSUME NEW tx \in Messages, Send(tx) PROVE PlacesSound'
  <2>1. /\ Incoming(tx) \in Envelope /\ queue' = Append(queue, Incoming(tx))
        /\ Running /\ tx \notin sent /\ sent' = sent \cup {tx}
        /\ UNCHANGED <<buffer, received, processed, pc>>
    BY <1>1 DEF Envelope, Send, task
  <2>2. tx \notin Queued /\ tx \notin received
    BY <2>1 DEF PlacesSound
  <2>3. \A i \in 1 .. Len(queue) : queue[i] # Incoming(tx)
    BY <2>2 DEF Queued
  <2>4. IsInjective(queue')
    BY <2>1, <2>3, EnqueuedInjective DEF TypeOK, PlacesSound
  <2>5. Queued' = Queued \cup {tx}
    BY <2>1, Enqueued, Envelopes DEF TypeOK
  <2>6. UNCHANGED <<Heaped, Applied, Running>>
    BY <2>1 DEF Heaped, Applied, Running
  <2>7. QED
    BY <2>1, <2>2, <2>4, <2>5, <2>6 DEF PlacesSound
<1>2. ASSUME NEW k \in Completions, SendCompletion(k) PROVE PlacesSound'
  <2>1. /\ BatchCompletion(k) \in Envelope /\ queue' = Append(queue, BatchCompletion(k))
        /\ k \notin DOMAIN before
        /\ UNCHANGED <<buffer, received, processed, pc, sent>>
    BY <1>2 DEF Envelope, SendCompletion, task
  <2>2. \A i \in 1 .. Len(queue) : queue[i] # BatchCompletion(k)
    BY <2>1 DEF BarriersSound
  <2>3. IsInjective(queue')
    BY <2>1, <2>2, EnqueuedInjective DEF TypeOK, PlacesSound
  <2>4. Queued' = Queued
    <3>1. Queued' = Queued \cup {tx \in Messages : Incoming(tx) = BatchCompletion(k)}
      BY <2>1, Enqueued DEF TypeOK
    <3>2. \A tx \in Messages : Incoming(tx) # BatchCompletion(k)
      BY <2>1, Envelopes
    <3>3. QED
      BY <3>1, <3>2
  <2>5. UNCHANGED <<Heaped, Applied, Running>>
    BY <2>1 DEF Heaped, Applied, Running
  <2>6. QED
    BY <2>1, <2>3, <2>4, <2>5 DEF PlacesSound
<1>3. ASSUME UNCHANGED <<queue, buffer, processed, received, sent>>, Running' => Running
      PROVE  PlacesSound'
  <2>1. UNCHANGED <<Queued, Heaped, Applied>>
    BY <1>3 DEF Queued, Heaped, Applied
  <2>2. QED
    BY <1>3, <2>1 DEF PlacesSound
<1>4. CASE TakeIncoming
  <2>1. PICK tx \in Messages :
          /\ pc = "Select" /\ queue # <<>> /\ queue' = Tail(queue)
          /\ tx \notin received /\ tx \in sent
          /\ buffer' = Append(buffer, tx)
          /\ Heaped' = Heaped \cup {tx}
          /\ received' = received \cup {tx}
          /\ Queued' = Queued \ {tx}
          /\ pc' = IF Len(buffer') >= BatchSize THEN "Flush" ELSE "Select"
    BY <1>4, Received
  <2>2. UNCHANGED <<processed, sent>>
    BY <1>4 DEF TakeIncoming, Receive
  <2>3. IsInjective(queue')
    BY <2>1, Dequeued DEF TypeOK, PlacesSound
  <2>4. IsInjective(buffer')
    <3>1. \A i \in 1 .. Len(buffer) : buffer[i] # tx
      BY <2>1 DEF TypeOK, Heaped
    <3>2. /\ Len(buffer) \in Nat /\ DOMAIN buffer = 1 .. Len(buffer)
          /\ DOMAIN buffer' = 1 .. Len(buffer) + 1
          /\ \A i \in 1 .. Len(buffer) : buffer'[i] = buffer[i]
          /\ buffer'[Len(buffer) + 1] = tx
      BY <2>1, Appended DEF TypeOK
    <3>3. QED
      BY <3>1, <3>2 DEF PlacesSound, IsInjective
  <2>5. UNCHANGED Applied /\ Running /\ Running'
    BY <2>1, <2>2 DEF Applied, Running
  <2>6. QED
    BY <2>1, <2>2, <2>3, <2>4, <2>5 DEF PlacesSound
<1>5. CASE TakeCompletion
  <2>1. /\ queue # <<>> /\ queue' = Tail(queue) /\ pc = "Select" /\ pc' = "Flush"
        /\ Head(queue).kind = "TransactionBatchCompletion"
        /\ UNCHANGED <<buffer, processed, received, sent>>
    BY <1>5 DEF TakeCompletion, history
  <2>2. /\ queue[1] \in Envelope /\ queue[1] = Head(queue)
        /\ IsInjective(queue')
        /\ Queued' = Queued \ {tx \in Messages : Incoming(tx) = queue[1]}
    BY <2>1, Dequeued DEF TypeOK, PlacesSound
  <2>3. Queued' = Queued
    BY <2>1, <2>2, Envelopes
  <2>4. UNCHANGED <<Heaped, Applied>> /\ Running
    BY <2>1 DEF Heaped, Applied, Running
  <2>5. QED
    BY <2>1, <2>2, <2>3, <2>4 DEF PlacesSound
<1>6. CASE ApplyOldest
  <2>1. PICK n \in DOMAIN buffer, app \in Application :
          /\ app.transaction = buffer[n]
          /\ processed' = Append(processed, app)
          /\ buffer[n] \in Heaped /\ buffer[n] \notin Applied
          /\ \/ listening /\ UNCHANGED <<pc, queue>>
             \/ ~ listening /\ Stop("Failed")
          /\ IsInjective(buffer')
          /\ Heaped' = IF listening THEN Heaped \ {buffer[n]} ELSE {}
    BY <1>6, AppliedOne
  <2>2. UNCHANGED <<received, sent>>
    BY <1>6 DEF ApplyOldest, history
  <2>3. /\ Applied' = Applied \cup {buffer[n]}
        /\ Len(processed) \in Nat
        /\ Len(processed') = Len(processed) + 1
        /\ \A i \in 1 .. Len(processed) : processed'[i] = processed[i]
        /\ processed'[Len(processed) + 1] = app
    BY <2>1, Extended DEF TypeOK
  <2>4. \A i, j \in 1 .. Len(processed') :
          processed'[i].transaction = processed'[j].transaction => i = j
    <3>1. \A i \in 1 .. Len(processed) : processed[i].transaction # app.transaction
      BY <2>1 DEF Applied
    <3>2. QED
      BY <2>3, <3>1 DEF PlacesSound
  <2>5. buffer[n] \in received
    BY <2>1 DEF TypeOK
  <2>6. IsInjective(queue') /\ Queued' \in {Queued, {}}
    BY <2>1 DEF Queued, Stop, PlacesSound, IsInjective
  <2>7. Running' => listening /\ Running /\ Queued' = Queued
    BY <2>1 DEF Running, Stop, Queued
  <2>8. Heaped' \cap Applied' = {} /\ Applied' \subseteq received
    BY <2>1, <2>3, <2>5 DEF PlacesSound
  <2>9. Running' => received = Heaped' \cup Applied'
    BY <2>1, <2>3, <2>5, <2>7 DEF PlacesSound
  <2>10. QED
    BY <2>1, <2>2, <2>4, <2>6, <2>7, <2>8, <2>9 DEF PlacesSound
<1>7. ASSUME NEW how \in {"Returned", "Failed"}, Stop(how),
             UNCHANGED <<processed, received, sent>>
      PROVE  PlacesSound'
  <2>1. /\ Heaped' = {} /\ Queued' = {} /\ UNCHANGED Applied /\ ~ Running'
        /\ IsInjective(queue') /\ IsInjective(buffer')
    BY <1>7 DEF Heaped, Queued, Applied, Stop, Running, IsInjective
  <2>2. QED
    BY <1>7, <2>1 DEF PlacesSound
<1>8. CASE Acknowledge \/ TakeCancelled \/ TakeClosed \/ EndFlush
  <2>1. UNCHANGED <<queue, buffer, processed, received, sent>> /\ Running
    BY <1>8 DEF Acknowledge, Confirm, TakeCancelled, TakeClosed, EndFlush, GoTo, history, Running
  <2>2. QED
    BY <1>3, <2>1
<1>9. CASE AcknowledgeFails \/ Return
  BY <1>7, <1>9 DEF AcknowledgeFails, Return, history
<1>10. CASE TaskStep
  BY <1>4, <1>5, <1>6, <1>8, <1>9, <1>10 DEF TaskStep
<1>11. CASE EnvironmentStep
  <2>1. CASE UNCHANGED <<queue, task, sent, before>>
    BY <1>3, <2>1 DEF task, Running
  <2>2. QED
    BY <1>1, <1>2, <1>11, <2>1, Surroundings
<1>12. QED
  BY <1>10, <1>11 DEF Next

LEMMA BarriersStep ==
  ASSUME IInv, Next
  PROVE  BarriersSound'
<1> USE DEF IInv
<1>1. ASSUME NEW tx \in Messages, Send(tx) PROVE BarriersSound'
  <2>1. /\ Incoming(tx) \in Envelope /\ queue' = Append(queue, Incoming(tx))
        /\ UNCHANGED <<confirming, received, before, pc>>
    BY <1>1 DEF Envelope, Send, task
  <2>2. /\ Len(queue) \in Nat /\ Len(queue') = Len(queue) + 1
        /\ \A i \in 1 .. Len(queue) : queue'[i] = queue[i]
        /\ queue'[Len(queue) + 1] = Incoming(tx)
    BY <2>1, Enqueued DEF TypeOK
  <2>3. \A k : Incoming(tx) # BatchCompletion(k)
    BY <2>1, Envelopes
  <2>4. QED
    BY <2>1, <2>2, <2>3 DEF BarriersSound
<1>2. ASSUME NEW k \in Completions, SendCompletion(k) PROVE BarriersSound'
  <2>1. /\ BatchCompletion(k) \in Envelope /\ queue' = Append(queue, BatchCompletion(k))
        /\ k \notin DOMAIN before /\ Running
        /\ before' = [j \in DOMAIN before \cup {k} |-> IF j = k THEN sent ELSE before[j]]
        /\ UNCHANGED <<confirming, received, pc>>
    BY <1>2 DEF Envelope, SendCompletion, task
  <2>2. /\ Len(queue) \in Nat /\ Len(queue') = Len(queue) + 1
        /\ \A i \in 1 .. Len(queue) : queue'[i] = queue[i]
        /\ queue'[Len(queue) + 1] = BatchCompletion(k)
    BY <2>1, Enqueued DEF TypeOK
  <2>3. ASSUME NEW j \in Completions, NEW i \in 1 .. Len(queue), queue[i] = BatchCompletion(j)
        PROVE  j \in DOMAIN before' /\ before'[j] = before[j]
    BY <2>1, <2>3 DEF BarriersSound
  <2>4. \A tx \in sent \ received : \E j \in 1 .. Len(queue) : queue[j] = Incoming(tx)
    BY <2>1 DEF PlacesSound, Queued
  <2>5. \A j \in Completions : BatchCompletion(k) = BatchCompletion(j) => j = k
    BY <2>1, Envelopes
  <2>6. ASSUME NEW i \in 1 .. Len(queue'), NEW j \in Completions,
               queue'[i] = BatchCompletion(j)
        PROVE  /\ j \in DOMAIN before'
               /\ \A tx \in before'[j] \ received' :
                    \E m \in 1 .. i - 1 : queue'[m] = Incoming(tx)
    <3>1. CASE i \in 1 .. Len(queue)
      <4>1. queue[i] = BatchCompletion(j)
        BY <2>2, <2>6, <3>1
      <4>2. \A tx \in before[j] \ received : \E m \in 1 .. i - 1 : queue[m] = Incoming(tx)
        BY <3>1, <4>1 DEF BarriersSound
      <4>3. \A m \in 1 .. i - 1 : queue'[m] = queue[m]
        BY <2>2, <3>1
      <4>4. j \in DOMAIN before' /\ before'[j] = before[j]
        BY <2>3, <3>1, <4>1
      <4>5. ASSUME NEW tx \in before'[j] \ received'
            PROVE  \E m \in 1 .. i - 1 : queue'[m] = Incoming(tx)
        <5>1. PICK m \in 1 .. i - 1 : queue[m] = Incoming(tx)
          BY <2>1, <4>2, <4>4
        <5>2. QED
          BY <4>3, <5>1
      <4>6. QED
        BY <4>4, <4>5
    <3>2. CASE i = Len(queue) + 1
      <4>1. j = k /\ before'[j] = sent
        BY <2>1, <2>2, <2>5, <2>6, <3>2
      <4>2. \A m \in 1 .. i - 1 : queue'[m] = queue[m]
        BY <2>2, <3>2
      <4>3. i - 1 = Len(queue)
        BY <2>2, <3>2
      <4>4. QED
        BY <2>1, <2>4, <4>1, <4>2, <4>3
    <3>3. QED
      BY <2>2, <3>1, <3>2
  <2>7. confirming' # NoCompletion =>
          pc' = "Flush" /\ confirming' \in DOMAIN before' /\ before'[confirming'] \subseteq received'
    BY <2>1 DEF BarriersSound
  <2>8. QED
    BY <2>6, <2>7 DEF BarriersSound
<1>3. ASSUME UNCHANGED <<queue, received, before>>,
             UNCHANGED <<pc, confirming>> \/ confirming' = NoCompletion
      PROVE  BarriersSound'
  BY <1>3 DEF BarriersSound
<1>4. ASSUME queue # <<>>, queue' = Tail(queue), UNCHANGED before,
             received \subseteq received',
             \A tx : Incoming(tx) = queue[1] => tx \in received'
      PROVE  \A i \in 1 .. Len(queue'), k \in Completions :
               queue'[i] = BatchCompletion(k) =>
                 /\ k \in DOMAIN before'
                 /\ \A tx \in before'[k] \ received' :
                      \E j \in 1 .. i - 1 : queue'[j] = Incoming(tx)
  <2>1. /\ Len(queue) \in Nat \ {0} /\ Len(queue') = Len(queue) - 1
        /\ \A i \in 1 .. Len(queue) - 1 : queue'[i] = queue[i + 1]
    BY <1>4, Behead DEF TypeOK
  <2>2. ASSUME NEW i \in 1 .. Len(queue'), NEW k \in Completions,
               queue'[i] = BatchCompletion(k)
        PROVE  /\ k \in DOMAIN before
               /\ \A tx \in before[k] \ received' :
                    \E j \in 1 .. i - 1 : queue'[j] = Incoming(tx)
    <3>1. i + 1 \in 1 .. Len(queue) /\ queue[i + 1] = BatchCompletion(k) /\ (i + 1) - 1 = i
      BY <2>1, <2>2
    <3>2. /\ k \in DOMAIN before
          /\ \A tx \in before[k] \ received : \E j \in 1 .. i : queue[j] = Incoming(tx)
      BY <3>1 DEF BarriersSound
    <3>3. ASSUME NEW tx \in before[k] \ received'
          PROVE  \E j \in 1 .. i - 1 : queue'[j] = Incoming(tx)
      <4>1. PICK j \in 1 .. i : queue[j] = Incoming(tx)
        BY <1>4, <3>2
      <4>2. j # 1
        BY <1>4, <4>1
      <4>3. j - 1 \in 1 .. i - 1 /\ j - 1 \in 1 .. Len(queue) - 1 /\ (j - 1) + 1 = j
        BY <2>1, <4>2
      <4>4. queue'[j - 1] = Incoming(tx)
        BY <2>1, <4>1, <4>3
      <4>5. QED
        BY <4>3, <4>4
    <3>4. QED
      BY <3>2, <3>3
  <2>3. QED
    BY <1>4, <2>2
<1>5. CASE TakeIncoming
  <2>1. PICK tx \in Messages :
          /\ pc = "Select" /\ queue # <<>> /\ queue' = Tail(queue)
          /\ queue[1] = Incoming(tx)
          /\ received' = received \cup {tx}
    BY <1>5, Received
  <2>2. UNCHANGED <<confirming, before>> /\ confirming = NoCompletion
    BY <1>5, <2>1 DEF TakeIncoming, Receive, BarriersSound
  <2>3. \A t : Incoming(t) = queue[1] => t = tx
    BY <2>1 DEF Incoming
  <2>4. QED
    BY <1>4, <2>1, <2>2, <2>3 DEF BarriersSound
<1>6. CASE TakeCompletion
  <2>1. /\ queue # <<>> /\ queue' = Tail(queue) /\ pc' = "Flush"
        /\ Head(queue).kind = "TransactionBatchCompletion"
        /\ confirming' = Head(queue).completion
        /\ UNCHANGED <<received, before>>
    BY <1>6 DEF TakeCompletion, history
  <2>2. queue[1] \in Envelope /\ queue[1] = Head(queue) /\ 1 \in 1 .. Len(queue)
    BY <2>1, Behead DEF TypeOK
  <2>3. confirming' \in Completions /\ queue[1] = BatchCompletion(confirming')
    BY <2>1, <2>2, Envelopes
  <2>4. \A tx : Incoming(tx) # queue[1]
    BY <2>2, <2>3, Envelopes
  <2>5. confirming' \in DOMAIN before /\ before[confirming'] \subseteq received
    <3>1. 1 .. 1 - 1 = {}
      OBVIOUS
    <3>2. QED
      BY <2>2, <2>3, <3>1 DEF BarriersSound
  <2>6. QED
    BY <1>4, <2>1, <2>4, <2>5 DEF BarriersSound
<1>7. ASSUME NEW how, Stop(how), UNCHANGED <<received, before>>
      PROVE  BarriersSound'
  BY <1>7 DEF Stop, BarriersSound
<1>8. CASE ApplyOldest
  <2>1. UNCHANGED <<pc, queue, confirming>> \/ Stop("Failed")
    BY <1>8, AppliedOne
  <2>2. UNCHANGED <<received, before>>
    BY <1>8 DEF ApplyOldest, history
  <2>3. QED
    BY <1>3, <1>7, <2>1, <2>2
<1>9. CASE Acknowledge \/ TakeCancelled \/ TakeClosed \/ EndFlush
  <2>1. UNCHANGED <<queue, received, before>> /\ confirming' = NoCompletion
    BY <1>9 DEF Acknowledge, Confirm, TakeCancelled, TakeClosed, EndFlush, GoTo, history,
                BarriersSound
  <2>2. QED
    BY <1>3, <2>1
<1>10. CASE AcknowledgeFails \/ Return
  BY <1>7, <1>10 DEF AcknowledgeFails, Return, history
<1>11. CASE TaskStep
  BY <1>5, <1>6, <1>8, <1>9, <1>10, <1>11 DEF TaskStep
<1>12. CASE EnvironmentStep
  <2>1. CASE UNCHANGED <<queue, task, sent, before>>
    BY <1>3, <2>1 DEF task
  <2>2. QED
    BY <1>1, <1>2, <1>12, <2>1, Surroundings
<1>13. QED
  BY <1>11, <1>12 DEF Next

LEMMA EndsStep ==
  ASSUME IInv, Next
  PROVE  EndsSound'
<1> USE DEF IInv
<1>1. ASSUME senders, Running, UNCHANGED <<env, task>> PROVE EndsSound'
  BY <1>1 DEF EndsSound, env, task, Running, TypeOK
<1>2. ASSUME UNCHANGED <<queue, task, sent, before>>,
             cancelled => cancelled', senders' => senders,
             listening' => listening, abandoned \subseteq abandoned'
      PROVE  EndsSound'
  BY <1>2 DEF EndsSound, task, Running, Applied
<1>3. ASSUME Running, Running', UNCHANGED processed,
             pc' = "FinalFlush" => cancelled' \/ (~ senders' /\ queue' = <<>>)
      PROVE  EndsSound'
  BY <1>3 DEF EndsSound, Running
<1>4. CASE TakeIncoming \/ TakeCompletion \/ Acknowledge \/ TakeCancelled \/ TakeClosed \/ EndFlush
  <2>1. Running /\ Running' /\ UNCHANGED processed
    BY <1>4 DEF TakeIncoming, Receive, TakeCompletion, Acknowledge, Confirm, TakeCancelled,
                TakeClosed, EndFlush, GoTo, Running
  <2>2. pc' = "FinalFlush" => cancelled' \/ (~ senders' /\ queue' = <<>>)
    BY <1>4 DEF TakeIncoming, Receive, TakeCompletion, Acknowledge, Confirm, TakeCancelled,
                TakeClosed, EndFlush, GoTo, env
  <2>3. QED
    BY <1>3, <2>1, <2>2
<1>5. CASE ApplyOldest
  <2>1. PICK app \in Application :
          /\ app.answered = listening
          /\ processed' = Append(processed, app)
          /\ \/ listening /\ UNCHANGED <<pc, queue>>
             \/ ~ listening /\ Stop("Failed")
    BY <1>5, AppliedOne
  <2>2. /\ Len(processed) \in Nat
        /\ Len(processed') = Len(processed) + 1
        /\ \A i \in 1 .. Len(processed) : processed'[i] = processed[i]
        /\ processed'[Len(processed) + 1] = app
    BY <2>1, Extended DEF TypeOK
  <2>3. pc \in {"Flush", "FinalFlush"} /\ UNCHANGED <<env, history>>
    BY <1>5 DEF ApplyOldest
  <2>4. \A i \in 1 .. Len(processed) : processed[i].answered
    BY <2>3 DEF EndsSound
  <2>5. \A i \in 1 .. Len(processed') :
          processed'[i].answered \/ (i = Len(processed') /\ pc' = "Failed")
    BY <2>1, <2>2, <2>4 DEF Stop
  <2>6. QED
    BY <2>1, <2>3, <2>5 DEF EndsSound, Stop, Running, env
<1>6. CASE AcknowledgeFails
  <2>1. /\ pc = "Flush" /\ confirming \in abandoned /\ Stop("Failed")
        /\ UNCHANGED <<env, processed>>
    BY <1>6 DEF AcknowledgeFails
  <2>2. QED
    BY <2>1 DEF EndsSound, Stop, Running, env
<1>7. CASE Return
  <2>1. /\ pc = "FinalFlush" /\ buffer = <<>> /\ Stop("Returned")
        /\ UNCHANGED <<env, processed, received>>
    BY <1>7 DEF Return, history
  <2>2. Heaped = {}
    BY <2>1 DEF Heaped
  <2>3. received = Applied /\ Applied' = Applied
    BY <2>1, <2>2 DEF PlacesSound, Running, Applied
  <2>4. QED
    BY <2>1, <2>3 DEF EndsSound, Stop, Running
<1>8. CASE TaskStep
  BY <1>4, <1>5, <1>6, <1>7, <1>8 DEF TaskStep
<1>9. CASE EnvironmentStep
  <2>1. ASSUME NEW tx \in Messages, Send(tx) PROVE EndsSound'
    BY <1>1, <2>1 DEF Send
  <2>2. ASSUME NEW k \in Completions, SendCompletion(k) PROVE EndsSound'
    BY <1>1, <2>2 DEF SendCompletion
  <2>3. QED
    BY <1>2, <1>9, <2>1, <2>2, Surroundings
<1>10. QED
  BY <1>8, <1>9 DEF Next

LEMMA OrderStep ==
  ASSUME IInv, Next
  PROVE  OrderSound' /\ InversionsAreLateArrivals'
<1> USE DEF IInv
<1>1. ASSUME UNCHANGED processed, received \subseteq received', Heaped' \subseteq Heaped
      PROVE  OrderSound' /\ InversionsAreLateArrivals'
  BY <1>1 DEF OrderSound, InversionsAreLateArrivals
<1>2. CASE TakeIncoming
  <2>1. PICK tx \in Messages :
          /\ tx \notin received
          /\ Heaped' = Heaped \cup {tx}
          /\ received' = received \cup {tx}
    BY <1>2, Received
  <2>2. UNCHANGED processed
    BY <1>2 DEF TakeIncoming, Receive
  <2>3. OrderSound'
    BY <2>1, <2>2 DEF OrderSound
  <2>4. QED
    BY <2>2, <2>3 DEF InversionsAreLateArrivals
<1>3. CASE ApplyOldest
  <2>1. PICK n \in DOMAIN buffer, app \in Application :
          /\ n \in Oldest(buffer)
          /\ app.transaction = buffer[n] /\ app.seen = received
          /\ processed' = Append(processed, app)
          /\ buffer[n] \in Messages /\ buffer[n] \in Heaped
          /\ Heaped' \subseteq Heaped
    BY <1>3, AppliedOne
  <2>2. UNCHANGED received
    BY <1>3 DEF ApplyOldest, history
  <2>3. /\ Len(processed) \in Nat
        /\ Len(processed') = Len(processed) + 1
        /\ \A i \in 1 .. Len(processed) : processed'[i] = processed[i]
        /\ processed'[Len(processed) + 1] = app
    BY <2>1, Extended DEF TypeOK
  <2>4. \A tx \in Heaped : ~ (tx.chrono_order < buffer[n].chrono_order)
    BY <2>1 DEF Oldest, Older, Heaped
  <2>5. OrderSound'
    <3>1. ASSUME NEW i \in 1 .. Len(processed')
          PROVE  /\ processed'[i].seen \subseteq received'
                 /\ \A tx \in Heaped' :
                      tx.chrono_order < processed'[i].transaction.chrono_order
                        => tx \notin processed'[i].seen
      <4>1. CASE i \in 1 .. Len(processed)
        BY <2>1, <2>2, <2>3, <4>1 DEF OrderSound
      <4>2. CASE i = Len(processed) + 1
        BY <2>1, <2>2, <2>3, <2>4, <4>2
      <4>3. QED
        BY <2>3, <4>1, <4>2
    <3>2. QED
      BY <3>1 DEF OrderSound
  <2>6. InversionsAreLateArrivals'
    <3>1. ASSUME NEW i \in 1 .. Len(processed'), NEW j \in 1 .. Len(processed'), i < j,
                 processed'[j].transaction.chrono_order < processed'[i].transaction.chrono_order
          PROVE  processed'[j].transaction \notin processed'[i].seen
      <4>1. i \in 1 .. Len(processed) /\ processed'[i] = processed[i]
        BY <2>3, <3>1
      <4>2. CASE j \in 1 .. Len(processed)
        BY <2>3, <3>1, <4>1, <4>2 DEF InversionsAreLateArrivals
      <4>3. CASE j = Len(processed) + 1
        <5>1. processed'[j].transaction = buffer[n]
          BY <2>1, <2>3, <4>3
        <5>2. QED
          BY <2>1, <3>1, <4>1, <5>1 DEF OrderSound
      <4>4. QED
        BY <2>3, <4>2, <4>3
    <3>2. QED
      BY <3>1 DEF InversionsAreLateArrivals
  <2>7. QED
    BY <2>5, <2>6
<1>4. CASE TakeCompletion \/ Acknowledge \/ AcknowledgeFails \/ Return
             \/ TakeCancelled \/ TakeClosed \/ EndFlush
  <2>1. UNCHANGED <<processed, received>> /\ (UNCHANGED buffer \/ buffer' = <<>>)
    BY <1>4 DEF TakeCompletion, Acknowledge, Confirm, AcknowledgeFails, Return, Stop,
                TakeCancelled, TakeClosed, EndFlush, GoTo, history
  <2>2. Heaped' \subseteq Heaped
    BY <2>1 DEF Heaped
  <2>3. QED
    BY <1>1, <2>1, <2>2
<1>5. CASE TaskStep
  BY <1>2, <1>3, <1>4, <1>5 DEF TaskStep
<1>6. CASE EnvironmentStep
  <2>1. UNCHANGED <<processed, received, buffer>>
    BY <1>6, Surroundings DEF Send, SendCompletion, task
  <2>2. Heaped' = Heaped
    BY <2>1 DEF Heaped
  <2>3. QED
    BY <1>1, <2>1, <2>2
<1>7. QED
  BY <1>5, <1>6 DEF Next

LEMMA HeapStep ==
  ASSUME IInv, Next
  PROVE  HeapBounded'
<1> DEFINE limit == IF BatchSize = 0 THEN 1 ELSE BatchSize
<1>1. /\ limit \in Nat /\ limit > 0 /\ BatchSize <= limit
      /\ Len(buffer) \in Nat
      /\ Len(buffer) <= limit
      /\ pc = "Select" => Len(buffer) < limit
  BY BatchSizeAssumption DEF IInv, TypeOK, HeapBounded
<1>2. SUFFICES Len(buffer') <= limit /\ (pc' = "Select" => Len(buffer') < limit)
  BY DEF HeapBounded
<1>3. CASE TakeIncoming
  <2>1. /\ pc = "Select"
        /\ Len(buffer') = Len(buffer) + 1
        /\ pc' = IF Len(buffer') >= BatchSize THEN "Flush" ELSE "Select"
    BY <1>3, Received DEF IInv
  <2>2. QED
    BY <1>1, <2>1, BatchSizeAssumption
<1>4. CASE ApplyOldest
  <2>1. Len(buffer') <= Len(buffer) /\ buffer' \in Seq(Messages) /\ pc' # "Select"
    BY <1>4, AppliedOne DEF IInv, ApplyOldest, Stop
  <2>2. Len(buffer') \in Nat
    BY <2>1
  <2>3. QED
    BY <1>1, <2>1, <2>2
<1>5. CASE TakeCompletion \/ Acknowledge \/ AcknowledgeFails \/ Return
             \/ TakeCancelled \/ TakeClosed \/ EndFlush
  <2>1. \/ UNCHANGED buffer /\ pc' # "Select"
        \/ buffer' = <<>>
    BY <1>5 DEF TakeCompletion, Acknowledge, Confirm, AcknowledgeFails, Return, Stop,
                TakeCancelled, TakeClosed, EndFlush, GoTo
  <2>2. QED
    BY <1>1, <2>1
<1>6. CASE TaskStep
  BY <1>3, <1>4, <1>5, <1>6 DEF TaskStep
<1>7. CASE EnvironmentStep
  <2>1. UNCHANGED <<buffer, pc>>
    BY <1>7, Surroundings DEF Send, SendCompletion, task
  <2>2. QED
    BY <1>1, <2>1
<1>8. QED
  BY <1>6, <1>7 DEF Next

(* While the task runs, or has returned, what was applied was answered.    *)
LEMMA AppliedIsAnswered ==
  ASSUME TypeOK, EndsSound, pc # "Failed"
  PROVE  Answered = Applied
BY DEF EndsSound, Answered, Applied

(* An answer is not taken back.                                            *)
LEMMA AnsweredGrows ==
  ASSUME TypeOK, NEW app \in Application,
         UNCHANGED processed \/ processed' = Append(processed, app)
  PROVE  Answered \subseteq Answered'
<1>1. CASE UNCHANGED processed
  BY <1>1 DEF Answered
<1>2. CASE processed' = Append(processed, app)
  <2>1. /\ Len(processed) \in Nat
        /\ Len(processed') = Len(processed) + 1
        /\ \A i \in 1 .. Len(processed) : processed'[i] = processed[i]
    BY <1>2, Extended DEF TypeOK
  <2>2. \A i \in 1 .. Len(processed) : i \in 1 .. Len(processed')
    BY <2>1
  <2>3. QED
    BY <2>1, <2>2 DEF Answered
<1>3. QED
  BY <1>1, <1>2

LEMMA AcknowledgedStep ==
  ASSUME IInv, Next
  PROVE  AcknowledgedIsApplied'
<1> USE DEF IInv
<1>1. ASSUME Answered \subseteq Answered', UNCHANGED <<acked, before>>
      PROVE  AcknowledgedIsApplied'
  BY <1>1 DEF AcknowledgedIsApplied
<1>2. CASE Acknowledge
  <2>1. /\ pc = "Flush" /\ buffer = <<>> /\ confirming # NoCompletion
        /\ acked' = acked \cup {confirming}
        /\ UNCHANGED <<before, processed, received>>
    BY <1>2 DEF Acknowledge, Confirm, history
  <2>2. before[confirming] \subseteq received
    BY <2>1 DEF BarriersSound
  <2>3. received = Applied
    <3>1. Heaped = {}
      BY <2>1 DEF Heaped
    <3>2. QED
      BY <2>1, <3>1 DEF PlacesSound, Running
  <2>4. Applied = Answered /\ Answered' = Answered
    BY <2>1, AppliedIsAnswered DEF Answered
  <2>5. QED
    BY <2>1, <2>2, <2>3, <2>4 DEF AcknowledgedIsApplied
<1>3. CASE ApplyOldest
  <2>1. Answered \subseteq Answered'
    BY <1>3, AppliedOne, AnsweredGrows
  <2>2. QED
    BY <1>1, <1>3, <2>1 DEF ApplyOldest, history
<1>4. CASE TakeIncoming \/ TakeCompletion \/ AcknowledgeFails \/ Return
             \/ TakeCancelled \/ TakeClosed \/ EndFlush
  <2>1. UNCHANGED <<processed, acked, before>>
    BY <1>4 DEF TakeIncoming, Receive, TakeCompletion, AcknowledgeFails, Return, Stop,
                TakeCancelled, TakeClosed, EndFlush, GoTo, history
  <2>2. QED
    BY <1>1, <2>1 DEF Answered
<1>5. CASE TaskStep
  BY <1>2, <1>3, <1>4, <1>5 DEF TaskStep
<1>6. CASE EnvironmentStep
  <2>1. UNCHANGED <<processed, acked>> /\ \A k \in DOMAIN before : before'[k] = before[k]
    BY <1>6, Surroundings DEF Send, SendCompletion, task
  <2>2. acked \subseteq DOMAIN before /\ Answered' = Answered
    BY <2>1 DEF TypeOK, Answered
  <2>3. QED
    BY <2>1, <2>2 DEF AcknowledgedIsApplied
<1>7. QED
  BY <1>5, <1>6 DEF Next

(* The identifiers that were accepted, with one transaction more.          *)
LEMMA AcceptedOneMore ==
  ASSUME TypeOK, NEW app \in Application, processed' = Append(processed, app), NEW c
  PROVE  AcceptedFor(c)' =
           AcceptedFor(c) \cup {id \in {app.transaction.message.transaction_id} :
                                app.transaction.client_id = c /\ app.result = "Ok"}
<1> DEFINE Counts(a) == a.transaction.client_id = c /\ a.result = "Ok"
           Id(a) == a.transaction.message.transaction_id
<1>1. /\ Len(processed) \in Nat
      /\ Len(processed') = Len(processed) + 1
      /\ \A i \in 1 .. Len(processed) : processed'[i] = processed[i]
      /\ processed'[Len(processed) + 1] = app
  BY Extended DEF TypeOK
<1>2. /\ AcceptedFor(c) = {Id(processed[i]) : i \in {j \in 1 .. Len(processed) : Counts(processed[j])}}
      /\ AcceptedFor(c)' =
           {Id(processed'[i]) : i \in {j \in 1 .. Len(processed') : Counts(processed'[j])}}
  BY DEF AcceptedFor
<1> HIDE DEF Counts, Id
<1>3. AcceptedFor(c)' = AcceptedFor(c) \cup {id \in {Id(app)} : Counts(app)}
  <2>1. ASSUME NEW i \in 1 .. Len(processed'), Counts(processed'[i])
        PROVE  Id(processed'[i]) \in AcceptedFor(c) \cup {id \in {Id(app)} : Counts(app)}
    <3>1. CASE i \in 1 .. Len(processed)
      BY <1>1, <1>2, <2>1, <3>1
    <3>2. CASE i = Len(processed) + 1
      BY <1>1, <2>1, <3>2
    <3>3. QED
      BY <1>1, <3>1, <3>2
  <2>2. ASSUME NEW i \in 1 .. Len(processed), Counts(processed[i])
        PROVE  Id(processed[i]) \in AcceptedFor(c)'
    <3>1. i \in 1 .. Len(processed') /\ processed'[i] = processed[i]
      BY <1>1
    <3>2. QED
      BY <1>2, <2>2, <3>1
  <2>3. ASSUME Counts(app) PROVE Id(app) \in AcceptedFor(c)'
    <3>1. Len(processed) + 1 \in 1 .. Len(processed')
      BY <1>1
    <3>2. QED
      BY <1>1, <1>2, <2>3, <3>1
  <2>4. ASSUME NEW x \in AcceptedFor(c)'
        PROVE  x \in AcceptedFor(c) \cup {id \in {Id(app)} : Counts(app)}
    <3>1. PICK i \in 1 .. Len(processed') : Counts(processed'[i]) /\ x = Id(processed'[i])
      BY <1>2, <2>4
    <3>2. QED
      BY <2>1, <3>1
  <2>5. ASSUME NEW x \in AcceptedFor(c) PROVE x \in AcceptedFor(c)'
    <3>1. PICK i \in 1 .. Len(processed) : Counts(processed[i]) /\ x = Id(processed[i])
      BY <1>2, <2>5
    <3>2. QED
      BY <2>2, <3>1
  <2>6. \A x \in {id \in {Id(app)} : Counts(app)} : x \in AcceptedFor(c)'
    BY <2>3
  <2>7. QED
    BY <2>4, <2>5, <2>6
<1>4. QED
  BY <1>3 DEF Counts, Id

LEMMA AccountsStep ==
  ASSUME IInv, Next
  PROVE  AccountsSound' /\ \A c \in DOMAIN accounts' : Sound(accounts'[c])
<1> USE DEF IInv
<1>1. ASSUME UNCHANGED <<accounts, processed>>
      PROVE  AccountsSound' /\ \A c \in DOMAIN accounts' : Sound(accounts'[c])
  BY <1>1 DEF AccountsSound, Applied, AcceptedFor
<1>2. CASE ApplyOldest
  <2>1. PICK n \in DOMAIN buffer, app \in Application :
          /\ app.transaction = buffer[n]
          /\ app.result = ProcessResult(AccountOf(buffer[n].client_id), buffer[n].message)
          /\ accounts' = [c \in DOMAIN accounts \cup {buffer[n].client_id} |->
                            IF c = buffer[n].client_id
                            THEN Processed(AccountOf(c), buffer[n].message) ELSE accounts[c]]
          /\ processed' = Append(processed, app)
          /\ buffer[n] \in Messages
    BY <1>2, AppliedOne
  <2>2. PICK client \in ClientId, msg \in InputMessage,
             old \in {AccountOf(buffer[n].client_id)} :
          /\ client = buffer[n].client_id /\ msg = buffer[n].message
          /\ old = AccountOf(client) /\ Sound(old)
    BY <2>1, MessageType, AccountOfSound
  <2>3. DOMAIN accounts' = DOMAIN accounts \cup {client}
    BY <2>1, <2>2
  <2>4. accounts'[client] = Processed(old, msg)
    BY <2>1, <2>2
  <2>5. \A c \in DOMAIN accounts : c # client => accounts'[c] = accounts[c]
    BY <2>1, <2>2
  <2>6. /\ app.transaction.client_id = client /\ app.transaction.message = msg
        /\ app.result = ProcessResult(old, msg)
    BY <2>1, <2>2
  <2>7. Sound(accounts'[client])
    BY <2>2, <2>4, ProcessedSound
  <2>8. \A c \in DOMAIN accounts' : Sound(accounts'[c])
    BY <2>3, <2>5, <2>7
  <2>9. Applied' = Applied \cup {app.transaction}
    BY <2>1, Extended DEF TypeOK
  <2>10. DOMAIN accounts' = {tx.client_id : tx \in Applied'}
    BY <2>3, <2>6, <2>9 DEF AccountsSound
  <2>11. DOMAIN old.transactions = AcceptedFor(client)
    <3>1. CASE client \in DOMAIN accounts
      BY <2>2, <3>1 DEF AccountOf, AccountsSound
    <3>2. CASE client \notin DOMAIN accounts
      <4>1. \A i \in 1 .. Len(processed) : processed[i].transaction.client_id # client
        BY <3>2 DEF AccountsSound, Applied
      <4>2. AcceptedFor(client) = {}
        BY <4>1 DEF AcceptedFor
      <4>3. DOMAIN old.transactions = {}
        BY <2>2, <3>2 DEF AccountOf, NewAccount
      <4>4. QED
        BY <4>2, <4>3
    <3>3. QED
      BY <3>1, <3>2
  <2>12. DOMAIN accounts'[client].transactions = AcceptedFor(client)'
    <3>1. AcceptedFor(client)' =
            AcceptedFor(client) \cup {id \in {app.transaction.message.transaction_id} :
                                     app.transaction.client_id = client /\ app.result = "Ok"}
      BY <2>1, AcceptedOneMore
    <3>2. CASE app.result = "Ok"
      <4>1. ProcessResult(old, msg) = "Ok"
        BY <2>6, <3>2
      <4>2. DOMAIN Processed(old, msg).transactions = DOMAIN old.transactions \cup {msg.transaction_id}
        BY <2>2, <4>1, AcceptedMap
      <4>3. AcceptedFor(client)' = AcceptedFor(client) \cup {msg.transaction_id}
        BY <2>6, <3>1, <3>2
      <4>4. QED
        BY <2>4, <2>11, <4>2, <4>3
    <3>3. CASE app.result # "Ok"
      <4>1. Processed(old, msg) = old
        BY <2>6, <3>3 DEF Processed
      <4>2. QED
        BY <2>4, <2>11, <3>1, <3>3, <4>1
    <3>4. QED
      BY <3>2, <3>3
  <2>13. ASSUME NEW c \in DOMAIN accounts, c # client
         PROVE  DOMAIN accounts'[c].transactions = AcceptedFor(c)'
    <3>1. AcceptedFor(c)' =
            AcceptedFor(c) \cup {id \in {app.transaction.message.transaction_id} :
                                app.transaction.client_id = c /\ app.result = "Ok"}
      BY <2>1, AcceptedOneMore
    <3>2. AcceptedFor(c)' = AcceptedFor(c)
      BY <2>6, <2>13, <3>1
    <3>3. QED
      BY <2>5, <2>13, <3>2 DEF AccountsSound
  <2>14. \A c \in DOMAIN accounts' : CheckInvariants(accounts'[c])
    BY <2>8, SoundImpliesAssertions
  <2>15. \A c \in DOMAIN accounts' : DOMAIN accounts'[c].transactions = AcceptedFor(c)'
    BY <2>3, <2>12, <2>13
  <2>16. QED
    BY <2>8, <2>10, <2>14, <2>15 DEF AccountsSound
<1>3. CASE TakeIncoming \/ TakeCompletion \/ Acknowledge \/ AcknowledgeFails \/ Return
             \/ TakeCancelled \/ TakeClosed \/ EndFlush
  <2>1. UNCHANGED <<accounts, processed>>
    BY <1>3 DEF TakeIncoming, Receive, TakeCompletion, Acknowledge, Confirm, AcknowledgeFails,
                Return, TakeCancelled, TakeClosed, EndFlush, GoTo
  <2>2. QED
    BY <1>1, <2>1
<1>4. CASE TaskStep
  BY <1>2, <1>3, <1>4 DEF TaskStep
<1>5. CASE EnvironmentStep
  <2>1. UNCHANGED <<accounts, processed>>
    BY <1>5, Surroundings DEF Send, SendCompletion, task
  <2>2. QED
    BY <1>1, <2>1
<1>6. QED
  BY <1>4, <1>5 DEF Next

-----------------------------------------------------------------------------
(***************************************************************************)
(* The invariant, and what follows from it.                                *)
(***************************************************************************)

LEMMA InitInvariant == Init => IInv
<1> SUFFICES ASSUME Init PROVE IInv
  OBVIOUS
<1> USE DEF Init
<1>1. /\ queue = <<>> /\ buffer = <<>> /\ processed = <<>>
      /\ Len(queue) = 0 /\ Len(buffer) = 0 /\ Len(processed) = 0
      /\ DOMAIN before = {} /\ DOMAIN accounts = {}
  OBVIOUS
<1>2. Heaped = {} /\ Queued = {} /\ Applied = {} /\ Answered = {}
  BY <1>1 DEF Heaped, Queued, Applied, Answered
<1>3. TypeOK
  <2>1. queue \in Seq(Envelope) /\ buffer \in Seq(Messages) /\ processed \in Seq(Application)
    BY <1>1
  <2>2. before \in [DOMAIN before -> SUBSET sent]
    BY <1>1
  <2>3. {senders, cancelled, listening} \subseteq BOOLEAN
    OBVIOUS
  <2>4. QED
    BY <1>1, <1>2, <2>1, <2>2, <2>3 DEF TypeOK
<1>4. PlacesSound
  BY <1>1, <1>2 DEF PlacesSound, IsInjective
<1>5. BarriersSound /\ OrderSound /\ EndsSound
  BY <1>1 DEF BarriersSound, OrderSound, EndsSound, Running
<1>6. HeapBounded
  BY <1>1, BatchSizeAssumption DEF HeapBounded
<1>7. AcknowledgedIsApplied /\ InversionsAreLateArrivals
  BY <1>1 DEF AcknowledgedIsApplied, InversionsAreLateArrivals
<1>8. AccountsSound /\ \A c \in DOMAIN accounts : Sound(accounts[c])
  BY <1>1, <1>2 DEF AccountsSound
<1>9. QED
  BY <1>3, <1>4, <1>5, <1>6, <1>7, <1>8 DEF IInv

LEMMA StutterInvariant ==
  ASSUME IInv, UNCHANGED vars
  PROVE  IInv'
<1> USE DEF IInv
<1>1. UNCHANGED <<queue, senders, cancelled, listening, abandoned, pc, confirming, buffer,
                  accounts, acked, processed, sent, received, before>>
  BY DEF vars, env, history
<1>2. UNCHANGED <<Heaped, Queued, Applied, Answered, Running>>
  BY <1>1 DEF Heaped, Queued, Applied, Answered, Running
<1>3. \A c : AcceptedFor(c)' = AcceptedFor(c)
  BY <1>1 DEF AcceptedFor
<1>4. TypeOK'
  BY <1>1, <1>2 DEF TypeOK
<1>5. PlacesSound'
  BY <1>1, <1>2 DEF PlacesSound
<1>6. BarriersSound'
  BY <1>1 DEF BarriersSound
<1>7. OrderSound'
  BY <1>1, <1>2 DEF OrderSound
<1>8. EndsSound'
  BY <1>1, <1>2 DEF EndsSound
<1>9. HeapBounded' /\ AcknowledgedIsApplied' /\ InversionsAreLateArrivals'
  BY <1>1, <1>2 DEF HeapBounded, AcknowledgedIsApplied, InversionsAreLateArrivals
<1>10. AccountsSound' /\ \A c \in DOMAIN accounts' : Sound(accounts'[c])
  BY <1>1, <1>2, <1>3 DEF AccountsSound
<1>11. QED
  BY <1>4, <1>5, <1>6, <1>7, <1>8, <1>9, <1>10

(* Every step keeps the invariant, whatever the environment of the service.*)
LEMMA StepInvariant ==
  ASSUME IInv, [Next]_vars
  PROVE  IInv'
<1>1. CASE Next
  BY <1>1, TypeStep, PlacesStep, BarriersStep, OrderStep, EndsStep, HeapStep,
     AcknowledgedStep, AccountsStep DEF IInv
<1>2. QED
  BY <1>1, StutterInvariant

(* The inductive invariant holds in every reachable state.                 *)
THEOREM Invariance == Spec => []IInv
<1>1. Init => IInv
  BY InitInvariant
<1>2. IInv /\ [Next]_vars => IInv'
  BY StepInvariant
<1>3. QED
  BY <1>1, <1>2, PTL DEF Spec

(* Every variable of the service stays in its type: in particular, what    *)
(* is in the heap was taken from the channel, and what was taken from it   *)
(* had been sent.                                                          *)
THEOREM TypeCorrect == Spec => []TypeOK
<1>1. IInv => TypeOK
  BY DEF IInv
<1>2. QED
  BY <1>1, Invariance, PTL

(* No order of arrival and no arrangement of flushes takes an account to a *)
(* state that fails check_invariants, or makes it forget a transaction.    *)
THEOREM AccountsStaySound == Spec => []AccountsSound
<1>1. IInv => AccountsSound
  BY DEF IInv
<1>2. QED
  BY <1>1, Invariance, PTL

(* The heap never holds more than a batch.                                 *)
THEOREM HeapStaysBounded == Spec => []HeapBounded
<1>1. IInv => HeapBounded
  BY DEF IInv
<1>2. QED
  BY <1>1, Invariance, PTL

(* An acknowledged completion is a barrier: what was sent before it has    *)
(* been applied and answered.                                              *)
THEOREM Barrier == Spec => []AcknowledgedIsApplied
<1>1. IInv => AcknowledgedIsApplied
  BY DEF IInv
<1>2. QED
  BY <1>1, Invariance, PTL

(* A transaction is applied after a newer one only when the newer one had  *)
(* been applied before it came.                                            *)
THEOREM ChronologicalUnlessLate == Spec => []InversionsAreLateArrivals
<1>1. IInv => InversionsAreLateArrivals
  BY DEF IInv
<1>2. QED
  BY <1>1, Invariance, PTL

(* At most one transaction is without its answer, and only in a task that  *)
(* failed.                                                                 *)
LEMMA AtMostOneUnanswered ==
  ASSUME IInv
  PROVE  /\ Cardinality(Applied \ Answered) <= 1
         /\ Applied # Answered => pc = "Failed"
<1>1. Len(processed) \in Nat
  BY DEF IInv, TypeOK
<1>2. \A i \in 1 .. Len(processed) :
        processed[i].answered \/ (i = Len(processed) /\ pc = "Failed")
  BY DEF IInv, EndsSound
<1>3. Applied \ Answered \subseteq {processed[Len(processed)].transaction}
  BY <1>2 DEF Applied, Answered
<1>4. pc # "Failed" => Applied = Answered
  BY <1>2 DEF Applied, Answered
<1>5. Cardinality(Applied \ Answered) <= 1
  <2>1. /\ IsFiniteSet({processed[Len(processed)].transaction})
        /\ Cardinality({processed[Len(processed)].transaction}) = 1
    BY FS_Singleton
  <2>2. QED
    BY <1>3, <2>1, FS_Subset
<1>6. QED
  BY <1>4, <1>5

(* A task that returned has applied and answered what it had received; one *)
(* that failed left at most one transaction without its answer, and failed *)
(* for a receiver that was dropped.                                        *)
THEOREM StopsAreClean == Spec => []StopsCleanly
<1>1. IInv => StopsCleanly
  BY AtMostOneUnanswered DEF IInv, EndsSound, StopsCleanly
<1>2. QED
  BY <1>1, Invariance, PTL

(* What lies in the channel is finite.                                     *)
LEMMA QueuedFinite ==
  ASSUME IInv
  PROVE  IsFiniteSet(Queued)
<1> DEFINE Q == {queue[i] : i \in DOMAIN queue}
           f == [tx \in Queued |-> Incoming(tx)]
<1>1. queue \in Seq(Envelope) /\ IsInjective(queue)
  BY DEF IInv, TypeOK, PlacesSound
<1>2. IsFiniteSet(Q)
  BY <1>1, InjectiveSize
<1>3. \A tx \in Queued : Incoming(tx) \in Q
  BY <1>1 DEF Queued
<1>4. \A tx1, tx2 : Incoming(tx1) = Incoming(tx2) => tx1 = tx2
  BY DEF Incoming
<1>5. f \in Injection(Queued, Q)
  BY <1>3, <1>4 DEF Injection, IsInjective
<1>6. QED
  BY <1>2, <1>5, FS_Injection DEF ExistsInjection

(* A transaction is applied once.                                          *)
LEMMA AppliedOnce ==
  ASSUME IInv
  PROVE  IsFiniteSet(Applied) /\ Cardinality(Applied) = Len(processed)
<1> DEFINE s == [i \in 1 .. Len(processed) |-> processed[i].transaction]
<1>1. processed \in Seq(Application)
  BY DEF IInv, TypeOK
<1>2. \A i \in 1 .. Len(processed) : processed[i].transaction \in Messages
  <2>1. \A i \in 1 .. Len(processed) : processed[i] \in Application
    BY <1>1
  <2>2. QED
    BY <2>1 DEF Application
<1>3. /\ s \in Seq(Messages)
      /\ Len(s) = Len(processed) /\ DOMAIN s = 1 .. Len(processed)
  BY <1>1, <1>2
<1>4. IsInjective(s)
  BY <1>3 DEF IInv, PlacesSound, IsInjective
<1>5. Applied = {s[i] : i \in DOMAIN s}
  BY <1>3 DEF Applied
<1> HIDE DEF s
<1>6. QED
  BY <1>3, <1>4, <1>5, InjectiveSize

(* While the task runs nothing that was sent is lost, nothing is applied   *)
(* twice, and nothing is in two places.                                    *)
THEOREM NothingIsLostOrRepeated == Spec => []NothingLostOrRepeated
<1>1. ASSUME IInv PROVE NothingLostOrRepeated
  <2>1. IsFiniteSet(Applied) /\ Cardinality(Applied) = Len(processed)
    BY <1>1, AppliedOnce
  <2>2. ASSUME Running
        PROVE  /\ sent = Queued \cup Heaped \cup Applied
               /\ Cardinality(sent) = Cardinality(Queued) + Len(buffer) + Len(processed)
    <3>1. /\ sent = Queued \cup received /\ received = Heaped \cup Applied
          /\ Queued \cap received = {} /\ Heaped \cap Applied = {}
          /\ buffer \in Seq(Messages) /\ IsInjective(buffer)
      BY <1>1, <2>2 DEF IInv, TypeOK, PlacesSound
    <3>2. IsFiniteSet(Heaped) /\ Cardinality(Heaped) = Len(buffer)
      BY <3>1, InjectiveSize DEF Heaped
    <3>3. /\ IsFiniteSet(received)
          /\ Cardinality(received) = Len(buffer) + Len(processed)
      BY <2>1, <3>1, <3>2, DisjointUnion
    <3>4. IsFiniteSet(Queued)
      BY <1>1, QueuedFinite
    <3>5. /\ Cardinality(sent) = Cardinality(Queued) + Cardinality(received)
          /\ Cardinality(Queued) \in Nat
      BY <3>1, <3>3, <3>4, DisjointUnion
    <3>6. Len(buffer) \in Nat /\ Len(processed) \in Nat
      BY <1>1 DEF IInv, TypeOK
    <3>7. QED
      BY <3>1, <3>3, <3>5, <3>6
  <2>3. QED
    BY <2>1, <2>2 DEF NothingLostOrRepeated
<1>2. QED
  BY <1>1, Invariance, PTL

-----------------------------------------------------------------------------
(***************************************************************************)
(* The service implements the bank: whatever its task does with batches,   *)
(* its heap and its selection is, to those who hold an end of its          *)
(* channels, a step that Bank.tla allows.                                  *)
(***************************************************************************)

(***************************************************************************)
(* What is pending: the heap, the completion being confirmed, the channel. *)
(***************************************************************************)

Confirming(k) == IF k = NoCompletion THEN <<>> ELSE <<BatchCompletion(k)>>

Joined(heap, k, channel) ==
  [i \in DOMAIN heap |-> Incoming(heap[i])] \o Confirming(k) \o channel

LEMMA PendingIsJoined == Pending = Joined(buffer, confirming, queue)
BY DEF Pending, Joined, Confirming

(* What the concatenation of two sequences holds, and where.               *)
LEMMA Concatenated ==
  ASSUME NEW S, NEW s \in Seq(S), NEW t \in Seq(S)
  PROVE  /\ s \o t \in Seq(S)
         /\ Len(s) \in Nat /\ Len(t) \in Nat
         /\ Len(s \o t) = Len(s) + Len(t)
         /\ \A i \in 1 .. Len(s) : (s \o t)[i] = s[i]
         /\ \A i \in 1 .. Len(t) : (s \o t)[Len(s) + i] = t[i]
OBVIOUS

LEMMA HeapEnvelopes ==
  ASSUME NEW b \in Seq(Messages)
  PROVE  /\ [i \in DOMAIN b |-> Incoming(b[i])] \in Seq(Envelope)
         /\ Len([i \in DOMAIN b |-> Incoming(b[i])]) = Len(b)
         /\ \A i \in 1 .. Len(b) : [j \in DOMAIN b |-> Incoming(b[j])][i] = Incoming(b[i])
         /\ Len(b) \in Nat
<1>1. Len(b) \in Nat /\ DOMAIN b = 1 .. Len(b) /\ \A i \in 1 .. Len(b) : b[i] \in Messages
  OBVIOUS
<1>2. \A tx \in Messages : Incoming(tx) \in Envelope
  BY DEF Envelope
<1>3. QED
  BY <1>1, <1>2

LEMMA ConfirmingEnvelopes ==
  ASSUME NEW k \in Completions \cup {NoCompletion}
  PROVE  /\ Confirming(k) \in Seq(Envelope)
         /\ Len(Confirming(k)) \in {0, 1}
         /\ Len(Confirming(k)) = 0 <=> k = NoCompletion
         /\ \A i \in 1 .. Len(Confirming(k)) : Confirming(k)[i] = BatchCompletion(k)
<1>1. CASE k = NoCompletion
  <2>1. Confirming(k) = <<>>
    BY <1>1 DEF Confirming
  <2>2. QED
    BY <1>1, <2>1
<1>2. CASE k # NoCompletion
  <2>1. BatchCompletion(k) \in Envelope
    BY <1>2 DEF Envelope
  <2>2. Confirming(k) = <<BatchCompletion(k)>>
    BY <1>2 DEF Confirming
  <2>3. QED
    BY <1>2, <2>1, <2>2
<1>3. QED
  BY <1>1, <1>2

(* The places of what is pending.                                          *)
LEMMA JoinedShape ==
  ASSUME NEW b \in Seq(Messages), NEW k \in Completions \cup {NoCompletion},
         NEW q \in Seq(Envelope), NEW n \in {0, 1}, n = 0 <=> k = NoCompletion
  PROVE  /\ Joined(b, k, q) \in Seq(Envelope)
         /\ Len(b) \in Nat /\ Len(q) \in Nat
         /\ Len(Joined(b, k, q)) = Len(b) + n + Len(q)
         /\ \A i \in 1 .. Len(b) : Joined(b, k, q)[i] = Incoming(b[i])
         /\ n = 1 => Joined(b, k, q)[Len(b) + 1] = BatchCompletion(k)
         /\ \A i \in 1 .. Len(q) : Joined(b, k, q)[Len(b) + n + i] = q[i]
<1>1. PICK h \in Seq(Envelope) :
        /\ h = [i \in DOMAIN b |-> Incoming(b[i])]
        /\ Len(h) = Len(b) /\ Len(b) \in Nat
        /\ \A i \in 1 .. Len(b) : h[i] = Incoming(b[i])
  BY HeapEnvelopes
<1>2. PICK c \in Seq(Envelope) :
        /\ c = Confirming(k)
        /\ Len(c) = n
        /\ \A i \in 1 .. n : c[i] = BatchCompletion(k)
  BY ConfirmingEnvelopes
<1>3. PICK t \in Seq(Envelope) :
        /\ t = h \o c
        /\ Len(t) = Len(h) + Len(c)
        /\ \A i \in 1 .. Len(h) : t[i] = h[i]
        /\ \A i \in 1 .. Len(c) : t[Len(h) + i] = c[i]
  <2> DEFINE t == h \o c
  <2>1. /\ t \in Seq(Envelope)
        /\ Len(t) = Len(h) + Len(c)
        /\ \A i \in 1 .. Len(h) : t[i] = h[i]
        /\ \A i \in 1 .. Len(c) : t[Len(h) + i] = c[i]
    BY Concatenated
  <2>2. QED
    BY <2>1
<1>4. PICK p \in Seq(Envelope) :
        /\ p = t \o q
        /\ Len(p) = Len(t) + Len(q) /\ Len(q) \in Nat
        /\ \A i \in 1 .. Len(t) : p[i] = t[i]
        /\ \A i \in 1 .. Len(q) : p[Len(t) + i] = q[i]
  <2> DEFINE p == t \o q
  <2>1. /\ p \in Seq(Envelope)
        /\ Len(p) = Len(t) + Len(q) /\ Len(q) \in Nat
        /\ \A i \in 1 .. Len(t) : p[i] = t[i]
        /\ \A i \in 1 .. Len(q) : p[Len(t) + i] = q[i]
    BY Concatenated
  <2>2. QED
    BY <2>1
<1>5. Joined(b, k, q) = p
  BY <1>1, <1>2, <1>3, <1>4 DEF Joined
<1>6. \A i \in 1 .. Len(b) : p[i] = Incoming(b[i])
  BY <1>1, <1>2, <1>3, <1>4
<1>7. n = 1 => p[Len(b) + 1] = BatchCompletion(k)
  BY <1>1, <1>2, <1>3, <1>4
<1>8. /\ p \in Seq(Envelope)
      /\ Len(b) \in Nat /\ Len(q) \in Nat
      /\ Len(p) = Len(b) + n + Len(q)
      /\ \A i \in 1 .. Len(q) : p[Len(b) + n + i] = q[i]
  <2>1. Len(t) = Len(b) + n
    BY <1>1, <1>2, <1>3
  <2>2. Len(p) = Len(b) + n + Len(q) /\ Len(q) \in Nat
    BY <1>4, <2>1
  <2>3. \A i \in 1 .. Len(q) : p[Len(b) + n + i] = q[i]
    BY <1>4, <2>1
  <2>4. QED
    BY <1>1, <2>2, <2>3
<1>9. QED
  BY <1>5, <1>6, <1>7, <1>8

(* With no completion being confirmed, and with one.                       *)
LEMMA NoneShape ==
  ASSUME NEW b \in Seq(Messages), NEW q \in Seq(Envelope)
  PROVE  /\ Joined(b, NoCompletion, q) \in Seq(Envelope)
         /\ Len(b) \in Nat /\ Len(q) \in Nat
         /\ Len(Joined(b, NoCompletion, q)) = Len(b) + 0 + Len(q)
         /\ \A i \in 1 .. Len(b) : Joined(b, NoCompletion, q)[i] = Incoming(b[i])
         /\ \A i \in 1 .. Len(q) : Joined(b, NoCompletion, q)[Len(b) + 0 + i] = q[i]
<1>1. 0 \in {0, 1} /\ (0 = 0 <=> NoCompletion = NoCompletion)
  OBVIOUS
<1>2. NoCompletion \in Completions \cup {NoCompletion}
  OBVIOUS
<1>3. QED
  BY <1>1, <1>2, JoinedShape

LEMMA SomeShape ==
  ASSUME NEW b \in Seq(Messages), NEW k \in Completions, NEW q \in Seq(Envelope)
  PROVE  /\ Joined(b, k, q) \in Seq(Envelope)
         /\ Len(b) \in Nat /\ Len(q) \in Nat
         /\ Len(Joined(b, k, q)) = Len(b) + 1 + Len(q)
         /\ \A i \in 1 .. Len(b) : Joined(b, k, q)[i] = Incoming(b[i])
         /\ Joined(b, k, q)[Len(b) + 1] = BatchCompletion(k)
         /\ \A i \in 1 .. Len(q) : Joined(b, k, q)[Len(b) + 1 + i] = q[i]
<1>1. 1 \in {0, 1} /\ (1 = 0 <=> k = NoCompletion) /\ 1 = 1
  BY NoCompletionAssumption
<1>2. k \in Completions \cup {NoCompletion}
  OBVIOUS
<1>3. QED
  BY <1>1, <1>2, JoinedShape

(* Nothing is pending when all its parts are empty.                        *)
LEMMA JoinedEmpty == Joined(<<>>, NoCompletion, <<>>) = <<>>
BY DEF Joined, Confirming

(* A request joins what is pending at its end.                             *)
LEMMA JoinedSubmit ==
  ASSUME NEW b \in Seq(Messages), NEW k \in Completions \cup {NoCompletion},
         NEW q \in Seq(Envelope), NEW e \in Envelope
  PROVE  Joined(b, k, Append(q, e)) = Append(Joined(b, k, q), e)
<1> DEFINE h == [i \in DOMAIN b |-> Incoming(b[i])]
           c == Confirming(k)
<1>1. h \o c \in Seq(Envelope)
  <2>1. h \in Seq(Envelope)
    BY HeapEnvelopes
  <2>2. c \in Seq(Envelope)
    BY ConfirmingEnvelopes
  <2>3. QED
    BY <2>1, <2>2, ConcatProperties
<1> HIDE DEF h, c
<1>2. (h \o c) \o Append(q, e) = Append((h \o c) \o q, e)
  BY <1>1
<1>3. QED
  BY <1>2 DEF Joined, h, c

(* What is pending stays so when the oldest envelope of the channel goes   *)
(* to the heap, or is being confirmed.                                     *)
LEMMA JoinedTaken ==
  ASSUME NEW b \in Seq(Messages), NEW q \in Seq(Envelope), q # <<>>
  PROVE  /\ \A tx \in Messages : q[1] = Incoming(tx) =>
              Joined(Append(b, tx), NoCompletion, Tail(q)) = Joined(b, NoCompletion, q)
         /\ \A k \in Completions : q[1] = BatchCompletion(k) =>
              Joined(b, k, Tail(q)) = Joined(b, NoCompletion, q)
<1> DEFINE p == Joined(b, NoCompletion, q)
<1>1. /\ Len(q) \in Nat \ {0}
      /\ Tail(q) \in Seq(Envelope) /\ Len(Tail(q)) = Len(q) - 1
      /\ \A i \in 1 .. Len(q) - 1 : Tail(q)[i] = q[i + 1]
  BY Behead
<1>3. /\ p \in Seq(Envelope) /\ Len(b) \in Nat
      /\ Len(p) = Len(b) + Len(q)
      /\ \A i \in 1 .. Len(b) : p[i] = Incoming(b[i])
      /\ \A i \in 1 .. Len(q) : p[Len(b) + i] = q[i]
  <2>1. /\ p \in Seq(Envelope) /\ Len(b) \in Nat /\ Len(q) \in Nat
        /\ Len(p) = Len(b) + 0 + Len(q)
        /\ \A i \in 1 .. Len(b) : p[i] = Incoming(b[i])
        /\ \A i \in 1 .. Len(q) : p[Len(b) + 0 + i] = q[i]
    BY NoneShape
  <2> HIDE DEF p
  <2>2. QED
    BY <2>1
<1> HIDE DEF p
<1>4. ASSUME NEW tx \in Messages, q[1] = Incoming(tx)
      PROVE  Joined(Append(b, tx), NoCompletion, Tail(q)) = p
  <2> DEFINE c == Append(b, tx)
             r == Joined(c, NoCompletion, Tail(q))
  <2>1. /\ c \in Seq(Messages) /\ Len(c) = Len(b) + 1
        /\ \A i \in 1 .. Len(b) : c[i] = b[i]
        /\ c[Len(b) + 1] = tx
    BY Appended
  <2> HIDE DEF c
  <2>2. /\ r \in Seq(Envelope)
        /\ Len(r) = Len(b) + 1 + (Len(q) - 1)
        /\ \A i \in 1 .. Len(b) + 1 : r[i] = Incoming(c[i])
        /\ \A i \in 1 .. Len(q) - 1 : r[Len(b) + 1 + i] = Tail(q)[i]
    <3>1. /\ r \in Seq(Envelope)
          /\ Len(r) = Len(c) + 0 + Len(Tail(q))
          /\ \A i \in 1 .. Len(c) : r[i] = Incoming(c[i])
          /\ \A i \in 1 .. Len(Tail(q)) : r[Len(c) + 0 + i] = Tail(q)[i]
      BY <1>1, <2>1, NoneShape
    <3> HIDE DEF r
    <3>2. QED
      BY <1>1, <1>3, <2>1, <3>1
  <2> HIDE DEF r
  <2>3. ASSUME NEW i \in 1 .. Len(r) PROVE r[i] = p[i]
    <3>1. CASE i \in 1 .. Len(b)
      BY <1>3, <2>1, <2>2, <3>1
    <3>2. CASE i = Len(b) + 1
      <4>1. r[i] = Incoming(tx)
        BY <1>3, <2>1, <2>2, <3>2
      <4>2. p[Len(b) + 1] = q[1]
        BY <1>1, <1>3
      <4>3. QED
        BY <1>4, <3>2, <4>1, <4>2
    <3>3. CASE i > Len(b) + 1
      <4>1. i - Len(b) - 1 \in 1 .. Len(q) - 1 /\ i - Len(b) \in 1 .. Len(q)
        BY <1>1, <1>3, <2>2, <3>3
      <4>2. r[i] = Tail(q)[i - Len(b) - 1]
        <5>1. Len(b) + 1 + (i - Len(b) - 1) = i
          BY <1>3
        <5>2. QED
          BY <2>2, <4>1, <5>1
      <4>3. Tail(q)[i - Len(b) - 1] = q[i - Len(b)]
        <5>1. (i - Len(b) - 1) + 1 = i - Len(b)
          BY <1>3
        <5>2. QED
          BY <1>1, <4>1, <5>1
      <4>4. p[i] = q[i - Len(b)]
        <5>1. Len(b) + (i - Len(b)) = i
          BY <1>3
        <5>2. QED
          BY <1>3, <4>1, <5>1
      <4>5. QED
        BY <4>2, <4>3, <4>4
    <3>4. QED
      BY <1>3, <2>2, <3>1, <3>2, <3>3
  <2>4. Len(r) = Len(p)
    BY <1>1, <1>3, <2>2
  <2>5. r = p
    BY <1>3, <2>2, <2>3, <2>4, SeqEqual
  <2>6. QED
    BY <2>5 DEF r, c
<1>5. ASSUME NEW k \in Completions, q[1] = BatchCompletion(k)
      PROVE  Joined(b, k, Tail(q)) = p
  <2> DEFINE r == Joined(b, k, Tail(q))
  <2>2. /\ r \in Seq(Envelope)
        /\ Len(r) = Len(b) + 1 + (Len(q) - 1)
        /\ \A i \in 1 .. Len(b) : r[i] = Incoming(b[i])
        /\ r[Len(b) + 1] = BatchCompletion(k)
        /\ \A i \in 1 .. Len(q) - 1 : r[Len(b) + 1 + i] = Tail(q)[i]
    <3>1. /\ r \in Seq(Envelope)
          /\ Len(r) = Len(b) + 1 + Len(Tail(q))
          /\ \A i \in 1 .. Len(b) : r[i] = Incoming(b[i])
          /\ r[Len(b) + 1] = BatchCompletion(k)
          /\ \A i \in 1 .. Len(Tail(q)) : r[Len(b) + 1 + i] = Tail(q)[i]
      BY <1>1, SomeShape
    <3> HIDE DEF r
    <3>2. QED
      BY <1>1, <3>1
  <2> HIDE DEF r
  <2>3. ASSUME NEW i \in 1 .. Len(r) PROVE r[i] = p[i]
    <3>1. CASE i \in 1 .. Len(b)
      BY <1>3, <2>2, <3>1
    <3>2. CASE i = Len(b) + 1
      <4>1. p[Len(b) + 1] = q[1]
        BY <1>1, <1>3
      <4>2. QED
        BY <1>5, <2>2, <3>2, <4>1
    <3>3. CASE i > Len(b) + 1
      <4>1. i - Len(b) - 1 \in 1 .. Len(q) - 1 /\ i - Len(b) \in 1 .. Len(q)
        BY <1>1, <1>3, <2>2, <3>3
      <4>2. r[i] = Tail(q)[i - Len(b) - 1]
        <5>1. Len(b) + 1 + (i - Len(b) - 1) = i
          BY <1>3
        <5>2. QED
          BY <2>2, <4>1, <5>1
      <4>3. Tail(q)[i - Len(b) - 1] = q[i - Len(b)]
        <5>1. (i - Len(b) - 1) + 1 = i - Len(b)
          BY <1>3
        <5>2. QED
          BY <1>1, <4>1, <5>1
      <4>4. p[i] = q[i - Len(b)]
        <5>1. Len(b) + (i - Len(b)) = i
          BY <1>3
        <5>2. QED
          BY <1>3, <4>1, <5>1
      <4>5. QED
        BY <4>2, <4>3, <4>4
    <3>4. QED
      BY <1>3, <2>2, <3>1, <3>2, <3>3
  <2>4. Len(r) = Len(p)
    BY <1>1, <1>3, <2>2
  <2>5. r = p
    BY <1>3, <2>2, <2>3, <2>4, SeqEqual
  <2>6. QED
    BY <2>5 DEF r
<1>6. QED
  BY <1>4, <1>5 DEF p

(* A transaction that leaves the heap leaves what is pending, at the same  *)
(* place.                                                                  *)
LEMMA JoinedWithout ==
  ASSUME NEW b \in Seq(Messages), NEW k \in Completions \cup {NoCompletion},
         NEW q \in Seq(Envelope), NEW n \in DOMAIN b
  PROVE  Joined(Without(b, n), k, q) = Without(Joined(b, k, q), n)
<1>1. PICK m \in {0, 1} : m = 0 <=> k = NoCompletion
  OBVIOUS
<1>2. /\ Without(b, n) \in Seq(Messages)
      /\ Len(Without(b, n)) = Len(b) - 1
      /\ \A i \in 1 .. Len(b) - 1 : Without(b, n)[i] = IF i < n THEN b[i] ELSE b[i + 1]
  BY Withdrawn
<1>3. PICK w \in Seq(Messages) : w = Without(b, n)
  BY <1>2
<1>4. PICK p \in Seq(Envelope) :
        /\ p = Joined(b, k, q)
        /\ Len(b) \in Nat /\ Len(q) \in Nat
        /\ Len(p) = Len(b) + m + Len(q)
        /\ \A i \in 1 .. Len(b) : p[i] = Incoming(b[i])
        /\ m = 1 => p[Len(b) + 1] = BatchCompletion(k)
        /\ \A i \in 1 .. Len(q) : p[Len(b) + m + i] = q[i]
  BY <1>1, JoinedShape
<1>5. PICK r \in Seq(Envelope) :
        /\ r = Joined(w, k, q)
        /\ Len(r) = Len(w) + m + Len(q)
        /\ \A i \in 1 .. Len(w) : r[i] = Incoming(w[i])
        /\ m = 1 => r[Len(w) + 1] = BatchCompletion(k)
        /\ \A i \in 1 .. Len(q) : r[Len(w) + m + i] = q[i]
  BY <1>1, JoinedShape
<1>6. n \in 1 .. Len(b) /\ n \in DOMAIN p /\ Len(w) = Len(b) - 1
  BY <1>1, <1>2, <1>3, <1>4
<1>7. /\ Without(p, n) \in Seq(Envelope)
      /\ Len(Without(p, n)) = Len(p) - 1
      /\ \A i \in 1 .. Len(p) - 1 : Without(p, n)[i] = IF i < n THEN p[i] ELSE p[i + 1]
  BY <1>6, Withdrawn
<1>8. Len(r) = Len(p) - 1
  BY <1>1, <1>4, <1>5, <1>6
<1>9. ASSUME NEW i \in 1 .. Len(r) PROVE r[i] = Without(p, n)[i]
  <2>1. Without(p, n)[i] = IF i < n THEN p[i] ELSE p[i + 1]
    BY <1>7, <1>8
  <2>2. CASE i \in 1 .. Len(b) - 1
    <3>1. r[i] = Incoming(IF i < n THEN b[i] ELSE b[i + 1])
      BY <1>2, <1>3, <1>5, <1>6, <2>2
    <3>2. p[i] = Incoming(b[i]) /\ p[i + 1] = Incoming(b[i + 1])
      <4>1. i \in 1 .. Len(b) /\ i + 1 \in 1 .. Len(b)
        BY <1>4, <2>2
      <4>2. QED
        BY <1>4, <4>1
    <3>3. QED
      BY <2>1, <3>1, <3>2
  <2>3. CASE m = 1 /\ i = Len(b)
    <3>1. r[i] = BatchCompletion(k)
      BY <1>4, <1>5, <1>6, <2>3
    <3>2. p[i + 1] = BatchCompletion(k) /\ ~ i < n
      BY <1>4, <1>6, <2>3
    <3>3. QED
      BY <2>1, <3>1, <3>2
  <2>4. CASE i > Len(b) - 1 + m
    <3>1. PICK j \in 1 .. Len(q) : i = (Len(b) - 1) + m + j
      <4>1. i - (Len(b) - 1 + m) \in 1 .. Len(q)
        BY <1>1, <1>4, <1>5, <1>6, <2>4
      <4>2. i = (Len(b) - 1) + m + (i - (Len(b) - 1 + m))
        BY <1>1, <1>4
      <4>3. QED
        BY <4>1, <4>2
    <3>2. r[i] = q[j]
      BY <1>5, <1>6, <3>1
    <3>3. i + 1 = Len(b) + m + j /\ ~ i < n
      BY <1>1, <1>4, <1>6, <3>1
    <3>4. p[i + 1] = q[j]
      BY <1>4, <3>3
    <3>5. QED
      BY <2>1, <3>2, <3>3, <3>4
  <2>5. QED
    BY <1>1, <1>4, <1>5, <1>6, <2>2, <2>3, <2>4
<1>10. r = Without(p, n)
  BY <1>7, <1>8, <1>9, SeqEqual
<1>11. QED
  BY <1>3, <1>4, <1>5, <1>10

(* A completion is confirmed when nothing is pending before it.            *)
LEMMA JoinedConfirmed ==
  ASSUME NEW k \in Completions, NEW q \in Seq(Envelope)
  PROVE  /\ Joined(<<>>, k, q) # <<>>
         /\ Head(Joined(<<>>, k, q)) = BatchCompletion(k)
         /\ Tail(Joined(<<>>, k, q)) = Joined(<<>>, NoCompletion, q)
<1>1. PICK p \in Seq(Envelope) :
        /\ p = Joined(<<>>, k, q)
        /\ Len(p) = 1 + Len(q) /\ Len(q) \in Nat
        /\ p[1] = BatchCompletion(k)
        /\ \A i \in 1 .. Len(q) : p[1 + i] = q[i]
  <2> DEFINE p == Joined(<<>>, k, q)
  <2>1. <<>> \in Seq(Messages) /\ Len(<<>>) = 0
    OBVIOUS
  <2>2. /\ p \in Seq(Envelope) /\ Len(q) \in Nat
        /\ Len(p) = Len(<<>>) + 1 + Len(q)
        /\ p[Len(<<>>) + 1] = BatchCompletion(k)
        /\ \A i \in 1 .. Len(q) : p[Len(<<>>) + 1 + i] = q[i]
    BY <2>1, SomeShape
  <2> HIDE DEF p
  <2>3. /\ p \in Seq(Envelope) /\ Len(q) \in Nat
        /\ Len(p) = 1 + Len(q)
        /\ p[1] = BatchCompletion(k)
        /\ \A i \in 1 .. Len(q) : p[1 + i] = q[i]
    BY <2>1, <2>2
  <2>4. QED
    BY <2>3 DEF p
<1>2. Joined(<<>>, NoCompletion, q) = q
  BY DEF Joined, Confirming
<1>3. p # <<>> /\ Head(p) = BatchCompletion(k)
  BY <1>1
<1>4. /\ Tail(p) \in Seq(Envelope) /\ Len(Tail(p)) = Len(p) - 1
      /\ \A i \in 1 .. Len(p) - 1 : Tail(p)[i] = p[i + 1]
  BY <1>3, Behead
<1>5. \A i \in 1 .. Len(q) : Tail(p)[i] = q[i]
  BY <1>1, <1>4
<1>6. Tail(p) = q
  BY <1>1, <1>4, <1>5, SeqEqual
<1>7. QED
  BY <1>1, <1>2, <1>3, <1>6

-----------------------------------------------------------------------------
(***************************************************************************)
(* What may be applied next, and what was answered.                        *)
(***************************************************************************)

(* The order of the bank is that of the heap.                              *)
LEMMA PrecedesIsOlder ==
  ASSUME NEW a, NEW b, Bank!Precedes(a, b)
  PROVE  Older(a, b)
<1> DEFINE key(tx) == <<tx.chrono_order, tx.client_id, tx.message.transaction_id>>
<1>1. PICK n \in 1 .. 3 : /\ key(a)[n] < key(b)[n]
                          /\ \A m \in 1 .. n - 1 : key(a)[m] = key(b)[m]
  BY DEF Bank!Precedes
<1>2. CASE n = 1
  BY <1>1, <1>2 DEF Older
<1>3. CASE n = 2
  <2>1. key(a)[2] < key(b)[2] /\ key(a)[1] = key(b)[1]
    BY <1>1, <1>3
  <2>2. QED
    BY <2>1 DEF Older
<1>4. CASE n = 3
  <2>1. key(a)[3] < key(b)[3] /\ key(a)[1] = key(b)[1] /\ key(a)[2] = key(b)[2]
    BY <1>1, <1>4
  <2>2. QED
    BY <2>1 DEF Older
<1>5. QED
  BY <1>1, <1>2, <1>3, <1>4

(* The transaction that the heap gives up is one that the bank may apply.  *)
LEMMA OldestIsReady ==
  ASSUME TypeOK, NEW n \in Oldest(buffer)
  PROVE  /\ n \in Bank!Ready
         /\ Pending[n].transaction = buffer[n]
<1>1. PICK m \in {0, 1} : m = 0 <=> confirming = NoCompletion
  OBVIOUS
<1>2. /\ Pending \in Seq(Envelope)
      /\ Len(buffer) \in Nat /\ Len(queue) \in Nat
      /\ Len(Pending) = Len(buffer) + m + Len(queue)
      /\ \A i \in 1 .. Len(buffer) : Pending[i] = Incoming(buffer[i])
  BY <1>1, JoinedShape, PendingIsJoined DEF TypeOK
<1>3. n \in 1 .. Len(buffer) /\ \A j \in 1 .. Len(buffer) : ~ Older(buffer[j], buffer[n])
  BY DEF Oldest, TypeOK
<1>4. \A i \in 1 .. Len(buffer) :
        /\ i \in DOMAIN Pending
        /\ Pending[i].kind = "Incoming" /\ Pending[i].transaction = buffer[i]
  <2>1. DOMAIN Pending = 1 .. Len(Pending)
    BY <1>2
  <2>2. ASSUME NEW i \in 1 .. Len(buffer)
        PROVE  Pending[i].kind = "Incoming" /\ Pending[i].transaction = buffer[i]
    <3>1. Pending[i] = Incoming(buffer[i])
      BY <1>2
    <3>2. QED
      BY <3>1 DEF Incoming
  <2>3. \A i \in 1 .. Len(buffer) : i \in 1 .. Len(Pending)
    BY <1>1, <1>2
  <2>4. QED
    BY <2>1, <2>2, <2>3
<1>5. \A j \in 1 .. n - 1 :
        /\ Bank!IsTransaction(Pending[j])
        /\ ~ Bank!Precedes(Pending[j].transaction, Pending[n].transaction)
  BY <1>2, <1>3, <1>4, PrecedesIsOlder DEF Bank!IsTransaction
<1>6. n \in DOMAIN Pending /\ Bank!IsTransaction(Pending[n])
  BY <1>3, <1>4 DEF Bank!IsTransaction
<1>7. QED
  BY <1>3, <1>4, <1>5, <1>6 DEF Bank!Ready
(* What the receiver of outcomes sees of an application.                   *)
Entry(app) == [transaction |-> app.transaction, result |-> app.result]

Entries(apps, n) == [i \in 1 .. n |-> Entry(apps[i])]

LEMMA EntriesAppended ==
  ASSUME NEW p \in Seq(Application), NEW app \in Application
  PROVE  /\ Entries(Append(p, app), Len(p) + 1) = Append(Entries(p, Len(p)), Entry(app))
         /\ Entries(Append(p, app), Len(p)) = Entries(p, Len(p))
<1>1. PICK r \in Seq(Application) :
        /\ r = Append(p, app)
        /\ Len(p) \in Nat /\ Len(r) = Len(p) + 1
        /\ \A i \in 1 .. Len(p) : r[i] = p[i]
        /\ r[Len(p) + 1] = app
  <2>1. /\ Append(p, app) \in Seq(Application)
        /\ Len(p) \in Nat /\ Len(Append(p, app)) = Len(p) + 1
        /\ \A i \in 1 .. Len(p) : Append(p, app)[i] = p[i]
        /\ Append(p, app)[Len(p) + 1] = app
    BY Appended
  <2>2. QED
    BY <2>1
<1>2. Entries(r, Len(p)) = Entries(p, Len(p))
  BY <1>1 DEF Entries
<1>3. Entries(r, Len(p) + 1) = Append(Entries(p, Len(p)), Entry(app))
  <2> DEFINE T == {Entry(a) : a \in Application}
             s == Entries(p, Len(p))
             t == Entries(r, Len(p) + 1)
  <2>1. /\ \A i \in 1 .. Len(p) : Entry(p[i]) \in T
        /\ \A i \in 1 .. Len(p) + 1 : Entry(r[i]) \in T
        /\ Entry(app) \in T
    BY <1>1
  <2> HIDE DEF T
  <2>2. s \in Seq(T) /\ Len(s) = Len(p) /\ \A i \in 1 .. Len(p) : s[i] = Entry(p[i])
    BY <1>1, <2>1 DEF Entries
  <2>3. /\ t \in Seq(T) /\ Len(t) = Len(p) + 1
        /\ \A i \in 1 .. Len(p) + 1 : t[i] = Entry(r[i])
    BY <1>1, <2>1 DEF Entries
  <2> HIDE DEF s, t
  <2>4. PICK u \in Seq(T) :
          /\ u = Append(s, Entry(app))
          /\ Len(u) = Len(s) + 1
          /\ \A i \in 1 .. Len(s) : u[i] = s[i]
          /\ u[Len(s) + 1] = Entry(app)
    BY <2>1, <2>2, Appended
  <2>5. ASSUME NEW i \in 1 .. Len(t) PROVE t[i] = u[i]
    <3>1. CASE i \in 1 .. Len(p)
      BY <1>1, <2>2, <2>3, <2>4, <3>1
    <3>2. CASE i = Len(p) + 1
      BY <1>1, <2>2, <2>3, <2>4, <3>2
    <3>3. QED
      BY <1>1, <2>3, <3>1, <3>2
  <2>6. t = u
    BY <2>2, <2>3, <2>4, <2>5, SeqEqual
  <2>7. QED
    BY <2>4, <2>6 DEF s, t
<1>4. QED
  BY <1>1, <1>2, <1>3

(* Counting the applications that were heard, when they are the first.     *)
LEMMA HeardFirst ==
  ASSUME NEW heard, NEW n \in Nat, heard = 1 .. n
  PROVE  Cardinality(heard) = n
BY FS_Interval

(* While the task runs all that it has applied was answered.               *)
LEMMA AnswersAreEntries ==
  ASSUME IInv, Running
  PROVE  Answers = Entries(processed, Len(processed))
<1>1. Len(processed) \in Nat /\ \A i \in 1 .. Len(processed) : processed[i].answered
  BY DEF IInv, TypeOK, EndsSound, Running
<1>2. {i \in 1 .. Len(processed) : processed[i].answered} = 1 .. Len(processed)
  BY <1>1
<1>3. Cardinality({i \in 1 .. Len(processed) : processed[i].answered}) = Len(processed)
  BY <1>1, <1>2, HeardFirst
<1>4. QED
  BY <1>3 DEF Answers, Entries, Entry

(* A transaction shows among the answers when its answer was heard.        *)
LEMMA AnswersStep ==
  ASSUME IInv, Running, NEW app \in Application, processed' = Append(processed, app)
  PROVE  /\ app.answered => Answers' = Append(Answers, Entry(app))
         /\ ~ app.answered => Answers' = Answers
<1>1. /\ Len(processed) \in Nat
      /\ Len(processed') = Len(processed) + 1
      /\ \A i \in 1 .. Len(processed) : processed'[i] = processed[i]
      /\ processed'[Len(processed) + 1] = app
  BY Extended DEF IInv, TypeOK
<1>2. \A i \in 1 .. Len(processed) : processed[i].answered
  BY DEF IInv, EndsSound, Running
<1>3. processed \in Seq(Application)
  BY DEF IInv, TypeOK
<1>4. /\ Entries(processed', Len(processed) + 1) = Append(Answers, Entry(app))
      /\ Entries(processed', Len(processed)) = Answers
  BY <1>3, EntriesAppended, AnswersAreEntries
<1>5. ASSUME app.answered PROVE Answers' = Append(Answers, Entry(app))
  <2>1. {i \in 1 .. Len(processed') : processed'[i].answered} = 1 .. Len(processed) + 1
    BY <1>1, <1>2, <1>5
  <2>2. Cardinality({i \in 1 .. Len(processed') : processed'[i].answered}) = Len(processed) + 1
    <3>1. Len(processed) + 1 \in Nat
      BY <1>1
    <3>2. QED
      BY <2>1, <3>1, HeardFirst
  <2>3. Answers' = Entries(processed', Len(processed) + 1)
    BY <2>2 DEF Answers, Entries, Entry
  <2>4. QED
    BY <1>4, <2>3
<1>6. ASSUME ~ app.answered PROVE Answers' = Answers
  <2>1. {i \in 1 .. Len(processed') : processed'[i].answered} = 1 .. Len(processed)
    BY <1>1, <1>2, <1>6
  <2>2. Cardinality({i \in 1 .. Len(processed') : processed'[i].answered}) = Len(processed)
    BY <1>1, <2>1, HeardFirst
  <2>3. Answers' = Entries(processed', Len(processed))
    BY <2>2 DEF Answers, Entries, Entry
  <2>4. QED
    BY <1>4, <2>3
<1>7. QED
  BY <1>5, <1>6
-----------------------------------------------------------------------------
(***************************************************************************)
(* The bank keeps its accounts with the same operators.                    *)
(***************************************************************************)

LEMMA SameResults ==
  ASSUME NEW acc, NEW msg
  PROVE  Bank!ProcessResult(acc, msg) = ProcessResult(acc, msg)
<1>1. Bank!SharedPrestep(acc) = SharedPrestep(acc)
  BY DEF Bank!SharedPrestep, SharedPrestep
<1>2. \A from, to : Bank!CanTransition(from, to) = CanTransition(from, to)
  BY DEF Bank!CanTransition, CanTransition
<1>3. \A to : Bank!TransitionResult(acc, msg, to) = TransitionResult(acc, msg, to)
  BY <1>1, <1>2 DEF Bank!TransitionResult, TransitionResult, Bank!DoTransition, DoTransition
<1>4. Bank!DepositResult(acc, msg) = DepositResult(acc, msg)
  BY <1>1 DEF Bank!DepositResult, DepositResult
<1>5. Bank!WithdrawalResult(acc, msg) = WithdrawalResult(acc, msg)
  BY <1>1 DEF Bank!WithdrawalResult, WithdrawalResult
<1>6. QED
  BY <1>3, <1>4, <1>5 DEF Bank!ProcessResult, ProcessResult

LEMMA SameEffects ==
  ASSUME NEW acc, NEW msg
  PROVE  Bank!ProcessEffect(acc, msg) = ProcessEffect(acc, msg)
<1>1. Bank!Recorded(acc, msg) = Recorded(acc, msg)
  BY DEF Bank!Recorded, Recorded
<1>2. ASSUME NEW a, NEW id, NEW from, NEW to
      PROVE  Bank!Execute(a, id, from, to) = Execute(a, id, from, to)
  BY DEF Bank!Execute, Execute, Bank!Moved, Moved
<1>3. \A a, id, from, to : Bank!Execute(a, id, from, to) = Execute(a, id, from, to)
  BY <1>2
<1>4. /\ Bank!StoredAmount(acc, msg) = StoredAmount(acc, msg)
      /\ Bank!StoredState(acc, msg) = StoredState(acc, msg)
  BY DEF Bank!StoredAmount, StoredAmount, Bank!StoredState, StoredState
<1>5. Bank!DepositEffect(acc, msg) = DepositEffect(acc, msg)
  BY <1>1 DEF Bank!DepositEffect, DepositEffect
<1>6. Bank!WithdrawalEffect(acc, msg) = WithdrawalEffect(acc, msg)
  BY <1>1 DEF Bank!WithdrawalEffect, WithdrawalEffect
<1>7. Bank!DisputeEffect(acc, msg) = DisputeEffect(acc, msg)
  BY <1>3, <1>4 DEF Bank!DisputeEffect, DisputeEffect
<1>8. Bank!ResolveEffect(acc, msg) = ResolveEffect(acc, msg)
  BY <1>3, <1>4 DEF Bank!ResolveEffect, ResolveEffect
<1>9. Bank!ChargebackEffect(acc, msg) = ChargebackEffect(acc, msg)
  BY <1>3, <1>4 DEF Bank!ChargebackEffect, ChargebackEffect
<1>10. QED
  BY <1>5, <1>6, <1>7, <1>8, <1>9 DEF Bank!ProcessEffect, ProcessEffect

LEMMA SameAccounts ==
  /\ \A c : Bank!AccountBefore(c) = AccountOf(c)
  /\ \A acc, msg : Bank!Processed(acc, msg) = Processed(acc, msg)
<1>1. Bank!NewAccount = NewAccount
  BY DEF Bank!NewAccount, NewAccount
<1>2. \A c : Bank!AccountBefore(c) = AccountOf(c)
  BY <1>1 DEF Bank!AccountBefore, AccountOf
<1>3. \A acc, msg : Bank!Processed(acc, msg) = Processed(acc, msg)
  BY SameResults, SameEffects DEF Bank!Processed, Processed
<1>4. QED
  BY <1>2, <1>3

-----------------------------------------------------------------------------
(***************************************************************************)
(* Every step of the service is a step of the bank, or shows nothing.      *)
(***************************************************************************)

(* A step that leaves all these alone is not seen at all.                  *)
LEMMA UnseenStep ==
  ASSUME Pending' = Pending, UNCHANGED <<accounts, processed, acked, Running, env>>
  PROVE  UNCHANGED <<Bank!bank, Bank!callers>>
<1>1. Answers' = Answers
  BY DEF Answers
<1>2. UNCHANGED <<senders, cancelled, listening, abandoned>>
  BY DEF env
<1>3. QED
  BY <1>1, <1>2 DEF Bank!bank, Bank!callers

(* A producer that sends submits.                                          *)
LEMMA SendIsSubmit ==
  ASSUME IInv, NEW e \in Envelope, senders, Running, queue' = Append(queue, e),
         UNCHANGED <<env, task>>
  PROVE  Bank!Submit(e)
<1>1. Pending' = Append(Pending, e)
  <2>1. Pending' = Joined(buffer, confirming, Append(queue, e))
    BY PendingIsJoined DEF task, Pending, Joined, Confirming
  <2>2. QED
    BY <2>1, PendingIsJoined, JoinedSubmit DEF IInv, TypeOK
<1>2. UNCHANGED <<accounts, processed, acked, Running, senders, cancelled, listening, abandoned>>
  BY DEF task, env, Running
<1>3. Answers' = Answers
  BY <1>2 DEF Answers
<1>4. QED
  BY <1>1, <1>2, <1>3 DEF Bank!Submit, Bank!callers

(* What is pending, after a step.                                          *)
LEMMA PendingNext == Pending' = Joined(buffer', confirming', queue')
BY DEF Pending, Joined, Confirming

(* In the loop no completion is being confirmed.                           *)
LEMMA NothingToConfirm ==
  ASSUME IInv, pc # "Flush"
  PROVE  confirming = NoCompletion
BY DEF IInv, BarriersSound

(* What the task takes from the channel into the heap stays pending.       *)
LEMMA ReceiveIsUnseen ==
  ASSUME IInv, TakeIncoming
  PROVE  UNCHANGED <<Bank!bank, Bank!callers>>
<1>1. PICK tx \in Messages :
        /\ pc = "Select" /\ queue # <<>> /\ queue' = Tail(queue)
        /\ queue[1] = Incoming(tx)
        /\ buffer' = Append(buffer, tx)
        /\ pc' \in {"Flush", "Select"}
  <2>1. TypeOK /\ PlacesSound
    BY DEF IInv
  <2>2. QED
    BY <2>1, Received
<1>2. UNCHANGED <<accounts, processed, acked, env, confirming>>
  BY DEF TakeIncoming, Receive
<1>3. UNCHANGED Running
  BY <1>1 DEF Running
<1>4. confirming = NoCompletion
  BY <1>1, NothingToConfirm
<1>5. Joined(Append(buffer, tx), NoCompletion, Tail(queue)) = Joined(buffer, NoCompletion, queue)
  BY <1>1, JoinedTaken DEF IInv, TypeOK
<1>6. Pending' = Pending
  BY <1>1, <1>2, <1>4, <1>5, PendingIsJoined, PendingNext
<1>7. QED
  BY <1>2, <1>3, <1>6, UnseenStep

(* A completion stays pending while the flush that precedes it runs.       *)
LEMMA TakeCompletionIsUnseen ==
  ASSUME IInv, TakeCompletion
  PROVE  UNCHANGED <<Bank!bank, Bank!callers>>
<1>1. /\ pc = "Select" /\ queue # <<>> /\ queue' = Tail(queue)
      /\ Head(queue).kind = "TransactionBatchCompletion"
      /\ confirming' = Head(queue).completion
      /\ pc' = "Flush"
      /\ UNCHANGED <<accounts, processed, acked, env, buffer>>
  BY DEF TakeCompletion
<1>2. queue \in Seq(Envelope) /\ buffer \in Seq(Messages)
  BY DEF IInv, TypeOK
<1>3. Head(queue) = queue[1] /\ queue[1] \in Envelope
  BY <1>1, <1>2, Behead
<1>4. PICK k \in Completions : k = Head(queue).completion /\ queue[1] = BatchCompletion(k)
  BY <1>1, <1>3, Envelopes
<1>5. UNCHANGED Running
  BY <1>1 DEF Running
<1>6. confirming = NoCompletion
  BY <1>1, NothingToConfirm
<1>7. Joined(buffer, k, Tail(queue)) = Joined(buffer, NoCompletion, queue)
  BY <1>1, <1>2, <1>4, JoinedTaken
<1>8. Pending' = Pending
  BY <1>1, <1>4, <1>6, <1>7, PendingIsJoined, PendingNext
<1>9. QED
  BY <1>1, <1>5, <1>8, UnseenStep

(* Going from the loop to a flush or back shows nothing.                   *)
LEMMA GoToIsUnseen ==
  ASSUME TakeCancelled \/ TakeClosed \/ EndFlush
  PROVE  UNCHANGED <<Bank!bank, Bank!callers>>
<1>1. UNCHANGED <<queue, confirming, buffer, accounts, acked, processed, env>>
  BY DEF TakeCancelled, TakeClosed, EndFlush, GoTo
<1>2. UNCHANGED Running
  BY DEF TakeCancelled, TakeClosed, EndFlush, GoTo, Running
<1>3. Pending' = Pending
  BY <1>1 DEF Pending
<1>4. QED
  BY <1>1, <1>2, <1>3, UnseenStep

(* The end of the task closes the bank.                                    *)
LEMMA StopIsClose ==
  ASSUME pc \in {"Flush", "FinalFlush"}, NEW how \in {"Returned", "Failed"}, Stop(how),
         UNCHANGED <<env, acked>>
  PROVE  Bank!Close
<1>1. Pending' = <<>>
  BY PendingNext, JoinedEmpty DEF Stop
<1>2. Running /\ Running' = FALSE
  BY DEF Stop, Running
<1>3. UNCHANGED <<acked, senders, cancelled, listening, abandoned>>
  BY DEF env
<1>4. QED
  BY <1>1, <1>2, <1>3 DEF Bank!Close, Bank!callers

LEMMA ReturnIsClosing ==
  ASSUME IInv, Return
  PROVE  Bank!CloseOrderly
<1>1. /\ pc = "FinalFlush" /\ buffer = <<>> /\ Stop("Returned")
      /\ UNCHANGED <<env, accounts, acked, processed>>
  BY DEF Return
<1>2. Bank!Close
  BY <1>1, StopIsClose
<1>3. cancelled \/ (~ senders /\ Pending = <<>>)
  <2>1. confirming = NoCompletion
    BY <1>1, NothingToConfirm
  <2>2. cancelled \/ (~ senders /\ queue = <<>>)
    BY <1>1 DEF IInv, EndsSound
  <2>3. queue = <<>> => Pending = <<>>
    BY <1>1, <2>1, PendingIsJoined, JoinedEmpty
  <2>4. QED
    BY <2>2, <2>3
<1>4. Answers' = Answers /\ accounts' = accounts
  BY <1>1 DEF Answers
<1>5. QED
  BY <1>2, <1>3, <1>4 DEF Bank!CloseOrderly

(* At the end of its flush a completion is the first thing pending.        *)
LEMMA FlushedIsFirst ==
  ASSUME IInv, buffer = <<>>, confirming # NoCompletion
  PROVE  /\ Pending # <<>> /\ ~ Bank!IsTransaction(Head(Pending))
         /\ Head(Pending).completion = confirming
         /\ Tail(Pending) = Joined(<<>>, NoCompletion, queue)
<1>1. confirming \in Completions /\ queue \in Seq(Envelope)
  BY DEF IInv, TypeOK
<1>2. /\ Pending # <<>> /\ Head(Pending) = BatchCompletion(confirming)
      /\ Tail(Pending) = Joined(<<>>, NoCompletion, queue)
  BY <1>1, PendingIsJoined, JoinedConfirmed
<1>3. QED
  BY <1>2 DEF BatchCompletion, Bank!IsTransaction

LEMMA AcknowledgeIsConfirm ==
  ASSUME IInv, Acknowledge
  PROVE  Bank!Confirm
<1>1. /\ pc = "Flush" /\ buffer = <<>> /\ confirming # NoCompletion
      /\ confirming \notin abandoned
      /\ acked' = acked \cup {confirming}
      /\ confirming' = NoCompletion /\ pc' = "Select"
      /\ UNCHANGED <<queue, env, buffer, accounts, processed>>
  BY DEF Acknowledge, Confirm
<1>2. /\ Pending # <<>> /\ ~ Bank!IsTransaction(Head(Pending))
      /\ Head(Pending).completion = confirming
      /\ Pending' = Tail(Pending)
  BY <1>1, FlushedIsFirst, PendingNext
<1>3. Running /\ UNCHANGED Running
  BY <1>1 DEF Running
<1>4. Answers' = Answers
  BY <1>1 DEF Answers
<1>5. UNCHANGED <<accounts, senders, cancelled, listening, abandoned>>
  BY <1>1 DEF env
<1>6. QED
  BY <1>1, <1>2, <1>3, <1>4, <1>5 DEF Bank!Confirm, Bank!callers

LEMMA AcknowledgeFailsIsClosing ==
  ASSUME IInv, AcknowledgeFails
  PROVE  Bank!CloseUnheard
<1>1. /\ pc = "Flush" /\ buffer = <<>> /\ confirming \in abandoned /\ Stop("Failed")
      /\ UNCHANGED <<env, accounts, acked, processed>>
  BY DEF AcknowledgeFails
<1>2. Bank!Close
  BY <1>1, StopIsClose
<1>3. confirming # NoCompletion
  BY <1>1, NoCompletionAssumption DEF IInv, TypeOK
<1>4. /\ Pending # <<>> /\ ~ Bank!IsTransaction(Head(Pending))
      /\ Head(Pending).completion \in abandoned
  BY <1>1, <1>3, FlushedIsFirst
<1>5. Answers' = Answers
  BY <1>1 DEF Answers
<1>6. QED
  BY <1>1, <1>2, <1>4, <1>5 DEF Bank!CloseUnheard

(* The oldest transaction of the heap is applied and answered, or, when    *)
(* nobody listens, applied as the bank closes.                             *)
LEMMA ApplyOldestIsApply ==
  ASSUME IInv, ApplyOldest
  PROVE  \/ \E n \in Bank!Ready : Bank!Apply(n)
         \/ Bank!CloseUnheard
<1>1. PICK n \in DOMAIN buffer, app \in Application :
        /\ n \in Oldest(buffer)
        /\ app = [ transaction |-> buffer[n],
                   result      |-> ProcessResult(AccountOf(buffer[n].client_id), buffer[n].message),
                   answered    |-> listening,
                   seen        |-> received ]
        /\ accounts' = [c \in DOMAIN accounts \cup {buffer[n].client_id} |->
                          IF c = buffer[n].client_id
                          THEN Processed(AccountOf(c), buffer[n].message) ELSE accounts[c]]
        /\ processed' = Append(processed, app)
        /\ \/ /\ listening /\ buffer' = Without(buffer, n)
              /\ UNCHANGED <<pc, queue, confirming>>
           \/ /\ ~ listening /\ Stop("Failed")
  <2>1. TypeOK /\ PlacesSound /\ \A c \in DOMAIN accounts : Sound(accounts[c])
    BY DEF IInv
  <2>2. QED
    BY <2>1, AppliedOne
<1>2. pc \in {"Flush", "FinalFlush"} /\ UNCHANGED <<env, acked>>
  BY DEF ApplyOldest
<1>3. Running
  BY <1>2 DEF Running
<1>4. n \in Bank!Ready /\ Pending[n].transaction = buffer[n]
  BY <1>1, OldestIsReady DEF IInv
<1>5. UNCHANGED <<acked, senders, cancelled, listening, abandoned>>
  BY <1>2 DEF env
<1>6. /\ \A c : Bank!AccountBefore(c) = AccountOf(c)
      /\ \A acc, msg : Bank!Processed(acc, msg) = Processed(acc, msg)
      /\ \A acc, msg : Bank!ProcessResult(acc, msg) = ProcessResult(acc, msg)
  BY SameAccounts, SameResults
<1>7. Bank!Post(Pending[n].transaction)
  BY <1>1, <1>4, <1>6 DEF Bank!Post
<1>8. CASE listening
  <2>1. /\ buffer' = Without(buffer, n) /\ UNCHANGED <<pc, queue, confirming>>
        /\ UNCHANGED Running
    BY <1>1, <1>8 DEF Running
  <2>2. Pending' = Without(Pending, n)
    <3>1. /\ buffer \in Seq(Messages) /\ queue \in Seq(Envelope)
          /\ confirming \in Completions \cup {NoCompletion}
      BY DEF IInv, TypeOK
    <3>2. Joined(Without(buffer, n), confirming, queue) = Without(Joined(buffer, confirming, queue), n)
      BY <1>1, <3>1, JoinedWithout
    <3>3. QED
      BY <2>1, <3>2, PendingIsJoined, PendingNext
  <2>3. app.answered
    BY <1>1, <1>8
  <2>4. Answers' = Append(Answers, Entry(app))
    BY <1>1, <1>3, <2>3, AnswersStep
  <2>5. Entry(app) = [transaction |-> buffer[n],
                      result |-> ProcessResult(AccountOf(buffer[n].client_id), buffer[n].message)]
    BY <1>1 DEF Entry
  <2>6. Answers' = Append(Answers,
          [transaction |-> Pending[n].transaction,
           result |-> Bank!ProcessResult(Bank!AccountBefore(Pending[n].transaction.client_id),
                                         Pending[n].transaction.message)])
    BY <1>4, <1>6, <2>4, <2>5
  <2>7. Pending' = [j \in 1 .. Len(Pending) - 1 |-> Pending[IF j < n THEN j ELSE j + 1]]
    BY <2>2 DEF Without
  <2>8. Bank!Apply(n)
    BY <1>3, <1>5, <1>7, <1>8, <2>1, <2>6, <2>7 DEF Bank!Apply, Bank!callers
  <2>9. QED
    BY <1>4, <2>8
<1>9. CASE ~ listening
  <2>1. Stop("Failed") /\ ~ app.answered
    BY <1>1, <1>9
  <2>2. Bank!Close
    BY <1>2, <2>1, StopIsClose
  <2>3. Answers' = Answers
    BY <1>1, <1>3, <2>1, AnswersStep
  <2>4. Bank!CloseUnheard
    BY <1>4, <1>7, <1>9, <2>2, <2>3 DEF Bank!CloseUnheard
  <2>5. QED
    BY <2>4
<1>10. QED
  BY <1>8, <1>9

LEMMA TaskStepIsBankStep ==
  ASSUME IInv, TaskStep
  PROVE  [Bank!BankNext]_<<Bank!bank, Bank!callers>>
<1>1. CASE TakeCancelled \/ TakeClosed \/ EndFlush
  BY <1>1, GoToIsUnseen
<1>2. CASE TakeIncoming
  BY <1>2, ReceiveIsUnseen
<1>3. CASE TakeCompletion
  BY <1>3, TakeCompletionIsUnseen
<1>4. CASE ApplyOldest
  BY <1>4, ApplyOldestIsApply DEF Bank!BankNext
<1>5. CASE Acknowledge
  BY <1>5, AcknowledgeIsConfirm DEF Bank!BankNext
<1>6. CASE AcknowledgeFails
  BY <1>6, AcknowledgeFailsIsClosing DEF Bank!BankNext
<1>7. CASE Return
  BY <1>7, ReturnIsClosing DEF Bank!BankNext
<1>8. QED
  BY <1>1, <1>2, <1>3, <1>4, <1>5, <1>6, <1>7 DEF TaskStep

LEMMA EnvironmentStepIsBankStep ==
  ASSUME IInv, EnvironmentStep
  PROVE  [Bank!BankNext]_<<Bank!bank, Bank!callers>>
<1>1. ASSUME NEW tx \in Messages, Send(tx) PROVE Bank!BankNext
  <2>1. senders /\ Running /\ queue' = Append(queue, Incoming(tx)) /\ UNCHANGED <<env, task>>
    BY <1>1 DEF Send
  <2>2. Incoming(tx) \in Envelope
    BY DEF Envelope
  <2>3. Bank!Submit(Incoming(tx))
    BY <2>1, <2>2, SendIsSubmit
  <2>4. QED
    BY <2>3 DEF Bank!BankNext, Incoming
<1>2. ASSUME NEW k \in Completions, SendCompletion(k) PROVE Bank!BankNext
  <2>1. senders /\ Running /\ queue' = Append(queue, BatchCompletion(k)) /\ UNCHANGED <<env, task>>
    BY <1>2 DEF SendCompletion
  <2>2. BatchCompletion(k) \in Envelope
    BY DEF Envelope
  <2>3. Bank!Submit(BatchCompletion(k))
    BY <2>1, <2>2, SendIsSubmit
  <2>4. QED
    BY <2>3 DEF Bank!BankNext, BatchCompletion
<1>3. ASSUME UNCHANGED <<queue, task>>,
             cancelled => cancelled', senders' => senders, listening' => listening,
             abandoned \subseteq abandoned'
      PROVE  Bank!BankNext
  <2>1. UNCHANGED <<queue, pc, confirming, buffer, accounts, acked, processed>>
    BY <1>3 DEF task
  <2>2. UNCHANGED <<Pending, Answers, Running>>
    BY <2>1 DEF Pending, Answers, Running
  <2>3. UNCHANGED Bank!bank
    BY <2>1, <2>2 DEF Bank!bank
  <2>4. Bank!Callers
    BY <1>3, <2>3 DEF Bank!Callers
  <2>5. QED
    BY <2>4 DEF Bank!BankNext
<1>4. QED
  BY <1>1, <1>2, <1>3, Surroundings

LEMMA InitIsBankInit ==
  ASSUME Init
  PROVE  Bank!BankInit
<1>1. Pending = <<>>
  BY PendingIsJoined, JoinedEmpty DEF Init
<1>2. Answers = <<>>
  <2>1. {i \in 1 .. Len(processed) : processed[i].answered} = 1 .. 0
    BY DEF Init
  <2>2. Cardinality({i \in 1 .. Len(processed) : processed[i].answered}) = 0
    BY <2>1, HeardFirst
  <2>3. Answers = [i \in 1 .. 0 |-> [transaction |-> processed[i].transaction,
                                    result |-> processed[i].result]]
    BY <2>2 DEF Answers
  <2>4. QED
    BY <2>3
<1>3. Running = TRUE
  BY DEF Init, Running
<1>4. QED
  BY <1>1, <1>2, <1>3 DEF Init, Bank!BankInit

(* The task of the service, with its batches, its heap and its selection,  *)
(* keeps the promise that Bank.tla states to those at its channels.        *)
THEOREM ServiceImplementsBank == Spec => ImplementsBank
<1>1. Init => Bank!BankInit
  BY InitIsBankInit
<1>2. IInv /\ [Next]_vars => [Bank!BankNext]_<<Bank!bank, Bank!callers>>
  <2>1. ASSUME IInv, Next PROVE [Bank!BankNext]_<<Bank!bank, Bank!callers>>
    BY <2>1, TaskStepIsBankStep, EnvironmentStepIsBankStep DEF Next
  <2>2. ASSUME UNCHANGED vars PROVE UNCHANGED <<Bank!bank, Bank!callers>>
    <3>1. UNCHANGED <<queue, confirming, buffer, pc, accounts, processed, acked, env>>
      BY <2>2 DEF vars
    <3>2. UNCHANGED <<Pending, Running>>
      BY <3>1 DEF Pending, Running
    <3>3. QED
      BY <3>1, <3>2, UnseenStep
  <2>3. QED
    BY <2>1, <2>2
<1>3. QED
  BY <1>1, <1>2, Invariance, PTL DEF Spec, ImplementsBank, Bank!BankSpec

=============================================================================
