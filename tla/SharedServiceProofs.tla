------------------------- MODULE SharedServiceProofs -------------------------
(***************************************************************************)
(* Proofs about a snapshot that is written while the service is at work,   *)
(* for every set of clients, of messages and of completions, every batch   *)
(* size, and every number of shards.                                       *)
(***************************************************************************)
EXTENDS SharedService, ServiceProofs

-----------------------------------------------------------------------------
(***************************************************************************)
(* The service, seen from the snapshot.                                    *)
(***************************************************************************)

(* A caller of write_snapshot changes nothing of the service.              *)
LEMMA ServiceSteps == [SharedNext]_sharedVars => [Next]_vars
BY DEF SharedNext, sharedVars, SharedTaskStep, Begin, ReaderStep, Next

(* With it, the service keeps its invariant.                               *)
THEOREM ServiceInvariance == SharedSpec => []IInv
<1>1. SharedInit => IInv
  BY InitInvariant DEF SharedInit
<1>2. IInv /\ [SharedNext]_sharedVars => IInv'
  BY ServiceSteps, StepInvariant
<1>3. QED
  BY <1>1, <1>2, PTL DEF SharedSpec

(* Those at the channels of the service see nothing of a snapshot: the     *)
(* promise of Bank.tla is kept while one is written.                       *)
THEOREM SharedServiceImplementsBank == SharedSpec => ImplementsBank
<1>1. SharedInit => Init
  BY DEF SharedInit
<1>2. SharedSpec => Spec
  BY <1>1, ServiceSteps, PTL DEF SharedSpec, Spec
<1>3. QED
  BY <1>2, ServiceImplementsBank, PTL

(* A step of the service applies one transaction, or none.                 *)
LEMMA ServiceApplies ==
  ASSUME IInv, (SharedTaskStep \/ EnvironmentStep)
  PROVE  \/ UNCHANGED <<processed, accounts>>
         \/ /\ Len(processed) \in Nat /\ Len(processed') = Len(processed) + 1
            /\ \A i \in 1 .. Len(processed) : processed'[i] = processed[i]
            /\ LET tx == processed'[Len(processed')].transaction IN
                 /\ accounts' = AfterTransaction(accounts, tx)
                 /\ ShardOf[tx.client_id] # shard
<1>1. CASE EnvironmentStep
  BY <1>1, Surroundings DEF task, Send, SendCompletion
<1>2. CASE TaskStep /\ ~ ApplyOldest
  BY <1>2 DEF TaskStep, TakeCancelled, TakeClosed, TakeIncoming, Receive, TakeCompletion, GoTo,
     EndFlush, Acknowledge, Confirm, AcknowledgeFails, Return
<1>3. CASE ApplyOldest /\ Unguarded
  <2>1. PICK tx, r :
          /\ accounts' = [c \in DOMAIN accounts \cup {tx.client_id} |->
                            IF c = tx.client_id
                            THEN Processed(AccountOf(c), tx.message)
                            ELSE accounts[c]]
          /\ processed' = Append(processed, r) /\ r.transaction = tx
    BY <1>3 DEF ApplyOldest
  <2>2. accounts' = AfterTransaction(accounts, tx)
    BY <2>1 DEF AfterTransaction, AccountOf
  <2>3. processed \in Seq(Application)
    BY DEF IInv, TypeOK
  <2>4. /\ Len(processed) \in Nat /\ Len(processed') = Len(processed) + 1
        /\ \A j \in 1 .. Len(processed) : processed'[j] = processed[j]
        /\ processed'[Len(processed')] = r
    BY <2>1, <2>3
  <2>5. processed' # processed
    BY <2>4
  <2>6. QED
    BY <1>3, <2>1, <2>2, <2>4, <2>5 DEF Unguarded
<1>4. QED
  BY <1>1, <1>2, <1>3 DEF SharedTaskStep

-----------------------------------------------------------------------------
(***************************************************************************)
(* The snapshot.                                                           *)
(***************************************************************************)

(* The moments, in the types they have.                                    *)
LEMMA MomentsTyped ==
  ASSUME IInv, ReaderSound
  PROVE  /\ Len(processed) \in Nat /\ Len(moments) \in Nat
         /\ DOMAIN moments = 1 .. Len(moments)
         /\ \A s \in DOMAIN moments : moments[s] \in 0 .. Len(processed)
         /\ Len(lines) \in Nat /\ DOMAIN lines = 1 .. Len(lines)
<1>1. processed \in Seq(Application)
  BY DEF IInv, TypeOK
<1>2. moments \in Seq(0 .. Len(processed)) /\ lines \in Seq(Snapshot!Line)
  BY DEF ReaderSound
<1>3. QED
  BY <1>1, <1>2

(* Whatever the service does while a shard is being read, it does          *)
(* elsewhere: no moment that was read changes, and the accounts of the     *)
(* guarded shard stay what they were.                                      *)
LEMMA ServiceKeepsReader ==
  ASSUME IInv, ReaderSound, SharedTaskStep \/ (EnvironmentStep /\ UNCHANGED reader)
  PROVE  ReaderSound'
<1>1. UNCHANGED <<snapshot, shard, lines, moments>>
  BY DEF SharedTaskStep, reader
<1>2. /\ Len(processed) \in Nat /\ Len(moments) \in Nat
      /\ DOMAIN moments = 1 .. Len(moments)
      /\ \A s \in DOMAIN moments : moments[s] \in 0 .. Len(processed)
  BY MomentsTyped
<1>3. CASE UNCHANGED <<processed, accounts>>
  <2>1. \A s : Then(s)' = Then(s) /\ There(s)' = There(s) /\ WasRead(s)' = WasRead(s)
    BY <1>1, <1>3 DEF Then, There, WasRead, AccountsSoFar
  <2>2. AccountsSoFar' = AccountsSoFar
    BY <1>3 DEF AccountsSoFar
  <2>3. Snapshot!Listed' = Snapshot!Listed /\ Snapshot!Here' = Snapshot!Here
    BY <1>1, <1>3 DEF Snapshot!Listed, Snapshot!Here
  <2>4. QED
    BY <1>1, <1>3, <2>1, <2>2, <2>3 DEF ReaderSound
<1>4. ASSUME NEW tx,
             accounts' = AfterTransaction(accounts, tx),
             Len(processed') = Len(processed) + 1,
             \A i \in 1 .. Len(processed) : processed'[i] = processed[i],
             tx = processed'[Len(processed')].transaction,
             ShardOf[tx.client_id] # shard
      PROVE  ReaderSound'
  <2> DEFINE p == [i \in 1 .. Len(processed) |-> processed[i].transaction]
             q == [i \in 1 .. Len(processed') |-> processed'[i].transaction]
  <2>1. \A n \in 0 .. Len(processed) : AccountsSoFar'[n] = AccountsSoFar[n]
    <3>1. Len(processed') \in Nat /\ Len(processed) <= Len(processed')
      BY <1>2, <1>4
    <3>2. \A i \in 1 .. Len(processed) : q[i] = p[i]
      BY <1>2, <1>4, <3>1
    <3> HIDE DEF p, q
    <3>3. \A n \in 0 .. Len(processed) :
            AccountsAfter(q, Len(processed'))[n] = AccountsAfter(p, Len(processed))[n]
      BY <1>2, <3>1, <3>2, AccountsAfterPrefix
    <3>4. QED
      BY <3>3 DEF AccountsSoFar, p, q
  <2>2. accounts' = AccountsSoFar'[Len(processed')]
    <3>1. accounts = AccountsSoFar'[Len(processed)]
      BY <1>2, <2>1 DEF ReaderSound
    <3>2. /\ Len(processed') \in Nat /\ Len(processed') \in 1 .. Len(processed')
          /\ Len(processed') - 1 = Len(processed)
      BY <1>2, <1>4
    <3>3. q[Len(processed')] = tx
      BY <1>4, <3>2
    <3> HIDE DEF p, q
    <3>4. AccountsAfter(q, Len(processed'))[Len(processed')]
            = AfterTransaction(AccountsAfter(q, Len(processed'))[Len(processed') - 1],
                               q[Len(processed')])
      BY <3>2, AccountsAfterUnfold
    <3>5. AccountsSoFar' = AccountsAfter(q, Len(processed'))
      BY DEF AccountsSoFar, q
    <3>6. QED
      BY <1>4, <3>1, <3>2, <3>3, <3>4, <3>5
  <2>3. \A s \in DOMAIN moments : Then(s)' = Then(s) /\ There(s)' = There(s)
    BY <1>1, <1>2, <2>1 DEF Then, There
  <2>4. \A s : WasRead(s)' = WasRead(s)
    BY <1>1 DEF WasRead
  <2>5. Snapshot!Listed' = Snapshot!Listed
    BY <1>1 DEF Snapshot!Listed
  <2>6. Snapshot!Here' = Snapshot!Here /\ \A c \in Snapshot!Here : accounts'[c] = accounts[c]
    BY <1>1, <1>4 DEF AfterTransaction, Snapshot!Here
  <2>7. moments' \in Seq(0 .. Len(processed'))
    <3>1. moments \in Seq(0 .. Len(processed))
      BY DEF ReaderSound
    <3>2. 0 .. Len(processed) \subseteq 0 .. Len(processed')
      BY <1>2, <1>4
    <3>3. QED
      BY <1>1, <3>1, <3>2, SeqMonotonic
  <2>8. snapshot = "Rows" => shard \in DOMAIN moments
    <3>1. snapshot = "Rows" => shard = Len(moments) /\ moments # <<>>
      BY DEF ReaderSound
    <3>2. moments # <<>> => Len(moments) \in DOMAIN moments
      BY <1>2
    <3>3. QED
      BY <3>1, <3>2
  <2>9. snapshot' = "Rows" =>
          /\ There(shard)' = Snapshot!Here'
          /\ \A c \in Snapshot!Here' : accounts'[c] = Then(shard)'[c]
    BY <1>1, <2>3, <2>6, <2>8 DEF ReaderSound
  <2>10. QED
    BY <1>1, <2>2, <2>3, <2>4, <2>5, <2>7, <2>9 DEF ReaderSound
<1>5. QED
  BY <1>3, <1>4, ServiceApplies

(* An account makes a line.                                                *)
LEMMA RowType ==
  ASSUME IInv, NEW c \in DOMAIN accounts
  PROVE  Snapshot!Row(c) \in Snapshot!Line
<1>1. c \in ClientId
  BY DEF IInv, TypeOK
<1>2. IsAccount(accounts[c])
  BY DEF IInv, Sound
<1>3. QED
  BY <1>1, <1>2 DEF Snapshot!Row, Snapshot!Statement, Snapshot!Line, IsAccount

(* The caller's own steps: a guard is taken where the accounts are those   *)
(* of now, a line is written of an account of the guarded shard that has   *)
(* none, and a shard is left when all its accounts have one.               *)
LEMMA ReaderKeepsReader ==
  ASSUME IInv, ReaderSound, Begin \/ ReaderStep
  PROVE  ReaderSound'
<1>1. UNCHANGED <<processed, accounts, AccountsSoFar>>
  BY DEF Begin, ReaderStep, vars, AccountsSoFar
<1>2. /\ Len(processed) \in Nat /\ Len(moments) \in Nat
      /\ DOMAIN moments = 1 .. Len(moments)
      /\ \A s \in DOMAIN moments : moments[s] \in 0 .. Len(processed)
      /\ Len(lines) \in Nat /\ DOMAIN lines = 1 .. Len(lines)
      /\ lines \in Seq(Snapshot!Line) /\ moments \in Seq(0 .. Len(processed))
  BY MomentsTyped DEF ReaderSound
<1>3. Snapshot!Here = {c \in DOMAIN accounts : ShardOf[c] = shard}
  BY DEF Snapshot!Here
<1>4. CASE Begin
  <2>1. /\ snapshot = "Idle" /\ snapshot' = "Header"
        /\ UNCHANGED <<shard, lines, moments>>
    BY <1>4 DEF Begin, Snapshot!Begin
  <2>2. lines = <<>> /\ moments = <<>>
    BY <2>1 DEF ReaderSound
  <2>3. DOMAIN lines = {} /\ DOMAIN moments = {}
    BY <2>2
  <2>4. QED
    BY <1>1, <2>1, <2>2, <2>3 DEF ReaderSound
<1>5. ASSUME moments' = Append(moments, Len(processed))
      PROVE  /\ moments' \in Seq(0 .. Len(processed)) /\ moments' # <<>>
             /\ Len(moments') = Len(moments) + 1
             /\ DOMAIN moments' = 1 .. Len(moments) + 1
             /\ \A s \in DOMAIN moments : Then(s)' = Then(s) /\ There(s)' = There(s)
             /\ \A s : s = Len(moments) + 1 => Then(s)' = accounts
  <2>1. /\ moments' \in Seq(0 .. Len(processed)) /\ moments' # <<>>
        /\ Len(moments') = Len(moments) + 1
        /\ DOMAIN moments' = 1 .. Len(moments) + 1
        /\ \A s \in DOMAIN moments : moments'[s] = moments[s]
        /\ moments'[Len(moments) + 1] = Len(processed)
    BY <1>2, <1>5
  <2>2. accounts = AccountsSoFar[Len(processed)]
    BY DEF ReaderSound
  <2>3. QED
    <3>1. \A s : s = Len(moments) + 1 => Then(s)' = accounts
      BY <1>1, <2>1, <2>2 DEF Then
    <3>2. \A s \in DOMAIN moments : Then(s)' = Then(s) /\ There(s)' = There(s)
      BY <1>1, <2>1 DEF Then, There
    <3>3. QED
      BY <2>1, <3>1, <3>2
<1>6. CASE ReaderStep /\ Snapshot!WriteHeader
  <2>1. /\ snapshot = "Header" /\ snapshot' = "Rows" /\ shard' = 1
        /\ lines' = Append(lines, Snapshot!Header)
    BY <1>6 DEF Snapshot!WriteHeader, Snapshot!Write
  <2>2. lines = <<>> /\ moments = <<>> /\ shard = 0
    BY <2>1 DEF ReaderSound
  <2>3. moments' = Append(moments, Len(processed))
    BY <1>6, <2>1, <2>2 DEF ReaderStep
  <2>4. Len(moments) = 0 /\ Len(lines) = 0
    BY <2>2
  <2>5. Snapshot!Header \in Snapshot!Line /\ Snapshot!Header.kind = "header"
    BY DEF Snapshot!Header, Snapshot!Line
  <2>6. /\ lines' \in Seq(Snapshot!Line) /\ DOMAIN lines' = {1}
        /\ lines'[1].kind = "header"
    BY <1>2, <2>1, <2>4, <2>5
  <2>7. /\ moments' \in Seq(0 .. Len(processed)) /\ moments' # <<>>
        /\ Len(moments') = 1 /\ DOMAIN moments' = {1} /\ Then(1)' = accounts
    <3>1. Len(moments) + 1 = 1 /\ 1 .. Len(moments) + 1 = {1}
      BY <2>4
    <3>2. QED
      BY <1>5, <2>3, <3>1
  <2>8. There(1)' = Snapshot!Here'
    BY <1>1, <2>1, <2>7 DEF There, Snapshot!Here
  <2>9. \A c \in Snapshot!Here' : accounts'[c] = Then(shard)'[c]
    BY <1>1, <2>1, <2>7
  <2>10. \A s \in DOMAIN moments' : ~ WasRead(s)'
    BY <2>1, <2>7 DEF WasRead
  <2>11. QED
    BY <1>1, <2>1, <2>6, <2>7, <2>8, <2>9, <2>10, ShardsAssumption DEF ReaderSound
<1>7. CASE ReaderStep /\ Snapshot!WriteRow
  <2>1. PICK c \in Snapshot!Here \ Snapshot!Listed :
          /\ snapshot = "Rows" /\ UNCHANGED <<snapshot, shard>>
          /\ lines' = Append(lines, Snapshot!Row(c))
    BY <1>7 DEF Snapshot!WriteRow, Snapshot!Write
  <2>2. moments' = moments
    BY <1>7, <2>1 DEF ReaderStep
  <2>3. \A s : Then(s)' = Then(s) /\ There(s)' = There(s) /\ WasRead(s)' = WasRead(s)
    BY <1>1, <2>1, <2>2 DEF Then, There, WasRead
  <2>4. /\ Snapshot!Row(c) \in Snapshot!Line /\ Snapshot!Row(c).kind = "row"
        /\ Snapshot!Row(c).client = c
        /\ Snapshot!Row(c).statement = Snapshot!Statement(accounts[c])
    BY <1>3, RowType DEF Snapshot!Row
  <2>5. /\ lines' \in Seq(Snapshot!Line) /\ DOMAIN lines' = 1 .. Len(lines) + 1
        /\ \A i \in 1 .. Len(lines) : lines'[i] = lines[i]
        /\ lines'[Len(lines) + 1] = Snapshot!Row(c)
    BY <1>2, <2>1, <2>4
  <2>6. shard \in DOMAIN moments /\ ShardOf[c] = shard /\ c \in There(shard)
        /\ accounts[c] = Then(shard)[c]
    <3>1. shard = Len(moments) /\ moments # <<>>
      BY <2>1 DEF ReaderSound
    <3>2. shard \in DOMAIN moments
      BY <1>2, <3>1
    <3>3. QED
      BY <1>3, <2>1, <3>2 DEF ReaderSound
  <2>7. \A i \in 1 .. Len(lines) : lines[i].kind = "row" => lines[i].client # c
    BY <1>2, <2>1 DEF Snapshot!Listed
  <2>8. \A i \in DOMAIN lines' : lines'[i].kind = "row" =>
          /\ ShardOf[lines'[i].client] \in DOMAIN moments
          /\ lines'[i].client \in There(ShardOf[lines'[i].client])
          /\ lines'[i].statement =
               Snapshot!Statement(Then(ShardOf[lines'[i].client])[lines'[i].client])
    <3>1. ASSUME NEW i \in 1 .. Len(lines), lines[i].kind = "row"
          PROVE  /\ ShardOf[lines[i].client] \in DOMAIN moments
                 /\ lines[i].client \in There(ShardOf[lines[i].client])
                 /\ lines[i].statement =
                      Snapshot!Statement(Then(ShardOf[lines[i].client])[lines[i].client])
      BY <1>2, <3>1 DEF ReaderSound
    <3>2. \A i \in DOMAIN lines' : i \in 1 .. Len(lines) \/ i = Len(lines) + 1
      BY <1>2, <2>5
    <3>3. QED
      BY <2>4, <2>5, <2>6, <3>1, <3>2
  <2>9. ASSUME NEW i \in DOMAIN lines', NEW j \in DOMAIN lines',
               lines'[i].kind = "row", lines'[j].kind = "row",
               lines'[i].client = lines'[j].client
        PROVE  i = j
    <3>1. (i \in 1 .. Len(lines) \/ i = Len(lines) + 1)
            /\ (j \in 1 .. Len(lines) \/ j = Len(lines) + 1)
      BY <1>2, <2>5
    <3>2. CASE i \in 1 .. Len(lines) /\ j \in 1 .. Len(lines)
      BY <1>2, <2>5, <2>9, <3>2 DEF ReaderSound
    <3>3. QED
      BY <2>4, <2>5, <2>7, <2>9, <3>1, <3>2
  <2>10. Snapshot!Listed \subseteq Snapshot!Listed'
    <3>1. \A i \in DOMAIN lines : i \in DOMAIN lines' /\ lines'[i] = lines[i]
      BY <1>2, <2>5
    <3>2. QED
      BY <3>1 DEF Snapshot!Listed
  <2>11. Snapshot!Here' = Snapshot!Here
    BY <1>1, <2>1 DEF Snapshot!Here
  <2>12. QED
    BY <1>1, <2>1, <2>2, <2>3, <2>5, <2>8, <2>9, <2>10, <2>11 DEF ReaderSound
<1>8. ASSUME snapshot = "Rows", Snapshot!Here \subseteq Snapshot!Listed
      PROVE  /\ shard = Len(moments)
             /\ \A s \in DOMAIN moments : There(s) \subseteq Snapshot!Listed
  <2>1. shard = Len(moments) /\ There(shard) = Snapshot!Here
    BY <1>8 DEF ReaderSound
  <2>2. \A s \in DOMAIN moments : s < Len(moments) \/ s = Len(moments)
    BY <1>2
  <2>3. QED
    BY <1>8, <2>1, <2>2 DEF ReaderSound, WasRead
<1>9. CASE ReaderStep /\ Snapshot!NextShard /\ shard < Shards
  <2>1. /\ snapshot = "Rows" /\ snapshot' = "Rows" /\ shard' = shard + 1 /\ lines' = lines
        /\ Snapshot!Here \subseteq Snapshot!Listed
    BY <1>9 DEF Snapshot!NextShard
  <2>2. /\ shard = Len(moments)
        /\ \A s \in DOMAIN moments : There(s) \subseteq Snapshot!Listed
    BY <1>8, <2>1
  <2>3. moments' = Append(moments, Len(processed))
    <3>1. shard' \notin {0, shard}
      <4>1. shard \in Nat /\ shard' = shard + 1
        BY <1>2, <2>1, <2>2
      <4>2. QED
        BY <4>1
    <3>2. QED
      BY <1>9, <3>1 DEF ReaderStep
  <2>4. /\ moments' \in Seq(0 .. Len(processed)) /\ moments' # <<>>
        /\ Len(moments') = Len(moments) + 1
        /\ DOMAIN moments' = 1 .. Len(moments) + 1
        /\ \A s \in DOMAIN moments : Then(s)' = Then(s) /\ There(s)' = There(s)
        /\ Then(shard)' = accounts
    BY <1>5, <2>1, <2>2, <2>3
  <2>5. There(shard)' = Snapshot!Here'
    BY <1>1, <2>1, <2>4 DEF There, Snapshot!Here
  <2>6. Snapshot!Listed' = Snapshot!Listed
    BY <2>1 DEF Snapshot!Listed
  <2>7. \A s \in DOMAIN moments' : WasRead(s)' => There(s)' \subseteq Snapshot!Listed'
    <3>1. \A s \in DOMAIN moments' : WasRead(s)' => s \in DOMAIN moments
      BY <1>2, <2>1, <2>4 DEF WasRead
    <3>2. QED
      BY <2>2, <2>4, <2>6, <3>1
  <2>8. DOMAIN moments \subseteq DOMAIN moments' /\ Len(moments') <= Shards
    BY <1>2, <1>9, <2>2, <2>4, ShardsAssumption
  <2>9. (\A i \in DOMAIN lines : lines[i].kind = "row" =>
           /\ ShardOf[lines[i].client] \in DOMAIN moments
           /\ lines[i].client \in There(ShardOf[lines[i].client])
           /\ lines[i].statement =
                Snapshot!Statement(Then(ShardOf[lines[i].client])[lines[i].client]))'
    BY <2>1, <2>4, <2>8 DEF ReaderSound
  <2>10. QED
    BY <1>1, <2>1, <2>2, <2>4, <2>5, <2>7, <2>8, <2>9 DEF ReaderSound
<1>10. ASSUME UNCHANGED <<lines, moments>>, shard' = 0,
              snapshot' \in {"Flush", "Done", "Failed"},
              snapshot \in {"Rows", "Flush"} \/ snapshot' = "Failed",
              \A s \in DOMAIN moments : WasRead(s)' => There(s) \subseteq Snapshot!Listed
       PROVE  ReaderSound'
  <2>1. \A s : Then(s)' = Then(s) /\ There(s)' = There(s)
    BY <1>1, <1>10 DEF Then, There
  <2>2. Snapshot!Listed' = Snapshot!Listed
    BY <1>10 DEF Snapshot!Listed
  <2>3. QED
    BY <1>1, <1>10, <2>1, <2>2 DEF ReaderSound
<1>11. CASE ReaderStep /\ Snapshot!NextShard /\ ~ (shard < Shards)
  <2>1. /\ snapshot = "Rows" /\ snapshot' = "Flush" /\ shard' = 0 /\ lines' = lines
        /\ Snapshot!Here \subseteq Snapshot!Listed
    BY <1>11 DEF Snapshot!NextShard
  <2>2. moments' = moments
    BY <1>11, <2>1 DEF ReaderStep
  <2>3. QED
    BY <1>8, <1>10, <2>1, <2>2
<1>12. CASE ReaderStep /\ (Snapshot!Flush \/ Snapshot!Fail)
  <2>1. /\ lines' = lines /\ shard' = 0
        /\ \/ snapshot = "Flush" /\ snapshot' = "Done"
           \/ snapshot' = "Failed"
    BY <1>12 DEF Snapshot!Flush, Snapshot!Fail, ReaderSound
  <2>2. moments' = moments
    BY <1>12, <2>1 DEF ReaderStep
  <2>3. \A s \in DOMAIN moments : WasRead(s)' => WasRead(s)
    BY <2>1, <2>2 DEF WasRead
  <2>4. \A s \in DOMAIN moments : WasRead(s)' => There(s) \subseteq Snapshot!Listed
    BY <2>3 DEF ReaderSound
  <2>5. QED
    BY <1>10, <2>1, <2>2, <2>4
<1>13. QED
  BY <1>4, <1>6, <1>7, <1>9, <1>11, <1>12 DEF ReaderStep, Snapshot!SnapshotStep

(* A snapshot beside a service at work: what it says of each shard is what *)
(* the accounts of the shard were at the moment its guard was taken.       *)
THEOREM ReaderInvariance == SharedSpec => []ReaderSound
<1>1. SharedInit => ReaderSound
  <2>1. SUFFICES ASSUME SharedInit PROVE ReaderSound
    OBVIOUS
  <2>2. /\ snapshot = "Idle" /\ shard = 0 /\ lines = <<>> /\ moments = <<>>
        /\ processed = <<>> /\ accounts = [c \in {} |-> NewAccount]
    BY <2>1 DEF SharedInit, Init, Snapshot!Init
  <2>3. /\ Len(processed) = 0 /\ Len(moments) = 0 /\ DOMAIN lines = {} /\ DOMAIN moments = {}
    BY <2>2
  <2>4. accounts = AccountsSoFar[Len(processed)]
    BY <2>2, <2>3, AccountsAfterUnfold DEF AccountsSoFar
  <2>5. /\ lines \in Seq(Snapshot!Line) /\ moments \in Seq(0 .. Len(processed))
        /\ Len(moments) <= Shards
    BY <2>2, <2>3, ShardsAssumption
  <2>6. QED
    BY <2>2, <2>3, <2>4, <2>5 DEF ReaderSound
<1>2. IInv /\ ReaderSound /\ [SharedNext]_sharedVars => ReaderSound'
  <2>1. SUFFICES ASSUME IInv, ReaderSound, [SharedNext]_sharedVars PROVE ReaderSound'
    OBVIOUS
  <2>2. CASE SharedNext
    BY <2>1, <2>2, ServiceKeepsReader, ReaderKeepsReader DEF SharedNext
  <2>3. CASE UNCHANGED sharedVars
    <3>1. UNCHANGED <<processed, accounts, snapshot, shard, lines, moments>>
      BY <2>3 DEF sharedVars, vars, reader
    <3>2. AccountsSoFar' = AccountsSoFar
      BY <3>1 DEF AccountsSoFar
    <3>3. \A s : Then(s)' = Then(s) /\ There(s)' = There(s) /\ WasRead(s)' = WasRead(s)
      BY <3>1, <3>2 DEF Then, There, WasRead
    <3>4. Snapshot!Listed' = Snapshot!Listed /\ Snapshot!Here' = Snapshot!Here
      BY <3>1 DEF Snapshot!Listed, Snapshot!Here
    <3>5. QED
      BY <2>1, <3>1, <3>2, <3>3, <3>4 DEF ReaderSound
  <2>4. QED
    BY <2>1, <2>2, <2>3
<1>3. QED
  BY <1>1, <1>2, ServiceInvariance, PTL DEF SharedSpec

(* The lines of a shard are as many as its accounts when each account has  *)
(* a line and no two lines are of one.                                     *)
LEMMA RowsCounted ==
  ASSUME ReaderSound, NEW s \in DOMAIN moments, WasRead(s)
  PROVE  Cardinality(RowsOf(s)) = Cardinality(There(s))
<1> DEFINE f == [i \in RowsOf(s) |-> lines[i].client]
<1>1. lines \in Seq(Snapshot!Line) /\ Len(lines) \in Nat /\ DOMAIN lines = 1 .. Len(lines)
  BY DEF ReaderSound
<1>2. IsFiniteSet(RowsOf(s))
  <2>1. IsFiniteSet(1 .. Len(lines))
    BY <1>1, FS_Interval
  <2>2. QED
    BY <1>1, <2>1, FS_Subset DEF RowsOf
<1>3. f \in [RowsOf(s) -> There(s)] /\ \A i, j \in RowsOf(s) : f[i] = f[j] => i = j
  BY DEF ReaderSound, RowsOf
<1>4. ASSUME NEW c \in There(s)
      PROVE  \E i \in RowsOf(s) : f[i] = c
  <2>1. c \in Snapshot!Listed /\ ShardOf[c] = s
    BY DEF ReaderSound, There
  <2>2. QED
    BY <2>1 DEF Snapshot!Listed, RowsOf
<1>5. f \in Bijection(RowsOf(s), There(s))
  BY <1>3, <1>4 DEF Bijection, Injection, Surjection, IsInjective
<1>6. ExistsBijection(RowsOf(s), There(s))
  BY <1>5 DEF ExistsBijection
<1>7. QED
  BY <1>2, <1>6, FS_Bijection

(* Service::write_snapshot, called at any moment: every shard it has read  *)
(* is complete, has no account twice, and is true of one moment.           *)
THEOREM ShardsStayTrue == SharedSpec => []ShardsAreRead
<1>1. ReaderSound => ShardsAreRead
  <2>1. SUFFICES ASSUME ReaderSound, NEW s \in DOMAIN moments
                 PROVE  /\ \A i \in RowsOf(s) :
                             /\ lines[i].client \in There(s)
                             /\ lines[i].statement
                                  = Snapshot!Statement(Then(s)[lines[i].client])
                        /\ \A i, j \in RowsOf(s) : lines[i].client = lines[j].client => i = j
                        /\ WasRead(s) => Cardinality(RowsOf(s)) = Cardinality(There(s))
    BY DEF ShardsAreRead
  <2>2. QED
    BY <2>1, RowsCounted DEF ReaderSound, RowsOf
<1>2. QED
  BY <1>1, ReaderInvariance, PTL

=============================================================================
