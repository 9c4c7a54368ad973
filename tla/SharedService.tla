---------------------------- MODULE SharedService ----------------------------
(***************************************************************************)
(* The service as an Arc lets it be used: its task runs while a caller of  *)
(* write_snapshot reads the same map of accounts.  The two meet at the     *)
(* locks of the map's shards.  entry() in handle_buffer waits for the      *)
(* shard whose guard the snapshot holds, and it waits by blocking its      *)
(* thread; the runtime has another thread that goes on with the snapshot   *)
(* (a runtime with a single thread would stop there for good).             *)
(*                                                                         *)
(* The other way round nothing can be seen: handle_buffer holds the guard  *)
(* of an account from entry() to the end of the loop turn, without an      *)
(* await, which is the single step ApplyOldest.  Output that is handed on  *)
(* before the flush is left out: no property here is about it.             *)
(***************************************************************************)
EXTENDS Service

CONSTANTS Shards, ShardOf     \* see Snapshot.tla

ASSUME ShardsAssumption == Shards \in Nat \ {0} /\ ShardOf \in [ClientId -> 1 .. Shards]

VARIABLES
  snapshot, shard, lines, delivered,    \* see Snapshot.tla
  moments       \* history: how much had been applied when each guard was taken

Snapshot == INSTANCE Snapshot

reader == <<snapshot, shard, lines, delivered, moments>>
sharedVars == <<vars, reader>>

SharedInit == Init /\ Snapshot!Init /\ moments = <<>>

(* Faulty variant: the snapshot lets go of the guard at every await.       *)
UnguardedAlways == TRUE

(* The account that a step of the task changes is in no guarded shard.     *)
Unguarded ==
  processed' # processed =>
    ShardOf[processed'[Len(processed')].transaction.client_id] # shard

SharedTaskStep == TaskStep /\ Unguarded /\ UNCHANGED reader

Begin == Snapshot!Begin /\ UNCHANGED <<vars, moments>>

(* Faulty variant: the iterator takes a guard of the shard it is in once   *)
(* more, from locks that let a waiting flush go first.                     *)
ReaderStepBehindFlush ==
  /\ \A i \in DOMAIN buffer : pc = "Flush" => ShardOf[buffer[i].client_id] # shard
  /\ Snapshot!SnapshotStep
  /\ moments' = IF shard' \in {0, shard} THEN moments ELSE Append(moments, Len(processed))
  /\ UNCHANGED vars

ReaderStep ==
  /\ Snapshot!SnapshotStep
  /\ moments' = IF shard' \in {0, shard} THEN moments ELSE Append(moments, Len(processed))
  /\ UNCHANGED vars

SharedNext ==
  \/ SharedTaskStep
  \/ EnvironmentStep /\ UNCHANGED reader
  \/ Begin
  \/ ReaderStep

(* Both are polled while they can make a step; writes come to an end.      *)
SharedSpec ==
  /\ SharedInit /\ [][SharedNext]_sharedVars
  /\ WF_sharedVars(SharedTaskStep) /\ WF_sharedVars(ReaderStep)

-----------------------------------------------------------------------------
(***************************************************************************)
(* Properties.                                                             *)
(***************************************************************************)

(* The accounts after each number of the applied transactions.             *)
AccountsSoFar ==
  AccountsAfter([i \in 1 .. Len(processed) |-> processed[i].transaction], Len(processed))

(* The accounts at the moment when the guard of shard s was taken.         *)
Then(s) == AccountsSoFar[moments[s]]

There(s) == {c \in DOMAIN Then(s) : ShardOf[c] = s}

RowsOf(s) == {i \in DOMAIN lines : lines[i].kind = "row" /\ ShardOf[lines[i].client] = s}

(* Has the iterator left shard s?                                          *)
WasRead(s) == s < Len(moments) \/ snapshot \in {"Flush", "Done"}

(* What a snapshot says of a shard is true of one moment after it began,   *)
(* however many flushes ran since: no account is missing, none comes       *)
(* twice, and no line shows an earlier or a later balance than another.    *)
(* Shards are read one after the other, each at a moment of its own.       *)
ShardsAreRead ==
  \A s \in DOMAIN moments :
    /\ \A i \in RowsOf(s) :
         /\ lines[i].client \in There(s)
         /\ lines[i].statement = Snapshot!Statement(Then(s)[lines[i].client])
    /\ \A i, j \in RowsOf(s) : lines[i].client = lines[j].client => i = j
    /\ WasRead(s) => Cardinality(RowsOf(s)) = Cardinality(There(s))

(* The inductive invariant behind the theorems of SharedServiceProofs.     *)
(* There is one moment for each shard up to the one that is being read; in *)
(* that one no account has changed since; the shards behind it have all    *)
(* their lines, and those ahead of it none.                                *)
ReaderSound ==
  /\ snapshot \in {"Idle", "Header", "Rows", "Flush", "Done", "Failed"}
  /\ lines \in Seq(Snapshot!Line)
  /\ moments \in Seq(0 .. Len(processed)) /\ Len(moments) <= Shards
  /\ snapshot \in {"Idle", "Header"} => lines = <<>> /\ moments = <<>>
  /\ shard = IF snapshot = "Rows" THEN Len(moments) ELSE 0
  /\ snapshot = "Rows" => moments # <<>>
  /\ accounts = AccountsSoFar[Len(processed)]
  /\ snapshot = "Rows" =>
       /\ There(shard) = Snapshot!Here
       /\ \A c \in Snapshot!Here : accounts[c] = Then(shard)[c]
  /\ \A i \in DOMAIN lines : lines[i].kind = "row" =>
       /\ ShardOf[lines[i].client] \in DOMAIN moments
       /\ lines[i].client \in There(ShardOf[lines[i].client])
       /\ lines[i].statement =
            Snapshot!Statement(Then(ShardOf[lines[i].client])[lines[i].client])
  /\ \A i, j \in DOMAIN lines :
       lines[i].kind = "row" /\ lines[j].kind = "row" /\ lines[i].client = lines[j].client => i = j
  /\ \A s \in DOMAIN moments :
       WasRead(s) => There(s) \subseteq Snapshot!Listed

(* A snapshot comes to an end while flushes wait for its guards.           *)
SnapshotEnds == snapshot # "Idle" ~> snapshot \in {"Done", "Failed"}

=============================================================================
