------------------------------ MODULE Snapshot ------------------------------
(***************************************************************************)
(* Service::write_snapshot with its CsvWriter: the header, a line for each *)
(* account in the order of the map, and a last flush.                      *)
(*                                                                         *)
(* The map is a DashMap: a sequence of shards, each behind a lock of its   *)
(* own.  Its iterator holds the read guard of the shard it is in, across   *)
(* the await of every line, until it takes the guard of the next one.      *)
(* Lines pass through buffers, which may be handed on at any write and are *)
(* handed on by a flush; what becomes of them when the writer is dropped   *)
(* without one is open.  Half a line counts as none.                       *)
(***************************************************************************)
EXTENDS AccountOps, Sequences

CONSTANTS
  ClientId,
  Shards,           \* the number of shards
  ShardOf           \* the shard of each client, by the hash of its identifier

VARIABLES
  accounts,     \* the map, which other tasks write
  snapshot,     \* where write_snapshot is
  shard,        \* the shard whose guard it holds, 0 for none
  lines,        \* the lines it has written so far
  delivered     \* how many of them have reached the output

snapshotVars == <<snapshot, shard, lines, delivered>>

Header == [kind |-> "header"]

(* OutputMessage.                                                          *)
Statement(acc) ==
  [available |-> acc.available, held |-> acc.held, total |-> acc.total, locked |-> acc.locked]

Row(c) == [kind |-> "row", client |-> c, statement |-> Statement(accounts[c])]

Line ==
  [kind : {"header"}]
    \cup [ kind : {"row"}, client : ClientId,
           statement : [available : Int, held : Int, total : Int, locked : BOOLEAN] ]

Listed == {lines[i].client : i \in {j \in DOMAIN lines : lines[j].kind = "row"}}

Here == {c \in DOMAIN accounts : ShardOf[c] = shard}

Init == snapshot = "Idle" /\ shard = 0 /\ lines = <<>> /\ delivered = 0

Begin ==
  /\ snapshot = "Idle"
  /\ snapshot' = "Header"
  /\ UNCHANGED <<shard, lines, delivered>>

Write(line) ==
  /\ lines' = Append(lines, line)
  /\ UNCHANGED delivered

(* The header, and after its await the guard of the first shard.           *)
WriteHeader ==
  /\ snapshot = "Header"
  /\ Write(Header)
  /\ snapshot' = "Rows"
  /\ shard' = 1

WriteRow ==
  /\ snapshot = "Rows"
  /\ \E c \in Here \ Listed : Write(Row(c))
  /\ UNCHANGED <<snapshot, shard>>

(* Faulty variant: the iterator leaves a shard after its first account.    *)
NextShardAfterOne ==
  /\ snapshot = "Rows"
  /\ Here \cap Listed # {} \/ Here = {}
  /\ IF shard < Shards
     THEN shard' = shard + 1 /\ UNCHANGED snapshot
     ELSE shard' = 0 /\ snapshot' = "Flush"
  /\ UNCHANGED <<lines, delivered>>

NextShard ==
  /\ snapshot = "Rows"
  /\ Here \subseteq Listed
  /\ IF shard < Shards
     THEN shard' = shard + 1 /\ UNCHANGED snapshot
     ELSE shard' = 0 /\ snapshot' = "Flush"
  /\ UNCHANGED <<lines, delivered>>

(* Faulty variant: the end without the flush.                              *)
FlushNothing ==
  /\ snapshot = "Flush"
  /\ snapshot' = "Done"
  /\ UNCHANGED <<shard, lines, delivered>>

Flush ==
  /\ snapshot = "Flush"
  /\ snapshot' = "Done"
  /\ delivered' = Len(lines)
  /\ UNCHANGED <<shard, lines>>

(* Any write, and the flush, may fail; the guard goes with the iterator.   *)
Fail ==
  /\ snapshot \in {"Header", "Rows", "Flush"}
  /\ snapshot' = "Failed"
  /\ shard' = 0
  /\ UNCHANGED <<lines, delivered>>

(* The buffers are full, or a writer is dropped that was not flushed.      *)
HandOn ==
  /\ delivered < Len(lines)
  /\ delivered' \in delivered + 1 .. Len(lines)
  /\ UNCHANGED <<snapshot, shard, lines>>

SnapshotStep == WriteHeader \/ WriteRow \/ NextShard \/ Flush \/ Fail

=============================================================================
