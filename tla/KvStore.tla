------------------------------ MODULE KvStore ------------------------------
(***************************************************************************)
(* The kvstore of a shard: puts are collected in op_log, a poller appends   *)
(* them as one batch to a rolling blob, and when the blob has no room for   *)
(* them it first saves the whole table to a checkpoint blob and trims the   *)
(* rolling blob.  Loading reads a checkpoint blob and replays the batches.  *)
(*                                                                         *)
(* Every asynchronous step of a commit or of a checkpoint is an action of   *)
(* its own.  A crash may come between any two, and the request in flight    *)
(* then has or has not taken effect; a single request is atomic.  The n-th  *)
(* put writes the value n, so that an old value is recognised.  Lengths are *)
(* counted in operations and blocks: BlockSize stands for 4096 bytes and    *)
(* HeaderSize for the 16 bytes before the operations of a batch.            *)
(***************************************************************************)
EXTENDS Integers, Sequences, FiniteSets, SequencesExt

CONSTANTS
    Key,
    Nil,          \* no value, no blob
    LogSize,      \* rolling_blob::size(), in blocks
    BlockSize,
    HeaderSize,
    StartPos,     \* 0: a new store; p > 0: one whose first checkpoint trimmed to p
    MaxPuts,      \* bound on puts and removes
    MaxCrashes,   \* bound on crashes and stops
    MaxErrors,    \* bound on failed disk requests
    CrashPhases,  \* phases in which a crash may happen
    MayStop       \* may the process be stopped in an orderly way?

ASSUME KvStoreAssumption ==
    /\ Nil \notin Nat
    /\ LogSize \in Nat \ {0}
    /\ BlockSize \in Nat \ {0}
    /\ {HeaderSize, StartPos, MaxPuts, MaxCrashes, MaxErrors} \subseteq Nat
    /\ MayStop \in BOOLEAN

VARIABLES
    status,     \* "running", "down", "loading", or a replay that went astray
    table,      \* kvstore::table
    op_log,     \* kvstore::op_log
    phase,      \* "idle": working is false; else the callback that is awaited
    batch,      \* operations last handed to rolling_blob::append, not yet done
    saved,      \* the serialised table of the checkpoint under way
    back,       \* rolling_blob::back, a position and a block address
    front,      \* position of rolling_blob::front
    unmaps,     \* address ranges still to be unmapped by the trim under way
    ckpt_blob,  \* kv_checkpoint::_ckpt_blob
    new_blob,   \* kv_checkpoint::_new_blob
    old_blob,   \* the former checkpoint, to be deleted
    pos,        \* kvstore_read_ctx::start_pos
    read_buf,   \* the operations in kvstore::read_buf
    disk,       \* super block, data blocks and checkpoint blobs
    acked,      \* history: the table after the last commit that was reported
    puts, crashes, errors

memory == <<table, op_log, saved, back, front, unmaps, ckpt_blob, new_blob, old_blob>>
loader == <<pos, read_buf>>
counters == <<puts, crashes, errors>>
vars == <<status, phase, batch, memory, loader, disk, acked, counters>>

(* 0 is the value of a put before the first checkpoint of a store that is not
   new.                                                                      *)
Value == 0..MaxPuts
Map == INSTANCE KvMap WITH
    map <- IF status = "running" THEN table ELSE acked,
    pending <- op_log,
    flying <- batch,
    up <- status = "running"

Table == Map!Table
ApplyAll(t, ops) == Map!ApplyAll(t, ops)

(* append1, append2 and unmap1, unmap2 are the two requests that a wrap takes. *)
Phase == {"idle", "failed", "append1", "append2", "append", "create", "write", "sync", "delete",
          "unmap1", "unmap2", "unmap", "super"}

(* Each crash and each error leaves at most one blob behind.               *)
BlobId == 1..(MaxCrashes + MaxErrors + 2)

(* A blob that was created and not written reads as an empty table.        *)
Unwritten == Map!EmptyTable

(* make_kvstore writes no super block: that of a new store is all zeros.    *)
Init ==
    /\ status = "running" /\ phase = "idle"
    /\ table = (IF StartPos = 0 THEN Map!EmptyTable ELSE [k \in Key |-> 0])
    /\ acked = table
    /\ op_log = <<>> /\ batch = <<>> /\ saved = table
    /\ back = [pos |-> StartPos, lba |-> (StartPos % LogSize) + 1]
    /\ front = StartPos /\ unmaps = <<>>
    /\ ckpt_blob = IF StartPos = 0 THEN Nil ELSE 1
    /\ new_blob = Nil /\ old_blob = Nil
    /\ pos = 0 /\ read_buf = <<>>
    /\ disk = [super |-> IF StartPos = 0 THEN [pos |-> 0, lba |-> 0] ELSE back,
               blocks |-> [l \in 1..LogSize |-> Nil],
               ckpts |-> IF StartPos = 0 THEN <<>> ELSE <<table>>]
    /\ puts = 0 /\ crashes = 0 /\ errors = 0

-----------------------------------------------------------------------------
(* The rolling blob.  The super block is block 0, positions are mapped to the
   blocks after it.                                                          *)

pos_to_lba(p) == (p % LogSize) + 1
used == front - back.pos
remain == LogSize - used
is_rolled == front \div LogSize # back.pos \div LogSize
back_to_end == LogSize - (back.pos % LogSize)
front_to_end == LogSize - (front % LogSize)

(* The length of a batch, aligned to blocks.                               *)
Blocks(ops) == (HeaderSize + Len(ops) + BlockSize - 1) \div BlockSize

(* An append that reaches the end of the blob is split in two writes.      *)
append_splits(ops) == ~is_rolled /\ Blocks(ops) >= front_to_end

(* The blocks with the parts of the batch in flight written.               *)
Written(parts) ==
    [l \in 1..LogSize |->
        IF \E i \in parts : l = pos_to_lba(front + i - 1)
        THEN [ops |-> batch,
              part |-> CHOOSE i \in parts : l = pos_to_lba(front + i - 1)]
        ELSE disk.blocks[l]]

(* Fault: the part after the wrap is forgotten.                            *)
trim_back_without_wrap(length) ==
    <<[lba |-> back.lba, len |-> IF length < back_to_end THEN length ELSE back_to_end]>>

(* The address ranges [lba, lba + len) that trim_back unmaps.              *)
trim_back(length) ==
    IF ~is_rolled \/ length < back_to_end
    THEN <<[lba |-> back.lba, len |-> length]>>
    ELSE <<[lba |-> back.lba, len |-> back_to_end],
           [lba |-> pos_to_lba(0), len |-> length - back_to_end]>>

(* The disk once the request in flight has taken effect.  An unmapped block
   reads as zeros.                                                          *)
DiskAfter ==
    CASE phase = "append1" -> [disk EXCEPT !.blocks = Written(1..front_to_end)]
      [] phase \in {"append2", "append"} -> [disk EXCEPT !.blocks = Written(1..Blocks(batch))]
      [] phase = "create" ->
           LET b == CHOOSE b \in BlobId \ DOMAIN disk.ckpts : TRUE
           IN  [disk EXCEPT !.ckpts =
                   [x \in DOMAIN disk.ckpts \cup {b} |->
                       IF x = b THEN Unwritten ELSE disk.ckpts[x]]]
      [] phase = "write" -> [disk EXCEPT !.ckpts[new_blob] = saved]
      [] phase = "delete" ->
           [disk EXCEPT !.ckpts =
               [x \in DOMAIN disk.ckpts \ {old_blob} |-> disk.ckpts[x]]]
      [] phase \in {"unmap1", "unmap2", "unmap"} ->
           LET range == Head(unmaps).lba .. Head(unmaps).lba + Head(unmaps).len - 1
           IN  [disk EXCEPT
                  !.super = IF 0 \in range THEN [pos |-> 0, lba |-> 0] ELSE @,
                  !.blocks = [l \in 1..LogSize |-> IF l \in range THEN Nil ELSE @[l]]]
      [] phase = "super" -> [disk EXCEPT !.super = back]
      [] OTHER -> disk

-----------------------------------------------------------------------------
(* Users.                                                                  *)

put(k, v) ==
    /\ status = "running"
    /\ puts < MaxPuts
    /\ puts' = puts + 1
    /\ op_log' = Append(op_log, [key |-> k, value |-> v])
    /\ UNCHANGED <<status, phase, batch, table, saved, back, front, unmaps, ckpt_blob,
                   new_blob, old_blob, loader, disk, acked, crashes, errors>>

-----------------------------------------------------------------------------
(* Commit and checkpoint.                                                  *)

need_commit == op_log # <<>>
need_checkpoint == Len(op_log) > remain * BlockSize

(* Fault: the room is not checked.                                         *)
commit_without_room(room) ==
    IF ~need_commit THEN phase' = "idle" /\ UNCHANGED <<op_log, batch>>
    ELSE /\ phase' = IF append_splits(op_log) THEN "append1" ELSE "append"
         /\ batch' = op_log
         /\ op_log' = <<>>

(* commit, when nothing is under way.  An append that does not fit fails at
   once: the operations return to op_log, and working stays true.            *)
commit(room) ==
    IF ~need_commit THEN phase' = "idle" /\ UNCHANGED <<op_log, batch>>
    ELSE IF Blocks(op_log) > room THEN phase' = "failed" /\ UNCHANGED <<op_log, batch>>
    ELSE /\ phase' = IF append_splits(op_log) THEN "append1" ELSE "append"
         /\ batch' = op_log
         /\ op_log' = <<>>

worker_poll ==
    /\ status = "running"
    /\ phase = "idle"
    /\ IF need_checkpoint
       THEN /\ phase' = "create"
            /\ saved' = table
            /\ UNCHANGED <<op_log, batch>>
       ELSE /\ need_commit
            /\ commit(remain)
            /\ UNCHANGED saved
    /\ UNCHANGED <<status, table, back, front, unmaps, ckpt_blob, new_blob, old_blob,
                   loader, disk, acked, counters>>

(* rw_done of the first write: the second one follows.                     *)
rw_done ==
    /\ status = "running" /\ phase = "append1"
    /\ phase' = "append2"
    /\ disk' = DiskAfter
    /\ UNCHANGED <<status, batch, memory, loader, acked, counters>>

(* Fault: the operations are taken from op_log only when they are written.  *)
commit_done_clearing_op_log ==
    /\ status = "running" /\ phase \in {"append2", "append"}
    /\ phase' = "idle"
    /\ disk' = DiskAfter
    /\ front' = front + Blocks(batch)
    /\ table' = ApplyAll(table, batch)
    /\ acked' = table'
    /\ batch' = <<>>
    /\ op_log' = <<>>
    /\ UNCHANGED <<status, saved, back, unmaps, ckpt_blob, new_blob, old_blob, loader,
                   counters>>

commit_done ==
    /\ status = "running" /\ phase \in {"append2", "append"}
    /\ phase' = "idle"
    /\ disk' = DiskAfter
    /\ front' = front + Blocks(batch)
    /\ table' = ApplyAll(table, batch)
    /\ acked' = table'
    /\ batch' = <<>>
    /\ UNCHANGED <<status, op_log, saved, back, unmaps, ckpt_blob, new_blob, old_blob,
                   loader, counters>>

new_blob_create_complete ==
    /\ status = "running" /\ phase = "create"
    /\ phase' = "write"
    /\ disk' = DiskAfter
    /\ new_blob' \in DOMAIN disk'.ckpts \ DOMAIN disk.ckpts
    /\ UNCHANGED <<status, batch, table, op_log, saved, back, front, unmaps, ckpt_blob,
                   old_blob, loader, acked, counters>>

(* The table is written: the new blob becomes the checkpoint.              *)
finish_checkpoint ==
    /\ status = "running" /\ phase = "write"
    /\ phase' = "sync"
    /\ disk' = DiskAfter
    /\ old_blob' = ckpt_blob
    /\ ckpt_blob' = new_blob
    /\ new_blob' = Nil
    /\ UNCHANGED <<status, batch, table, op_log, saved, back, front, unmaps, loader,
                   acked, counters>>

(* checkpoint_finish_complete, whatever the result of the checkpoint was: the
   whole log is trimmed, and back moves before the blocks are unmapped.      *)
checkpoint_finish_complete ==
    /\ unmaps' = trim_back(used)
    /\ phase' = IF Len(unmaps') = 2 THEN "unmap1" ELSE "unmap"
    /\ back' = [pos |-> front, lba |-> pos_to_lba(front)]
    /\ UNCHANGED <<status, batch, table, op_log, saved, front, loader, acked>>

(* Fault: the former checkpoint is not deleted.                            *)
sync_md_done_without_delete ==
    /\ status = "running" /\ phase = "sync"
    /\ checkpoint_finish_complete
    /\ UNCHANGED <<ckpt_blob, new_blob, old_blob, disk, counters>>

(* Fault: the callback is only called after a deletion.                    *)
sync_md_done_without_callback ==
    /\ status = "running" /\ phase = "sync"
    /\ old_blob # Nil
    /\ phase' = "delete"
    /\ UNCHANGED <<status, batch, memory, loader, disk, acked, counters>>

(* The metadata of the new checkpoint is synced and the blob closed.       *)
sync_md_done ==
    /\ status = "running" /\ phase = "sync"
    /\ IF old_blob # Nil
       THEN phase' = "delete" /\ UNCHANGED <<status, batch, memory, loader, acked>>
       ELSE checkpoint_finish_complete /\ UNCHANGED <<ckpt_blob, new_blob, old_blob>>
    /\ UNCHANGED <<disk, counters>>

blob_delete_complete ==
    /\ status = "running" /\ phase = "delete"
    /\ disk' = DiskAfter
    /\ checkpoint_finish_complete
    /\ UNCHANGED <<ckpt_blob, new_blob, old_blob, counters>>

(* trim_done: the second range is unmapped, or the super block is written.  *)
trim_done ==
    /\ status = "running" /\ phase \in {"unmap1", "unmap2", "unmap"}
    /\ disk' = DiskAfter
    /\ unmaps' = Tail(unmaps)
    /\ phase' = IF phase = "unmap1" THEN "unmap2" ELSE "super"
    /\ UNCHANGED <<status, batch, table, op_log, saved, back, front, ckpt_blob, new_blob,
                   old_blob, loader, acked, counters>>

(* checkpoint_trim_complete releases working and commits.                  *)
checkpoint_trim_complete ==
    /\ status = "running" /\ phase = "super"
    /\ disk' = DiskAfter
    /\ commit(remain)
    /\ UNCHANGED <<status, table, saved, back, front, unmaps, ckpt_blob, new_blob,
                   old_blob, loader, acked, counters>>

-----------------------------------------------------------------------------
(* Crash, stop and load.                                                   *)

(* The memory of a process that has not loaded anything.                   *)
Lost ==
    /\ status' = "down"
    /\ phase' = "idle"
    /\ table' = Map!EmptyTable
    /\ op_log' = <<>>
    /\ saved' = Map!EmptyTable
    /\ back' = [pos |-> 0, lba |-> 1]
    /\ front' = 0
    /\ unmaps' = <<>>
    /\ ckpt_blob' = Nil
    /\ new_blob' = Nil
    /\ old_blob' = Nil
    /\ crashes < MaxCrashes
    /\ crashes' = crashes + 1
    /\ pos' = 0
    /\ read_buf' = <<>>
    /\ UNCHANGED <<batch, acked>>

(* A disk request fails.  A failed append leaves working set.  The errors of a
   checkpoint are not looked at, and its next step is taken.  The error of the
   first of two requests is reported to a callback that was moved to the second
   one, and the process is terminated.                                       *)
RequestFails ==
    /\ status = "running"
    /\ errors < MaxErrors
    /\ errors' = errors + 1
    /\ \/ /\ phase \in {"append2", "append"}
          /\ phase' = "failed"
          /\ op_log' = batch \o op_log
          /\ batch' = <<>>
          /\ UNCHANGED <<status, table, saved, back, front, unmaps, ckpt_blob, new_blob,
                         old_blob, loader, disk, acked, crashes>>
       \/ /\ phase \in {"create", "sync", "delete"}
          /\ checkpoint_finish_complete
          /\ disk' \in IF phase = "create" THEN {disk, DiskAfter} ELSE {disk}
          /\ UNCHANGED <<ckpt_blob, new_blob, old_blob, crashes>>
       \/ /\ phase = "write"
          /\ phase' = "sync"
          /\ old_blob' = ckpt_blob
          /\ ckpt_blob' = new_blob
          /\ new_blob' = Nil
          /\ UNCHANGED <<status, batch, table, op_log, saved, back, front, unmaps,
                         loader, disk, acked, crashes>>
       \/ /\ phase \in {"unmap2", "unmap", "super"}
          /\ commit(remain)
          /\ unmaps' = <<>>
          /\ UNCHANGED <<status, table, saved, back, front, ckpt_blob, new_blob, old_blob,
                         loader, disk, acked, crashes>>
       \/ /\ phase \in {"append1", "unmap1"}
          /\ Lost
          /\ UNCHANGED disk
    /\ UNCHANGED puts

(* The process dies; the request in flight has taken effect or has not.    *)
Crash ==
    /\ status \in {"running", "loading"}
    /\ phase \in CrashPhases
    /\ disk' \in {disk, DiskAfter}
    /\ Lost
    /\ UNCHANGED <<puts, errors>>

(* kvstore::stop of a store at rest: pending operations are not written, and
   kv_checkpoint::stop deletes the checkpoint blob.                          *)
stop ==
    /\ MayStop
    /\ status = "running"
    /\ phase = "idle"
    /\ disk' = [disk EXCEPT !.ckpts =
                   [x \in DOMAIN disk.ckpts \ {ckpt_blob} |-> disk.ckpts[x]]]
    /\ Lost
    /\ UNCHANGED <<puts, errors>>

(* load_kvstore: the super block gives the position of the log, and the last
   checkpoint blob that the iteration over the blobs has met is the
   checkpoint.  Every checkpoint blob, finished or not, has the type
   kv_checkpoint, so _new_blob is not set and delete_new_blob has nothing to
   delete; in which order the blobs are met is not known here.               *)
load_kvstore ==
    /\ status = "down"
    /\ status' = "loading"
    /\ back' = disk.super
    /\ pos' = disk.super.pos
    /\ read_buf' = <<>>
    /\ \E b \in IF DOMAIN disk.ckpts = {} THEN {Nil} ELSE DOMAIN disk.ckpts :
          /\ ckpt_blob' = b
          /\ table' = IF b = Nil THEN Map!EmptyTable ELSE disk.ckpts[b]
    /\ UNCHANGED <<phase, batch, op_log, saved, front, unmaps, new_blob, old_blob, disk,
                   acked, counters>>

(* What is read at a position: the batch that starts there, no operation when
   the block was never written or is unmapped, and Nil for bytes that are not a
   whole batch.  A read at the end of the blob succeeds without reading: the
   buffer still holds the last batch.                                        *)
ReadBatch ==
    IF pos >= back.pos + LogSize THEN read_buf
    ELSE LET first == disk.blocks[pos_to_lba(pos)]
         IN  IF first = Nil THEN <<>>
             ELSE IF \A i \in 1..Blocks(first.ops) :
                        disk.blocks[pos_to_lba(pos + i - 1)] =
                            [ops |-> first.ops, part |-> i]
             THEN first.ops
             ELSE Nil

(* A batch is replayed and the next one read, until there is none.  At the end
   of the blob the same batch is replayed for ever.                          *)
replay_one_batch_done ==
    /\ status = "loading"
    /\ \/ /\ ReadBatch = <<>>
          /\ status' = "running"
          /\ front' = pos
          /\ acked' = table
          /\ batch' = <<>>
          /\ pos' = 0 /\ read_buf' = <<>>
          /\ UNCHANGED table
       \/ /\ ReadBatch \notin {<<>>, Nil}
          /\ status' = IF pos >= back.pos + LogSize THEN "wedged" ELSE "loading"
          /\ read_buf' = ReadBatch
          /\ table' = ApplyAll(table, ReadBatch)
          /\ pos' = pos + Blocks(ReadBatch)
          /\ UNCHANGED <<front, acked, batch>>
       \/ /\ ReadBatch = Nil
          /\ status' = "corrupt"
          /\ UNCHANGED <<front, acked, batch, table, pos, read_buf>>
    /\ UNCHANGED <<phase, op_log, saved, back, unmaps, ckpt_blob, new_blob, old_blob,
                   disk, counters>>

-----------------------------------------------------------------------------

Io == \/ rw_done
      \/ commit_done
      \/ new_blob_create_complete
      \/ finish_checkpoint
      \/ sync_md_done
      \/ blob_delete_complete
      \/ trim_done
      \/ checkpoint_trim_complete

Load == load_kvstore \/ replay_one_batch_done

Next ==
    \/ \E k \in Key, v \in {puts + 1, Nil} : put(k, v)
    \/ worker_poll
    \/ Io
    \/ RequestFails
    \/ Crash
    \/ stop
    \/ Load

(* The poller runs for ever, and a request that is issued is completed.    *)
Fairness == WF_vars(worker_poll) /\ WF_vars(Io) /\ WF_vars(Load)

Spec == Init /\ [][Next]_vars /\ Fairness

-----------------------------------------------------------------------------

(* Every variable stays in its range.                                      *)
TypeOK ==
    /\ status \in {"running", "down", "loading", "wedged", "corrupt"}
    /\ phase \in Phase
    /\ {table, saved, acked} \subseteq Table
    /\ op_log \in Seq(Map!Op) /\ batch \in Seq(Map!Op) /\ read_buf \in Seq(Map!Op)
    /\ back \in [pos : Nat, lba : 0..LogSize]
    /\ disk.super \in [pos : Nat, lba : 0..LogSize]
    /\ front \in Nat /\ pos \in Nat
    /\ {ckpt_blob, new_blob, old_blob} \subseteq BlobId \cup {Nil}
    /\ DOMAIN disk.ckpts \subseteq BlobId
    /\ \A b \in DOMAIN disk.ckpts : disk.ckpts[b] \in Table
    /\ status = "running" => used \in 0..LogSize

(* Loading gives back what was acknowledged, with or without the batch that was
   being written: replay on top of the checkpoint neither loses a commit, nor
   brings back a value that a later commit has replaced, nor meets a part of a
   batch.  A load that does not end (the replay of a log that fills the blob,
   status "wedged") gives nothing back, and nothing is said of it here.       *)
RestartKeepsCommits ==
    [][status = "loading" /\ status' \in {"running", "corrupt"}
          => status' = "running" /\ table' \in {acked, ApplyAll(acked, batch)}]_vars

(* A checkpoint trims the whole log: no block of it still holds a batch when the
   super block is written, so none can be read again as the log comes round.  *)
WholeLogTrimmed ==
    phase = "super" => \A l \in 1..LogSize : disk.blocks[l] = Nil

(* The kvstore is the map that its users take it for.                      *)
ImplementsMap == Map!MapSpec

(* The poller writes what was put, through commits and checkpoints whose requests
   may fail.  Three ways in which it stops for good are excepted, because the
   code takes them: an append that fails or has no room, after which working
   stays set, and a replay that does not end or meets a part of a batch.      *)
PutsAreWritten ==
    (op_log # <<>>) ~>
        (op_log = <<>> \/ phase = "failed" \/ status \in {"wedged", "corrupt"})

=============================================================================
