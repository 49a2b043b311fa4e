# fastblock in TLA+

fastblock is a distributed block store. Clients cut a volume into objects, every
object belongs to a placement group (pg), and every pg is a raft group of osds.
This directory holds TLA+ models of its core, the TLC configurations that check
them on small instances, and TLAPS proofs. `PROJECT.json` maps every definition
to the source lines it stands for and lists runs, mutants, findings, hazards and
theorems.

## The system

| part | state | operations | hard behaviour |
|---|---|---|---|
| raft election (`src/raft/raft_server.cc`) | term, vote, identity, vote flags, timers | prevote, vote, step down, restart | votes answered before they are on disk, stale replies |
| raft replication (`raft_server.cc`, `raft_log.cc`, `raft_cache.h`, `append_entry_buffer.cc`, `state_machine.cc`, `pg_group.cc`) | entry queue, entry cache, disk log, `_current_idx`, `_commit_idx`, one `raft_node` per peer | write, flush, append, heartbeat, recovery, commit, apply, truncate | reordered, lost and late messages, restart during an append, error answers |
| raft membership (`configuration_manager.cc`) | configurations, change state | catch-up, joint, new | failure halfway, leader change |
| raft snapshot (`raft_server.cc`, `object_recovery.h`) | snapshots of objects | copy objects to a server | failure halfway |
| leases and reads | leases per peer, clocks | renew, check | clocks, grace |
| kvstore (`kv_store.h`, `kv_checkpoint.h`, `rolling_blob.h`) | table, op_log, rolling blob, checkpoint blobs | put, commit, checkpoint, trim, stop, replay | crash between any two disk requests, wrap, errors |
| disk log (`disk_log.h`) | index, rolling blob | append, read, truncate, trim, load | crash, wrap |
| object store, blob manager | blobs by name | read, write, snapshot, delete | several disk requests per operation |
| osd state machine and object lock (`osd_stm.*`) | lock by object | lock, apply, unlock | callbacks that re-enter the lock |
| osd service, write rings, raw tcp server | rings with leases, sessions | acquire, commit, expire | expiry against use |
| partition manager, osd monitor client | groups by shard, pg map | create, load, activate, delete, apply a map | hops between threads, maps that arrive meanwhile |
| block client (`fb_client.h`) | requests, leaders, connections | send, look up the leader, retry | retry of what was done |
| rdma transport, connection cache | connections, tasks | connect, send, receive | overtaking, timeouts |
| monitor (Go) | osd map, pools, pg states, etcd | boot, in, out, heartbeat check, remap | concurrent handlers, lease expiry |
| kernel driver (`kfastblock`) | requests, windows, connections | submit, complete, recover | timeouts, races |

The osd runs one thread per core and binds a pg to one of them, so a raft handler
runs to its end without interruption. Disk requests and rpcs end in callbacks.
The models make every handler and every callback one action, and everything
between two of them may interleave. A raft group keeps its term, vote and applied
index in the shard's kvstore and its entries in a disk log of its own. The osd
state machine hands writes to the group and applies committed entries to objects.
The monitor tells osds which pgs they hold, and osds tell it who leads.

What makes this correct: one leader per term; a leader has every committed entry;
servers agree on committed entries; an acknowledged write survives; a restart finds
what was acknowledged; everything accepted is processed in the end.

## Modules

| module | models | state and actions |
|---|---|---|
| `RaftElection` | election of one group | one function of servers for each field of `raft_server_t`, a set of messages; actions have the names of the handlers |
| `RaftElectionTypes` | | type correctness of `RaftElection` |
| `RaftElectionInductive` | | the inductive invariant; the steps of a server and the vote request keep it |
| `RaftElectionReplies` | | replies and append entries keep it; it is an invariant |
| `RaftElectionProofs` | | the theorems |
| `RaftReplication` | log replication of one group | queue, cache, disk and indices of each server, `peer[i][j]` is the `raft_node` of j on i |
| `KvMap` | what the kvstore promises | a map with atomic batches |
| `KvStore` | the kvstore, its checkpoint and its rolling blob | memory, disk, and the callback that is awaited (`phase`) |
| `MC...` | instances for TLC | |

**RaftElection.** An election timeout may expire at any time, and the two time
guards of `raft_recv_requestvote` are a choice made at each request. `kv` is what
was put to the kvstore, `disk` what it has written. With `LosePuts` a restart reads
`disk`, else `kv`. The log of a server is its last position; what of it was not on
disk is lost in a restart. `cast` and `elected` are histories for the properties.

**RaftReplication.** An election is one step, guarded by what `RaftElection`
establishes: the voters are a majority that is not ahead, and the term is new. Requests
are taken in any order, because the rdma server hands a small request on at once and
first reads a large one (`msg/rdma/server.h:842`). A follower handles one
request at a time. Its disk append is a second action, and so is the leader's own.
`log_truncate` is modelled with what it leaves: `_next_idx` stays, and callbacks of
discarded entries are called with 0. An answer that is an error counts as a vote in
`raft_node_process_commit`, as in the code. A log whose numbering has gone astray
after a truncation is not flushed any more. In the code the leader would look up an
entry that is not there. A heartbeat is sent only when nothing else is on its way between
the two servers: the code looks at a flag and at the time of the last request, and a round
trip is taken to be shorter than the heartbeat timeout. What follows when a heartbeat
overtakes a batch is left out. A recovery reads the log in one step: that a read from disk
ends later, with the `next_idx` of that moment, that at most 100 entries are sent at a time,
and that applied entries leave the cache have no effect with two writes or are left out.
A term survives a restart here (its loss is the subject of
`RaftElection`), disk requests succeed, logs are not trimmed, and there is no stop and no
change of members.

**KvStore.** One action for each callback of a commit and of a checkpoint. The n-th
put writes the value n. A crash leaves the request in flight done or not done. The
load takes any of the blobs it may find, because the search of the blob tree has no
order. `KvStore` implements `KvMap` under the mapping in its `INSTANCE`. A failed
append leaves `working` set for ever (`kv_store.h:211`): phase `failed`.

## Runs

| run | instance | shows |
|---|---|---|
| `election` | 3 servers, terms 0 to 2, 2 elections, 1 restart; or 2 servers with logs of different length, 2 restarts; no put lost | `ElectionSafety`, `ElectedByUpToDateMajority`, the assertion of `raft_recv_requestvote` (`NoGrantWhileCampaigning`) |
| `election_written` | 2 servers, terms 0 to 2, 2 restarts, puts may be lost | `WrittenVoteStands` |
| `election_lost_vote` | 3 servers, one restart that loses puts | `ElectionSafety` fails |
| `kvstore` | 2 keys, 2 blocks of log, 6 puts, 2 crashes, no failed request, a store that had its first checkpoint | `RestartKeepsCommits`, `WholeLogTrimmed`, `ImplementsMap` |
| `kvstore_faults` | 1 key, 2 crashes at any step, stop, one failed request | `PutsAreWritten` |
| `kvstore_checkpoint_crash` | a crash while the checkpoint is created or written | `RestartKeepsCommits` fails |
| `kvstore_stop` | an orderly stop | `RestartKeepsCommits` fails |
| `replication` | 3 servers, one term, 2 writes, a restart of one server | `StateMachineSafety`, `MatchIsStored`, `AckedOnLeaderDisk` |
| `replication_pair` | 2 servers, 2 terms, 2 writes, a restart, a failed rpc | `StateMachineSafety`, `AckedSurvive` |
| `replication_live` | 3 servers, 2 writes, no failure | `Replicated` |
| `replication_conflict` | 3 servers, 2 terms | `NoCommittedConflict` fails |
| `replication_stall` | 3 servers, one failed rpc | `MajorityIsCommitted` fails |

The runs that fail are described under `findings` in `PROJECT.json`, with the comment
of the code they contradict.

**Bounds.** Three servers are the least number with a majority that is not everybody.
Two terms are enough for a vote given twice and for a late message of an older term.
Two writes give one batch of two, two batches, a batch that overtakes another, and a
gap that needs a recovery. Two blocks of log
make appends and trims wrap, and six puts of which up to three fit into the log make
a second checkpoint necessary. With one key `RestartKeepsCommits` was also checked up to nine
puts and three crashes. One restart is enough to forget a vote or to cut an append short.

**What the passing runs leave out because a property fails there.** These limits are
not abstractions. TLC was run with each of them lifted, and finds the property violated:

- `RestartKeepsCommits` (run `kvstore`), with a crash
  - while the checkpoint is created or written: run `kvstore_checkpoint_crash`;
  - between the two writes of a batch that wraps (phases `append1`, `append2`): the
    replay meets half a batch, and does not finish;
  - between the two unmaps of a trim that wraps (`unmap1`, `unmap2`): the second part
    of the old log stays, and a later replay reads into it. It takes a second crash;
  - between the write of a new checkpoint and the deletion of the old one (`sync`,
    `delete`): two checkpoint blobs are left, the load takes one, and nothing ever deletes
    the other. When a later checkpoint has trimmed the log, a second crash may load the
    blob that was left over, and what was committed since is gone. It takes six puts;
- `RestartKeepsCommits` and `PutsAreWritten` for a load that does not end: a log that fills
  the blob exactly has no end that replay could find (`wedged`), and both properties except
  such a load; `PutsAreWritten` also excepts an append that fails or has no room, after which
  `working` stays set;
- `RestartKeepsCommits` with an orderly stop: run `kvstore_stop`;
- `RestartKeepsCommits` with a failed disk request: when the creation of a checkpoint
  fails, the log is trimmed all the same;
- `RestartKeepsCommits` and `WholeLogTrimmed` for a new store (`StartPos = 0`): its super
  block is all zeros until the first trim, and the first trim after a restart starts at
  block 0, so the last block keeps an old batch;
- `ElectionSafety` with three servers and lost puts: run `election_lost_vote`. With two
  servers it takes two restarts. `ElectedByUpToDateMajority` fails with lost puts and two
  restarts, because a candidate campaigns again in the term it forgot, with another log, and
  old answers are counted;
- that a term never decreases: it does when the put of the term was not written before a
  crash. `WrittenVoteStands` says what is left;
- that what is committed is stored by a majority: an error counts as a vote
  (`raft_server.cc:1024`), so in the run `replication` the answer of a restarted server that
  is not active yet lets the leader commit an entry that it alone has;
- `StateMachineSafety` with three servers and two terms: a former leader takes a late
  answer for a vote, as in `replication_conflict`;
- `AckedSurvive` with three servers and two terms: `log_truncate` calls the callbacks of
  the entries it discards with 0, and the client is told that a lost write is done.

So `RestartKeepsCommits` and `ImplementsMap` are shown for crashes at rest, in an append
or an unmap of one request, and in the super block's write.
`RaftReplication` is shown safe for three servers in one term, and for two servers across
terms. No passing run reaches a truncation of the raft log: in one term there is
no conflict, and with two servers every majority is everybody.

**Deadlock** is off where the bounds let a behaviour end: when elections, puts or
terms are used up. `replication` and `replication_live` check for it.

**Fairness.** `KvStore`: the poller runs, issued disk requests are completed, and a
load goes on. `RaftReplication`: some step of a poller or of a completed disk request
is taken when one is possible, and for each server some message to or from it is
handled when there is one. SPDK pollers run for ever and RDMA requests end in a
completion. Nothing is assumed of heartbeats, timeouts, crashes and failures.

## Proofs

Four modules, each extending the one before, prove about `RaftElection`, for every finite
set of at least two servers and all bounds (`ElectionAssumption`):

- `TypeCorrect` (in `RaftElectionTypes`): `Spec => []TypeOK`, with no condition;
- `ElectionIsSafe`, `ElectedUpToDate`, `AssertionHolds` (in `RaftElectionProofs`): the
  properties of the run `election`, under `~LosePuts`;
- `WrittenVotesStand` (in `RaftElectionProofs`): `Spec => WrittenVoteStands`, whatever puts
  are lost. `Moves` says what a step may do to a server's term, its vote and their two keys;
  with the invariant that the kvstore holds the current term and vote (`KvIsCurrent`) that is
  enough.

The condition of the first three cannot go: `election_lost_vote` is the counterexample. `ElectionSafety`
is not inductive. `ElectionInv` adds that the kvstore has the current term and vote,
that a vote of the current term is remembered, that nobody voted twice in a term, that
requests in flight describe the candidate's log, that a granted reply stands for a
vote that was cast, that who campaigns has voted for itself, and that counted votes
were cast. Two leaders of one term then have majorities that share a voter
(`MajoritiesMeet`), who voted once.

Liveness, the kvstore's refinement and all of `RaftReplication` are model-checked
only. Liveness under fairness, ENABLED, induction over data and RECURSIVE
operators are outside the prover and stay with TLC. The proofs are four modules because
tlapm prepares the obligations of a module in one thread, and in one large module that
time is lost to the provers' limits.

## Not modelled yet, and the plan

1. `ObjectLock`: locks of `osd_stm`, re-entrant callbacks, release at apply.
2. `DiskLog`: index, trim and load of the raft log over the rolling blob, and disk
   errors; `RollingBlob` split from `KvStore`; refinement to a sequence of entries.
3. `Membership`: catch-up, joint majority, failure halfway; then `SnapshotRecovery`.
4. `RaftLease`: leases with clocks of bounded drift, and reads.
5. `PartitionManager` and `PgMapClient`: hops between threads, application of maps.
6. `MonitorOsd`, `MonitorPg`, `MonitorElection`: the Go monitor.
7. `BlockClient`, `WriteRing`, and the kernel driver's `KPipeline`, `KScheduler`,
   `KConnPool`.

Proofs to come: type correctness of `RaftReplication`, `MatchIsStored`, the lock
invariant of `ObjectLock`, and that `KvStore` without crashes of the checkpoint keeps
the safety part of `KvMap`.

Left out for good: formatting and parsing of messages, logging, statistics, tools
and benchmarks, start-up of SPDK. Byte contents of objects are not modelled, since no
property looks into them.
