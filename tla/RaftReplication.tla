-------------------------- MODULE RaftReplication --------------------------
(***************************************************************************)
(* Log replication of one raft group of fastblock: the leader's queue, the  *)
(* entry cache and the disk log of every server, append entries requests,   *)
(* heartbeats, recovery of a server that lags behind, commit, apply, and    *)
(* restart.                                                                 *)
(*                                                                         *)
(* An election is one step here: a majority that is not ahead of the        *)
(* candidate moves to a term in which nobody was elected before.  This is   *)
(* what RaftElection establishes (ElectionSafety and                        *)
(* ElectedByUpToDateMajority).  Requests on their way and requests waiting  *)
(* in an append_entries_buffer are one set, taken in any order: the rdma    *)
(* server hands on a small request at once and reads a large one first.     *)
(* The log is never trimmed, so recovery needs no snapshot; disk requests   *)
(* succeed.                                                                 *)
(***************************************************************************)
EXTENDS Integers, Sequences, FiniteSets, FiniteSetsExt, Functions

CONSTANTS
    Server,       \* the osds of the placement group
    Nil,          \* nothing in progress
    First,        \* the leader of term 1
    Unsteady,     \* servers that may restart, and whose rpcs may fail
    MaxTerm,      \* bound on terms
    MaxWrites,    \* bound on client writes
    MaxRestarts,  \* bound on restarts
    MaxFailures   \* bound on failed rpcs

ASSUME ReplicationAssumption ==
    /\ IsFiniteSet(Server)
    /\ First \in Server
    /\ Unsteady \subseteq Server
    /\ MaxTerm \in Nat \ {0}
    /\ {MaxWrites, MaxRestarts, MaxFailures} \subseteq Nat

VARIABLES
    term,        \* _current_term
    role,        \* _identity
    active,      \* is _op_state RAFT_ACTIVE, or still RAFT_INIT?
    queue,       \* raft_log::_entry_queue
    cache,       \* raft_log::_entries, by index
    disk,        \* disk_log, by index
    next_idx,    \* raft_log::_next_idx
    current_idx, \* _current_idx
    commit_idx,  \* _commit_idx
    waiting,     \* indices of cached entries with a client's callback
    flushing,    \* the leader's own disk append in flight
    appending,   \* the request being appended, _in_progress of the buffer
    peer,        \* raft_node: what a server keeps about each server
    msgs,        \* requests and responses
    acked,       \* history: writes reported to clients as done
    writes, restarts, failures

log == <<cache, disk, next_idx, current_idx>>
counters == <<writes, restarts, failures>>
vars == <<term, role, active, queue, log, commit_idx, waiting, flushing, appending,
          peer, msgs, acked, counters>>

Idx == 1..MaxWrites
Entry == [term : 1..MaxTerm, val : 1..MaxWrites]
raft_node == [match : 0..MaxWrites, next : 1..MaxWrites + 1, end : 0..MaxWrites,
              recovering : BOOLEAN, suppress : BOOLEAN]
Success == {"ok", "fail", "not_match", "shutdown", "refused"}

Empty == [x \in {} |-> x]

Init ==
    /\ term = [i \in Server |-> 1]
    /\ role = [i \in Server |-> IF i = First THEN "leader" ELSE "follower"]
    /\ active = [i \in Server |-> TRUE]
    /\ queue = [i \in Server |-> <<>>]
    /\ cache = [i \in Server |-> Empty]
    /\ disk = [i \in Server |-> Empty]
    /\ next_idx = [i \in Server |-> 1]
    /\ current_idx = [i \in Server |-> 0]
    /\ commit_idx = [i \in Server |-> 0]
    /\ waiting = [i \in Server |-> {}]
    /\ flushing = [i \in Server |-> Nil]
    /\ appending = [i \in Server |-> Nil]
    /\ peer = [i \in Server |-> [j \in Server |->
                  [match |-> 0, next |-> 1, end |-> 0,
                   recovering |-> FALSE, suppress |-> FALSE]]]
    /\ msgs = {}
    /\ acked = {}
    /\ writes = 0 /\ restarts = 0 /\ failures = 0

-----------------------------------------------------------------------------
(* The log of a server: the entry cache in front of the disk log.          *)

Has(i, n) == n \in DOMAIN cache[i] \/ n \in DOMAIN disk[i]
EntryAt(i, n) == IF n \in DOMAIN cache[i] THEN cache[i][n] ELSE disk[i][n]
raft_get_entry_term(i, n) == IF Has(i, n) THEN EntryAt(i, n).term ELSE 0

raft_votes_is_majority(Q) == Cardinality(Server) \div 2 < Cardinality(Q)

Over(f, g) == [n \in DOMAIN f \cup DOMAIN g |-> IF n \in DOMAIN f THEN f[n] ELSE g[n]]
Below(f, n) == Restrict(f, {k \in DOMAIN f : k < n})

(* The entries of es as a piece of log that starts at n.                   *)
Numbered(es, n) == [k \in n .. n + Len(es) - 1 |-> es[k - n + 1]]

(* The cached entries from n to e: none when n is not cached.              *)
get_between(i, n, e) ==
    IF n \in DOMAIN cache[i] THEN Restrict(cache[i], {k \in DOMAIN cache[i] : k \in n..e})
    ELSE Empty

-----------------------------------------------------------------------------
(* Sending.                                                                *)

(* create_appendentries: a request that starts at next.                   *)
appendentries(i, j, next, es) ==
    [type |-> "append", src |-> i, dst |-> j, term |-> term[i], prev |-> next - 1,
     prev_term |-> raft_get_entry_term(i, next - 1), entries |-> es,
     commit |-> commit_idx[i], heartbeat |-> FALSE]

Entries(i, n, e) == [k \in 1 .. e - n + 1 |-> EntryAt(i, n + k - 1)]

(* do_recovery: from the cache, or from the disk up to what is cached.     *)
RecoveryEntries(i, next) ==
    LET cached == DOMAIN cache[i]
        e == IF cached = {} \/ next >= Min(cached) THEN current_idx[i]
             ELSE Min({current_idx[i], Min(cached) - 1})
    IN  Entries(i, next, e)

(* Fault: nothing is sent to a server whose recovery starts.                *)
recovery_without_request(i, j, p, rest) ==
    /\ peer' = [peer EXCEPT ![i] = [p EXCEPT ![j].recovering = TRUE]]
    /\ msgs' = rest

(* dispatch_recovery, with p what the leader i knows of the servers by now.
   It ends when the server has all of the log.                             *)
dispatch_recovery(i, j, p, rest) ==
    IF p[j].match = current_idx[i]
    THEN /\ peer' = [peer EXCEPT ![i] = [p EXCEPT ![j].recovering = FALSE]]
         /\ msgs' = rest
    ELSE /\ peer' = [peer EXCEPT ![i] = [p EXCEPT ![j].recovering = TRUE,
                                                  ![j].suppress = TRUE]]
         /\ msgs' = rest \cup {appendentries(i, j, p[j].next, RecoveryEntries(i, p[j].next))}

-----------------------------------------------------------------------------
(* Commit.                                                                 *)

(* Fault: the leader's own copy is taken for granted.                      *)
commit_without_leader_match(i, n, p, failed) ==
    IF /\ commit_idx[i] < n
       /\ raft_votes_is_majority({j \in Server : n <= p[j].match} \cup failed \cup {i})
    THEN n ELSE commit_idx[i]

(* raft_node_process_commit: the commit index once the servers in failed have
   answered for index n with an error.  Such an answer counts as a vote.     *)
raft_node_process_commit(i, n, p, failed) ==
    IF /\ commit_idx[i] < n
       /\ n <= p[i].match
       /\ raft_votes_is_majority({j \in Server : n <= p[j].match} \cup failed)
    THEN n ELSE commit_idx[i]

(* The lambda process_response of raft_process_appendentries_reply, for the
   index n: the failure of a recovering server ends its recovery.            *)
process_response(i, j, n, p, failed) ==
    IF failed # {} /\ p[j].recovering
    THEN /\ peer' = [peer EXCEPT ![i] = [p EXCEPT ![j].recovering = FALSE]]
         /\ UNCHANGED commit_idx
    ELSE /\ peer' = [peer EXCEPT ![i] = p]
         /\ IF n # 0 /\ Has(i, n) /\ raft_get_entry_term(i, n) = term[i]
            THEN commit_idx' = [commit_idx EXCEPT ![i] =
                                   raft_node_process_commit(i, n, p, failed)]
            ELSE UNCHANGED commit_idx

-----------------------------------------------------------------------------
(* The leader.                                                             *)

raft_write_entry(i) ==
    /\ role[i] = "leader"
    /\ writes < MaxWrites
    /\ writes' = writes + 1
    /\ queue' = [queue EXCEPT ![i] = Append(@, [term |-> term[i], val |-> writes'])]
    /\ UNCHANGED <<term, role, active, log, commit_idx, waiting, flushing,
                   appending, peer, msgs, acked, restarts, failures>>

(* raft_task_func and raft_flush: when all before is committed, the queue
   becomes the next batch.  It goes to every server that is not recovering,
   whatever is known of its log, and to the leader's own disk.  A log whose
   numbering has gone astray has no next batch: the code finds no entry there. *)
raft_flush(i) ==
    /\ role[i] = "leader"
    /\ current_idx[i] <= commit_idx[i]
    /\ queue[i] # <<>>
    /\ next_idx[i] = current_idx[i] + 1
    /\ LET batch == Numbered(queue[i], next_idx[i])
           end == next_idx[i] + Len(queue[i]) - 1
           to == {j \in Server \ {i} : ~peer[i][j].recovering}
       IN  /\ cache' = [cache EXCEPT ![i] = Over(batch, @)]
           /\ waiting' = [waiting EXCEPT ![i] = @ \cup DOMAIN batch]
           /\ next_idx' = [next_idx EXCEPT ![i] = end + 1]
           /\ current_idx' = [current_idx EXCEPT ![i] = end]
           /\ flushing' = [flushing EXCEPT ![i] = batch]
           /\ peer' = [peer EXCEPT ![i] = [j \in Server |->
                          IF j \in to THEN [@[j] EXCEPT !.end = end, !.suppress = TRUE]
                          ELSE @[j]]]
           /\ msgs' = msgs \cup {appendentries(i, j, next_idx[i], queue[i]) : j \in to}
    /\ queue' = [queue EXCEPT ![i] = <<>>]
    /\ UNCHANGED <<term, role, active, disk, commit_idx, appending, acked,
                   counters>>

(* The leader's own append is done.                                        *)
disk_append_complete(i) ==
    /\ flushing[i] # Nil
    /\ LET end == Max(DOMAIN flushing[i])
           p == [peer[i] EXCEPT ![i].match = end]
       IN  /\ disk' = [disk EXCEPT ![i] = Over(flushing[i], @)]
           /\ peer' = [peer EXCEPT ![i] = p]
           /\ commit_idx' = [commit_idx EXCEPT ![i] =
                                raft_node_process_commit(i, end, p, {})]
    /\ flushing' = [flushing EXCEPT ![i] = Nil]
    /\ UNCHANGED <<term, role, active, queue, cache, next_idx, current_idx, waiting,
                   appending, msgs, acked, counters>>

(* get_heartbeat_requests: a server that was sent nothing for a while.  A round
   trip is taken to be shorter than the heartbeat timeout: nothing is on its way
   between the two servers.                                                  *)
heartbeat(i, j) ==
    LET next == peer[i][j].next
        m == [appendentries(i, j, next, <<>>) EXCEPT !.heartbeat = TRUE]
    IN  /\ role[i] = "leader"
        /\ i # j
        /\ ~peer[i][j].suppress
        /\ next = 1 \/ Has(i, next - 1)
        /\ ~\E o \in msgs : {o.src, o.dst} = {i, j}
        /\ msgs' = msgs \cup {m}
        /\ UNCHANGED <<term, role, active, queue, log, commit_idx, waiting,
                       flushing, appending, peer, acked, counters>>

(* Fault: an entry is applied before it is committed.                      *)
apply_before_commit(i) ==
    /\ active[i]
    /\ waiting[i] # {}
    /\ acked' = acked \cup {EntryAt(i, Min(waiting[i])).val}
    /\ waiting' = [waiting EXCEPT ![i] = @ \ {Min(@)}]
    /\ UNCHANGED <<term, role, active, queue, log, commit_idx, flushing, appending, peer,
                   msgs, counters>>

(* raft_apply_entry and apply_complete of the first entry that a client waits
   for: the client is told.  Applying any other entry leaves no trace here.   *)
raft_apply_entry(i) ==
    /\ active[i]
    /\ waiting[i] # {}
    /\ LET n == Min(waiting[i])
       IN  /\ n <= commit_idx[i]
           /\ acked' = acked \cup {EntryAt(i, n).val}
           /\ waiting' = [waiting EXCEPT ![i] = @ \ {n}]
    /\ UNCHANGED <<term, role, active, queue, log, commit_idx, flushing, appending, peer,
                   msgs, counters>>

-----------------------------------------------------------------------------
(* A follower.                                                             *)

reply(i, m, success, current) ==
    [type |-> "reply", src |-> i, dst |-> m.src, term |-> m.term, success |-> success,
     current |-> current, first |-> m.prev + 1, heartbeat |-> m.heartbeat]

(* remove_entry_between: nothing goes when n itself is not cached.          *)
remove_from(i, n) == IF n \in DOMAIN cache[i] THEN Below(cache[i], n) ELSE cache[i]

(* log_truncate: cache and disk lose what follows n, the callbacks of the
   discarded entries are called with result 0, and _next_idx stays.          *)
log_truncate(i, n) ==
    LET gone == waiting[i] \ DOMAIN remove_from(i, n)
    IN  /\ acked' = acked \cup {cache[i][k].val : k \in gone}
        /\ waiting' = [waiting EXCEPT ![i] = @ \ gone]
        /\ disk' = [disk EXCEPT ![i] = Below(@, n)]

(* Fault: entries the log has already are not skipped.                     *)
first_entry(i, m) == 1

(* The first entry of m that is beyond the log of i, or in conflict with it. *)
FirstNew(i, m) ==
    LET new == {k \in 1..Len(m.entries) :
                   IF Has(i, m.prev + k)
                   THEN raft_get_entry_term(i, m.prev + k) # m.entries[k].term
                   ELSE current_idx[i] < m.prev + k}
    IN  IF new = {} THEN Len(m.entries) + 1 ELSE Min(new)

(* The lambda append_entry_func, from the k-th entry of m: kept is the cache
   that a truncation has left.  The entries are numbered from _next_idx.     *)
append_entry_func(i, m, k, kept) ==
    LET es == SubSeq(m.entries, k, Len(m.entries))
        end == m.prev + Len(m.entries)
        r == reply(i, m, "ok", end)
        new_commit == IF commit_idx[i] < m.commit THEN Min({m.commit, end}) ELSE 0
    IN  IF es = <<>>
        THEN /\ commit_idx' = [commit_idx EXCEPT ![i] = Max({@, new_commit})]
             /\ msgs' = (msgs \ {m}) \cup {r}
             /\ UNCHANGED <<cache, next_idx, current_idx, appending>>
        ELSE /\ cache' = [cache EXCEPT ![i] = Over(Numbered(es, next_idx[i]), kept)]
             /\ next_idx' = [next_idx EXCEPT ![i] = @ + Len(es)]
             /\ current_idx' = [current_idx EXCEPT ![i] = end]
             /\ appending' = [appending EXCEPT ![i] =
                                 [start |-> m.prev + k, end |-> end, commit |-> new_commit,
                                  reply |-> r, written |-> FALSE]]
             /\ msgs' = msgs \ {m}
             /\ UNCHANGED commit_idx

(* Answer at once, without a change to the log.                            *)
Answer(m, r) ==
    /\ msgs' = (msgs \ {m}) \cup {r}
    /\ UNCHANGED <<log, commit_idx, waiting, appending, acked>>

(* Fault: the entry before the new ones is not looked at.                  *)
follow_without_prev_check(i, m) ==
    /\ append_entry_func(i, m, FirstNew(i, m), cache[i])
    /\ UNCHANGED <<waiting, acked, disk>>

(* The request of a leader of term m.term that i follows by now.           *)
Follow(i, m) ==
    LET k == FirstNew(i, m)
        n == m.prev + k
        conflict == k <= Len(m.entries) /\ Has(i, n)
    IN  CASE m.prev > 0 /\ ~Has(i, m.prev) /\ current_idx[i] < m.prev ->
               Answer(m, reply(i, m, "fail", current_idx[i]))
          [] m.prev > 0 /\ Has(i, m.prev)
               /\ raft_get_entry_term(i, m.prev) # m.prev_term ->
               IF m.prev <= commit_idx[i]
               THEN Answer(m, reply(i, m, "shutdown", current_idx[i]))
               ELSE /\ log_truncate(i, m.prev)
                    /\ cache' = [cache EXCEPT ![i] = remove_from(i, m.prev)]
                    /\ current_idx' = [current_idx EXCEPT ![i] = m.prev - 1]
                    /\ msgs' = (msgs \ {m}) \cup {reply(i, m, "not_match", m.prev - 1)}
                    /\ UNCHANGED <<next_idx, commit_idx, appending>>
          [] OTHER ->
               IF conflict /\ n <= commit_idx[i]
               THEN Answer(m, reply(i, m, "shutdown", current_idx[i]))
               ELSE IF conflict
               THEN /\ log_truncate(i, n)
                    /\ append_entry_func(i, m, k, remove_from(i, n))
               ELSE /\ append_entry_func(i, m, k, cache[i])
                    /\ UNCHANGED <<waiting, acked, disk>>

(* One request is handled at a time.                                       *)
raft_recv_appendentries(i, m) ==
    /\ active[i]
    /\ appending[i] = Nil
    /\ IF m.term < term[i]
       THEN /\ Answer(m, [reply(i, m, "fail", current_idx[i]) EXCEPT !.term = term[i]])
            /\ UNCHANGED <<term, role>>
       ELSE /\ term' = [term EXCEPT ![i] = m.term]
            /\ role' = IF term[i] < m.term THEN [role EXCEPT ![i] = "follower"] ELSE role
            /\ Follow(i, m)
    /\ UNCHANGED <<active, queue, flushing, peer, counters>>

(* raft_service::append_entries of a server that is not active yet.        *)
Refuse(i, m) ==
    /\ ~active[i]
    /\ msgs' = (msgs \ {m}) \cup {[reply(i, m, "refused", 0) EXCEPT !.term = 0, !.first = 0]}
    /\ UNCHANGED <<term, role, active, queue, log, commit_idx, waiting, flushing,
                   appending, peer, acked, counters>>

(* Fault: the answer does not wait for the disk.                           *)
follow_disk_append_without_write(i) ==
    /\ appending[i] # Nil
    /\ ~appending[i].written
    /\ commit_idx' = [commit_idx EXCEPT ![i] = Max({@, appending[i].commit})]
    /\ msgs' = msgs \cup {appending[i].reply}
    /\ appending' = [appending EXCEPT ![i] = Nil]
    /\ UNCHANGED <<term, role, active, queue, log, waiting, flushing, peer, acked, counters>>

(* The follower's append is done.  The callback that answers the request is
   kept with the cached entry: when no entry is cached under the index of the
   request, nothing was written, it is never called, and the buffer stays in
   progress.                                                                 *)
follow_disk_append_complete(i) ==
    LET a == appending[i]
    IN  /\ a # Nil
        /\ ~a.written
        /\ disk' = [disk EXCEPT ![i] = Over(get_between(i, a.start, a.end), @)]
        /\ commit_idx' = [commit_idx EXCEPT ![i] = Max({@, a.commit})]
        /\ IF a.start \in DOMAIN cache[i]
           THEN /\ msgs' = msgs \cup {a.reply}
                /\ appending' = [appending EXCEPT ![i] = Nil]
           ELSE /\ appending' = [appending EXCEPT ![i].written = TRUE]
                /\ UNCHANGED msgs
        /\ UNCHANGED <<term, role, active, queue, cache, next_idx, current_idx,
                       waiting, flushing, peer, acked, counters>>

-----------------------------------------------------------------------------
(* Responses.                                                              *)

(* A response in the leader's term.                                        *)
Accept(i, r, p) ==
    LET j == r.src
        rest == msgs \ {r}
        lags == [p EXCEPT ![j].next = r.current + 1]
        done == [lags EXCEPT ![j].match = r.current]
    IN  CASE r.success = "not_match"
               \/ (r.success = "fail" /\ (p[j].recovering \/ r.first - 1 > r.current)) ->
               /\ dispatch_recovery(i, j,
                     IF r.success = "fail" /\ p[j].recovering /\ p[j].next <= r.current
                     THEN p ELSE lags, rest)
               /\ UNCHANGED commit_idx
          [] r.success = "fail" /\ ~p[j].recovering /\ r.first - 1 <= r.current ->
               /\ process_response(i, j, p[j].end, lags, {j})
               /\ msgs' = rest
          [] r.success = "ok" /\ ~p[j].recovering /\ r.current <= p[j].match ->
               /\ peer' = [peer EXCEPT ![i] = p]
               /\ msgs' = rest
               /\ UNCHANGED commit_idx
          [] r.success = "ok" /\ p[j].recovering ->
               /\ dispatch_recovery(i, j, done, rest)
               /\ UNCHANGED commit_idx
          [] r.success = "ok" /\ ~p[j].recovering /\ r.current > p[j].match ->
               /\ IF r.heartbeat
                  THEN peer' = [peer EXCEPT ![i] = done] /\ UNCHANGED commit_idx
                  ELSE process_response(i, j, r.current, done, {})
               /\ msgs' = rest

raft_process_appendentries_reply(i, r) ==
    LET j == r.src
        p == [peer[i] EXCEPT ![j].suppress = FALSE]
    IN  /\ IF role[i] # "leader" \/ r.success \in {"refused", "shutdown"}
           THEN /\ process_response(i, j, p[j].end, p, {j})
                /\ msgs' = msgs \ {r}
                /\ UNCHANGED <<term, role>>
           ELSE IF term[i] < r.term
           THEN /\ term' = [term EXCEPT ![i] = r.term]
                /\ role' = [role EXCEPT ![i] = "follower"]
                /\ peer' = [peer EXCEPT ![i] = [p EXCEPT ![j].recovering = FALSE]]
                /\ msgs' = msgs \ {r}
                /\ UNCHANGED commit_idx
           ELSE IF r.term < term[i]
           THEN /\ peer' = [peer EXCEPT ![i] = p]
                /\ msgs' = msgs \ {r}
                /\ UNCHANGED <<term, role, commit_idx>>
           ELSE Accept(i, r, p) /\ UNCHANGED <<term, role>>
        /\ UNCHANGED <<active, queue, log, waiting, flushing, appending, acked,
                       counters>>

(* process_appendentries_response of an rpc that failed: its request or its
   response is lost, and heartbeats to that server are sent again.           *)
RpcFails(m) ==
    LET i == IF m.type = "append" THEN m.src ELSE m.dst
        j == IF m.type = "append" THEN m.dst ELSE m.src
    IN  /\ j \in Unsteady
        /\ failures < MaxFailures
        /\ failures' = failures + 1
        /\ msgs' = msgs \ {m}
        /\ peer' = [peer EXCEPT ![i][j].suppress = FALSE]
        /\ UNCHANGED <<term, role, active, queue, log, commit_idx, waiting, flushing,
                       appending, acked, writes, restarts>>

-----------------------------------------------------------------------------
(* Leader change and restart.                                              *)

(* i is elected by Q: the whole log is taken for committed, and an empty request
   is sent.  An entry that is cached beyond the log goes with it.            *)
Elected(i, Q) ==
    LET t == Max({term[j] : j \in Server}) + 1
        last == current_idx[i]
        es == IF last + 1 \in DOMAIN cache[i] THEN <<cache[i][last + 1]>> ELSE <<>>
    IN  /\ role[i] = "follower"
        /\ t <= MaxTerm
        /\ i \in Q
        /\ raft_votes_is_majority(Q)
        /\ \A j \in Q : active[j]
        /\ term' = [j \in Server |-> IF j \in Q THEN t ELSE term[j]]
        /\ role' = [j \in Server |-> IF j = i THEN "leader"
                                     ELSE IF j \in Q THEN "follower" ELSE role[j]]
        /\ commit_idx' = [commit_idx EXCEPT ![i] = last]
        /\ peer' = [peer EXCEPT ![i] = [j \in Server |->
                       [@[j] EXCEPT !.match = 0,
                                    !.next = IF j = i THEN @ ELSE last + 1,
                                    !.suppress = IF j = i THEN @ ELSE TRUE]]]
        /\ msgs' = msgs \cup {[appendentries(i, j, last + 1, es) EXCEPT
                                 !.term = t, !.commit = last] : j \in Server \ {i}}
        /\ UNCHANGED <<active, queue, log, waiting, flushing, appending, acked, counters>>

(* Fault: votes are given to a candidate that is behind.                   *)
become_leader_behind(i, Q) == Elected(i, Q)

(* raft_become_leader, after an election in which Q voted: nobody in Q is ahead
   of the candidate.                                                         *)
raft_become_leader(i, Q) ==
    /\ Elected(i, Q)
    /\ \A j \in Q :
          LET tj == raft_get_entry_term(j, current_idx[j])
              ti == raft_get_entry_term(i, current_idx[i])
          IN  tj < ti \/ (tj = ti /\ current_idx[j] <= current_idx[i])

(* raft_periodic of a leader without leases.                               *)
LeaderLosesLeases(i) ==
    /\ role[i] = "leader"
    /\ term[i] < MaxTerm
    /\ role' = [role EXCEPT ![i] = "follower"]
    /\ UNCHANGED <<term, active, queue, log, commit_idx, waiting, flushing,
                   appending, peer, msgs, acked, counters>>

(* What is being written to the disk of i.                                 *)
InFlight(i) ==
    IF appending[i] # Nil THEN get_between(i, appending[i].start, appending[i].end)
    ELSE IF flushing[i] # Nil THEN flushing[i]
    ELSE Empty

(* The process dies and load starts it again: of an append in flight the first
   entries are on disk, all that is on disk is taken for committed, and rpcs end.  The
   group is inactive until the osd activates it.                             *)
Restart(i) ==
    /\ i \in Unsteady
    /\ restarts < MaxRestarts
    /\ restarts' = restarts + 1
    /\ \E n \in 1..MaxWrites + 1 :
          LET d == Over(Below(InFlight(i), n), disk[i])
              end == Max(DOMAIN d \cup {0})
          IN  /\ disk' = [disk EXCEPT ![i] = d]
              /\ next_idx' = [next_idx EXCEPT ![i] = end + 1]
              /\ current_idx' = [current_idx EXCEPT ![i] = end]
              /\ commit_idx' = [commit_idx EXCEPT ![i] = end]
    /\ active' = [active EXCEPT ![i] = FALSE]
    /\ cache' = [cache EXCEPT ![i] = Empty]
    /\ queue' = [queue EXCEPT ![i] = <<>>]
    /\ waiting' = [waiting EXCEPT ![i] = {}]
    /\ flushing' = [flushing EXCEPT ![i] = Nil]
    /\ appending' = [appending EXCEPT ![i] = Nil]
    /\ peer' = [k \in Server |->
                   IF k = i THEN [j \in Server |-> [match |-> 0, next |-> 1, end |-> 0,
                                      recovering |-> FALSE, suppress |-> FALSE]]
                   ELSE [peer[k] EXCEPT ![i].suppress = FALSE]]
    /\ msgs' = {m \in msgs : m.dst # i}
    /\ role' = [role EXCEPT ![i] = "follower"]
    /\ UNCHANGED <<term, acked, writes, failures>>

active_raft(i) ==
    /\ ~active[i]
    /\ active' = [active EXCEPT ![i] = TRUE]
    /\ UNCHANGED <<term, role, queue, log, commit_idx, waiting, flushing, appending,
                   peer, msgs, acked, counters>>

-----------------------------------------------------------------------------

Receive(m) ==
    IF m.type = "append"
    THEN raft_recv_appendentries(m.dst, m) \/ Refuse(m.dst, m)
    ELSE raft_process_appendentries_reply(m.dst, m)

Next ==
    \/ \E i \in Server :
          \/ raft_write_entry(i)
          \/ raft_flush(i)
          \/ disk_append_complete(i)
          \/ \E j \in Server : heartbeat(i, j)
          \/ raft_apply_entry(i)
          \/ follow_disk_append_complete(i)
          \/ \E Q \in SUBSET Server : raft_become_leader(i, Q)
          \/ LeaderLosesLeases(i)
          \/ Restart(i)
          \/ active_raft(i)
    \/ \E m \in msgs : Receive(m) \/ RpcFails(m)

(* The pollers of a shard run for ever, disk requests and rpcs are completed, and
   a loaded group is activated.  Nothing is assumed of heartbeats.           *)
LocalStep(i) ==
    \/ raft_flush(i)
    \/ disk_append_complete(i)
    \/ raft_apply_entry(i)
    \/ follow_disk_append_complete(i)
    \/ active_raft(i)

Fairness ==
    /\ WF_vars(\E i \in Server : LocalStep(i))
    /\ \A j \in Server : WF_vars(\E m \in msgs : j \in {m.src, m.dst} /\ Receive(m))

Spec == Init /\ [][Next]_vars
FairSpec == Spec /\ Fairness

-----------------------------------------------------------------------------

(* Every variable stays in its range.                                      *)
TypeOK ==
    /\ term \in [Server -> 1..MaxTerm]
    /\ role \in [Server -> {"leader", "follower"}]
    /\ active \in [Server -> BOOLEAN]
    /\ \A i \in Server :
          /\ queue[i] \in Seq(Entry)
          /\ cache[i] \in [DOMAIN cache[i] -> Entry] /\ DOMAIN cache[i] \subseteq Idx
          /\ disk[i] \in [DOMAIN disk[i] -> Entry] /\ DOMAIN disk[i] \subseteq Idx
          /\ waiting[i] \subseteq DOMAIN cache[i]
    /\ next_idx \in [Server -> 1..MaxWrites + 1]
    /\ current_idx \in [Server -> 0..MaxWrites]
    /\ commit_idx \in [Server -> 0..MaxWrites]
    /\ peer \in [Server -> [Server -> raft_node]]
    /\ \A m \in msgs : m.type = "reply" => m.success \in Success
    /\ acked \subseteq Idx

(* What two servers take for committed they agree on, so their state machines
   apply the same entries in the same order.                                 *)
StateMachineSafety ==
    \A i, j \in Server, n \in Idx :
        n <= commit_idx[i] /\ n <= commit_idx[j] /\ Has(i, n) /\ Has(j, n)
            => EntryAt(i, n) = EntryAt(j, n)

(* What the leader has noted as matching is on the server's disk, and is what
   the leader has there: no response that is late or out of order, and no restart
   of the server, makes the leader count a copy that does not exist.         *)
MatchIsStored ==
    \A i, j \in Server : role[i] = "leader" =>
        \A n \in 1..peer[i][j].match :
            n \in DOMAIN disk[j] /\ disk[j][n] = EntryAt(i, n)

(* A write is reported to its client only when the leader that took it has it on
   its own disk: the answers of the followers, errors among them, may all come
   before the leader's own append is done, and commit nothing by themselves.  *)
AckedOnLeaderDisk ==
    \A v \in acked : \E n \in DOMAIN disk[First] : disk[First][n].val = v

(* A write whose client was told that it is done is in the log of the leader of
   the latest term.                                                          *)
AckedSurvive ==
    \A i \in Server : role[i] = "leader" /\ (\A j \in Server : term[j] <= term[i]) =>
        \A v \in acked : \E n \in 1..current_idx[i] : Has(i, n) /\ EntryAt(i, n).val = v

(* In the end every write is committed and every server that never fails has it,
   also when requests overtake each other so that a server has to be recovered. *)
Replicated ==
    <>[](/\ commit_idx[First] = writes
         /\ \A j \in Server \ Unsteady : 1..writes \subseteq DOMAIN disk[j])

(* When nothing is on its way, what a majority has stored is committed.      *)
MajorityIsCommitted ==
    (msgs = {} /\ \A i \in Server : flushing[i] = Nil /\ appending[i] = Nil) =>
        \A i \in Server, n \in Idx :
            /\ role[i] = "leader"
            /\ n \in DOMAIN disk[i]
            /\ raft_votes_is_majority({j \in Server : n \in DOMAIN disk[j]})
            => n <= commit_idx[i]

(* No request is in conflict with a committed entry ("should never happen").  *)
NoCommittedConflict ==
    \A m \in msgs : m.type = "reply" => m.success # "shutdown"

=============================================================================
