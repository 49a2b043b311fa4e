---------------------------- MODULE RaftElection ----------------------------
(***************************************************************************)
(* Leader election of one raft group (one placement group) of fastblock:   *)
(* prevote, vote, term and vote persistence through the asynchronous       *)
(* kvstore, restart, append entries and leader step-down.                  *)
(*                                                                         *)
(* The module is untimed: an election timeout may expire at any moment,    *)
(* and whether the two time guards of raft_recv_requestvote (a leader was  *)
(* heard of less than _election_timeout ago; the server was started less   *)
(* than _election_timeout ago) hold is a choice made at each request.      *)
(* The membership is fixed, with at least two members, and a log is its    *)
(* last position.                                                          *)
(***************************************************************************)
EXTENDS Integers, FiniteSets

CONSTANTS
    Server,       \* the osds of the placement group
    None,         \* -1, no vote
    InitTerm,     \* the term the group starts in: 0, or a term it has completed
    MaxTerm,      \* bound on terms
    MaxIdx,       \* bound on log indices
    MaxElections, \* bound on the number of election timeouts
    MaxRestarts,  \* bound on process restarts
    LosePuts      \* may a crash lose kvstore puts not yet written to disk?

ASSUME ElectionAssumption ==
    /\ IsFiniteSet(Server)
    /\ Cardinality(Server) >= 2
    /\ None \notin Server
    /\ MaxTerm \in Nat
    /\ InitTerm \in 0..MaxTerm
    /\ MaxIdx \in Nat
    /\ MaxElections \in Nat
    /\ MaxRestarts \in Nat
    /\ LosePuts \in BOOLEAN

VARIABLES
    current_term, \* _current_term
    voted_for,    \* _voted_for
    identity,     \* _identity and _prevote
    votes,        \* the nodes whose vote_for_me flag is set
    last,         \* position of the last log entry
    kv,           \* last values put for the keys .term and .vote_for
    disk,         \* what the kvstore has written for these keys
    msgs,         \* rpc requests and responses in flight
    elections,    \* number of elections started so far
    restarts,     \* number of restarts so far
    cast,         \* history: votes granted, with the voter's last position
    elected       \* history: leaders elected, with their voters

counters == <<elections, restarts>>
history == <<counters, cast, elected>>
volatile == <<current_term, voted_for, identity, votes>>
vars == <<volatile, last, kv, disk, msgs, history>>

Term == 0..MaxTerm
Origin == [term |-> 0, idx |-> 0]
Position == {Origin} \cup [term : 1..MaxTerm, idx : 1..MaxIdx]

(* A candidate that is still collecting prevotes (_prevote is 1) is a
   "precandidate", one that has incremented its term a "candidate".         *)
Identity == {"follower", "precandidate", "candidate", "leader"}

RequestVote == [type : {"vote"}, term : Term, src : Server, dst : Server,
                prevote : BOOLEAN, last : Position]
VoteReply == [type : {"vote_reply"}, term : Term, src : Server, dst : Server,
              prevote : BOOLEAN, granted : BOOLEAN]
AppendEntries == [type : {"append"}, term : Term, src : Server, dst : Server,
                  last : Position]
AppendReply == [type : {"append_reply"}, term : Term, src : Server,
                dst : Server]
Message == RequestVote \cup VoteReply \cup AppendEntries \cup AppendReply

(* The group is new, or its members were restarted after a term in which they
   all voted for the same leader, whose entries some of them received.       *)
Init ==
    /\ current_term = [i \in Server |-> InitTerm]
    /\ \E l \in IF InitTerm = 0 THEN {None} ELSE Server :
          /\ voted_for = [i \in Server |-> l]
          /\ kv = [i \in Server |-> [term |-> InitTerm, vote |-> l]]
          /\ disk = [i \in Server |-> [term |-> InitTerm, vote |-> l]]
    /\ identity = [i \in Server |-> "follower"]
    /\ votes = [i \in Server |-> {}]
    /\ last \in [Server -> {p \in Position : p.term <= InitTerm}]
    /\ msgs = {}
    /\ elections = 0
    /\ restarts = 0
    /\ cast = {}
    /\ elected = {}

-----------------------------------------------------------------------------

raft_votes_is_majority(Q) ==
    Cardinality(Server) \div 2 + 1 <= Cardinality(Q)

(* A log that ends at p is at least as up to date as one that ends at q.    *)
UpToDate(p, q) ==
    \/ q.term < p.term
    \/ q.term = p.term /\ q.idx <= p.idx

raft_send_requestvote(i, t, pre) ==
    {[type |-> "vote", term |-> t, src |-> i, dst |-> j, prevote |-> pre,
      last |-> last[i]] : j \in Server \ {i}}

raft_send_appendentries(i, t, to) ==
    {[type |-> "append", term |-> t, src |-> i, dst |-> j, last |-> last[i]] : j \in to}

Vote(v, t, c) == [voter |-> v, term |-> t, candidate |-> c, last |-> last[v]]

Election(t, i, Q) == [term |-> t, leader |-> i, voters |-> Q, last |-> last[i]]

-----------------------------------------------------------------------------
(* Transitions between the identities.  rest is what is left in flight once
   the message that caused the transition is consumed.                      *)

(* Fault: the adopted term is not put to the kvstore.                       *)
step_down_without_put(i, t) ==
    /\ current_term' = [current_term EXCEPT ![i] = t]
    /\ voted_for' = [voted_for EXCEPT ![i] = None]
    /\ kv' = kv
    /\ identity' = [identity EXCEPT ![i] = "follower"]

(* A larger term t is adopted: the term is put to the kvstore, the vote is
   forgotten in memory only, and the server follows.                        *)
StepDownTo(i, t) ==
    /\ current_term' = [current_term EXCEPT ![i] = t]
    /\ voted_for' = [voted_for EXCEPT ![i] = None]
    /\ kv' = [kv EXCEPT ![i].term = t]
    /\ identity' = [identity EXCEPT ![i] = "follower"]

(* Start an election: ask every other node for a prevote in the current term. *)
raft_become_candidate(i) ==
    /\ identity' = [identity EXCEPT ![i] = "precandidate"]
    /\ votes' = [votes EXCEPT ![i] = {i}]
    /\ msgs' = msgs \cup raft_send_requestvote(i, current_term[i], TRUE)
    /\ UNCHANGED <<current_term, voted_for, last, kv, disk, restarts, cast, elected>>

(* Fault: the prevoted candidate asks for votes without voting for itself.  *)
prevoted_candidate_without_own_vote(i, rest) ==
    /\ current_term[i] < MaxTerm
    /\ current_term' = [current_term EXCEPT ![i] = @ + 1]
    /\ voted_for' = [voted_for EXCEPT ![i] = None]
    /\ kv' = [kv EXCEPT ![i].term = current_term[i] + 1]
    /\ identity' = [identity EXCEPT ![i] = "candidate"]
    /\ votes' = [votes EXCEPT ![i] = {i}]
    /\ msgs' = rest \cup raft_send_requestvote(i, current_term[i] + 1, FALSE)
    /\ cast' = cast \cup {Vote(i, current_term[i] + 1, i)}
    /\ UNCHANGED <<last, disk, counters, elected>>

(* A majority granted the prevote: increment the term, vote for itself and
   ask every other node for its vote.                                       *)
raft_become_prevoted_candidate(i, rest) ==
    /\ current_term[i] < MaxTerm
    /\ current_term' = [current_term EXCEPT ![i] = @ + 1]
    /\ voted_for' = [voted_for EXCEPT ![i] = i]
    /\ kv' = [kv EXCEPT ![i] = [term |-> current_term[i] + 1, vote |-> i]]
    /\ identity' = [identity EXCEPT ![i] = "candidate"]
    /\ votes' = [votes EXCEPT ![i] = {i}]
    /\ msgs' = rest \cup raft_send_requestvote(i, current_term[i] + 1, FALSE)
    /\ cast' = cast \cup {Vote(i, current_term[i] + 1, i)}
    /\ UNCHANGED <<last, disk, counters, elected>>

(* A majority voted for i: lead, and announce it to every other node.       *)
raft_become_leader(i, Q, rest) ==
    /\ identity' = [identity EXCEPT ![i] = "leader"]
    /\ votes' = [votes EXCEPT ![i] = Q]
    /\ msgs' = rest \cup raft_send_appendentries(i, current_term[i], Server \ {i})
    /\ elected' = elected \cup {Election(current_term[i], i, Q)}
    /\ UNCHANGED <<current_term, voted_for, last, kv, disk, counters, cast>>

-----------------------------------------------------------------------------
(* The raft timer.                                                         *)

(* raft_periodic of a server that does not lead and whose election timeout
   has expired.  The last term of the bound holds no further election.      *)
raft_election_start(i) ==
    /\ identity[i] # "leader"
    /\ current_term[i] < MaxTerm
    /\ elections < MaxElections
    /\ elections' = elections + 1
    /\ raft_become_candidate(i)

(* raft_periodic of a leader that no longer holds leases from a majority.   *)
LeaderLosesLeases(i) ==
    /\ identity[i] = "leader"
    /\ identity' = [identity EXCEPT ![i] = "follower"]
    /\ UNCHANGED <<current_term, voted_for, votes, last, kv, disk, msgs, history>>

-----------------------------------------------------------------------------
(* Votes.                                                                  *)

(* Fault: a server that has voted in its term grants a second candidate.   *)
grant_without_voted_for(m, term, vote, pos) ==
    m.term >= term /\ UpToDate(m.last, pos)

(* Fault: the log of the candidate is not looked at.                       *)
grant_without_log_check(m, term, vote, pos) ==
    /\ m.term >= term
    /\ m.prevote \/ vote \in {None, m.src}

should_grant_vote(m, term, vote, pos) ==
    /\ m.term >= term
    /\ m.prevote \/ vote \in {None, m.src}
    /\ UpToDate(m.last, pos)

(* A request for a vote or a prevote.  A larger term is adopted first; then
   a leader refuses, and so does a server for which one of the time guards
   holds; a vote (not a prevote) that is granted is put to the kvstore.  A
   refusal that carries the term of the request changes nothing where it
   arrives, and is not sent.                                                *)
raft_recv_requestvote(i, m, within_timeout) ==
    LET newer == current_term[i] < m.term
        term == IF newer THEN m.term ELSE current_term[i]
        vote == IF newer THEN None ELSE voted_for[i]
        id == IF newer THEN "follower" ELSE identity[i]
        refuse == id = "leader" \/ within_timeout
        grant == ~refuse /\ should_grant_vote(m, term, vote, last[i])
        record == grant /\ ~m.prevote
        reply == [type |-> "vote_reply", term |-> term, src |-> i, dst |-> m.src,
                  prevote |-> m.prevote, granted |-> grant]
    IN  /\ current_term' = [current_term EXCEPT ![i] = term]
        /\ voted_for' = [voted_for EXCEPT ![i] = IF record THEN m.src ELSE vote]
        /\ kv' = [kv EXCEPT ![i] = [term |-> IF newer THEN m.term ELSE kv[i].term,
                                    vote |-> IF record THEN m.src ELSE kv[i].vote]]
        /\ identity' = [identity EXCEPT ![i] = id]
        /\ cast' = cast \cup (IF record THEN {Vote(i, term, m.src)} ELSE {})
        /\ msgs' = (msgs \ {m}) \cup
                     (IF grant \/ term > m.term THEN {reply} ELSE {})
        /\ UNCHANGED <<votes, last, disk, counters, elected>>

Ignore(m) ==
    /\ msgs' = msgs \ {m}
    /\ UNCHANGED <<volatile, last, kv, disk, history>>

(* Is m the answer to a request of the phase i is in?                      *)
AnswersPhase(i, m) ==
    \/ identity[i] = "precandidate" /\ m.prevote
    \/ identity[i] = "candidate" /\ ~m.prevote

(* raft_count_votes, once the vote in m is counted.                        *)
raft_count_votes(i, m) ==
    LET Q == votes[i] \cup {m.src}
        rest == msgs \ {m}
    IN  IF ~raft_votes_is_majority(Q)
        THEN /\ votes' = [votes EXCEPT ![i] = Q]
             /\ msgs' = rest
             /\ UNCHANGED <<current_term, voted_for, identity, last, kv, disk, history>>
        ELSE IF identity[i] = "precandidate"
        THEN raft_become_prevoted_candidate(i, rest)
        ELSE raft_become_leader(i, Q, rest)

raft_process_requestvote_reply(i, m) ==
    IF ~AnswersPhase(i, m) \/ m.term < current_term[i] THEN Ignore(m)
    ELSE IF current_term[i] < m.term
    THEN /\ StepDownTo(i, m.term)
         /\ msgs' = msgs \ {m}
         /\ UNCHANGED <<votes, last, disk, history>>
    ELSE IF m.granted THEN raft_count_votes(i, m) ELSE Ignore(m)

-----------------------------------------------------------------------------
(* Append entries, as far as elections depend on them.                     *)

(* A leader writes an entry of its term to its log.                        *)
raft_write_entry(i) ==
    /\ identity[i] = "leader"
    /\ last[i].idx < MaxIdx
    /\ last' = [last EXCEPT ![i] = [term |-> current_term[i], idx |-> @.idx + 1]]
    /\ UNCHANGED <<volatile, kv, disk, msgs, history>>

raft_send_heartbeat(i, j) ==
    /\ identity[i] = "leader"
    /\ i # j
    /\ msgs' = msgs \cup raft_send_appendentries(i, current_term[i], {j})
    /\ UNCHANGED <<volatile, last, kv, disk, history>>

(* Append entries of an older term are answered with the term of i (any other
   answer carries the sender's own term and says nothing about elections).
   Otherwise i follows the sender, and its log ends where it did, at the end
   of the sender's log or, when a conflicting suffix is truncated, before.   *)
raft_recv_appendentries(i, m) ==
    IF m.term < current_term[i]
    THEN /\ msgs' = (msgs \ {m}) \cup
                       {[type |-> "append_reply", term |-> current_term[i], src |-> i,
                         dst |-> m.src]}
         /\ UNCHANGED <<volatile, last, kv, disk, history>>
    ELSE LET newer == current_term[i] < m.term
         IN  /\ current_term' = [current_term EXCEPT ![i] = m.term]
             /\ voted_for' = [voted_for EXCEPT ![i] = IF newer THEN None ELSE @]
             /\ kv' = [kv EXCEPT ![i].term = IF newer THEN m.term ELSE @]
             /\ identity' = [identity EXCEPT ![i] =
                                IF @ = "leader" /\ ~newer THEN @ ELSE "follower"]
             /\ \E p \in {last[i]} \cup {q \in Position : UpToDate(m.last, q)} :
                    last' = [last EXCEPT ![i] = p]
             /\ msgs' = msgs \ {m}
             /\ UNCHANGED <<votes, disk, history>>

raft_process_appendentries_reply(i, m) ==
    IF identity[i] = "leader" /\ current_term[i] < m.term
    THEN /\ StepDownTo(i, m.term)
         /\ msgs' = msgs \ {m}
         /\ UNCHANGED <<votes, last, disk, history>>
    ELSE Ignore(m)

-----------------------------------------------------------------------------
(* The kvstore and restarts.                                               *)

(* The kvstore's poller writes the pending puts as one batch.  When no put is
   ever lost, every crash comes after this write and disk is not needed.    *)
KvCommit(i) ==
    /\ LosePuts
    /\ disk[i] # kv[i]
    /\ disk' = [disk EXCEPT ![i] = kv[i]]
    /\ UNCHANGED <<volatile, last, kv, msgs, history>>

(* What the kvstore holds after its replay.                                *)
Replayed(i) == IF LosePuts THEN disk[i] ELSE kv[i]

(* Fault: a server that never voted is loaded with the vote 0.             *)
restart_with_vote_zero(i) ==
    /\ restarts < MaxRestarts
    /\ restarts' = restarts + 1
    /\ current_term' = [current_term EXCEPT ![i] = Replayed(i).term]
    /\ voted_for' = [voted_for EXCEPT ![i] =
                        IF Replayed(i).vote = None THEN 0 ELSE Replayed(i).vote]
    /\ kv' = [kv EXCEPT ![i] = Replayed(i)]
    /\ identity' = [identity EXCEPT ![i] = "follower"]
    /\ votes' = [votes EXCEPT ![i] = {}]
    /\ UNCHANGED <<last, disk, msgs, elections, cast, elected>>

(* The process stops and is started again: load() reads term and vote from
   the kvstore, and the log ends where its last entry on disk is; everything
   else starts as in the constructor.  The vote loaded may be one given in an
   older term.                                                              *)
Restart(i) ==
    /\ restarts < MaxRestarts
    /\ restarts' = restarts + 1
    /\ current_term' = [current_term EXCEPT ![i] = Replayed(i).term]
    /\ voted_for' = [voted_for EXCEPT ![i] = Replayed(i).vote]
    /\ kv' = [kv EXCEPT ![i] = Replayed(i)]
    /\ identity' = [identity EXCEPT ![i] = "follower"]
    /\ votes' = [votes EXCEPT ![i] = {}]
    /\ \E p \in {last[i]} \cup {q \in Position : UpToDate(last[i], q)} :
          last' = [last EXCEPT ![i] = p]
    /\ UNCHANGED <<disk, msgs, elections, cast, elected>>

-----------------------------------------------------------------------------

Receive(m) ==
    \/ /\ m.type = "vote"
       /\ \E within_timeout \in BOOLEAN :
              raft_recv_requestvote(m.dst, m, within_timeout)
    \/ m.type = "vote_reply" /\ raft_process_requestvote_reply(m.dst, m)
    \/ m.type = "append" /\ raft_recv_appendentries(m.dst, m)
    \/ m.type = "append_reply" /\ raft_process_appendentries_reply(m.dst, m)

Step(i) ==
    \/ raft_election_start(i)
    \/ LeaderLosesLeases(i)
    \/ raft_write_entry(i)
    \/ \E j \in Server : raft_send_heartbeat(i, j)
    \/ KvCommit(i)
    \/ Restart(i)

(* A message that is lost is one that is never received.                   *)
Next ==
    \/ \E i \in Server : Step(i)
    \/ \E m \in msgs : Receive(m)

Spec == Init /\ [][Next]_vars

-----------------------------------------------------------------------------

(* Every variable stays in its range, whatever raft_server_t does.         *)
TypeOK ==
    /\ current_term \in [Server -> Term]
    /\ voted_for \in [Server -> Server \cup {None}]
    /\ identity \in [Server -> Identity]
    /\ votes \in [Server -> SUBSET Server]
    /\ last \in [Server -> Position]
    /\ kv \in [Server -> [term : Term, vote : Server \cup {None}]]
    /\ disk \in [Server -> [term : Term, vote : Server \cup {None}]]
    /\ msgs \subseteq Message
    /\ elections \in 0..MaxElections
    /\ restarts \in 0..MaxRestarts
    /\ cast \subseteq [voter : Server, term : Term, candidate : Server,
                        last : Position]
    /\ elected \subseteq [term : Term, leader : Server, voters : SUBSET Server,
                           last : Position]

(* Two calls of raft_become_leader in the same term are made by the same
   server: no two servers ever lead the same term.                          *)
ElectionSafety ==
    \A e, f \in elected : e.term = f.term => e.leader = f.leader

(* The assertion of raft_recv_requestvote: a request for a vote (not a
   prevote) that passes should_grant_vote never finds a server that leads
   or campaigns in that term, because such a server voted for itself.       *)
NoGrantWhileCampaigning ==
    \A m \in msgs :
        /\ m.type = "vote"
        /\ ~m.prevote
        /\ m.term = current_term[m.dst]
        /\ should_grant_vote(m, current_term[m.dst], voted_for[m.dst], last[m.dst])
        => identity[m.dst] \notin {"candidate", "leader"}

(* A leader was elected by a majority, and when it granted its vote in that
   term each of these voters had a log that was not more up to date than the
   log the leader starts its term with.                                     *)
ElectedByUpToDateMajority ==
    \A e \in elected :
        /\ raft_votes_is_majority(e.voters)
        /\ \A v \in e.voters :
              \E c \in cast : /\ c.voter = v
                             /\ c.term = e.term
                             /\ c.candidate = e.leader
                             /\ UpToDate(e.last, c.last)

(* Does i stand by the term and the vote that a load would give back to it?  *)
Stands(i) ==
    \/ Replayed(i).term < current_term[i]
    \/ Replayed(i).term = current_term[i] /\ Replayed(i).vote = voted_for[i]

(* Once the kvstore has written the vote a server has given in its term, the
   server stands by it until a larger term is written: no later put of one of
   the two keys and no restart, whatever puts it loses, brings back an older
   term, or that term with another vote or none.  A vote or a term that is put
   but not yet written is lost in a crash, and then the term does decrease.   *)
WrittenVoteStands ==
    [][\A i \in Server :
          Replayed(i).vote # None /\ Stands(i) =>
              \/ Replayed(i).term < Replayed(i)'.term
              \/ Replayed(i)' = Replayed(i) /\ Stands(i)']_vars

=============================================================================
