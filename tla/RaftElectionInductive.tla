----------------------- MODULE RaftElectionInductive ------------------------
(***************************************************************************)
(* The inductive invariant of RaftElection, for every set of servers and   *)
(* every bound, provided no crash loses a kvstore put (LosePuts = FALSE).  *)
(***************************************************************************)
EXTENDS RaftElectionTypes

(* c is the vote of v for i in term t, given when the log of v was not more up
   to date than p.                                                          *)
VoteFor(c, v, t, i, p) ==
    /\ c.voter = v
    /\ c.term = t
    /\ c.candidate = i
    /\ UpToDate(p, c.last)

(* The kvstore holds the term and, if there is one, the vote.              *)
KvIsCurrent ==
    \A i \in Server :
        /\ kv[i].term = current_term[i]
        /\ voted_for[i] # None => kv[i].vote = voted_for[i]

(* A server remembers the vote it cast in its current term.                *)
VotesRemembered ==
    \A c \in cast :
        /\ c.term <= current_term[c.voter]
        /\ c.term = current_term[c.voter] => voted_for[c.voter] = c.candidate

(* No server votes twice in a term.                                        *)
OneVotePerTerm ==
    \A a, b \in cast :
        a.voter = b.voter /\ a.term = b.term => a.candidate = b.candidate

(* A real vote request goes to another server and, in the term its sender
   campaigns in, describes the sender's log.                                *)
RequestsDescribeLog ==
    \A m \in msgs :
        m.type = "vote" /\ ~m.prevote =>
            /\ m.src # m.dst
            /\ m.term <= current_term[m.src]
            /\ m.term = current_term[m.src] /\ identity[m.src] = "candidate"
                 => m.last = last[m.src]

(* A granted vote in flight was cast.                                      *)
GrantsWereCast ==
    \A m \in msgs :
        m.type = "vote_reply" /\ ~m.prevote /\ m.granted =>
            /\ m.term <= current_term[m.dst]
            /\ \E c \in cast :
                /\ c.voter = m.src /\ c.term = m.term /\ c.candidate = m.dst
                /\ m.term = current_term[m.dst] /\ identity[m.dst] = "candidate"
                     => UpToDate(last[m.dst], c.last)

(* Who campaigns or leads voted for itself.                                *)
CampaignersVoteForThemselves ==
    \A i \in Server : identity[i] \in {"candidate", "leader"} => voted_for[i] = i

(* The votes a candidate counted were cast for it.                         *)
CountedVotesWereCast ==
    \A i \in Server :
        identity[i] = "candidate" =>
            \A v \in votes[i] :
                \E c \in cast : VoteFor(c, v, current_term[i], i, last[i])

(* The inductive invariant.                                                *)
ElectionInv ==
    /\ TypeInv
    /\ KvIsCurrent
    /\ VotesRemembered
    /\ OneVotePerTerm
    /\ RequestsDescribeLog
    /\ GrantsWereCast
    /\ CampaignersVoteForThemselves
    /\ CountedVotesWereCast
    /\ ElectedByUpToDateMajority

-----------------------------------------------------------------------------

(* Histories only grow: an election recorded earlier stays justified.       *)
LEMMA ElectedStays ==
    ASSUME ElectedByUpToDateMajority, cast \subseteq cast', elected' = elected
    PROVE  ElectedByUpToDateMajority'
BY DEF ElectedByUpToDateMajority, raft_votes_is_majority, UpToDate

(* The group starts without votes, requests or candidates.                 *)
LEMMA InitInv == Init => ElectionInv
<1> SUFFICES ASSUME Init PROVE ElectionInv OBVIOUS
<1>1. TypeInv BY InitType
<1>2. KvIsCurrent BY ElectionAssumption DEF Init, KvIsCurrent
<1>3. VotesRemembered /\ OneVotePerTerm /\ ElectedByUpToDateMajority
  BY DEF Init, VotesRemembered, OneVotePerTerm, ElectedByUpToDateMajority
<1>4. RequestsDescribeLog /\ GrantsWereCast
  BY DEF Init, RequestsDescribeLog, GrantsWereCast
<1>5. CampaignersVoteForThemselves /\ CountedVotesWereCast
  BY DEF Init, CampaignersVoteForThemselves, CountedVotesWereCast
<1>6. QED BY <1>1, <1>2, <1>3, <1>4, <1>5 DEF ElectionInv

(* A server that adopts a larger term, or only ignores a message, disturbs no
   vote: what was cast earlier stays in an older term.                      *)
LEMMA StepDownInv ==
    ASSUME ElectionInv, TypeInv', NEW i \in Server, NEW t \in Term,
           current_term[i] < t, StepDownTo(i, t), msgs' \subseteq msgs,
           UNCHANGED <<votes, last, disk, history>>
    PROVE  ElectionInv'
<1> USE DEF history, counters, Term
<1> USE ElectionAssumption
<1>0. /\ current_term' = [current_term EXCEPT ![i] = t]
      /\ voted_for' = [voted_for EXCEPT ![i] = None]
      /\ kv' = [kv EXCEPT ![i].term = t]
      /\ identity' = [identity EXCEPT ![i] = "follower"]
      /\ TypeOK
  BY DEF StepDownTo, ElectionInv, TypeInv
<1>1. KvIsCurrent'
  BY <1>0 DEF ElectionInv, KvIsCurrent, TypeOK
<1>2. VotesRemembered'
  BY <1>0 DEF ElectionInv, VotesRemembered, TypeOK
<1>3. OneVotePerTerm'
  BY DEF ElectionInv, OneVotePerTerm
<1>4. RequestsDescribeLog'
  BY <1>0, MessageType DEF ElectionInv, RequestsDescribeLog, TypeOK
<1>5. GrantsWereCast'
  BY <1>0, MessageType DEF ElectionInv, GrantsWereCast, TypeOK, UpToDate
<1>6. CampaignersVoteForThemselves' /\ CountedVotesWereCast'
  BY <1>0 DEF ElectionInv, CampaignersVoteForThemselves, CountedVotesWereCast,
              TypeOK, VoteFor, UpToDate
<1>7. ElectedByUpToDateMajority' BY ElectedStays DEF ElectionInv
<1>8. QED BY <1>1, <1>2, <1>3, <1>4, <1>5, <1>6, <1>7 DEF ElectionInv

(* A step that changes none of the votes, terms, logs and campaigns, and sends
   no real request and no grant, keeps the invariant.                       *)
LEMMA FrameInv ==
    ASSUME ElectionInv, TypeInv',
           UNCHANGED <<current_term, voted_for, kv, last, cast, elected>>,
           \A i \in Server : \/ identity'[i] = identity[i] /\ votes'[i] = votes[i]
                             \/ identity'[i] \in {"follower", "precandidate"},
           \A m \in msgs' \ msgs : \/ m.type \in {"append", "append_reply"}
                                   \/ m.type \in {"vote", "vote_reply"} /\ m.prevote
    PROVE  ElectionInv'
<1>0. TypeOK BY DEF ElectionInv, TypeInv
<1>1. KvIsCurrent' /\ VotesRemembered' /\ OneVotePerTerm'
  BY DEF ElectionInv, KvIsCurrent, VotesRemembered, OneVotePerTerm
<1>2. RequestsDescribeLog'
  BY <1>0, MessageType DEF ElectionInv, RequestsDescribeLog
<1>3. GrantsWereCast'
  BY <1>0, MessageType DEF ElectionInv, GrantsWereCast, UpToDate
<1>4. CampaignersVoteForThemselves' /\ CountedVotesWereCast'
  BY DEF ElectionInv, CampaignersVoteForThemselves, CountedVotesWereCast, VoteFor,
         UpToDate
<1>5. ElectedByUpToDateMajority' BY ElectedStays DEF ElectionInv
<1>6. QED BY <1>1, <1>2, <1>3, <1>4, <1>5 DEF ElectionInv

(* The steps a server takes by itself keep the invariant.  A restart does
   because the kvstore replays the term and the vote of that term.          *)
LEMMA StepInv ==
    ASSUME ElectionInv, ~LosePuts, NEW i \in Server, Step(i)
    PROVE  ElectionInv'
<1> USE DEF volatile, history, counters
<1>0. TypeOK /\ TypeInv /\ TypeInv' BY StepType DEF ElectionInv, TypeInv
<1>1. CASE raft_election_start(i)
  BY <1>0, <1>1, FrameInv
  DEF raft_election_start, raft_become_candidate, raft_send_requestvote, TypeOK
<1>2. CASE LeaderLosesLeases(i)
  BY <1>0, <1>2, FrameInv DEF LeaderLosesLeases, TypeOK
<1>3. CASE raft_write_entry(i)
  <2>1. /\ identity[i] = "leader"
        /\ \A j \in Server : j # i => last'[j] = last[j]
        /\ UNCHANGED <<current_term, voted_for, identity, votes, kv, msgs, cast, elected>>
    BY <1>0, <1>3 DEF raft_write_entry, TypeOK
  <2>2. KvIsCurrent' /\ VotesRemembered' /\ OneVotePerTerm'
    BY <2>1 DEF ElectionInv, KvIsCurrent, VotesRemembered, OneVotePerTerm
  <2>3. RequestsDescribeLog'
    BY <1>0, <2>1, MessageType DEF ElectionInv, RequestsDescribeLog
  <2>4. GrantsWereCast'
    BY <1>0, <2>1, MessageType DEF ElectionInv, GrantsWereCast, UpToDate
  <2>5. CampaignersVoteForThemselves' /\ CountedVotesWereCast'
    BY <2>1 DEF ElectionInv, CampaignersVoteForThemselves, CountedVotesWereCast,
                VoteFor, UpToDate
  <2>6. ElectedByUpToDateMajority' BY <2>1, ElectedStays DEF ElectionInv
  <2>7. QED BY <1>0, <2>2, <2>3, <2>4, <2>5, <2>6 DEF ElectionInv
<1>4. ASSUME NEW j \in Server, raft_send_heartbeat(i, j) PROVE ElectionInv'
  <2>1. \A m \in msgs' \ msgs : m.type = "append"
    BY <1>4 DEF raft_send_heartbeat, raft_send_appendentries
  <2>2. UNCHANGED <<current_term, voted_for, identity, votes, kv, last, cast, elected>>
    BY <1>4 DEF raft_send_heartbeat
  <2>3. \A k \in Server : identity'[k] = identity[k] /\ votes'[k] = votes[k]
    BY <2>2
  <2>4. \A m \in msgs' \ msgs : \/ m.type \in {"append", "append_reply"}
                                \/ m.type \in {"vote", "vote_reply"} /\ m.prevote
    BY <2>1
  <2>5. QED BY <1>0, <2>2, <2>3, <2>4, FrameInv
<1>5. CASE KvCommit(i)
  BY <1>0, <1>5, FrameInv DEF KvCommit
<1>6. CASE Restart(i)
  <2>1. /\ voted_for' = [voted_for EXCEPT ![i] = kv[i].vote]
        /\ identity' = [identity EXCEPT ![i] = "follower"]
        /\ votes' = [votes EXCEPT ![i] = {}]
        /\ \A j \in Server : j # i => last'[j] = last[j]
        /\ UNCHANGED <<current_term, kv, msgs, cast, elected>>
    BY <1>0, <1>6 DEF Restart, Replayed, TypeOK, ElectionInv, KvIsCurrent
  <2>2. KvIsCurrent'
    BY <1>0, <2>1 DEF ElectionInv, KvIsCurrent, TypeOK
  <2>3. VotesRemembered' /\ OneVotePerTerm'
    BY <1>0, <2>1, ElectionAssumption
    DEF ElectionInv, KvIsCurrent, VotesRemembered, OneVotePerTerm, TypeOK
  <2>4. RequestsDescribeLog'
    BY <1>0, <2>1, MessageType DEF ElectionInv, RequestsDescribeLog, TypeOK
  <2>s. \A j \in Server : identity'[j] \in {"candidate", "leader"} =>
            /\ identity'[j] = identity[j] /\ votes'[j] = votes[j]
            /\ last'[j] = last[j] /\ voted_for'[j] = voted_for[j]
    BY <1>0, <2>1 DEF TypeOK
  <2>5. GrantsWereCast'
    <3> SUFFICES ASSUME NEW m \in msgs, m.type = "vote_reply", ~m.prevote, m.granted
                 PROVE  /\ m.term <= current_term[m.dst]
                        /\ \E c \in cast :
                            /\ c.voter = m.src /\ c.term = m.term /\ c.candidate = m.dst
                            /\ m.term = current_term[m.dst] /\ identity'[m.dst] = "candidate"
                                 => UpToDate(last'[m.dst], c.last)
      BY <2>1 DEF GrantsWereCast, UpToDate
    <3>1. m.dst \in Server BY <1>0, MessageType
    <3>2. QED BY <2>s, <3>1, Zenon DEF ElectionInv, GrantsWereCast
  <2>6. CampaignersVoteForThemselves' /\ CountedVotesWereCast'
    <3>1. CampaignersVoteForThemselves'
      BY <2>s DEF ElectionInv, CampaignersVoteForThemselves
    <3>2. CountedVotesWereCast'
      BY <2>1, <2>s DEF ElectionInv, CountedVotesWereCast, VoteFor, UpToDate
    <3>3. QED BY <3>1, <3>2
  <2>7. ElectedByUpToDateMajority' BY <2>1, ElectedStays DEF ElectionInv
  <2>8. QED BY <1>0, <2>2, <2>3, <2>4, <2>5, <2>6, <2>7 DEF ElectionInv
<1>7. QED BY <1>1, <1>2, <1>3, <1>4, <1>5, <1>6 DEF Step

(* The handler of a request for a vote keeps the invariant: it votes only once
   in a term, and what it grants it has cast.                               *)
LEMMA RequestInv ==
    ASSUME ElectionInv, TypeInv', NEW m \in msgs, m.type = "vote", NEW w \in BOOLEAN,
           raft_recv_requestvote(m.dst, m, w)
    PROVE  ElectionInv'
<1> USE DEF history, counters
<1> DEFINE i == m.dst
           newer == current_term[i] < m.term
           term == IF newer THEN m.term ELSE current_term[i]
           vote == IF newer THEN None ELSE voted_for[i]
           id == IF newer THEN "follower" ELSE identity[i]
           grant == ~(id = "leader" \/ w) /\ should_grant_vote(m, term, vote, last[i])
           record == grant /\ ~m.prevote
           new == Vote(i, term, m.src)
<1>0. /\ TypeOK /\ TypeOK' /\ i \in Server /\ m.src \in Server /\ m.term \in Nat
      /\ current_term[i] \in Nat /\ m.prevote \in BOOLEAN /\ m.last \in Position
  <2>1. TypeOK /\ TypeOK' BY DEF ElectionInv, TypeInv
  <2>2. /\ i \in Server /\ m.src \in Server /\ m.term \in Term
        /\ m.prevote \in BOOLEAN /\ m.last \in Position
    BY <2>1, MessageType
  <2>3. current_term[i] \in Term BY <2>1, <2>2 DEF TypeOK
  <2>4. QED BY <2>1, <2>2, <2>3, TermType, Zenon
<1>1. /\ current_term' = [current_term EXCEPT ![i] = term]
      /\ voted_for' = [voted_for EXCEPT ![i] = IF record THEN m.src ELSE vote]
      /\ identity' = [identity EXCEPT ![i] = id]
      /\ cast' = cast \cup (IF record THEN {new} ELSE {})
      /\ UNCHANGED <<votes, last, elected>>
  BY Zenon DEF raft_recv_requestvote
<1>2. /\ kv'[i].term = (IF newer THEN m.term ELSE kv[i].term)
      /\ kv'[i].vote = (IF record THEN m.src ELSE kv[i].vote)
      /\ \A j \in Server : j # i => kv'[j] = kv[j]
  BY <1>0 DEF raft_recv_requestvote, TypeOK
<1>3. \A n \in msgs' \ msgs :
         /\ n.type = "vote_reply" /\ n.term = term /\ n.src = i /\ n.dst = m.src
         /\ n.prevote = m.prevote /\ n.granted = grant
  BY DEF raft_recv_requestvote
<1>4. grant => /\ m.term = term
               /\ m.prevote \/ vote \in {None, m.src}
               /\ UpToDate(m.last, last[i])
  BY <1>0 DEF should_grant_vote
<1>5. /\ term \in Nat /\ term >= current_term[i]
      /\ newer => term > current_term[i] /\ vote = None /\ id = "follower"
      /\ ~newer => term = current_term[i] /\ vote = voted_for[i] /\ id = identity[i]
      /\ new = [voter |-> i, term |-> term, candidate |-> m.src, last |-> last[i]]
  BY <1>0 DEF Vote
<1> HIDE DEF i, newer, term, vote, id, new, grant
<1>6. KvIsCurrent'
  <2>1. current_term'[i] = term /\ voted_for'[i] = (IF record THEN m.src ELSE vote)
    BY <1>0, <1>1 DEF TypeOK
  <2>2. kv[i].term = current_term[i] /\ (voted_for[i] # None => kv[i].vote = voted_for[i])
    BY <1>0 DEF ElectionInv, KvIsCurrent
  <2>3. newer => term = m.term BY DEF term
  <2>4. kv'[i].term = current_term'[i]
    BY <1>2, <1>5, <2>1, <2>2, <2>3
  <2>5. voted_for'[i] # None => kv'[i].vote = voted_for'[i]
    BY <1>2, <1>5, <2>1, <2>2
  <2>6. ASSUME NEW j \in Server, j # i
        PROVE  kv'[j] = kv[j] /\ current_term'[j] = current_term[j] /\ voted_for'[j] = voted_for[j]
    BY <1>0, <1>1, <1>2, <2>6 DEF TypeOK
  <2>7. QED BY <2>4, <2>5, <2>6 DEF ElectionInv, KvIsCurrent
<1>p. ASSUME NEW j \in Server
      PROVE  /\ current_term[j] \in Nat
             /\ current_term'[j] = IF j = i THEN term ELSE current_term[j]
             /\ voted_for'[j] = IF j # i THEN voted_for[j] ELSE IF record THEN m.src ELSE vote
             /\ identity'[j] = IF j = i THEN id ELSE identity[j]
  <2> HIDE DEF record
  <2>1. current_term[j] \in Nat BY <1>0, TermType, Zenon DEF TypeOK
  <2>2. QED BY <1>0, <1>1, <2>1, Zenon DEF TypeOK
<1>c. ASSUME NEW c \in cast' PROVE c \in cast \/ (record /\ c = new)
  <2> HIDE DEF record
  <2>1. CASE record BY <1>1, <2>1, Zenon
  <2>2. CASE ~record BY <1>1, <2>2, Zenon
  <2>3. QED BY <2>1, <2>2
<1>r. record => m.term = term /\ vote \in {None, m.src} BY <1>0, <1>4 DEF record
<1> HIDE DEF record
<1>7. VotesRemembered'
  <2> SUFFICES ASSUME NEW c \in cast'
               PROVE  /\ c.term <= current_term'[c.voter]
                      /\ c.term = current_term'[c.voter] => voted_for'[c.voter] = c.candidate
    BY DEF VotesRemembered
  <2>1. CASE c \in cast
    <3>1. /\ c.voter \in Server /\ c.term \in Nat /\ c.candidate \in Server
      BY <1>0, <2>1, CastType, TermType, Zenon
    <3>2. /\ c.term <= current_term[c.voter]
          /\ c.term = current_term[c.voter] => voted_for[c.voter] = c.candidate
      BY <2>1 DEF ElectionInv, VotesRemembered
    <3>3. c.candidate # None BY <3>1, ElectionAssumption
    <3>4. CASE c.voter = i BY <1>5, <1>p, <1>r, <3>1, <3>2, <3>3, <3>4
    <3>5. CASE c.voter # i BY <1>p, <3>1, <3>2, <3>5
    <3>6. QED BY <3>4, <3>5
  <2>2. CASE record /\ c = new BY <1>0, <1>5, <1>p, <2>2
  <2>3. QED BY <1>c, <2>1, <2>2
<1>8. OneVotePerTerm'
  <2>1. ASSUME NEW c \in cast, record, c.voter = i, c.term = term
        PROVE  c.candidate = m.src
    <3>1. c.candidate \in Server BY <1>0, CastType, Zenon
    <3>2. /\ c.term <= current_term[i]
          /\ c.term = current_term[i] => voted_for[i] = c.candidate
      BY <2>1 DEF ElectionInv, VotesRemembered
    <3>3. ~newer BY <1>0, <1>5, <2>1, <3>2
    <3>4. QED BY <1>5, <1>r, <2>1, <3>1, <3>2, <3>3, ElectionAssumption
  <2>2. new.voter = i /\ new.term = term /\ new.candidate = m.src BY <1>5
  <2>3. OneVotePerTerm BY DEF ElectionInv
  <2>4. QED BY <1>c, <2>1, <2>2, <2>3 DEF OneVotePerTerm
<1>9. RequestsDescribeLog'
  <2> SUFFICES ASSUME NEW n \in msgs', n.type = "vote", ~n.prevote
               PROVE  /\ n.src # n.dst
                      /\ n.term <= current_term'[n.src]
                      /\ n.term = current_term'[n.src] /\ identity'[n.src] = "candidate"
                           => n.last = last'[n.src]
    BY Zenon DEF RequestsDescribeLog
  <2>1. n \in msgs BY <1>3
  <2>2. n.src \in Server /\ n.term \in Nat BY <1>0, <2>1, MessageType, TermType, Zenon
  <2>3. /\ n.src # n.dst
        /\ n.term <= current_term[n.src]
        /\ n.term = current_term[n.src] /\ identity[n.src] = "candidate"
             => n.last = last[n.src]
    BY <2>1 DEF ElectionInv, RequestsDescribeLog
  <2>4. last' = last BY <1>1
  <2>5. QED BY <1>5, <1>p, <2>2, <2>3, <2>4
<1>10. GrantsWereCast'
  <2>1. /\ ~m.prevote => m.term <= current_term[m.src]
        /\ ~m.prevote /\ m.term = current_term[m.src] /\ identity[m.src] = "candidate"
             => m.last = last[m.src]
    BY <1>0 DEF ElectionInv, RequestsDescribeLog
  <2>2. \A j \in Server : /\ current_term[j] \in Nat
                          /\ current_term'[j] >= current_term[j]
                          /\ current_term'[j] = current_term[j] => identity'[j] = identity[j]
    BY <1>0, <1>1, <1>5, ElectionAssumption DEF TypeOK, Term
  <2> SUFFICES ASSUME NEW n \in msgs', n.type = "vote_reply", ~n.prevote, n.granted
               PROVE  /\ n.term <= current_term'[n.dst]
                      /\ \E c \in cast' :
                          /\ c.voter = n.src /\ c.term = n.term /\ c.candidate = n.dst
                          /\ n.term = current_term'[n.dst] /\ identity'[n.dst] = "candidate"
                               => UpToDate(last[n.dst], c.last)
    BY <1>1 DEF GrantsWereCast, UpToDate
  <2>3. CASE n \in msgs
    <3>1. n.dst \in Server /\ n.term \in Nat
      BY <1>0, <2>3, MessageType, ElectionAssumption DEF Term
    <3>2. PICK c \in cast :
            /\ c.voter = n.src /\ c.term = n.term /\ c.candidate = n.dst
            /\ n.term = current_term[n.dst] /\ identity[n.dst] = "candidate"
                 => UpToDate(last[n.dst], c.last)
      BY <2>3 DEF ElectionInv, GrantsWereCast
    <3>3. n.term <= current_term[n.dst]
      BY <2>3 DEF ElectionInv, GrantsWereCast
    <3>4. c \in cast' BY <1>1
    <3>5. /\ current_term[n.dst] \in Nat /\ current_term'[n.dst] \in Nat
          /\ current_term'[n.dst] >= current_term[n.dst]
          /\ current_term'[n.dst] = current_term[n.dst] => identity'[n.dst] = identity[n.dst]
      BY <1>0, <2>2, <3>1, ElectionAssumption DEF TypeOK, Term
    <3>6. n.term <= current_term'[n.dst] BY <3>1, <3>3, <3>5
    <3>7. n.term = current_term'[n.dst] => n.term = current_term[n.dst]
      BY <3>1, <3>3, <3>5
    <3>8. QED BY <3>2, <3>4, <3>5, <3>6, <3>7
  <2>4. CASE n \notin msgs
    <3>1. /\ grant /\ ~m.prevote /\ n.term = m.term /\ n.src = i /\ n.dst = m.src
          /\ term = m.term /\ UpToDate(m.last, last[i])
      BY <1>0, <1>3, <1>4, <2>4
    <3>2. new \in cast' BY <1>1, <3>1 DEF record
    <3>3. current_term[m.src] \in Nat BY <2>2, <1>0
    <3>4. m.term <= current_term'[m.src] BY <1>0, <1>5, <1>p, <2>1, <3>1
    <3>5. ASSUME m.term = current_term'[m.src], identity'[m.src] = "candidate"
          PROVE  UpToDate(last[m.src], new.last)
      <4>1. m.term = current_term[m.src]
        BY <1>0, <2>1, <2>2, <3>1, <3>3, <3>5
      <4>2. identity[m.src] = "candidate" BY <1>0, <2>2, <3>5, <4>1, Zenon
      <4>3. m.last = last[m.src] BY <2>1, <3>1, <4>1, <4>2
      <4>4. QED BY <1>5, <3>1, <4>3
    <3>6. QED BY <1>5, <3>1, <3>2, <3>4, <3>5
  <2>5. QED BY <2>3, <2>4
<1>11. CampaignersVoteForThemselves'
  BY <1>0, <1>5, <1>p, <1>r, ElectionAssumption
  DEF ElectionInv, CampaignersVoteForThemselves
<1>12. CountedVotesWereCast'
  BY <1>0, <1>1, <1>5 DEF ElectionInv, CountedVotesWereCast, TypeOK, VoteFor, UpToDate
<1>13. ElectedByUpToDateMajority' BY <1>1, ElectedStays DEF ElectionInv
<1>14. QED
  BY <1>6, <1>7, <1>8, <1>9, <1>10, <1>11, <1>12, <1>13 DEF ElectionInv

=============================================================================
