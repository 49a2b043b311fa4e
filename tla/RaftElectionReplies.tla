------------------------ MODULE RaftElectionReplies -------------------------
(* The handlers of replies and append entries keep the inductive invariant. *)
EXTENDS RaftElectionInductive

(* A vote that reaches the candidate it was given to was cast for it, with a
   log that is not more up to date than the candidate's.                    *)
LEMMA CountedVote ==
    ASSUME ElectionInv, NEW m \in msgs, m.type = "vote_reply",
           AnswersPhase(m.dst, m), m.term = current_term[m.dst], m.granted,
           identity[m.dst] = "candidate"
    PROVE  \A v \in votes[m.dst] \cup {m.src} :
              \E c \in cast : VoteFor(c, v, current_term[m.dst], m.dst, last[m.dst])
<1>0. TypeOK /\ m.dst \in Server BY MessageType DEF ElectionInv, TypeInv
<1>1. ~m.prevote BY <1>0 DEF AnswersPhase
<1>2. \E c \in cast : VoteFor(c, m.src, current_term[m.dst], m.dst, last[m.dst])
  BY <1>1 DEF ElectionInv, GrantsWereCast, VoteFor
<1>3. QED BY <1>0, <1>2 DEF ElectionInv, CountedVotesWereCast

(* Counting a vote keeps the invariant, whatever it makes of the server.    *)
LEMMA CountInv ==
    ASSUME ElectionInv, TypeInv', NEW m \in msgs, m.type = "vote_reply",
           AnswersPhase(m.dst, m), m.term = current_term[m.dst], m.granted,
           raft_count_votes(m.dst, m)
    PROVE  ElectionInv'
<1> USE DEF history, counters
<1> DEFINE i == m.dst
           Q == votes[i] \cup {m.src}
           t == current_term[i] + 1
           own == Vote(i, t, i)
<1>0. /\ TypeOK /\ TypeOK' /\ i \in Server /\ m.src \in Server
      /\ current_term[i] \in Nat /\ Q \subseteq Server
  BY MessageType, ElectionAssumption DEF ElectionInv, TypeInv, TypeOK, Term
<1>1. identity[i] \in {"precandidate", "candidate"} BY DEF AnswersPhase
<1>c. identity[i] = "candidate" =>
         \A v \in Q : \E c \in cast : VoteFor(c, v, current_term[i], i, last[i])
  BY CountedVote
<1>2. CASE ~raft_votes_is_majority(Q)
  <2>1. /\ votes' = [votes EXCEPT ![i] = Q]
        /\ msgs' \subseteq msgs
        /\ UNCHANGED <<current_term, voted_for, identity, last, kv, cast, elected>>
    BY <1>2 DEF raft_count_votes
  <2>2. KvIsCurrent' /\ VotesRemembered' /\ OneVotePerTerm'
    BY <2>1 DEF ElectionInv, KvIsCurrent, VotesRemembered, OneVotePerTerm
  <2>3. RequestsDescribeLog' /\ GrantsWereCast'
    BY <2>1 DEF ElectionInv, RequestsDescribeLog, GrantsWereCast, UpToDate
  <2>4. CampaignersVoteForThemselves'
    BY <2>1 DEF ElectionInv, CampaignersVoteForThemselves
  <2>5. CountedVotesWereCast'
    BY <1>0, <1>c, <2>1 DEF ElectionInv, CountedVotesWereCast, TypeOK, VoteFor, UpToDate
  <2>6. ElectedByUpToDateMajority' BY <2>1, ElectedStays DEF ElectionInv
  <2>7. QED BY <2>2, <2>3, <2>4, <2>5, <2>6 DEF ElectionInv
<1>3. CASE raft_votes_is_majority(Q) /\ identity[i] = "candidate"
  <2>1. /\ identity' = [identity EXCEPT ![i] = "leader"]
        /\ votes' = [votes EXCEPT ![i] = Q]
        /\ elected' = elected \cup {Election(current_term[i], i, Q)}
        /\ UNCHANGED <<current_term, voted_for, last, kv, cast>>
    BY <1>3 DEF raft_count_votes, raft_become_leader
  <2>2. \A n \in msgs' \ msgs : n.type = "append"
    BY <1>3 DEF raft_count_votes, raft_become_leader, raft_send_appendentries
  <2>3. KvIsCurrent' /\ VotesRemembered' /\ OneVotePerTerm'
    BY <2>1 DEF ElectionInv, KvIsCurrent, VotesRemembered, OneVotePerTerm
  <2>4. RequestsDescribeLog'
    BY <1>0, <2>1, <2>2, MessageType DEF ElectionInv, RequestsDescribeLog, TypeOK
  <2>5. GrantsWereCast'
    BY <1>0, <2>1, <2>2, MessageType DEF ElectionInv, GrantsWereCast, UpToDate, TypeOK
  <2>6. CampaignersVoteForThemselves'
    BY <1>0, <1>3, <2>1 DEF ElectionInv, CampaignersVoteForThemselves, TypeOK
  <2>7. CountedVotesWereCast'
    BY <1>0, <2>1 DEF ElectionInv, CountedVotesWereCast, TypeOK, VoteFor, UpToDate
  <2>8. ElectedByUpToDateMajority'
    <3>1. ElectedByUpToDateMajority BY DEF ElectionInv
    <3>2. ASSUME NEW e \in elected', e \notin elected
          PROVE  /\ e.voters = Q /\ e.term = current_term[i] /\ e.leader = i
                 /\ e.last = last[i]
      <4> HIDE DEF i, Q
      <4>1. e = Election(current_term[i], i, Q) BY <2>1, <3>2
      <4>2. QED BY <4>1 DEF Election
    <3>3. ASSUME NEW e \in elected'
          PROVE  /\ raft_votes_is_majority(e.voters)
                 /\ \A v \in e.voters :
                       \E c \in cast : /\ c.voter = v /\ c.term = e.term
                                      /\ c.candidate = e.leader
                                      /\ UpToDate(e.last, c.last)
      <4>1. CASE e \in elected BY <3>1, <4>1 DEF ElectedByUpToDateMajority
      <4>2. CASE e \notin elected
        <5>1. /\ e.voters = Q /\ e.term = current_term[i] /\ e.leader = i
              /\ e.last = last[i]
          BY <3>2, <4>2
        <5> HIDE DEF i, Q
        <5>2. QED BY <1>3, <1>c, <5>1 DEF VoteFor
      <4>3. QED BY <4>1, <4>2
    <3> HIDE DEF i, Q
    <3>4. QED
      BY <2>1, <3>3, Zenon DEF ElectedByUpToDateMajority, raft_votes_is_majority, UpToDate
  <2>9. QED BY <2>3, <2>4, <2>5, <2>6, <2>7, <2>8 DEF ElectionInv
<1>4. CASE raft_votes_is_majority(Q) /\ identity[i] = "precandidate"
  <2>1. /\ current_term' = [current_term EXCEPT ![i] = t]
        /\ voted_for' = [voted_for EXCEPT ![i] = i]
        /\ kv' = [kv EXCEPT ![i] = [term |-> t, vote |-> i]]
        /\ identity' = [identity EXCEPT ![i] = "candidate"]
        /\ votes' = [votes EXCEPT ![i] = {i}]
        /\ cast' = cast \cup {own}
        /\ UNCHANGED <<last, elected>>
    BY <1>4 DEF raft_count_votes, raft_become_prevoted_candidate
  <2>2. \A n \in msgs' \ msgs : /\ n.type = "vote" /\ n.term = t /\ n.src = i
                                /\ n.dst # i /\ n.last = last[i]
    BY <1>4 DEF raft_count_votes, raft_become_prevoted_candidate, raft_send_requestvote
  <2>3. own = [voter |-> i, term |-> t, candidate |-> i, last |-> last[i]]
    BY DEF Vote
  <2> HIDE DEF own, i, Q
  <2>4. KvIsCurrent'
    BY <1>0, <2>1 DEF ElectionInv, KvIsCurrent, TypeOK
  <2>5. VotesRemembered'
    BY <1>0, <2>1, <2>3, ElectionAssumption DEF ElectionInv, VotesRemembered, TypeOK, Term
  <2>6. OneVotePerTerm'
    BY <1>0, <2>1, <2>3, ElectionAssumption
    DEF ElectionInv, VotesRemembered, OneVotePerTerm, TypeOK, Term
  <2>7. RequestsDescribeLog'
    BY <1>0, <2>1, <2>2, MessageType, ElectionAssumption
    DEF ElectionInv, RequestsDescribeLog, TypeOK, Term
  <2>8. GrantsWereCast'
    <3> SUFFICES ASSUME NEW n \in msgs', n.type = "vote_reply", ~n.prevote, n.granted
                 PROVE  /\ n.term <= current_term'[n.dst]
                        /\ \E c \in cast' :
                            /\ c.voter = n.src /\ c.term = n.term /\ c.candidate = n.dst
                            /\ n.term = current_term'[n.dst] /\ identity'[n.dst] = "candidate"
                                 => UpToDate(last[n.dst], c.last)
      BY <2>1 DEF GrantsWereCast, UpToDate
    <3>1. n \in msgs BY <2>2
    <3>2. n.dst \in Server /\ n.term \in Nat /\ current_term[n.dst] \in Nat
      BY <1>0, <3>1, MessageType, ElectionAssumption DEF Term, TypeOK
    <3>3. PICK c \in cast :
            /\ c.voter = n.src /\ c.term = n.term /\ c.candidate = n.dst
            /\ n.term = current_term[n.dst] /\ identity[n.dst] = "candidate"
                 => UpToDate(last[n.dst], c.last)
      BY <3>1 DEF ElectionInv, GrantsWereCast
    <3>4. n.term <= current_term[n.dst]
      BY <3>1 DEF ElectionInv, GrantsWereCast
    <3>5. c \in cast' BY <2>1
    <3>6. CASE n.dst = i
      <4>1. n.term < current_term'[n.dst] BY <1>0, <2>1, <3>2, <3>4, <3>6 DEF TypeOK
      <4>2. current_term'[n.dst] \in Nat BY <1>0, <2>1, <3>2, <3>6 DEF TypeOK
      <4>3. n.term # current_term'[n.dst] BY <3>2, <4>1, <4>2
      <4>4. QED BY <3>2, <3>3, <3>5, <4>1, <4>2, <4>3
    <3>7. CASE n.dst # i
      BY <1>0, <2>1, <3>2, <3>3, <3>4, <3>5, <3>7 DEF TypeOK
    <3>8. QED BY <3>6, <3>7
  <2>9. CampaignersVoteForThemselves'
    BY <1>0, <2>1 DEF ElectionInv, CampaignersVoteForThemselves, TypeOK
  <2>10. CountedVotesWereCast'
    <3>1. UpToDate(last[i], own.last)
      <4>1. last[i].term \in Nat /\ last[i].idx \in Nat BY <1>0, PositionType DEF TypeOK
      <4>2. QED BY <2>3, <4>1 DEF UpToDate
    <3>2. VoteFor(own, i, t, i, last[i]) BY <2>3, <3>1 DEF VoteFor
    <3>3. QED BY <1>0, <2>1, <3>2
          DEF ElectionInv, CountedVotesWereCast, TypeOK, VoteFor, UpToDate
  <2>11. ElectedByUpToDateMajority' BY <2>1, ElectedStays DEF ElectionInv
  <2>12. QED
    BY <2>4, <2>5, <2>6, <2>7, <2>8, <2>9, <2>10, <2>11 DEF ElectionInv
<1>5. QED BY <1>1, <1>2, <1>3, <1>4

(* Append entries keep the invariant: they raise a term or make a server
   follow, and only the log of a server that follows changes.               *)
LEMMA AppendInv ==
    ASSUME ElectionInv, TypeInv', NEW m \in msgs, m.type = "append",
           raft_recv_appendentries(m.dst, m)
    PROVE  ElectionInv'
<1> USE DEF history, counters, volatile
<1> DEFINE i == m.dst
           newer == current_term[i] < m.term
<1>0. /\ TypeOK /\ TypeOK' /\ i \in Server /\ m.src \in Server /\ m.term \in Nat
      /\ current_term[i] \in Nat
  BY MessageType, ElectionAssumption DEF ElectionInv, TypeInv, TypeOK, Term
<1>1. CASE m.term < current_term[i]
  <2>1. \A k \in Server : identity'[k] = identity[k] /\ votes'[k] = votes[k]
    BY <1>1 DEF raft_recv_appendentries
  <2>2. \A n \in msgs' \ msgs : n.type = "append_reply"
    BY <1>1 DEF raft_recv_appendentries
  <2>3. UNCHANGED <<current_term, voted_for, kv, last, cast, elected>>
    BY <1>1 DEF raft_recv_appendentries
  <2>4. QED BY <2>1, <2>2, <2>3, FrameInv
<1>2. CASE ~(m.term < current_term[i])
  <2>1. /\ current_term' = [current_term EXCEPT ![i] = m.term]
        /\ voted_for' = [voted_for EXCEPT ![i] = IF newer THEN None ELSE @]
        /\ kv' = [kv EXCEPT ![i].term = IF newer THEN m.term ELSE @]
        /\ identity' = [identity EXCEPT ![i] =
                           IF @ = "leader" /\ ~newer THEN @ ELSE "follower"]
        /\ msgs' \subseteq msgs
        /\ UNCHANGED <<votes, cast, elected>>
        /\ \A j \in Server : j # i => last'[j] = last[j]
    BY <1>0, <1>2 DEF raft_recv_appendentries, TypeOK
  <2>2. /\ current_term'[i] = m.term
        /\ voted_for'[i] = (IF newer THEN None ELSE voted_for[i])
        /\ kv'[i].term = (IF newer THEN m.term ELSE kv[i].term)
        /\ kv'[i].vote = kv[i].vote
    BY <1>0, <1>2, <2>1 DEF TypeOK
  <2>n. ~newer => m.term = current_term[i] BY <1>0, <1>2
  <2>i. /\ identity'[i] \in {"leader", "follower"}
        /\ identity'[i] = "leader" => identity[i] = "leader" /\ ~newer
    <3> HIDE DEF newer
    <3> QED BY <1>0, <2>1 DEF TypeOK
  <2>3. \A j \in Server : j # i => /\ current_term'[j] = current_term[j]
                                   /\ voted_for'[j] = voted_for[j]
                                   /\ kv'[j] = kv[j]
                                   /\ identity'[j] = identity[j]
                                   /\ last'[j] = last[j]
    BY <1>0, <2>1 DEF TypeOK
  <2>4. \A j \in Server : current_term[j] \in Nat /\ current_term'[j] >= current_term[j]
    <3>1. \A j \in Server : current_term[j] \in Nat
      BY <1>0, ElectionAssumption DEF TypeOK, Term
    <3>2. current_term'[i] >= current_term[i] BY <1>0, <1>2, <2>2
    <3> HIDE DEF i
    <3>3. QED BY <2>3, <3>1, <3>2
  <2>c. \A c \in cast : c.voter \in Server /\ c.term \in Nat
    BY <1>0, ElectionAssumption DEF TypeOK, Term
  <2> HIDE DEF i, newer
  <2>5. KvIsCurrent'
    BY <1>0, <2>2, <2>n, <2>i, <2>3 DEF ElectionInv, KvIsCurrent
  <2>6. VotesRemembered'
    <3> SUFFICES ASSUME NEW c \in cast
                 PROVE  /\ c.term <= current_term'[c.voter]
                        /\ c.term = current_term'[c.voter] => voted_for'[c.voter] = c.candidate
      BY <2>1 DEF VotesRemembered
    <3>1. /\ c.term <= current_term[c.voter]
          /\ c.term = current_term[c.voter] => voted_for[c.voter] = c.candidate
      BY DEF ElectionInv, VotesRemembered
    <3>2. CASE c.voter # i BY <2>3, <2>c, <3>1, <3>2
    <3>3. CASE c.voter = i /\ newer
      BY <1>0, <2>2, <2>n, <2>i, <2>c, <3>1, <3>3 DEF newer
    <3>4. CASE c.voter = i /\ ~newer
      BY <1>0, <2>2, <2>n, <2>i, <2>c, <3>1, <3>4
    <3>5. QED BY <3>2, <3>3, <3>4
  <2>7. OneVotePerTerm' BY <2>1 DEF ElectionInv, OneVotePerTerm
  <2>8. RequestsDescribeLog'
    <3> SUFFICES ASSUME NEW n \in msgs, n.type = "vote", ~n.prevote
                 PROVE  /\ n.src # n.dst
                        /\ n.term <= current_term'[n.src]
                        /\ n.term = current_term'[n.src] /\ identity'[n.src] = "candidate"
                             => n.last = last'[n.src]
      BY <2>1 DEF RequestsDescribeLog
    <3>1. n.src \in Server /\ n.term \in Nat
      BY <1>0, MessageType, ElectionAssumption DEF Term
    <3>2. QED BY <1>0, <2>2, <2>n, <2>i, <2>3, <2>4, <3>1, SMTT(20) DEF ElectionInv, RequestsDescribeLog
  <2>9. GrantsWereCast'
    <3> SUFFICES ASSUME NEW n \in msgs, n.type = "vote_reply", ~n.prevote, n.granted
                 PROVE  /\ n.term <= current_term'[n.dst]
                        /\ \E c \in cast :
                            /\ c.voter = n.src /\ c.term = n.term /\ c.candidate = n.dst
                            /\ n.term = current_term'[n.dst] /\ identity'[n.dst] = "candidate"
                                 => UpToDate(last'[n.dst], c.last)
      BY <2>1 DEF GrantsWereCast, UpToDate
    <3>1. n.dst \in Server /\ n.term \in Nat
      BY <1>0, MessageType, ElectionAssumption DEF Term
    <3>2. PICK c \in cast :
            /\ c.voter = n.src /\ c.term = n.term /\ c.candidate = n.dst
            /\ n.term = current_term[n.dst] /\ identity[n.dst] = "candidate"
                 => UpToDate(last[n.dst], c.last)
      BY DEF ElectionInv, GrantsWereCast
    <3>3. n.term <= current_term[n.dst]
      BY DEF ElectionInv, GrantsWereCast
    <3>4. n.term <= current_term'[n.dst]
      BY <1>0, <2>2, <2>n, <2>i, <2>3, <2>4, <3>1, <3>3
    <3>5. CASE n.dst = i BY <2>2, <2>n, <2>i, <3>2, <3>4, <3>5
    <3>6. CASE n.dst # i BY <2>3, <3>1, <3>2, <3>4, <3>6
    <3>7. QED BY <3>5, <3>6
  <2>10. CampaignersVoteForThemselves'
    BY <1>0, <2>2, <2>n, <2>i, <2>3 DEF ElectionInv, CampaignersVoteForThemselves
  <2>11. CountedVotesWereCast'
    BY <1>0, <2>1, <2>2, <2>n, <2>i, <2>3
    DEF ElectionInv, CountedVotesWereCast, VoteFor, UpToDate
  <2>12. ElectedByUpToDateMajority' BY <2>1, ElectedStays DEF ElectionInv
  <2>13. QED
    BY <2>5, <2>6, <2>7, <2>8, <2>9, <2>10, <2>11, <2>12 DEF ElectionInv
<1>3. QED BY <1>1, <1>2

(* Every handler of a message keeps the invariant.                         *)
LEMMA ReceiveInv ==
    ASSUME ElectionInv, NEW m \in msgs, Receive(m)
    PROVE  ElectionInv'
<1> USE DEF history, counters, volatile
<1>0. TypeOK /\ TypeInv' /\ m.dst \in Server /\ m.term \in Term
  BY ReceiveType, MessageType DEF ElectionInv, TypeInv
<1>i. CASE Ignore(m)
  <2>1. \A n \in msgs' \ msgs : FALSE BY <1>i DEF Ignore
  <2>2. \A k \in Server : identity'[k] = identity[k] /\ votes'[k] = votes[k]
    BY <1>i DEF Ignore
  <2>3. UNCHANGED <<current_term, voted_for, kv, last, cast, elected>>
    BY <1>i DEF Ignore
  <2>4. QED BY <1>0, <2>1, <2>2, <2>3, FrameInv
<1>d. CASE /\ current_term[m.dst] < m.term /\ StepDownTo(m.dst, m.term)
           /\ msgs' = msgs \ {m} /\ UNCHANGED <<votes, last, disk, history>>
  BY <1>0, <1>d, StepDownInv
<1>1. CASE m.type = "vote"
  BY <1>0, <1>1, RequestInv DEF Receive
<1>2. CASE m.type = "vote_reply"
  <2>1. raft_process_requestvote_reply(m.dst, m) BY <1>2 DEF Receive
  <2>2. CASE ~AnswersPhase(m.dst, m) \/ m.term < current_term[m.dst]
    BY <1>i, <2>1, <2>2 DEF raft_process_requestvote_reply
  <2>3. CASE AnswersPhase(m.dst, m) /\ current_term[m.dst] < m.term
    <3>1. ~(m.term < current_term[m.dst])
      BY <1>0, <2>3, ElectionAssumption DEF Term, TypeOK
    <3>2. QED BY <1>d, <2>1, <2>3, <3>1 DEF raft_process_requestvote_reply
  <2>4. CASE AnswersPhase(m.dst, m) /\ m.term = current_term[m.dst]
    <3>1. ~(m.term < current_term[m.dst]) /\ ~(current_term[m.dst] < m.term)
      BY <1>0, <2>4, ElectionAssumption DEF Term, TypeOK
    <3>2. IF m.granted THEN raft_count_votes(m.dst, m) ELSE Ignore(m)
      BY <2>1, <2>4, <3>1 DEF raft_process_requestvote_reply
    <3>3. QED BY <1>0, <1>2, <1>i, <2>4, <3>2, CountInv
  <2>5. m.term \in Nat /\ current_term[m.dst] \in Nat
    BY <1>0, ElectionAssumption DEF Term, TypeOK
  <2>6. \/ m.term < current_term[m.dst]
        \/ current_term[m.dst] < m.term
        \/ m.term = current_term[m.dst]
    BY <2>5
  <2>7. QED BY <2>2, <2>3, <2>4, <2>6
<1>3. CASE m.type = "append"
  BY <1>0, <1>3, AppendInv DEF Receive
<1>4. CASE m.type = "append_reply"
  BY <1>4, <1>i, <1>d DEF Receive, raft_process_appendentries_reply
<1>5. QED BY <1>1, <1>2, <1>3, <1>4 DEF Receive

(* The inductive invariant holds when no put is lost.                      *)
THEOREM Inductive == ~LosePuts => (Spec => []ElectionInv)
<1> SUFFICES ASSUME ~LosePuts PROVE Spec => []ElectionInv OBVIOUS
<1>1. Init => ElectionInv BY InitInv
<1>2. ElectionInv /\ [Next]_vars => ElectionInv'
  <2> SUFFICES ASSUME ElectionInv, [Next]_vars PROVE ElectionInv' OBVIOUS
  <2>1. CASE Next BY <2>1, StepInv, ReceiveInv DEF Next
  <2>2. CASE UNCHANGED vars
    <3>1. TypeInv'
      BY <2>2 DEF vars, volatile, history, counters, ElectionInv, TypeInv, TypeOK,
                  CampaignTermsPositive
    <3>2. QED BY <2>2, <3>1, FrameInv DEF vars, volatile, history, counters
  <2>3. QED BY <2>1, <2>2
<1>3. QED BY <1>1, <1>2, PTL DEF Spec

=============================================================================
