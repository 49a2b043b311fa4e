------------------------- MODULE RaftElectionTypes --------------------------
(* Type correctness of RaftElection, for every set of servers and every bound. *)
EXTENDS RaftElection, TLAPS

(* Terms campaigned for are positive, so the entries of a leader are too.   *)
CampaignTermsPositive ==
    \A i \in Server : identity[i] \in {"candidate", "leader"} => current_term[i] > 0

TypeInv == TypeOK /\ CampaignTermsPositive

(* Every position is a record of naturals.                                 *)
LEMMA PositionType ==
    ASSUME NEW p \in Position
    PROVE  p.term \in Nat /\ p.idx \in Nat
BY ElectionAssumption DEF Position, Origin

(* UpToDate is transitive.                                                 *)
LEMMA UpToDateTransitive ==
    ASSUME NEW p \in Position, NEW q \in Position, NEW r \in Position,
           UpToDate(p, q), UpToDate(q, r)
    PROVE  UpToDate(p, r)
BY PositionType DEF UpToDate

(* The initial state is well typed.                                        *)
LEMMA InitType == Init => TypeInv
BY ElectionAssumption DEF Init, TypeInv, TypeOK, CampaignTermsPositive, Term, Identity

(* The requests and append entries a server sends are well typed.          *)
LEMMA SendType ==
    ASSUME TypeOK, NEW i \in Server, NEW t \in Term, NEW pre \in BOOLEAN,
           NEW to \in SUBSET Server
    PROVE  /\ raft_send_requestvote(i, t, pre) \subseteq Message
           /\ raft_send_appendentries(i, t, to) \subseteq Message
BY DEF TypeOK, Message, RequestVote, AppendEntries, raft_send_requestvote,
       raft_send_appendentries

(* A vote or an election recorded now is well typed.                       *)
LEMMA HistoryType ==
    ASSUME TypeOK, NEW i \in Server, NEW j \in Server, NEW t \in Term,
           NEW Q \in SUBSET Server
    PROVE  /\ Vote(i, t, j) \in [voter : Server, term : Term, candidate : Server,
                                 last : Position]
           /\ Election(t, i, Q) \in [term : Term, leader : Server,
                                     voters : SUBSET Server, last : Position]
BY DEF TypeOK, Vote, Election

(* The fields of a message in flight have their types.                     *)
LEMMA MessageType ==
    ASSUME TypeOK, NEW m \in msgs
    PROVE  /\ m.type \in {"vote", "vote_reply", "append", "append_reply"}
           /\ m.term \in Term /\ m.src \in Server /\ m.dst \in Server
           /\ m.type = "vote" => m.prevote \in BOOLEAN /\ m.last \in Position
           /\ m.type = "vote_reply" => m.prevote \in BOOLEAN /\ m.granted \in BOOLEAN
           /\ m.type = "append" => m.last \in Position
BY DEF TypeOK, Message, RequestVote, VoteReply, AppendEntries, AppendReply

(* A function with one value replaced keeps its type.                      *)
LEMMA UpdateType ==
    ASSUME NEW S, NEW T, NEW f \in [S -> T], NEW i \in S, NEW x \in T
    PROVE  [f EXCEPT ![i] = x] \in [S -> T]
OBVIOUS

(* Terms are naturals.                                                     *)
LEMMA TermType == Term \subseteq Nat
BY ElectionAssumption DEF Term

(* The fields of a vote that was cast have their types.                    *)
LEMMA CastType ==
    ASSUME TypeOK, NEW c \in cast
    PROVE  c.voter \in Server /\ c.candidate \in Server /\ c.term \in Nat
BY TermType, Zenon DEF TypeOK

(* The steps a server takes by itself keep the types.                      *)
LEMMA StepType ==
    ASSUME TypeInv, NEW i \in Server, Step(i)
    PROVE  TypeInv'
<1> USE DEF volatile, history, counters
<1>0. /\ TypeOK /\ CampaignTermsPositive /\ current_term[i] \in Term
      /\ current_term \in [Server -> Term] /\ identity \in [Server -> Identity]
      /\ votes \in [Server -> SUBSET Server]
  BY DEF TypeInv, TypeOK
<1>i. {"follower", "precandidate"} \subseteq Identity BY DEF Identity
<1>c. ASSUME UNCHANGED current_term, NEW x \in {"follower", "precandidate"},
             identity' = [identity EXCEPT ![i] = x]
      PROVE  CampaignTermsPositive' /\ identity' \in [Server -> Identity]
  BY <1>0, <1>i, <1>c DEF CampaignTermsPositive
<1>u. ASSUME UNCHANGED <<current_term, identity>> PROVE CampaignTermsPositive'
  BY <1>0, <1>u DEF CampaignTermsPositive
<1>1. CASE raft_election_start(i)
  <2>1. raft_send_requestvote(i, current_term[i], TRUE) \subseteq Message
    BY <1>0, SendType, Zenon
  <2>2. /\ identity' = [identity EXCEPT ![i] = "precandidate"]
        /\ votes' = [votes EXCEPT ![i] = {i}]
        /\ msgs' = msgs \cup raft_send_requestvote(i, current_term[i], TRUE)
        /\ elections < MaxElections /\ elections' = elections + 1
        /\ UNCHANGED <<current_term, voted_for, last, kv, disk, restarts, cast, elected>>
    BY <1>1 DEF raft_election_start, raft_become_candidate
  <2>3. votes' \in [Server -> SUBSET Server] BY <1>0, <2>2
  <2>4. msgs' \subseteq Message BY <1>0, <2>1, <2>2, Zenon DEF TypeOK
  <2>5. elections' \in 0..MaxElections BY <1>0, <2>2, ElectionAssumption DEF TypeOK
  <2>6. CampaignTermsPositive' /\ identity' \in [Server -> Identity] BY <1>c, <2>2
  <2>7. QED BY <1>0, <2>2, <2>3, <2>4, <2>5, <2>6, Zenon DEF TypeInv, TypeOK
<1>2. CASE LeaderLosesLeases(i)
  <2>1. CampaignTermsPositive' /\ identity' \in [Server -> Identity]
    BY <1>2, <1>c DEF LeaderLosesLeases
  <2>2. QED BY <1>0, <1>2, <2>1 DEF LeaderLosesLeases, TypeInv, TypeOK
<1>3. CASE raft_write_entry(i)
  <2>1. current_term[i] \in 1..MaxTerm /\ last[i].idx \in Nat
    BY <1>0, <1>3, PositionType, ElectionAssumption
    DEF CampaignTermsPositive, TypeOK, Term, raft_write_entry
  <2>2. [term |-> current_term[i], idx |-> last[i].idx + 1] \in Position
    BY <1>3, <2>1, ElectionAssumption DEF raft_write_entry, Position
  <2>3. last' \in [Server -> Position]
    BY <1>0, <1>3, <2>2 DEF raft_write_entry, TypeOK
  <2>4. CampaignTermsPositive' BY <1>3, <1>u DEF raft_write_entry
  <2>5. QED BY <1>0, <1>3, <2>3, <2>4 DEF raft_write_entry, TypeInv, TypeOK
<1>4. ASSUME NEW j \in Server, raft_send_heartbeat(i, j) PROVE TypeInv'
  <2>1. raft_send_appendentries(i, current_term[i], {j}) \subseteq Message
    BY <1>0, SendType, Zenon
  <2>2. msgs' \subseteq Message BY <1>0, <1>4, <2>1, Zenon DEF raft_send_heartbeat, TypeOK
  <2>3. CampaignTermsPositive' BY <1>4, <1>u DEF raft_send_heartbeat
  <2>4. QED BY <1>0, <1>4, <2>2, <2>3, Zenon DEF raft_send_heartbeat, TypeInv, TypeOK
<1>5. CASE KvCommit(i)
  <2>1. CampaignTermsPositive' BY <1>5, <1>u DEF KvCommit
  <2>2. disk' \in [Server -> [term : Term, vote : Server \cup {None}]]
    BY <1>0, <1>5 DEF KvCommit, TypeOK
  <2>3. QED BY <1>0, <1>5, <2>1, <2>2 DEF KvCommit, TypeInv, TypeOK
<1>6. CASE Restart(i)
  <2> DEFINE r == Replayed(i)
  <2>1. r \in [term : Term, vote : Server \cup {None}]
    BY <1>0 DEF Replayed, TypeOK
  <2>2. /\ current_term' = [current_term EXCEPT ![i] = r.term]
        /\ voted_for' = [voted_for EXCEPT ![i] = r.vote]
        /\ kv' = [kv EXCEPT ![i] = r]
        /\ identity' = [identity EXCEPT ![i] = "follower"]
        /\ votes' = [votes EXCEPT ![i] = {}]
        /\ restarts < MaxRestarts /\ restarts' = restarts + 1
        /\ UNCHANGED <<disk, msgs, elections, cast, elected>>
    BY <1>6 DEF Restart
  <2>l. last' \in [Server -> Position]
    BY <1>0, <1>6 DEF Restart, TypeOK
  <2> HIDE DEF r
  <2>3. r.term \in Term /\ r.vote \in Server \cup {None} BY <2>1
  <2>4. /\ current_term' \in [Server -> Term]
        /\ voted_for' \in [Server -> Server \cup {None}]
    BY <1>0, <2>2, <2>3 DEF TypeOK
  <2>5. kv' \in [Server -> [term : Term, vote : Server \cup {None}]]
    BY <1>0, <2>1, <2>2, UpdateType DEF TypeOK
  <2>6. identity' \in [Server -> Identity] /\ votes' \in [Server -> SUBSET Server]
    BY <1>0, <1>i, <2>2
  <2>7. restarts' \in 0..MaxRestarts BY <1>0, <2>2, ElectionAssumption DEF TypeOK
  <2>8. CampaignTermsPositive' BY <1>0, <2>2 DEF CampaignTermsPositive
  <2>9. QED BY <1>0, <2>2, <2>l, <2>4, <2>5, <2>6, <2>7, <2>8 DEF TypeInv, TypeOK
<1>7. QED BY <1>1, <1>2, <1>3, <1>4, <1>5, <1>6 DEF Step

(* Adopting a larger term keeps the types.                                 *)
LEMMA StepDownType ==
    ASSUME TypeInv, NEW i \in Server, NEW t \in Term, StepDownTo(i, t),
           msgs' \subseteq msgs, UNCHANGED <<votes, last, disk, history>>
    PROVE  TypeInv'
<1> USE DEF history, counters
<1>0. TypeOK /\ CampaignTermsPositive BY DEF TypeInv
<1>1. /\ current_term' = [current_term EXCEPT ![i] = t]
      /\ voted_for' = [voted_for EXCEPT ![i] = None]
      /\ kv' = [kv EXCEPT ![i].term = t]
      /\ identity' = [identity EXCEPT ![i] = "follower"]
  BY DEF StepDownTo
<1>2. current_term' \in [Server -> Term] BY <1>0, <1>1 DEF TypeOK
<1>3. voted_for' \in [Server -> Server \cup {None}] BY <1>0, <1>1 DEF TypeOK
<1>4. kv' \in [Server -> [term : Term, vote : Server \cup {None}]]
  BY <1>0, <1>1 DEF TypeOK
<1>5. identity' \in [Server -> Identity] BY <1>0, <1>1 DEF TypeOK, Identity
<1>6. CampaignTermsPositive' BY <1>0, <1>1 DEF CampaignTermsPositive, TypeOK
<1>7. msgs' \subseteq Message BY <1>0, Zenon DEF TypeOK
<1>8. QED BY <1>0, <1>2, <1>3, <1>4, <1>5, <1>6, <1>7, Zenon DEF TypeInv, TypeOK

(* The handler of a request for a vote keeps the types.                    *)
LEMMA RequestType ==
    ASSUME TypeInv, NEW m \in msgs, m.type = "vote", NEW w \in BOOLEAN,
           raft_recv_requestvote(m.dst, m, w)
    PROVE  TypeInv'
<1> USE DEF history, counters
<1> DEFINE i == m.dst
           newer == current_term[i] < m.term
           term == IF newer THEN m.term ELSE current_term[i]
           vote == IF newer THEN None ELSE voted_for[i]
           id == IF newer THEN "follower" ELSE identity[i]
           grant == ~(id = "leader" \/ w) /\ should_grant_vote(m, term, vote, last[i])
           record == grant /\ ~m.prevote
           reply == [type |-> "vote_reply", term |-> term, src |-> i, dst |-> m.src,
                     prevote |-> m.prevote, granted |-> grant]
           put == [term |-> IF newer THEN m.term ELSE kv[i].term,
                   vote |-> IF record THEN m.src ELSE kv[i].vote]
<1>0. /\ TypeOK /\ CampaignTermsPositive
      /\ i \in Server /\ m.src \in Server /\ m.term \in Term /\ m.prevote \in BOOLEAN
  BY MessageType DEF TypeInv
<1>1. /\ current_term' = [current_term EXCEPT ![i] = term]
      /\ voted_for' = [voted_for EXCEPT ![i] = IF record THEN m.src ELSE vote]
      /\ kv' = [kv EXCEPT ![i] = put]
      /\ identity' = [identity EXCEPT ![i] = id]
      /\ cast' \subseteq cast \cup {Vote(i, term, m.src)}
      /\ msgs' \subseteq msgs \cup {reply}
      /\ UNCHANGED <<votes, last, disk, counters, elected>>
  BY DEF raft_recv_requestvote
<1>2. /\ current_term[i] \in Term /\ voted_for[i] \in Server \cup {None}
      /\ identity[i] \in Identity
      /\ kv[i].term \in Term /\ kv[i].vote \in Server \cup {None}
  BY <1>0 DEF TypeOK
<1> HIDE DEF i
<1>3. /\ term \in Term /\ vote \in Server \cup {None} /\ id \in Identity
      /\ id \in {"candidate", "leader"} => term = current_term[i] /\ id = identity[i]
  BY <1>0, <1>2 DEF Identity
<1>4. grant \in BOOLEAN BY DEF should_grant_vote, UpToDate
<1> HIDE DEF newer, term, vote, id, grant
<1>5. put \in [term : Term, vote : Server \cup {None}] BY <1>0, <1>2
<1>6. reply \in Message BY <1>0, <1>3, <1>4 DEF Message, VoteReply
<1>7. Vote(i, term, m.src) \in [voter : Server, term : Term, candidate : Server,
                                last : Position]
  BY <1>0, <1>3, HistoryType, Zenon
<1> HIDE DEF put, reply
<1>8. current_term' \in [Server -> Term] BY <1>0, <1>1, <1>3 DEF TypeOK
<1>9. voted_for' \in [Server -> Server \cup {None}] BY <1>0, <1>1, <1>3 DEF TypeOK
<1>10. identity' \in [Server -> Identity] BY <1>0, <1>1, <1>3 DEF TypeOK
<1>11. kv' \in [Server -> [term : Term, vote : Server \cup {None}]]
  BY <1>0, <1>1, <1>5, UpdateType DEF TypeOK
<1>12. cast' \subseteq [voter : Server, term : Term, candidate : Server, last : Position]
  BY <1>0, <1>1, <1>7, Zenon DEF TypeOK
<1>13. msgs' \subseteq Message BY <1>0, <1>1, <1>6, Zenon DEF TypeOK
<1>14. CampaignTermsPositive' BY <1>0, <1>1, <1>3 DEF CampaignTermsPositive, TypeOK
<1>15. QED
  BY <1>0, <1>1, <1>8, <1>9, <1>10, <1>11, <1>12, <1>13, <1>14, Zenon DEF TypeInv, TypeOK

(* A prevoted candidate has the types.                                     *)
LEMMA PrevotedType ==
    ASSUME TypeInv, NEW i \in Server, NEW rest \in SUBSET msgs,
           raft_become_prevoted_candidate(i, rest)
    PROVE  TypeInv'
<1> USE DEF counters
<1> DEFINE t == current_term[i] + 1
<1>0. TypeOK /\ CampaignTermsPositive BY DEF TypeInv
<1>1. t \in Term /\ t > 0
  BY <1>0, ElectionAssumption DEF TypeOK, Term, raft_become_prevoted_candidate
<1>2. /\ current_term' = [current_term EXCEPT ![i] = t]
      /\ voted_for' = [voted_for EXCEPT ![i] = i]
      /\ kv' = [kv EXCEPT ![i] = [term |-> t, vote |-> i]]
      /\ identity' = [identity EXCEPT ![i] = "candidate"]
      /\ votes' = [votes EXCEPT ![i] = {i}]
      /\ msgs' = rest \cup raft_send_requestvote(i, t, FALSE)
      /\ cast' = cast \cup {Vote(i, t, i)}
      /\ UNCHANGED <<last, disk, counters, elected>>
  BY DEF raft_become_prevoted_candidate
<1> HIDE DEF t
<1>3. raft_send_requestvote(i, t, FALSE) \subseteq Message BY <1>0, <1>1, SendType, Zenon
<1>4. Vote(i, t, i) \in [voter : Server, term : Term, candidate : Server, last : Position]
  BY <1>0, <1>1, HistoryType, Zenon
<1>5. current_term' \in [Server -> Term] BY <1>0, <1>1, <1>2 DEF TypeOK
<1>6. voted_for' \in [Server -> Server \cup {None}] BY <1>0, <1>2 DEF TypeOK
<1>7. kv' \in [Server -> [term : Term, vote : Server \cup {None}]]
  BY <1>0, <1>1, <1>2 DEF TypeOK
<1>8. identity' \in [Server -> Identity] BY <1>0, <1>2 DEF TypeOK, Identity
<1>9. votes' \in [Server -> SUBSET Server] BY <1>0, <1>2 DEF TypeOK
<1>10. msgs' \subseteq Message BY <1>0, <1>2, <1>3, Zenon DEF TypeOK
<1>11. cast' \subseteq [voter : Server, term : Term, candidate : Server, last : Position]
  BY <1>0, <1>2, <1>4, Zenon DEF TypeOK
<1>12. CampaignTermsPositive' BY <1>0, <1>1, <1>2 DEF CampaignTermsPositive, TypeOK
<1>13. QED
  BY <1>0, <1>2, <1>5, <1>6, <1>7, <1>8, <1>9, <1>10, <1>11, <1>12, Zenon
  DEF TypeInv, TypeOK

(* A new leader has the types.                                             *)
LEMMA LeaderType ==
    ASSUME TypeInv, NEW i \in Server, NEW Q \in SUBSET Server, NEW rest \in SUBSET msgs,
           identity[i] = "candidate", raft_become_leader(i, Q, rest)
    PROVE  TypeInv'
<1> USE DEF counters
<1> DEFINE E == [term : Term, leader : Server, voters : SUBSET Server, last : Position]
<1>0. TypeOK /\ CampaignTermsPositive /\ current_term[i] \in Term BY DEF TypeInv, TypeOK
<1>1. raft_send_appendentries(i, current_term[i], Server \ {i}) \subseteq Message
  BY <1>0, SendType, Zenon
<1>2. Election(current_term[i], i, Q) \in E BY <1>0, HistoryType, Zenon
<1>3. identity' \in [Server -> Identity]
  BY <1>0 DEF raft_become_leader, TypeOK, Identity
<1>4. votes' \in [Server -> SUBSET Server] BY <1>0 DEF raft_become_leader, TypeOK
<1>5. msgs' \subseteq Message BY <1>0, <1>1, Zenon DEF raft_become_leader, TypeOK
<1>6. elected' \subseteq E BY <1>0, <1>2, Zenon DEF raft_become_leader, TypeOK
<1>7. CampaignTermsPositive'
  BY <1>0 DEF raft_become_leader, CampaignTermsPositive, TypeOK
<1>8. QED
  BY <1>0, <1>3, <1>4, <1>5, <1>6, <1>7, Zenon DEF raft_become_leader, TypeInv, TypeOK

(* The handler of append entries keeps the types.                          *)
LEMMA AppendType ==
    ASSUME TypeInv, NEW m \in msgs, raft_recv_appendentries(m.dst, m)
    PROVE  TypeInv'
<1> USE DEF volatile, history, counters
<1> DEFINE i == m.dst
           newer == current_term[i] < m.term
<1>0. /\ TypeOK /\ CampaignTermsPositive /\ i \in Server /\ m.src \in Server
      /\ m.term \in Term /\ current_term[i] \in Term
  BY MessageType DEF TypeInv, TypeOK
<1>n. m.term \in Nat /\ current_term[i] \in Nat BY <1>0, TermType
<1>1. CASE m.term < current_term[i]
  <2> DEFINE reply == [type |-> "append_reply", term |-> current_term[i], src |-> i,
                       dst |-> m.src]
  <2>1. reply \in Message BY <1>0 DEF Message, AppendReply
  <2>2. /\ msgs' = (msgs \ {m}) \cup {reply}
        /\ UNCHANGED <<volatile, last, kv, disk, history>>
    BY <1>1 DEF raft_recv_appendentries
  <2> HIDE DEF reply
  <2>3. msgs' \subseteq Message BY <1>0, <2>1, <2>2, Zenon DEF TypeOK
  <2>4. CampaignTermsPositive' BY <1>0, <2>2 DEF CampaignTermsPositive
  <2>5. QED BY <1>0, <2>2, <2>3, <2>4, Zenon DEF TypeInv, TypeOK
<1>2. CASE ~(m.term < current_term[i])
  <2>1. /\ current_term' = [current_term EXCEPT ![i] = m.term]
        /\ voted_for' = [voted_for EXCEPT ![i] = IF newer THEN None ELSE @]
        /\ kv' = [kv EXCEPT ![i].term = IF newer THEN m.term ELSE @]
        /\ identity' = [identity EXCEPT ![i] =
                           IF @ = "leader" /\ ~newer THEN @ ELSE "follower"]
        /\ \E p \in {last[i]} \cup {q \in Position : UpToDate(m.last, q)} :
               last' = [last EXCEPT ![i] = p]
        /\ msgs' = msgs \ {m}
        /\ UNCHANGED <<votes, disk, history>>
    BY <1>2, Zenon DEF raft_recv_appendentries
  <2>2. ~newer => m.term = current_term[i] BY <1>n, <1>2
  <2> HIDE DEF i, newer
  <2>3. current_term' \in [Server -> Term] BY <1>0, <2>1 DEF TypeOK
  <2>4. voted_for' \in [Server -> Server \cup {None}] BY <1>0, <2>1 DEF TypeOK
  <2>5. kv' \in [Server -> [term : Term, vote : Server \cup {None}]]
    BY <1>0, <2>1 DEF TypeOK
  <2>6. identity' \in [Server -> Identity] BY <1>0, <2>1 DEF TypeOK, Identity
  <2>7. last' \in [Server -> Position]
    <3>1. PICK p \in Position : last' = [last EXCEPT ![i] = p] BY <1>0, <2>1, Zenon DEF TypeOK
    <3>2. QED BY <1>0, <3>1 DEF TypeOK
  <2>8. msgs' \subseteq Message BY <1>0, <2>1, Zenon DEF TypeOK
  <2>9. CampaignTermsPositive'
    BY <1>0, <2>1, <2>2 DEF CampaignTermsPositive, TypeOK
  <2>10. QED
    BY <1>0, <2>1, <2>3, <2>4, <2>5, <2>6, <2>7, <2>8, <2>9, Zenon DEF TypeInv, TypeOK
<1>3. QED BY <1>1, <1>2

(* The steps caused by a message keep the types.                           *)
LEMMA ReceiveType ==
    ASSUME TypeInv, NEW m \in msgs, Receive(m)
    PROVE  TypeInv'
<1> USE DEF volatile, history, counters
<1>0. /\ TypeOK /\ CampaignTermsPositive /\ m.dst \in Server /\ m.src \in Server
      /\ m.term \in Term
  BY MessageType DEF TypeInv
<1>1. CASE Ignore(m)
  <2>1. CampaignTermsPositive' BY <1>0, <1>1 DEF Ignore, CampaignTermsPositive
  <2>2. msgs' \subseteq Message BY <1>0, <1>1, Zenon DEF Ignore, TypeOK
  <2>3. QED BY <1>0, <1>1, <2>1, <2>2, Zenon DEF Ignore, TypeInv, TypeOK
<1>2. CASE StepDownTo(m.dst, m.term) /\ msgs' = msgs \ {m}
             /\ UNCHANGED <<votes, last, disk, history>>
  BY <1>0, <1>2, StepDownType
<1>3. CASE m.type = "vote"
  BY <1>3, RequestType DEF Receive
<1>4. CASE m.type = "vote_reply" /\ raft_process_requestvote_reply(m.dst, m)
  <2>1. CASE AnswersPhase(m.dst, m) /\ raft_count_votes(m.dst, m)
    <3> DEFINE Q == votes[m.dst] \cup {m.src}
               rest == msgs \ {m}
    <3>0. Q \in SUBSET Server /\ rest \in SUBSET msgs BY <1>0 DEF TypeOK
    <3>1. CASE ~raft_votes_is_majority(Q)
      <4>1. /\ votes' = [votes EXCEPT ![m.dst] = Q]
            /\ msgs' = rest
            /\ UNCHANGED <<current_term, voted_for, identity, last, kv, disk, history>>
        BY <2>1, <3>1 DEF raft_count_votes
      <4> HIDE DEF Q
      <4>2. votes' \in [Server -> SUBSET Server]
        BY <1>0, <3>0, <4>1, UpdateType DEF TypeOK
      <4>3. msgs' \subseteq Message BY <1>0, <4>1, Zenon DEF TypeOK
      <4>4. CampaignTermsPositive' BY <1>0, <4>1 DEF CampaignTermsPositive
      <4>5. QED BY <1>0, <4>1, <4>2, <4>3, <4>4, Zenon DEF TypeInv, TypeOK
    <3>2. CASE raft_become_prevoted_candidate(m.dst, rest)
      BY <1>0, <3>0, <3>2, PrevotedType
    <3>3. CASE identity[m.dst] = "candidate" /\ raft_become_leader(m.dst, Q, rest)
      <4> HIDE DEF Q, rest
      <4> QED BY <1>0, <3>0, <3>3, LeaderType
    <3>4. QED BY <2>1, <3>1, <3>2, <3>3, Zenon DEF raft_count_votes, AnswersPhase
  <2>2. QED BY <1>1, <1>2, <1>4, <2>1, Zenon DEF raft_process_requestvote_reply
<1>5. CASE m.type = "append"
  BY <1>5, AppendType DEF Receive
<1>6. CASE m.type = "append_reply"
  BY <1>1, <1>2, <1>6 DEF Receive, raft_process_appendentries_reply
<1>7. QED BY <1>3, <1>4, <1>5, <1>6 DEF Receive

(* Every variable of a raft_server_t stays in its range.                   *)
THEOREM TypeCorrect == Spec => []TypeOK
<1>1. TypeInv /\ [Next]_vars => TypeInv'
  <2> SUFFICES ASSUME TypeInv, [Next]_vars PROVE TypeInv' OBVIOUS
  <2>1. CASE UNCHANGED vars
    BY <2>1 DEF TypeInv, TypeOK, CampaignTermsPositive, vars, volatile, history, counters
  <2>2. QED BY <2>1, StepType, ReceiveType DEF Next
<1>2. TypeInv => TypeOK BY DEF TypeInv
<1>3. QED BY InitType, <1>1, <1>2, PTL DEF Spec

=============================================================================
