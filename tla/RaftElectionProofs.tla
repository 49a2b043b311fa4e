------------------------- MODULE RaftElectionProofs -------------------------
(***************************************************************************)
(* The properties of RaftElection, for every set of servers and every      *)
(* bound, provided no crash loses a kvstore put (LosePuts = FALSE).        *)
(***************************************************************************)
EXTENDS RaftElectionReplies, FiniteSetTheorems

(* Two majorities in the sense of raft_votes_is_majority share a server.    *)
LEMMA MajoritiesMeet ==
    ASSUME NEW Q \in SUBSET Server, NEW R \in SUBSET Server,
           raft_votes_is_majority(Q), raft_votes_is_majority(R)
    PROVE  Q \cap R # {}
<1>1. IsFiniteSet(Server) BY ElectionAssumption
<1>2. /\ Cardinality(Server) \in Nat
      /\ IsFiniteSet(Q) /\ Cardinality(Q) \in Nat
      /\ IsFiniteSet(R) /\ Cardinality(R) \in Nat
  BY <1>1, FS_CardinalityType, FS_Subset
<1>3. Cardinality(Q) + Cardinality(R) > Cardinality(Server)
  BY <1>2 DEF raft_votes_is_majority
<1>4. QED BY <1>1, <1>3, FS_MajoritiesIntersect

(* Election safety: when no put is lost, the majorities that elect two servers
   in the same term share a voter, and that voter voted once.               *)
THEOREM ElectionIsSafe == ~LosePuts => (Spec => []ElectionSafety)
<1> SUFFICES ASSUME ~LosePuts PROVE Spec => []ElectionSafety OBVIOUS
<1>1. ElectionInv => ElectionSafety
  <2> SUFFICES ASSUME ElectionInv, NEW e \in elected, NEW f \in elected, e.term = f.term
               PROVE  e.leader = f.leader
    BY DEF ElectionSafety
  <2>1. e.voters \in SUBSET Server /\ f.voters \in SUBSET Server
    BY DEF ElectionInv, TypeInv, TypeOK
  <2>2. raft_votes_is_majority(e.voters) /\ raft_votes_is_majority(f.voters)
    BY DEF ElectionInv, ElectedByUpToDateMajority
  <2>3. PICK v \in Server : v \in e.voters /\ v \in f.voters
    BY <2>1, <2>2, MajoritiesMeet
  <2>4. PICK a \in cast : a.voter = v /\ a.term = e.term /\ a.candidate = e.leader
    BY <2>3 DEF ElectionInv, ElectedByUpToDateMajority
  <2>5. PICK b \in cast : b.voter = v /\ b.term = f.term /\ b.candidate = f.leader
    BY <2>3 DEF ElectionInv, ElectedByUpToDateMajority
  <2>6. QED BY <2>4, <2>5 DEF ElectionInv, OneVotePerTerm
<1>2. QED BY <1>1, Inductive, PTL

(* A leader was elected by a majority of servers whose logs were not more up
   to date than its own.                                                    *)
THEOREM ElectedUpToDate == ~LosePuts => (Spec => []ElectedByUpToDateMajority)
<1> SUFFICES ASSUME ~LosePuts PROVE Spec => []ElectedByUpToDateMajority OBVIOUS
<1>1. ElectionInv => ElectedByUpToDateMajority BY DEF ElectionInv
<1>2. QED BY <1>1, Inductive, PTL

(* The assertion of raft_recv_requestvote never fails: who leads or campaigns
   has voted for itself, and no server asks itself for a vote.              *)
THEOREM AssertionHolds == ~LosePuts => (Spec => []NoGrantWhileCampaigning)
<1> SUFFICES ASSUME ~LosePuts PROVE Spec => []NoGrantWhileCampaigning OBVIOUS
<1>1. ElectionInv => NoGrantWhileCampaigning
  <2> SUFFICES ASSUME ElectionInv, NEW m \in msgs, m.type = "vote", ~m.prevote,
                      voted_for[m.dst] \in {None, m.src}
               PROVE  identity[m.dst] \notin {"candidate", "leader"}
    BY DEF NoGrantWhileCampaigning, should_grant_vote
  <2>1. m.src # m.dst BY DEF ElectionInv, RequestsDescribeLog
  <2>2. m.dst \in Server BY MessageType DEF ElectionInv, TypeInv
  <2>3. QED
    BY <2>1, <2>2, ElectionAssumption DEF ElectionInv, CampaignersVoteForThemselves
<1>2. QED BY <1>1, Inductive, PTL

-----------------------------------------------------------------------------
(* What a load gives back.  Nothing is assumed of LosePuts from here on.    *)

(* What a step may do to the term and the vote of i and to their two keys:
   nothing, adopt a larger term and put it, vote in a term without a vote (or
   again) and put the vote, write the puts, or load what is written.         *)
Moves(i) ==
    \/ /\ current_term'[i] = current_term[i] /\ voted_for'[i] = voted_for[i]
       /\ kv'[i] = kv[i] /\ disk'[i] = disk[i]
    \/ /\ current_term[i] < current_term'[i] /\ kv'[i].term = current_term'[i]
       /\ voted_for'[i] # None => kv'[i].vote = voted_for'[i]
       /\ disk'[i] = disk[i]
    \/ /\ current_term'[i] = current_term[i] /\ kv'[i].term = kv[i].term
       /\ kv'[i].vote = voted_for'[i] /\ voted_for[i] \in {None, voted_for'[i]}
       /\ disk'[i] = disk[i]
    \/ /\ current_term'[i] = current_term[i] /\ voted_for'[i] = voted_for[i]
       /\ kv'[i] = kv[i] /\ disk'[i] = kv[i] /\ LosePuts
    \/ /\ current_term'[i] = Replayed(i).term /\ voted_for'[i] = Replayed(i).vote
       /\ kv'[i] = Replayed(i) /\ disk'[i] = disk[i]

(* The steps a server takes by itself.                                     *)
LEMMA StepMoves ==
    ASSUME TypeOK, NEW j \in Server, Step(j), NEW i \in Server
    PROVE  Moves(i)
<1> USE DEF volatile
<1>0. /\ DOMAIN current_term = Server /\ DOMAIN voted_for = Server
      /\ DOMAIN kv = Server /\ DOMAIN disk = Server
  BY DEF TypeOK
<1>1. CASE UNCHANGED <<current_term, voted_for, kv, disk>>
  BY <1>1 DEF Moves
<1>2. CASE KvCommit(j)
  BY <1>0, <1>2 DEF KvCommit, Moves
<1>3. CASE Restart(j)
  BY <1>0, <1>3 DEF Restart, Moves
<1>4. CASE ~KvCommit(j) /\ ~Restart(j)
  BY <1>1, <1>4, Zenon
  DEF Step, raft_election_start, raft_become_candidate, LeaderLosesLeases,
      raft_write_entry, raft_send_heartbeat
<1>5. QED BY <1>2, <1>3, <1>4

(* A request for a vote: the vote is given in a term without one, or again.  *)
LEMMA RequestMoves ==
    ASSUME TypeOK, NEW m \in msgs, NEW w \in BOOLEAN,
           raft_recv_requestvote(m.dst, m, w), NEW i \in Server
    PROVE  Moves(i)
<1> DEFINE d == m.dst
           newer == current_term[d] < m.term
           term == IF newer THEN m.term ELSE current_term[d]
           vote == IF newer THEN None ELSE voted_for[d]
           id == IF newer THEN "follower" ELSE identity[d]
           refuse == id = "leader" \/ w
           record == (~refuse /\ should_grant_vote(m, term, vote, last[d])) /\ ~m.prevote
<1>0. /\ d \in Server /\ m.src \in Server /\ m.term \in Nat /\ current_term[d] \in Nat
      /\ DOMAIN current_term = Server /\ DOMAIN voted_for = Server
      /\ DOMAIN kv = Server /\ DOMAIN disk = Server
  BY MessageType, TermType DEF TypeOK
<1>1. /\ current_term' = [current_term EXCEPT ![d] = term]
      /\ voted_for' = [voted_for EXCEPT ![d] = IF record THEN m.src ELSE vote]
      /\ kv' = [kv EXCEPT ![d] = [term |-> IF newer THEN m.term ELSE kv[d].term,
                                  vote |-> IF record THEN m.src ELSE kv[d].vote]]
      /\ UNCHANGED disk
  BY Zenon DEF raft_recv_requestvote
<1>2. record => vote \in {None, m.src} BY DEF should_grant_vote
<1>3. kv[d] = [term |-> kv[d].term, vote |-> kv[d].vote] BY <1>0 DEF TypeOK
<1>4. CASE i # d BY <1>0, <1>1, <1>4 DEF Moves
<1> HIDE DEF record
<1>5. CASE i = d /\ newer BY <1>0, <1>1, <1>5 DEF Moves
<1>6. CASE i = d /\ ~newer /\ record BY <1>0, <1>1, <1>2, <1>6 DEF Moves
<1>7. CASE i = d /\ ~newer /\ ~record BY <1>0, <1>1, <1>3, <1>7 DEF Moves
<1>8. QED BY <1>4, <1>5, <1>6, <1>7

(* Messages: a larger term is adopted without a vote, or with the server's own. *)
LEMMA ReceiveMoves ==
    ASSUME TypeOK, NEW m \in msgs, Receive(m), NEW i \in Server
    PROVE  Moves(i)
<1> USE DEF volatile
<1> DEFINE d == m.dst
<1>0. /\ d \in Server /\ m.term \in Nat /\ current_term[d] \in Nat
      /\ DOMAIN current_term = Server /\ DOMAIN voted_for = Server
      /\ DOMAIN kv = Server /\ DOMAIN disk = Server
      /\ kv[d] = [term |-> kv[d].term, vote |-> kv[d].vote]
  BY MessageType, TermType DEF TypeOK
<1>1. CASE UNCHANGED <<current_term, voted_for, kv, disk>>
  BY <1>1 DEF Moves
<1>2. CASE current_term[d] < m.term /\ StepDownTo(d, m.term) /\ UNCHANGED disk
  BY <1>0, <1>2 DEF StepDownTo, Moves
<1>3. CASE m.type = "vote"
  BY <1>3, RequestMoves DEF Receive
<1>4. CASE m.type = "vote_reply"
  <2>1. \/ current_term[d] < m.term /\ StepDownTo(d, m.term) /\ UNCHANGED disk
        \/ raft_count_votes(d, m)
        \/ Ignore(m)
    BY <1>4 DEF Receive, raft_process_requestvote_reply
  <2>2. CASE raft_count_votes(d, m)
    <3>1. \/ UNCHANGED <<current_term, voted_for, kv, disk>>
          \/ /\ current_term' = [current_term EXCEPT ![d] = @ + 1]
             /\ voted_for' = [voted_for EXCEPT ![d] = d]
             /\ kv' = [kv EXCEPT ![d] = [term |-> current_term[d] + 1, vote |-> d]]
             /\ UNCHANGED disk
      BY <2>2, Zenon DEF raft_count_votes, raft_become_prevoted_candidate, raft_become_leader
    <3>2. QED BY <1>0, <1>1, <3>1 DEF Moves
  <2>3. QED BY <1>1, <1>2, <2>1, <2>2 DEF Ignore
<1>5. CASE m.type = "append"
  <2>1. \/ UNCHANGED <<current_term, voted_for, kv, disk>>
        \/ /\ ~(m.term < current_term[d])
           /\ current_term' = [current_term EXCEPT ![d] = m.term]
           /\ voted_for' = [voted_for EXCEPT ![d] = IF current_term[d] < m.term THEN None ELSE @]
           /\ kv' = [kv EXCEPT ![d].term = IF current_term[d] < m.term THEN m.term ELSE @]
           /\ UNCHANGED disk
    BY <1>5 DEF Receive, raft_recv_appendentries
  <2>2. QED BY <1>0, <1>1, <2>1 DEF Moves
<1>6. CASE m.type = "append_reply"
  <2>1. \/ current_term[d] < m.term /\ StepDownTo(d, m.term) /\ UNCHANGED disk
        \/ Ignore(m)
    BY <1>6 DEF Receive, raft_process_appendentries_reply
  <2>2. QED BY <1>1, <1>2, <2>1 DEF Ignore
<1>7. QED BY <1>3, <1>4, <1>5, <1>6 DEF Receive

(* The kvstore has what the server stands for, also when puts are lost.      *)
LEMMA PutsAreCurrent == Spec => [](TypeInv /\ KvIsCurrent)
<1>1. Init => TypeInv /\ KvIsCurrent
  BY InitType, ElectionAssumption DEF Init, KvIsCurrent
<1>2. TypeInv /\ KvIsCurrent /\ [Next]_vars => (TypeInv /\ KvIsCurrent)'
  <2> SUFFICES ASSUME TypeInv, KvIsCurrent, [Next]_vars PROVE TypeInv' /\ KvIsCurrent'
    OBVIOUS
  <2>1. CASE Next
    <3>1. TypeInv' BY <2>1, StepType, ReceiveType DEF Next
    <3>2. \A i \in Server : Moves(i)
      BY <2>1, StepMoves, ReceiveMoves DEF Next, TypeInv
    <3>3. \A i \in Server : Replayed(i).term = kv[i].term \/ LosePuts
      BY DEF Replayed
    <3>4. KvIsCurrent'
      BY <3>2 DEF Moves, KvIsCurrent
    <3>5. QED BY <3>1, <3>4
  <2>2. CASE UNCHANGED vars
    BY <2>2 DEF vars, volatile, history, counters, TypeInv, TypeOK, CampaignTermsPositive,
                KvIsCurrent
  <2>3. QED BY <2>1, <2>2
<1>3. QED BY <1>1, <1>2, PTL DEF Spec

(* A vote of the current term, once written, is given back by every restart
   until a larger term is written, whatever puts are lost: term and vote are
   put together or the term first, and what is put is never older than what is
   written.                                                                  *)
THEOREM WrittenVotesStand == Spec => WrittenVoteStands
<1> DEFINE Stand ==
        \A i \in Server :
            Replayed(i).vote # None /\ Stands(i) =>
                \/ Replayed(i).term < Replayed(i)'.term
                \/ Replayed(i)' = Replayed(i) /\ Stands(i)'
<1>1. TypeInv /\ KvIsCurrent /\ [Next]_vars => [Stand]_vars
  <2> SUFFICES ASSUME TypeInv, KvIsCurrent, Next, NEW i \in Server,
                      Replayed(i).vote # None, Stands(i)
               PROVE  \/ Replayed(i).term < Replayed(i)'.term
                      \/ Replayed(i)' = Replayed(i) /\ Stands(i)'
    OBVIOUS
  <2>1. Moves(i) BY StepMoves, ReceiveMoves DEF Next, TypeInv
  <2>2. /\ kv[i].term = current_term[i]
        /\ voted_for[i] # None => kv[i].vote = voted_for[i]
    BY DEF KvIsCurrent
  <2>3. /\ kv[i] \in [term : Term, vote : Server \cup {None}]
        /\ disk[i] \in [term : Term, vote : Server \cup {None}]
        /\ current_term[i] \in Nat /\ disk[i].term \in Nat
    BY TermType DEF TypeInv, TypeOK
  <2>t. current_term'[i] \in Nat /\ kv'[i] \in [term : Term, vote : Server \cup {None}]
    <3>1. TypeInv' BY StepType, ReceiveType DEF Next
    <3>2. QED BY <3>1, TermType DEF TypeInv, TypeOK
  <2>4. CASE LosePuts
    <3>1. Replayed(i) = disk[i] /\ Replayed(i)' = disk'[i] BY <2>4 DEF Replayed
    <3>2. CASE disk[i].term < current_term[i]
      BY <2>1, <2>2, <2>3, <2>t, <3>1, <3>2 DEF Moves, Stands
    <3>3. CASE disk[i].term = current_term[i] /\ disk[i].vote = voted_for[i]
      <4>1. kv[i] = disk[i] BY <2>2, <2>3, <3>1, <3>3
      <4>2. QED BY <2>1, <2>2, <2>3, <2>t, <3>1, <3>3, <4>1 DEF Moves, Stands
    <3>4. QED BY <3>1, <3>2, <3>3 DEF Stands
  <2>5. CASE ~LosePuts
    <3>1. Replayed(i) = kv[i] /\ Replayed(i)' = kv'[i] BY <2>5 DEF Replayed
    <3>2. kv[i].vote = voted_for[i] BY <2>2, <2>3, <3>1, TermType DEF Stands
    <3>3. QED BY <2>1, <2>2, <2>3, <2>t, <2>5, <3>1, <3>2 DEF Moves, Stands
  <2>6. QED BY <2>4, <2>5
<1>2. QED BY <1>1, PutsAreCurrent, PTL DEF Spec, WrittenVoteStands

=============================================================================
