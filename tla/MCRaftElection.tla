--------------------------- MODULE MCRaftElection ---------------------------
(* Instances of RaftElection for TLC.  With ElectionSpec a behaviour is one of
   a new group of osds, or one of a Couple that comes out of an earlier term
   with different logs, whose leader writes, and of which both may restart.  *)
EXTENDS RaftElection, TLC

CONSTANT Couple

Two == INSTANCE RaftElection WITH Server <- Couple, InitTerm <- 1, MaxIdx <- 1,
                                      MaxRestarts <- 2

ElectionInit == Init \/ Two!Init

ElectionNext ==
    \/ DOMAIN current_term = Server /\ Next
    \/ DOMAIN current_term = Couple /\ Two!Next

ElectionSpec == ElectionInit /\ [][ElectionNext]_vars

Symmetry == Permutations(Server) \cup Permutations(Couple)

(* Terms do not decrease when no put is lost, so an answer whose term is not
   larger than the term of its receiver, unless it grants a vote of exactly
   that term, is ignored now and whenever it is received.                    *)
Live(m) ==
    \/ m.type \in {"vote", "append"}
    \/ m.type \in {"vote_reply", "append_reply"} /\ m.term > current_term[m.dst]
    \/ /\ m.type = "vote_reply"
       /\ m.granted
       /\ m.term = current_term[m.dst]

(* States that differ only in answers nobody will act on are the same state. *)
View == <<volatile, last, kv, disk, {m \in msgs : Live(m)}, history>>

=============================================================================
