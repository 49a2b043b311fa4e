------------------------------- MODULE KvMap -------------------------------
(***************************************************************************)
(* What the kvstore of a shard promises its users (the raft groups, which  *)
(* keep term, vote and applied index in it): a map that is updated by      *)
(* atomic batches of puts and removes, and of which a restart loses at     *)
(* most the operations not yet acknowledged, never a part of a batch.      *)
(***************************************************************************)
EXTENDS Naturals, Sequences, SequencesExt

CONSTANTS Key, Value, Nil

VARIABLES
    map,     \* the acknowledged contents
    pending, \* operations accepted and not yet being written
    flying,  \* the batch being written
    up       \* is the store running?

mapVars == <<map, pending, flying, up>>

Table == [Key -> Value \cup {Nil}]
Op == [key : Key, value : Value \cup {Nil}]
EmptyTable == [k \in Key |-> Nil]

(* An operation with no value removes its key.                             *)
apply_op(t, o) == [t EXCEPT ![o.key] = o.value]

ApplyAll(t, ops) == FoldLeft(apply_op, t, ops)

MapInit ==
    /\ map \in Table
    /\ pending = <<>>
    /\ flying = <<>>
    /\ up = TRUE

Accept(o) ==
    /\ up
    /\ pending' = Append(pending, o)
    /\ UNCHANGED <<map, flying, up>>

(* The pending operations become the batch that is written.                *)
Write ==
    /\ up
    /\ flying = <<>>
    /\ flying' = pending
    /\ pending' = <<>>
    /\ UNCHANGED <<map, up>>

Acknowledge ==
    /\ up
    /\ map' = ApplyAll(map, flying)
    /\ flying' = <<>>
    /\ UNCHANGED <<pending, up>>

(* The batch could not be written.                                         *)
Return ==
    /\ up
    /\ pending' = flying \o pending
    /\ flying' = <<>>
    /\ UNCHANGED <<map, up>>

Crash ==
    /\ up
    /\ up' = FALSE
    /\ pending' = <<>>
    /\ UNCHANGED <<map, flying>>

(* The batch that was being written is there, or it is not.                *)
Recover ==
    /\ ~up
    /\ up' = TRUE
    /\ map' \in {map, ApplyAll(map, flying)}
    /\ flying' = <<>>
    /\ UNCHANGED pending

MapNext ==
    \/ \E o \in Op : Accept(o)
    \/ Write
    \/ Acknowledge
    \/ Return
    \/ Crash
    \/ Recover

MapSpec == MapInit /\ [][MapNext]_mapVars

=============================================================================
