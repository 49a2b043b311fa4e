----------------------------- MODULE MCKvStore -----------------------------
(* KvStore for model checking: every run may end when its puts are used up. *)
EXTENDS KvStore, TLC
=============================================================================
