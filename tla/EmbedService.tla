---------------------------- MODULE EmbedService ----------------------------
(***************************************************************************)
(* What EmbeddingWorkerClient.embed() promises to its callers (the course  *)
(* indexer and EmbeddingService), whatever happens to the processes behind *)
(* it: every call returns a promise that settles exactly once, either with *)
(* the vectors of the texts that very call was given, or with a rejection. *)
(***************************************************************************)
CONSTANTS
  Callers,     \* the calls of embed(); a caller also stands for its texts
  NoVectors    \* a promise that carries no vectors

VARIABLES
  promise,     \* the promise each call returned: none | waiting | resolved | rejected
  vectors      \* whose texts the vectors of the promise embed

vars == <<promise, vectors>>

Init ==
  /\ promise = [k \in Callers |-> "none"]
  /\ vectors = [k \in Callers |-> NoVectors]

Call(k) ==
  /\ promise[k] = "none"
  /\ promise' = [promise EXCEPT ![k] = "waiting"]
  /\ UNCHANGED vectors

(* The call fails before anything was sent: the promise is born rejected. *)
CallFails(k) ==
  /\ promise[k] = "none"
  /\ promise' = [promise EXCEPT ![k] = "rejected"]
  /\ UNCHANGED vectors

Resolve(k) ==
  /\ promise[k] = "waiting"
  /\ promise' = [promise EXCEPT ![k] = "resolved"]
  /\ vectors' = [vectors EXCEPT ![k] = k]

(* A failure behind the service may reject several calls in one step. *)
Reject(S) ==
  /\ S # {}
  /\ \A k \in S : promise[k] = "waiting"
  /\ promise' = [k \in Callers |-> IF k \in S THEN "rejected" ELSE promise[k]]
  /\ UNCHANGED vectors

Settles(k) == Resolve(k) \/ \E S \in SUBSET Callers : k \in S /\ Reject(S)

Next ==
  \/ \E k \in Callers : Call(k) \/ CallFails(k) \/ Resolve(k)
  \/ \E S \in SUBSET Callers : Reject(S)

Spec == Init /\ [][Next]_vars

FairSpec == Spec /\ \A k \in Callers : WF_vars(Settles(k))
=============================================================================
