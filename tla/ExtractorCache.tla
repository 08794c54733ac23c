---------------------------- MODULE ExtractorCache ----------------------------
(***************************************************************************)
(* How the embedding worker shares a model between requests (getExtractor()*)
(* of src/embedding/workers/bge-m3.worker.ts): the first request for a     *)
(* model starts to load it, those that come meanwhile wait for the same    *)
(* promise, and a load that fails is forgotten, so that the next request   *)
(* tries again.                                                            *)
(*                                                                         *)
(* A load is named after the request that started it.                      *)
(***************************************************************************)
EXTENDS Naturals, FiniteSets

CONSTANTS
  Requests, \* that have texts: a bound
  Models,   \* keys: a model and its dtype
  NoLoad    \* extractorState is null

VARIABLES
  wants,    \* the model of each request
  handler,  \* what handleMessage() is at
  load,     \* the promise a request started
  state,    \* extractorState: the load it holds
  waitsFor  \* the load a request got from getExtractor()

vars == <<wants, handler, load, state, waitsFor>>

Init ==
  /\ wants \in [Requests -> Models]
  /\ handler = [r \in Requests |-> "to come"]
  /\ load = [r \in Requests |-> "none"]
  /\ state = NoLoad
  /\ waitsFor = [r \in Requests |-> NoLoad]

----------------------------------------------------------------------------
Serves(r) == state # NoLoad /\ wants[state] = wants[r]

GetExtractor(r) ==
  /\ handler[r] = "to come"
  /\ handler' = [handler EXCEPT ![r] = "loading"]
  /\ IF Serves(r)
     THEN /\ waitsFor' = [waitsFor EXCEPT ![r] = state]
          /\ UNCHANGED <<load, state>>
     ELSE /\ load' = [load EXCEPT ![r] = "pending"]
          /\ state' = r
          /\ waitsFor' = [waitsFor EXCEPT ![r] = r]
  /\ UNCHANGED wants

(* createExtractor() settles; its catch comes before those who wait.       *)
Loaded(l) ==
  /\ load[l] = "pending"
  /\ load' = [load EXCEPT ![l] = "loaded"]
  /\ UNCHANGED <<wants, handler, state, waitsFor>>

(* Mutant: a load that fails is kept. *)
MutForgets(l) == state

Forgets(l) == IF state # NoLoad /\ wants[state] = wants[l] THEN NoLoad ELSE state

LoadFails(l) ==
  /\ load[l] = "pending"
  /\ load' = [load EXCEPT ![l] = "failed"]
  /\ state' = Forgets(l)
  /\ UNCHANGED <<wants, handler, waitsFor>>

Infers(r) ==
  /\ handler[r] = "loading" /\ load[waitsFor[r]] = "loaded"
  /\ handler' = [handler EXCEPT ![r] = "inferring"]
  /\ UNCHANGED <<wants, load, state, waitsFor>>

(* The vectors, or the error of the load, of the inference or of a tensor  *)
(* of another shape.                                                       *)
Answers(r) ==
  /\ \/ handler[r] = "loading" /\ load[waitsFor[r]] = "failed"
        /\ handler' = [handler EXCEPT ![r] = "refused"]
     \/ /\ handler[r] = "inferring"
        /\ \E outcome \in {"answered", "refused"} : handler' = [handler EXCEPT ![r] = outcome]
  /\ UNCHANGED <<wants, load, state, waitsFor>>

Next ==
  \E r \in Requests : GetExtractor(r) \/ Loaded(r) \/ LoadFails(r) \/ Infers(r) \/ Answers(r)

Spec == Init /\ [][Next]_vars

----------------------------------------------------------------------------
TypeOK ==
  /\ wants \in [Requests -> Models]
  /\ handler \in [Requests -> {"to come", "loading", "inferring", "answered", "refused"}]
  /\ load \in [Requests -> {"none", "pending", "loaded", "failed"}]
  /\ state \in Requests \cup {NoLoad}
  /\ waitsFor \in [Requests -> Requests \cup {NoLoad}]

(* No request is answered with the vectors of another model, and none is   *)
(* handed a load that has already failed: the failure of one load, even    *)
(* after the model was replaced and came back, poisons no later request.   *)
OwnModelServed ==
  /\ \A r \in Requests : handler[r] \in {"inferring", "answered"} => wants[waitsFor[r]] = wants[r]
  /\ state # NoLoad => load[state] # "failed"

(* As long as every request asks for the same model, it is in memory once, *)
(* and never loaded again while a load is under way or has succeeded.      *)
LoadedOnce ==
  (\A r, s \in Requests : wants[r] = wants[s]) =>
    Cardinality({l \in Requests : load[l] \in {"pending", "loaded"}}) <= 1

(* Sharing a load is right, and is done whenever it can be.               *)
LoadsAreShared == OwnModelServed /\ LoadedOnce
============================================================================
