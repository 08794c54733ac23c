----------------------- MODULE EmbeddingWorkerProofs -----------------------
(***************************************************************************)
(* Theorems about EmbeddingWorker, for any number of callers and children. *)
(*                                                                         *)
(* The argument turns on the request ids: an id is taken once, so whatever *)
(* carries it (an entry of the Map, a request at a child, an answer on its *)
(* way) belongs to one caller; an answer that finds its id in the Map      *)
(* therefore carries the vectors of the caller it settles.                 *)
(***************************************************************************)
EXTENDS EmbeddingWorker, TLAPS

Tagged == pending \cup requests \cup replies

(* Ids are handed out in increasing order ... *)
IdsTaken == \A x \in Tagged : x.id < nextRequestId

(* ... so an id names one caller, wherever it is found. *)
IdNamesCaller == \A x, y \in Tagged : x.id = y.id => x.caller = y.caller

(* A caller has at most one entry, and none before it called. *)
OneEntryPerCaller ==
  \A e \in pending :
    /\ promise[e.caller] # "none"
    /\ \A f \in pending : e.caller = f.caller => e = f

NotYetSent == \A k \in Callers : promise[k] = "none" => sentTo[k] = NoChild

TerminatingOnlyAtEnd == workerTerminating => destroyed

(* The inductive invariant. *)
IInv ==
  /\ TypeOK
  /\ IdsTaken
  /\ IdNamesCaller
  /\ OneEntryPerCaller
  /\ NotYetSent
  /\ TerminatingOnlyAtEnd
  /\ ResolvedWithOwnVectors
  /\ PendingIffWaiting
  /\ WorkerNotReaped
  /\ NoWaitOnReapedChild

USE NoChildAssumption, NoVectorsAssumption

----------------------------------------------------------------------------
(* Every variable keeps its type: the Map holds entries of known callers,  *)
(* the channels hold requests and answers of known children.               *)
LEMMA TypeInit == Init => TypeOK
<1> SUFFICES ASSUME Init PROVE TypeOK
  OBVIOUS
<1> USE DEF Init
<1>1. /\ worker \in Children \cup {NoChild}
      /\ workerTerminating \in BOOLEAN
      /\ destroyed \in BOOLEAN
  BY Zenon
<1>2. /\ pending \subseteq Entry
      /\ sendFailed \subseteq Children
      /\ requests \subseteq Request
      /\ replies \subseteq Reply
  BY Zenon
<1>3. /\ promise \in [Callers -> {"none", "waiting"} \cup Outcome]
      /\ vectors \in [Callers -> Callers \cup {NoVectors}]
      /\ sentTo \in [Callers -> Children \cup {NoChild}]
      /\ child \in [Children -> ChildState]
  BY DEF ChildState
<1>4. nextRequestId \in Nat
  OBVIOUS
<1> QED
  BY <1>1, <1>2, <1>3, <1>4, Zenon DEF TypeOK

LEMMA TypeStep == TypeOK /\ [Next]_vars => TypeOK'
<1> SUFFICES ASSUME TypeOK, [Next]_vars PROVE TypeOK'
  OBVIOUS
<1> USE DEF TypeOK, Outcome, ChildState, Entry, Request, Reply, ReplyKind
<1>1. ASSUME NEW k \in Callers, EmbedReusesWorker(k) PROVE TypeOK'
  BY <1>1 DEF EmbedReusesWorker, EmbedRegisters, Post
<1>2. ASSUME NEW k \in Callers, EmbedForksWorker(k) PROVE TypeOK'
  BY <1>2 DEF EmbedForksWorker, EmbedRegisters, Post
<1>3. ASSUME NEW k \in Callers, EmbedCannotFork(k) PROVE TypeOK'
  BY <1>3 DEF EmbedCannotFork, EmbedRegisters
<1>4. ASSUME NEW e \in pending, Timeout(e) PROVE TypeOK'
  BY <1>4 DEF Timeout, Kill, Reject
<1>5. CASE OnModuleDestroy
  BY <1>5 DEF OnModuleDestroy, Kill
<1>6. ASSUME NEW m \in replies, HandleWorkerMessage(m) PROVE TypeOK'
  BY <1>6 DEF HandleWorkerMessage, DropMessage, AcceptMessage, Resolve, Reject
<1>7. ASSUME NEW c \in Children, OnError(c) PROVE TypeOK'
  BY <1>7 DEF OnError, RejectAll, Reject
<1>8. ASSUME NEW c \in Children, OnExit(c) PROVE TypeOK'
  BY <1>8 DEF OnExit, RejectAll, Reject
<1>9. ASSUME NEW r \in requests, WorkerAnswers(r) PROVE TypeOK'
  BY <1>9 DEF WorkerAnswers, client
<1>10. ASSUME NEW c \in Children, WorkerCrashes(c) PROVE TypeOK'
  BY <1>10 DEF WorkerCrashes, client
<1>11. CASE UNCHANGED vars
  BY <1>11 DEF vars, client
<1> QED
  BY <1>1, <1>2, <1>3, <1>4, <1>5, <1>6, <1>7, <1>8, <1>9, <1>10, <1>11
  DEF Next, Embed

THEOREM TypeCorrect == Spec => []TypeOK
<1>1. Init => TypeOK
  BY TypeInit
<1>2. TypeOK /\ [Next]_vars => TypeOK'
  BY TypeStep
<1> QED
  BY <1>1, <1>2, PTL DEF Spec

----------------------------------------------------------------------------
LEMMA IInvInit == Init => IInv
<1> SUFFICES ASSUME Init PROVE IInv
  OBVIOUS
<1>1. TypeOK
  BY TypeInit
<1> QED
  BY <1>1 DEF Init, IInv, Tagged, IdsTaken, IdNamesCaller, OneEntryPerCaller, NotYetSent,
     TerminatingOnlyAtEnd, ResolvedWithOwnVectors, PendingIffWaiting, PendingCallers,
     WorkerNotReaped, NoWaitOnReapedChild

(* A call adds its entry and replaces nobody's, because its id is fresh. *)
LEMMA CallAddsEntry ==
  ASSUME IInv, NEW k \in Callers, EmbedRegisters(k)
  PROVE  PendingCallers' = PendingCallers \cup {k}
<1>1. pending' = pending \cup {[id |-> nextRequestId, caller |-> k]}
  BY DEF IInv, TypeOK, IdsTaken, Tagged, Entry, EmbedRegisters
<1> DEFINE new == [id |-> nextRequestId, caller |-> k]
<1>2. new \in pending' /\ new.caller = k
  BY <1>1
<1>3. PendingCallers' \subseteq PendingCallers \cup {k}
  BY <1>1 DEF PendingCallers
<1>4. PendingCallers \subseteq PendingCallers'
  BY <1>1 DEF PendingCallers
<1>5. k \in PendingCallers'
  BY <1>2 DEF PendingCallers
<1> QED
  BY <1>3, <1>4, <1>5

LEMMA IInvStep == IInv /\ [Next]_vars => IInv'
<1> SUFFICES ASSUME IInv, [Next]_vars PROVE IInv'
  OBVIOUS
<1> USE DEF IInv, TypeOK, Outcome, ChildState, Entry, Request, Reply, ReplyKind
<1>1. ASSUME NEW k \in Callers, EmbedReusesWorker(k) PROVE IInv'
  <2>0. TypeOK'
    BY TypeStep
  <2>1. IdsTaken'
    BY <1>1 DEF EmbedReusesWorker, EmbedRegisters, Post, IdsTaken, Tagged
  <2>2. IdNamesCaller'
    BY <1>1 DEF EmbedReusesWorker, EmbedRegisters, Post, IdNamesCaller, IdsTaken, Tagged
  <2>3. OneEntryPerCaller'
    BY <1>1 DEF EmbedReusesWorker, EmbedRegisters, Post, OneEntryPerCaller, PendingIffWaiting, PendingCallers
  <2>4. NotYetSent'
    BY <1>1 DEF EmbedReusesWorker, EmbedRegisters, Post, NotYetSent
  <2>5. TerminatingOnlyAtEnd'
    BY <1>1 DEF EmbedReusesWorker, EmbedRegisters, Post, TerminatingOnlyAtEnd
  <2>6. ResolvedWithOwnVectors'
    BY <1>1 DEF EmbedReusesWorker, EmbedRegisters, Post, ResolvedWithOwnVectors, IdNamesCaller, Tagged
  <2>7. PendingIffWaiting'
    <3>1. PendingCallers' = PendingCallers \cup {k}
      BY <1>1, CallAddsEntry DEF EmbedReusesWorker
    <3> QED
      BY <1>1, <3>1 DEF EmbedReusesWorker, EmbedRegisters, Post, PendingIffWaiting, NotYetSent
  <2>8. WorkerNotReaped'
    BY <1>1 DEF EmbedReusesWorker, EmbedRegisters, Post, WorkerNotReaped
  <2>9. NoWaitOnReapedChild'
    BY <1>1 DEF EmbedReusesWorker, EmbedRegisters, Post, NoWaitOnReapedChild, PendingIffWaiting, PendingCallers, WorkerNotReaped, TerminatingOnlyAtEnd
  <2> QED
    BY <2>0, <2>1, <2>2, <2>3, <2>4, <2>5, <2>6, <2>7, <2>8, <2>9 DEF IInv
<1>2. ASSUME NEW k \in Callers, EmbedForksWorker(k) PROVE IInv'
  <2>0. TypeOK'
    BY TypeStep
  <2>1. IdsTaken'
    BY <1>2 DEF EmbedForksWorker, EmbedRegisters, Post, IdsTaken, Tagged
  <2>2. IdNamesCaller'
    BY <1>2 DEF EmbedForksWorker, EmbedRegisters, Post, IdNamesCaller, IdsTaken, Tagged
  <2>3. OneEntryPerCaller'
    BY <1>2 DEF EmbedForksWorker, EmbedRegisters, Post, OneEntryPerCaller, PendingIffWaiting, PendingCallers
  <2>4. NotYetSent'
    BY <1>2 DEF EmbedForksWorker, EmbedRegisters, Post, NotYetSent
  <2>5. TerminatingOnlyAtEnd'
    BY <1>2 DEF EmbedForksWorker, EmbedRegisters, Post, TerminatingOnlyAtEnd
  <2>6. ResolvedWithOwnVectors'
    BY <1>2 DEF EmbedForksWorker, EmbedRegisters, Post, ResolvedWithOwnVectors, IdNamesCaller, Tagged
  <2>7. PendingIffWaiting'
    <3>1. PendingCallers' = PendingCallers \cup {k}
      BY <1>2, CallAddsEntry DEF EmbedForksWorker
    <3> QED
      BY <1>2, <3>1 DEF EmbedForksWorker, EmbedRegisters, Post, PendingIffWaiting, NotYetSent
  <2>8. WorkerNotReaped'
    BY <1>2 DEF EmbedForksWorker, EmbedRegisters, Post, WorkerNotReaped
  <2>9. NoWaitOnReapedChild'
    BY <1>2 DEF EmbedForksWorker, EmbedRegisters, Post, NoWaitOnReapedChild, PendingIffWaiting, PendingCallers, WorkerNotReaped, TerminatingOnlyAtEnd
  <2> QED
    BY <2>0, <2>1, <2>2, <2>3, <2>4, <2>5, <2>6, <2>7, <2>8, <2>9 DEF IInv
<1>3. ASSUME NEW k \in Callers, EmbedCannotFork(k) PROVE IInv'
  <2>0. TypeOK'
    BY TypeStep
  <2>1. IdsTaken'
    BY <1>3 DEF EmbedCannotFork, EmbedRegisters, IdsTaken, Tagged
  <2>2. IdNamesCaller'
    BY <1>3 DEF EmbedCannotFork, EmbedRegisters, IdNamesCaller, IdsTaken, Tagged
  <2>3. OneEntryPerCaller'
    BY <1>3 DEF EmbedCannotFork, EmbedRegisters, OneEntryPerCaller, PendingIffWaiting, PendingCallers
  <2>4. NotYetSent'
    BY <1>3 DEF EmbedCannotFork, EmbedRegisters, NotYetSent
  <2>5. TerminatingOnlyAtEnd'
    BY <1>3 DEF EmbedCannotFork, EmbedRegisters, TerminatingOnlyAtEnd
  <2>6. ResolvedWithOwnVectors'
    BY <1>3 DEF EmbedCannotFork, EmbedRegisters, ResolvedWithOwnVectors, IdNamesCaller, Tagged
  <2>7. PendingIffWaiting'
    <3>1. PendingCallers' = PendingCallers \cup {k}
      BY <1>3, CallAddsEntry DEF EmbedCannotFork
    <3> QED
      BY <1>3, <3>1 DEF EmbedCannotFork, EmbedRegisters, Post, PendingIffWaiting, NotYetSent
  <2>8. WorkerNotReaped'
    BY <1>3 DEF EmbedCannotFork, EmbedRegisters, WorkerNotReaped
  <2>9. NoWaitOnReapedChild'
    BY <1>3 DEF EmbedCannotFork, EmbedRegisters, NoWaitOnReapedChild, PendingIffWaiting, PendingCallers, WorkerNotReaped, TerminatingOnlyAtEnd
  <2> QED
    BY <2>0, <2>1, <2>2, <2>3, <2>4, <2>5, <2>6, <2>7, <2>8, <2>9 DEF IInv
<1>4. ASSUME NEW e \in pending, Timeout(e) PROVE IInv'
  <2>0. TypeOK'
    BY TypeStep
  <2>1. IdsTaken'
    BY <1>4 DEF Timeout, Kill, Reject, IdsTaken, Tagged
  <2>2. IdNamesCaller'
    BY <1>4 DEF Timeout, Kill, Reject, IdNamesCaller, IdsTaken, Tagged
  <2>3. OneEntryPerCaller'
    BY <1>4 DEF Timeout, Kill, Reject, OneEntryPerCaller, PendingIffWaiting, PendingCallers
  <2>4. NotYetSent'
    BY <1>4 DEF Timeout, Kill, Reject, NotYetSent
  <2>5. TerminatingOnlyAtEnd'
    BY <1>4 DEF Timeout, Kill, Reject, TerminatingOnlyAtEnd
  <2>6. ResolvedWithOwnVectors'
    BY <1>4 DEF Timeout, Kill, Reject, ResolvedWithOwnVectors, IdNamesCaller, Tagged
  <2>7. PendingIffWaiting'
    BY <1>4 DEF Timeout, Kill, Reject, PendingIffWaiting, PendingCallers, OneEntryPerCaller, NotYetSent
  <2>8. WorkerNotReaped'
    BY <1>4 DEF Timeout, Kill, Reject, WorkerNotReaped
  <2>9. NoWaitOnReapedChild'
    BY <1>4 DEF Timeout, Kill, Reject, NoWaitOnReapedChild, PendingIffWaiting, PendingCallers, WorkerNotReaped, TerminatingOnlyAtEnd
  <2> QED
    BY <2>0, <2>1, <2>2, <2>3, <2>4, <2>5, <2>6, <2>7, <2>8, <2>9 DEF IInv
<1>5. ASSUME OnModuleDestroy PROVE IInv'
  <2>0. TypeOK'
    BY TypeStep
  <2>1. IdsTaken'
    BY <1>5 DEF OnModuleDestroy, Kill, IdsTaken, Tagged
  <2>2. IdNamesCaller'
    BY <1>5 DEF OnModuleDestroy, Kill, IdNamesCaller, IdsTaken, Tagged
  <2>3. OneEntryPerCaller'
    BY <1>5 DEF OnModuleDestroy, Kill, OneEntryPerCaller, PendingIffWaiting, PendingCallers
  <2>4. NotYetSent'
    BY <1>5 DEF OnModuleDestroy, Kill, NotYetSent
  <2>5. TerminatingOnlyAtEnd'
    BY <1>5 DEF OnModuleDestroy, Kill, TerminatingOnlyAtEnd
  <2>6. ResolvedWithOwnVectors'
    BY <1>5 DEF OnModuleDestroy, Kill, ResolvedWithOwnVectors, IdNamesCaller, Tagged
  <2>7. PendingIffWaiting'
    BY <1>5 DEF OnModuleDestroy, Kill, PendingIffWaiting, PendingCallers, OneEntryPerCaller, NotYetSent
  <2>8. WorkerNotReaped'
    BY <1>5 DEF OnModuleDestroy, Kill, WorkerNotReaped
  <2>9. NoWaitOnReapedChild'
    BY <1>5 DEF OnModuleDestroy, Kill, NoWaitOnReapedChild, PendingIffWaiting, PendingCallers, WorkerNotReaped, TerminatingOnlyAtEnd
  <2> QED
    BY <2>0, <2>1, <2>2, <2>3, <2>4, <2>5, <2>6, <2>7, <2>8, <2>9 DEF IInv
<1>6. ASSUME NEW m \in replies, HandleWorkerMessage(m) PROVE IInv'
  <2>0. TypeOK'
    BY TypeStep
  <2>1. IdsTaken'
    BY <1>6 DEF HandleWorkerMessage, DropMessage, AcceptMessage, Resolve, Reject, IdsTaken, Tagged
  <2>2. IdNamesCaller'
    BY <1>6 DEF HandleWorkerMessage, DropMessage, AcceptMessage, Resolve, Reject, IdNamesCaller, IdsTaken, Tagged
  <2>3. OneEntryPerCaller'
    BY <1>6 DEF HandleWorkerMessage, DropMessage, AcceptMessage, Resolve, Reject, OneEntryPerCaller, PendingIffWaiting, PendingCallers
  <2>4. NotYetSent'
    BY <1>6 DEF HandleWorkerMessage, DropMessage, AcceptMessage, Resolve, Reject, NotYetSent
  <2>5. TerminatingOnlyAtEnd'
    BY <1>6 DEF HandleWorkerMessage, DropMessage, AcceptMessage, Resolve, Reject, TerminatingOnlyAtEnd
  <2>6. ResolvedWithOwnVectors'
    BY <1>6 DEF HandleWorkerMessage, DropMessage, AcceptMessage, Resolve, Reject, ResolvedWithOwnVectors, IdNamesCaller, Tagged
  <2>7. PendingIffWaiting'
    BY <1>6 DEF HandleWorkerMessage, DropMessage, AcceptMessage, Resolve, Reject, PendingIffWaiting, PendingCallers, OneEntryPerCaller, NotYetSent
  <2>8. WorkerNotReaped'
    BY <1>6 DEF HandleWorkerMessage, DropMessage, AcceptMessage, Resolve, Reject, WorkerNotReaped
  <2>9. NoWaitOnReapedChild'
    BY <1>6 DEF HandleWorkerMessage, DropMessage, AcceptMessage, Resolve, Reject, NoWaitOnReapedChild, PendingIffWaiting, PendingCallers, WorkerNotReaped, TerminatingOnlyAtEnd
  <2> QED
    BY <2>0, <2>1, <2>2, <2>3, <2>4, <2>5, <2>6, <2>7, <2>8, <2>9 DEF IInv
<1>7. ASSUME NEW c \in Children, OnError(c) PROVE IInv'
  <2>0. TypeOK'
    BY TypeStep
  <2>1. IdsTaken'
    BY <1>7 DEF OnError, RejectAll, Reject, PendingCallers, IdsTaken, Tagged
  <2>2. IdNamesCaller'
    BY <1>7 DEF OnError, RejectAll, Reject, PendingCallers, IdNamesCaller, IdsTaken, Tagged
  <2>3. OneEntryPerCaller'
    BY <1>7 DEF OnError, RejectAll, Reject, PendingCallers, OneEntryPerCaller, PendingIffWaiting
  <2>4. NotYetSent'
    BY <1>7 DEF OnError, RejectAll, Reject, PendingCallers, NotYetSent
  <2>5. TerminatingOnlyAtEnd'
    BY <1>7 DEF OnError, RejectAll, Reject, PendingCallers, TerminatingOnlyAtEnd
  <2>6. ResolvedWithOwnVectors'
    BY <1>7 DEF OnError, RejectAll, Reject, PendingCallers, ResolvedWithOwnVectors, IdNamesCaller, Tagged
  <2>7. PendingIffWaiting'
    BY <1>7 DEF OnError, RejectAll, Reject, PendingCallers, PendingIffWaiting, OneEntryPerCaller, NotYetSent
  <2>8. WorkerNotReaped'
    BY <1>7 DEF OnError, RejectAll, Reject, PendingCallers, WorkerNotReaped
  <2>9. NoWaitOnReapedChild'
    BY <1>7 DEF OnError, RejectAll, Reject, PendingCallers, NoWaitOnReapedChild, PendingIffWaiting, WorkerNotReaped, TerminatingOnlyAtEnd
  <2> QED
    BY <2>0, <2>1, <2>2, <2>3, <2>4, <2>5, <2>6, <2>7, <2>8, <2>9 DEF IInv
<1>8. ASSUME NEW c \in Children, OnExit(c) PROVE IInv'
  <2>0. TypeOK'
    BY TypeStep
  <2>1. IdsTaken'
    BY <1>8 DEF OnExit, RejectAll, Reject, PendingCallers, IdsTaken, Tagged
  <2>2. IdNamesCaller'
    BY <1>8 DEF OnExit, RejectAll, Reject, PendingCallers, IdNamesCaller, IdsTaken, Tagged
  <2>3. OneEntryPerCaller'
    BY <1>8 DEF OnExit, RejectAll, Reject, PendingCallers, OneEntryPerCaller, PendingIffWaiting
  <2>4. NotYetSent'
    BY <1>8 DEF OnExit, RejectAll, Reject, PendingCallers, NotYetSent
  <2>5. TerminatingOnlyAtEnd'
    BY <1>8 DEF OnExit, RejectAll, Reject, PendingCallers, TerminatingOnlyAtEnd
  <2>6. ResolvedWithOwnVectors'
    BY <1>8 DEF OnExit, RejectAll, Reject, PendingCallers, ResolvedWithOwnVectors, IdNamesCaller, Tagged
  <2>7. PendingIffWaiting'
    BY <1>8 DEF OnExit, RejectAll, Reject, PendingCallers, PendingIffWaiting, OneEntryPerCaller, NotYetSent
  <2>8. WorkerNotReaped'
    BY <1>8 DEF OnExit, RejectAll, Reject, PendingCallers, WorkerNotReaped
  <2>9. NoWaitOnReapedChild'
    BY <1>8 DEF OnExit, RejectAll, Reject, PendingCallers, NoWaitOnReapedChild, PendingIffWaiting, WorkerNotReaped, TerminatingOnlyAtEnd
  <2> QED
    BY <2>0, <2>1, <2>2, <2>3, <2>4, <2>5, <2>6, <2>7, <2>8, <2>9 DEF IInv
<1>9. ASSUME NEW r \in requests, WorkerAnswers(r) PROVE IInv'
  <2>0. TypeOK'
    BY TypeStep
  <2>1. IdsTaken'
    BY <1>9 DEF WorkerAnswers, client, IdsTaken, Tagged
  <2>2. IdNamesCaller'
    BY <1>9 DEF WorkerAnswers, client, IdNamesCaller, IdsTaken, Tagged
  <2>3. OneEntryPerCaller'
    BY <1>9 DEF WorkerAnswers, client, OneEntryPerCaller, PendingIffWaiting, PendingCallers
  <2>4. NotYetSent'
    BY <1>9 DEF WorkerAnswers, client, NotYetSent
  <2>5. TerminatingOnlyAtEnd'
    BY <1>9 DEF WorkerAnswers, client, TerminatingOnlyAtEnd
  <2>6. ResolvedWithOwnVectors'
    BY <1>9 DEF WorkerAnswers, client, ResolvedWithOwnVectors, IdNamesCaller, Tagged
  <2>7. PendingIffWaiting'
    BY <1>9 DEF WorkerAnswers, client, PendingIffWaiting, PendingCallers, OneEntryPerCaller, NotYetSent
  <2>8. WorkerNotReaped'
    BY <1>9 DEF WorkerAnswers, client, WorkerNotReaped
  <2>9. NoWaitOnReapedChild'
    BY <1>9 DEF WorkerAnswers, client, NoWaitOnReapedChild, PendingIffWaiting, PendingCallers, WorkerNotReaped, TerminatingOnlyAtEnd
  <2> QED
    BY <2>0, <2>1, <2>2, <2>3, <2>4, <2>5, <2>6, <2>7, <2>8, <2>9 DEF IInv
<1>10. ASSUME NEW c \in Children, WorkerCrashes(c) PROVE IInv'
  <2>0. TypeOK'
    BY TypeStep
  <2>1. IdsTaken'
    BY <1>10 DEF WorkerCrashes, client, IdsTaken, Tagged
  <2>2. IdNamesCaller'
    BY <1>10 DEF WorkerCrashes, client, IdNamesCaller, IdsTaken, Tagged
  <2>3. OneEntryPerCaller'
    BY <1>10 DEF WorkerCrashes, client, OneEntryPerCaller, PendingIffWaiting, PendingCallers
  <2>4. NotYetSent'
    BY <1>10 DEF WorkerCrashes, client, NotYetSent
  <2>5. TerminatingOnlyAtEnd'
    BY <1>10 DEF WorkerCrashes, client, TerminatingOnlyAtEnd
  <2>6. ResolvedWithOwnVectors'
    BY <1>10 DEF WorkerCrashes, client, ResolvedWithOwnVectors, IdNamesCaller, Tagged
  <2>7. PendingIffWaiting'
    BY <1>10 DEF WorkerCrashes, client, PendingIffWaiting, PendingCallers, OneEntryPerCaller, NotYetSent
  <2>8. WorkerNotReaped'
    BY <1>10 DEF WorkerCrashes, client, WorkerNotReaped
  <2>9. NoWaitOnReapedChild'
    BY <1>10 DEF WorkerCrashes, client, NoWaitOnReapedChild, PendingIffWaiting, PendingCallers, WorkerNotReaped, TerminatingOnlyAtEnd
  <2> QED
    BY <2>0, <2>1, <2>2, <2>3, <2>4, <2>5, <2>6, <2>7, <2>8, <2>9 DEF IInv
<1>11. ASSUME UNCHANGED vars PROVE IInv'
  <2>0. TypeOK'
    BY TypeStep
  <2>1. IdsTaken'
    BY <1>11 DEF vars, client, IdsTaken, Tagged
  <2>2. IdNamesCaller'
    BY <1>11 DEF vars, client, IdNamesCaller, IdsTaken, Tagged
  <2>3. OneEntryPerCaller'
    BY <1>11 DEF vars, client, OneEntryPerCaller, PendingIffWaiting, PendingCallers
  <2>4. NotYetSent'
    BY <1>11 DEF vars, client, NotYetSent
  <2>5. TerminatingOnlyAtEnd'
    BY <1>11 DEF vars, client, TerminatingOnlyAtEnd
  <2>6. ResolvedWithOwnVectors'
    BY <1>11 DEF vars, client, ResolvedWithOwnVectors, IdNamesCaller, Tagged
  <2>7. PendingIffWaiting'
    BY <1>11 DEF vars, client, PendingIffWaiting, PendingCallers, OneEntryPerCaller, NotYetSent
  <2>8. WorkerNotReaped'
    BY <1>11 DEF vars, client, WorkerNotReaped
  <2>9. NoWaitOnReapedChild'
    BY <1>11 DEF vars, client, NoWaitOnReapedChild, PendingIffWaiting, PendingCallers, WorkerNotReaped, TerminatingOnlyAtEnd
  <2> QED
    BY <2>0, <2>1, <2>2, <2>3, <2>4, <2>5, <2>6, <2>7, <2>8, <2>9 DEF IInv
<1> QED
  BY <1>1, <1>2, <1>3, <1>4, <1>5, <1>6, <1>7, <1>8, <1>9, <1>10, <1>11 DEF Next, Embed

(* For any number of callers and children: promises resolve with their own *)
(* vectors, the Map agrees with the promises, and no request waits for a   *)
(* child that was reported dead or that the client killed.                 *)
THEOREM SpecIInv == Spec => []IInv
<1>1. Init => IInv
  BY IInvInit
<1>2. IInv /\ [Next]_vars => IInv'
  BY IInvStep
<1> QED
  BY <1>1, <1>2, PTL DEF Spec

(* A promise only ever resolves with the vectors of its own texts: answers *)
(* of killed and replaced children included (handleWorkerMessage).         *)
THEOREM OwnVectors == Spec => []ResolvedWithOwnVectors
<1>1. IInv => ResolvedWithOwnVectors
  BY DEF IInv
<1> QED
  BY <1>1, SpecIInv, PTL

(* The Map of pending requests and the promises agree in every state.      *)
THEOREM MapAgrees == Spec => []PendingIffWaiting
<1>1. IInv => PendingIffWaiting
  BY DEF IInv
<1> QED
  BY <1>1, SpecIInv, PTL

(* this.worker is never a child that was killed or reported dead.          *)
THEOREM WorkerAlive == Spec => []WorkerNotReaped
<1>1. IInv => WorkerNotReaped
  BY DEF IInv
<1> QED
  BY <1>1, SpecIInv, PTL

(* Until shutdown, the end of a child leaves no request waiting on it.     *)
THEOREM NoForgottenWait == Spec => []NoWaitOnReapedChild
<1>1. IInv => NoWaitOnReapedChild
  BY DEF IInv
<1> QED
  BY <1>1, SpecIInv, PTL

----------------------------------------------------------------------------
(* Every step of the client is a step of the service, or a stutter.        *)
LEMMA ServiceStep == IInv /\ [Next]_vars => [Service!Next]_(Service!vars)
<1> SUFFICES ASSUME IInv, [Next]_vars PROVE [Service!Next]_(Service!vars)
  OBVIOUS
<1> USE DEF IInv, TypeOK, Service!Next, Service!vars
<1>1. ASSUME NEW k \in Callers, EmbedReusesWorker(k) PROVE Service!Call(k)
  BY <1>1 DEF EmbedReusesWorker, EmbedRegisters, Service!Call
<1>2. ASSUME NEW k \in Callers, EmbedForksWorker(k) PROVE Service!Call(k)
  BY <1>2 DEF EmbedForksWorker, EmbedRegisters, Service!Call
<1>3. ASSUME NEW k \in Callers, EmbedCannotFork(k) PROVE Service!CallFails(k)
  BY <1>3 DEF EmbedCannotFork, EmbedRegisters, Service!CallFails
<1>4. ASSUME NEW S \in SUBSET Callers, Reject(S)
      PROVE  [Service!Next]_(Service!vars)
  <2> DEFINE W == {k \in S : promise[k] = "waiting"}
  <2>1. CASE W = {}
    BY <1>4, <2>1 DEF Reject
  <2>2. CASE W # {}
    <3>1. Service!Reject(W)
      BY <1>4, <2>2 DEF Reject, Service!Reject
    <3> QED
      BY <3>1
  <2> QED
    BY <2>1, <2>2
<1>5. PendingCallers \in SUBSET Callers
  BY DEF PendingCallers, Entry
<1>6. ASSUME NEW e \in pending, Timeout(e) PROVE [Service!Next]_(Service!vars)
  BY <1>4, <1>6 DEF Timeout, Entry
<1>7. ASSUME NEW m \in replies, HandleWorkerMessage(m)
      PROVE  [Service!Next]_(Service!vars)
  <2>1. CASE DropMessage(m)
    BY <2>1 DEF DropMessage
  <2>2. ASSUME NEW e \in pending, AcceptMessage(m, e)
        PROVE  [Service!Next]_(Service!vars)
    <3>1. e.caller \in Callers /\ m.caller = e.caller
      BY <2>2 DEF AcceptMessage, IdNamesCaller, Tagged, Entry
    <3>2. CASE Resolve(e.caller, m.caller)
      <4>1. CASE promise[e.caller] = "waiting"
        BY <3>1, <3>2, <4>1 DEF Resolve, Service!Resolve
      <4>2. CASE promise[e.caller] # "waiting"
        BY <3>1, <3>2, <4>2 DEF Resolve
      <4> QED
        BY <4>1, <4>2
    <3>3. CASE Reject({e.caller})
      BY <1>4, <3>1, <3>3
    <3> QED
      BY <2>2, <3>2, <3>3 DEF AcceptMessage
  <2> QED
    BY <1>7, <2>1, <2>2 DEF HandleWorkerMessage
<1>8. ASSUME NEW c \in Children, OnError(c) PROVE [Service!Next]_(Service!vars)
  BY <1>4, <1>5, <1>8 DEF OnError, RejectAll
<1>9. ASSUME NEW c \in Children, OnExit(c) PROVE [Service!Next]_(Service!vars)
  BY <1>4, <1>5, <1>9 DEF OnExit, RejectAll
<1>10. CASE OnModuleDestroy
  BY <1>10 DEF OnModuleDestroy
<1>11. ASSUME NEW r \in requests, WorkerAnswers(r) PROVE UNCHANGED Service!vars
  BY <1>11 DEF WorkerAnswers, client
<1>12. ASSUME NEW c \in Children, WorkerCrashes(c) PROVE UNCHANGED Service!vars
  BY <1>12 DEF WorkerCrashes, client
<1>13. CASE UNCHANGED vars
  BY <1>13 DEF vars, client
<1> QED
  BY <1>1, <1>2, <1>3, <1>6, <1>7, <1>8, <1>9, <1>10, <1>11, <1>12, <1>13
  DEF Next, Embed

(* The client implements the service its callers rely on: every call       *)
(* settles at most once, resolved with its own vectors or rejected.        *)
THEOREM Refinement == Spec => ImplementsService
<1>1. Init => Service!Init
  BY DEF Init, Service!Init
<1>2. IInv /\ [Next]_vars => [Service!Next]_(Service!vars)
  BY ServiceStep
<1> QED
  BY <1>1, <1>2, SpecIInv, PTL DEF Spec, ImplementsService, Service!Spec
============================================================================
