-------------------------- MODULE EmbeddingWorker --------------------------
(***************************************************************************)
(* EmbeddingWorkerClient (src/embedding/embedding-worker.client.ts) and    *)
(* the forked bge-m3 process it talks to (src/embedding/workers/           *)
(* bge-m3.worker.ts).                                                      *)
(*                                                                         *)
(* The client keeps ONE reference to a child process, a Map of pending     *)
(* requests keyed by a counter, one timer per request, and reacts to five  *)
(* callbacks in whatever order the event loop delivers them: a message, an *)
(* error and an exit of a child, a timer, and the shutdown hook.  Each     *)
(* callback runs to completion, so each is one action.  A child that was   *)
(* killed stays observable until its exit event is handled; by then the    *)
(* client may already have forked the next child.                          *)
(***************************************************************************)
EXTENDS Naturals

CONSTANTS
  Callers,       \* the calls of embed(); a caller also stands for the texts it sends
  Children,      \* process identities fork() may return: the bound on forks
  NoChild,       \* "no child": this.worker === null
  NoVectors      \* a promise that carries no vectors

ASSUME NoChildAssumption == NoChild \notin Children
ASSUME NoVectorsAssumption == NoVectors \notin Callers

VARIABLES
  worker,             \* this.worker
  workerTerminating,  \* this.workerTerminating
  pending,            \* this.pending: entries [id, caller], at most one per id
  nextRequestId,      \* this.nextRequestId
  promise,            \* the promise each call of embed() returned
  vectors,            \* whose texts the vectors of a resolved promise embed
  sentTo,             \* the child each call was posted to (history)
  child,              \* the operating system's view of every child
  sendFailed,         \* children with a queued 'error' event of a failed send
  requests,           \* IPC: requests a child has received and not answered
  replies,            \* IPC: answers on their way to the client
  destroyed           \* has the shutdown hook run?

client == <<worker, workerTerminating, pending, nextRequestId, promise, vectors, sentTo, destroyed>>
vars == <<client, child, sendFailed, requests, replies>>

ChildState == {"unborn", "up", "unspawned", "killed", "crashed", "gone"}
Outcome    == {"resolved", "rejected"}
ReplyKind  == {"ok", "error", "invalid"}
Entry      == [id : Nat, caller : Callers]
Request    == [child : Children, id : Nat, caller : Callers]
Reply      == [child : Children, id : Nat, caller : Callers, kind : ReplyKind]

----------------------------------------------------------------------------
(* Helpers of the client. *)

PendingCallers == {e.caller : e \in pending}

(* resolve() and reject() of a promise: only the first call counts. *)
Resolve(k, v) ==
  /\ promise' = [promise EXCEPT ![k] = IF @ = "waiting" THEN "resolved" ELSE @]
  /\ vectors' = [vectors EXCEPT ![k] = IF promise[k] = "waiting" THEN v ELSE @]
Reject(S) ==
  /\ promise' = [k \in Callers |-> IF k \in S /\ promise[k] = "waiting"
                                   THEN "rejected" ELSE promise[k]]
  /\ UNCHANGED vectors

(* Mutant: the Map is not cleared. *)
MutRejectAll == Reject(PendingCallers) /\ UNCHANGED pending

(* rejectAll(): every pending promise is rejected and the Map cleared. *)
RejectAll == Reject(PendingCallers) /\ pending' = {}

(* ChildProcess.kill(): the signal is on its way; killing a process that   *)
(* is already dead, or no process at all (worker?.kill()), does nothing.   *)
Kill(c) ==
  child' = [d \in Children |-> IF d = c /\ child[d] = "up" THEN "killed" ELSE child[d]]

(* send() to a live child delivers the request.  Once the child is dead    *)
(* the write is lost, and Node either notices the closed channel and       *)
(* queues an 'error' event, or does not.                                   *)
Post(c, id, k) ==
  /\ requests' = IF child'[c] = "up"
                 THEN requests \cup {[child |-> c, id |-> id, caller |-> k]}
                 ELSE requests
  /\ \/ sendFailed' = sendFailed
     \/ child'[c] = "crashed" /\ sendFailed' = sendFailed \cup {c}
  /\ sentTo' = [sentTo EXCEPT ![k] = c]

(* A fork that failed and a send that failed report their error with       *)
(* process.nextTick, before any timer, message or exit is delivered.       *)
ErrorQueued(c) == child[c] = "unspawned" \/ c \in sendFailed
EventLoopTurn  == \A c \in Children : ~ErrorQueued(c)

----------------------------------------------------------------------------
Init ==
  /\ worker = NoChild
  /\ workerTerminating = FALSE
  /\ pending = {}
  /\ nextRequestId = 1
  /\ promise = [k \in Callers |-> "none"]
  /\ vectors = [k \in Callers |-> NoVectors]
  /\ sentTo = [k \in Callers |-> NoChild]
  /\ child = [c \in Children |-> "unborn"]
  /\ sendFailed = {}
  /\ requests = {}
  /\ replies = {}
  /\ destroyed = FALSE

(* Mutant: the id is read and not advanced. *)
MutEmbedRegisters(k) ==
  /\ promise[k] = "none"
  /\ pending' = {e \in pending : e.id # nextRequestId}
                  \cup {[id |-> nextRequestId, caller |-> k]}
  /\ UNCHANGED <<nextRequestId, workerTerminating, vectors, replies, destroyed>>

(* embed(texts), the part common to its three outcomes: take an id and     *)
(* register the request (Map.set replaces an entry with the same key), its *)
(* timer being armed in the same breath.                                   *)
EmbedRegisters(k) ==
  /\ promise[k] = "none"
  /\ nextRequestId' = nextRequestId + 1
  /\ pending' = {e \in pending : e.id # nextRequestId}
                  \cup {[id |-> nextRequestId, caller |-> k]}
  /\ UNCHANGED <<workerTerminating, vectors, replies, destroyed>>

(* getWorker() finds a child and the request is posted to it. *)
EmbedReusesWorker(k) ==
  /\ worker # NoChild
  /\ EmbedRegisters(k)
  /\ promise' = [promise EXCEPT ![k] = "waiting"]
  /\ UNCHANGED <<worker, child>>
  /\ Post(worker, nextRequestId, k)

(* createWorker(): fork() returns a fresh child, or one the system could   *)
(* not start, whose 'error' event follows.                                 *)
EmbedForksWorker(k) ==
  /\ worker = NoChild
  /\ EmbedRegisters(k)
  /\ promise' = [promise EXCEPT ![k] = "waiting"]
  /\ \E c \in Children, s \in {"up", "unspawned"} :
       /\ child[c] = "unborn"
       /\ worker' = c
       /\ child' = [child EXCEPT ![c] = s]
       /\ Post(c, nextRequestId, k)

(* createWorker() throws inside the promise executor (the worker script is *)
(* missing, or fork itself throws): the promise is rejected, its entry and *)
(* its timer stay behind.                                                  *)
EmbedCannotFork(k) ==
  /\ worker = NoChild
  /\ EmbedRegisters(k)
  /\ promise' = [promise EXCEPT ![k] = "rejected"]
  /\ UNCHANGED <<worker, child, sendFailed, requests, sentTo>>

(* Mutant: the timer kills the child and forgets to reject. *)
MutTimeoutSilent(e) ==
  /\ EventLoopTurn
  /\ e \in pending
  /\ pending' = pending \ {e}
  /\ Kill(worker)
  /\ worker' = NoChild
  /\ UNCHANGED <<workerTerminating, nextRequestId, promise, vectors, sentTo, destroyed,
                 sendFailed, requests, replies>>

(* The request's timer: forget the request, kill whatever child is the     *)
(* current one, drop the reference, reject.                                *)
Timeout(e) ==
  /\ EventLoopTurn
  /\ e \in pending
  /\ pending' = pending \ {e}
  /\ Kill(worker)
  /\ worker' = NoChild
  /\ Reject({e.caller})
  /\ UNCHANGED <<workerTerminating, nextRequestId, sentTo, destroyed,
                 sendFailed, requests, replies>>

(* onModuleDestroy(): nothing without a child, else kill it and drop it.   *)
OnModuleDestroy ==
  /\ ~destroyed
  /\ destroyed' = TRUE
  /\ workerTerminating' = (workerTerminating \/ worker # NoChild)
  /\ Kill(worker)
  /\ worker' = NoChild
  /\ UNCHANGED <<pending, nextRequestId, promise, vectors, sentTo,
                 sendFailed, requests, replies>>

(* handleWorkerMessage(): an answer that does not parse or whose id is not *)
(* pending is dropped with a warning; otherwise it settles its request.    *)
DropMessage(m) ==
  /\ m.kind = "invalid" \/ \A e \in pending : e.id # m.id
  /\ UNCHANGED <<pending, promise, vectors>>
(* Mutant: the id is passed on as the vectors. *)
MutAcceptMessageId(m, e) ==
  /\ m.kind = "ok"
  /\ e.id = m.id
  /\ pending' = pending \ {e}
  /\ Resolve(e.caller, m.id)
AcceptMessage(m, e) ==
  /\ m.kind # "invalid"
  /\ e.id = m.id
  /\ pending' = pending \ {e}
  /\ \/ m.kind = "ok" /\ Resolve(e.caller, m.caller)
     \/ m.kind = "error" /\ Reject({e.caller})
HandleWorkerMessage(m) ==
  /\ EventLoopTurn
  /\ m \in replies
  /\ replies' = replies \ {m}
  /\ DropMessage(m) \/ \E e \in pending : AcceptMessage(m, e)
  /\ UNCHANGED <<worker, workerTerminating, nextRequestId, sentTo, destroyed,
                 child, sendFailed, requests>>

(* Mutant: the error of a child drops the reference and rejects nobody.    *)
MutOnError(c) ==
  /\ ErrorQueued(c)
  /\ child' = [child EXCEPT ![c] = IF @ = "unspawned" THEN "gone" ELSE @]
  /\ sendFailed' = sendFailed \ {c}
  /\ worker' = NoChild
  /\ UNCHANGED <<pending, promise, vectors, workerTerminating, nextRequestId, sentTo,
                 destroyed, requests, replies>>

(* The 'error' callback of a child: a fork that failed, or a send that     *)
(* found the channel closed.  It does not look at which child it is.       *)
OnError(c) ==
  /\ ErrorQueued(c)
  /\ child' = [child EXCEPT ![c] = IF @ = "unspawned" THEN "gone" ELSE @]
  /\ sendFailed' = sendFailed \ {c}
  /\ RejectAll
  /\ worker' = NoChild
  /\ UNCHANGED <<workerTerminating, nextRequestId, sentTo, destroyed, requests, replies>>

(* The 'exit' callback of a child.  A killed or crashed child never exits  *)
(* with code 0, so only workerTerminating spares the pending requests.     *)
OnExit(c) ==
  /\ EventLoopTurn
  /\ child[c] \in {"killed", "crashed"}
  /\ child' = [child EXCEPT ![c] = "gone"]
  /\ requests' = {r \in requests : r.child # c}
  /\ \/ workerTerminating /\ UNCHANGED <<pending, promise, vectors>>
     \/ ~workerTerminating /\ RejectAll
  /\ workerTerminating' = FALSE
  /\ worker' = NoChild
  /\ UNCHANGED <<nextRequestId, sentTo, destroyed, sendFailed, replies>>

----------------------------------------------------------------------------
(* The forked process: handleMessage() runs concurrently for the requests  *)
(* it received, so it may answer them in any order.  A vector with a       *)
(* non-finite number crosses the JSON channel as null: an invalid message. *)
WorkerAnswers(r) ==
  /\ r \in requests
  /\ child[r.child] \in {"up", "killed"}
  /\ requests' = requests \ {r}
  /\ \E kind \in ReplyKind :
       replies' = replies \cup
         {[child |-> r.child, id |-> r.id, caller |-> r.caller, kind |-> kind]}
  /\ UNCHANGED <<client, child, sendFailed>>

(* The process dies on its own (out of memory, a native crash). *)
WorkerCrashes(c) ==
  /\ child[c] = "up"
  /\ child' = [child EXCEPT ![c] = "crashed"]
  /\ UNCHANGED <<client, sendFailed, requests, replies>>

----------------------------------------------------------------------------
Embed(k) == EmbedReusesWorker(k) \/ EmbedForksWorker(k) \/ EmbedCannotFork(k)

Next ==
  \/ \E k \in Callers : Embed(k)
  \/ \E e \in pending : Timeout(e)
  \/ OnModuleDestroy
  \/ \E m \in replies : HandleWorkerMessage(m)
  \/ \E c \in Children : OnError(c)
  \/ \E c \in Children : OnExit(c)
  \/ \E r \in requests : WorkerAnswers(r)
  \/ \E c \in Children : WorkerCrashes(c)

(* Timers fire and queued errors are emitted.  Nothing is assumed of the   *)
(* child: it may never answer and never exit.                              *)
Fairness ==
  /\ \A k \in Callers : WF_vars(\E e \in pending : e.caller = k /\ Timeout(e))
  /\ \A c \in Children : WF_vars(OnError(c))

Spec     == Init /\ [][Next]_vars
FairSpec == Spec /\ Fairness

----------------------------------------------------------------------------
TypeOK ==
  /\ worker \in Children \cup {NoChild}
  /\ workerTerminating \in BOOLEAN
  /\ pending \subseteq Entry
  /\ nextRequestId \in Nat
  /\ promise \in [Callers -> {"none", "waiting"} \cup Outcome]
  /\ vectors \in [Callers -> Callers \cup {NoVectors}]
  /\ sentTo \in [Callers -> Children \cup {NoChild}]
  /\ child \in [Children -> ChildState]
  /\ sendFailed \subseteq Children
  /\ requests \subseteq Request
  /\ replies \subseteq Reply
  /\ destroyed \in BOOLEAN

(* A promise resolves with the vectors of its own texts, whatever answers  *)
(* of killed or replaced children arrive late or out of order.             *)
ResolvedWithOwnVectors ==
  \A k \in Callers : promise[k] = "resolved" => vectors[k] = k

(* The Map and the promises agree: a posted request is in the Map exactly  *)
(* while its promise waits.  No callback settles a promise and leaves its  *)
(* entry, or drops an entry whose promise would then never settle.         *)
PendingIffWaiting ==
  \A k \in Callers :
    promise[k] = "waiting" <=> sentTo[k] # NoChild /\ k \in PendingCallers

(* The client never holds on to a child whose end it was told of, nor to   *)
(* one it killed: embed() cannot post to a process known to be dying.      *)
WorkerNotReaped ==
  worker # NoChild => child[worker] \in {"up", "unspawned", "crashed"}

(* Until shutdown, no request waits on a child whose exit or failed start  *)
(* the client has handled: only a hung child can make a caller wait for    *)
(* the timer.  This is what rejectAll() in the two callbacks is for.       *)
NoWaitOnReapedChild ==
  ~destroyed => \A k \in Callers :
    promise[k] = "waiting" => child[sentTo[k]] # "gone"

(* What the tests say of rejectAll() ("rejects all pending requests when   *)
(* the worker emits an error ... both share the same worker"): the end of  *)
(* a child rejects the requests that child was given, and no other's.      *)
EndRejectsOwnRequests ==
  [][\A c \in Children : (OnExit(c) \/ OnError(c)) =>
       \A k \in Callers : promise[k] = "waiting" /\ promise'[k] = "rejected"
                            => sentTo[k] = c]_vars

(* The client implements the service its callers rely on. *)
Service == INSTANCE EmbedService WITH
  Callers <- Callers, NoVectors <- NoVectors, promise <- promise, vectors <- vectors
ImplementsService     == Service!Spec
ImplementsFairService == Service!FairSpec
============================================================================
