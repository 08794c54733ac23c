----------------------------- MODULE LlmStream -----------------------------
(***************************************************************************)
(* One request for recommendations: LlmService.recommendStream() and       *)
(* recommend() (src/llm-generation/llm.service.ts), the readers of         *)
(* interfaces/llm-provider.ts and the controller that writes the events.   *)
(*                                                                         *)
(* A provider's answer is a text: an explanation, then a delimiter, then   *)
(* the list of courses.  It arrives in deltas cut anywhere, the delimiter  *)
(* included.  The explanation is shown to the client as it arrives, so a   *)
(* provider that fails can be replaced only before anything was shown; the *)
(* client may leave at any moment, and each provider has one timer for the *)
(* whole of its answer.                                                    *)
(*                                                                         *)
(* Everything between two awaits is one action: a delta is consumed, shown *)
(* and asked a successor without an event of the loop in between.          *)
(***************************************************************************)
EXTENDS Naturals, Sequences

CONSTANTS
  NumProviders,  \* the providers configured, in the order of the constructor
  Letters,       \* what a text is made of
  Delimiter,     \* STREAM_COURSES_DELIMITER
  Codes,         \* course codes a provider may name
  Null,          \* an element of the list that is not a course
  Close,         \* the end of the list: without it the text is not JSON
  Deltas,        \* the deltas a provider may send
  MaxText        \* the longest answer considered: a bound

ASSUME ProvidersAssumption == NumProviders \in Nat
ASSUME DelimiterAssumption == Delimiter \in Seq(Letters) /\ Len(Delimiter) > 0
ASSUME DeltasAssumption == Deltas \subseteq Seq(Letters)
ASSUME BoundAssumption == MaxText \in Nat
ASSUME NullAssumption == Null \notin Codes

Providers == 1..NumProviders

VARIABLES
  mode,          \* which endpoint: "stream" or "json"
  client,        \* "here" | "left": the connection was closed
  pc,            \* "searching" | "asking" | "closed"
  provider,      \* the position of the loop over the providers
  timers,        \* the providers whose timer is armed
  allowed,       \* allowedCourseCodes: the codes the search returned
  said,          \* history: all that the provider in use has sent
  buffer,        \* text held back, or the raw list after the delimiter
  sawDelimiter,
  yieldedAny,    \* something of this provider's answer was shown
  shown,         \* the data of all "reason" events, in order
  courses,       \* the courses of the answer
  outcome,       \* how the request ended
  late           \* history: events written after the client had left

answer == <<said, buffer, sawDelimiter, yieldedAny>>
vars == <<mode, client, pc, provider, timers, allowed, answer, shown, courses,
          outcome, late>>

Outcome == {"none", "answered", "exhausted", "broken", "failed", "left"}

Init ==
  /\ mode \in {"stream", "json"}
  /\ client = "here"
  /\ pc = "searching"
  /\ provider = 0
  /\ timers = {}
  /\ allowed = {}
  /\ said = <<>> /\ buffer = <<>> /\ sawDelimiter = FALSE /\ yieldedAny = FALSE
  /\ shown = <<>>
  /\ courses = {}
  /\ outcome = "none"
  /\ late = 0

----------------------------------------------------------------------------
(* The texts. *)

\* Where the delimiter begins in a text, and the first of these places.
Places(text) ==
  {i \in 1..(Len(text) - Len(Delimiter) + 1) :
     \A k \in 1..Len(Delimiter) : text[i + k - 1] = Delimiter[k]}

IndexOf(text) ==
  CHOOSE i \in Places(text) : \A j \in Places(text) : i <= j

Before(text, i) == SubSeq(text, 1, i - 1)
After(text, i)  == SubSeq(text, i, Len(text))

(* Mutant: of the possible beginning of a delimiter, a symbol is not held.   *)
MutHeldBack == Len(Delimiter) - 2

\* What is held back must include any beginning of a delimiter whose end has
\* not arrived.
HeldBack == Len(Delimiter)

\* consumeStreamChunk().
Consume(delta) ==
  LET combined == buffer \o delta
      safe == IF Len(combined) > HeldBack THEN Len(combined) - HeldBack ELSE 0
      at == IndexOf(combined)
  IN  IF sawDelimiter
      THEN [buffer |-> combined, sawDelimiter |-> TRUE, reason |-> <<>>]
      ELSE IF Places(combined) = {}
      THEN [buffer |-> After(combined, safe + 1), sawDelimiter |-> FALSE,
            reason |-> Before(combined, safe + 1)]
      ELSE [buffer |-> After(combined, at + Len(Delimiter)),
            sawDelimiter |-> TRUE, reason |-> Before(combined, at)]

\* parseCourses(): the elements of the list, none if it is not a whole list.
ParseCourses(list) ==
  IF list # <<>> /\ list[Len(list)] = Close
  THEN LET items == {list[i] : i \in 1..(Len(list) - 1)}
       IN  IF items \subseteq Codes \cup {Null} THEN items ELSE {}
  ELSE {}

(* Mutant: the courses the model made up are passed on.                      *)
MutSanitizeCourses(items) == items

SanitizeCourses(items) == items \cap allowed

----------------------------------------------------------------------------
(* The request. *)

Streaming == mode = "stream" /\ pc = "asking"

(* Mutant: the listener for the close of the connection is forgotten.        *)
MutReturnQueued == FALSE

\* The client left: generator.return() waits for the current turn to end.
ReturnQueued == client = "left"

\* n events written to the response.
Write(n) ==
  late' = IF client = "left" THEN late + n ELSE late

(* Mutants: only the first provider has a timer; the loop goes one past the  *)
(* last provider.                                                            *)
MutArm(i) == IF i = 1 THEN {1} ELSE {}
MutConfigured(i) == i <= NumProviders + 1

Disarm(how) == timers \ {provider}
Arm(i) == (timers \ {provider}) \cup {i}
Configured(i) == i <= NumProviders

\* The generator ends: return, throw, or the return() of a client that left.
\* Every way out runs clearTimeout().
End(how) ==
  /\ pc' = "closed"
  /\ outcome' = how
  /\ timers' = Disarm(how)
  /\ UNCHANGED provider

\* The head of the loop over the providers.
TryProvider(i) ==
  \/ /\ Configured(i)
     /\ pc' = "asking"
     /\ provider' = i
     /\ timers' = Arm(i)
     /\ said' = <<>> /\ buffer' = <<>> /\ sawDelimiter' = FALSE
     /\ yieldedAny' = FALSE
     /\ UNCHANGED <<outcome, late>>
  \/ /\ ~Configured(i)
     /\ End("exhausted")
     /\ Write(1)
     /\ UNCHANGED answer

\* The search of the courses, then the first provider.  A search that failed
\* for a reason that may pass is a search without results.
Retrieve(codes) ==
  /\ pc = "searching"
  /\ allowed' = codes
  /\ IF ReturnQueued
     THEN End("left") /\ Write(1) /\ UNCHANGED answer
     ELSE TryProvider(1)
  /\ UNCHANGED <<mode, client, shown, courses>>

RetrieveFails ==
  /\ pc = "searching"
  /\ End("failed")
  /\ Write(1)
  /\ UNCHANGED <<mode, client, allowed, answer, shown, courses>>

MayFallBack == ~yieldedAny

\* The catch of the loop.
OnProviderError ==
  \/ /\ ~MayFallBack
     /\ End("broken")
     /\ Write(1)
     /\ UNCHANGED answer
  \/ /\ MayFallBack
     /\ TryProvider(provider + 1)

ProviderFails ==
  /\ pc = "asking"
  /\ OnProviderError
  /\ UNCHANGED <<mode, client, allowed, shown, courses>>

\* controller.abort(): the pending fetch() or read() is rejected.
TimerFires ==
  /\ provider \in timers
  /\ ProviderFails

\* readSSELines() and parseSSELine() pass on what the whole lines of a read
\* say, in order, and skip the lines that say nothing.
Receive(delta) ==
  /\ Len(said) + Len(delta) <= MaxText
  /\ said' = said \o delta

\* A delta of the stream.  A return() that waits for this turn of the
\* generator takes effect at its yield.
Delta(delta) ==
  /\ Streaming
  /\ Receive(delta)
  /\ buffer' = Consume(delta).buffer
  /\ sawDelimiter' = Consume(delta).sawDelimiter
  /\ LET reason == Consume(delta).reason
     IN  \/ /\ reason = <<>>
            /\ UNCHANGED <<yieldedAny, shown, pc, outcome, timers, provider, late>>
         \/ /\ reason # <<>>
            /\ yieldedAny' = TRUE
            /\ shown' = shown \o reason
            /\ Write(1)
            /\ IF ReturnQueued THEN End("left")
               ELSE UNCHANGED <<pc, outcome, timers, provider>>
  /\ UNCHANGED <<mode, client, allowed, courses>>

\* The stream is over: what is still held back is shown, then the courses.
EndOfStream ==
  /\ Streaming
  /\ LET rest == IF sawDelimiter THEN <<>> ELSE buffer
         list == IF sawDelimiter THEN ParseCourses(buffer) ELSE {}
     IN  \/ /\ Null \in list  \* sanitizeCourses() reads its code: a TypeError
            /\ OnProviderError
            /\ UNCHANGED <<shown, courses>>
         \/ /\ Null \notin list
            /\ shown' = shown \o rest
            /\ yieldedAny' = (yieldedAny \/ rest # <<>>)
            /\ Write(1)
            /\ IF ReturnQueued /\ rest # <<>>
               THEN End("left") /\ UNCHANGED courses
               ELSE End("answered") /\ courses' = SanitizeCourses(list)
            /\ UNCHANGED <<said, buffer, sawDelimiter>>
  /\ UNCHANGED <<mode, client, allowed>>

\* The other endpoint: the whole answer at once, or no usable answer.
Complete(items) ==
  /\ mode = "json"
  /\ pc = "asking"
  /\ End("answered")
  /\ courses' = SanitizeCourses(items)
  /\ UNCHANGED <<mode, client, allowed, answer, shown, late>>

ClientLeaves ==
  /\ mode = "stream"
  /\ pc # "closed"
  /\ client = "here"
  /\ client' = "left"
  /\ UNCHANGED <<mode, pc, provider, timers, allowed, answer, shown, courses,
                 outcome, late>>

Next ==
  \/ \E codes \in SUBSET Codes : Retrieve(codes) \/ Complete(codes)
  \/ \E delta \in Deltas : Delta(delta)
  \/ RetrieveFails \/ ProviderFails \/ TimerFires \/ EndOfStream \/ ClientLeaves

Search == RetrieveFails \/ \E codes \in SUBSET Codes : Retrieve(codes)

\* The search settles (an embedding has a timer, as has a Qdrant request) and
\* a timer that is armed fires if nothing disarms it.  Nothing is assumed of
\* the providers.
Spec == Init /\ [][Next]_vars /\ WF_vars(Search) /\ WF_vars(TimerFires)

----------------------------------------------------------------------------
(* Properties. *)

TypeOK ==
  /\ mode \in {"stream", "json"} /\ client \in {"here", "left"}
  /\ pc \in {"searching", "asking", "closed"}
  /\ provider \in 0..NumProviders
  /\ timers \subseteq Providers
  /\ allowed \subseteq Codes /\ courses \subseteq Codes
  /\ said \in Seq(Letters) /\ buffer \in Seq(Letters) /\ shown \in Seq(Letters)
  /\ sawDelimiter \in BOOLEAN /\ yieldedAny \in BOOLEAN
  /\ outcome \in Outcome
  /\ late \in Nat

\* The explanation of an answer: all that comes before its first delimiter.
Explanation(text) ==
  IF Places(text) = {} THEN text ELSE Before(text, IndexOf(text))

\* However the answer is cut into deltas, and whichever providers failed
\* before, what the client was shown is the beginning of the explanation of
\* the provider in use: nothing of another's, nothing twice, nothing out of
\* place, no part of the delimiter or of the list (recommendStream(),
\* consumeStreamChunk()).
ShownIsExplanation ==
  shown # <<>> => /\ Len(shown) <= Len(Explanation(said))
                  /\ shown = SubSeq(Explanation(said), 1, Len(shown))

\* A request that ends with courses has shown the whole explanation, and its
\* courses are those the provider listed and the search had found
\* (streamFromProvider(), sanitizeCourses()).
AnswerIsWhole ==
  outcome = "answered" /\ mode = "stream" =>
    /\ shown = Explanation(said)
    /\ courses =
         IF Places(said) = {} THEN {}
         ELSE ParseCourses(After(said, IndexOf(said) + Len(Delimiter)))
                \cap allowed

\* A provider is replaced only while nothing of its answer was shown: "we can
\* no longer silently fall back to another provider mid-response"
\* (recommendStream()).
NoFallbackMidResponse == [][shown # <<>> => provider' = provider]_vars

\* A request fails only for a reason: "exhausted" when the last provider
\* failed with nothing shown, "broken" when the one that failed had shown
\* something (recommend(), recommendStream(), throwExhausted()).
FailureHasReason ==
  /\ outcome = "exhausted" => provider = NumProviders /\ shown = <<>>
  /\ outcome = "broken" => shown # <<>>

\* The timer of the provider in use is armed, and no other: none fires for a
\* provider that was left or a request that is over (the finally blocks).
TimerOfProviderInUse == timers = IF pc = "asking" THEN {provider} ELSE {}

\* A client that left is written at most the one event that was on its way
\* (the close listener of recommendStream() in llm.controller.ts).
QuietAfterLeaving == late <= 1

\* Every request ends, even if no provider ever answers or refuses.
RequestEnds == <>(pc = "closed")

=============================================================================
