------------------------------ MODULE Retrieval ------------------------------
(***************************************************************************)
(* CourseRetrieverService (src/embedding/course-retriever.service.ts): the *)
(* courses that match a question best.  The collection has a point for     *)
(* every course of every program, so the search asks for more points than  *)
(* courses are wanted, and keeps the best point of each course.            *)
(*                                                                         *)
(* Points below SCORE_THRESHOLD are as if they were not in the collection. *)
(***************************************************************************)
EXTENDS Naturals, Sequences, FiniteSets

CONSTANTS
  Courses,   \* by code
  Programs,  \* by id
  Scores,    \* numbers: how close a point is to the question
  NoPoint,   \* a course that is not in the program
  Limit,     \* LIMIT
  Oversample \* OVERSAMPLE_FACTOR

VARIABLES
  score,  \* of each point of the collection (external)
  filter, \* the programs asked for, none for all
  state,  \* of the request
  hits,   \* the points the search returned
  answer  \* the courses

vars == <<score, filter, state, hits, answer>>

Points == Courses \X Programs

Init ==
  /\ score \in [Points -> Scores \cup {NoPoint}]
  /\ filter \in SUBSET Programs
  /\ state = "embedding"
  /\ hits = {}
  /\ answer = <<>>

Goes(here, there) == state = here /\ state' = there

Embedded ==
  /\ Goes("embedding", "searching")
  /\ UNCHANGED <<score, filter, hits, answer>>

(* buildPayloadFilter(): no program means every program. *)
Matching ==
  {p \in Points : score[p] # NoPoint /\ (filter = {} \/ p[2] \in filter)}

(* Qdrant's answer: the points that score most, those that tie in any order. *)
IsTop(points) ==
  /\ Cardinality(points) = IF Cardinality(Matching) < Limit * Oversample
                           THEN Cardinality(Matching) ELSE Limit * Oversample
  /\ \A p \in points, q \in Matching \ points : score[p] >= score[q]

Searched ==
  /\ Goes("searching", "found")
  /\ hits' \in {points \in SUBSET Matching : IsTop(points)}
  /\ UNCHANGED <<score, filter, answer>>

ScoresOf(points, c) == {score[p] : p \in {q \in points : q[1] = c}}
Highest(s) == CHOOSE x \in s : \A y \in s : y <= x

(* Mutant: the last point of a course stays, not its best. *)
MutBest(c) == CHOOSE x \in ScoresOf(hits, c) : \A y \in ScoresOf(hits, c) : y >= x

Best(c) == Highest(ScoresOf(hits, c))

Found == {p[1] : p \in hits}
Wanted == IF Cardinality(Found) < Limit THEN Cardinality(Found) ELSE Limit

(* Sorted, courses that tie in any order, and cut. *)
Answered ==
  /\ Goes("found", "answered")
  /\ \E order \in [1..Cardinality(Found) -> Found] :
       /\ \A i, j \in DOMAIN order : i # j => order[i] # order[j]
       /\ \A i, j \in DOMAIN order : i < j => Best(order[i]) >= Best(order[j])
       /\ answer' = [i \in 1..Wanted |-> [code |-> order[i], score |-> Best(order[i])]]
  /\ UNCHANGED <<score, filter, hits>>

(* A transient error is answered with no course; any other one is thrown.  *)
Fails ==
  /\ Goes("embedding", "answered") \/ Goes("searching", "answered")
       \/ Goes("embedding", "failed") \/ Goes("searching", "failed")
  /\ UNCHANGED <<score, filter, hits, answer>>

Next == Embedded \/ Searched \/ Answered \/ Fails

Spec == Init /\ [][Next]_vars

----------------------------------------------------------------------------
TypeOK ==
  /\ score \in [Points -> Scores \cup {NoPoint}]
  /\ filter \subseteq Programs
  /\ state \in {"embedding", "searching", "found", "answered", "failed"}
  /\ hits \subseteq Points
  /\ answer \in Seq([code : Courses, score : Scores]) /\ Len(answer) <= Limit

(* "Oversampling before deduplication ensures we return up to LIMIT unique *)
(* course codes": so it does as long as no course has more points than     *)
(* OVERSAMPLE_FACTOR.  Then the answer is the best of the whole            *)
(* collection, each course once with its best score.                       *)
Duplicates(c) == Cardinality({p \in Matching : p[1] = c})
BestCoursesFound ==
  (hits # {} /\ state = "answered" /\ \A c \in Courses : Duplicates(c) <= Oversample) =>
    LET codes == {answer[i].code : i \in DOMAIN answer}
        left  == {p[1] : p \in Matching} \ codes
    IN  /\ Cardinality(codes) = Len(answer)
        /\ \A i \in DOMAIN answer : answer[i].score = Highest(ScoresOf(Matching, answer[i].code))
        /\ \A i, j \in DOMAIN answer : i < j => answer[i].score >= answer[j].score
        /\ left # {} => Len(answer) = Limit
        /\ \A c \in left, i \in DOMAIN answer : answer[i].score >= Highest(ScoresOf(Matching, c))
============================================================================
