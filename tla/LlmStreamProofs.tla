-------------------------- MODULE LlmStreamProofs --------------------------
(***************************************************************************)
(* Proofs about one request for recommendations, for any number of         *)
(* providers, any delimiter and any answer cut into any deltas.            *)
(***************************************************************************)
EXTENDS LlmStream, FiniteSetTheorems, TLAPS

----------------------------------------------------------------------------
(* Texts and the places of the delimiter in them. *)

\* A set of numbers that is not empty has a least element.  The initial
\* intervals up to its elements are finite sets, which inclusion orders well.
LEMMA Least ==
  ASSUME NEW T \in SUBSET Nat, T # {}
  PROVE  \E x \in T : \A y \in T : x <= y
<1> DEFINE F == {0..x : x \in T}
<1>1. F \subseteq FiniteSubsetsOf(Nat)
  <2>1. \A x \in Nat : IsFiniteSet(0..x) BY FS_Interval
  <2> QED BY <2>1 DEF FiniteSubsetsOf
<1>2. F # {} OBVIOUS
<1>3. IsWellFoundedOn(StrictSubsetOrdering(Nat), FiniteSubsetsOf(Nat))
  BY FS_StrictSubsetOrderingWellFounded
<1>4. PICK m \in F : \A s \in F : ~(<<s, m>> \in StrictSubsetOrdering(Nat))
  <2> HIDE DEF F
  <2> QED BY <1>1, <1>2, <1>3, WFMin
<1>5. PICK x \in T : m = 0..x OBVIOUS
<1>6. ASSUME NEW y \in T PROVE x <= y
  <2> SUFFICES ASSUME y < x PROVE FALSE OBVIOUS
  <2>1. 0..y \in F OBVIOUS
  <2>2. 0..y \subseteq 0..x /\ x \in 0..x /\ x \notin 0..y OBVIOUS
  <2>3. 0..y # 0..x BY <2>2
  <2>4. 0..y \in SUBSET Nat /\ 0..x \in SUBSET Nat OBVIOUS
  <2>5. <<0..y, 0..x>> \in StrictSubsetOrdering(Nat)
    BY <2>2, <2>3, <2>4 DEF StrictSubsetOrdering
  <2> QED BY <1>4, <1>5, <2>1, <2>5
<1> QED BY <1>6

D == Len(Delimiter)

LEMMA DelimiterLength == D \in Nat /\ D > 0
  BY DelimiterAssumption DEF D

\* IndexOf() is the first place of the delimiter.
LEMMA FirstPlace ==
  ASSUME NEW text \in Seq(Letters), Places(text) # {}
  PROVE  /\ IndexOf(text) \in Places(text)
         /\ \A j \in Places(text) : IndexOf(text) <= j
<1>1. Places(text) \in SUBSET Nat BY DEF Places
<1> HIDE DEF Places
<1>2. \E i \in Places(text) : \A j \in Places(text) : i <= j BY <1>1, Least
<1> QED BY <1>2 DEF IndexOf

\* What a place is.
LEMMA PlaceMeans ==
  ASSUME NEW text \in Seq(Letters), NEW i
  PROVE  i \in Places(text) <=>
           /\ i \in Nat /\ i >= 1 /\ i + D - 1 <= Len(text)
           /\ \A k \in 1..D : text[i + k - 1] = Delimiter[k]
  BY DelimiterLength DEF Places, D

LEMMA Joined ==
  ASSUME NEW a \in Seq(Letters), NEW b \in Seq(Letters)
  PROVE  /\ a \o b \in Seq(Letters)
         /\ Len(a \o b) = Len(a) + Len(b)
         /\ \A i \in 1..Len(a) : (a \o b)[i] = a[i]
         /\ \A i \in 1..Len(b) : (a \o b)[Len(a) + i] = b[i]
  OBVIOUS

LEMMA Associative ==
  ASSUME NEW a \in Seq(Letters), NEW b \in Seq(Letters), NEW c \in Seq(Letters)
  PROVE  (a \o b) \o c = a \o (b \o c)
  OBVIOUS

\* The places of a text after what was put in front of it.
LEMMA PlacesShift ==
  ASSUME NEW a \in Seq(Letters), NEW b \in Seq(Letters), NEW i \in Nat, i >= 1
  PROVE  Len(a) + i \in Places(a \o b) <=> i \in Places(b)
<1>1. /\ a \o b \in Seq(Letters) /\ Len(a \o b) = Len(a) + Len(b)
      /\ \A j \in 1..Len(b) : (a \o b)[Len(a) + j] = b[j]
  BY Joined
<1>2. Len(a) \in Nat /\ Len(b) \in Nat OBVIOUS
<1>3. ASSUME i + D - 1 <= Len(b), NEW k \in 1..D
      PROVE  (a \o b)[(Len(a) + i) + k - 1] = b[i + k - 1]
  <2>1. i + k - 1 \in 1..Len(b) BY <1>2, <1>3, DelimiterLength
  <2>2. (Len(a) + i) + k - 1 = Len(a) + (i + k - 1) BY <1>2, <1>3, DelimiterLength
  <2> QED BY <1>1, <2>1, <2>2
<1>4. Len(a) + i + D - 1 <= Len(a \o b) <=> i + D - 1 <= Len(b)
  BY <1>1, <1>2, DelimiterLength
<1>5. Len(a) + i \in Places(a \o b) <=>
        /\ Len(a) + i + D - 1 <= Len(a \o b)
        /\ \A k \in 1..D : (a \o b)[(Len(a) + i) + k - 1] = Delimiter[k]
  <2>1. Len(a) + i \in Nat /\ Len(a) + i >= 1 BY <1>2
  <2> QED BY <1>1, <2>1, PlaceMeans
<1>6. i \in Places(b) <=> /\ i + D - 1 <= Len(b)
                          /\ \A k \in 1..D : b[i + k - 1] = Delimiter[k]
  BY PlaceMeans
<1> QED BY <1>3, <1>4, <1>5, <1>6

\* The places of a text are those of its continuations that it has room for.
LEMMA PlacesKept ==
  ASSUME NEW a \in Seq(Letters), NEW b \in Seq(Letters), NEW i \in Nat,
         i + D - 1 <= Len(a)
  PROVE  i \in Places(a \o b) <=> i \in Places(a)
<1>1. /\ a \o b \in Seq(Letters) /\ Len(a \o b) = Len(a) + Len(b)
      /\ \A j \in 1..Len(a) : (a \o b)[j] = a[j]
  BY Joined
<1>2. Len(a) \in Nat /\ Len(b) \in Nat OBVIOUS
<1>3. ASSUME i >= 1, NEW k \in 1..D PROVE (a \o b)[i + k - 1] = a[i + k - 1]
  <2>1. i + k - 1 \in 1..Len(a) BY <1>2, <1>3, DelimiterLength
  <2> QED BY <1>1, <2>1
<1>4. i + D - 1 <= Len(a \o b) BY <1>1, <1>2, DelimiterLength
<1>5. i \in Places(a \o b) <=>
        i >= 1 /\ \A k \in 1..D : (a \o b)[i + k - 1] = Delimiter[k]
  BY <1>1, <1>4, PlaceMeans
<1>6. i \in Places(a) <=> i >= 1 /\ \A k \in 1..D : a[i + k - 1] = Delimiter[k]
  BY PlaceMeans
<1> QED BY <1>3, <1>5, <1>6

\* A text cut in two before its place i.
LEMMA Slices ==
  ASSUME NEW text \in Seq(Letters), NEW i \in 1..(Len(text) + 1)
  PROVE  /\ Before(text, i) \in Seq(Letters) /\ Len(Before(text, i)) = i - 1
         /\ After(text, i) \in Seq(Letters) /\ Len(After(text, i)) = Len(text) - i + 1
         /\ \A k \in 1..(i - 1) : Before(text, i)[k] = text[k]
         /\ \A k \in 1..(Len(text) - i + 1) : After(text, i)[k] = text[i + k - 1]
  BY DEF Before, After

\* Two texts of one length with the same letters are the same.
LEMMA SameText ==
  ASSUME NEW a \in Seq(Letters), NEW b \in Seq(Letters), Len(a) = Len(b),
         \A k \in 1..Len(a) : a[k] = b[k]
  PROVE  a = b
  OBVIOUS

LEMMA Rejoined ==
  ASSUME NEW a \in Seq(Letters), NEW b \in Seq(Letters),
         NEW i \in 1..(Len(b) + 1)
  PROVE  (a \o Before(b, i)) \o After(b, i) = a \o b
<1>1. Before(b, i) \o After(b, i) = b
  <2> DEFINE p == Before(b, i)
             q == After(b, i)
  <2>1. /\ p \in Seq(Letters) /\ Len(p) = i - 1
        /\ q \in Seq(Letters) /\ Len(q) = Len(b) - i + 1
        /\ \A k \in 1..(i - 1) : p[k] = b[k]
        /\ \A k \in 1..(Len(b) - i + 1) : q[k] = b[i + k - 1]
    BY Slices
  <2> HIDE DEF p, q
  <2>0. b \in Seq(Letters) /\ Len(b) \in Nat /\ i \in Int OBVIOUS
  <2>2. /\ p \o q \in Seq(Letters) /\ Len(p \o q) = Len(b)
        /\ \A k \in 1..Len(p) : (p \o q)[k] = p[k]
        /\ \A k \in 1..Len(q) : (p \o q)[Len(p) + k] = q[k]
    <3>1. /\ p \o q \in Seq(Letters) /\ Len(p \o q) = Len(p) + Len(q)
          /\ \A k \in 1..Len(p) : (p \o q)[k] = p[k]
          /\ \A k \in 1..Len(q) : (p \o q)[Len(p) + k] = q[k]
      BY <2>1, Joined
    <3>2. Len(p) + Len(q) = Len(b) BY <2>0, <2>1
    <3> QED BY <3>1, <3>2
  <2>3. ASSUME NEW k \in 1..Len(b) PROVE (p \o q)[k] = b[k]
    <3>1. CASE k <= i - 1 BY <2>1, <2>2, <3>1
    <3>2. CASE ~(k <= i - 1)
      <4>1. k - (i - 1) \in 1..Len(q) /\ k = Len(p) + (k - (i - 1)) BY <2>1, <3>2
      <4>2. (p \o q)[k] = q[k - (i - 1)] BY <2>2, <4>1
      <4>3. q[k - (i - 1)] = b[i + (k - (i - 1)) - 1] BY <2>1, <4>1
      <4>4. i + (k - (i - 1)) - 1 = k OBVIOUS
      <4> QED BY <4>2, <4>3, <4>4
    <3> QED BY <3>1, <3>2
  <2>4. p \o q = b BY <2>2, <2>3, SameText
  <2> QED BY <2>4 DEF p, q
<1>2. Before(b, i) \in Seq(Letters) /\ After(b, i) \in Seq(Letters) BY Slices
<1>3. (a \o Before(b, i)) \o After(b, i) = a \o (Before(b, i) \o After(b, i))
  BY <1>2
<1> QED BY <1>1, <1>3

----------------------------------------------------------------------------
(* The reading of an answer. *)

\* While a provider answers: before the delimiter, what was said is what was
\* shown and what is held back, and a whole delimiter's length is held back
\* once something was shown; after it, all before its first place was shown
\* and all after it is kept.
ReadingOf(text, kept, found, seen) ==
  /\ ~found => /\ text = seen \o kept
               /\ Places(text) = {}
               /\ seen # <<>> => Len(kept) = D
  /\ found => /\ Places(text) # {}
              /\ seen = Before(text, IndexOf(text))
              /\ kept = After(text, IndexOf(text) + D)

Reading == ReadingOf(said, buffer, sawDelimiter, shown)

Texts == said \in Seq(Letters) /\ buffer \in Seq(Letters) /\ shown \in Seq(Letters)

Combined(delta) == buffer \o delta

\* A delta of a stream whose delimiter has not come: the places of the new
\* text are those of the part that was not shown.
LEMMA PlacesOfUnshown ==
  ASSUME Texts, Reading, ~sawDelimiter, NEW delta \in Seq(Letters), NEW p \in Nat
  PROVE  /\ said \o delta = shown \o Combined(delta)
         /\ p \in Places(said \o delta) <=>
              p > Len(shown) /\ p - Len(shown) \in Places(Combined(delta))
<1> USE DEF Texts
<1>1. said = shown \o buffer /\ Places(said) = {} /\ (shown # <<>> => Len(buffer) = D)
  BY DEF Reading, ReadingOf
<1>2. said \o delta = shown \o Combined(delta)
  <2>1. (shown \o buffer) \o delta = shown \o (buffer \o delta) BY Associative
  <2> QED BY <1>1, <2>1 DEF Combined
<1>3. Combined(delta) \in Seq(Letters) BY DEF Combined
<1>4. ASSUME p \in Places(said \o delta) PROVE p > Len(shown)
  <2>1. said \o delta \in Seq(Letters) OBVIOUS
  <2>2. p >= 1 BY <1>4, <2>1, PlaceMeans
  <2>3. CASE shown = <<>> BY <2>2, <2>3
  <2>4. CASE shown # <<>>
    <3>1. Len(said) = Len(shown) + D BY <1>1, <2>4, Joined
    <3>2. ~(p + D - 1 <= Len(said)) BY <1>1, <1>4, PlacesKept
    <3> QED BY <3>1, <3>2, DelimiterLength
  <2> QED BY <2>3, <2>4
<1>5. ASSUME p > Len(shown)
      PROVE  p \in Places(shown \o Combined(delta)) <=>
               p - Len(shown) \in Places(Combined(delta))
  <2>1. p - Len(shown) \in Nat /\ p - Len(shown) >= 1 BY <1>5
  <2>2. Len(shown) + (p - Len(shown)) = p OBVIOUS
  <2> QED BY <1>3, <2>1, <2>2, PlacesShift
<1> QED BY <1>2, <1>4, <1>5

\* The delimiter still has not come.
LEMMA ConsumeNoDelimiter ==
  ASSUME Texts, Reading, ~sawDelimiter, NEW delta \in Seq(Letters),
         Places(Combined(delta)) = {}
  PROVE  LET c == Consume(delta)
         IN  /\ c.sawDelimiter = FALSE
             /\ c.buffer \in Seq(Letters) /\ c.reason \in Seq(Letters)
             /\ said \o delta = (shown \o c.reason) \o c.buffer
             /\ Places(said \o delta) = {}
             /\ shown \o c.reason # <<>> => Len(c.buffer) = D
<1> USE DEF Texts
<1> DEFINE b == Combined(delta)
           safe == IF Len(b) > D THEN Len(b) - D ELSE 0
<1>1. b \in Seq(Letters) BY DEF Combined
<1>2. safe + 1 \in 1..(Len(b) + 1) BY <1>1, DelimiterLength
<1>3. Consume(delta) = [buffer |-> After(b, safe + 1), sawDelimiter |-> FALSE,
                        reason |-> Before(b, safe + 1)]
  BY DEF Consume, Combined, HeldBack, D
<1>4. /\ Before(b, safe + 1) \in Seq(Letters) /\ After(b, safe + 1) \in Seq(Letters)
      /\ Len(Before(b, safe + 1)) = safe /\ Len(After(b, safe + 1)) = Len(b) - safe
  <2>1. safe \in Nat /\ Len(b) \in Nat BY <1>1, DelimiterLength
  <2> HIDE DEF b, safe
  <2>2. /\ Before(b, safe + 1) \in Seq(Letters)
        /\ Len(Before(b, safe + 1)) = (safe + 1) - 1
        /\ After(b, safe + 1) \in Seq(Letters)
        /\ Len(After(b, safe + 1)) = Len(b) - (safe + 1) + 1
    BY <1>1, <1>2, Slices
  <2> QED BY <2>1, <2>2
<1>5. said \o delta = shown \o b BY PlacesOfUnshown
<1>6. (shown \o Before(b, safe + 1)) \o After(b, safe + 1) = shown \o b
  <2> HIDE DEF b, safe
  <2> QED BY <1>1, <1>2, Rejoined
<1>7. Places(said \o delta) = {}
  <2>1. \A p \in Places(said \o delta) : p \in Nat BY DEF Places
  <2> QED BY <2>1, PlacesOfUnshown
<1>8. ASSUME shown \o Before(b, safe + 1) # <<>> PROVE Len(b) - safe = D
  <2>1. CASE Len(b) > D BY <1>1, <2>1, DelimiterLength
  <2>2. CASE ~(Len(b) > D)
    <3>1. safe = 0 BY <2>2
    <3>2. Before(b, safe + 1) = <<>>
      <4> HIDE DEF b, safe
      <4> QED BY <1>4, <3>1
    <3>3. shown # <<>> BY <1>8, <3>2
    <3>4. Len(buffer) = D BY <3>3 DEF Reading, ReadingOf
    <3>5. Len(b) = Len(buffer) + Len(delta) BY DEF Combined
    <3> QED BY <2>2, <3>1, <3>4, <3>5, DelimiterLength
  <2> QED BY <2>1, <2>2
<1> HIDE DEF b, safe
<1>9. /\ Consume(delta).buffer = After(b, safe + 1)
      /\ Consume(delta).sawDelimiter = FALSE
      /\ Consume(delta).reason = Before(b, safe + 1)
  BY <1>3
<1> QED BY <1>4, <1>5, <1>6, <1>7, <1>8, <1>9

\* The delimiter comes with this delta.
LEMMA ConsumeDelimiter ==
  ASSUME Texts, Reading, ~sawDelimiter, NEW delta \in Seq(Letters),
         Places(Combined(delta)) # {}
  PROVE  LET c == Consume(delta)
         IN  /\ c.sawDelimiter = TRUE
             /\ c.buffer \in Seq(Letters) /\ c.reason \in Seq(Letters)
             /\ Places(said \o delta) # {}
             /\ shown \o c.reason = Before(said \o delta, IndexOf(said \o delta))
             /\ c.buffer = After(said \o delta, IndexOf(said \o delta) + D)
<1> DEFINE b == Combined(delta)
           at == IndexOf(b)
           text == said \o delta
           n == Len(shown)
<1>1. b \in Seq(Letters) /\ text \in Seq(Letters) /\ n \in Nat /\ shown \in Seq(Letters)
  BY DEF Combined, Texts
<1>2. text = shown \o b BY PlacesOfUnshown
<1>3. Consume(delta) = [buffer |-> After(b, at + D), sawDelimiter |-> TRUE,
                        reason |-> Before(b, at)]
  BY DEF Consume, Combined, D
<1>4. at \in Places(b) /\ \A j \in Places(b) : at <= j BY <1>1, FirstPlace
<1>5. at \in Nat /\ at >= 1 /\ at + D - 1 <= Len(b) BY <1>1, <1>4, PlaceMeans
<1>6. \A p \in Nat : p \in Places(text) <=> p > n /\ p - n \in Places(b)
  BY PlacesOfUnshown
<1>7. n + at \in Places(text)
  <2>1. n + at \in Nat /\ n + at > n /\ (n + at) - n = at BY <1>1, <1>5
  <2> QED BY <1>4, <1>6, <2>1
<1>8. IndexOf(text) = n + at
  <2>1. IndexOf(text) \in Places(text) /\ \A j \in Places(text) : IndexOf(text) <= j
    BY <1>1, <1>7, FirstPlace
  <2>2. IndexOf(text) \in Nat BY <2>1 DEF Places
  <2>3. IndexOf(text) - n \in Places(b) BY <1>6, <2>1, <2>2
  <2>4. at <= IndexOf(text) - n BY <1>4, <2>3
  <2>5. IndexOf(text) <= n + at BY <1>7, <2>1
  <2>6. \A x, y, z \in Nat : z <= x - y /\ x <= y + z => x = y + z OBVIOUS
  <2>7. n \in Nat /\ at \in Nat BY <1>1, <1>5
  <2> HIDE DEF at, text, n
  <2> QED BY <2>2, <2>4, <2>5, <2>6, <2>7
<1>9. Len(text) = n + Len(b) /\ Len(b) \in Nat
  <2> HIDE DEF b
  <2> QED BY <1>1, <1>2, Joined
<1> HIDE DEF b, at, text, n
<1>10. at \in 1..(Len(b) + 1) /\ at + D \in 1..(Len(b) + 1)
  BY <1>5, <1>9, DelimiterLength
<1>11. n + at \in 1..(Len(text) + 1) /\ n + at + D \in 1..(Len(text) + 1)
  BY <1>1, <1>5, <1>9, DelimiterLength
<1>12. /\ \A k \in 1..n : text[k] = shown[k]
       /\ \A k \in 1..Len(b) : text[n + k] = b[k]
  BY <1>1, <1>2, Joined DEF n
<1>13. shown \o Before(b, at) = Before(text, n + at)
  <2>1. /\ Before(b, at) \in Seq(Letters) /\ Len(Before(b, at)) = at - 1
        /\ \A k \in 1..(at - 1) : Before(b, at)[k] = b[k]
    BY <1>1, <1>10, Slices
  <2>2. /\ Before(text, n + at) \in Seq(Letters)
        /\ Len(Before(text, n + at)) = (n + at) - 1
        /\ \A k \in 1..((n + at) - 1) : Before(text, n + at)[k] = text[k]
    BY <1>1, <1>11, Slices
  <2>3. /\ shown \o Before(b, at) \in Seq(Letters)
        /\ Len(shown \o Before(b, at)) = n + Len(Before(b, at))
        /\ \A k \in 1..n : (shown \o Before(b, at))[k] = shown[k]
        /\ \A k \in 1..Len(Before(b, at)) : (shown \o Before(b, at))[n + k] = Before(b, at)[k]
    BY <1>1, <2>1, Joined DEF n
  <2>4. Len(shown \o Before(b, at)) = Len(Before(text, n + at))
    BY <1>1, <1>5, <2>1, <2>2, <2>3
  <2>5. ASSUME NEW k \in 1..Len(shown \o Before(b, at))
        PROVE  (shown \o Before(b, at))[k] = Before(text, n + at)[k]
    <3>1. k \in 1..((n + at) - 1) BY <1>1, <1>5, <2>2, <2>4
    <3>2. Before(text, n + at)[k] = text[k] BY <2>2, <3>1
    <3>3. CASE k <= n
      <4>1. k \in 1..n BY <1>1, <3>1, <3>3
      <4> QED BY <1>12, <2>3, <3>2, <4>1
    <3>4. CASE ~(k <= n)
      <4>1. /\ k - n \in 1..(at - 1) /\ n + (k - n) = k
        BY <1>1, <1>5, <3>1, <3>4
      <4>2. k - n \in 1..Len(b) BY <1>5, <1>9, <4>1, DelimiterLength
      <4>3. (shown \o Before(b, at))[n + (k - n)] = Before(b, at)[k - n]
        BY <2>1, <2>3, <4>1
      <4>4. Before(b, at)[k - n] = b[k - n] BY <2>1, <4>1
      <4>5. text[n + (k - n)] = b[k - n] BY <1>12, <4>2
      <4> QED BY <3>2, <4>1, <4>3, <4>4, <4>5
    <3> QED BY <3>3, <3>4
  <2> QED BY <2>2, <2>3, <2>4, <2>5, SameText
<1>14. After(b, at + D) \in Seq(Letters) /\ After(b, at + D) = After(text, n + at + D)
  <2>1. /\ After(b, at + D) \in Seq(Letters)
        /\ Len(After(b, at + D)) = Len(b) - (at + D) + 1
        /\ \A k \in 1..(Len(b) - (at + D) + 1) : After(b, at + D)[k] = b[(at + D) + k - 1]
    BY <1>1, <1>10, Slices
  <2>2. /\ After(text, n + at + D) \in Seq(Letters)
        /\ Len(After(text, n + at + D)) = Len(text) - (n + at + D) + 1
        /\ \A k \in 1..(Len(text) - (n + at + D) + 1) :
             After(text, n + at + D)[k] = text[(n + at + D) + k - 1]
    BY <1>1, <1>11, Slices
  <2>3. Len(text) - (n + at + D) + 1 = Len(b) - (at + D) + 1
    BY <1>1, <1>5, <1>9, DelimiterLength
  <2>4. ASSUME NEW k \in 1..(Len(b) - (at + D) + 1)
        PROVE  After(b, at + D)[k] = After(text, n + at + D)[k]
    <3>1. /\ (at + D) + k - 1 \in 1..Len(b)
          /\ (n + at + D) + k - 1 = n + ((at + D) + k - 1)
      BY <1>1, <1>5, <1>9, DelimiterLength
    <3>2. text[n + ((at + D) + k - 1)] = b[(at + D) + k - 1] BY <1>12, <3>1
    <3>3. After(b, at + D)[k] = b[(at + D) + k - 1] BY <2>1
    <3>4. After(text, n + at + D)[k] = text[(n + at + D) + k - 1] BY <2>2, <2>3
    <3> QED BY <3>1, <3>2, <3>3, <3>4
  <2>5. After(b, at + D) = After(text, n + at + D)
    BY <2>1, <2>2, <2>3, <2>4, SameText
  <2> QED BY <2>1, <2>5
<1>15. /\ Consume(delta).buffer = After(b, at + D)
       /\ Consume(delta).sawDelimiter = TRUE
       /\ Consume(delta).reason = Before(b, at)
  BY <1>3
<1>16. Before(b, at) \in Seq(Letters) BY <1>1, <1>10, Slices
<1>17. Places(text) # {} BY <1>7
<1> QED BY <1>8, <1>13, <1>14, <1>15, <1>16, <1>17 DEF text

\* A text that grows keeps its first delimiter.
LEMMA GrowsAfterDelimiter ==
  ASSUME NEW a \in Seq(Letters), NEW d \in Seq(Letters), Places(a) # {}
  PROVE  /\ Places(a \o d) # {}
         /\ IndexOf(a \o d) = IndexOf(a)
         /\ Before(a \o d, IndexOf(a)) = Before(a, IndexOf(a))
         /\ After(a \o d, IndexOf(a) + D) = After(a, IndexOf(a) + D) \o d
<1> DEFINE i == IndexOf(a)
           t == a \o d
<1>1. i \in Places(a) /\ \A j \in Places(a) : i <= j BY FirstPlace
<1>2. i \in Nat /\ i >= 1 /\ i + D - 1 <= Len(a) BY <1>1, PlaceMeans
<1>3. /\ t \in Seq(Letters) /\ Len(t) = Len(a) + Len(d)
      /\ \A k \in 1..Len(a) : t[k] = a[k]
      /\ \A k \in 1..Len(d) : t[Len(a) + k] = d[k]
      /\ Len(a) \in Nat /\ Len(d) \in Nat
  BY Joined
<1>4. i \in Places(t) BY <1>1, <1>2, PlacesKept
<1>5. IndexOf(t) = i
  <2>1. IndexOf(t) \in Places(t) /\ \A j \in Places(t) : IndexOf(t) <= j
    BY <1>3, <1>4, FirstPlace
  <2>2. IndexOf(t) \in Nat BY <2>1 DEF Places
  <2>3. IndexOf(t) <= i BY <1>4, <2>1
  <2>4. IndexOf(t) + D - 1 <= Len(a) BY <1>2, <1>3, <2>2, <2>3, DelimiterLength
  <2>5. IndexOf(t) \in Places(a) BY <2>1, <2>2, <2>4, PlacesKept
  <2>6. i <= IndexOf(t) BY <1>1, <2>5
  <2> HIDE DEF i, t
  <2> QED BY <1>2, <2>2, <2>3, <2>6
<1> HIDE DEF i, t
<1>6. /\ i \in 1..(Len(a) + 1) /\ i + D \in 1..(Len(a) + 1)
      /\ i \in 1..(Len(t) + 1) /\ i + D \in 1..(Len(t) + 1)
  BY <1>2, <1>3, DelimiterLength
<1>7. Before(t, i) = Before(a, i)
  <2>1. /\ Before(a, i) \in Seq(Letters) /\ Len(Before(a, i)) = i - 1
        /\ \A k \in 1..(i - 1) : Before(a, i)[k] = a[k]
    BY <1>6, Slices
  <2>2. /\ Before(t, i) \in Seq(Letters) /\ Len(Before(t, i)) = i - 1
        /\ \A k \in 1..(i - 1) : Before(t, i)[k] = t[k]
    BY <1>3, <1>6, Slices
  <2>3. \A k \in 1..(i - 1) : k \in 1..Len(a) BY <1>2, <1>3, DelimiterLength
  <2> QED BY <1>3, <2>1, <2>2, <2>3, SameText
<1>8. After(t, i + D) = After(a, i + D) \o d
  <2> DEFINE q == After(a, i + D)
             m == Len(a) - (i + D) + 1
  <2>1. /\ q \in Seq(Letters) /\ Len(q) = m
        /\ \A k \in 1..m : q[k] = a[(i + D) + k - 1]
    BY <1>6, Slices
  <2>2. /\ After(t, i + D) \in Seq(Letters)
        /\ Len(After(t, i + D)) = Len(t) - (i + D) + 1
        /\ \A k \in 1..(Len(t) - (i + D) + 1) : After(t, i + D)[k] = t[(i + D) + k - 1]
    BY <1>3, <1>6, Slices
  <2>3. m \in Nat /\ Len(t) - (i + D) + 1 = m + Len(d)
    BY <1>2, <1>3, DelimiterLength
  <2>4. \A k \in 1..m : (i + D) + k - 1 \in 1..Len(a)
    BY <1>2, <1>3, DelimiterLength
  <2>5. \A k \in Int : (i + D) + (m + k) - 1 = Len(a) + k
    BY <1>2, <1>3, DelimiterLength
  <2> HIDE DEF q
  <2>6. /\ q \o d \in Seq(Letters) /\ Len(q \o d) = Len(q) + Len(d)
        /\ \A k \in 1..Len(q) : (q \o d)[k] = q[k]
        /\ \A k \in 1..Len(d) : (q \o d)[Len(q) + k] = d[k]
    BY <2>1, Joined
  <2> HIDE DEF m
  <2>7. ASSUME NEW k \in 1..(m + Len(d)) PROVE After(t, i + D)[k] = (q \o d)[k]
    <3>1. After(t, i + D)[k] = t[(i + D) + k - 1] BY <2>2, <2>3
    <3>2. CASE k <= m
      <4>1. k \in 1..m BY <1>3, <2>3, <3>2
      <4>2. t[(i + D) + k - 1] = a[(i + D) + k - 1] BY <1>3, <2>4, <4>1
      <4> QED BY <2>1, <2>6, <3>1, <4>1, <4>2
    <3>3. CASE ~(k <= m)
      <4>1. k - m \in 1..Len(d) /\ m + (k - m) = k BY <1>3, <2>3, <3>3
      <4>2. (i + D) + k - 1 = Len(a) + (k - m) BY <2>5, <4>1
      <4>3. t[Len(a) + (k - m)] = d[k - m] BY <1>3, <4>1
      <4>4. (q \o d)[m + (k - m)] = d[k - m] BY <2>1, <2>6, <4>1
      <4> QED BY <3>1, <4>1, <4>2, <4>3, <4>4
    <3> QED BY <3>2, <3>3
  <2>8. Len(q \o d) = Len(After(t, i + D)) BY <2>1, <2>2, <2>3, <2>6
  <2>9. Len(After(t, i + D)) = m + Len(d) BY <2>2, <2>3
  <2>10. After(t, i + D) = q \o d BY <2>2, <2>6, <2>7, <2>8, <2>9, SameText
  <2> QED BY <2>10 DEF q
<1>9. Places(t) # {} BY <1>4
<1> QED BY <1>5, <1>7, <1>8, <1>9 DEF i, t

----------------------------------------------------------------------------
(* The invariant. *)

\* Where the request is, and what that says of its other variables.
Progress ==
  /\ pc = "searching" => provider = 0 /\ shown = <<>>
  /\ pc = "asking" => provider \in Providers /\ (yieldedAny <=> shown # <<>>)
  /\ pc # "closed" => outcome = "none" /\ late = 0
  /\ mode = "json" => shown = <<>>

\* Reading is needed while an answer arrives; what it implies of the end
\* stays true of the request that is over.
IInv ==
  /\ TypeOK
  /\ Progress
  /\ TimerOfProviderInUse
  /\ FailureHasReason
  /\ QuietAfterLeaving
  /\ pc = "asking" => Reading
  /\ ShownIsExplanation
  /\ AnswerIsWhole

\* Nothing was said yet.
LEMMA NothingSaid == <<>> \in Seq(Letters) /\ Places(<<>>) = {}
<1>1. <<>> \in Seq(Letters) OBVIOUS
<1>2. ASSUME NEW p \in Places(<<>>) PROVE FALSE
  <2>1. p \in Nat /\ p >= 1 /\ p + D - 1 <= Len(<<>>) BY <1>1, <1>2, PlaceMeans
  <2> QED BY <2>1, DelimiterLength
<1> QED BY <1>1, <1>2

\* What is shown while a provider answers is the beginning of its explanation.
LEMMA ShownWhileReading ==
  ASSUME NEW text \in Seq(Letters), NEW kept \in Seq(Letters),
         NEW found \in BOOLEAN, NEW seen \in Seq(Letters),
         ReadingOf(text, kept, found, seen)
  PROVE  /\ Len(seen) <= Len(Explanation(text))
         /\ seen = SubSeq(Explanation(text), 1, Len(seen))
<1>1. CASE found
  <2>1. Explanation(text) = seen BY <1>1 DEF ReadingOf, Explanation
  <2>2. Len(seen) <= Len(seen) /\ seen = SubSeq(seen, 1, Len(seen)) OBVIOUS
  <2> QED BY <2>1, <2>2
<1>2. CASE ~found
  <2>1. Explanation(text) = seen \o kept BY <1>2 DEF ReadingOf, Explanation
  <2>2. Len(seen \o kept) = Len(seen) + Len(kept) BY Joined
  <2>3. seen = SubSeq(seen \o kept, 1, Len(seen)) OBVIOUS
  <2> QED BY <2>1, <2>2, <2>3
<1> QED BY <1>1, <1>2

LEMMA InitIInv == Init => IInv
<1> SUFFICES ASSUME Init PROVE IInv OBVIOUS
<1>1. TypeOK
  <2>1. provider \in 0..NumProviders BY ProvidersAssumption DEF Init
  <2>2. sawDelimiter \in BOOLEAN /\ yieldedAny \in BOOLEAN BY DEF Init
  <2>3. said \in Seq(Letters) /\ buffer \in Seq(Letters) /\ shown \in Seq(Letters)
    BY NothingSaid DEF Init
  <2>4. /\ mode \in {"stream", "json"} /\ client \in {"here", "left"}
        /\ pc \in {"searching", "asking", "closed"} /\ outcome \in Outcome
        /\ timers \subseteq Providers
        /\ allowed \subseteq Codes /\ courses \subseteq Codes /\ late \in Nat
    BY DEF Init, Outcome
  <2> QED BY <2>1, <2>2, <2>3, <2>4 DEF TypeOK
<1>2. Progress BY DEF Init, Progress
<1>3. TimerOfProviderInUse BY DEF Init, TimerOfProviderInUse
<1>4. FailureHasReason /\ QuietAfterLeaving
  BY DEF Init, FailureHasReason, QuietAfterLeaving
<1>5. pc # "asking" /\ shown = <<>> /\ outcome = "none" BY DEF Init
<1>6. ShownIsExplanation BY <1>5 DEF ShownIsExplanation
<1>7. AnswerIsWhole BY <1>5 DEF AnswerIsWhole
<1> QED BY <1>1, <1>2, <1>3, <1>4, <1>5, <1>6, <1>7 DEF IInv

\* A step that ends the request and shows nothing.
LEMMA EndKeeps ==
  ASSUME IInv, pc # "closed", NEW how \in {"exhausted", "broken", "failed", "left"},
         End(how), Write(1), UNCHANGED <<mode, client, answer, shown, courses>>,
         allowed' \subseteq Codes,
         how = "broken" => shown # <<>>,
         how = "exhausted" => provider = NumProviders /\ shown = <<>>
  PROVE  IInv'
<1>1. /\ pc' = "closed" /\ outcome' = how /\ timers' = timers \ {provider}
      /\ provider' = provider
  BY DEF End, Disarm
<1>2. /\ mode' = mode /\ client' = client /\ shown' = shown /\ courses' = courses
      /\ said' = said /\ buffer' = buffer /\ sawDelimiter' = sawDelimiter
      /\ yieldedAny' = yieldedAny
  BY DEF answer
<1>3. late' \in {0, 1}
  <2>1. late = 0 BY DEF IInv, Progress
  <2> QED BY <2>1 DEF Write
<1>4. timers' = {}
  <2>1. CASE pc = "asking" BY <1>1, <2>1 DEF IInv, TimerOfProviderInUse
  <2>2. CASE pc # "asking" BY <1>1, <2>2 DEF IInv, TimerOfProviderInUse
  <2> QED BY <2>1, <2>2
<1>5. TypeOK'
  <2>1. TypeOK BY DEF IInv
  <2>2. sawDelimiter' \in BOOLEAN /\ yieldedAny' \in BOOLEAN BY <1>2, <2>1 DEF TypeOK
  <2>3. /\ mode' \in {"stream", "json"} /\ client' \in {"here", "left"}
        /\ provider' \in 0..NumProviders /\ courses' \subseteq Codes
        /\ said' \in Seq(Letters) /\ buffer' \in Seq(Letters) /\ shown' \in Seq(Letters)
    BY <1>1, <1>2, <2>1 DEF TypeOK
  <2>4. outcome' \in Outcome /\ late' \in Nat /\ timers' \subseteq Providers
    BY <1>1, <1>3, <1>4 DEF Outcome
  <2> QED BY <1>1, <2>2, <2>3, <2>4 DEF TypeOK
<1>6. Progress' BY <1>1, <1>2 DEF Progress, IInv
<1>7. TimerOfProviderInUse' BY <1>1, <1>4 DEF TimerOfProviderInUse
<1>8. FailureHasReason' BY <1>1, <1>2 DEF FailureHasReason
<1>9. QuietAfterLeaving' BY <1>3 DEF QuietAfterLeaving
<1>10. ShownIsExplanation' BY <1>2 DEF ShownIsExplanation, IInv, Explanation
<1>11. AnswerIsWhole' BY <1>1 DEF AnswerIsWhole
<1> QED BY <1>1, <1>5, <1>6, <1>7, <1>8, <1>9, <1>10, <1>11 DEF IInv

\* A step to the next provider, or past the last.
LEMMA TryProviderKeeps ==
  ASSUME IInv, pc # "closed", shown = <<>>, TryProvider(provider + 1),
         UNCHANGED <<mode, client, shown, courses>>, allowed' \subseteq Codes
  PROVE  IInv'
<1>1. TypeOK /\ Progress /\ TimerOfProviderInUse BY DEF IInv
<1>2. provider \in 0..NumProviders BY <1>1 DEF TypeOK
<1>3. CASE ~Configured(provider + 1)
  <2>1. End("exhausted") /\ Write(1) /\ UNCHANGED answer BY <1>3 DEF TryProvider
  <2>2. provider = NumProviders BY <1>2, <1>3, ProvidersAssumption DEF Configured
  <2> QED BY <2>1, <2>2, EndKeeps
<1>4. CASE Configured(provider + 1)
  <2>1. /\ pc' = "asking" /\ provider' = provider + 1
        /\ timers' = (timers \ {provider}) \cup {provider + 1}
        /\ said' = <<>> /\ buffer' = <<>> /\ sawDelimiter' = FALSE /\ yieldedAny' = FALSE
        /\ outcome' = outcome /\ late' = late
        /\ mode' = mode /\ client' = client /\ shown' = shown /\ courses' = courses
    BY <1>4 DEF TryProvider, Arm
  <2>2. provider' \in Providers
    BY <1>2, <1>4, <2>1, ProvidersAssumption DEF Configured, Providers
  <2>3. timers' = {provider'}
    <3>1. timers \subseteq {provider} BY <1>1 DEF TimerOfProviderInUse
    <3> QED BY <2>1, <3>1
  <2>4. outcome' = "none" /\ late' = 0 BY <1>1, <2>1 DEF Progress
  <2>5. TypeOK'
    <3>1. sawDelimiter' \in BOOLEAN /\ yieldedAny' \in BOOLEAN BY <2>1
    <3>2. said' \in Seq(Letters) /\ buffer' \in Seq(Letters) /\ shown' \in Seq(Letters)
      BY <2>1, NothingSaid
    <3>3. /\ mode' \in {"stream", "json"} /\ client' \in {"here", "left"}
          /\ courses' \subseteq Codes
      BY <1>1, <2>1 DEF TypeOK
    <3>4. provider' \in 0..NumProviders BY <2>2, ProvidersAssumption DEF Providers
    <3>5. timers' \subseteq Providers BY <2>2, <2>3
    <3>6. outcome' \in Outcome /\ late' \in Nat BY <2>4 DEF Outcome
    <3> QED BY <2>1, <3>1, <3>2, <3>3, <3>4, <3>5, <3>6 DEF TypeOK
  <2>6. Progress' BY <2>1, <2>2, <2>4 DEF Progress
  <2>7. TimerOfProviderInUse' BY <2>1, <2>3 DEF TimerOfProviderInUse
  <2>8. FailureHasReason' /\ QuietAfterLeaving' /\ AnswerIsWhole' /\ ShownIsExplanation'
    BY <2>1, <2>4
    DEF FailureHasReason, QuietAfterLeaving, AnswerIsWhole, ShownIsExplanation
  <2>9. Reading'
    <3>1. <<>> = <<>> \o <<>> OBVIOUS
    <3> QED BY <2>1, <3>1, NothingSaid DEF Reading, ReadingOf
  <2> QED BY <2>5, <2>6, <2>7, <2>8, <2>9 DEF IInv
<1> QED BY <1>3, <1>4

LEMMA RetrieveStep ==
  ASSUME IInv, NEW codes \in SUBSET Codes, Retrieve(codes)
  PROVE  IInv'
<1>1. /\ pc = "searching" /\ allowed' = codes
      /\ UNCHANGED <<mode, client, shown, courses>>
  BY DEF Retrieve
<1>2. CASE ReturnQueued
  <2>1. End("left") /\ Write(1) /\ UNCHANGED answer BY <1>2 DEF Retrieve
  <2> QED BY <1>1, <2>1, EndKeeps
<1>3. CASE ~ReturnQueued
  <2>1. provider = 0 /\ shown = <<>> BY <1>1 DEF IInv, Progress
  <2>2. TryProvider(provider + 1) BY <1>3, <2>1 DEF Retrieve
  <2> QED BY <1>1, <2>1, <2>2, TryProviderKeeps
<1> QED BY <1>2, <1>3

LEMMA RetrieveFailsStep == IInv /\ RetrieveFails => IInv'
<1> SUFFICES ASSUME IInv, RetrieveFails PROVE IInv' OBVIOUS
<1>1. /\ pc = "searching" /\ End("failed") /\ Write(1)
      /\ UNCHANGED <<mode, client, answer, shown, courses>> /\ allowed' = allowed
  BY DEF RetrieveFails
<1>2. allowed \subseteq Codes BY DEF IInv, TypeOK
<1> QED BY <1>1, <1>2, EndKeeps

LEMMA OnProviderErrorStep ==
  ASSUME IInv, pc = "asking", OnProviderError,
         UNCHANGED <<mode, client, allowed, shown, courses>>
  PROVE  IInv'
<1>1. allowed' \subseteq Codes BY DEF IInv, TypeOK
<1>2. yieldedAny <=> shown # <<>> BY DEF IInv, Progress
<1>3. CASE yieldedAny
  <2>1. End("broken") /\ Write(1) /\ UNCHANGED answer
    BY <1>3 DEF OnProviderError, MayFallBack
  <2> QED BY <1>1, <1>2, <1>3, <2>1, EndKeeps
<1>4. CASE ~yieldedAny
  <2>1. TryProvider(provider + 1) BY <1>4 DEF OnProviderError, MayFallBack
  <2> QED BY <1>1, <1>2, <1>4, <2>1, TryProviderKeeps
<1> QED BY <1>3, <1>4

\* What is known after a delta, whether or not it ends the request.
LEMMA DeltaReads ==
  ASSUME IInv, NEW delta \in Deltas, Delta(delta)
  PROVE  /\ said' \in Seq(Letters) /\ buffer' \in Seq(Letters)
         /\ shown' \in Seq(Letters) /\ sawDelimiter' \in BOOLEAN
         /\ Reading'
         /\ shown' = shown \o Consume(delta).reason
         /\ Consume(delta).reason \in Seq(Letters)
<1>1. Texts /\ sawDelimiter \in BOOLEAN BY DEF IInv, TypeOK, Texts
<1>2. pc = "asking" BY DEF Delta, Streaming
<1>3. Reading BY <1>2 DEF IInv
<1>4. delta \in Seq(Letters) BY DeltasAssumption
<1>5. /\ said' = said \o delta
      /\ buffer' = Consume(delta).buffer
      /\ sawDelimiter' = Consume(delta).sawDelimiter
  BY DEF Delta, Receive
<1>6. said' \in Seq(Letters) BY <1>1, <1>4, <1>5 DEF Texts
<1>7. ASSUME Consume(delta).reason \in Seq(Letters)
      PROVE  shown' = shown \o Consume(delta).reason /\ shown' \in Seq(Letters)
  <2>1. CASE Consume(delta).reason = <<>>
    <3>1. shown' = shown BY <2>1 DEF Delta
    <3>2. shown \o <<>> = shown BY <1>1 DEF Texts
    <3> QED BY <1>1, <2>1, <3>1, <3>2 DEF Texts
  <2>2. CASE Consume(delta).reason # <<>>
    <3>1. shown' = shown \o Consume(delta).reason BY <2>2 DEF Delta
    <3> QED BY <1>1, <1>7, <3>1 DEF Texts
  <2> QED BY <2>1, <2>2
<1>8. CASE sawDelimiter
  <2>1. Consume(delta) = [buffer |-> buffer \o delta, sawDelimiter |-> TRUE,
                          reason |-> <<>>]
    BY <1>8 DEF Consume
  <2>2. /\ Consume(delta).buffer = buffer \o delta
        /\ Consume(delta).sawDelimiter = TRUE /\ Consume(delta).reason = <<>>
    BY <2>1
  <2>3. shown' = shown \o Consume(delta).reason /\ shown' \in Seq(Letters)
    BY <1>7, <2>2, NothingSaid
  <2>4. shown \o <<>> = shown BY <1>1 DEF Texts
  <2>5. /\ Places(said) # {} /\ shown = Before(said, IndexOf(said))
        /\ buffer = After(said, IndexOf(said) + D)
    BY <1>3, <1>8 DEF Reading, ReadingOf
  <2>6. /\ Places(said \o delta) # {}
        /\ IndexOf(said \o delta) = IndexOf(said)
        /\ Before(said \o delta, IndexOf(said)) = Before(said, IndexOf(said))
        /\ After(said \o delta, IndexOf(said) + D) = After(said, IndexOf(said) + D) \o delta
    BY <1>1, <1>4, <2>5, GrowsAfterDelimiter DEF Texts
  <2>7. Reading'
    BY <1>5, <2>2, <2>3, <2>4, <2>5, <2>6 DEF Reading, ReadingOf
  <2>8. buffer' \in Seq(Letters) BY <1>1, <1>4, <1>5, <2>2 DEF Texts
  <2>9. sawDelimiter' \in BOOLEAN BY <1>5, <2>2
  <2> QED BY <1>6, <2>2, <2>3, <2>7, <2>8, <2>9, NothingSaid
<1>9. CASE ~sawDelimiter /\ Places(Combined(delta)) = {}
  <2>1. /\ Consume(delta).sawDelimiter = FALSE
        /\ Consume(delta).buffer \in Seq(Letters)
        /\ Consume(delta).reason \in Seq(Letters)
        /\ said \o delta = (shown \o Consume(delta).reason) \o Consume(delta).buffer
        /\ Places(said \o delta) = {}
        /\ shown \o Consume(delta).reason # <<>> => Len(Consume(delta).buffer) = D
    BY <1>1, <1>3, <1>4, <1>9, ConsumeNoDelimiter
  <2>2. shown' = shown \o Consume(delta).reason /\ shown' \in Seq(Letters)
    BY <1>7, <2>1
  <2>3. Reading' BY <1>5, <2>1, <2>2 DEF Reading, ReadingOf
  <2>4. sawDelimiter' \in BOOLEAN BY <1>5, <2>1
  <2> QED BY <1>5, <1>6, <2>1, <2>2, <2>3, <2>4
<1>10. CASE ~sawDelimiter /\ Places(Combined(delta)) # {}
  <2>1. /\ Consume(delta).sawDelimiter = TRUE
        /\ Consume(delta).buffer \in Seq(Letters)
        /\ Consume(delta).reason \in Seq(Letters)
        /\ Places(said \o delta) # {}
        /\ shown \o Consume(delta).reason = Before(said \o delta, IndexOf(said \o delta))
        /\ Consume(delta).buffer = After(said \o delta, IndexOf(said \o delta) + D)
    BY <1>1, <1>3, <1>4, <1>10, ConsumeDelimiter
  <2>2. shown' = shown \o Consume(delta).reason /\ shown' \in Seq(Letters)
    BY <1>7, <2>1
  <2>3. Reading' BY <1>5, <2>1, <2>2 DEF Reading, ReadingOf
  <2>4. sawDelimiter' \in BOOLEAN BY <1>5, <2>1
  <2> QED BY <1>5, <1>6, <2>1, <2>2, <2>3, <2>4
<1> QED BY <1>8, <1>9, <1>10

LEMMA DeltaStep ==
  ASSUME IInv, NEW delta \in Deltas, Delta(delta)
  PROVE  IInv'
<1> DEFINE reason == Consume(delta).reason
<1>1. TypeOK /\ Progress /\ TimerOfProviderInUse BY DEF IInv
<1>2. /\ mode = "stream" /\ pc = "asking"
      /\ mode' = mode /\ client' = client /\ allowed' = allowed /\ courses' = courses
  BY DEF Delta, Streaming
<1>3. /\ said' \in Seq(Letters) /\ buffer' \in Seq(Letters)
      /\ shown' \in Seq(Letters) /\ sawDelimiter' \in BOOLEAN
      /\ Reading' /\ shown' = shown \o reason /\ reason \in Seq(Letters)
  BY DeltaReads
<1>4. /\ provider \in Providers /\ (yieldedAny <=> shown # <<>>)
      /\ outcome = "none" /\ late = 0 /\ timers = {provider}
      /\ yieldedAny \in BOOLEAN /\ shown \in Seq(Letters)
  BY <1>1, <1>2 DEF TypeOK, Progress, TimerOfProviderInUse
<1>5. ShownIsExplanation'
  <2>1. /\ Len(shown') <= Len(Explanation(said'))
        /\ shown' = SubSeq(Explanation(said'), 1, Len(shown'))
    <3>1. ReadingOf(said', buffer', sawDelimiter', shown') BY <1>3 DEF Reading
    <3>2. /\ said' \in Seq(Letters) /\ buffer' \in Seq(Letters)
          /\ sawDelimiter' \in BOOLEAN /\ shown' \in Seq(Letters)
      BY <1>3
    <3> HIDE DEF ReadingOf
    <3> QED BY <3>1, <3>2, ShownWhileReading
  <2> QED BY <2>1 DEF ShownIsExplanation, Explanation
<1>6. /\ provider' = provider /\ late' \in {0, 1}
      /\ \/ /\ pc' = "asking" /\ outcome' = "none" /\ timers' = {provider} /\ late' = 0
         \/ pc' = "closed" /\ outcome' = "left" /\ timers' = {}
  <2>1. CASE reason = <<>> BY <1>2, <1>4, <2>1 DEF Delta
  <2>2. CASE reason # <<>> /\ ReturnQueued
    <3>1. End("left") /\ Write(1) BY <2>2 DEF Delta
    <3> QED BY <1>4, <3>1 DEF End, Disarm, Write
  <2>3. CASE reason # <<>> /\ ~ReturnQueued
    <3>1. Write(1) /\ UNCHANGED <<pc, outcome, timers, provider>> BY <2>3 DEF Delta
    <3>2. late' = late BY <2>3, <3>1 DEF Write, ReturnQueued
    <3> QED BY <1>2, <1>4, <3>1, <3>2
  <2> QED BY <2>1, <2>2, <2>3
<1>7. yieldedAny' \in BOOLEAN /\ (yieldedAny' <=> shown' # <<>>)
  <2>1. CASE reason = <<>>
    <3>1. yieldedAny' = yieldedAny /\ shown' = shown BY <2>1 DEF Delta
    <3> QED BY <1>4, <3>1
  <2>2. CASE reason # <<>>
    <3>1. yieldedAny' = TRUE BY <2>2 DEF Delta
    <3>2. shown \o reason # <<>>
      <4> HIDE DEF reason
      <4>1. Len(reason) > 0 BY <1>3, <2>2
      <4>2. Len(shown \o reason) = Len(shown) + Len(reason) BY <1>3, <1>4, Joined
      <4>3. Len(shown \o reason) > 0 BY <1>3, <1>4, <4>1, <4>2
      <4> QED BY <4>3
    <3> QED BY <1>3, <3>1, <3>2
  <2> QED BY <2>1, <2>2
<1> HIDE DEF reason
<1>8. TypeOK'
  <2>1. /\ mode' \in {"stream", "json"} /\ client' \in {"here", "left"}
        /\ provider' \in 0..NumProviders /\ allowed' \subseteq Codes
        /\ courses' \subseteq Codes
    BY <1>1, <1>2, <1>6 DEF TypeOK
  <2>2. /\ pc' \in {"searching", "asking", "closed"} /\ outcome' \in Outcome
        /\ timers' \subseteq Providers /\ late' \in Nat
    BY <1>4, <1>6 DEF Outcome
  <2> QED BY <1>3, <1>7, <2>1, <2>2 DEF TypeOK
<1>9. Progress' BY <1>2, <1>4, <1>6, <1>7 DEF Progress
<1>10. TimerOfProviderInUse' BY <1>6 DEF TimerOfProviderInUse
<1>11. FailureHasReason' /\ QuietAfterLeaving' /\ AnswerIsWhole'
  BY <1>6 DEF FailureHasReason, QuietAfterLeaving, AnswerIsWhole
<1> QED BY <1>3, <1>5, <1>8, <1>9, <1>10, <1>11 DEF IInv

\* The courses that are read from a list without a null are course codes.
LEMMA ParsedAreCodes ==
  ASSUME NEW text \in Seq(Letters), Null \notin ParseCourses(text)
  PROVE  ParseCourses(text) \subseteq Codes
  BY DEF ParseCourses

LEMMA EndOfStreamStep == IInv /\ EndOfStream => IInv'
<1> SUFFICES ASSUME IInv, EndOfStream PROVE IInv' OBVIOUS
<1> DEFINE rest == IF sawDelimiter THEN <<>> ELSE buffer
           list == IF sawDelimiter THEN ParseCourses(buffer) ELSE {}
<1>1. TypeOK /\ Progress /\ TimerOfProviderInUse BY DEF IInv
<1>2. /\ mode = "stream" /\ pc = "asking"
      /\ mode' = mode /\ client' = client /\ allowed' = allowed
  BY DEF EndOfStream, Streaming
<1>3. Reading BY <1>2 DEF IInv
<1>4. CASE Null \in list
  <2>1. OnProviderError /\ UNCHANGED <<shown, courses>> BY <1>4 DEF EndOfStream
  <2> QED BY <1>2, <2>1, OnProviderErrorStep
<1>5. CASE Null \notin list
  <2>1. /\ shown' = shown \o rest
        /\ yieldedAny' = (yieldedAny \/ rest # <<>>)
        /\ Write(1)
        /\ IF ReturnQueued /\ rest # <<>>
           THEN End("left") /\ UNCHANGED courses
           ELSE End("answered") /\ courses' = SanitizeCourses(list)
        /\ said' = said /\ buffer' = buffer /\ sawDelimiter' = sawDelimiter
    BY <1>5 DEF EndOfStream
  <2>2. /\ provider \in Providers /\ (yieldedAny <=> shown # <<>>)
        /\ late = 0 /\ timers = {provider}
        /\ said \in Seq(Letters) /\ buffer \in Seq(Letters) /\ shown \in Seq(Letters)
        /\ courses \subseteq Codes /\ allowed \subseteq Codes
    BY <1>1, <1>2 DEF TypeOK, Progress, TimerOfProviderInUse
  <2>3. shown' = Explanation(said)
    <3>1. CASE sawDelimiter
      <4>1. shown \o <<>> = shown BY <2>2
      <4>2. shown = Before(said, IndexOf(said)) /\ Places(said) # {}
        BY <1>3, <3>1 DEF Reading, ReadingOf
      <4> QED BY <2>1, <3>1, <4>1, <4>2 DEF Explanation
    <3>2. CASE ~sawDelimiter
      <4>1. said = shown \o buffer /\ Places(said) = {}
        BY <1>3, <3>2 DEF Reading, ReadingOf
      <4> QED BY <2>1, <3>2, <4>1 DEF Explanation
    <3> QED BY <3>1, <3>2
  <2>4. shown' \in Seq(Letters) BY <2>1, <2>2, NothingSaid
  <2>5. list = IF Places(said) = {} THEN {}
               ELSE ParseCourses(After(said, IndexOf(said) + D))
    BY <1>3 DEF Reading, ReadingOf
  <2>6. list \subseteq Codes BY <1>5, <2>2, ParsedAreCodes
  <2> HIDE DEF rest, list
  <2>7. /\ pc' = "closed" /\ outcome' \in {"left", "answered"}
        /\ timers' = {} /\ provider' = provider /\ late' \in {0, 1}
        /\ courses' \subseteq Codes
        /\ outcome' = "answered" => courses' = list \cap allowed
    <3>1. CASE ReturnQueued /\ rest # <<>>
      <4>1. End("left") /\ courses' = courses BY <2>1, <3>1
      <4> QED BY <2>1, <2>2, <4>1 DEF End, Disarm, Write
    <3>2. CASE ~(ReturnQueued /\ rest # <<>>)
      <4>1. End("answered") /\ courses' = SanitizeCourses(list) BY <2>1, <3>2
      <4> QED BY <2>1, <2>2, <2>6, <4>1 DEF End, Disarm, Write, SanitizeCourses
    <3> QED BY <3>1, <3>2
  <2>8. TypeOK'
    <3>1. yieldedAny' \in BOOLEAN /\ sawDelimiter' \in BOOLEAN
      BY <1>1, <2>1 DEF TypeOK
    <3>2. /\ mode' \in {"stream", "json"} /\ client' \in {"here", "left"}
          /\ provider' \in 0..NumProviders /\ allowed' \subseteq Codes
      BY <1>1, <1>2, <2>7 DEF TypeOK
    <3>3. outcome' \in Outcome /\ timers' \subseteq Providers /\ late' \in Nat
      BY <2>7 DEF Outcome
    <3> QED BY <2>1, <2>2, <2>4, <2>7, <3>1, <3>2, <3>3 DEF TypeOK
  <2>9. Progress' BY <1>2, <2>7 DEF Progress
  <2>10. TimerOfProviderInUse' BY <2>7 DEF TimerOfProviderInUse
  <2>11. FailureHasReason' /\ QuietAfterLeaving'
    BY <2>7 DEF FailureHasReason, QuietAfterLeaving
  <2>12. ShownIsExplanation'
    <3>1. Len(shown') <= Len(shown') /\ shown' = SubSeq(shown', 1, Len(shown'))
      BY <2>4
    <3>2. Explanation(said)' = shown' BY <2>1, <2>3 DEF Explanation
    <3> QED BY <3>1, <3>2 DEF ShownIsExplanation
  <2>13. AnswerIsWhole'
    BY <1>2, <2>1, <2>3, <2>5, <2>7 DEF AnswerIsWhole, Explanation, D
  <2> QED BY <2>7, <2>8, <2>9, <2>10, <2>11, <2>12, <2>13 DEF IInv
<1> QED BY <1>4, <1>5

LEMMA CompleteStep ==
  ASSUME IInv, NEW items \in SUBSET Codes, Complete(items)
  PROVE  IInv'
<1>1. TypeOK /\ Progress /\ TimerOfProviderInUse BY DEF IInv
<1>2. /\ mode = "json" /\ pc = "asking" /\ pc' = "closed" /\ outcome' = "answered"
      /\ timers' = timers \ {provider} /\ provider' = provider
      /\ courses' = items \cap allowed /\ late' = late
      /\ mode' = mode /\ client' = client /\ allowed' = allowed /\ shown' = shown
      /\ said' = said /\ buffer' = buffer /\ sawDelimiter' = sawDelimiter
      /\ yieldedAny' = yieldedAny
  BY DEF Complete, End, Disarm, SanitizeCourses, answer
<1>3. shown = <<>> /\ late = 0 /\ timers' = {}
  BY <1>1, <1>2 DEF Progress, TimerOfProviderInUse
<1>4. TypeOK'
  <2>1. sawDelimiter' \in BOOLEAN /\ yieldedAny' \in BOOLEAN BY <1>1, <1>2 DEF TypeOK
  <2>2. outcome' \in Outcome /\ timers' \subseteq Providers /\ late' \in Nat
    BY <1>2, <1>3 DEF Outcome
  <2>3. courses' \subseteq Codes BY <1>2
  <2>4. /\ mode' \in {"stream", "json"} /\ client' \in {"here", "left"}
        /\ provider' \in 0..NumProviders /\ allowed' \subseteq Codes
        /\ said' \in Seq(Letters) /\ buffer' \in Seq(Letters) /\ shown' \in Seq(Letters)
    BY <1>1, <1>2 DEF TypeOK
  <2> QED BY <1>2, <2>1, <2>2, <2>3, <2>4 DEF TypeOK
<1>5. Progress' /\ TimerOfProviderInUse'
  BY <1>2, <1>3 DEF Progress, TimerOfProviderInUse
<1>6. FailureHasReason' /\ QuietAfterLeaving' /\ ShownIsExplanation' /\ AnswerIsWhole'
  BY <1>2, <1>3
  DEF FailureHasReason, QuietAfterLeaving, ShownIsExplanation, AnswerIsWhole
<1> QED BY <1>2, <1>4, <1>5, <1>6 DEF IInv

\* Nothing of the invariant speaks of the client.
LEMMA ClientLeavesStep == IInv /\ ClientLeaves => IInv'
<1> SUFFICES ASSUME IInv, ClientLeaves PROVE IInv' OBVIOUS
<1>1. /\ client' = "left" /\ mode' = mode /\ pc' = pc /\ provider' = provider
      /\ timers' = timers /\ allowed' = allowed /\ shown' = shown
      /\ courses' = courses /\ outcome' = outcome /\ late' = late
      /\ said' = said /\ buffer' = buffer /\ sawDelimiter' = sawDelimiter
      /\ yieldedAny' = yieldedAny
  BY DEF ClientLeaves, answer
<1>2. TypeOK'
  <2>1. TypeOK BY DEF IInv
  <2>2. sawDelimiter' \in BOOLEAN /\ yieldedAny' \in BOOLEAN BY <1>1, <2>1 DEF TypeOK
  <2> QED BY <1>1, <2>1, <2>2 DEF TypeOK
<1>3. Progress' /\ TimerOfProviderInUse'
  BY <1>1 DEF IInv, Progress, TimerOfProviderInUse
<1>4. FailureHasReason' /\ QuietAfterLeaving'
  BY <1>1 DEF IInv, FailureHasReason, QuietAfterLeaving
<1>5. ShownIsExplanation' BY <1>1 DEF IInv, ShownIsExplanation, Explanation
<1>6. AnswerIsWhole' BY <1>1 DEF IInv, AnswerIsWhole, Explanation
<1>7. pc' = "asking" => Reading' BY <1>1 DEF IInv, Reading
<1> QED BY <1>2, <1>3, <1>4, <1>5, <1>6, <1>7 DEF IInv

LEMMA StepIInv == IInv /\ [Next]_vars => IInv'
<1> SUFFICES ASSUME IInv, [Next]_vars PROVE IInv' OBVIOUS
<1>1. CASE UNCHANGED vars
  <2>1. /\ client' = client /\ mode' = mode /\ pc' = pc /\ provider' = provider
        /\ timers' = timers /\ allowed' = allowed /\ shown' = shown
        /\ courses' = courses /\ outcome' = outcome /\ late' = late
        /\ said' = said /\ buffer' = buffer /\ sawDelimiter' = sawDelimiter
        /\ yieldedAny' = yieldedAny
    BY <1>1 DEF vars, answer
  <2>2. TypeOK'
    <3>1. TypeOK BY DEF IInv
    <3>2. sawDelimiter' \in BOOLEAN /\ yieldedAny' \in BOOLEAN BY <2>1, <3>1 DEF TypeOK
    <3> QED BY <2>1, <3>1, <3>2 DEF TypeOK
  <2>3. Progress' /\ TimerOfProviderInUse'
    BY <2>1 DEF IInv, Progress, TimerOfProviderInUse
  <2>4. FailureHasReason' /\ QuietAfterLeaving'
    BY <2>1 DEF IInv, FailureHasReason, QuietAfterLeaving
  <2>5. ShownIsExplanation' BY <2>1 DEF IInv, ShownIsExplanation, Explanation
  <2>6. AnswerIsWhole' BY <2>1 DEF IInv, AnswerIsWhole, Explanation
  <2>7. pc' = "asking" => Reading' BY <2>1 DEF IInv, Reading
  <2> QED BY <2>2, <2>3, <2>4, <2>5, <2>6, <2>7 DEF IInv
<1>2. ASSUME NEW codes \in SUBSET Codes, Retrieve(codes) PROVE IInv'
  BY <1>2, RetrieveStep
<1>3. ASSUME NEW codes \in SUBSET Codes, Complete(codes) PROVE IInv'
  BY <1>3, CompleteStep
<1>4. ASSUME NEW delta \in Deltas, Delta(delta) PROVE IInv'
  BY <1>4, DeltaStep
<1>5. CASE RetrieveFails BY <1>5, RetrieveFailsStep
<1>6. ASSUME ProviderFails PROVE IInv'
  <2>1. /\ pc = "asking" /\ OnProviderError
        /\ UNCHANGED <<mode, client, allowed, shown, courses>>
    BY <1>6 DEF ProviderFails
  <2> QED BY <2>1, OnProviderErrorStep
<1>7. CASE TimerFires BY <1>6, <1>7 DEF TimerFires
<1>8. CASE EndOfStream BY <1>8, EndOfStreamStep
<1>9. CASE ClientLeaves BY <1>9, ClientLeavesStep
<1> QED BY <1>1, <1>2, <1>3, <1>4, <1>5, <1>6, <1>7, <1>8, <1>9 DEF Next

LEMMA SpecIInv == Spec => []IInv
  BY InitIInv, StepIInv, PTL DEF Spec

----------------------------------------------------------------------------
(* The theorems. *)

\* Every variable of the request keeps its type.
THEOREM TypeCorrect == Spec => []TypeOK
<1>1. IInv => TypeOK BY DEF IInv
<1> QED BY <1>1, SpecIInv, PTL

\* However an answer is cut into deltas, what the client has been shown is the
\* beginning of the explanation of the provider in use: consumeStreamChunk()
\* never lets a piece of the delimiter through, and recommendStream() never
\* mixes two answers.
THEOREM ShowsExplanation == Spec => []ShownIsExplanation
<1>1. IInv => ShownIsExplanation BY DEF IInv
<1> QED BY <1>1, SpecIInv, PTL

\* A request answered with courses has shown the whole explanation, and gives
\* the courses listed after the delimiter that the search had found.
THEOREM WholeAnswer == Spec => []AnswerIsWhole
<1>1. IInv => AnswerIsWhole BY DEF IInv
<1> QED BY <1>1, SpecIInv, PTL

\* A request fails as exhausted only after its last provider and with nothing
\* shown, and as broken only after it showed something.
THEOREM FailsForAReason == Spec => []FailureHasReason
<1>1. IInv => FailureHasReason BY DEF IInv
<1> QED BY <1>1, SpecIInv, PTL

\* Exactly the provider in use has a timer: none is left behind on any of the
\* ways out of the loop.
THEOREM OneTimer == Spec => []TimerOfProviderInUse
<1>1. IInv => TimerOfProviderInUse BY DEF IInv
<1> QED BY <1>1, SpecIInv, PTL

\* A client that left is written at most one more event.
THEOREM Quiet == Spec => []QuietAfterLeaving
<1>1. IInv => QuietAfterLeaving BY DEF IInv
<1> QED BY <1>1, SpecIInv, PTL

\* Once text was shown the request never moves to another provider.
THEOREM NoFallback == Spec => NoFallbackMidResponse
<1>1. IInv /\ [Next]_vars => (shown # <<>> => provider' = provider)
  <2> SUFFICES ASSUME IInv, [Next]_vars, shown # <<>> PROVE provider' = provider
    OBVIOUS
  <2>1. pc # "searching" BY DEF IInv, Progress
  <2>2. pc = "asking" => yieldedAny BY DEF IInv, Progress
  <2>3. ASSUME pc = "asking", OnProviderError PROVE provider' = provider
    BY <2>2, <2>3 DEF OnProviderError, MayFallBack, End
  <2>4. CASE UNCHANGED vars BY <2>4 DEF vars
  <2>5. CASE \E codes \in SUBSET Codes : Retrieve(codes) BY <2>1, <2>5 DEF Retrieve
  <2>6. CASE \E codes \in SUBSET Codes : Complete(codes) BY <2>6 DEF Complete, End
  <2>7. CASE \E delta \in Deltas : Delta(delta) BY <2>7 DEF Delta, End
  <2>8. CASE RetrieveFails BY <2>1, <2>8 DEF RetrieveFails
  <2>9. CASE ProviderFails \/ TimerFires BY <2>3, <2>9 DEF ProviderFails, TimerFires
  <2>10. CASE EndOfStream BY <2>3, <2>10 DEF EndOfStream, Streaming, End
  <2>11. CASE ClientLeaves BY <2>11 DEF ClientLeaves
  <2> QED BY <2>4, <2>5, <2>6, <2>7, <2>8, <2>9, <2>10, <2>11 DEF Next
<1> QED BY <1>1, SpecIInv, PTL DEF Spec, NoFallbackMidResponse
=============================================================================
