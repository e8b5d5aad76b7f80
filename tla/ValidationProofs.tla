-------------------------- MODULE ValidationProofs --------------------------
(***************************************************************************)
(* Theorems about Validation, for any letters and words of any length.     *)
(***************************************************************************)
EXTENDS Validation, SequenceTheorems, WellFoundedInduction, TLAPS

(* The least number principle, as a statement about sets: it stands in for *)
(* induction over the positions of a list.                                 *)
Less == {p \in Nat \X Nat : p[1] < p[2]}

LEMMA LeastNumber ==
  ASSUME NEW T, T \subseteq Nat, T # {}
  PROVE  \E m \in T : \A k \in T : m <= k
<1>1. IsWellFoundedOn(Less, Nat)
  <2>1. OpToRel(<, Nat) = Less
    BY Zenon DEF OpToRel, Less
  <2> QED
    BY <2>1, NatLessThanWellFounded, Zenon
<1>2. PICK m \in T : \A k \in T : ~(<<k, m>> \in Less)
  BY <1>1, WFMin
<1>3. ASSUME NEW k \in T PROVE m <= k
  <2>1. k \in Nat /\ m \in Nat /\ <<k, m>> \in Nat \X Nat
    OBVIOUS
  <2>2. ~(k < m)
    BY <1>2, <2>1 DEF Less
  <2> QED
    BY <2>1, <2>2
<1> QED
  BY <1>3

-----------------------------------------------------------------------------
(* Dropping the duplicates.                                                *)

(* What Unique has put together after n of the words, by the loop itself ... *)
Collected(s, n, g) ==
    g = [i \in 0..n |->
            IF i = 0 THEN <<>>
            ELSE IF i \in Kept(s) THEN Append(g[i - 1], s[i]) ELSE g[i - 1]]

(* ... which goes through any number of words.                             *)
LEMMA CollectedExists ==
  ASSUME NEW s, NEW n \in Nat
  PROVE  \E g : Collected(s, n, g)
<1> DEFINE T == {k \in Nat : ~\E g : Collected(s, k, g)}
<1>1. SUFFICES ASSUME T # {} PROVE FALSE
  OBVIOUS
<1>2. PICK m \in T : \A k \in T : m <= k
  <2> HIDE DEF T
  <2>1. T \subseteq Nat
    BY DEF T
  <2> QED
    BY <1>1, <2>1, LeastNumber
<1>3. m # 0
  <2>1. Collected(s, 0, [i \in 0..0 |-> <<>>])
    BY DEF Collected
  <2> QED
    BY <2>1
<1>4. PICK g : Collected(s, m - 1, g)
  BY <1>2, <1>3
<1>5. PICK last : last = IF m \in Kept(s) THEN Append(g[m - 1], s[m])
                                         ELSE g[m - 1]
  OBVIOUS
<1>6. PICK h : h = [i \in 0..m |-> IF i = m THEN last ELSE g[i]]
  OBVIOUS
<1>7. ASSUME NEW i \in 0..m
      PROVE  h[i] = IF i = 0 THEN <<>>
                    ELSE IF i \in Kept(s) THEN Append(h[i - 1], s[i])
                    ELSE h[i - 1]
  <2>1. m \in Nat
    OBVIOUS
  <2>2. CASE i = m
    BY <1>3, <1>5, <1>6, <2>1, <2>2
  <2>3. CASE i # m
    <3>1. i \in 0..(m - 1) /\ h[i] = g[i] /\ (i # 0 => h[i - 1] = g[i - 1])
      BY <1>6, <2>1, <2>3
    <3> QED
      BY <1>4, <3>1 DEF Collected
  <2> QED
    BY <2>2, <2>3
<1>8. Collected(s, m, h)
  <2>1. h = [i \in 0..m |-> h[i]]
    BY <1>6
  <2> QED
    BY <1>7, <2>1 DEF Collected
<1> QED
  BY <1>8

(* The loop that Unique stands for.                                        *)
LEMMA UniqueCollected ==
  ASSUME NEW s, Len(s) \in Nat
  PROVE  \E g : Collected(s, Len(s), g) /\ Unique(s) = g[Len(s)]
<1> DEFINE add == CHOOSE g : Collected(s, Len(s), g)
<1>1. Collected(s, Len(s), add)
  BY CollectedExists
<1>2. Unique(s) = add[Len(s)]
  BY DEF Unique, Collected
<1> QED
  BY <1>1, <1>2

(* u lists the words at the positions kept among the first n, in order: p  *)
(* names them.                                                             *)
Lists(s, n, u, p) ==
    /\ p \in [DOMAIN u -> Kept(s) \cap (1..n)]
    /\ \A k \in DOMAIN u : u[k] = s[p[k]]
    /\ \A j, k \in DOMAIN u : j < k => p[j] < p[k]
    /\ \A i \in Kept(s) \cap (1..n) : \E k \in DOMAIN u : p[k] = i

(* After every word of the loop the list holds the positions kept so far.  *)
LEMMA CollectedLists ==
  ASSUME NEW W, NEW s \in Seq(W), NEW g, Collected(s, Len(s), g),
         NEW n \in 0..Len(s)
  PROVE  g[n] \in Seq(W) /\ \E p : Lists(s, n, g[n], p)
<1> DEFINE OK(k) == g[k] \in Seq(W) /\ \E p : Lists(s, k, g[k], p)
           T == {k \in 0..Len(s) : ~OK(k)}
<1>1. SUFFICES ASSUME T # {} PROVE FALSE
  OBVIOUS
<1>2. Len(s) \in Nat /\ Kept(s) \subseteq 1..Len(s)
  BY DEF Kept
<1>3. PICK m \in T : \A k \in T : m <= k
  <2> HIDE DEF T
  <2>1. T \subseteq Nat
    BY <1>2 DEF T
  <2> QED
    BY <1>1, <2>1, LeastNumber
<1>4. m # 0
  <2>1. g[0] = <<>> /\ DOMAIN <<>> = {}
    BY <1>2 DEF Collected
  <2>2. Lists(s, 0, <<>>, [k \in {} |-> 0])
    BY DEF Lists
  <2>3. <<>> \in Seq(W)
    OBVIOUS
  <2>4. OK(0)
    BY <2>1, <2>2, <2>3
  <2> QED
    BY <1>3, <2>4
<1>5. m \in 1..Len(s) /\ m \in Nat /\ m - 1 \in 0..Len(s) /\ OK(m - 1) /\ ~OK(m)
  <2>1. m \in 0..Len(s) /\ ~OK(m)
    BY <1>3
  <2>2. m \in 1..Len(s) /\ m \in Nat /\ m - 1 \in 0..Len(s) /\ ~(m <= m - 1)
    BY <1>2, <1>4, <2>1
  <2>3. m - 1 \notin T
    <3> HIDE DEF T
    <3> QED
      BY <1>3, <2>2
  <2> QED
    BY <2>1, <2>2, <2>3
<1>6. PICK u, p : u = g[m - 1] /\ u \in Seq(W) /\ Lists(s, m - 1, u, p)
  BY <1>5
<1>7. g[m] = IF m \in Kept(s) THEN Append(u, s[m]) ELSE u
  <2>1. \A i \in 0..Len(s) :
          i # 0 => g[i] = IF i \in Kept(s) THEN Append(g[i - 1], s[i])
                                           ELSE g[i - 1]
    BY DEF Collected
  <2>2. m \in 0..Len(s) /\ m # 0
    BY <1>2, <1>5
  <2> HIDE DEF OK
  <2> QED
    BY <1>6, <2>1, <2>2
<1>8. CASE m \notin Kept(s)
  <2>1. Kept(s) \cap (1..m) = Kept(s) \cap (1..(m - 1))
    BY <1>5, <1>8
  <2>2. Lists(s, m, u, p)
    BY <1>6, <2>1 DEF Lists
  <2> QED
    BY <1>5, <1>6, <1>7, <1>8, <2>2
<1>9. CASE m \in Kept(s)
  <2>1. PICK last, v : last = Len(u) + 1 /\ v = Append(u, s[m])
    OBVIOUS
  <2>2. /\ Len(u) \in Nat /\ DOMAIN u = 1..Len(u) /\ DOMAIN v = 1..last
        /\ v \in Seq(W) /\ v[last] = s[m]
        /\ \A k \in DOMAIN u : v[k] = u[k]
    BY <1>5, <1>6, <2>1, AppendProperties
  <2>3. PICK q : q = [k \in 1..last |-> IF k = last THEN m ELSE p[k]]
    OBVIOUS
  <2>4. \A k \in 1..last : \/ k = last /\ q[k] = m
                           \/ k \in DOMAIN u /\ q[k] = p[k]
    BY <2>1, <2>2, <2>3
  <2>5. \A k \in DOMAIN u : p[k] \in Kept(s) /\ p[k] \in 1..(m - 1)
    BY <1>6 DEF Lists
  <2>6. q \in [DOMAIN v -> Kept(s) \cap (1..m)]
    <3>1. \A k \in 1..last : q[k] \in Kept(s) \cap (1..m)
      BY <1>5, <1>9, <2>4, <2>5
    <3> QED
      BY <2>2, <2>3, <3>1
  <2>7. \A k \in DOMAIN v : v[k] = s[q[k]]
    BY <1>6, <2>2, <2>4 DEF Lists
  <2>8. \A j, k \in DOMAIN v : j < k => q[j] < q[k]
    <3>1. SUFFICES ASSUME NEW j \in 1..last, NEW k \in 1..last, j < k
                   PROVE  q[j] < q[k]
      BY <2>2
    <3>2. j # last
      BY <2>1, <2>2, <3>1
    <3>3. j \in DOMAIN u /\ q[j] = p[j]
      BY <2>4, <3>2
    <3>4. CASE k = last
      <4>1. q[k] = m
        BY <2>3, <3>1, <3>4
      <4>2. q[j] \in 1..(m - 1) /\ m \in Nat
        BY <1>5, <2>5, <3>3
      <4> QED
        BY <4>1, <4>2
    <3>5. CASE k \in DOMAIN u /\ q[k] = p[k]
      BY <1>6, <3>1, <3>3, <3>5 DEF Lists
    <3> QED
      BY <2>4, <3>4, <3>5
  <2>9. ASSUME NEW i \in Kept(s) \cap (1..m)
        PROVE  \E k \in DOMAIN v : q[k] = i
    <3>1. CASE i = m
      BY <2>1, <2>2, <2>3, <3>1
    <3>2. CASE i # m
      <4>1. i \in Kept(s) \cap (1..(m - 1))
        BY <1>5, <3>2
      <4>2. PICK k \in DOMAIN u : p[k] = i
        BY <1>6, <4>1 DEF Lists
      <4>3. k \in 1..last /\ k # last
        BY <2>1, <2>2
      <4> QED
        BY <2>2, <2>3, <4>2, <4>3
    <3> QED
      BY <3>1, <3>2
  <2>10. Lists(s, m, v, q)
    BY <2>6, <2>7, <2>8, <2>9 DEF Lists
  <2> QED
    BY <1>5, <1>7, <1>9, <2>1, <2>2, <2>10
<1> QED
  BY <1>8, <1>9

(* What Unique returns: the first occurrences, in their order. *)
LEMMA UniqueLists ==
  ASSUME NEW W, NEW s \in Seq(W)
  PROVE  Unique(s) \in Seq(W) /\ \E p : Lists(s, Len(s), Unique(s), p)
<1>1. Len(s) \in Nat /\ Len(s) \in 0..Len(s)
  OBVIOUS
<1>2. PICK g : Collected(s, Len(s), g) /\ Unique(s) = g[Len(s)]
  BY <1>1, UniqueCollected
<1> QED
  BY <1>1, <1>2, CollectedLists

(* No word is listed twice, and none but the empty one is dropped.         *)
LEMMA UniqueWords ==
  ASSUME NEW W, NEW s \in Seq(W)
  PROVE  /\ \A i, j \in DOMAIN Unique(s) : Unique(s)[i] = Unique(s)[j] => i = j
         /\ \A j \in DOMAIN Unique(s) :
               \E i \in DOMAIN s : Unique(s)[j] = s[i] /\ s[i] # <<>>
         /\ \A i \in DOMAIN s : s[i] # <<>> =>
               \E j \in DOMAIN Unique(s) : Unique(s)[j] = s[i]
<1>1. PICK u, p : u = Unique(s) /\ Lists(s, Len(s), u, p)
  BY UniqueLists
<1>2. /\ Len(s) \in Nat /\ DOMAIN s = 1..Len(s)
      /\ u \in Seq(W) /\ DOMAIN u = 1..Len(u) /\ Len(u) \in Nat
  BY <1>1, UniqueLists
<1>3. \A k \in DOMAIN u : p[k] \in Kept(s) /\ u[k] = s[p[k]]
  BY <1>1 DEF Lists
<1>4. ASSUME NEW i \in DOMAIN u, NEW j \in DOMAIN u, i < j
      PROVE  u[i] # u[j]
  <2>1. p[i] < p[j] /\ p[i] \in Kept(s) /\ p[j] \in Kept(s)
    BY <1>1, <1>3, <1>4 DEF Lists
  <2>2. p[i] \in 1..(p[j] - 1)
    BY <1>2, <2>1 DEF Kept
  <2> QED
    BY <1>3, <2>1, <2>2 DEF Kept
<1>5. \A i, j \in DOMAIN u : u[i] = u[j] => i = j
  <2>1. \A i, j \in DOMAIN u : i = j \/ i < j \/ j < i
    BY <1>2
  <2> QED
    BY <1>4, <2>1
<1>6. \A j \in DOMAIN u : \E i \in DOMAIN s : u[j] = s[i] /\ s[i] # <<>>
  BY <1>3 DEF Kept
<1>7. ASSUME NEW i \in DOMAIN s, s[i] # <<>>
      PROVE  \E j \in DOMAIN u : u[j] = s[i]
  <2> DEFINE T == {k \in DOMAIN s : s[k] = s[i]}
  <2>1. PICK m \in T : \A k \in T : m <= k
    <3>1. T \subseteq Nat /\ T # {}
      BY <1>2
    <3> HIDE DEF T
    <3> QED
      BY <3>1, LeastNumber
  <2>2. m \in DOMAIN s /\ s[m] = s[i] /\ m \in Nat
    BY <1>2
  <2>3. ASSUME NEW k \in 1..(m - 1) PROVE s[k] # s[m]
    <3>1. k \in DOMAIN s /\ ~(m <= k)
      BY <1>2, <2>2
    <3> QED
      BY <2>1, <2>2, <3>1
  <2>4. m \in Kept(s) \cap (1..Len(s))
    BY <1>2, <1>7, <2>2, <2>3 DEF Kept
  <2>5. PICK j \in DOMAIN u : p[j] = m
    BY <1>1, <2>4 DEF Lists
  <2> QED
    BY <1>3, <2>2, <2>5
<1> QED
  BY <1>1, <1>5, <1>6, <1>7

-----------------------------------------------------------------------------
(* Matching.                                                               *)

(* Strings are the sequences up to their length. *)
LEMMA StringsAreSeqs ==
  ASSUME NEW S, NEW n \in Nat, NEW s \in Strings(S, n)
  PROVE  s \in Seq(S) /\ Len(s) \in 0..n
<1>1. PICK k \in 0..n : s \in [1..k -> S]
  BY DEF Strings
<1> QED
  BY <1>1, SeqDef

LEMMA ShortSeqsAreStrings ==
  ASSUME NEW S, NEW n \in Nat, NEW s \in Seq(S), Len(s) <= n
  PROVE  s \in Strings(S, n)
<1>1. Len(s) \in 0..n /\ s \in [1..Len(s) -> S]
  OBVIOUS
<1> QED
  BY <1>1 DEF Strings

(* s stands in t behind its i-th character. *)
At(s, t, i) ==
    i \in 0..(Len(t) - Len(s)) /\ \A k \in 1..Len(s) : t[i + k] = s[k]

LEMMA OccursAt ==
  ASSUME NEW s \in Seq(Int), NEW t \in Seq(Int)
  PROVE  Occurs(s, t) <=> \E i : At(s, t, i)
<1>1. Len(s) \in Nat /\ Len(t) \in Nat
  OBVIOUS
<1>2. ASSUME NEW i \in 0..(Len(t) - Len(s))
      PROVE  SubSeq(t, i + 1, i + Len(s)) = s
               <=> \A k \in 1..Len(s) : t[i + k] = s[k]
  <2>1. i \in Nat /\ i + Len(s) <= Len(t)
    BY <1>1
  <2>2. PICK r : r = SubSeq(t, i + 1, i + Len(s))
    OBVIOUS
  <2>3. r \in Seq(Int) /\ Len(r) = Len(s)
        /\ \A k \in 1..Len(s) : r[k] = t[i + k]
    <3>1. PICK m \in Int, n \in Int : m = i + 1 /\ n = i + Len(s)
      BY <1>1, <2>1
    <3>2. \A j \in m..n : j \in 1..Len(t)
      BY <1>1, <2>1, <3>1
    <3>3. \A j \in m..n : t[j] \in Int
      BY <3>2, ElementOfSeq
    <3>4. r = SubSeq(t, m, n)
      BY <2>2, <3>1
    <3>5. /\ r \in Seq(Int) /\ Len(r) = IF m <= n THEN n - m + 1 ELSE 0
          /\ \A k \in 1..(n - m + 1) : r[k] = t[m + k - 1]
      BY <3>3, <3>4, SubSeqProperties
    <3>6. /\ n - m + 1 = Len(s) /\ (m <= n <=> Len(s) # 0)
          /\ \A k \in 1..Len(s) : m + k - 1 = i + k
      BY <1>1, <2>1, <3>1
    <3>7. Len(r) = Len(s)
      BY <3>5, <3>6
    <3>8. \A k \in 1..Len(s) : r[k] = t[i + k]
      BY <3>5, <3>6
    <3> QED
      BY <3>5, <3>7, <3>8
  <2>4. r = s <=> \A k \in 1..Len(s) : r[k] = s[k]
    BY <2>3, SeqEqual
  <2> QED
    BY <2>2, <2>3, <2>4
<1> QED
  BY <1>2 DEF Occurs, At

(* Every word occurs in itself; what occurs in it occurs wherever it does; *)
(* and two words that occur in each other are the same.                    *)
LEMMA OccursOrder ==
  ASSUME NEW s \in Seq(Int), NEW t \in Seq(Int), NEW u \in Seq(Int)
  PROVE  /\ Occurs(s, s)
         /\ Occurs(s, t) /\ Occurs(t, u) => Occurs(s, u)
         /\ Occurs(s, t) /\ Occurs(t, s) => s = t
<1>1. Len(s) \in Nat /\ Len(t) \in Nat /\ Len(u) \in Nat
  OBVIOUS
<1>2. Occurs(s, s)
  <2>1. At(s, s, 0)
    BY <1>1 DEF At
  <2> QED
    BY <2>1, OccursAt
<1>3. ASSUME Occurs(s, t), Occurs(t, u) PROVE Occurs(s, u)
  <2>1. PICK i, j : At(s, t, i) /\ At(t, u, j)
    BY <1>3, OccursAt
  <2>2. /\ i \in Nat /\ j \in Nat
        /\ i + Len(s) <= Len(t) /\ j + Len(t) <= Len(u)
    BY <1>1, <2>1 DEF At
  <2>3. ASSUME NEW k \in 1..Len(s) PROVE u[(j + i) + k] = s[k]
    <3>1. i + k \in 1..Len(t) /\ j + (i + k) = (j + i) + k
      BY <1>1, <2>2
    <3> QED
      BY <2>1, <3>1 DEF At
  <2>4. At(s, u, j + i)
    BY <1>1, <2>2, <2>3 DEF At
  <2> QED
    BY <2>4, OccursAt
<1>4. ASSUME Occurs(s, t), Occurs(t, s) PROVE s = t
  <2>1. PICK i, j : At(s, t, i) /\ At(t, s, j)
    BY <1>4, OccursAt
  <2>2. Len(s) = Len(t) /\ i = 0
    BY <1>1, <2>1 DEF At
  <2>3. \A k \in 1..Len(s) : t[k] = s[k]
    BY <1>1, <2>1, <2>2 DEF At
  <2> QED
    BY <2>2, <2>3, SeqEqual
<1> QED
  BY <1>2, <1>3, <1>4

(* Folding keeps the length.                                               *)
LEMMA FoldedWords ==
  ASSUME NEW s \in Seq(Int), NEW cs \in BOOLEAN
  PROVE  Folded(s, cs) \in Seq(Int) /\ Len(Folded(s, cs)) = Len(s)
<1>1. \A c \in Int : Lower(c) \in Int
  BY DEF Lower
<1>2. PICK r : r = ToLower(s)
  OBVIOUS
<1>3. /\ r = [i \in 1..Len(s) |-> Lower(s[i])] /\ Len(s) \in Nat
      /\ \A i \in 1..Len(s) : s[i] \in Int
  BY <1>2 DEF ToLower
<1>4. r \in [1..Len(s) -> Int]
  BY <1>1, <1>3
<1>5. r \in Seq(Int) /\ Len(r) = Len(s)
  BY <1>3, <1>4, SeqDef
<1> QED
  BY <1>2, <1>5 DEF Folded

(* What becomes of each letter.                                            *)
FoldedLetter(c, cs) == IF cs THEN c ELSE Lower(c)

LEMMA FoldedLetters ==
  ASSUME NEW s \in Seq(Int), NEW cs \in BOOLEAN, NEW k \in 1..Len(s)
  PROVE  Folded(s, cs)[k] = FoldedLetter(s[k], cs)
BY DEF Folded, FoldedLetter, ToLower

(* A word matches its own spelling, and each line that matches b matches a *)
(* if and only if a occurs in b, the way the option has them compared.     *)
LEMMA LiftsWhenOccurs ==
  ASSUME NEW a \in Seq(Int), NEW b \in Seq(Int), b \in Lines,
         Lines \subseteq Seq(Int), NEW cs \in BOOLEAN
  PROVE  (\A line \in Lines : Matches(b, line, cs) => Matches(a, line, cs))
           <=> Occurs(Folded(a, cs), Folded(b, cs))
<1>1. Folded(a, cs) \in Seq(Int) /\ Folded(b, cs) \in Seq(Int)
  BY FoldedWords
<1>2. ASSUME \A line \in Lines : Matches(b, line, cs) => Matches(a, line, cs)
      PROVE  Occurs(Folded(a, cs), Folded(b, cs))
  <2>1. Matches(b, b, cs)
    BY <1>1, OccursOrder DEF Matches
  <2> QED
    BY <1>2, <2>1 DEF Matches
<1>3. ASSUME Occurs(Folded(a, cs), Folded(b, cs)), NEW line \in Lines,
             Matches(b, line, cs)
      PROVE  Matches(a, line, cs)
  <2>1. Folded(line, cs) \in Seq(Int)
    BY FoldedWords
  <2> QED
    BY <1>1, <1>3, <2>1, OccursOrder DEF Matches
<1> QED
  BY <1>2, <1>3

-----------------------------------------------------------------------------
(* Validate.                                                               *)

(* What Parse returns, as far as the theorems need it. *)
GivenOK ==
    /\ DOMAIN given = DOMAIN Good
    /\ given.case_sensitive \in BOOLEAN
    /\ given.actions \in Strings(Strings(Characters, MaxWord), MaxWords)
                           \cup {<<>>, << <<1>> >>}
    /\ given.metrics_path \in Strings(PathCharacters, MaxPath)
                                \cup {<<"/", "a">>, <<"/">>, <<"a">>}

(* What Validate has made of it. *)
ValidatedInv ==
    /\ GivenOK
    /\ phase \in {"parsed", "accepted", "rejected"}
    /\ phase = "parsed" => cfg = given
    /\ phase # "parsed" =>
          /\ cfg = [given EXCEPT !.actions = Unique(given.actions)]
          /\ errs = FieldErrors(given)
          /\ phase = "accepted" <=> errs = {}
          /\ warnings = Duplicates(given.actions)
                          \cup Overlaps(cfg.actions, cfg.case_sensitive)
                          \cup ExpiryWarning(given)

LEMMA ValidatedInit == Init => ValidatedInv
<1> SUFFICES ASSUME Init PROVE GivenOK
  BY DEF Init, ValidatedInv
<1>1. CASE AnyWords
  <2>1. PICK as \in Strings(Strings(Characters, MaxWord), MaxWords),
             cs \in BOOLEAN :
               given = [Good EXCEPT !.actions = as, !.case_sensitive = cs]
    BY <1>1 DEF AnyWords
  <2>2. DOMAIN given = DOMAIN Good /\ given.metrics_path = <<"/", "a">>
    BY <2>1 DEF Good
  <2>3. given.case_sensitive \in BOOLEAN /\ given.actions = as
    BY <2>1 DEF Good
  <2> QED
    BY <2>2, <2>3 DEF GivenOK
<1>2. CASE AnyPath
  <2>1. PICK p \in Strings(PathCharacters, MaxPath) :
               given = [Good EXCEPT !.metrics_path = p]
    BY <1>2 DEF AnyPath
  <2>2. /\ DOMAIN given = DOMAIN Good /\ given.metrics_path = p
        /\ given.case_sensitive \in BOOLEAN /\ given.actions = << <<1>> >>
    BY <2>1 DEF Good
  <2> QED
    BY <2>2 DEF GivenOK
<1>3. CASE AnyFields
  <2>1. DOMAIN given = DOMAIN Good
    BY <1>3, SMTT(60) DEF AnyFields, Good
  <2>4. given.case_sensitive \in BOOLEAN
    BY <1>3 DEF AnyFields
  <2>2. given.actions \in {<<>>, << <<1>> >>}
    BY <1>3 DEF AnyFields
  <2>3. given.metrics_path \in {<<"/">>, <<"a">>}
    BY <1>3 DEF AnyFields
  <2> QED
    BY <2>1, <2>2, <2>3, <2>4 DEF GivenOK
<1> QED
  BY <1>1, <1>2, <1>3 DEF Init

LEMMA ValidatedStep == ValidatedInv /\ [Next]_vars => ValidatedInv'
<1> SUFFICES ASSUME ValidatedInv, [Next]_vars PROVE ValidatedInv'
  OBVIOUS
<1>1. CASE Validate
  <2>1. /\ phase = "parsed" /\ cfg = given /\ given' = given
        /\ cfg' = [given EXCEPT !.actions = Unique(given.actions)]
        /\ DOMAIN given = DOMAIN Good
    BY <1>1 DEF Validate, ValidatedInv, GivenOK
  <2>2. /\ errs' = FieldErrors(given)
        /\ phase' = IF errs' = {} THEN "accepted" ELSE "rejected"
    BY <1>1, <2>1 DEF Validate, Errors
  <2>3. cfg'.case_sensitive = given.case_sensitive
    BY <2>1 DEF Good
  <2>4. warnings' = Duplicates(given.actions)
                      \cup Overlaps(cfg'.actions, cfg'.case_sensitive)
                      \cup ExpiryWarning(given)
    BY <1>1, <2>1, <2>3 DEF Validate
  <2> QED
    BY <2>1, <2>2, <2>4 DEF ValidatedInv, GivenOK
<1>2. CASE UNCHANGED vars
  BY <1>2 DEF vars, ValidatedInv, GivenOK
<1> QED
  BY <1>1, <1>2 DEF Next, Done

LEMMA ValidatedCorrect == Spec => []ValidatedInv
BY ValidatedInit, ValidatedStep, PTL DEF Spec

(* What is left once Validate has found nothing to complain about. *)
LEMMA AcceptedWords ==
  ASSUME ValidatedInv, Accepted
  PROVE  /\ given.actions \in Seq(Seq(Int)) /\ given.actions # <<>>
         /\ \A i \in DOMAIN given.actions : given.actions[i] # <<>>
         /\ cfg.actions = Unique(given.actions)
         /\ cfg.case_sensitive = given.case_sensitive
         /\ cfg.case_sensitive \in BOOLEAN
         /\ cfg.metrics_path = given.metrics_path
         /\ Lines \subseteq Seq(Int) /\ <<>> \in Lines
<1>1. phase = "accepted" /\ FieldErrors(given) = {}
  BY DEF Accepted, ValidatedInv
<1>2. "actions" \in DOMAIN given
  BY DEF ValidatedInv, GivenOK, Good
<1>3. /\ given.actions # <<>>
      /\ \A i \in DOMAIN given.actions : given.actions[i] # <<>>
  BY <1>1, <1>2 DEF FieldErrors
<1>4. /\ cfg.actions = Unique(given.actions)
      /\ cfg.case_sensitive = given.case_sensitive
      /\ cfg.case_sensitive \in BOOLEAN
      /\ cfg.metrics_path = given.metrics_path
  <2>1. /\ cfg = [given EXCEPT !.actions = Unique(given.actions)]
        /\ DOMAIN given = DOMAIN Good /\ given.case_sensitive \in BOOLEAN
    BY <1>1 DEF ValidatedInv, GivenOK
  <2> QED
    BY <2>1 DEF Good
<1>5. Characters \subseteq Int /\ MaxWord \in Nat /\ MaxWords \in Nat
      /\ MaxLine \in Nat
  <2>1. \A l \in Letters : l \in Int /\ -l \in Int
    BY ValidationAssumption
  <2> QED
    BY <2>1, ValidationAssumption DEF Characters
<1>6. \A n \in Nat : Strings(Characters, n) \subseteq Seq(Int)
  <2>1. \A n \in Nat : Strings(Characters, n) \subseteq Seq(Characters)
    BY StringsAreSeqs
  <2>2. ASSUME NEW s \in Seq(Characters) PROVE s \in Seq(Int)
    <3>1. Len(s) \in Nat /\ s \in [1..Len(s) -> Characters]
      OBVIOUS
    <3>2. s \in [1..Len(s) -> Int]
      BY <1>5, <3>1
    <3> QED
      BY <3>1, <3>2, SeqDef
  <2> QED
    BY <2>1, <2>2
<1>7. given.actions \in Seq(Seq(Int))
  <2>1. CASE given.actions \in Strings(Strings(Characters, MaxWord), MaxWords)
    <3>1. given.actions \in Seq(Strings(Characters, MaxWord))
      BY <1>5, <2>1, StringsAreSeqs
    <3>2. Seq(Strings(Characters, MaxWord)) \subseteq Seq(Seq(Int))
      BY <1>5, <1>6
    <3> QED
      BY <3>1, <3>2
  <2>2. <<1>> \in Seq(Int) /\ <<>> \in Seq(Seq(Int))
    OBVIOUS
  <2>3. << <<1>> >> \in Seq(Seq(Int))
    BY <2>2
  <2> QED
    BY <2>1, <2>2, <2>3 DEF ValidatedInv, GivenOK
<1>8. Lines \subseteq Seq(Int) /\ <<>> \in Lines
  <2>1. <<>> \in Strings(Characters, MaxLine)
    <3>1. <<>> \in Seq(Characters) /\ Len(<<>>) <= MaxLine
      BY <1>5
    <3> QED
      BY <1>5, <3>1, ShortSeqsAreStrings
  <2> QED
    BY <1>5, <1>6, <2>1 DEF Lines
<1> QED
  BY <1>3, <1>4, <1>7, <1>8
-----------------------------------------------------------------------------
(* The theorems.                                                           *)

(* MatchesAsWritten: folding keeps every letter in its place, and two      *)
(* letters fold to the same one exactly if they differ in case only.       *)
THEOREM MatchesAsWrittenCorrect == Spec => []MatchesAsWritten
<1>1. ValidatedInv => MatchesAsWritten
  <2> SUFFICES ASSUME ValidatedInv, Accepted PROVE MatchesAsWritten
    BY DEF MatchesAsWritten
  <2>1. PICK cs : cs = cfg.case_sensitive /\ cs \in BOOLEAN
    BY AcceptedWords
  <2> DEFINE Same(c, d) == c = d \/ (~cs /\ c = -d)
             Reads(w, line) == \E l \in 0..(Len(line) - Len(w)) :
                                 \A k \in 1..Len(w) : Same(w[k], line[l + k])
  <2>2. ASSUME NEW i \in DOMAIN cfg.actions, NEW line \in Lines
        PROVE  Matches(cfg.actions[i], line, cs) <=> Reads(cfg.actions[i], line)
    <3>1. PICK w : w = cfg.actions[i]
      OBVIOUS
    <3>2. w \in Seq(Int) /\ line \in Seq(Int)
      <4>1. cfg.actions = Unique(given.actions)
            /\ given.actions \in Seq(Seq(Int)) /\ Lines \subseteq Seq(Int)
        BY AcceptedWords
      <4>2. cfg.actions \in Seq(Seq(Int))
        BY <4>1, UniqueLists
      <4> QED
        BY <3>1, <4>1, <4>2, ElementOfSeq
    <3>3. PICK a, b : a = Folded(w, cs) /\ b = Folded(line, cs)
      OBVIOUS
    <3>4. /\ a \in Seq(Int) /\ Len(a) = Len(w)
          /\ b \in Seq(Int) /\ Len(b) = Len(line)
      BY <2>1, <3>2, <3>3, FoldedWords
    <3>5. ASSUME NEW l \in 0..(Len(line) - Len(w)), NEW k \in 1..Len(w)
          PROVE  b[l + k] = a[k] <=> Same(w[k], line[l + k])
      <4>1. /\ Len(w) \in Nat /\ Len(line) \in Nat
            /\ k \in 1..Len(w) /\ l + k \in 1..Len(line)
        BY <3>2
      <4>2. w[k] \in Int /\ line[l + k] \in Int
        BY <3>2, <4>1, ElementOfSeq
      <4>3. a[k] = FoldedLetter(w[k], cs)
            /\ b[l + k] = FoldedLetter(line[l + k], cs)
        BY <2>1, <3>2, <3>3, <4>1, FoldedLetters
      <4> QED
        BY <4>2, <4>3 DEF FoldedLetter, Lower
    <3>6. Occurs(a, b) <=> Reads(w, line)
      <4>1. Occurs(a, b) <=> \E l : At(a, b, l)
        BY <3>4, OccursAt
      <4>2. \A l : At(a, b, l)
                    <=> /\ l \in 0..(Len(line) - Len(w))
                        /\ \A k \in 1..Len(w) : b[l + k] = a[k]
        BY <3>4 DEF At
      <4> HIDE DEF Same
      <4> QED
        BY <3>5, <4>1, <4>2
    <3> QED
      BY <3>1, <3>3, <3>6 DEF Matches
  <2> QED
    BY <2>1, <2>2 DEF MatchesAsWritten
<1> QED
  BY <1>1, ValidatedCorrect, PTL

(* ServedExactly: the path that ValidatePath lets pass is one that can be  *)
(* written in a request, and apart from the root it does not end in a      *)
(* slash, so that the pattern is exact; ServeMux serves it if it is clean. *)
THEOREM ServedExactlyCorrect == Spec => []ServedExactly
<1>1. ValidatedInv => ServedExactly
  <2> SUFFICES ASSUME ValidatedInv, Accepted, cfg.metrics_path # <<"/">>
               PROVE  ServedExactly
    BY DEF ServedExactly
  <2>1. PICK p : p = cfg.metrics_path
    OBVIOUS
  <2>2. p = given.metrics_path
    BY <2>1, AcceptedWords
  <2>3. FieldErrors(given) = {} /\ DOMAIN given = DOMAIN Good
    BY DEF Accepted, ValidatedInv, GivenOK
  <2>4. ~PathError(p)
    <3>1. "metrics_listen" \in DOMAIN given /\ "metrics_path" \in DOMAIN given
      BY <2>3 DEF Good
    <3>2. given["metrics_listen"] # "bad"
      BY <2>3, <3>1 DEF FieldErrors, MetricsErrors
    <3> QED
      BY <2>2, <2>3, <3>1, <3>2 DEF FieldErrors, MetricsErrors
  <2>5. /\ p # <<>> /\ p[1] = "/" /\ Last(p) # "/"
        /\ \A i \in DOMAIN p : p[i] \notin {"{", " "}
    BY <2>1, <2>4 DEF PathError
  <2>6. p \in Strings({"/", "a", "."}, MaxPath + 1)
    <3>1. MaxPath \in Nat /\ MaxPath >= 1
      BY ValidationAssumption
    <3>2. p \in Seq(PathCharacters) /\ Len(p) <= MaxPath + 1
      <4>1. CASE p \in Strings(PathCharacters, MaxPath)
        <5>1. p \in Seq(PathCharacters) /\ Len(p) \in 0..MaxPath
          BY <3>1, <4>1, StringsAreSeqs
        <5> QED
          BY <3>1, <5>1
      <4>2. CASE p \in {<<"/", "a">>, <<"/">>, <<"a">>}
        <5>1. /\ <<"/", "a">> \in Seq(PathCharacters)
              /\ <<"/">> \in Seq(PathCharacters)
              /\ <<"a">> \in Seq(PathCharacters)
          BY DEF PathCharacters
        <5>2. /\ Len(<<"/", "a">>) = 2 /\ Len(<<"/">>) = 1
              /\ Len(<<"a">>) = 1
          OBVIOUS
        <5>3. p = <<"/", "a">> \/ p = <<"/">> \/ p = <<"a">>
          BY <4>2
        <5>4. p \in Seq(PathCharacters) /\ (Len(p) = 1 \/ Len(p) = 2)
          BY <5>1, <5>2, <5>3
        <5>5. 1 <= MaxPath + 1 /\ 2 <= MaxPath + 1
          BY <3>1
        <5> QED
          BY <5>4, <5>5
      <4> QED
        BY <2>2, <4>1, <4>2 DEF ValidatedInv, GivenOK
    <3>3. p \in Seq({"/", "a", "."})
      <4>1. Len(p) \in Nat /\ p \in [1..Len(p) -> PathCharacters]
            /\ DOMAIN p = 1..Len(p)
        BY <3>2
      <4>2. p \in [1..Len(p) -> {"/", "a", "."}]
        BY <2>5, <4>1 DEF PathCharacters
      <4> QED
        BY <4>1, <4>2, SeqDef
    <3> QED
      BY <3>1, <3>2, <3>3, ShortSeqsAreStrings
  <2>7. \A r : Serves(p, r) <=> ~Unclean(r) /\ r = p
    BY <2>5 DEF Serves
  <2>8. {r \in Strings({"/", "a", "."}, MaxPath + 1) \ {<<>>} : Serves(p, r)}
          = {q \in {p} : ~Unclean(q)}
    <3>1. PICK R : R = Strings({"/", "a", "."}, MaxPath + 1)
      OBVIOUS
    <3>2. p \in R \ {<<>>}
      BY <2>5, <2>6, <3>1
    <3>3. {r \in R \ {<<>>} : Serves(p, r)} = {q \in {p} : ~Unclean(q)}
      BY <2>7, <3>2
    <3> QED
      BY <3>1, <3>3, Zenon
  <2> QED
    BY <2>1, <2>8 DEF ServedExactly
<1> QED
  BY <1>1, ValidatedCorrect, PTL

(* No field of the defaults is complained about, nor with the other output. *)
LEMMA GoodIsGood ==
  ASSUME NEW output \in {"journald", "file"}, NEW right,
         right = [Good EXCEPT !.logging_output = output]
  PROVE  /\ DOMAIN right = DOMAIN Good
         /\ right.log_path # "blank" /\ right.lock_file # "blank"
         /\ right.redis_host # "blank" /\ right.logging_file # "blank"
         /\ right.actions # <<>>
         /\ \A i \in DOMAIN right.actions : right.actions[i] # <<>>
         /\ ~(right.flush_interval <= 0)
         /\ ~(right.redis_port < 1) /\ ~(right.redis_port > 65535)
         /\ ~(right.redis_db < 0) /\ ~(right.redis_ttl < 0)
         /\ right.logging_level # "bad" /\ right.logging_output = output
         /\ right.reset_schedule # "bad" /\ right.metrics_listen # "bad"
         /\ ~PathError(right.metrics_path)
<1>1. \A i \in DOMAIN Good.actions : Good.actions[i] # <<>>
  BY DEF Good
<1>2. ~PathError(<<"/", "a">>)
  <2>1. PICK p : p = <<"/", "a">>
    OBVIOUS
  <2>2. /\ Len(p) = 2 /\ p[1] = "/" /\ p[2] = "a" /\ p # <<>>
        /\ \A i \in DOMAIN p : i = 1 \/ i = 2
    BY <2>1
  <2>3. ~PathError(p)
    BY <2>2 DEF PathError, Last
  <2> QED
    BY <2>1, <2>3
<1> QED
  BY <1>1, <1>2 DEF Good

(* AllReportedAtOnce: each check of Validate reads its own field, the one  *)
(* of the log file also the output and the one of the path the address.    *)
THEOREM AllReportedAtOnceCorrect == Spec => []AllReportedAtOnce
<1>1. ValidatedInv => AllReportedAtOnce
  <2> SUFFICES ASSUME ValidatedInv, phase = "rejected",
                      NEW output \in {"journald", "file"},
                      NEW right, right = [Good EXCEPT !.logging_output = output],
                      NEW f, f = [k \in DOMAIN given |->
                                    IF k \in errs THEN right[k] ELSE given[k]],
                      NEW k \in FieldErrors(f)
               PROVE  \/ k = "metrics_path" /\ "metrics_listen" \in errs
                      \/ /\ k = "logging_file" /\ "logging_output" \in errs
                         /\ output = "file"
    BY DEF AllReportedAtOnce
  <2>1. errs = FieldErrors(given) /\ DOMAIN given = DOMAIN Good
    BY DEF ValidatedInv, GivenOK
  <2>3. \A l \in DOMAIN given :
          \/ l \in FieldErrors(given) /\ f[l] = right[l]
          \/ l \notin FieldErrors(given) /\ f[l] = given[l]
    BY <2>1
  <2>4. DOMAIN f = DOMAIN given
    OBVIOUS
  <2>5. /\ "logging_output" \in DOMAIN given
        /\ "metrics_listen" \in DOMAIN given
    BY <2>1 DEF Good
  <2>6. k \in DOMAIN given
    BY <2>4 DEF FieldErrors
  <2>7. CASE k \in FieldErrors(given) /\ f[k] = right[k]
    <3>1. CASE k = "logging_file"
      <4>1. f[k] = "blank"
        BY <3>1 DEF FieldErrors, MetricsErrors
      <4>2. right["logging_file"] # "blank"
        BY DEF Good
      <4> QED
        BY <2>7, <3>1, <4>1, <4>2
    <3>2. CASE k # "logging_file"
      BY <2>7, <3>2, GoodIsGood DEF FieldErrors, MetricsErrors
    <3> QED
      BY <3>1, <3>2
  <2>8. CASE k \notin FieldErrors(given) /\ f[k] = given[k]
    <3>1. CASE k = "metrics_path"
      <4>1. f["metrics_listen"] # "bad" /\ PathError(f[k])
        BY <3>1 DEF FieldErrors, MetricsErrors
      <4>2. given["metrics_listen"] = "bad"
        BY <2>6, <2>8, <3>1, <4>1 DEF FieldErrors, MetricsErrors
      <4> QED
        BY <2>1, <2>5, <3>1, <4>2 DEF FieldErrors, MetricsErrors
    <3>2. CASE k = "logging_file"
      <4>1. f["logging_output"] = "file" /\ f[k] = "blank"
        BY <3>2 DEF FieldErrors, MetricsErrors
      <4>2. given["logging_output"] # "file"
        BY <2>6, <2>8, <3>2, <4>1 DEF FieldErrors
      <4>3. "logging_output" \in errs /\ right["logging_output"] = "file"
        BY <2>1, <2>3, <2>5, <4>1, <4>2
      <4> QED
        BY <3>2, <4>3, GoodIsGood
    <3>3. CASE k \notin {"metrics_path", "logging_file"}
      BY <2>6, <2>8, <3>3 DEF FieldErrors, MetricsErrors
    <3> QED
      BY <3>1, <3>2, <3>3
  <2> QED
    BY <2>3, <2>6, <2>7, <2>8
<1> QED
  BY <1>1, ValidatedCorrect, PTL

(* FitForCounting: Unique keeps the first occurrence of every word, all of *)
(* them at the same time, and no empty word passes.                        *)
THEOREM FitForCountingCorrect == Spec => []FitForCounting
<1>1. ValidatedInv => FitForCounting
  <2> SUFFICES ASSUME ValidatedInv, Accepted PROVE FitForCounting
    BY DEF FitForCounting
  <2>1. PICK s, as, cs : s = given.actions /\ as = cfg.actions
                         /\ cs = cfg.case_sensitive
    OBVIOUS
  <2>2. /\ s \in Seq(Seq(Int)) /\ s # <<>> /\ \A i \in DOMAIN s : s[i] # <<>>
        /\ as = Unique(s) /\ cs \in BOOLEAN
        /\ Lines \subseteq Seq(Int) /\ <<>> \in Lines
    BY <2>1, AcceptedWords
  <2>3. PICK p : Lists(s, Len(s), as, p)
    BY <2>2, UniqueLists
  <2>4. /\ Len(s) \in Nat /\ DOMAIN s = 1..Len(s) /\ Len(s) # 0
        /\ as \in Seq(Seq(Int)) /\ DOMAIN as = 1..Len(as) /\ Len(as) \in Nat
    BY <2>2, UniqueLists
  <2>5. /\ \A i, j \in DOMAIN as : as[i] = as[j] => i = j
        /\ \A j \in DOMAIN as : \E i \in DOMAIN s : as[j] = s[i] /\ s[i] # <<>>
        /\ \A i \in DOMAIN s : \E j \in DOMAIN as : as[j] = s[i]
    <3>1. \A i \in DOMAIN s : s[i] # <<>> => \E j \in DOMAIN as : as[j] = s[i]
      BY <2>2, UniqueWords
    <3>2. \A i \in DOMAIN s : \E j \in DOMAIN as : as[j] = s[i]
      BY <2>2, <3>1, Zenon
    <3> QED
      BY <2>2, <3>2, UniqueWords
  <2>6. as # <<>>
    <3>1. 1 \in DOMAIN s
      BY <2>4
    <3>2. PICK j \in DOMAIN as : as[j] = s[1]
      BY <2>5, <3>1
    <3>3. DOMAIN <<>> = {}
      OBVIOUS
    <3> QED
      BY <3>2, <3>3
  <2>7. {as[i] : i \in DOMAIN as} = {s[i] : i \in DOMAIN s}
    <3>1. ASSUME NEW i \in DOMAIN as PROVE as[i] \in {s[j] : j \in DOMAIN s}
      BY <2>5
    <3>2. ASSUME NEW i \in DOMAIN s PROVE s[i] \in {as[j] : j \in DOMAIN as}
      <4>1. PICK j \in DOMAIN as : as[j] = s[i]
        BY <2>5
      <4> QED
        BY <4>1
    <3> QED
      BY <3>1, <3>2
  <2>8. ASSUME NEW k \in DOMAIN as
        PROVE  p[k] = CHOOSE i \in DOMAIN s :
                         /\ s[i] = as[k]
                         /\ \A j \in 1..(i - 1) : s[j] # as[k]
    <3> DEFINE First(i) == i \in DOMAIN s /\ s[i] = as[k]
                           /\ \A j \in 1..(i - 1) : s[j] # as[k]
    <3>1. First(p[k])
      BY <2>3, <2>4 DEF Lists, Kept
    <3>2. ASSUME NEW i, First(i) PROVE i = p[k]
      <4>1. i \in Nat /\ p[k] \in Nat /\ i >= 1 /\ p[k] >= 1
        BY <2>4, <3>1, <3>2
      <4>2. i \notin 1..(p[k] - 1) /\ p[k] \notin 1..(i - 1)
        BY <3>1, <3>2
      <4> QED
        BY <4>1, <4>2
    <3> QED
      BY <3>1, <3>2
  <2>9. \A i, j \in DOMAIN as : i < j => p[i] < p[j]
    BY <2>3 DEF Lists
  <2>10. ASSUME NEW i \in DOMAIN as PROVE ~Matches(as[i], <<>>, cs)
    <3>1. as[i] \in Seq(Int) /\ Len(as[i]) \in Nat /\ Len(as[i]) # 0
      <4>1. PICK w : w = as[i]
        OBVIOUS
      <4>2. \A j \in DOMAIN as : as[j] \in Seq(Int)
        BY <2>4, ElementOfSeq
      <4>3. w \in Seq(Int) /\ w # <<>>
        BY <2>5, <4>1, <4>2
      <4>4. Len(w) \in Nat /\ Len(w) # 0
        BY <4>3
      <4> QED
        BY <4>1, <4>3, <4>4
    <3>2. PICK a, b : a = Folded(as[i], cs) /\ b = Folded(<<>>, cs)
      OBVIOUS
    <3>3. /\ a \in Seq(Int) /\ Len(a) \in Nat /\ Len(a) # 0
          /\ b \in Seq(Int) /\ Len(b) = 0
      BY <2>2, <3>1, <3>2, FoldedWords
    <3>4. ~Occurs(a, b)
      <4>1. ASSUME NEW j PROVE ~At(a, b, j)
        BY <3>3 DEF At
      <4> QED
        BY <3>3, <4>1, OccursAt
    <3> QED
      BY <3>2, <3>4 DEF Matches
  <2>11. \E line \in Lines : \A i \in DOMAIN as : ~Matches(as[i], line, cs)
    BY <2>2, <2>10
  <2>12. \A i, j \in DOMAIN as : i < j =>
            (CHOOSE k \in DOMAIN s : /\ s[k] = as[i]
                                     /\ \A l \in 1..(k - 1) : s[l] # as[i])
            < (CHOOSE k \in DOMAIN s : /\ s[k] = as[j]
                                       /\ \A l \in 1..(k - 1) : s[l] # as[j])
    BY <2>8, <2>9
  <2> QED
    BY <2>1, <2>5, <2>6, <2>7, <2>11, <2>12 DEF FitForCounting
<1> QED
  BY <1>1, ValidatedCorrect, PTL

(* Overlaps goes through every ordered pair. *)
LEMMA OverlapsPairs ==
  ASSUME NEW w, NEW cs, NEW x
  PROVE  x \in Overlaps(w, cs)
           <=> \E k, l \in DOMAIN w : x \in Overlap(k, l, w, cs)
BY DEF Overlaps

(* What it says of two of the words. *)
LEMMA OverlapsSays ==
  ASSUME NEW as, NEW cs,
         \A i, j \in DOMAIN as : as[i] = as[j] => i = j,
         NEW i \in DOMAIN as, NEW j \in DOMAIN as, i # j
  PROVE  /\ <<"substring", as[i], as[j]>> \in Overlaps(as, cs)
              <=> /\ Folded(as[i], cs) # Folded(as[j], cs)
                  /\ Occurs(Folded(as[i], cs), Folded(as[j], cs))
         /\ <<"case only", as[i], as[j]>> \in Overlaps(as, cs)
              <=> i < j /\ Folded(as[i], cs) = Folded(as[j], cs)
<1>1. ASSUME NEW kind, <<kind, as[i], as[j]>> \in Overlaps(as, cs)
      PROVE  <<kind, as[i], as[j]>> \in Overlap(i, j, as, cs)
  <2>1. PICK k \in DOMAIN as, l \in DOMAIN as :
            <<kind, as[i], as[j]>> \in Overlap(k, l, as, cs)
    BY <1>1, OverlapsPairs
  <2>2. as[k] = as[i] /\ as[l] = as[j]
    BY <2>1 DEF Overlap
  <2>3. k = i /\ l = j
    BY <2>2
  <2> QED
    BY <2>1, <2>3
<1>2. ASSUME NEW kind, <<kind, as[i], as[j]>> \in Overlap(i, j, as, cs)
      PROVE  <<kind, as[i], as[j]>> \in Overlaps(as, cs)
  BY <1>2, OverlapsPairs
<1>3. /\ <<"substring", as[i], as[j]>> \in Overlap(i, j, as, cs)
           <=> /\ Folded(as[i], cs) # Folded(as[j], cs)
               /\ Occurs(Folded(as[i], cs), Folded(as[j], cs))
      /\ <<"case only", as[i], as[j]>> \in Overlap(i, j, as, cs)
           <=> i < j /\ Folded(as[i], cs) = Folded(as[j], cs)
  BY DEF Overlap
<1> QED
  BY <1>1, <1>2, <1>3

(* Two different words can only come from a list of words of bounded       *)
(* length, and lines are at least as long as words.                        *)
LEMMA AcceptedLines ==
  ASSUME ValidatedInv, Accepted,
         NEW i \in DOMAIN cfg.actions, NEW j \in DOMAIN cfg.actions, i # j
  PROVE  \A k \in DOMAIN cfg.actions : cfg.actions[k] \in Lines
<1>1. PICK s, as : s = given.actions /\ as = cfg.actions
  OBVIOUS
<1>2. s \in Seq(Seq(Int)) /\ as = Unique(s)
  BY <1>1, AcceptedWords
<1>3. /\ \A k, l \in DOMAIN as : as[k] = as[l] => k = l
      /\ \A k \in DOMAIN as : \E l \in DOMAIN s : as[k] = s[l]
  BY <1>2, UniqueWords
<1>4. s \notin {<<>>, << <<1>> >>}
  <2>1. s # <<>>
    BY <1>1, AcceptedWords
  <2>2. s # << <<1>> >>
    <3>1. s = << <<1>> >> => \A l \in DOMAIN s : s[l] = <<1>>
      OBVIOUS
    <3>2. s = << <<1>> >> => as[i] = as[j]
      BY <1>1, <1>3, <3>1
    <3> QED
      BY <1>1, <1>3, <3>2
  <2> QED
    BY <2>1, <2>2
<1>5. s \in Strings(Strings(Characters, MaxWord), MaxWords)
  BY <1>1, <1>4 DEF ValidatedInv, GivenOK
<1>6. MaxWord \in Nat /\ MaxWords \in Nat /\ MaxLine \in Nat
      /\ MaxWord <= MaxLine
  BY ValidationAssumption
<1>7. s \in Seq(Strings(Characters, MaxWord))
  BY <1>5, <1>6, StringsAreSeqs
<1>8. ASSUME NEW w \in Strings(Characters, MaxWord) PROVE w \in Lines
  <2>1. w \in Seq(Characters) /\ Len(w) \in 0..MaxWord
    BY <1>6, StringsAreSeqs
  <2>2. Len(w) <= MaxLine
    BY <1>6, <2>1
  <2> QED
    BY <1>6, <2>1, <2>2, ShortSeqsAreStrings DEF Lines
<1>9. \A l \in DOMAIN s : s[l] \in Strings(Characters, MaxWord)
  BY <1>7
<1> QED
  BY <1>1, <1>3, <1>8, <1>9

(* OverlapsExact: that one needle occurs in another is a partial order, so *)
(* the comparison of two words in Overlaps decides for every line.         *)
THEOREM OverlapsExactCorrect == Spec => []OverlapsExact
<1>1. ValidatedInv => OverlapsExact
  <2> SUFFICES ASSUME ValidatedInv, Accepted PROVE OverlapsExact
    BY DEF OverlapsExact
  <2>1. PICK as, cs : as = cfg.actions /\ cs = cfg.case_sensitive
    OBVIOUS
  <2> DEFINE Lifts(b, a) == \A line \in Lines : Matches(b, line, cs)
                                                  => Matches(a, line, cs)
  <2>2. /\ given.actions \in Seq(Seq(Int)) /\ as = Unique(given.actions)
        /\ cs \in BOOLEAN /\ Lines \subseteq Seq(Int)
    BY <2>1, AcceptedWords
  <2>3. /\ as \in Seq(Seq(Int)) /\ DOMAIN as = 1..Len(as) /\ Len(as) \in Nat
        /\ \A i, j \in DOMAIN as : as[i] = as[j] => i = j
    BY <2>2, UniqueLists, UniqueWords
  <2>4. ASSUME NEW kind, NEW a, NEW b
        PROVE  <<kind, a, b>> \in warnings
                 <=> <<kind, a, b>> \in Overlaps(as, cs)
    <3>1. warnings = Duplicates(given.actions) \cup Overlaps(as, cs)
                       \cup ExpiryWarning(given)
      BY <2>1 DEF Accepted, ValidatedInv
    <3>2. <<kind, a, b>> \notin Duplicates(given.actions)
      BY DEF Duplicates
    <3>3. <<kind, a, b>> \notin ExpiryWarning(given)
      BY DEF ExpiryWarning
    <3> QED
      BY <3>1, <3>2, <3>3
  <2>5. ASSUME NEW i \in DOMAIN as, NEW j \in DOMAIN as, i # j
        PROVE  /\ <<"substring", as[i], as[j]>> \in warnings
                    <=> Lifts(as[j], as[i]) /\ ~Lifts(as[i], as[j])
               /\ (<<"case only", as[i], as[j]>> \in warnings
                   \/ <<"case only", as[j], as[i]>> \in warnings)
                    <=> Lifts(as[j], as[i]) /\ Lifts(as[i], as[j])
               /\ ~(<<"case only", as[i], as[j]>> \in warnings
                    /\ <<"case only", as[j], as[i]>> \in warnings)
    <3>1. PICK a, b : a = Folded(as[i], cs) /\ b = Folded(as[j], cs)
      OBVIOUS
    <3>2. /\ as[i] \in Seq(Int) /\ as[i] \in Lines
          /\ as[j] \in Seq(Int) /\ as[j] \in Lines
      BY <2>1, <2>3, <2>5, AcceptedLines
    <3>3. /\ Lifts(as[j], as[i]) <=> Occurs(a, b)
          /\ Lifts(as[i], as[j]) <=> Occurs(b, a)
      BY <2>2, <3>1, <3>2, LiftsWhenOccurs
    <3>4. Occurs(a, a) /\ (Occurs(a, b) /\ Occurs(b, a) => a = b)
      <4>1. a \in Seq(Int) /\ b \in Seq(Int)
        BY <2>2, <3>1, <3>2, FoldedWords
      <4> QED
        BY <4>1, OccursOrder
    <3>5. /\ <<"substring", as[i], as[j]>> \in warnings
               <=> a # b /\ Occurs(a, b)
          /\ <<"case only", as[i], as[j]>> \in warnings <=> i < j /\ a = b
          /\ <<"case only", as[j], as[i]>> \in warnings <=> j < i /\ a = b
      <4>1. \A k, l \in DOMAIN as : k # l =>
              /\ <<"substring", as[k], as[l]>> \in Overlaps(as, cs)
                   <=> /\ Folded(as[k], cs) # Folded(as[l], cs)
                       /\ Occurs(Folded(as[k], cs), Folded(as[l], cs))
              /\ <<"case only", as[k], as[l]>> \in Overlaps(as, cs)
                   <=> k < l /\ Folded(as[k], cs) = Folded(as[l], cs)
        BY <2>3, OverlapsSays
      <4> HIDE DEF Lifts
      <4>2. /\ <<"substring", as[i], as[j]>> \in Overlaps(as, cs)
                 <=> a # b /\ Occurs(a, b)
            /\ <<"case only", as[i], as[j]>> \in Overlaps(as, cs)
                 <=> i < j /\ a = b
        BY <2>5, <3>1, <4>1
      <4>3. <<"case only", as[j], as[i]>> \in Overlaps(as, cs)
              <=> j < i /\ a = b
        BY <2>5, <3>1, <4>1
      <4> QED
        BY <2>4, <4>2, <4>3
    <3>6. (i < j \/ j < i) /\ ~(i < j /\ j < i)
      BY <2>3, <2>5
    <3> HIDE DEF Lifts
    <3> QED
      BY <3>3, <3>4, <3>5, <3>6
  <2> QED
    BY <2>1, <2>5 DEF OverlapsExact
<1> QED
  BY <1>1, ValidatedCorrect, PTL
=============================================================================
