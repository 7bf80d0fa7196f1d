--------------------------- MODULE AnsweringProofs ---------------------------
(* Proofs about a question and its answer, for any corpus, any filters and   *)
(* limits and any number of retries, rewrites and steps: the types, that the *)
(* consensus candidates stay in the pool, that evidence is cited, and that   *)
(* every answer is the one that was checked.                                 *)
(* The lists of retrieval are folds.  The facts about them rest on Induction *)
(* and FoldSteps: a fold is its values after each element, and what holds of *)
(* the first value and carries over from one to the next holds of the last.  *)
EXTENDS Answering, FiniteSetTheorems, SequenceTheorems, TLAPS

-----------------------------------------------------------------------------
(* Folds. *)

\* A set that holds 0, and with a number the next one, holds every number.
LEMMA Induction ==
    ASSUME NEW S, 0 \in S, \A n \in Nat : n \in S => n + 1 \in S
    PROVE  Nat \subseteq S
<1> DEFINE R == OpToRel(<, Nat)
<1>1. R = {ss \in Nat \X Nat : ss[1] < ss[2]}
  BY DEF OpToRel
<1>2. IsWellFoundedOn(R, Nat)
  BY NatLessThanWellFounded DEF OpToRel
<1> HIDE DEF R
<1>3. SUFFICES ASSUME Nat \ S # {} PROVE FALSE
  OBVIOUS
<1>4. PICK n \in Nat \ S : \A m \in Nat \ S : ~(<<m, n>> \in R)
  <2>1. Nat \ S \subseteq Nat
    OBVIOUS
  <2> QED BY <1>2, <1>3, <2>1, WFMin
<1>5. n # 0
  OBVIOUS
<1>6. n - 1 \in Nat /\ n - 1 < n
  BY <1>5
<1>7. n - 1 \in S
  BY <1>1, <1>4, <1>6
<1> QED BY <1>6, <1>7

\* A set of numbers that is not empty has a least one.
LEMMA Least ==
    ASSUME NEW T, T \subseteq Nat, T # {}
    PROVE  \E m \in T : \A j \in T : m <= j
<1> DEFINE R == OpToRel(<, Nat)
<1>1. R = {ss \in Nat \X Nat : ss[1] < ss[2]}
  BY DEF OpToRel
<1>2. IsWellFoundedOn(R, Nat)
  BY NatLessThanWellFounded DEF OpToRel
<1> HIDE DEF R
<1>3. PICK m \in T : \A j \in T : ~(<<j, m>> \in R)
  BY <1>2, WFMin
<1>4. \A j \in T : ~(j < m)
  <2>1. \A j \in T : <<j, m>> \in Nat \X Nat
    OBVIOUS
  <2> QED BY <1>1, <1>3, <2>1
<1> QED BY <1>4

\* What a fold over the indexes 1..n may compute, step by step.
FoldOf(G, base, step, n) ==
    \A s \in SUBSET (1..n) :
        G[s] = IF s = {} THEN base ELSE step[<<G[s \ {Max(s)}], Max(s)>>]

\* The largest index of a set within 1..k that holds k is k.
LEMMA TopIs ==
    ASSUME NEW k \in Nat, NEW s \in SUBSET (1..k), k \in s
    PROVE  Max(s) = k
<1>1. \A y \in s : k >= y
  OBVIOUS
<1>2. \A x \in s : (\A y \in s : x >= y) => x = k
  OBVIOUS
<1> QED BY <1>1, <1>2 DEF Max

\* The largest index of a set of indexes is one of them.
LEMMA TopIn ==
    ASSUME NEW n \in Nat, NEW s \in SUBSET (1..n), s # {}
    PROVE  Max(s) \in s
<1> DEFINE T == {m \in Nat : \A k \in s : k <= m}
<1>1. n \in T
  OBVIOUS
<1>2. PICK m \in T : \A j \in T : m <= j
  <2> HIDE DEF T
  <2>1. T \subseteq Nat /\ T # {}
    BY <1>1 DEF T
  <2> QED BY <2>1, Least
<1>3. m \in s
  <2>1. SUFFICES ASSUME m \notin s PROVE FALSE
    OBVIOUS
  <2>2. \A k \in s : k <= m - 1 /\ m - 1 \in Nat
    BY <1>2, <2>1
  <2>3. m - 1 \in T
    BY <2>2
  <2> QED BY <1>2, <2>3
<1>4. \A k \in s : m >= k
  BY <1>2
<1> QED BY <1>3, <1>4 DEF Max

\* The indexes up to one of a list.
LEMMA Segment ==
    ASSUME NEW n \in Nat, NEW i \in 1..n
    PROVE  /\ 1..i \in SUBSET (1..n) /\ 1..i # {} /\ i \in 1..i /\ i \in Nat
           /\ (1..i) \ {i} = 1..(i - 1)
OBVIOUS

\* A function that computes the fold of each set of indexes exists.
LEMMA FoldExists ==
    ASSUME NEW A, NEW base \in A, NEW n \in Nat, NEW step \in [A \X (1..n) -> A]
    PROVE  \E G \in [SUBSET (1..n) -> A] : FoldOf(G, base, step, n)
<1> DEFINE S == {k \in Nat : k <= n =>
                    \E G \in [SUBSET (1..k) -> A] : FoldOf(G, base, step, k)}
<1>1. 0 \in S
  <2>1. [s \in SUBSET (1..0) |-> base] \in [SUBSET (1..0) -> A]
    OBVIOUS
  <2>2. \A s \in SUBSET (1..0) : s = {}
    OBVIOUS
  <2>3. FoldOf([s \in SUBSET (1..0) |-> base], base, step, 0)
    BY <2>2 DEF FoldOf
  <2> QED BY <2>1, <2>3
<1>2. ASSUME NEW k \in Nat, k \in S PROVE k + 1 \in S
  <2>1. SUFFICES ASSUME k + 1 <= n
                 PROVE  \E G \in [SUBSET (1..(k + 1)) -> A] : FoldOf(G, base, step, k + 1)
    <3>1. k + 1 \in Nat
      OBVIOUS
    <3> QED BY <3>1, Zenon
  <2>2. PICK G \in [SUBSET (1..k) -> A] : FoldOf(G, base, step, k)
    <3>1. k <= n
      BY <2>1
    <3>2. k <= n => \E G \in [SUBSET (1..k) -> A] : FoldOf(G, base, step, k)
      BY <1>2, Zenon
    <3> QED BY <3>1, <3>2
  <2> DEFINE H == [s \in SUBSET (1..(k + 1)) |->
                      IF k + 1 \in s THEN step[<<G[s \ {k + 1}], k + 1>>] ELSE G[s]]
  <2>3. \A s \in SUBSET (1..(k + 1)) : s \ {k + 1} \in SUBSET (1..k)
    OBVIOUS
  <2>4. \A s \in SUBSET (1..(k + 1)) : k + 1 \notin s => s \in SUBSET (1..k)
    OBVIOUS
  <2>4a. k + 1 \in 1..n
    BY <2>1
  <2>5. H \in [SUBSET (1..(k + 1)) -> A]
    BY <2>1, <2>3, <2>4, <2>4a
  <2>6. ASSUME NEW s \in SUBSET (1..(k + 1))
        PROVE  H[s] = IF s = {} THEN base ELSE step[<<H[s \ {Max(s)}], Max(s)>>]
    <3>1. CASE k + 1 \in s
      <4>1. Max(s) = k + 1
        BY <3>1, TopIs
      <4>2. H[s \ {k + 1}] = G[s \ {k + 1}]
        OBVIOUS
      <4> QED BY <3>1, <4>1, <4>2
    <3>2. CASE k + 1 \notin s
      <4>1. /\ s \in SUBSET (1..k) /\ s \ {Max(s)} \in SUBSET (1..(k + 1))
            /\ s \ {Max(s)} \in SUBSET (1..k)
        BY <2>4, <3>2
      <4>2. H[s] = G[s] /\ H[s \ {Max(s)}] = G[s \ {Max(s)}]
        BY <3>2, <4>1
      <4> HIDE DEF H
      <4> QED BY <2>2, <4>1, <4>2 DEF FoldOf
    <3> QED BY <3>1, <3>2
  <2>7. FoldOf(H, base, step, k + 1)
    <3> HIDE DEF H
    <3> QED BY <2>6 DEF FoldOf
  <2> QED BY <2>5, <2>7
<1>3. n \in S
  <2> HIDE DEF S
  <2> QED BY <1>1, <1>2, Induction
<1>4. n <= n
  OBVIOUS
<1>5. n <= n => \E G \in [SUBSET (1..n) -> A] : FoldOf(G, base, step, n)
  BY <1>3, Zenon
<1> QED BY <1>4, <1>5

\* F holds the values of a fold after each of n steps.
Steps(F, base, step, n) ==
    /\ F[0] = base
    /\ \A i \in 1..n : F[i] = step[<<F[i - 1], i>>]

\* A fold C of the segments of 1..n is reached step by step.
LEMMA FoldSteps ==
    ASSUME NEW A, NEW base \in A, NEW n \in Nat, NEW step \in [A \X (1..n) -> A],
           NEW C, C[{}] = base,
           \A i \in 1..n : C[1..(i - 1)] \in A => C[1..i] = step[<<C[1..(i - 1)], i>>]
    PROVE  \E F \in [0..n -> A] : F[n] = C[1..n] /\ Steps(F, base, step, n)
<1> DEFINE S == {i \in Nat : i <= n => C[1..i] \in A}
<1>1. 0 \in S
  <2>1. 1..0 = {}
    OBVIOUS
  <2> QED BY <2>1
<1>2. ASSUME NEW i \in Nat, i \in S PROVE i + 1 \in S
  <2>1. SUFFICES ASSUME i + 1 <= n PROVE C[1..(i + 1)] \in A
    OBVIOUS
  <2>2. i + 1 \in 1..n /\ (i + 1) - 1 = i /\ C[1..i] \in A
    BY <1>2, <2>1
  <2> QED BY <2>2
<1>3. Nat \subseteq S
  <2> HIDE DEF S
  <2> QED BY <1>1, <1>2, Induction
<1> DEFINE F == [i \in 0..n |-> C[1..i]]
<1>4. F \in [0..n -> A] /\ F[n] = C[1..n]
  BY <1>3
<1>5. F[0] = base
  <2>1. 1..0 = {}
    OBVIOUS
  <2> QED BY <2>1
<1>6. ASSUME NEW i \in 1..n PROVE F[i] = step[<<F[i - 1], i>>]
  <2>1. i \in 0..n /\ i - 1 \in 0..n
    OBVIOUS
  <2>2. C[1..(i - 1)] \in A
    BY <1>3, <2>1
  <2> QED BY <2>1, <2>2
<1> HIDE DEF F
<1> QED BY <1>4, <1>5, <1>6 DEF Steps

-----------------------------------------------------------------------------
(* The folds of the model, step by step.  *)

\* What a step of Firsts, of Kept, of Fused and of Protected makes of a list.
WithNew(found, x) == IF Contains(found, x) THEN found ELSE Append(found, x)
WithOneOf(set, kept, x) == IF x \in set THEN Append(kept, x) ELSE kept

\* The folds of Fused and of Protected.
SortedList(text, dense, list) ==
    FoldLeft(LAMBDA l, c : Inserted(text, dense, l, c), <<>>, list)
WithLate(ranked, late, safe, size) ==
    FoldLeft(LAMBDA list, c : Admitted(list, safe, size, c), ranked, late)

\* Firsts, step by step.
LEMMA FirstsSteps ==
    ASSUME NEW A, NEW list \in Seq(A)
    PROVE  \E F \in [0..Len(list) -> Seq(A)] :
               /\ F[0] = <<>>
               /\ \A i \in 1..Len(list) : F[i] = WithNew(F[i - 1], list[i])
               /\ Firsts(list) = F[Len(list)]
<1> DEFINE n == Len(list)
           step == [p \in Seq(A) \X (1..n) |-> WithNew(p[1], list[p[2]])]
           eq(G) == G = [s \in SUBSET (1..n) |->
                            IF s = {} THEN <<>>
                            ELSE WithNew(G[s \ {Max(s)}], list[Max(s)])]
           C == CHOOSE G : eq(G)
<1>1. DOMAIN list = 1..n /\ n \in Nat
  OBVIOUS
<1>2. Firsts(list) = C[1..n]
  BY <1>1, Zenon DEF Firsts, WithNew, FoldLeft, MapThenFoldSet
<1>3. step \in [Seq(A) \X (1..n) -> Seq(A)] /\ <<>> \in Seq(A)
  BY DEF WithNew
<1>4. \A l \in Seq(A), i \in 1..n : step[<<l, i>>] = WithNew(l, list[i])
  OBVIOUS
<1>5. \E G : eq(G)
  <2> HIDE DEF step
  <2>1. PICK G \in [SUBSET (1..n) -> Seq(A)] : FoldOf(G, <<>>, step, n)
    BY <1>1, <1>3, FoldExists
  <2>2. ASSUME NEW s \in SUBSET (1..n), s # {}
        PROVE  G[s] = WithNew(G[s \ {Max(s)}], list[Max(s)])
    <3>1. Max(s) \in 1..n
      BY <1>1, <2>2, TopIn
    <3>2. G[s] = step[<<G[s \ {Max(s)}], Max(s)>>]
      BY <2>1, <2>2 DEF FoldOf
    <3>3. G[s \ {Max(s)}] \in Seq(A)
      OBVIOUS
    <3> QED BY <1>4, <3>1, <3>2, <3>3
  <2>3. G[{}] = <<>>
    BY <2>1 DEF FoldOf
  <2>4. eq(G)
    BY <2>2, <2>3
  <2> QED BY <2>4
<1>6. eq(C)
  <2> HIDE DEF eq
  <2> QED BY <1>5
<1> HIDE DEF C, step, n
<1>7. C[{}] = <<>>
  BY <1>6
<1>8. \A i \in 1..n : C[1..(i - 1)] \in Seq(A) =>
                         C[1..i] = step[<<C[1..(i - 1)], i>>]
  <2> SUFFICES ASSUME NEW i \in 1..n, C[1..(i - 1)] \in Seq(A)
               PROVE  C[1..i] = step[<<C[1..(i - 1)], i>>]
    OBVIOUS
  <2>1. 1..i \in SUBSET (1..n) /\ 1..i # {} /\ i \in 1..i /\ i \in Nat
    BY <1>1, Segment
  <2>2. Max(1..i) = i /\ (1..i) \ {i} = 1..(i - 1)
    BY <1>1, <2>1, TopIs, Segment
  <2>3. C[1..i] = WithNew(C[1..(i - 1)], list[i])
    BY <1>6, <2>1, <2>2
  <2> QED BY <1>4, <2>3
<1>9. PICK F \in [0..n -> Seq(A)] : F[n] = C[1..n] /\ Steps(F, <<>>, step, n)
  <2>1. \E F \in [0..n -> Seq(A)] : F[n] = C[1..n] /\ Steps(F, <<>>, step, n)
    BY <1>1, <1>3, <1>7, <1>8, FoldSteps, Zenon
  <2> QED BY <2>1
<1>10. \A i \in 1..n : F[i] = WithNew(F[i - 1], list[i])
  <2>1. \A i \in 1..n : F[i - 1] \in Seq(A)
    BY <1>1
  <2> QED BY <1>4, <1>9, <2>1 DEF Steps
<1> QED BY <1>2, <1>9, <1>10 DEF Steps, n

\* Kept, step by step.
KeptStepwise(A, list, set) ==
    \E F \in [0..Len(list) -> Seq(A)] :
        /\ F[0] = <<>>
        /\ \A i \in 1..Len(list) : F[i] = WithOneOf(set, F[i - 1], list[i])
        /\ Kept(list, set) = F[Len(list)]

\* Kept goes through its list from the front.
LEMMA KeptSteps ==
    ASSUME NEW A, NEW list \in Seq(A), NEW set
    PROVE  KeptStepwise(A, list, set)
<1> DEFINE n == Len(list)
           step == [p \in Seq(A) \X (1..n) |-> WithOneOf(set, p[1], list[p[2]])]
           eq(G) == G = [s \in SUBSET (1..n) |->
                            IF s = {} THEN <<>>
                            ELSE WithOneOf(set, G[s \ {Max(s)}], list[Max(s)])]
           C == CHOOSE G : eq(G)
<1>1. DOMAIN list = 1..n /\ n \in Nat
  OBVIOUS
<1>2. Kept(list, set) = C[1..n]
  BY <1>1, Zenon DEF Kept, WithOneOf, FoldLeft, MapThenFoldSet
<1>3. step \in [Seq(A) \X (1..n) -> Seq(A)] /\ <<>> \in Seq(A)
  BY DEF WithOneOf
<1>4. \A l \in Seq(A), i \in 1..n : step[<<l, i>>] = WithOneOf(set, l, list[i])
  OBVIOUS
<1>5. \E G : eq(G)
  <2> HIDE DEF step
  <2>1. PICK G \in [SUBSET (1..n) -> Seq(A)] : FoldOf(G, <<>>, step, n)
    BY <1>1, <1>3, FoldExists
  <2>2. ASSUME NEW s \in SUBSET (1..n), s # {}
        PROVE  G[s] = WithOneOf(set, G[s \ {Max(s)}], list[Max(s)])
    <3>1. Max(s) \in 1..n
      BY <1>1, <2>2, TopIn
    <3>2. G[s] = step[<<G[s \ {Max(s)}], Max(s)>>]
      BY <2>1, <2>2 DEF FoldOf
    <3>3. G[s \ {Max(s)}] \in Seq(A)
      OBVIOUS
    <3> QED BY <1>4, <3>1, <3>2, <3>3
  <2>3. G[{}] = <<>>
    BY <2>1 DEF FoldOf
  <2>4. eq(G)
    BY <2>2, <2>3
  <2> QED BY <2>4
<1>6. eq(C)
  <2> HIDE DEF eq
  <2> QED BY <1>5
<1> HIDE DEF C, step, n
<1>7. C[{}] = <<>>
  BY <1>6
<1>8. \A i \in 1..n : C[1..(i - 1)] \in Seq(A) =>
                         C[1..i] = step[<<C[1..(i - 1)], i>>]
  <2> SUFFICES ASSUME NEW i \in 1..n, C[1..(i - 1)] \in Seq(A)
               PROVE  C[1..i] = step[<<C[1..(i - 1)], i>>]
    OBVIOUS
  <2>1. 1..i \in SUBSET (1..n) /\ 1..i # {} /\ i \in 1..i /\ i \in Nat
    BY <1>1, Segment
  <2>2. Max(1..i) = i /\ (1..i) \ {i} = 1..(i - 1)
    BY <1>1, <2>1, TopIs, Segment
  <2>3. C[1..i] = WithOneOf(set, C[1..(i - 1)], list[i])
    BY <1>6, <2>1, <2>2
  <2> QED BY <1>4, <2>3
<1>9. PICK F \in [0..n -> Seq(A)] : F[n] = C[1..n] /\ Steps(F, <<>>, step, n)
  <2>1. \E F \in [0..n -> Seq(A)] : F[n] = C[1..n] /\ Steps(F, <<>>, step, n)
    BY <1>1, <1>3, <1>7, <1>8, FoldSteps, Zenon
  <2> QED BY <2>1
<1>10. \A i \in 1..n : F[i] = WithOneOf(set, F[i - 1], list[i])
  <2>1. \A i \in 1..n : F[i - 1] \in Seq(A)
    BY <1>1
  <2> QED BY <1>4, <1>9, <2>1 DEF Steps
<1> QED BY <1>2, <1>9, <1>10 DEF KeptStepwise, Steps, n

\* A place of a list, put into words.
LEMMA InsertAtTyped ==
    ASSUME NEW A, NEW list \in Seq(A), NEW x \in A, NEW p \in 1..(Len(list) + 1)
    PROVE  /\ InsertAt(list, p, x) \in Seq(A)
           /\ Len(InsertAt(list, p, x)) = Len(list) + 1
           /\ \A k \in 1..(Len(list) + 1) :
                  InsertAt(list, p, x)[k] = IF k < p THEN list[k]
                                            ELSE IF k = p THEN x ELSE list[k - 1]
<1> DEFINE a == SubSeq(list, 1, p - 1)
           b == SubSeq(list, p, Len(list))
           ax == a \o <<x>>
<1>1. a \in Seq(A) /\ Len(a) = p - 1 /\ \A k \in 1..(p - 1) : a[k] = list[k]
  OBVIOUS
<1>2. /\ b \in Seq(A) /\ Len(b) = Len(list) + 1 - p
      /\ \A k \in 1..(Len(list) + 1 - p) : b[k] = list[p + k - 1]
  OBVIOUS
<1>3. <<x>> \in Seq(A) /\ Len(<<x>>) = 1 /\ <<x>>[1] = x
  OBVIOUS
<1>4. InsertAt(list, p, x) = ax \o b
  BY DEF InsertAt
<1> HIDE DEF a, b
<1>5. /\ ax \in Seq(A) /\ Len(ax) = p
      /\ \A k \in 1..p : ax[k] = IF k < p THEN list[k] ELSE x
  BY <1>1, <1>3
<1> HIDE DEF ax
<1>6. /\ ax \o b \in Seq(A) /\ Len(ax \o b) = Len(list) + 1
      /\ \A k \in 1..(Len(list) + 1) : (ax \o b)[k] = IF k <= p THEN ax[k] ELSE b[k - p]
  <2>1. p + (Len(list) + 1 - p) = Len(list) + 1 /\ p \in Nat /\ Len(list) \in Nat
    OBVIOUS
  <2> QED BY <1>2, <1>5, <2>1, ConcatProperties
<1> QED BY <1>2, <1>4, <1>5, <1>6

\* Where a chunk is inserted.
LEMMA InsertedPlace ==
    ASSUME NEW list \in Seq(Children), NEW c \in Children, NEW text, NEW dense
    PROVE  \E p \in 1..(Len(list) + 1) :
               Inserted(text, dense, list, c) = InsertAt(list, p, c)
<1> DEFINE ahead == {k \in DOMAIN list :
                        Score(text, dense, list[k]) >= Score(text, dense, c)}
<1>1. ahead \subseteq 1..Len(list)
  OBVIOUS
<1>2. Inserted(text, dense, list, c) = InsertAt(list, Cardinality(ahead) + 1, c)
  BY DEF Inserted
<1> HIDE DEF ahead
<1>3. IsFiniteSet(1..Len(list)) /\ Cardinality(1..Len(list)) = Len(list)
  <2>1. Len(list) \in Nat
    OBVIOUS
  <2>2. \A n \in Int : /\ IsFiniteSet(1..n)
                         /\ Cardinality(1..n) = IF 1 > n THEN 0 ELSE n - 1 + 1
    BY FS_Interval
  <2> QED BY <2>1, <2>2
<1>4. Cardinality(ahead) \in Nat /\ Cardinality(ahead) <= Len(list)
  BY <1>1, <1>3, FS_Subset, FS_CardinalityType
<1>5. Cardinality(ahead) + 1 \in 1..(Len(list) + 1)
  BY <1>4
<1> QED BY <1>2, <1>5

\* Insertion keeps the type.
LEMMA InsertedTyped ==
    ASSUME NEW list \in Seq(Children), NEW c \in Children, NEW text, NEW dense
    PROVE  Inserted(text, dense, list, c) \in Seq(Children)
BY InsertedPlace, InsertAtTyped

\* The sorting of Fused, step by step.
SortStepwise(list, text, dense) ==
    \E F \in [0..Len(list) -> Seq(Children)] :
        /\ F[0] = <<>>
        /\ \A i \in 1..Len(list) : F[i] = Inserted(text, dense, F[i - 1], list[i])
        /\ SortedList(text, dense, list) = F[Len(list)]

\* Fused inserts the identifiers of its list one by one.
LEMMA InsertSteps ==
    ASSUME NEW list \in Seq(Children), NEW text, NEW dense
    PROVE  SortStepwise(list, text, dense)
<1> DEFINE n == Len(list)
           step == [p \in Seq(Children) \X (1..n) |-> Inserted(text, dense, p[1], list[p[2]])]
           eq(G) == G = [s \in SUBSET (1..n) |->
                            IF s = {} THEN <<>>
                            ELSE Inserted(text, dense, G[s \ {Max(s)}], list[Max(s)])]
           C == CHOOSE G : eq(G)
<1>1. DOMAIN list = 1..n /\ n \in Nat
  OBVIOUS
<1>2. SortedList(text, dense, list) = C[1..n]
  BY <1>1, Zenon DEF SortedList, FoldLeft, MapThenFoldSet
<1>3. step \in [Seq(Children) \X (1..n) -> Seq(Children)] /\ <<>> \in Seq(Children)
  BY InsertedTyped
<1>4. \A l \in Seq(Children), i \in 1..n : step[<<l, i>>] = Inserted(text, dense, l, list[i])
  OBVIOUS
<1>5. \E G : eq(G)
  <2> HIDE DEF step
  <2>1. PICK G \in [SUBSET (1..n) -> Seq(Children)] : FoldOf(G, <<>>, step, n)
    BY <1>1, <1>3, FoldExists
  <2>2. ASSUME NEW s \in SUBSET (1..n), s # {}
        PROVE  G[s] = Inserted(text, dense, G[s \ {Max(s)}], list[Max(s)])
    <3>1. Max(s) \in 1..n
      BY <1>1, <2>2, TopIn
    <3>2. G[s] = step[<<G[s \ {Max(s)}], Max(s)>>]
      BY <2>1, <2>2 DEF FoldOf
    <3>3. G[s \ {Max(s)}] \in Seq(Children)
      OBVIOUS
    <3> QED BY <1>4, <3>1, <3>2, <3>3
  <2>3. G[{}] = <<>>
    BY <2>1 DEF FoldOf
  <2>4. eq(G)
    BY <2>2, <2>3
  <2> QED BY <2>4
<1>6. eq(C)
  <2> HIDE DEF eq
  <2> QED BY <1>5
<1> HIDE DEF C, step, n
<1>7. C[{}] = <<>>
  BY <1>6
<1>8. \A i \in 1..n : C[1..(i - 1)] \in Seq(Children) =>
                         C[1..i] = step[<<C[1..(i - 1)], i>>]
  <2> SUFFICES ASSUME NEW i \in 1..n, C[1..(i - 1)] \in Seq(Children)
               PROVE  C[1..i] = step[<<C[1..(i - 1)], i>>]
    OBVIOUS
  <2>1. 1..i \in SUBSET (1..n) /\ 1..i # {} /\ i \in 1..i /\ i \in Nat
    BY <1>1, Segment
  <2>2. Max(1..i) = i /\ (1..i) \ {i} = 1..(i - 1)
    BY <1>1, <2>1, TopIs, Segment
  <2>3. C[1..i] = Inserted(text, dense, C[1..(i - 1)], list[i])
    BY <1>6, <2>1, <2>2
  <2> QED BY <1>4, <2>3
<1>9. PICK F \in [0..n -> Seq(Children)] : F[n] = C[1..n] /\ Steps(F, <<>>, step, n)
  <2>1. \E F \in [0..n -> Seq(Children)] : F[n] = C[1..n] /\ Steps(F, <<>>, step, n)
    BY <1>1, <1>3, <1>7, <1>8, FoldSteps, Zenon
  <2> QED BY <2>1
<1>10. \A i \in 1..n : F[i] = Inserted(text, dense, F[i - 1], list[i])
  <2>1. \A i \in 1..n : F[i - 1] \in Seq(Children)
    BY <1>1
  <2> QED BY <1>4, <1>9, <2>1 DEF Steps
<1> QED BY <1>2, <1>9, <1>10 DEF SortStepwise, Steps, n

\* Where there is room: at a place whose candidate is not protected.
LEMMA RoomPlace ==
    ASSUME NEW A, NEW list \in Seq(A), NEW safe
    PROVE  \/ RoomIn(list, safe) = 0 /\ \A k \in 1..Len(list) : list[k] \in safe
           \/ RoomIn(list, safe) \in 1..Len(list) /\ list[RoomIn(list, safe)] \notin safe
<1> DEFINE I == {k \in 1..Len(list) : list[k] \notin safe}
<1>1. RoomIn(list, safe) = IF I # {} THEN Max(I) ELSE 0
  BY DEF RoomIn, SelectLastInSeq
<1>2. CASE I = {}
  BY <1>1, <1>2
<1>3. CASE I # {}
  <2>1. I \in SUBSET (1..Len(list)) /\ Len(list) \in Nat
    OBVIOUS
  <2>2. Max(I) \in I
    <3> HIDE DEF I
    <3> QED BY <1>3, <2>1, TopIn
  <2> QED BY <1>1, <1>3, <2>2
<1> QED BY <1>2, <1>3

\* Admission keeps the type.
LEMMA AdmittedTyped ==
    ASSUME NEW list \in Seq(Children), NEW c \in Children, NEW safe, NEW size
    PROVE  Admitted(list, safe, size, c) \in Seq(Children)
<1>1. CASE Len(list) < size
  BY <1>1 DEF Admitted
<1>2. CASE ~(Len(list) < size) /\ RoomIn(list, safe) = 0
  BY <1>2 DEF Admitted
<1>3. CASE ~(Len(list) < size) /\ RoomIn(list, safe) # 0
  <2>1. RoomIn(list, safe) \in 1..Len(list)
    BY <1>3, RoomPlace
  <2>2. Admitted(list, safe, size, c) = [list EXCEPT ![RoomIn(list, safe)] = c]
    BY <1>3 DEF Admitted, ReplaceAt
  <2> QED BY <2>1, <2>2
<1> QED BY <1>1, <1>2, <1>3

\* Protected, step by step.
AdmitStepwise(ranked, late, safe, size) ==
    \E F \in [0..Len(late) -> Seq(Children)] :
        /\ F[0] = ranked
        /\ \A i \in 1..Len(late) : F[i] = Admitted(F[i - 1], safe, size, late[i])
        /\ WithLate(ranked, late, safe, size) = F[Len(late)]

\* Protected admits the late consensus candidates one by one.
LEMMA AdmitSteps ==
    ASSUME NEW ranked \in Seq(Children), NEW size, NEW late \in Seq(Children), NEW safe
    PROVE  AdmitStepwise(ranked, late, safe, size)
<1> DEFINE n == Len(late)
           step == [p \in Seq(Children) \X (1..n) |-> Admitted(p[1], safe, size, late[p[2]])]
           eq(G) == G = [s \in SUBSET (1..n) |->
                            IF s = {} THEN ranked
                            ELSE Admitted(G[s \ {Max(s)}], safe, size, late[Max(s)])]
           C == CHOOSE G : eq(G)
<1>1. DOMAIN late = 1..n /\ n \in Nat
  OBVIOUS
<1>2. WithLate(ranked, late, safe, size) = C[1..n]
  BY <1>1, Zenon DEF WithLate, FoldLeft, MapThenFoldSet
<1>3. step \in [Seq(Children) \X (1..n) -> Seq(Children)] /\ ranked \in Seq(Children)
  BY AdmittedTyped
<1>4. \A l \in Seq(Children), i \in 1..n : step[<<l, i>>] = Admitted(l, safe, size, late[i])
  OBVIOUS
<1>5. \E G : eq(G)
  <2> HIDE DEF step
  <2>1. PICK G \in [SUBSET (1..n) -> Seq(Children)] : FoldOf(G, ranked, step, n)
    BY <1>1, <1>3, FoldExists
  <2>2. ASSUME NEW s \in SUBSET (1..n), s # {}
        PROVE  G[s] = Admitted(G[s \ {Max(s)}], safe, size, late[Max(s)])
    <3>1. Max(s) \in 1..n
      BY <1>1, <2>2, TopIn
    <3>2. G[s] = step[<<G[s \ {Max(s)}], Max(s)>>]
      BY <2>1, <2>2 DEF FoldOf
    <3>3. G[s \ {Max(s)}] \in Seq(Children)
      OBVIOUS
    <3> QED BY <1>4, <3>1, <3>2, <3>3
  <2>3. G[{}] = ranked
    BY <2>1 DEF FoldOf
  <2>4. eq(G)
    BY <2>2, <2>3
  <2> QED BY <2>4
<1>6. eq(C)
  <2> HIDE DEF eq
  <2> QED BY <1>5
<1> HIDE DEF C, step, n
<1>7. C[{}] = ranked
  BY <1>6
<1>8. \A i \in 1..n : C[1..(i - 1)] \in Seq(Children) =>
                         C[1..i] = step[<<C[1..(i - 1)], i>>]
  <2> SUFFICES ASSUME NEW i \in 1..n, C[1..(i - 1)] \in Seq(Children)
               PROVE  C[1..i] = step[<<C[1..(i - 1)], i>>]
    OBVIOUS
  <2>1. 1..i \in SUBSET (1..n) /\ 1..i # {} /\ i \in 1..i /\ i \in Nat
    BY <1>1, Segment
  <2>2. Max(1..i) = i /\ (1..i) \ {i} = 1..(i - 1)
    BY <1>1, <2>1, TopIs, Segment
  <2>3. C[1..i] = Admitted(C[1..(i - 1)], safe, size, late[i])
    BY <1>6, <2>1, <2>2
  <2> QED BY <1>4, <2>3
<1>9. PICK F \in [0..n -> Seq(Children)] : F[n] = C[1..n] /\ Steps(F, ranked, step, n)
  <2>1. \E F \in [0..n -> Seq(Children)] : F[n] = C[1..n] /\ Steps(F, ranked, step, n)
    BY <1>1, <1>3, <1>7, <1>8, FoldSteps, ZenonT(40)
  <2> QED BY <2>1
<1>10. \A i \in 1..n : F[i] = Admitted(F[i - 1], safe, size, late[i])
  <2>1. \A i \in 1..n : F[i - 1] \in Seq(Children)
    BY <1>1
  <2> QED BY <1>4, <1>9, <2>1 DEF Steps
<1> QED BY <1>2, <1>9, <1>10 DEF AdmitStepwise, Steps, n

-----------------------------------------------------------------------------
(* Lists: what is in them, and what comes once. *)

\* The elements of a list, and whether it has one of them.
LEMMA ElementsIs ==
    ASSUME NEW A, NEW l \in Seq(A)
    PROVE  /\ ToSet(l) = {l[k] : k \in 1..Len(l)} /\ ToSet(l) \subseteq A
           /\ \A x : Contains(l, x) <=> x \in ToSet(l)
           /\ IsInjective(l) <=> \A j, k \in 1..Len(l) : l[j] = l[k] => j = k
<1>1. DOMAIN l = 1..Len(l) /\ \A k \in 1..Len(l) : l[k] \in A
  OBVIOUS
<1> QED BY <1>1 DEF ToSet, Contains, IsInjective

\* One more element.
LEMMA AppendIs ==
    ASSUME NEW A, NEW l \in Seq(A), NEW x \in A
    PROVE  /\ Append(l, x) \in Seq(A)
           /\ ToSet(Append(l, x)) = ToSet(l) \cup {x}
           /\ IsInjective(l) /\ x \notin ToSet(l) => IsInjective(Append(l, x))
<1> DEFINE m == Append(l, x)
<1>1. m \in Seq(A) /\ Len(m) = Len(l) + 1 /\ Len(l) \in Nat
  OBVIOUS
<1>2. \A k \in 1..Len(m) : m[k] = IF k = Len(l) + 1 THEN x ELSE l[k]
  OBVIOUS
<1> HIDE DEF m
<1>3. ToSet(m) = {m[k] : k \in 1..Len(m)} /\ ToSet(l) = {l[k] : k \in 1..Len(l)}
  BY <1>1, ElementsIs
<1>4. ToSet(m) = ToSet(l) \cup {x}
  <2>1. \A k \in 1..Len(l) : k \in 1..Len(m) /\ m[k] = l[k]
    BY <1>1, <1>2
  <2>2. Len(m) \in 1..Len(m) /\ m[Len(m)] = x
    BY <1>1, <1>2
  <2>3. \A k \in 1..Len(m) : m[k] \in ToSet(l) \cup {x}
    BY <1>1, <1>2, <1>3
  <2> QED BY <1>3, <2>1, <2>2, <2>3
<1>5. ASSUME IsInjective(l), x \notin ToSet(l) PROVE IsInjective(m)
  <2>1. \A j, k \in 1..Len(l) : l[j] = l[k] => j = k
    BY <1>5, ElementsIs
  <2>2. \A k \in 1..Len(l) : l[k] # x
    BY <1>3, <1>5
  <2>3. \A j, k \in 1..Len(m) : m[j] = m[k] => j = k
    BY <1>1, <1>2, <2>1, <2>2
  <2> QED BY <1>1, <2>3, ElementsIs
<1> QED BY <1>1, <1>4, <1>5 DEF m

\* Two lists in a row.
LEMMA ConcatIs ==
    ASSUME NEW A, NEW a \in Seq(A), NEW b \in Seq(A)
    PROVE  /\ a \o b \in Seq(A) /\ Len(a \o b) = Len(a) + Len(b)
           /\ ToSet(a \o b) = ToSet(a) \cup ToSet(b)
           /\ IsInjective(a) /\ IsInjective(b) /\ ToSet(a) \cap ToSet(b) = {}
                  => IsInjective(a \o b)
<1> DEFINE m == a \o b
<1>0. Len(a) \in Nat /\ Len(b) \in Nat
  OBVIOUS
<1>1. m \in Seq(A) /\ Len(m) = Len(a) + Len(b)
  BY ConcatProperties
<1>2. \A k \in 1..Len(m) : m[k] = IF k <= Len(a) THEN a[k] ELSE b[k - Len(a)]
  BY <1>1, ConcatProperties
<1> HIDE DEF m
<1>3. /\ ToSet(m) = {m[k] : k \in 1..Len(m)} /\ ToSet(a) = {a[k] : k \in 1..Len(a)}
      /\ ToSet(b) = {b[k] : k \in 1..Len(b)}
  BY <1>1, ElementsIs
<1>4. ToSet(m) = ToSet(a) \cup ToSet(b)
  <2>1. \A k \in 1..Len(a) : k \in 1..Len(m) /\ m[k] = a[k]
    BY <1>0, <1>1, <1>2
  <2>2. ASSUME NEW k \in 1..Len(b)
        PROVE  Len(a) + k \in 1..Len(m) /\ m[Len(a) + k] = b[k]
    <3>1. /\ Len(a) + k \in 1..Len(m) /\ ~(Len(a) + k <= Len(a))
          /\ (Len(a) + k) - Len(a) = k
      BY <1>0, <1>1
    <3> QED BY <1>2, <3>1
  <2>3. \A k \in 1..Len(m) : ~(k <= Len(a)) => k - Len(a) \in 1..Len(b)
    BY <1>0, <1>1
  <2>4. \A k \in 1..Len(m) : k <= Len(a) => k \in 1..Len(a)
    BY <1>0, <1>1
  <2>5. \A k \in 1..Len(m) : m[k] \in ToSet(a) \cup ToSet(b)
    BY <1>2, <1>3, <2>3, <2>4
  <2> QED BY <1>3, <2>1, <2>2, <2>5
<1>5. ASSUME IsInjective(a), IsInjective(b), ToSet(a) \cap ToSet(b) = {}
      PROVE  IsInjective(m)
  <2>1. /\ \A j, k \in 1..Len(a) : a[j] = a[k] => j = k
        /\ \A j, k \in 1..Len(b) : b[j] = b[k] => j = k
    BY <1>5, ElementsIs
  <2>2. \A j \in 1..Len(a), k \in 1..Len(b) : a[j] # b[k]
    BY <1>3, <1>5
  <2>3. ASSUME NEW j \in 1..Len(m), NEW k \in 1..Len(m), m[j] = m[k] PROVE j = k
    <3>1. CASE j <= Len(a) /\ k <= Len(a)
      BY <1>0, <1>1, <1>2, <2>1, <2>3, <3>1
    <3>2. CASE j <= Len(a) /\ ~(k <= Len(a))
      <4>1. j \in 1..Len(a) /\ k - Len(a) \in 1..Len(b)
        BY <1>0, <1>1, <3>2
      <4> QED BY <1>2, <2>2, <2>3, <3>2, <4>1
    <3>3. CASE ~(j <= Len(a)) /\ k <= Len(a)
      <4>1. k \in 1..Len(a) /\ j - Len(a) \in 1..Len(b)
        BY <1>0, <1>1, <3>3
      <4> QED BY <1>2, <2>2, <2>3, <3>3, <4>1
    <3>4. CASE ~(j <= Len(a)) /\ ~(k <= Len(a))
      <4>1. j - Len(a) \in 1..Len(b) /\ k - Len(a) \in 1..Len(b)
        BY <1>0, <1>1, <3>4
      <4>2. j - Len(a) = k - Len(a)
        BY <1>2, <2>1, <2>3, <3>4, <4>1
      <4> QED BY <1>0, <4>2
    <3> QED BY <3>1, <3>2, <3>3, <3>4
  <2> QED BY <1>1, <2>3, ElementsIs
<1> QED BY <1>1, <1>4, <1>5 DEF m

\* The first of a list.
LEMMA PrefixIs ==
    ASSUME NEW A, NEW l \in Seq(A), NEW m \in 0..Len(l)
    PROVE  /\ SubSeq(l, 1, m) \in Seq(A) /\ Len(SubSeq(l, 1, m)) = m
           /\ ToSet(SubSeq(l, 1, m)) \subseteq ToSet(l)
           /\ IsInjective(l) => IsInjective(SubSeq(l, 1, m))
<1> DEFINE p == SubSeq(l, 1, m)
<1>0. Len(l) \in Nat /\ m \in Nat
  OBVIOUS
<1>1. p \in Seq(A) /\ Len(p) = m /\ \A k \in 1..m : p[k] = l[k]
  BY <1>0
<1> HIDE DEF p
<1>2. /\ ToSet(p) = {p[k] : k \in 1..m} /\ ToSet(l) = {l[k] : k \in 1..Len(l)}
  BY <1>1, ElementsIs
<1>3. \A k \in 1..m : k \in 1..Len(l)
  BY <1>0
<1>4. ToSet(p) \subseteq ToSet(l)
  BY <1>1, <1>2, <1>3
<1>5. ASSUME IsInjective(l) PROVE IsInjective(p)
  <2>1. \A j, k \in 1..Len(l) : l[j] = l[k] => j = k
    BY <1>5, ElementsIs
  <2>2. \A j, k \in 1..Len(p) : p[j] = p[k] => j = k
    BY <1>1, <1>3, <2>1
  <2> QED BY <1>1, <2>2, ElementsIs
<1> QED BY <1>1, <1>4, <1>5 DEF p

\* The lesser of two numbers.
LEMMA LesserIs ==
    ASSUME NEW a \in Nat, NEW b \in Nat
    PROVE  Min({a, b}) = IF a <= b THEN a ELSE b
<1> DEFINE m == IF a <= b THEN a ELSE b
<1>1. m \in {a, b} /\ \A y \in {a, b} : m <= y
  OBVIOUS
<1>2. \A x \in {a, b} : (\A y \in {a, b} : x <= y) => x = m
  OBVIOUS
<1> QED BY <1>1, <1>2 DEF Min

\* The first of a list, no more than a limit.
LEMMA CutIs ==
    ASSUME NEW A, NEW l \in Seq(A), NEW limit \in Nat
    PROVE  LET cut == SubSeq(l, 1, Min({limit, Len(l)}))
           IN  /\ cut \in Seq(A) /\ ToSet(cut) \subseteq ToSet(l)
               /\ IsInjective(l) => IsInjective(cut)
<1>1. Len(l) \in Nat
  OBVIOUS
<1>2. Min({limit, Len(l)}) \in 0..Len(l)
  BY <1>1, LesserIs
<1> QED BY <1>2, PrefixIs

\* Firsts has what the list has, once.
LEMMA FirstsIs ==
    ASSUME NEW A, NEW list \in Seq(A)
    PROVE  /\ Firsts(list) \in Seq(A) /\ IsInjective(Firsts(list))
           /\ ToSet(Firsts(list)) = ToSet(list)
<1> DEFINE n == Len(list)
<1>0. n \in Nat /\ \A i \in 1..n : list[i] \in A
  OBVIOUS
<1>1. PICK F \in [0..n -> Seq(A)] :
          /\ F[0] = <<>> /\ Firsts(list) = F[n]
          /\ \A i \in 1..n : F[i] = WithNew(F[i - 1], list[i])
  BY FirstsSteps
<1> HIDE DEF n
<1> DEFINE good(i) == IsInjective(F[i]) /\ ToSet(F[i]) = {list[j] : j \in 1..i}
           S == {i \in Nat : i <= n => good(i)}
<1>2. 0 \in S
  <2>1. IsInjective(<<>>) /\ ToSet(<<>>) = {}
    BY DEF IsInjective, ToSet
  <2> QED BY <1>1, <2>1
<1>3. ASSUME NEW i \in Nat, i \in S PROVE i + 1 \in S
  <2>1. SUFFICES ASSUME i + 1 <= n PROVE good(i + 1)
    <3> HIDE DEF good
    <3> QED OBVIOUS
  <2>2. good(i)
    <3> HIDE DEF good
    <3> QED BY <1>0, <1>3, <2>1
  <2>3. i \in 0..n /\ i + 1 \in 1..n /\ (i + 1) - 1 = i /\ 1..(i + 1) = 1..i \cup {i + 1}
    BY <1>0, <2>1
  <2>4. F[i] \in Seq(A) /\ list[i + 1] \in A
    BY <1>0, <2>3
  <2>5. F[i + 1] = WithNew(F[i], list[i + 1])
    BY <1>1, <2>3
  <2>6. {list[j] : j \in 1..(i + 1)} = {list[j] : j \in 1..i} \cup {list[i + 1]}
    BY <2>3
  <2>7. CASE Contains(F[i], list[i + 1])
    <3>1. list[i + 1] \in ToSet(F[i])
      BY <2>4, <2>7, ElementsIs
    <3> QED BY <2>2, <2>5, <2>6, <2>7, <3>1 DEF WithNew
  <2>8. CASE ~Contains(F[i], list[i + 1])
    <3>1. list[i + 1] \notin ToSet(F[i])
      BY <2>4, <2>8, ElementsIs
    <3>2. F[i + 1] = Append(F[i], list[i + 1])
      BY <2>5, <2>8 DEF WithNew
    <3> QED BY <2>2, <2>4, <2>6, <3>1, <3>2, AppendIs
  <2> QED BY <2>7, <2>8
<1>4. n \in S
  <2> HIDE DEF S
  <2> QED BY <1>0, <1>2, <1>3, Induction
<1>5. good(n)
  <2> HIDE DEF good
  <2> QED BY <1>0, <1>4
<1>6. ToSet(list) = {list[j] : j \in 1..n}
  BY ElementsIs DEF n
<1> QED BY <1>0, <1>1, <1>5, <1>6

\* Kept has what the list and the set have, once if the list does.
LEMMA KeptIs ==
    ASSUME NEW A, NEW list \in Seq(A), NEW set
    PROVE  /\ Kept(list, set) \in Seq(A)
           /\ ToSet(Kept(list, set)) = ToSet(list) \cap set
           /\ IsInjective(list) => IsInjective(Kept(list, set))
<1> DEFINE n == Len(list)
<1>0. n \in Nat /\ \A i \in 1..n : list[i] \in A
  OBVIOUS
<1>1. PICK F \in [0..n -> Seq(A)] :
          /\ F[0] = <<>>
          /\ \A i \in 1..n : F[i] = WithOneOf(set, F[i - 1], list[i])
          /\ Kept(list, set) = F[n]
  <2>1. KeptStepwise(A, list, set)
    BY KeptSteps
  <2> QED BY <2>1 DEF KeptStepwise
<1> HIDE DEF n
<1> DEFINE good(i) == /\ ToSet(F[i]) = {list[j] : j \in 1..i} \cap set
                      /\ IsInjective(list) => IsInjective(F[i])
           S == {i \in Nat : i <= n => good(i)}
<1>2. 0 \in S
  <2>1. IsInjective(<<>>) /\ ToSet(<<>>) = {}
    BY DEF IsInjective, ToSet
  <2> QED BY <1>1, <2>1
<1>3. ASSUME NEW i \in Nat, i \in S PROVE i + 1 \in S
  <2>1. SUFFICES ASSUME i + 1 <= n PROVE good(i + 1)
    <3> HIDE DEF good
    <3> QED OBVIOUS
  <2>2. good(i)
    <3> HIDE DEF good
    <3> QED BY <1>0, <1>3, <2>1
  <2>3. i \in 0..n /\ i + 1 \in 1..n /\ (i + 1) - 1 = i /\ 1..(i + 1) = 1..i \cup {i + 1}
    BY <1>0, <2>1
  <2>4. F[i] \in Seq(A) /\ list[i + 1] \in A
    BY <1>0, <2>3
  <2>5. F[i + 1] = WithOneOf(set, F[i], list[i + 1])
    BY <1>1, <2>3
  <2>6. {list[j] : j \in 1..(i + 1)} = {list[j] : j \in 1..i} \cup {list[i + 1]}
    BY <2>3
  <2>7. CASE list[i + 1] \notin set
    BY <2>2, <2>5, <2>6, <2>7 DEF WithOneOf
  <2>8. CASE list[i + 1] \in set
    <3>1. F[i + 1] = Append(F[i], list[i + 1])
      BY <2>5, <2>8 DEF WithOneOf
    <3>2. ToSet(F[i + 1]) = {list[j] : j \in 1..(i + 1)} \cap set
      BY <2>2, <2>4, <2>6, <2>8, <3>1, AppendIs
    <3>3. ASSUME IsInjective(list) PROVE IsInjective(F[i + 1])
      <4>1. \A j, k \in 1..n : list[j] = list[k] => j = k
        BY <3>3, ElementsIs DEF n
      <4>2. \A j \in 1..i : list[j] # list[i + 1]
        BY <1>0, <2>3, <4>1
      <4>3. list[i + 1] \notin ToSet(F[i])
        BY <2>2, <4>2
      <4> QED BY <2>2, <2>4, <3>1, <3>3, <4>3, AppendIs
    <3> QED BY <3>2, <3>3
  <2> QED BY <2>7, <2>8
<1>4. n \in S
  <2> HIDE DEF S
  <2> QED BY <1>0, <1>2, <1>3, Induction
<1>5. good(n)
  <2> HIDE DEF good
  <2> QED BY <1>0, <1>4
<1>6. ToSet(list) = {list[j] : j \in 1..n}
  BY ElementsIs DEF n
<1> QED BY <1>0, <1>1, <1>5, <1>6

-----------------------------------------------------------------------------
(* Fusion. *)

\* An insertion adds one element, and keeps what comes once so if it is new.
LEMMA InsertAtIs ==
    ASSUME NEW A, NEW l \in Seq(A), NEW x \in A, NEW p \in 1..(Len(l) + 1)
    PROVE  /\ ToSet(InsertAt(l, p, x)) = ToSet(l) \cup {x}
           /\ IsInjective(l) /\ x \notin ToSet(l) => IsInjective(InsertAt(l, p, x))
<1> DEFINE m == InsertAt(l, p, x)
<1>0. Len(l) \in Nat /\ p \in Nat
  OBVIOUS
<1>1. /\ m \in Seq(A) /\ Len(m) = Len(l) + 1
      /\ \A k \in 1..Len(m) : m[k] = IF k < p THEN l[k] ELSE IF k = p THEN x ELSE l[k - 1]
  <2>1. /\ m \in Seq(A) /\ Len(m) = Len(l) + 1
        /\ \A k \in 1..(Len(l) + 1) : m[k] = IF k < p THEN l[k]
                                           ELSE IF k = p THEN x ELSE l[k - 1]
    BY InsertAtTyped
  <2> HIDE DEF m
  <2> QED BY <2>1
<1> HIDE DEF m
<1>2. ToSet(m) = {m[k] : k \in 1..Len(m)} /\ ToSet(l) = {l[k] : k \in 1..Len(l)}
  BY <1>1, ElementsIs
<1>3. ToSet(m) = ToSet(l) \cup {x}
  <2>1. p \in 1..Len(m) /\ m[p] = x
    BY <1>0, <1>1
  <2>2. ASSUME NEW k \in 1..Len(l) PROVE l[k] \in ToSet(m)
    <3>1. CASE k < p
      <4>1. k \in 1..Len(m) /\ m[k] = l[k]
        BY <1>0, <1>1, <3>1
      <4> QED BY <1>2, <4>1
    <3>2. CASE ~(k < p)
      <4>1. k + 1 \in 1..Len(m) /\ ~(k + 1 < p) /\ k + 1 # p /\ (k + 1) - 1 = k
        BY <1>0, <1>1, <3>2
      <4>2. m[k + 1] = l[k]
        BY <1>1, <4>1
      <4> QED BY <1>2, <4>1, <4>2
    <3> QED BY <3>1, <3>2
  <2>3. ASSUME NEW k \in 1..Len(m) PROVE m[k] \in ToSet(l) \cup {x}
    <3>1. CASE k < p
      <4>1. k \in 1..Len(l) /\ m[k] = l[k]
        BY <1>0, <1>1, <3>1
      <4> QED BY <1>2, <4>1
    <3>2. CASE k = p
      BY <1>1, <3>2
    <3>3. CASE ~(k < p) /\ k # p
      <4>1. k - 1 \in 1..Len(l) /\ m[k] = l[k - 1]
        BY <1>0, <1>1, <3>3
      <4> QED BY <1>2, <4>1
    <3> QED BY <3>1, <3>2, <3>3
  <2> QED BY <1>2, <2>1, <2>2, <2>3
<1>4. ASSUME IsInjective(l), x \notin ToSet(l) PROVE IsInjective(m)
  <2>1. \A j, k \in 1..Len(l) : l[j] = l[k] => j = k
    BY <1>4, ElementsIs
  <2>2. \A k \in 1..Len(l) : l[k] # x
    BY <1>2, <1>4
  <2> DEFINE was(k) == IF k < p THEN k ELSE k - 1
  <2>3. \A k \in 1..Len(m) : k # p => was(k) \in 1..Len(l) /\ m[k] = l[was(k)]
    BY <1>0, <1>1
  <2>4. \A k \in 1..Len(m) : k = p => m[k] = x
    BY <1>1
  <2>5. \A j, k \in 1..Len(m) : j # p /\ k # p /\ was(j) = was(k) => j = k
    BY <1>0, <1>1
  <2> HIDE DEF was
  <2>6. \A j, k \in 1..Len(m) : m[j] = m[k] => j = k
    BY <2>1, <2>2, <2>3, <2>4, <2>5
  <2> QED BY <1>1, <2>6, ElementsIs
<1> QED BY <1>3, <1>4 DEF m

\* Sorting a list that has everything once leaves it so.
LEMMA SortedIs ==
    ASSUME NEW list \in Seq(Children), NEW text, NEW dense, IsInjective(list)
    PROVE  /\ SortedList(text, dense, list) \in Seq(Children)
           /\ IsInjective(SortedList(text, dense, list))
<1> DEFINE n == Len(list)
<1>0. n \in Nat /\ \A i \in 1..n : list[i] \in Children
  OBVIOUS
<1>1. PICK F \in [0..n -> Seq(Children)] :
          /\ F[0] = <<>>
          /\ \A i \in 1..n : F[i] = Inserted(text, dense, F[i - 1], list[i])
          /\ SortedList(text, dense, list) = F[n]
  <2>1. SortStepwise(list, text, dense)
    BY InsertSteps
  <2> QED BY <2>1 DEF SortStepwise
<1>2. \A j, k \in 1..n : list[j] = list[k] => j = k
  BY ElementsIs
<1> HIDE DEF n
<1> DEFINE good(i) == ToSet(F[i]) = {list[j] : j \in 1..i} /\ IsInjective(F[i])
           S == {i \in Nat : i <= n => good(i)}
<1>3. 0 \in S
  <2>1. IsInjective(<<>>) /\ ToSet(<<>>) = {}
    BY DEF IsInjective, ToSet
  <2> QED BY <1>1, <2>1
<1>4. ASSUME NEW i \in Nat, i \in S PROVE i + 1 \in S
  <2>1. SUFFICES ASSUME i + 1 <= n PROVE good(i + 1)
    <3> HIDE DEF good
    <3> QED OBVIOUS
  <2>2. good(i)
    <3> HIDE DEF good
    <3> QED BY <1>0, <1>4, <2>1
  <2>3. i \in 0..n /\ i + 1 \in 1..n /\ (i + 1) - 1 = i /\ 1..(i + 1) = 1..i \cup {i + 1}
    BY <1>0, <2>1
  <2>4. F[i] \in Seq(Children) /\ list[i + 1] \in Children
    BY <1>0, <2>3
  <2>5. F[i + 1] = Inserted(text, dense, F[i], list[i + 1])
    BY <1>1, <2>3
  <2>6. PICK p \in 1..(Len(F[i]) + 1) : F[i + 1] = InsertAt(F[i], p, list[i + 1])
    BY <2>4, <2>5, InsertedPlace
  <2>7. \A j \in 1..i : list[j] # list[i + 1]
    BY <1>0, <1>2, <2>3
  <2>8. list[i + 1] \notin ToSet(F[i])
    BY <2>2, <2>7
  <2>9. {list[j] : j \in 1..(i + 1)} = {list[j] : j \in 1..i} \cup {list[i + 1]}
    BY <2>3
  <2> QED BY <2>2, <2>4, <2>6, <2>8, <2>9, InsertAtIs
<1>5. n \in S
  <2> HIDE DEF S
  <2> QED BY <1>0, <1>3, <1>4, Induction
<1>6. good(n)
  <2> HIDE DEF good
  <2> QED BY <1>0, <1>5
<1> QED BY <1>0, <1>1, <1>6

\* What the limits are.
LEMMA LimitsAre ==
    Limit \in Nat /\ Pool \in Nat /\ TopK \in Nat /\ MaxSteps \in Nat /\ 1 <= MaxSteps
BY AnsweringAssumption

\* The fused list has chunks, each once.
LEMMA FusedIs ==
    ASSUME NEW text \in Seq(Children), NEW dense \in Seq(Children)
    PROVE  Fused(text, dense) \in Seq(Children) /\ IsInjective(Fused(text, dense))
<1> DEFINE all == SortedList(text, dense, Firsts(text \o dense))
<1>1. Fused(text, dense) = SubSeq(all, 1, Min({Limit, Len(all)}))
  BY Zenon DEF Fused, SortedList
<1>2. text \o dense \in Seq(Children)
  BY ConcatIs
<1>3. Firsts(text \o dense) \in Seq(Children) /\ IsInjective(Firsts(text \o dense))
  BY <1>2, FirstsIs
<1>4. all \in Seq(Children) /\ IsInjective(all)
  BY <1>3, SortedIs
<1> HIDE DEF all
<1> QED BY <1>1, <1>4, LimitsAre, CutIs

\* Candidates as a retrieval has them: none twice.
Distinct(cands) == cands \in Seq(Candidate) /\ IsInjective(IdsOf(cands))

\* The ids of candidates.
LEMMA IdsAre ==
    ASSUME NEW cands \in Seq(Candidate)
    PROVE  /\ IdsOf(cands) \in Seq(Children) /\ Len(IdsOf(cands)) = Len(cands)
           /\ Len(cands) \in Nat /\ \A k \in 1..Len(cands) : IdsOf(cands)[k] = cands[k].id
<1>1. \A k \in 1..Len(cands) : cands[k].id \in Children
  <2>1. \A k \in 1..Len(cands) : cands[k] \in Candidate
    OBVIOUS
  <2> QED BY <2>1 DEF Candidate
<1>2. DOMAIN cands = 1..Len(cands) /\ Len(cands) \in Nat
  OBVIOUS
<1>3. IdsOf(cands) = [k \in 1..Len(cands) |-> cands[k].id]
  BY <1>2 DEF IdsOf
<1> QED BY <1>1, <1>2, <1>3

\* What fusion, boost and deduplication make of two lists of chunks.
LEMMA CandidatesAre ==
    ASSUME NEW text \in Seq(Children), NEW dense \in Seq(Children),
           NEW named \in Seq(Children), IsInjective(named)
    PROVE  Distinct(Candidates(text, dense, named))
<1> DEFINE f == Fused(text, dense)
           front == Kept(named, ToSet(f))
           rest == Kept(f, ToSet(f) \ ToSet(named))
           b == front \o rest
           best == {c \in ToSet(b) : \A d \in ToSet(b) :
                       PrefixOf[d] = PrefixOf[c] => Rank(b, c) <= Rank(b, d)}
           l == Kept(b, best)
           cands == [k \in DOMAIN l |-> [id |-> l[k], agreed |-> Consensus(text, dense, l[k])]]
<1>1. Candidates(text, dense, named) = cands
  BY Zenon DEF Candidates, Deduplicated, Boosted
<1>2. f \in Seq(Children) /\ IsInjective(f)
  BY FusedIs
<1> HIDE DEF f
<1>3. /\ front \in Seq(Children) /\ IsInjective(front)
      /\ ToSet(front) = ToSet(named) \cap ToSet(f)
      /\ rest \in Seq(Children) /\ IsInjective(rest)
      /\ ToSet(rest) = ToSet(f) \cap (ToSet(f) \ ToSet(named))
  BY <1>2, KeptIs
<1> HIDE DEF front, rest
<1>4. ToSet(front) \cap ToSet(rest) = {}
  BY <1>3
<1>5. b \in Seq(Children) /\ IsInjective(b)
  BY <1>3, <1>4, ConcatIs
<1> HIDE DEF b, best
<1>6. l \in Seq(Children) /\ IsInjective(l)
  BY <1>5, KeptIs
<1> HIDE DEF l
<1>7. \A c : Consensus(text, dense, c) \in BOOLEAN
  BY DEF Consensus
<1>8. DOMAIN l = 1..Len(l) /\ Len(l) \in Nat /\ \A k \in 1..Len(l) : l[k] \in Children
  BY <1>6
<1>9. cands \in Seq(Candidate) /\ Len(cands) = Len(l)
  BY <1>7, <1>8 DEF Candidate
<1>10. \A k \in 1..Len(l) : cands[k].id = l[k]
  BY <1>8
<1> HIDE DEF cands
<1>11. \A j, k \in 1..Len(l) : l[j] = l[k] => j = k
  BY <1>6, ElementsIs
<1>12. IdsOf(cands) \in Seq(Children) /\ Len(IdsOf(cands)) = Len(l)
  BY <1>9, IdsAre
<1>13. \A k \in 1..Len(l) : IdsOf(cands)[k] = l[k]
  BY <1>9, <1>10, IdsAre
<1>14. IsInjective(IdsOf(cands))
  BY <1>11, <1>12, <1>13, ElementsIs
<1> QED BY <1>1, <1>9, <1>14 DEF Distinct

-----------------------------------------------------------------------------
(* The searches, the ranking and the parents. *)

\* A set of chunks in some order.
LEMMA OrdersAre ==
    ASSUME NEW s \in SUBSET Children, IsFiniteSet(s), NEW l \in SetToSeqs(s)
    PROVE  l \in Seq(Children) /\ IsInjective(l)
<1>1. Cardinality(s) \in Nat
  BY FS_CardinalityType
<1>2. /\ l \in [1..Cardinality(s) -> s]
      /\ \A i, j \in 1..Cardinality(s) : i # j => l[i] # l[j]
  BY DEF SetToSeqs
<1>3. l \in Seq(Children) /\ Len(l) = Cardinality(s)
  BY <1>1, <1>2
<1> QED BY <1>2, <1>3, ElementsIs

\* What a search finds is a list of chunks.
LEMMA ListsAre ==
    ASSUME NEW set \in SUBSET Children, NEW l \in Lists(set)
    PROVE  l \in Seq(Children)
<1>1. PICK s \in SUBSET set : l \in SetToSeqs(s)
  BY DEF Lists
<1>2. IsFiniteSet(s)
  <2>1. IsFiniteSet(Children) /\ s \in SUBSET Children
    BY AnsweringAssumption
  <2> QED BY <2>1, FS_Subset
<1>3. Cardinality(s) \in Nat
  BY <1>2, FS_CardinalityType
<1>4. l \in [1..Cardinality(s) -> s]
  BY <1>1 DEF SetToSeqs
<1>5. l \in [1..Cardinality(s) -> Children]
  BY <1>4
<1> QED BY <1>3, <1>5

\* The candidates of a retrieval come once.
LEMMA FoundIs ==
    ASSUME NEW cands \in Found
    PROVE  Distinct(cands)
<1>1. PICK f \in FoundIn : cands \in f.lists
  BY Zenon DEF Found
<1>2. PICK set \in SUBSET Children : f = [over |-> set, lists |-> FoundOver(set)]
  BY Zenon DEF FoundIn
<1>3. PICK text \in Lists(set), dense \in AllOf(set),
           named \in UNION {SetToSeqs(s) : s \in SUBSET set} :
          cands = Candidates(text, dense, named)
  <2>1. cands \in FoundOver(set)
    BY <1>1, <1>2
  <2> QED BY <2>1 DEF FoundOver
<1>4. dense \in Lists(set)
  BY DEF AllOf
<1>5. text \in Seq(Children) /\ dense \in Seq(Children)
  BY <1>1, <1>4, ListsAre
<1>6. PICK s \in SUBSET set : named \in SetToSeqs(s)
  OBVIOUS
<1>7. named \in Seq(Children) /\ IsInjective(named)
  <2>1. IsFiniteSet(s) /\ s \in SUBSET Children
    BY AnsweringAssumption, FS_Subset
  <2> QED BY <1>6, <2>1, OrdersAre
<1> QED BY <1>3, <1>5, <1>7, CandidatesAre

\* Another order of what a list has once is as long as the list.
LEMMA ReorderedIs ==
    ASSUME NEW ids \in Seq(Children), IsInjective(ids), NEW l \in SetToSeqs(ToSet(ids))
    PROVE  l \in Seq(Children) /\ Len(l) = Len(ids)
<1> DEFINE n == Len(ids)
<1>1. n \in Nat /\ ids \in [1..n -> ToSet(ids)]
  BY ElementsIs
<1>2. \A x \in ToSet(ids) : \E k \in 1..n : ids[k] = x
  BY ElementsIs
<1>3. \A j, k \in 1..n : ids[j] = ids[k] => j = k
  BY ElementsIs
<1> HIDE DEF n
<1>4. ids \in Surjection(1..n, ToSet(ids)) /\ ids \in Injection(1..n, ToSet(ids))
  BY <1>1, <1>2, <1>3 DEF Surjection, Injection
<1>5. IsFiniteSet(1..n) /\ Cardinality(1..n) = n
  <2>1. \A m \in Int : /\ IsFiniteSet(1..m)
                       /\ Cardinality(1..m) = IF 1 > m THEN 0 ELSE m - 1 + 1
    BY FS_Interval
  <2> QED BY <1>1, <2>1
<1>6. Cardinality(ToSet(ids)) = n
  BY <1>4, <1>5, FS_Surjection
<1>7. l \in [1..n -> ToSet(ids)]
  BY <1>6 DEF SetToSeqs
<1>8. ToSet(ids) \subseteq Children
  BY ElementsIs
<1>9. l \in [1..n -> Children]
  BY <1>7, <1>8
<1> QED BY <1>1, <1>9 DEF n

\* A ranking is a list of chunks.
LEMMA RankingsAre ==
    ASSUME NEW cands, Distinct(cands), NEW size \in Nat, NEW ranked \in Rankings(cands, size)
    PROVE  ranked \in Seq(Children)
<1> DEFINE ids == IdsOf(cands)
           n == Min({Len(ids), size})
<1>1. ids \in Seq(Children) /\ IsInjective(ids) /\ Len(ids) \in Nat
  BY IdsAre DEF Distinct
<1>2. \/ ranked = SubSeq(ids, 1, n)
      \/ \E l \in SetToSeqs(ToSet(ids)) : ranked = SubSeq(l, 1, n)
  BY DEF Rankings
<1>3. n \in 0..Len(ids)
  BY <1>1, LesserIs
<1> HIDE DEF ids, n
<1>4. CASE ranked = SubSeq(ids, 1, n)
  BY <1>1, <1>3, <1>4, PrefixIs
<1>5. CASE \E l \in SetToSeqs(ToSet(ids)) : ranked = SubSeq(l, 1, n)
  <2>1. PICK l \in SetToSeqs(ToSet(ids)) : ranked = SubSeq(l, 1, n)
    BY <1>5
  <2>2. l \in Seq(Children) /\ Len(l) = Len(ids)
    BY <1>1, ReorderedIs
  <2> QED BY <1>3, <2>1, <2>2, PrefixIs
<1> QED BY <1>2, <1>4, <1>5

\* A size of a pool.
LEMMA PoolSizeIs ==
    ASSUME NEW n \in Nat
    PROVE  PoolSize(n) \in Nat
<1> DEFINE m == IF n > TopK THEN n ELSE TopK
<1>1. m \in Nat /\ Pool \in Nat
  BY LimitsAre
<1>2. PoolSize(n) = Min({Pool, m})
  BY DEF PoolSize
<1> HIDE DEF m
<1> QED BY <1>1, <1>2, LesserIs

\* Admissions lose no protected candidate, unless only such are left.
LEMMA WithLateIs ==
    ASSUME NEW ranked \in Seq(Children), NEW late \in Seq(Children), NEW safe, NEW size \in Nat,
           safe \subseteq ToSet(ranked) \cup ToSet(late), ToSet(late) \subseteq safe
    PROVE  LET pool == WithLate(ranked, late, safe, size)
           IN  /\ pool \in Seq(Children)
               /\ safe \subseteq ToSet(pool) \/ ToSet(pool) \subseteq safe
<1> DEFINE n == Len(late)
<1>0. n \in Nat /\ \A i \in 1..n : late[i] \in Children
  OBVIOUS
<1>1. PICK F \in [0..n -> Seq(Children)] :
          /\ F[0] = ranked
          /\ \A i \in 1..n : F[i] = Admitted(F[i - 1], safe, size, late[i])
          /\ WithLate(ranked, late, safe, size) = F[n]
  <2>1. AdmitStepwise(ranked, late, safe, size)
    BY AdmitSteps
  <2> QED BY <2>1 DEF AdmitStepwise
<1>2. ToSet(late) = {late[j] : j \in 1..n}
  BY ElementsIs
<1> HIDE DEF n
<1> DEFINE seen(i) == ToSet(ranked) \cup {late[j] : j \in 1..i}
           good(i) == \/ safe \cap seen(i) \subseteq ToSet(F[i])
                      \/ ToSet(F[i]) \subseteq safe /\ ~(Len(F[i]) < size)
           S == {i \in Nat : i <= n => good(i)}
<1>3. 0 \in S
  BY <1>1
<1>4. ASSUME NEW i \in Nat, i \in S PROVE i + 1 \in S
  <2>1. SUFFICES ASSUME i + 1 <= n PROVE good(i + 1)
    <3> HIDE DEF good
    <3> QED OBVIOUS
  <2>2. good(i)
    <3> HIDE DEF good
    <3> QED BY <1>0, <1>4, <2>1
  <2>3. i \in 0..n /\ i + 1 \in 1..n /\ (i + 1) - 1 = i /\ 1..(i + 1) = 1..i \cup {i + 1}
    BY <1>0, <2>1
  <2> DEFINE l == F[i]
             x == late[i + 1]
             r == RoomIn(l, safe)
  <2>4. l \in Seq(Children) /\ x \in Children /\ x \in safe
    BY <1>0, <1>2, <2>3
  <2>5. F[i + 1] = Admitted(l, safe, size, x)
    BY <1>1, <2>3
  <2>6. seen(i + 1) = seen(i) \cup {x}
    BY <2>3
  <2>7. ToSet(l) = {l[k] : k \in 1..Len(l)}
    BY <2>4, ElementsIs
  <2>8. \/ r = 0 /\ \A k \in 1..Len(l) : l[k] \in safe
        \/ r \in 1..Len(l) /\ l[r] \notin safe
    BY <2>4, RoomPlace
  <2>9. \/ safe \cap seen(i) \subseteq ToSet(l)
        \/ ToSet(l) \subseteq safe /\ ~(Len(l) < size)
    BY <2>2
  <2> HIDE DEF l, x, r, seen
  <2>10. CASE Len(l) < size
    <3>1. F[i + 1] = Append(l, x)
      BY <2>5, <2>10 DEF Admitted
    <3>2. ToSet(F[i + 1]) = ToSet(l) \cup {x}
      BY <2>4, <3>1, AppendIs
    <3> QED BY <2>6, <2>9, <2>10, <3>2
  <2>11. CASE ~(Len(l) < size) /\ r = 0
    <3>1. F[i + 1] = l
      BY <2>5, <2>11 DEF Admitted, r
    <3>2. \A k \in 1..Len(l) : l[k] \in safe
      BY <2>8, <2>11
    <3>3. ToSet(l) \subseteq safe
      BY <2>7, <3>2
    <3> QED BY <2>11, <3>1, <3>3
  <2>12. CASE ~(Len(l) < size) /\ r # 0
    <3>1. F[i + 1] = [l EXCEPT ![r] = x]
      BY <2>5, <2>12 DEF Admitted, r, ReplaceAt
    <3>2. r \in 1..Len(l) /\ l[r] \notin safe
      BY <2>8, <2>12
    <3>3. safe \cap seen(i) \subseteq ToSet(l)
      BY <2>7, <2>9, <3>2
    <3>4. /\ F[i + 1] \in Seq(Children) /\ Len(F[i + 1]) = Len(l)
          /\ \A k \in 1..Len(l) : F[i + 1][k] = IF k = r THEN x ELSE l[k]
      BY <2>4, <3>1, <3>2
    <3>5. ToSet(F[i + 1]) = {F[i + 1][k] : k \in 1..Len(l)}
      BY <3>4, ElementsIs
    <3>6. x \in ToSet(F[i + 1])
      BY <3>2, <3>4, <3>5
    <3>7. \A k \in 1..Len(l) : l[k] \in safe => l[k] \in ToSet(F[i + 1])
      BY <3>2, <3>4, <3>5
    <3>8. safe \cap seen(i + 1) \subseteq ToSet(F[i + 1])
      BY <2>6, <2>7, <3>3, <3>6, <3>7
    <3> QED BY <3>8
  <2> QED BY <2>10, <2>11, <2>12
<1>5. n \in S
  <2> HIDE DEF S
  <2> QED BY <1>0, <1>3, <1>4, Induction
<1>6. good(n)
  <2> HIDE DEF good
  <2> QED BY <1>0, <1>5
<1>7. safe \subseteq seen(n)
  BY <1>2
<1> HIDE DEF seen
<1>8. safe \subseteq ToSet(F[n]) \/ ToSet(F[n]) \subseteq safe
  BY <1>6, <1>7
<1> QED BY <1>0, <1>1, <1>8

\* The pool: chunks, among them the protected ones, or none but such.
LEMMA RerankedIs ==
    ASSUME NEW cands, Distinct(cands), NEW size \in Nat, NEW pool \in Reranked(cands, size)
    PROVE  /\ pool \in Seq(Children)
           /\ Safe(cands) \subseteq ToSet(pool) \/ ToSet(pool) \subseteq Safe(cands)
<1>1. PICK ranked \in Rankings(cands, size) : pool = Protected(cands, ranked, size)
  BY DEF Reranked
<1>2. ranked \in Seq(Children)
  BY RankingsAre
<1> DEFINE safe == Safe(cands)
           late == Kept(IdsOf(cands), safe \ ToSet(ranked))
<1>3. pool = WithLate(ranked, late, safe, size)
  BY <1>1, Zenon DEF Protected, WithLate
<1>4. cands \in Seq(Candidate) /\ IdsOf(cands) \in Seq(Children)
  BY IdsAre DEF Distinct
<1>5. safe \subseteq ToSet(IdsOf(cands))
  <2>1. \A k \in 1..Len(cands) : cands[k].id \in ToSet(IdsOf(cands))
    BY <1>4, IdsAre, ElementsIs
  <2>2. ToSet(cands) = {cands[k] : k \in 1..Len(cands)}
    BY <1>4, ElementsIs
  <2> QED BY <2>1, <2>2 DEF Safe
<1> HIDE DEF safe
<1>6. late \in Seq(Children) /\ ToSet(late) = ToSet(IdsOf(cands)) \cap (safe \ ToSet(ranked))
  BY <1>4, KeptIs
<1> HIDE DEF late
<1>7. safe \subseteq ToSet(ranked) \cup ToSet(late) /\ ToSet(late) \subseteq safe
  BY <1>5, <1>6
<1>8. /\ WithLate(ranked, late, safe, size) \in Seq(Children)
      /\ \/ safe \subseteq ToSet(WithLate(ranked, late, safe, size))
         \/ ToSet(WithLate(ranked, late, safe, size)) \subseteq safe
  BY <1>2, <1>6, <1>7, WithLateIs
<1> QED BY <1>3, <1>8 DEF safe

\* The second hop: what it finds again is replaced, the rest is added.
LEMMA MergedIs ==
    ASSUME NEW cands, Distinct(cands), NEW extra, Distinct(extra)
    PROVE  Distinct(Merged(cands, extra))
<1> DEFINE again(cand) == {e \in ToSet(extra) : e.id = cand.id}
           new == {e \in ToSet(extra) : ~Contains(IdsOf(cands), e.id)}
           a == [k \in DOMAIN cands |-> IF again(cands[k]) = {} THEN cands[k]
                                        ELSE CHOOSE e \in again(cands[k]) : TRUE]
           b == Kept(extra, new)
           m == a \o b
<1>1. Merged(cands, extra) = m
  BY Zenon DEF Merged
<1>2. /\ cands \in Seq(Candidate) /\ extra \in Seq(Candidate)
      /\ IsInjective(IdsOf(cands)) /\ IsInjective(IdsOf(extra))
  BY DEF Distinct
<1>3. ToSet(extra) = {extra[k] : k \in 1..Len(extra)} /\ ToSet(extra) \subseteq Candidate
  BY <1>2, ElementsIs
<1>4. /\ DOMAIN cands = 1..Len(cands) /\ Len(cands) \in Nat
      /\ \A k \in 1..Len(cands) : cands[k] \in Candidate
  BY <1>2
<1>5. \A k \in 1..Len(cands) : a[k] \in Candidate /\ a[k].id = cands[k].id
  <2> SUFFICES ASSUME NEW k \in 1..Len(cands)
               PROVE  a[k] \in Candidate /\ a[k].id = cands[k].id
    OBVIOUS
  <2> DEFINE set == again(cands[k])
  <2>1. a[k] = IF set = {} THEN cands[k] ELSE CHOOSE e \in set : TRUE
    BY <1>4
  <2>2. \A e \in set : e \in Candidate /\ e.id = cands[k].id
    BY <1>3
  <2> HIDE DEF set, a
  <2> QED BY <1>4, <2>1, <2>2
<1>6. a \in Seq(Candidate) /\ Len(a) = Len(cands)
  <2>1. a \in [1..Len(cands) -> Candidate]
    <3>1. a = [k \in 1..Len(cands) |-> a[k]]
      BY <1>4
    <3> HIDE DEF a
    <3> QED BY <1>5, <3>1
  <2> HIDE DEF a
  <2> QED BY <1>4, <2>1
<1> HIDE DEF a, again
<1>7. IdsOf(a) = IdsOf(cands)
  <2>1. IdsOf(a) = [k \in 1..Len(cands) |-> a[k].id]
    BY <1>4, <1>6 DEF IdsOf
  <2>2. IdsOf(cands) = [k \in 1..Len(cands) |-> cands[k].id]
    BY <1>4 DEF IdsOf
  <2> QED BY <1>5, <2>1, <2>2
<1>8. IsInjective(extra)
  <2>1. \A j, k \in 1..Len(extra) : IdsOf(extra)[j] = IdsOf(extra)[k] => j = k
    BY <1>2, IdsAre, ElementsIs
  <2>2. \A j, k \in 1..Len(extra) : extra[j] = extra[k] => IdsOf(extra)[j] = IdsOf(extra)[k]
    BY <1>2, IdsAre
  <2> QED BY <1>2, <2>1, <2>2, ElementsIs
<1>9. b \in Seq(Candidate) /\ ToSet(b) = ToSet(extra) \cap new /\ IsInjective(b)
  BY <1>2, <1>8, KeptIs
<1>10. \A e \in new : e \in ToSet(extra) /\ e.id \notin ToSet(IdsOf(cands))
  BY <1>2, IdsAre, ElementsIs
<1> HIDE DEF b, new
<1>11. \A d, e \in ToSet(b) : d.id = e.id => d = e
  <2>1. \A j, k \in 1..Len(extra) : extra[j].id = extra[k].id => j = k
    <3>1. \A j, k \in 1..Len(extra) : IdsOf(extra)[j] = IdsOf(extra)[k] => j = k
      BY <1>2, IdsAre, ElementsIs
    <3> QED BY <1>2, <3>1, IdsAre
  <2> QED BY <1>3, <1>9, <2>1
<1>12. /\ IdsOf(b) \in Seq(Children) /\ IsInjective(IdsOf(b))
       /\ \A x \in ToSet(IdsOf(b)) : x \notin ToSet(IdsOf(cands))
  <2>1. IdsOf(b) \in Seq(Children) /\ Len(IdsOf(b)) = Len(b)
    BY <1>9, IdsAre
  <2>2. \A k \in 1..Len(b) : IdsOf(b)[k] = b[k].id /\ b[k] \in ToSet(b)
    BY <1>9, IdsAre, ElementsIs
  <2>3. \A j, k \in 1..Len(b) : b[j] = b[k] => j = k
    BY <1>9, ElementsIs
  <2>4. \A j, k \in 1..Len(b) : IdsOf(b)[j] = IdsOf(b)[k] => j = k
    BY <1>11, <2>2, <2>3
  <2>5. ToSet(IdsOf(b)) = {IdsOf(b)[k] : k \in 1..Len(b)}
    BY <2>1, ElementsIs
  <2>6. \A k \in 1..Len(b) : IdsOf(b)[k] \notin ToSet(IdsOf(cands))
    BY <1>9, <1>10, <2>2
  <2> QED BY <2>1, <2>4, <2>5, <2>6, ElementsIs
<1>13. m \in Seq(Candidate)
  BY <1>6, <1>9, ConcatIs
<1>14. IdsOf(m) = IdsOf(a) \o IdsOf(b)
  <2>1. /\ Len(m) = Len(a) + Len(b) /\ Len(a) \in Nat /\ Len(b) \in Nat
        /\ \A k \in 1..(Len(a) + Len(b)) : m[k] = IF k <= Len(a) THEN a[k] ELSE b[k - Len(a)]
    <3>1. Len(a) \in Nat /\ Len(b) \in Nat
      BY <1>6, <1>9
    <3>2. Len(m) = Len(a) + Len(b)
      BY <1>6, <1>9, ConcatProperties
    <3>3. \A k \in 1..(Len(a) + Len(b)) : m[k] = IF k <= Len(a) THEN a[k] ELSE b[k - Len(a)]
      BY <1>6, <1>9, ConcatProperties
    <3> QED BY <3>1, <3>2, <3>3
  <2> DEFINE c == IdsOf(a) \o IdsOf(b)
  <2>2. /\ IdsOf(a) \in Seq(Children) /\ Len(IdsOf(a)) = Len(a)
        /\ \A k \in 1..Len(a) : IdsOf(a)[k] = a[k].id
    BY <1>6, IdsAre
  <2>3. /\ IdsOf(b) \in Seq(Children) /\ Len(IdsOf(b)) = Len(b)
        /\ \A k \in 1..Len(b) : IdsOf(b)[k] = b[k].id
    BY <1>9, IdsAre
  <2>4. /\ c \in Seq(Children) /\ Len(c) = Len(a) + Len(b)
        /\ \A k \in 1..(Len(a) + Len(b)) :
               c[k] = IF k <= Len(a) THEN IdsOf(a)[k] ELSE IdsOf(b)[k - Len(a)]
    <3>1. c \in Seq(Children) /\ Len(c) = Len(IdsOf(a)) + Len(IdsOf(b))
      BY <2>2, <2>3, ConcatProperties
    <3>2. \A k \in 1..(Len(IdsOf(a)) + Len(IdsOf(b))) :
              c[k] = IF k <= Len(IdsOf(a)) THEN IdsOf(a)[k] ELSE IdsOf(b)[k - Len(IdsOf(a))]
      BY <2>2, <2>3, ConcatProperties
    <3> HIDE DEF c
    <3> QED BY <2>2, <2>3, <3>1, <3>2
  <2>5. /\ IdsOf(m) \in Seq(Children) /\ Len(IdsOf(m)) = Len(m)
        /\ \A k \in 1..Len(m) : IdsOf(m)[k] = m[k].id
    BY <1>13, IdsAre
  <2> HIDE DEF m, c
  <2>6. \A k \in 1..Len(m) : IdsOf(m)[k] = c[k]
    <3> SUFFICES ASSUME NEW k \in 1..Len(m) PROVE IdsOf(m)[k] = c[k]
      OBVIOUS
    <3>1. CASE k <= Len(a)
      <4>1. k \in 1..Len(a)
        BY <2>1, <3>1
      <4> QED BY <2>1, <2>2, <2>4, <2>5, <3>1, <4>1
    <3>2. CASE ~(k <= Len(a))
      <4>1. k - Len(a) \in 1..Len(b)
        BY <2>1, <3>2
      <4> QED BY <2>1, <2>3, <2>4, <2>5, <3>2, <4>1
    <3> QED BY <3>1, <3>2
  <2>7. IdsOf(m) = c
    BY <2>1, <2>4, <2>5, <2>6, SeqEqual
  <2> QED BY <2>7 DEF c
<1>15. IsInjective(IdsOf(m))
  <2>1. IdsOf(cands) \in Seq(Children)
    BY <1>2, IdsAre
  <2>2. ToSet(IdsOf(cands)) \cap ToSet(IdsOf(b)) = {}
    BY <1>12
  <2> QED BY <1>2, <1>7, <1>12, <1>14, <2>1, <2>2, ConcatIs
<1> QED BY <1>1, <1>13, <1>15 DEF Distinct

\* The parents of a pool, each once.
LEMMA ResolvedIs ==
    ASSUME NEW pool \in Seq(Children)
    PROVE  Resolved(pool) \in Seq(Ids) /\ IsInjective(Resolved(pool))
<1> DEFINE all == [k \in DOMAIN pool |-> Entry(pool[k])]
           firsts == Firsts(all)
<1>1. \A c \in Children : Entry(c) \in Ids
  BY DEF Entry, Ids
<1>2. /\ DOMAIN pool = 1..Len(pool) /\ Len(pool) \in Nat
      /\ \A k \in 1..Len(pool) : pool[k] \in Children
  OBVIOUS
<1>3. all \in Seq(Ids)
  BY <1>1, <1>2
<1>4. Resolved(pool) = SubSeq(firsts, 1, Min({TopK, Len(firsts)}))
  BY Zenon DEF Resolved
<1> HIDE DEF all
<1>5. firsts \in Seq(Ids) /\ IsInjective(firsts)
  BY <1>3, FirstsIs
<1> HIDE DEF firsts
<1> QED BY <1>4, <1>5, LimitsAre, CutIs

-----------------------------------------------------------------------------
(* The question.  *)

\* The types of the fields of a question.
Types ==
    [pc |-> Retrieving \cup Concluding \cup Ended, path |-> Paths,
     agg |-> BOOLEAN, anachronism |-> BOOLEAN,
     filter |-> Sections \cup {Anywhere}, step |-> 0..MaxSteps, steps |-> 0..MaxSteps,
     retries |-> 0..MaxRetries, rewrites |-> 0..MaxRewrites,
     cands |-> Seq(Candidate), pool |-> Seq(Children), parents |-> Seq(Ids),
     evidence |-> Seq(Ids), cites |-> Seq(Ids), supports |-> [Texts -> BOOLEAN],
     answer |-> Texts \cup {"none", "refusal"}, passed |-> BOOLEAN, cached |-> BOOLEAN]

\* The fields of a question.
Fields == {"pc", "path", "agg", "anachronism", "filter", "step", "steps", "retries",
           "rewrites", "cands", "pool", "parents", "evidence", "cites", "supports",
           "answer", "passed", "cached"}

\* A question is a record of these fields, each of its type.
Shaped(r) == r = [f \in Fields |-> r[f]]
Typed(r) == \A f \in Fields : r[f] \in Types[f]

\* What is gathered and what is cited.  Outside the planner nothing is gathered
\* before the retrieval has ended; only the graph rewrites a query and abstains,
\* and only as often as it may.
Sources(r) ==
    /\ IsInjective(r.parents)
    /\ r.pc \in Retrieving \cup {"judged", "rewrite", "abstain"} /\ r.path # "planner" =>
           r.evidence = <<>> /\ r.cites = <<>>
    /\ r.pc \in {"rewrite", "abstain"} => r.path = "graph"
    /\ r.pc = "rewrite" => r.rewrites < MaxRewrites
    /\ r.pc \in {"extract", "direct", "write", "generate", "synthesize", "done"} =>
           /\ IsInjective(r.evidence)
           /\ ToSet(r.evidence) \subseteq ToSet(r.cites)
           /\ r.path # "planner" => r.cites = r.evidence

\* The candidates and the pool.
Pooled(r) ==
    /\ IsInjective(IdsOf(r.cands))
    /\ r.pc \in {"resolve", "hopResolve"} =>
           \/ Safe(r.cands) \subseteq ToSet(r.pool)
           \/ ToSet(r.pool) \subseteq Safe(r.cands)

\* A question as the code leaves it between two steps.
Sound(r) == Shaped(r) /\ Typed(r) /\ Sources(r) /\ Pooled(r)

IInv == docs \subseteq Docs /\ Sound(q)

\* Nothing of a question changed but some fields.
Same(r, s, changed) ==
    /\ Shaped(s)
    /\ \A f \in Fields \ changed : s[f] = r[f]

\* The types, field by field.
LEMMA TypesAre ==
    /\ Types["pc"] = Retrieving \cup Concluding \cup Ended /\ Types["path"] = Paths
    /\ Types["agg"] = BOOLEAN /\ Types["anachronism"] = BOOLEAN
    /\ Types["filter"] = Sections \cup {Anywhere}
    /\ Types["step"] = 0..MaxSteps /\ Types["steps"] = 0..MaxSteps
    /\ Types["retries"] = 0..MaxRetries /\ Types["rewrites"] = 0..MaxRewrites
    /\ Types["cands"] = Seq(Candidate) /\ Types["pool"] = Seq(Children)
    /\ Types["parents"] = Seq(Ids) /\ Types["evidence"] = Seq(Ids)
    /\ Types["cites"] = Seq(Ids) /\ Types["supports"] = [Texts -> BOOLEAN]
    /\ Types["answer"] = Texts \cup {"none", "refusal"}
    /\ Types["passed"] = BOOLEAN /\ Types["cached"] = BOOLEAN
BY DEF Types

\* A shaped record whose fields have their types is a question.
LEMMA TypedIs ==
    ASSUME NEW r, Shaped(r), Typed(r)
    PROVE  r \in QuestionType
<1> DEFINE P(f) == r[f] \in Types[f]
<1>1. /\ P("pc") /\ P("path") /\ P("agg") /\ P("anachronism") /\ P("filter") /\ P("step")
      /\ P("steps") /\ P("retries") /\ P("rewrites") /\ P("cands") /\ P("pool")
      /\ P("parents") /\ P("evidence") /\ P("cites") /\ P("supports") /\ P("answer")
      /\ P("passed") /\ P("cached")
  BY DEF Typed, Fields
<1>2. r = [pc |-> r["pc"], path |-> r["path"], agg |-> r["agg"],
           anachronism |-> r["anachronism"], filter |-> r["filter"], step |-> r["step"],
           steps |-> r["steps"], retries |-> r["retries"], rewrites |-> r["rewrites"],
           cands |-> r["cands"], pool |-> r["pool"], parents |-> r["parents"],
           evidence |-> r["evidence"], cites |-> r["cites"], supports |-> r["supports"],
           answer |-> r["answer"], passed |-> r["passed"], cached |-> r["cached"]]
  BY DEF Shaped, Fields
<1> QED BY <1>1, <1>2, TypesAre DEF QuestionType

\* Types survive if the fields that change have theirs.
LEMMA SameTyped ==
    ASSUME NEW r, NEW s, NEW changed \in SUBSET Fields, Typed(r), Same(r, s, changed),
           \A f \in changed : s[f] \in Types[f]
    PROVE  Shaped(s) /\ Typed(s)
BY DEF Same, Typed

\* An unasked question is sound.
LEMMA UnaskedIs ==
    /\ Shaped(Unasked) /\ Typed(Unasked)
    /\ Unasked.cands = <<>> /\ Unasked.pool = <<>> /\ Unasked.parents = <<>>
    /\ Unasked.evidence = <<>> /\ Unasked.cites = <<>> /\ Unasked.pc = "idle"
    /\ Unasked.path = "query"
<1>1. Shaped(Unasked)
  BY DEF Shaped, Unasked, Fields
<1>2. 0 \in 0..MaxSteps /\ 0 \in 0..MaxRetries /\ 0 \in 0..MaxRewrites
  BY AnsweringAssumption
<1>3. Unasked.supports \in [Texts -> BOOLEAN]
  BY DEF Unasked
<1>4. Typed(Unasked)
  <2> DEFINE P(f) == Unasked[f] \in Types[f]
  <2>1. P("pc") /\ P("path") /\ P("agg") /\ P("anachronism") /\ P("filter")
    BY TypesAre DEF Unasked, Paths, Ended
  <2>2. P("step") /\ P("steps") /\ P("retries") /\ P("rewrites")
    BY <1>2, TypesAre DEF Unasked
  <2>3. P("cands") /\ P("pool") /\ P("parents") /\ P("evidence") /\ P("cites")
    BY TypesAre DEF Unasked
  <2>4. P("supports") /\ P("answer") /\ P("passed") /\ P("cached")
    BY <1>3, TypesAre DEF Unasked
  <2> QED BY <2>1, <2>2, <2>3, <2>4 DEF Typed, Fields
<1> QED BY <1>1, <1>4 DEF Unasked

\* Nothing comes twice in an empty list.
LEMMA EmptyIs ==
    /\ IsInjective(<<>>) /\ ToSet(<<>>) = {} /\ IdsOf(<<>>) = <<>> /\ Safe(<<>>) = {}
BY DEF IsInjective, ToSet, IdsOf, Safe

\* A question whose pc is outside of retrieval, with no candidates.
LEMMA ConcludesSound ==
    ASSUME NEW r, Shaped(r), Typed(r), r.parents = <<>>, r.cands = <<>>,
           r.pc \notin {"resolve", "hopResolve"},
           r.pc \notin Retrieving \cup {"judged", "rewrite", "abstain"},
           IsInjective(r.evidence), ToSet(r.evidence) \subseteq ToSet(r.cites),
           r.path # "planner" => r.cites = r.evidence
    PROVE  Sound(r)
BY EmptyIs DEF Sound, Sources, Pooled

\* A new question.
LEMMA AskedSound ==
    ASSUME NEW path \in Paths, NEW agg \in BOOLEAN, NEW anachronism \in BOOLEAN,
           NEW steps \in 1..MaxSteps, NEW filter \in Sections \cup {Anywhere}
    PROVE  Sound(Asked(path, agg, anachronism, steps, filter))
<1> DEFINE new == Asked(path, agg, anachronism, steps, filter)
           pc == IF anachronism THEN "judged" ELSE "search"
           a == [Unasked EXCEPT !.pc = pc]
           b == [a EXCEPT !.path = path, !.agg = agg]
           d == [b EXCEPT !.anachronism = anachronism, !.steps = steps]
           changed == {"pc", "path", "agg", "anachronism", "steps", "step", "filter"}
<1>1. new = [d EXCEPT !.step = 1, !.filter = filter]
  BY DEF Asked
<1>2. pc \in {"judged", "search"}
  OBVIOUS
<1> HIDE DEF pc, new
<1>3. Same(Unasked, a, {"pc"}) /\ a.pc = pc
  BY UnaskedIs DEF Same, Shaped, Fields
<1> HIDE DEF a
<1>4. Same(Unasked, b, {"pc", "path", "agg"}) /\ b.pc = pc /\ b.path = path /\ b.agg = agg
  <2> DEFINE e == [a EXCEPT !.path = path]
  <2>1. Same(Unasked, e, {"pc", "path"}) /\ e.pc = pc /\ e.path = path
    BY <1>3 DEF Same, Shaped, Fields
  <2>2. b = [e EXCEPT !.agg = agg]
    OBVIOUS
  <2> HIDE DEF b, e
  <2> QED BY <2>1, <2>2 DEF Same, Shaped, Fields
<1> HIDE DEF b
<1>5. /\ Same(Unasked, d, {"pc", "path", "agg", "anachronism", "steps"}) /\ d.pc = pc
      /\ d.path = path /\ d.agg = agg /\ d.anachronism = anachronism /\ d.steps = steps
  <2> DEFINE e == [b EXCEPT !.anachronism = anachronism]
  <2>1. /\ Same(Unasked, e, {"pc", "path", "agg", "anachronism"}) /\ e.pc = pc
        /\ e.path = path /\ e.agg = agg /\ e.anachronism = anachronism
    BY <1>4 DEF Same, Shaped, Fields
  <2>2. d = [e EXCEPT !.steps = steps]
    OBVIOUS
  <2> HIDE DEF d, e
  <2> QED BY <2>1, <2>2 DEF Same, Shaped, Fields
<1> HIDE DEF d
<1>6. /\ Same(Unasked, new, changed) /\ new.pc = pc /\ new.path = path /\ new.agg = agg
      /\ new.anachronism = anachronism /\ new.steps = steps /\ new.step = 1
      /\ new.filter = filter
  <2> DEFINE e == [d EXCEPT !.step = 1]
  <2>1. /\ Same(Unasked, e, changed \ {"filter"}) /\ e.pc = pc
        /\ e.path = path /\ e.agg = agg /\ e.anachronism = anachronism /\ e.steps = steps
        /\ e.step = 1
    BY <1>5 DEF Same, Shaped, Fields
  <2>2. new = [e EXCEPT !.filter = filter]
    BY <1>1
  <2> HIDE DEF e
  <2> QED BY <2>1, <2>2 DEF Same, Shaped, Fields
<1>7. 1 \in 0..MaxSteps /\ steps \in 0..MaxSteps
  BY LimitsAre
<1>8. \A f \in changed : new[f] \in Types[f]
  BY <1>2, <1>6, <1>7, TypesAre DEF Retrieving, Concluding
<1>9. Shaped(new) /\ Typed(new)
  <2>1. changed \in SUBSET Fields
    BY DEF Fields
  <2> HIDE DEF changed
  <2> QED BY <1>6, <1>8, <2>1, UnaskedIs, SameTyped
<1>10. /\ new.cands = <<>> /\ new.pool = <<>> /\ new.parents = <<>>
       /\ new.evidence = <<>> /\ new.cites = <<>>
  BY <1>6, UnaskedIs DEF Same, Fields
<1>11. new.pc = "judged" \/ new.pc = "search"
  BY <1>2, <1>6
<1>12. Sources(new)
  BY <1>10, <1>11, EmptyIs DEF Sources
<1>13. Pooled(new)
  BY <1>10, <1>11, EmptyIs DEF Pooled
<1> QED BY <1>9, <1>12, <1>13 DEF Sound, new

\* A failed question.
LEMMA FailedSound ==
    ASSUME NEW r, r = [Unasked EXCEPT !.pc = "failed"]
    PROVE  Sound(r)
<1>1. Same(Unasked, r, {"pc"}) /\ r.pc = "failed"
  BY UnaskedIs DEF Same, Shaped, Fields
<1>2. r["pc"] \in Types["pc"]
  BY <1>1, TypesAre DEF Ended
<1>3. Shaped(r) /\ Typed(r)
  <2>1. {"pc"} \in SUBSET Fields /\ \A f \in {"pc"} : r[f] \in Types[f]
    BY <1>2 DEF Fields
  <2> QED BY <1>1, <2>1, UnaskedIs, SameTyped
<1>4. r.cands = <<>> /\ r.parents = <<>>
  BY <1>1, UnaskedIs DEF Same, Fields
<1> QED BY <1>1, <1>3, <1>4, EmptyIs DEF Sound, Sources, Pooled, Retrieving

\* What is given to a writer.
LEMMA GivenSound ==
    ASSUME Sound(q), NEW evidence \in Seq(Ids), NEW cites \in Seq(Ids),
           NEW pc \in {"extract", "direct", "write", "generate", "synthesize", "done"},
           IsInjective(evidence), ToSet(evidence) \subseteq ToSet(cites),
           q.path # "planner" => cites = evidence
    PROVE  /\ Sound(Given(evidence, cites, pc))
           /\ Given(evidence, cites, pc).cands = <<>>
           /\ Given(evidence, cites, pc).parents = <<>>
           /\ Given(evidence, cites, pc).path = q.path
           /\ Given(evidence, cites, pc).evidence = evidence
           /\ Given(evidence, cites, pc).cites = cites
<1> DEFINE new == Given(evidence, cites, pc)
           a == [Unasked EXCEPT !.pc = pc, !.path = q.path]
           b == [a EXCEPT !.agg = q.agg, !.evidence = evidence]
           changed == {"pc", "path", "agg", "evidence", "cites"}
<1>1. new = [b EXCEPT !.cites = cites]
  BY DEF Given
<1> HIDE DEF new
<1>2. Same(Unasked, a, {"pc", "path"}) /\ a.pc = pc /\ a.path = q.path
  <2> DEFINE e == [Unasked EXCEPT !.pc = pc]
  <2>1. Same(Unasked, e, {"pc"}) /\ e.pc = pc
    BY UnaskedIs DEF Same, Shaped, Fields
  <2>2. a = [e EXCEPT !.path = q.path]
    OBVIOUS
  <2> HIDE DEF a, e
  <2> QED BY <2>1, <2>2 DEF Same, Shaped, Fields
<1> HIDE DEF a
<1>3. /\ Same(Unasked, b, {"pc", "path", "agg", "evidence"}) /\ b.pc = pc
      /\ b.path = q.path /\ b.agg = q.agg /\ b.evidence = evidence
  <2> DEFINE e == [a EXCEPT !.agg = q.agg]
  <2>1. /\ Same(Unasked, e, {"pc", "path", "agg"}) /\ e.pc = pc /\ e.path = q.path
        /\ e.agg = q.agg
    BY <1>2 DEF Same, Shaped, Fields
  <2>2. b = [e EXCEPT !.evidence = evidence]
    OBVIOUS
  <2> HIDE DEF b, e
  <2> QED BY <2>1, <2>2 DEF Same, Shaped, Fields
<1> HIDE DEF b
<1>4. /\ Same(Unasked, new, changed) /\ new.pc = pc /\ new.path = q.path
      /\ new.agg = q.agg /\ new.evidence = evidence /\ new.cites = cites
  BY <1>1, <1>3 DEF Same, Shaped, Fields
<1>5. q.path \in Paths /\ q.agg \in BOOLEAN
  BY TypesAre DEF Sound, Typed, Fields
<1>6. \A f \in changed : new[f] \in Types[f]
  BY <1>4, <1>5, TypesAre DEF Concluding, Ended
<1>7. Shaped(new) /\ Typed(new)
  <2>1. changed \in SUBSET Fields
    BY DEF Fields
  <2> HIDE DEF changed
  <2> QED BY <1>4, <1>6, <2>1, UnaskedIs, SameTyped
<1>8. new.cands = <<>> /\ new.parents = <<>>
  BY <1>4, UnaskedIs DEF Same, Fields
<1>9. Sound(new)
  BY <1>4, <1>7, <1>8, ConcludesSound DEF Retrieving
<1> QED BY <1>4, <1>8, <1>9 DEF new

\* An answer.
LEMMA AnsweredSound ==
    ASSUME Sound(q), NEW answer \in Texts \cup {"none", "refusal"}, NEW passed \in BOOLEAN,
           NEW supports \in [Texts -> BOOLEAN],
           IsInjective(q.evidence), ToSet(q.evidence) \subseteq ToSet(q.cites),
           q.path # "planner" => q.cites = q.evidence
    PROVE  Sound(Answered(answer, passed, supports))
<1> DEFINE new == Answered(answer, passed, supports)
           g == Given(q.evidence, q.cites, "done")
           cached == q.path \in {"query", "planner"} /\ passed
           a == [g EXCEPT !.answer = answer, !.passed = passed]
           changed == {"answer", "passed", "supports", "cached"}
<1>1. new = [a EXCEPT !.supports = supports, !.cached = cached]
  BY DEF Answered
<1>2. q.evidence \in Seq(Ids) /\ q.cites \in Seq(Ids)
  BY TypesAre DEF Sound, Typed, Fields
<1>3. /\ Sound(g) /\ g.cands = <<>> /\ g.parents = <<>> /\ g.path = q.path
      /\ g.evidence = q.evidence /\ g.cites = q.cites /\ g.pc = "done"
  <2>1. g.pc = "done"
    BY DEF Given, Unasked
  <2> HIDE DEF g
  <2> QED BY <1>2, <2>1, GivenSound DEF g
<1>4. cached \in BOOLEAN
  OBVIOUS
<1> HIDE DEF g, cached, new
<1>5. Same(g, a, {"answer", "passed"}) /\ a.answer = answer /\ a.passed = passed
  <2> DEFINE e == [g EXCEPT !.answer = answer]
  <2>0. Shaped(g)
    BY <1>3 DEF Sound
  <2>1. Same(g, e, {"answer"}) /\ e.answer = answer
    BY <2>0 DEF Same, Shaped, Fields
  <2>2. a = [e EXCEPT !.passed = passed]
    OBVIOUS
  <2> HIDE DEF a, e
  <2> QED BY <2>1, <2>2 DEF Same, Shaped, Fields
<1> HIDE DEF a
<1>6. /\ Same(g, new, changed) /\ new.answer = answer /\ new.passed = passed
      /\ new.supports = supports /\ new.cached = cached
  <2> DEFINE e == [a EXCEPT !.supports = supports]
  <2>1. /\ Same(g, e, changed \ {"cached"}) /\ e.answer = answer /\ e.passed = passed
        /\ e.supports = supports
    BY <1>5 DEF Same, Shaped, Fields
  <2>2. new = [e EXCEPT !.cached = cached]
    BY <1>1
  <2> HIDE DEF e
  <2> QED BY <2>1, <2>2 DEF Same, Shaped, Fields
<1>7. \A f \in changed : new[f] \in Types[f]
  BY <1>4, <1>6, TypesAre
<1>8. Shaped(new) /\ Typed(new)
  <2>1. changed \in SUBSET Fields
    BY DEF Fields
  <2> HIDE DEF changed
  <2> QED BY <1>3, <1>6, <1>7, <2>1, SameTyped DEF Sound
<1>9. /\ new.cands = <<>> /\ new.parents = <<>> /\ new.path = q.path
      /\ new.evidence = q.evidence /\ new.cites = q.cites /\ new.pc = "done"
  BY <1>3, <1>6 DEF Same, Fields
<1>10. Sound(new)
  BY <1>8, <1>9, ConcludesSound DEF Retrieving
<1> QED BY <1>10 DEF new

-----------------------------------------------------------------------------
(* The steps of a retrieval.  *)

\* What a sound question has.
LEMMA SoundHas ==
    ASSUME Sound(q)
    PROVE  /\ Shaped(q) /\ Typed(q) /\ Sources(q) /\ Pooled(q) /\ Distinct(q.cands)
           /\ q.path \in Paths /\ q.agg \in BOOLEAN /\ q.anachronism \in BOOLEAN
           /\ q.filter \in Sections \cup {Anywhere}
           /\ q.step \in 0..MaxSteps /\ q.steps \in 0..MaxSteps
           /\ q.retries \in 0..MaxRetries /\ q.rewrites \in 0..MaxRewrites
           /\ q.cands \in Seq(Candidate) /\ q.pool \in Seq(Children)
           /\ q.parents \in Seq(Ids) /\ q.evidence \in Seq(Ids) /\ q.cites \in Seq(Ids)
<1>1. Shaped(q) /\ Typed(q) /\ Sources(q) /\ Pooled(q)
  BY DEF Sound
<1>2. /\ q.path \in Paths /\ q.agg \in BOOLEAN /\ q.anachronism \in BOOLEAN
      /\ q.filter \in Sections \cup {Anywhere}
      /\ q.step \in 0..MaxSteps /\ q.steps \in 0..MaxSteps
  BY <1>1, TypesAre DEF Typed, Fields
<1>3. /\ q.retries \in 0..MaxRetries /\ q.rewrites \in 0..MaxRewrites
      /\ q.cands \in Seq(Candidate) /\ q.pool \in Seq(Children)
      /\ q.parents \in Seq(Ids) /\ q.evidence \in Seq(Ids) /\ q.cites \in Seq(Ids)
  BY <1>1, TypesAre DEF Typed, Fields
<1>4. Distinct(q.cands)
  BY <1>1, <1>3 DEF Distinct, Pooled
<1> QED BY <1>1, <1>2, <1>3, <1>4

\* A question in retrieval that goes on, with the evidence it had.
LEMMA RetrievesSound ==
    ASSUME Sound(q), q.pc \in Retrieving, q'.pc \in Retrieving \cup {"judged"},
           NEW changed, changed \in SUBSET {"pc", "cands", "pool", "parents", "retries"},
           Same(q, q', changed), Distinct(q'.cands), q'.pool \in Seq(Children),
           q'.parents \in Seq(Ids), IsInjective(q'.parents), q'.retries \in 0..MaxRetries,
           q'.pc \in {"resolve", "hopResolve"} =>
               \/ Safe(q'.cands) \subseteq ToSet(q'.pool)
               \/ ToSet(q'.pool) \subseteq Safe(q'.cands)
    PROVE  Sound(q')
<1> DEFINE all == {"pc", "cands", "pool", "parents", "retries"}
<1>1. Same(q, q', all) /\ all \in SUBSET Fields
  BY DEF Same, Fields
<1>2. \A f \in all : q'[f] \in Types[f]
  <2>1. q'.pc \in Retrieving \cup Concluding \cup Ended
    BY DEF Concluding
  <2>2. q'.cands \in Seq(Candidate)
    BY DEF Distinct
  <2> QED BY <2>1, <2>2, TypesAre
<1>3. Shaped(q') /\ Typed(q')
  <2> HIDE DEF all
  <2> QED BY <1>1, <1>2, SoundHas, SameTyped
<1>4. q'.path = q.path /\ q'.evidence = q.evidence /\ q'.cites = q.cites
  BY <1>1 DEF Same, Fields
<1>5. q.path # "planner" => q.evidence = <<>> /\ q.cites = <<>>
  BY DEF Sound, Sources
<1>6. q'.pc \notin {"rewrite", "abstain", "extract", "direct", "write", "generate",
                    "synthesize", "done"}
  BY DEF Retrieving
<1>7. Sources(q')
  BY <1>4, <1>5, <1>6 DEF Sources
<1>8. Pooled(q')
  BY DEF Pooled, Distinct
<1> QED BY <1>3, <1>7, <1>8 DEF Sound

\* Nothing found is distinct.
LEMMA NoneDistinct == Distinct(<<>>) /\ <<>> \in Seq(Children) /\ <<>> \in Seq(Ids)
BY EmptyIs DEF Distinct

\* The search keeps questions sound.
LEMMA SearchSound ==
    ASSUME Sound(q), Search
    PROVE  Sound(q')
<1>0. q.pc = "search"
  BY DEF Search
<1>1. PICK cands \in Found : \E pool \in Reranked(cands, PoolSize(Len(cands))) :
          q' = [q EXCEPT !.pc = "resolve", !.cands = cands, !.pool = pool]
  BY Zenon DEF Search
<1>2. PICK pool \in Reranked(cands, PoolSize(Len(cands))) :
          q' = [q EXCEPT !.pc = "resolve", !.cands = cands, !.pool = pool]
  BY <1>1, Zenon
<1>3. Distinct(cands) /\ Len(cands) \in Nat
  BY FoundIs DEF Distinct
<1>4. PoolSize(Len(cands)) \in Nat
  BY <1>3, PoolSizeIs
<1>5. /\ pool \in Seq(Children)
      /\ Safe(cands) \subseteq ToSet(pool) \/ ToSet(pool) \subseteq Safe(cands)
  BY <1>3, <1>4, RerankedIs
<1>6. /\ Same(q, q', {"pc", "cands", "pool"})
      /\ q'.pc = "resolve" /\ q'.cands = cands /\ q'.pool = pool
  <2> DEFINE e1 == [q EXCEPT !.pc = "resolve"]
  <2> DEFINE e2 == [e1 EXCEPT !.cands = cands]
  <2>0. q' = [e2 EXCEPT !.pool = pool]
    BY <1>2, SoundHas DEF Shaped, Fields
  <2>1. Same(q, e1, {"pc"}) /\ e1.pc = "resolve"
    BY SoundHas DEF Same, Shaped, Fields
  <2> HIDE DEF e1
  <2>2. Same(q, e2, {"pc", "cands"}) /\ e2.pc = "resolve" /\ e2.cands = cands
    BY <2>1 DEF Same, Shaped, Fields
  <2> HIDE DEF e2
  <2> QED BY <2>0, <2>2 DEF Same, Shaped, Fields
<1>7. q'.parents = q.parents /\ q'.retries = q.retries
  BY <1>6 DEF Same, Fields
<1>8. q.parents \in Seq(Ids) /\ IsInjective(q.parents) /\ q.retries \in 0..MaxRetries
  BY SoundHas DEF Sources
<1>9. {"pc", "cands", "pool"} \in SUBSET {"pc", "cands", "pool", "parents", "retries"}
  OBVIOUS
<1> QED BY <1>0, <1>3, <1>5, <1>6, <1>7, <1>8, <1>9, RetrievesSound DEF Retrieving

\* Resolution keeps questions sound.
LEMMA ResolveSound ==
    ASSUME Sound(q), Resolve
    PROVE  Sound(q')
<1> DEFINE parents == Resolved(q.pool)
<1>0. q.pc = "resolve"
  BY DEF Resolve
<1>1. parents \in Seq(Ids) /\ IsInjective(parents)
  BY SoundHas, ResolvedIs
<1>2. \/ q' = [q EXCEPT !.pc = "judge", !.cands = <<>>, !.pool = <<>>, !.parents = parents]
      \/ q' = [q EXCEPT !.pc = "hop", !.parents = parents]
  BY DEF Resolve
<1> HIDE DEF parents
<1>3. q.retries \in 0..MaxRetries /\ Distinct(q.cands) /\ q.pool \in Seq(Children)
  BY SoundHas
<1>4. CASE q' = [q EXCEPT !.pc = "judge", !.cands = <<>>, !.pool = <<>>, !.parents = parents]
  <2>1. /\ Same(q, q', {"pc", "cands", "pool", "parents"})
        /\ q'.pc = "judge" /\ q'.cands = <<>> /\ q'.pool = <<>> /\ q'.parents = parents
    <3> DEFINE e1 == [q EXCEPT !.pc = "judge"]
    <3> DEFINE e2 == [e1 EXCEPT !.cands = <<>>]
    <3> DEFINE e3 == [e2 EXCEPT !.pool = <<>>]
    <3>0. q' = [e3 EXCEPT !.parents = parents]
      BY <1>4, SoundHas DEF Shaped, Fields
    <3>1. Same(q, e1, {"pc"}) /\ e1.pc = "judge"
      BY SoundHas DEF Same, Shaped, Fields
    <3> HIDE DEF e1
    <3>2. Same(q, e2, {"pc", "cands"}) /\ e2.pc = "judge" /\ e2.cands = <<>>
      BY <3>1 DEF Same, Shaped, Fields
    <3> HIDE DEF e2
    <3>3. /\ Same(q, e3, {"pc", "cands", "pool"}) /\ e3.pc = "judge"
          /\ e3.cands = <<>> /\ e3.pool = <<>>
      BY <3>2 DEF Same, Shaped, Fields
    <3> HIDE DEF e3
    <3> QED BY <3>0, <3>3 DEF Same, Shaped, Fields
  <2>2. q'.retries = q.retries
    BY <2>1 DEF Same, Fields
  <2>3. {"pc", "cands", "pool", "parents"} \in SUBSET {"pc", "cands", "pool", "parents", "retries"}
    OBVIOUS
  <2> QED BY <1>0, <1>1, <1>3, <2>1, <2>2, <2>3, NoneDistinct, RetrievesSound DEF Retrieving
<1>5. CASE q' = [q EXCEPT !.pc = "hop", !.parents = parents]
  <2>1. /\ Same(q, q', {"pc", "parents"})
        /\ q'.pc = "hop" /\ q'.parents = parents
    <3> DEFINE e1 == [q EXCEPT !.pc = "hop"]
    <3>0. q' = [e1 EXCEPT !.parents = parents]
      BY <1>5, SoundHas DEF Shaped, Fields
    <3>1. Same(q, e1, {"pc"}) /\ e1.pc = "hop"
      BY SoundHas DEF Same, Shaped, Fields
    <3> HIDE DEF e1
    <3> QED BY <3>0, <3>1 DEF Same, Shaped, Fields
  <2>2. q'.retries = q.retries /\ q'.cands = q.cands /\ q'.pool = q.pool
    BY <2>1 DEF Same, Fields
  <2>3. {"pc", "parents"} \in SUBSET {"pc", "cands", "pool", "parents", "retries"}
    OBVIOUS
  <2> QED BY <1>0, <1>1, <1>3, <2>1, <2>2, <2>3, RetrievesSound DEF Retrieving
<1> QED BY <1>2, <1>4, <1>5

\* The second hop keeps questions sound.
LEMMA HopSound ==
    ASSUME Sound(q), Hop
    PROVE  Sound(q')
<1>0. q.pc = "hop"
  BY Zenon DEF Hop
<1>1. PICK extra \in Found :
          \/ q' = [q EXCEPT !.pc = "judge", !.cands = <<>>, !.pool = <<>>]
          \/ \E pool \in Reranked(Merged(q.cands, extra), PoolSize(Len(q.cands))) :
                 q' = [q EXCEPT !.pc = "hopResolve", !.cands = Merged(q.cands, extra),
                                !.pool = pool, !.parents = <<>>]
  BY Zenon DEF Hop
<1>2. /\ q.retries \in 0..MaxRetries /\ Distinct(q.cands) /\ Len(q.cands) \in Nat
      /\ q.parents \in Seq(Ids) /\ IsInjective(q.parents)
  BY SoundHas DEF Sources
<1>3. CASE q' = [q EXCEPT !.pc = "judge", !.cands = <<>>, !.pool = <<>>]
  <2>1. /\ Same(q, q', {"pc", "cands", "pool"})
        /\ q'.pc = "judge" /\ q'.cands = <<>> /\ q'.pool = <<>>
    <3> DEFINE e1 == [q EXCEPT !.pc = "judge"]
    <3> DEFINE e2 == [e1 EXCEPT !.cands = <<>>]
    <3>0. q' = [e2 EXCEPT !.pool = <<>>]
      BY <1>3, SoundHas DEF Shaped, Fields
    <3>1. Same(q, e1, {"pc"}) /\ e1.pc = "judge"
      BY SoundHas DEF Same, Shaped, Fields
    <3> HIDE DEF e1
    <3>2. Same(q, e2, {"pc", "cands"}) /\ e2.pc = "judge" /\ e2.cands = <<>>
      BY <3>1 DEF Same, Shaped, Fields
    <3> HIDE DEF e2
    <3> QED BY <3>0, <3>2 DEF Same, Shaped, Fields
  <2>2. q'.retries = q.retries /\ q'.parents = q.parents
    BY <2>1 DEF Same, Fields
  <2>3. {"pc", "cands", "pool"} \in SUBSET {"pc", "cands", "pool", "parents", "retries"}
    OBVIOUS
  <2> QED BY <1>0, <1>2, <2>1, <2>2, <2>3, NoneDistinct, RetrievesSound DEF Retrieving
<1>4. CASE \E pool \in Reranked(Merged(q.cands, extra), PoolSize(Len(q.cands))) :
               q' = [q EXCEPT !.pc = "hopResolve", !.cands = Merged(q.cands, extra),
                              !.pool = pool, !.parents = <<>>]
  <2> DEFINE merged == Merged(q.cands, extra)
  <2>1. PICK pool \in Reranked(merged, PoolSize(Len(q.cands))) :
            q' = [q EXCEPT !.pc = "hopResolve", !.cands = merged, !.pool = pool,
                           !.parents = <<>>]
    BY <1>4, Zenon
  <2>2. Distinct(merged)
    BY <1>2, FoundIs, MergedIs
  <2> HIDE DEF merged
  <2>3. PoolSize(Len(q.cands)) \in Nat
    BY <1>2, PoolSizeIs
  <2>4. /\ pool \in Seq(Children)
        /\ Safe(merged) \subseteq ToSet(pool) \/ ToSet(pool) \subseteq Safe(merged)
    BY <2>2, <2>3, RerankedIs
  <2>5. /\ Same(q, q', {"pc", "cands", "pool", "parents"})
        /\ q'.pc = "hopResolve" /\ q'.cands = merged /\ q'.pool = pool
        /\ q'.parents = <<>>
    <3> DEFINE e1 == [q EXCEPT !.pc = "hopResolve"]
    <3> DEFINE e2 == [e1 EXCEPT !.cands = merged]
    <3> DEFINE e3 == [e2 EXCEPT !.pool = pool]
    <3>0. q' = [e3 EXCEPT !.parents = <<>>]
      BY <2>1, SoundHas DEF Shaped, Fields
    <3>1. Same(q, e1, {"pc"}) /\ e1.pc = "hopResolve"
      BY SoundHas DEF Same, Shaped, Fields
    <3> HIDE DEF e1
    <3>2. Same(q, e2, {"pc", "cands"}) /\ e2.pc = "hopResolve" /\ e2.cands = merged
      BY <3>1 DEF Same, Shaped, Fields
    <3> HIDE DEF e2
    <3>3. /\ Same(q, e3, {"pc", "cands", "pool"}) /\ e3.pc = "hopResolve"
          /\ e3.cands = merged /\ e3.pool = pool
      BY <3>2 DEF Same, Shaped, Fields
    <3> HIDE DEF e3
    <3> QED BY <3>0, <3>3 DEF Same, Shaped, Fields
  <2>6. q'.retries = q.retries
    BY <2>5 DEF Same, Fields
  <2>7. {"pc", "cands", "pool", "parents"} \in SUBSET {"pc", "cands", "pool", "parents", "retries"}
    OBVIOUS
  <2> QED BY <1>0, <1>2, <2>2, <2>4, <2>5, <2>6, <2>7, NoneDistinct, EmptyIs, RetrievesSound
          DEF Retrieving
<1> QED BY <1>1, <1>3, <1>4, Zenon

\* The resolution after it keeps questions sound.
LEMMA HopResolveSound ==
    ASSUME Sound(q), HopResolve
    PROVE  Sound(q')
<1> DEFINE parents == Resolved(q.pool)
<1>0. q.pc = "hopResolve"
  BY DEF HopResolve
<1>1. parents \in Seq(Ids) /\ IsInjective(parents)
  BY SoundHas, ResolvedIs
<1>2. q' = [q EXCEPT !.pc = "judge", !.cands = <<>>, !.pool = <<>>, !.parents = parents]
  BY DEF HopResolve
<1> HIDE DEF parents
<1>3. /\ Same(q, q', {"pc", "cands", "pool", "parents"})
      /\ q'.pc = "judge" /\ q'.cands = <<>> /\ q'.pool = <<>> /\ q'.parents = parents
  <2> DEFINE e1 == [q EXCEPT !.pc = "judge"]
  <2> DEFINE e2 == [e1 EXCEPT !.cands = <<>>]
  <2> DEFINE e3 == [e2 EXCEPT !.pool = <<>>]
  <2>0. q' = [e3 EXCEPT !.parents = parents]
    BY <1>2, SoundHas DEF Shaped, Fields
  <2>1. Same(q, e1, {"pc"}) /\ e1.pc = "judge"
    BY SoundHas DEF Same, Shaped, Fields
  <2> HIDE DEF e1
  <2>2. Same(q, e2, {"pc", "cands"}) /\ e2.pc = "judge" /\ e2.cands = <<>>
    BY <2>1 DEF Same, Shaped, Fields
  <2> HIDE DEF e2
  <2>3. /\ Same(q, e3, {"pc", "cands", "pool"}) /\ e3.pc = "judge" /\ e3.cands = <<>>
        /\ e3.pool = <<>>
    BY <2>2 DEF Same, Shaped, Fields
  <2> HIDE DEF e3
  <2> QED BY <2>0, <2>3 DEF Same, Shaped, Fields
<1>4. q'.retries = q.retries /\ q.retries \in 0..MaxRetries
  BY <1>3, SoundHas DEF Same, Fields
<1>5. {"pc", "cands", "pool", "parents"} \in SUBSET {"pc", "cands", "pool", "parents", "retries"}
  OBVIOUS
<1> QED BY <1>0, <1>1, <1>3, <1>4, <1>5, NoneDistinct, RetrievesSound DEF Retrieving

\* The judgement of the evidence keeps questions sound.
LEMMA JudgeSound ==
    ASSUME Sound(q), Judge
    PROVE  Sound(q')
<1>0. q.pc = "judge"
  BY DEF Judge
<1>1. q' = IF Sufficient \/ q.retries = MaxRetries
           THEN [q EXCEPT !.pc = "judged", !.retries = 0]
           ELSE [q EXCEPT !.pc = "search", !.retries = q.retries + 1, !.parents = <<>>]
  BY SoundHas DEF Judge, Shaped, Fields
<1>2. /\ q.retries \in 0..MaxRetries /\ Distinct(q.cands) /\ q.pool \in Seq(Children)
      /\ q.parents \in Seq(Ids) /\ IsInjective(q.parents)
  BY SoundHas DEF Sources
<1>3. MaxRetries \in Nat
  BY AnsweringAssumption
<1>4. CASE Sufficient \/ q.retries = MaxRetries
  <2>0. q' = [q EXCEPT !.pc = "judged", !.retries = 0]
    BY <1>1, <1>4
  <2>1. /\ Same(q, q', {"pc", "retries"})
        /\ q'.pc = "judged" /\ q'.retries = 0
    <3> DEFINE e1 == [q EXCEPT !.pc = "judged"]
    <3>0. q' = [e1 EXCEPT !.retries = 0]
      BY <2>0, SoundHas DEF Shaped, Fields
    <3>1. Same(q, e1, {"pc"}) /\ e1.pc = "judged"
      BY SoundHas DEF Same, Shaped, Fields
    <3> HIDE DEF e1
    <3> QED BY <3>0, <3>1 DEF Same, Shaped, Fields
  <2>2. q'.cands = q.cands /\ q'.pool = q.pool /\ q'.parents = q.parents
    BY <2>1 DEF Same, Fields
  <2>3. {"pc", "retries"} \in SUBSET {"pc", "cands", "pool", "parents", "retries"}
    OBVIOUS
  <2>4. q'.retries \in 0..MaxRetries
    BY <1>3, <2>1
  <2> QED BY <1>0, <1>2, <2>1, <2>2, <2>3, <2>4, RetrievesSound DEF Retrieving
<1>5. CASE ~(Sufficient \/ q.retries = MaxRetries)
  <2>0. q' = [q EXCEPT !.pc = "search", !.retries = q.retries + 1, !.parents = <<>>]
    BY <1>1, <1>5
  <2>1. /\ Same(q, q', {"pc", "retries", "parents"})
        /\ q'.pc = "search" /\ q'.retries = q.retries + 1 /\ q'.parents = <<>>
    <3> DEFINE e1 == [q EXCEPT !.pc = "search"]
    <3> DEFINE e2 == [e1 EXCEPT !.retries = q.retries + 1]
    <3>0. q' = [e2 EXCEPT !.parents = <<>>]
      BY <2>0, SoundHas DEF Shaped, Fields
    <3>1. Same(q, e1, {"pc"}) /\ e1.pc = "search"
      BY SoundHas DEF Same, Shaped, Fields
    <3> HIDE DEF e1
    <3>2. Same(q, e2, {"pc", "retries"}) /\ e2.pc = "search" /\ e2.retries = q.retries + 1
      BY <3>1 DEF Same, Shaped, Fields
    <3> HIDE DEF e2
    <3> QED BY <3>0, <3>2 DEF Same, Shaped, Fields
  <2>2. q'.cands = q.cands /\ q'.pool = q.pool
    BY <2>1 DEF Same, Fields
  <2>3. {"pc", "retries", "parents"} \in SUBSET {"pc", "cands", "pool", "parents", "retries"}
    OBVIOUS
  <2>4. q'.retries \in 0..MaxRetries
    BY <1>2, <1>3, <1>5, <2>1
  <2> QED BY <1>0, <1>2, <2>1, <2>2, <2>3, <2>4, NoneDistinct, EmptyIs, RetrievesSound
          DEF Retrieving
<1> QED BY <1>4, <1>5

-----------------------------------------------------------------------------
(* The steps after a retrieval.  *)

\* What a question that is answered has gathered.
LEMMA Sourced ==
    ASSUME Sound(q),
           q.pc \in {"extract", "direct", "write", "generate", "synthesize", "done"}
    PROVE  /\ IsInjective(q.evidence) /\ ToSet(q.evidence) \subseteq ToSet(q.cites)
           /\ q.path # "planner" => q.cites = q.evidence
BY DEF Sound, Sources

\* A refusal, where evidence and citations agree.
LEMMA RefusedSound ==
    ASSUME Sound(q), IsInjective(q.evidence), ToSet(q.evidence) \subseteq ToSet(q.cites),
           q.path # "planner" => q.cites = q.evidence
    PROVE  Sound(Refused)
<1>1. Unasked.supports \in [Texts -> BOOLEAN]
  BY DEF Unasked
<1> QED BY <1>1, AnsweredSound DEF Refused

\* What a question is answered with on its way: nothing, outside the planner.
LEMMA Ungathered ==
    ASSUME Sound(q), q.pc \in {"judged", "rewrite", "abstain"}, q.path # "planner"
    PROVE  /\ IsInjective(q.evidence) /\ ToSet(q.evidence) \subseteq ToSet(q.cites)
           /\ q.cites = q.evidence
BY EmptyIs DEF Sound, Sources

\* From the retrieval to generation, to the stream.
LEMMA ToGenerationSound ==
    ASSUME Sound(q), ToGeneration \/ ToStream
    PROVE  Sound(q')
<1>1. q.parents \in Seq(Ids) /\ IsInjective(q.parents)
  BY SoundHas DEF Sources
<1>2. q.path # "planner" /\ q.pc = "judged"
  BY DEF ToGeneration, ToStream
<1>3. \/ q' = Refused \/ q' = Given(q.parents, q.parents, "extract")
      \/ q' = Given(q.parents, q.parents, "generate")
  BY DEF ToGeneration, ToStream
<1>4. Sound(Refused)
  BY <1>2, Ungathered, RefusedSound
<1>5. /\ Sound(Given(q.parents, q.parents, "extract"))
      /\ Sound(Given(q.parents, q.parents, "generate"))
  BY <1>1, GivenSound
<1> QED BY <1>3, <1>4, <1>5

\* The planner's next step adds to what it gathered.
LEMMA NextStepSound ==
    ASSUME Sound(q), NextStep
    PROVE  Sound(q')
<1>1. PICK filter \in Named(q.filter), agg \in BOOLEAN, barred \in BOOLEAN :
          q' = [q EXCEPT !.pc = IF barred THEN "judged" ELSE "search",
                         !.step = @ + 1, !.filter = filter, !.agg = agg,
                         !.evidence = @ \o q.parents, !.cites = @ \o q.parents,
                         !.parents = <<>>]
  BY Zenon DEF NextStep
<1> DEFINE pc == IF barred THEN "judged" ELSE "search"
           step == q.step + 1
           evidence == q.evidence \o q.parents
           cites == q.cites \o q.parents
           changed == {"pc", "step", "filter", "agg", "evidence", "cites", "parents"}
<1>2. q' = [q EXCEPT !.pc = pc, !.step = step, !.filter = filter, !.agg = agg,
                     !.evidence = evidence, !.cites = cites, !.parents = <<>>]
  BY <1>1, SoundHas DEF Shaped, Fields
<1>3. pc = "judged" \/ pc = "search"
  OBVIOUS
<1>4. step \in 0..MaxSteps
  <2>1. q.step \in 0..MaxSteps /\ q.steps \in 0..MaxSteps /\ q.step < q.steps
    BY SoundHas DEF NextStep
  <2>2. MaxSteps \in Nat
    BY LimitsAre
  <2> QED BY <2>1, <2>2
<1>5. evidence \in Seq(Ids) /\ cites \in Seq(Ids)
  BY SoundHas, ConcatIs
<1>6. filter \in Sections \cup {Anywhere}
  BY SoundHas DEF Named
<1> HIDE DEF pc, step, evidence, cites
<1>7. /\ Same(q, q', {"pc", "step", "filter", "agg", "evidence", "cites", "parents"})
      /\ q'.pc = pc /\ q'.step = step /\ q'.filter = filter /\ q'.agg = agg
      /\ q'.evidence = evidence /\ q'.cites = cites /\ q'.parents = <<>>
  <2> DEFINE e1 == [q EXCEPT !.pc = pc]
  <2> DEFINE e2 == [e1 EXCEPT !.step = step]
  <2> DEFINE e3 == [e2 EXCEPT !.filter = filter]
  <2> DEFINE e4 == [e3 EXCEPT !.agg = agg]
  <2> DEFINE e5 == [e4 EXCEPT !.evidence = evidence]
  <2> DEFINE e6 == [e5 EXCEPT !.cites = cites]
  <2>0. q' = [e6 EXCEPT !.parents = <<>>]
    BY <1>2, SoundHas DEF Shaped, Fields
  <2>1. Same(q, e1, {"pc"}) /\ e1.pc = pc
    BY SoundHas DEF Same, Shaped, Fields
  <2> HIDE DEF e1
  <2>2. Same(q, e2, {"pc", "step"}) /\ e2.pc = pc /\ e2.step = step
    BY <2>1 DEF Same, Shaped, Fields
  <2> HIDE DEF e2
  <2>3. /\ Same(q, e3, {"pc", "step", "filter"}) /\ e3.pc = pc /\ e3.step = step
        /\ e3.filter = filter
    BY <2>2 DEF Same, Shaped, Fields
  <2> HIDE DEF e3
  <2>4. /\ Same(q, e4, {"pc", "step", "filter", "agg"}) /\ e4.pc = pc
        /\ e4.step = step /\ e4.filter = filter /\ e4.agg = agg
    BY <2>3 DEF Same, Shaped, Fields
  <2> HIDE DEF e4
  <2>5. /\ Same(q, e5, {"pc", "step", "filter", "agg", "evidence"}) /\ e5.pc = pc
        /\ e5.step = step /\ e5.filter = filter /\ e5.agg = agg
        /\ e5.evidence = evidence
    BY <2>4 DEF Same, Shaped, Fields
  <2> HIDE DEF e5
  <2>6. /\ Same(q, e6, {"pc", "step", "filter", "agg", "evidence", "cites"})
        /\ e6.pc = pc /\ e6.step = step /\ e6.filter = filter /\ e6.agg = agg
        /\ e6.evidence = evidence /\ e6.cites = cites
    BY <2>5 DEF Same, Shaped, Fields
  <2> HIDE DEF e6
  <2> QED BY <2>0, <2>6 DEF Same, Shaped, Fields
<1>8. pc \in Retrieving \cup Concluding \cup Ended
  BY <1>3 DEF Retrieving, Concluding
<1>9. \A f \in changed : q'[f] \in Types[f]
  BY <1>4, <1>5, <1>6, <1>7, <1>8, NoneDistinct, TypesAre
<1>10. Shaped(q') /\ Typed(q')
  <2>1. changed \in SUBSET Fields
    BY DEF Fields
  <2>2. Shaped(q) /\ Typed(q)
    BY SoundHas
  <2>3. Same(q, q', changed)
    BY <1>7
  <2> HIDE DEF changed
  <2>4. \A f \in changed : q'[f] \in Types[f]
    BY <1>9
  <2> QED BY Zenon, <2>1, <2>2, <2>3, <2>4, SameTyped
<1>11. q'.path = "planner" /\ q'.cands = q.cands
  BY <1>7 DEF NextStep, Same, Fields
<1>12. Sources(q')
  BY <1>3, <1>7, <1>11, EmptyIs DEF Sources
<1>13. Pooled(q')
  BY <1>3, <1>7, <1>11, SoundHas DEF Pooled
<1> QED BY <1>10, <1>12, <1>13 DEF Sound

\* The planner's synthesis is given a part of what it gathered, each piece once.
LEMMA ToSynthesisSound ==
    ASSUME Sound(q), ToSynthesis
    PROVE  Sound(q')
<1> DEFINE all == q.evidence \o q.parents
           firsts == Firsts(all)
<1>1. PICK n \in 0..Len(firsts) : q' = Given(SubSeq(firsts, 1, n), all, "synthesize")
  BY Zenon DEF ToSynthesis
<1>2. q.path = "planner"
  BY DEF ToSynthesis
<1>3. all \in Seq(Ids)
  BY SoundHas, ConcatIs
<1> HIDE DEF all
<1>4. firsts \in Seq(Ids) /\ IsInjective(firsts) /\ ToSet(firsts) = ToSet(all)
  BY <1>3, FirstsIs
<1> HIDE DEF firsts
<1> DEFINE cut == SubSeq(firsts, 1, n)
<1>5. cut \in Seq(Ids) /\ IsInjective(cut) /\ ToSet(cut) \subseteq ToSet(all)
  BY <1>4, PrefixIs
<1> HIDE DEF cut
<1>6. Sound(Given(cut, all, "synthesize"))
  BY <1>2, <1>3, <1>5, GivenSound
<1> QED BY <1>1, <1>6 DEF cut

\* A refusal that cites what was graded relevant.
LEMMA BarredSound ==
    ASSUME Sound(q), NEW evidence \in Seq(Ids), IsInjective(evidence),
           NEW r, r = [Given(evidence, evidence, "done") EXCEPT !.answer = "refusal"]
    PROVE  Sound(r)
<1> DEFINE g == Given(evidence, evidence, "done")
           changed == {"answer"}
<1>1. /\ Sound(g) /\ g.cands = <<>> /\ g.parents = <<>> /\ g.path = q.path
      /\ g.evidence = evidence /\ g.cites = evidence /\ g.pc = "done"
  <2>1. g.pc = "done"
    BY DEF Given, Unasked
  <2>2. ToSet(evidence) \subseteq ToSet(evidence)
    OBVIOUS
  <2> HIDE DEF g
  <2> QED BY <2>1, <2>2, GivenSound DEF g
<1>2. r = [g EXCEPT !.answer = "refusal"]
  OBVIOUS
<1> HIDE DEF g
<1>3. Same(g, r, changed) /\ r.answer = "refusal"
  BY <1>1, <1>2 DEF Sound, Same, Shaped, Fields
<1>4. Shaped(r) /\ Typed(r)
  <2>1. changed \in SUBSET Fields /\ \A f \in changed : r[f] \in Types[f]
    BY <1>3, TypesAre DEF Fields
  <2> HIDE DEF changed
  <2> QED BY <1>1, <1>3, <2>1, SameTyped DEF Sound
<1>5. /\ r.cands = <<>> /\ r.parents = <<>> /\ r.path = q.path
      /\ r.evidence = evidence /\ r.cites = evidence /\ r.pc = "done"
  BY <1>1, <1>3 DEF Same, Fields
<1> QED BY <1>4, <1>5, ConcludesSound DEF Retrieving

\* The grades keep some of the parents, or lead to a rewriting or an abstention.
LEMMA GradeSound ==
    ASSUME Sound(q), Grade
    PROVE  Sound(q')
<1>1. PICK good \in SUBSET ToSet(q.parents) :
          q' = CASE Relevant(good) # <<>> /\ q.anachronism ->
                        [Given(Relevant(good), Relevant(good), "done")
                           EXCEPT !.answer = "refusal"]
                 [] Relevant(good) # <<>> /\ ~q.anachronism ->
                        Given(Relevant(good), Relevant(good), "extract")
                 [] Relevant(good) = <<>> ->
                        [q EXCEPT !.pc = IF q.rewrites < MaxRewrites THEN "rewrite"
                                         ELSE "abstain",
                                  !.parents = <<>>]
  BY Zenon DEF Grade
<1>2. q.path = "graph" /\ q.pc = "judged"
  BY DEF Grade
<1>3. q.parents \in Seq(Ids) /\ IsInjective(q.parents)
  BY SoundHas DEF Sources
<1>4. Relevant(good) \in Seq(Ids) /\ IsInjective(Relevant(good))
  BY <1>3, KeptIs DEF Relevant
<1>5. CASE Relevant(good) # <<>> /\ q.anachronism
  <2>1. q' = [Given(Relevant(good), Relevant(good), "done") EXCEPT !.answer = "refusal"]
    BY <1>1, <1>5
  <2> QED BY <1>4, <2>1, BarredSound
<1>6. CASE Relevant(good) # <<>> /\ ~q.anachronism
  <2>1. q' = Given(Relevant(good), Relevant(good), "extract")
    BY <1>1, <1>6
  <2> QED BY <1>2, <1>4, <2>1, GivenSound
<1>7. CASE Relevant(good) = <<>>
  <2> DEFINE pc == IF q.rewrites < MaxRewrites THEN "rewrite" ELSE "abstain"
  <2>1. q' = [q EXCEPT !.pc = pc, !.parents = <<>>]
    BY <1>1, <1>7
  <2>2. /\ pc = "rewrite" \/ pc = "abstain"
        /\ pc = "rewrite" => q.rewrites < MaxRewrites
    OBVIOUS
  <2> HIDE DEF pc
  <2>3. /\ Same(q, q', {"pc", "parents"})
        /\ q'.pc = pc /\ q'.parents = <<>>
    <3> DEFINE e1 == [q EXCEPT !.pc = pc]
    <3>0. q' = [e1 EXCEPT !.parents = <<>>]
      BY <2>1, SoundHas DEF Shaped, Fields
    <3>1. Same(q, e1, {"pc"}) /\ e1.pc = pc
      BY SoundHas DEF Same, Shaped, Fields
    <3> HIDE DEF e1
    <3> QED BY <3>0, <3>1 DEF Same, Shaped, Fields
  <2>4. pc \in Retrieving \cup Concluding \cup Ended
    BY <2>2 DEF Concluding
  <2>5. Shaped(q') /\ Typed(q')
    <3>1. {"pc", "parents"} \in SUBSET Fields
      BY DEF Fields
    <3>2. \A f \in {"pc", "parents"} : q'[f] \in Types[f]
      BY <2>3, <2>4, NoneDistinct, TypesAre
    <3>3. Shaped(q) /\ Typed(q)
      BY SoundHas
    <3>4. Same(q, q', {"pc", "parents"})
      BY <2>3
    <3> QED BY Zenon, <3>1, <3>2, <3>3, <3>4, SameTyped
  <2>6. /\ q'.path = "graph" /\ q'.cands = q.cands /\ q'.rewrites = q.rewrites
        /\ q'.evidence = q.evidence /\ q'.cites = q.cites
    BY <1>2, <2>3 DEF Same, Fields
  <2>7. q.evidence = <<>> /\ q.cites = <<>>
    BY <1>2, SoundHas DEF Sources
  <2>8. Sources(q')
    BY <2>2, <2>3, <2>6, <2>7, EmptyIs DEF Sources
  <2>9. Pooled(q')
    BY <2>2, <2>3, <2>6, SoundHas DEF Pooled
  <2> QED BY <2>5, <2>8, <2>9 DEF Sound
<1> QED BY <1>5, <1>6, <1>7

\* A rewriting, of which there are no more than MaxRewrites.
LEMMA RewriteSound ==
    ASSUME Sound(q), Rewrite
    PROVE  Sound(q')
<1>1. PICK filter \in Named(q.filter), barred \in BOOLEAN :
          q' = [q EXCEPT !.pc = IF barred THEN "judged" ELSE "search",
                         !.rewrites = @ + 1, !.filter = filter]
  BY Zenon DEF Rewrite
<1> DEFINE pc == IF barred THEN "judged" ELSE "search"
           rewrites == q.rewrites + 1
           changed == {"pc", "rewrites", "filter"}
<1>2. q' = [q EXCEPT !.pc = pc, !.rewrites = rewrites, !.filter = filter]
  BY <1>1, SoundHas DEF Shaped, Fields
<1>3. pc = "judged" \/ pc = "search"
  OBVIOUS
<1>4. rewrites \in 0..MaxRewrites
  <2>1. q.rewrites \in 0..MaxRewrites /\ q.rewrites < MaxRewrites
    BY SoundHas DEF Rewrite, Sources
  <2>2. MaxRewrites \in Nat
    BY AnsweringAssumption
  <2> QED BY <2>1, <2>2
<1>5. filter \in Sections \cup {Anywhere}
  BY SoundHas DEF Named
<1> HIDE DEF pc, rewrites
<1>6. /\ Same(q, q', {"pc", "rewrites", "filter"})
      /\ q'.pc = pc /\ q'.rewrites = rewrites /\ q'.filter = filter
  <2> DEFINE e1 == [q EXCEPT !.pc = pc]
  <2> DEFINE e2 == [e1 EXCEPT !.rewrites = rewrites]
  <2>0. q' = [e2 EXCEPT !.filter = filter]
    BY <1>2, SoundHas DEF Shaped, Fields
  <2>1. Same(q, e1, {"pc"}) /\ e1.pc = pc
    BY SoundHas DEF Same, Shaped, Fields
  <2> HIDE DEF e1
  <2>2. Same(q, e2, {"pc", "rewrites"}) /\ e2.pc = pc /\ e2.rewrites = rewrites
    BY <2>1 DEF Same, Shaped, Fields
  <2> HIDE DEF e2
  <2> QED BY <2>0, <2>2 DEF Same, Shaped, Fields
<1>7. pc \in Retrieving \cup Concluding \cup Ended
  BY <1>3 DEF Retrieving, Concluding
<1>8. Shaped(q') /\ Typed(q')
  <2>1. changed \in SUBSET Fields
    BY DEF Fields
  <2>2. \A f \in changed : q'[f] \in Types[f]
    BY <1>4, <1>5, <1>6, <1>7, TypesAre
  <2>3. Shaped(q) /\ Typed(q)
    BY SoundHas
  <2>4. Same(q, q', changed)
    BY <1>6
  <2> HIDE DEF changed
  <2> QED BY Zenon, <2>1, <2>2, <2>3, <2>4, SameTyped
<1>9. /\ q'.path = q.path /\ q'.cands = q.cands /\ q'.parents = q.parents
      /\ q'.evidence = q.evidence /\ q'.cites = q.cites
  BY <1>6 DEF Same, Fields
<1>10. q.path = "graph" /\ q.evidence = <<>> /\ q.cites = <<>> /\ IsInjective(q.parents)
  BY SoundHas DEF Rewrite, Sources
<1>11. Sources(q')
  BY <1>3, <1>6, <1>9, <1>10 DEF Sources
<1>12. Pooled(q')
  BY <1>3, <1>6, <1>9, SoundHas DEF Pooled
<1> QED BY <1>8, <1>11, <1>12 DEF Sound

\* An abstention.
LEMMA AbstainSound ==
    ASSUME Sound(q), Abstain
    PROVE  Sound(q')
<1>1. q.pc = "abstain" /\ q' = Refused
  BY DEF Abstain
<1>2. q.path # "planner"
  BY <1>1, SoundHas DEF Sources
<1> QED BY <1>1, <1>2, Ungathered, RefusedSound

\* The first pass over the evidence.
LEMMA ExtractSound ==
    ASSUME Sound(q), Extract
    PROVE  Sound(q')
<1>1. q.pc = "extract"
  BY DEF Extract
<1>2. CASE q' = Refused
  BY <1>1, <1>2, Sourced, RefusedSound
<1>3. ASSUME NEW pc \in {"write", "direct"}, q' = [q EXCEPT !.pc = pc] PROVE Sound(q')
  <2>1. Same(q, q', {"pc"}) /\ q'.pc = pc
    BY <1>3, SoundHas DEF Same, Shaped, Fields
  <2>2. Shaped(q') /\ Typed(q')
    <3>1. {"pc"} \in SUBSET Fields /\ \A f \in {"pc"} : q'[f] \in Types[f]
      BY <2>1, TypesAre DEF Fields, Concluding
    <3> QED BY <2>1, <3>1, SoundHas, SameTyped
  <2>3. /\ q'.path = q.path /\ q'.cands = q.cands /\ q'.parents = q.parents
        /\ q'.evidence = q.evidence /\ q'.cites = q.cites
    BY <2>1 DEF Same, Fields
  <2>4. IsInjective(q.parents)
    BY SoundHas DEF Sources
  <2>5. q'.pc = "write" \/ q'.pc = "direct"
    BY <2>1
  <2>6. Sources(q')
    BY <1>1, <2>3, <2>4, <2>5, Sourced DEF Sources, Retrieving
  <2>7. Pooled(q')
    BY <2>3, <2>5, SoundHas DEF Pooled
  <2> QED BY <2>2, <2>6, <2>7 DEF Sound
<1> QED BY <1>2, <1>3 DEF Extract

\* The verdicts are verdicts on the texts.
LEMMA VerdictsAre ==
    ASSUME NEW texts, NEW v \in Verdicts(texts)
    PROVE  v \in [Texts -> BOOLEAN] /\ v["direct"] \in BOOLEAN /\ v["written"] \in BOOLEAN
BY DEF Verdicts, Texts

\* Answers of every kind.
LEMMA AnswersSound ==
    ASSUME Sound(q), AnswerDirectly \/ Write \/ Generate \/ Synthesize
    PROVE  Sound(q')
<1>1. /\ IsInjective(q.evidence) /\ ToSet(q.evidence) \subseteq ToSet(q.cites)
      /\ q.path # "planner" => q.cites = q.evidence
  BY Sourced DEF AnswerDirectly, Write, Generate, Synthesize
<1>2. \A answer \in Texts \cup {"none", "refusal"}, passed \in BOOLEAN,
         supports \in [Texts -> BOOLEAN] : Sound(Answered(answer, passed, supports))
  BY <1>1, AnsweredSound
<1>3. Sound(Refused)
  BY <1>1, RefusedSound
<1>4. CASE AnswerDirectly
  <2>1. CASE q' = Refused
    BY <1>3, <2>1
  <2>2. CASE \E v \in Verdicts({"direct"}) : q' = Answered("direct", v["direct"], v)
    <3>1. PICK v \in Verdicts({"direct"}) : q' = Answered("direct", v["direct"], v)
      BY <2>2
    <3>2. "direct" \in Texts \cup {"none", "refusal"}
      BY DEF Texts
    <3> QED BY <1>2, <3>1, <3>2, VerdictsAre
  <2> QED BY <1>4, <2>1, <2>2 DEF AnswerDirectly
<1>5. CASE Write
  <2>1. PICK text \in {"written", "facts"}, left \in {"stripped", "refusal"},
             v \in Verdicts({"written", "stripped", "facts"}) :
            q' = Verified(text, left, v)
    BY <1>5 DEF Write
  <2>2. /\ text \in Texts \cup {"none", "refusal"} /\ left \in Texts \cup {"none", "refusal"}
        /\ "facts" \in Texts \cup {"none", "refusal"}
    BY DEF Texts
  <2>3. v \in [Texts -> BOOLEAN]
    BY VerdictsAre
  <2>4. /\ Sound(Answered(text, TRUE, v)) /\ Sound(Answered(left, TRUE, v))
        /\ Sound(Answered("facts", TRUE, v)) /\ Sound(Answered("refusal", FALSE, v))
    BY <1>2, <2>2, <2>3
  <2>5. CASE Passes(text, v)
    BY <2>1, <2>4, <2>5 DEF Verified
  <2>6. CASE ~Passes(text, v) /\ Passes(left, v)
    BY <2>1, <2>4, <2>6 DEF Verified
  <2>7. CASE ~Passes(text, v) /\ ~Passes(left, v) /\ Passes("facts", v)
    BY <2>1, <2>4, <2>7 DEF Verified
  <2>8. CASE ~Passes(text, v) /\ ~Passes(left, v) /\ ~Passes("facts", v)
    BY <2>1, <2>4, <2>8 DEF Verified
  <2> QED BY <2>5, <2>6, <2>7, <2>8
<1>6. CASE Generate
  <2>1. CASE q' = Answered("refusal", ~q.agg \/ q.evidence = <<>>, Unasked.supports)
    <3>1. (~q.agg \/ q.evidence = <<>>) \in BOOLEAN
      OBVIOUS
    <3>2. Unasked.supports \in [Texts -> BOOLEAN]
      BY DEF Unasked
    <3> QED BY <1>2, <2>1, <3>1, <3>2
  <2>2. CASE \E v \in Verdicts({"written"}) :
                 q' = Answered("written", v["written"] /\ ~q.agg /\ q.evidence # <<>>, v)
    <3>1. PICK v \in Verdicts({"written"}) :
              q' = Answered("written", v["written"] /\ ~q.agg /\ q.evidence # <<>>, v)
      BY <2>2
    <3>2. (v["written"] /\ ~q.agg /\ q.evidence # <<>>) \in BOOLEAN
      OBVIOUS
    <3>3. "written" \in Texts \cup {"none", "refusal"}
      BY DEF Texts
    <3> QED BY <1>2, <3>1, <3>2, <3>3, VerdictsAre
  <2> QED BY <1>6, <2>1, <2>2 DEF Generate
<1>7. CASE Synthesize
  <2>1. PICK v \in Verdicts({"written"}) : q' = Answered("written", TRUE, v)
    BY <1>7 DEF Synthesize
  <2>2. "written" \in Texts \cup {"none", "refusal"}
    BY DEF Texts
  <2> QED BY <1>2, <2>1, <2>2, VerdictsAre
<1> QED BY <1>4, <1>5, <1>6, <1>7

\* New questions, and questions that fail.
LEMMA AskSound ==
    ASSUME Ask \/ Fail
    PROVE  Sound(q')
<1>1. CASE Ask
  <2>1. PICK path \in Paths, agg \in BOOLEAN, anachronism \in BOOLEAN, steps \in 1..MaxSteps,
             filter \in Named(Anywhere) :
            q' = Asked(path, agg, anachronism, steps, filter)
    BY <1>1 DEF Ask
  <2>2. filter \in Sections \cup {Anywhere}
    BY DEF Named
  <2> QED BY <2>1, <2>2, AskedSound
<1>2. CASE Fail
  BY <1>2, FailedSound DEF Fail
<1> QED BY <1>1, <1>2

-----------------------------------------------------------------------------
\* The invariant holds at the start.
LEMMA InitSound == Init => IInv
<1> SUFFICES ASSUME Init PROVE IInv
  OBVIOUS
<1>1. q = Unasked /\ docs = Docs
  BY DEF Init
<1>2. Sound(Unasked)
  BY UnaskedIs, EmptyIs DEF Sound, Sources, Pooled, Retrieving
<1> QED BY <1>1, <1>2 DEF IInv

\* Every step keeps the invariant.
LEMMA NextSound == IInv /\ [Next]_vars => IInv'
<1> SUFFICES ASSUME IInv, [Next]_vars PROVE IInv'
  OBVIOUS
<1>0. docs \subseteq Docs /\ Sound(q)
  BY DEF IInv
<1>1. CASE UNCHANGED vars
  <2>1. docs' = docs /\ q' = q
    BY <1>1 DEF vars
  <2> QED BY <1>0, <2>1 DEF IInv
<1>2. CASE \E d \in docs : Delete(d)
  <2>1. docs' \subseteq docs /\ q' = q
    BY <1>2 DEF Delete
  <2> QED BY <1>0, <2>1 DEF IInv
<1>3. CASE Ask \/ Proceed
  <2>1. Sound(q')
    BY <1>0, <1>3, AskSound, SearchSound, ResolveSound, HopSound, HopResolveSound, JudgeSound,
       ToGenerationSound, NextStepSound, ToSynthesisSound, GradeSound, RewriteSound,
       AbstainSound, ExtractSound, AnswersSound DEF Proceed
  <2>2. docs' = docs
    <3>1. Ask => docs' = docs
      BY Zenon DEF Ask
    <3>2. Search \/ Resolve \/ Hop \/ HopResolve \/ Judge => docs' = docs
      BY Zenon DEF Search, Resolve, Hop, HopResolve, Judge
    <3>3. ToGeneration \/ ToStream \/ NextStep \/ ToSynthesis => docs' = docs
      BY Zenon DEF ToGeneration, ToStream, NextStep, ToSynthesis
    <3>4. Grade \/ Rewrite \/ Abstain \/ Extract \/ Fail => docs' = docs
      BY Zenon DEF Grade, Rewrite, Abstain, Extract, Fail
    <3>5. AnswerDirectly \/ Write \/ Generate \/ Synthesize => docs' = docs
      BY Zenon DEF AnswerDirectly, Write, Generate, Synthesize
    <3> QED BY Zenon, <1>3, <3>1, <3>2, <3>3, <3>4, <3>5 DEF Proceed
  <2> QED BY <1>0, <2>1, <2>2 DEF IInv
<1> QED BY <1>1, <1>2, <1>3 DEF Next

\* The invariant holds always.
THEOREM AnsweringInvariant == Spec => []IInv
BY InitSound, NextSound, PTL DEF Spec

\* The variables have their types (RAGState, RetrievalResult, GroundedAnswer),
\* whatever the corpus, the limits and the number of steps.
THEOREM AnsweringTypeOK == Spec => []TypeOK
<1>1. IInv => TypeOK
  BY TypedIs DEF IInv, Sound, TypeOK
<1> QED BY <1>1, AnsweringInvariant, PTL

\* No candidate that both searches rank among the first is lost from the pool
\* as long as another kind of candidate is in it, in the second hop too
\* (protect_consensus).
THEOREM ConsensusKeptHolds == Spec => []ConsensusKept
<1>1. IInv => ConsensusKept
  BY DEF IInv, Sound, Pooled, ConsensusKept
<1> QED BY <1>1, AnsweringInvariant, PTL

\* Nothing is given to the writer twice, everything it is given is cited, and
\* outside the planner its [n] is the n-th citation, whatever is deleted between
\* the search and the resolution of the parents (_resolve_parent_chunks,
\* node_generate_answer, execute_plan).
THEOREM EvidenceIsCitedHolds == Spec => []EvidenceIsCited
<1>1. IInv => EvidenceIsCited
  BY DEF IInv, Sound, Sources, EvidenceIsCited
<1> QED BY <1>1, AnsweringInvariant, PTL

-----------------------------------------------------------------------------
(* Every answer is the checked one, by an invariant of its own.  *)

\* Writers of answers that are checked have evidence; only the planner
\* synthesizes.
Grounded ==
    /\ q.pc \in {"extract", "direct", "write"} => q.evidence # <<>>
    /\ q.pc = "synthesize" => q.path = "planner"

Inv == Shaped(q) /\ Grounded /\ AnswerIsTheCheckedOne

\* An unasked question has the fields.
LEMMA UnaskedShaped == Shaped(Unasked)
BY DEF Shaped, Unasked, Fields

\* Where a new question is.
LEMMA AskedIs ==
    ASSUME NEW path, NEW agg, NEW anachronism, NEW steps, NEW filter
    PROVE  LET new == Asked(path, agg, anachronism, steps, filter)
           IN Shaped(new) /\ new.pc \in {"judged", "search"}
<1> DEFINE pc == IF anachronism THEN "judged" ELSE "search"
           a == [Unasked EXCEPT !.pc = pc]
           b == [a EXCEPT !.path = path, !.agg = agg]
           d == [b EXCEPT !.anachronism = anachronism, !.steps = steps]
<1>1. Asked(path, agg, anachronism, steps, filter)
          = [d EXCEPT !.step = 1, !.filter = filter]
  BY DEF Asked
<1>2. pc \in {"judged", "search"}
  OBVIOUS
<1> HIDE DEF pc
<1>3. Shaped(a) /\ a.pc = pc
  BY UnaskedShaped DEF Shaped, Fields
<1> HIDE DEF a
<1>4. Shaped(b) /\ b.pc = pc
  BY <1>3 DEF Shaped, Fields
<1> HIDE DEF b
<1>5. Shaped(d) /\ d.pc = pc
  BY <1>4 DEF Shaped, Fields
<1> HIDE DEF d
<1> QED BY <1>1, <1>2, <1>5 DEF Shaped, Fields

\* What Given keeps and what it sets.
LEMMA GivenIs ==
    ASSUME NEW evidence, NEW cites, NEW pc
    PROVE  /\ Shaped(Given(evidence, cites, pc))
           /\ Given(evidence, cites, pc).pc = pc
           /\ Given(evidence, cites, pc).path = q.path
           /\ Given(evidence, cites, pc).evidence = evidence
BY DEF Given, Shaped, Unasked, Fields

\* What Answered keeps and what it sets.
LEMMA AnsweredIs ==
    ASSUME NEW answer, NEW passed \in BOOLEAN, NEW supports
    PROVE  /\ Shaped(Answered(answer, passed, supports))
           /\ Answered(answer, passed, supports).pc = "done"
           /\ Answered(answer, passed, supports).path = q.path
           /\ Answered(answer, passed, supports).evidence = q.evidence
           /\ Answered(answer, passed, supports).answer = answer
           /\ Answered(answer, passed, supports).passed = passed
           /\ Answered(answer, passed, supports).supports = supports
<1> DEFINE g == Given(q.evidence, q.cites, "done")
           cached == q.path \in {"query", "planner"} /\ passed
           a == [g EXCEPT !.answer = answer]
           b == [a EXCEPT !.passed = passed]
           c == [b EXCEPT !.supports = supports]
<1>1. Answered(answer, passed, supports) = [c EXCEPT !.cached = cached]
  BY DEF Answered
<1>2. Shaped(g) /\ g.pc = "done" /\ g.path = q.path /\ g.evidence = q.evidence
  BY GivenIs
<1> HIDE DEF g, cached
<1>3. /\ Shaped(a) /\ a.pc = "done" /\ a.path = q.path /\ a.evidence = q.evidence
      /\ a.answer = answer
  BY <1>2 DEF Shaped, Fields
<1> HIDE DEF a
<1>4. /\ Shaped(b) /\ b.pc = "done" /\ b.path = q.path /\ b.evidence = q.evidence
      /\ b.answer = answer /\ b.passed = passed
  BY <1>3 DEF Shaped, Fields
<1> HIDE DEF b
<1>5. /\ Shaped(c) /\ c.pc = "done" /\ c.path = q.path /\ c.evidence = q.evidence
      /\ c.answer = answer /\ c.passed = passed /\ c.supports = supports
  BY <1>4 DEF Shaped, Fields
<1> HIDE DEF c
<1> QED BY <1>1, <1>5 DEF Shaped, Fields

\* An answer that is reported as supported only if it is, on evidence, ends a
\* question well.
LEMMA AnswerGood ==
    ASSUME NEW answer, NEW passed \in BOOLEAN, NEW supports,
           q' = Answered(answer, passed, supports),
           q.path # "planner" /\ passed =>
               answer = "refusal" \/ (supports[answer] /\ q.evidence # <<>>)
    PROVE  Inv'
<1>1. /\ Shaped(q') /\ q'.pc = "done" /\ q'.path = q.path /\ q'.evidence = q.evidence
      /\ q'.answer = answer /\ q'.passed = passed /\ q'.supports = supports
  BY AnsweredIs
<1> QED BY <1>1 DEF Inv, Grounded, AnswerIsTheCheckedOne, Shaped

\* A refusal ends a question well.
LEMMA RefusedGood ==
    ASSUME q' = Refused
    PROVE  Inv'
<1>1. q' = Answered("refusal", TRUE, Unasked.supports)
  BY DEF Refused
<1> QED BY <1>1, AnswerGood

\* A question that goes on keeps its evidence, or is back in retrieval.
LEMMA GoesOn ==
    ASSUME Shaped(q'), q'.pc # "done",
           q'.pc \in {"extract", "direct", "write"} => q'.evidence # <<>>,
           q'.pc = "synthesize" => q'.path = "planner"
    PROVE  Inv'
BY DEF Inv, Grounded, AnswerIsTheCheckedOne, Shaped

\* Verified reports only texts whose verdict is good, on the evidence there is.
LEMMA VerifiedGood ==
    ASSUME NEW text \in Texts, NEW left \in {"stripped", "refusal"},
           NEW v \in [Texts -> BOOLEAN],
           q' = Verified(text, left, v), q.evidence # <<>>
    PROVE  Inv'
<1>0. text # "refusal" /\ "facts" # "refusal"
  BY DEF Texts
<1>1. CASE Passes(text, v)
  <2>1. q' = Answered(text, TRUE, v)
    BY <1>1 DEF Verified
  <2>2. v[text]
    BY <1>0, <1>1 DEF Passes
  <2> QED BY <2>1, <2>2, AnswerGood
<1>2. CASE ~Passes(text, v) /\ Passes(left, v)
  <2>1. q' = Answered(left, TRUE, v)
    BY <1>2 DEF Verified
  <2>2. left = "refusal" \/ v[left]
    BY <1>2 DEF Passes
  <2> QED BY <2>1, <2>2, AnswerGood
<1>3. CASE ~Passes(text, v) /\ ~Passes(left, v) /\ Passes("facts", v)
  <2>1. q' = Answered("facts", TRUE, v)
    BY <1>3 DEF Verified
  <2>2. v["facts"]
    BY <1>3 DEF Passes
  <2> QED BY <2>1, <2>2, AnswerGood
<1>4. CASE ~Passes(text, v) /\ ~Passes(left, v) /\ ~Passes("facts", v)
  <2>1. q' = Answered("refusal", FALSE, v)
    BY <1>4 DEF Verified
  <2> QED BY <2>1, AnswerGood
<1> QED BY <1>1, <1>2, <1>3, <1>4

-----------------------------------------------------------------------------
\* The invariant holds at the start.
LEMMA InitInv == Init => Inv
<1> SUFFICES ASSUME Init PROVE Inv
  OBVIOUS
<1>1. q = Unasked /\ q.pc = "idle"
  BY DEF Init, Unasked
<1> QED BY <1>1, UnaskedShaped DEF Inv, Grounded, AnswerIsTheCheckedOne

\* Every step keeps the invariant.
LEMMA NextInv == Inv /\ [Next]_vars => Inv'
<1> SUFFICES ASSUME Inv, [Next]_vars PROVE Inv'
  OBVIOUS
<1>0. Shaped(q) /\ Grounded
  BY DEF Inv
<1>1. CASE UNCHANGED q
  BY <1>1 DEF Inv, Grounded, AnswerIsTheCheckedOne, Shaped
<1>2. CASE Ask
  <2>1. \E path, agg, anachronism, steps, filter :
            q' = Asked(path, agg, anachronism, steps, filter)
    BY <1>2 DEF Ask
  <2> QED BY <2>1, AskedIs, GoesOn
<1>3. CASE Fail
  <2>1. q' = [Unasked EXCEPT !.pc = "failed"]
    BY <1>3 DEF Fail
  <2>2. Shaped(q') /\ q'.pc = "failed"
    BY <2>1, UnaskedShaped DEF Shaped, Fields
  <2> QED BY <2>2, GoesOn
<1>4. CASE Search
  <2>1. PICK cands \in Found : \E pool \in Reranked(cands, PoolSize(Len(cands))) :
            q' = [q EXCEPT !.pc = "resolve", !.cands = cands, !.pool = pool]
    BY <1>4 DEF Search
  <2>2. PICK pool : q' = [q EXCEPT !.pc = "resolve", !.cands = cands, !.pool = pool]
    BY <2>1
  <2>3. Shaped(q') /\ q'.pc = "resolve"
    BY <1>0, <2>2 DEF Shaped, Fields
  <2> QED BY <2>3, GoesOn
<1>5. CASE Resolve
  <2>1. PICK parents :
            \/ q' = [q EXCEPT !.pc = "judge", !.cands = <<>>, !.pool = <<>>,
                              !.parents = parents]
            \/ q' = [q EXCEPT !.pc = "hop", !.parents = parents]
    BY <1>5 DEF Resolve
  <2>2. Shaped(q') /\ q'.pc \in {"judge", "hop"}
    BY <1>0, <2>1 DEF Shaped, Fields
  <2> QED BY <2>2, GoesOn
<1>6. CASE Hop
  <2>1. PICK merged, pool :
            \/ q' = [q EXCEPT !.pc = "judge", !.cands = <<>>, !.pool = <<>>]
            \/ q' = [q EXCEPT !.pc = "hopResolve", !.cands = merged, !.pool = pool,
                              !.parents = <<>>]
    BY <1>6 DEF Hop
  <2>2. Shaped(q') /\ q'.pc \in {"judge", "hopResolve"}
    BY <1>0, <2>1 DEF Shaped, Fields
  <2> QED BY <2>2, GoesOn
<1>7. CASE HopResolve
  <2>1. Shaped(q') /\ q'.pc = "judge"
    BY <1>0, <1>7 DEF HopResolve, Shaped, Fields
  <2> QED BY <2>1, GoesOn
<1>8. CASE Judge
  <2>1. \/ q' = [q EXCEPT !.pc = "judged", !.retries = 0]
        \/ q' = [q EXCEPT !.pc = "search", !.retries = @ + 1, !.parents = <<>>]
    BY <1>8 DEF Judge
  <2>2. Shaped(q') /\ q'.pc \in {"judged", "search"}
    BY <1>0, <2>1 DEF Shaped, Fields
  <2> QED BY <2>2, GoesOn
<1>9. CASE ToGeneration
  <2>1. CASE q.parents = <<>>
    BY <1>9, <2>1, RefusedGood DEF ToGeneration
  <2>2. CASE q.parents # <<>>
    <3>1. q' = Given(q.parents, q.parents, "extract")
      BY <1>9, <2>2 DEF ToGeneration
    <3> QED BY <2>2, <3>1, GivenIs, GoesOn
  <2> QED BY <2>1, <2>2
<1>10. CASE ToStream
  <2>1. q' = Given(q.parents, q.parents, "generate")
    BY <1>10 DEF ToStream
  <2> QED BY <2>1, GivenIs, GoesOn
<1>11. CASE NextStep
  <2>1. PICK filter \in Named(q.filter), agg \in BOOLEAN, barred \in BOOLEAN :
            q' = [q EXCEPT !.pc = IF barred THEN "judged" ELSE "search",
                           !.step = @ + 1, !.filter = filter, !.agg = agg,
                           !.evidence = @ \o q.parents, !.cites = @ \o q.parents,
                           !.parents = <<>>]
    BY <1>11 DEF NextStep
  <2> DEFINE pc == IF barred THEN "judged" ELSE "search"
             a == [q EXCEPT !.pc = pc]
             b == [a EXCEPT !.step = q.step + 1, !.filter = filter]
             d == [b EXCEPT !.agg = agg, !.evidence = q.evidence \o q.parents]
  <2>2. q' = [d EXCEPT !.cites = q.cites \o q.parents, !.parents = <<>>]
    BY <1>0, <2>1 DEF Shaped, Fields
  <2>3. pc \in {"judged", "search"}
    OBVIOUS
  <2> HIDE DEF pc
  <2>4. Shaped(a) /\ a.pc = pc
    BY <1>0 DEF Shaped, Fields
  <2> HIDE DEF a
  <2>5. Shaped(b) /\ b.pc = pc
    BY <2>4 DEF Shaped, Fields
  <2> HIDE DEF b
  <2>6. Shaped(d) /\ d.pc = pc
    BY <2>5 DEF Shaped, Fields
  <2> HIDE DEF d
  <2>7. Shaped(q') /\ q'.pc = pc
    BY <2>2, <2>6 DEF Shaped, Fields
  <2> QED BY <2>3, <2>7, GoesOn
<1>12. CASE ToSynthesis
  <2>1. PICK evidence, cites : q' = Given(evidence, cites, "synthesize")
    BY <1>12 DEF ToSynthesis
  <2>2. q.path = "planner"
    BY <1>12 DEF ToSynthesis
  <2> QED BY <2>1, <2>2, GivenIs, GoesOn
<1>13. CASE Grade
  <2>1. PICK good \in SUBSET ToSet(q.parents) :
            q' = CASE Relevant(good) # <<>> /\ q.anachronism ->
                          [Given(Relevant(good), Relevant(good), "done")
                             EXCEPT !.answer = "refusal"]
                   [] Relevant(good) # <<>> /\ ~q.anachronism ->
                          Given(Relevant(good), Relevant(good), "extract")
                   [] Relevant(good) = <<>> ->
                          [q EXCEPT !.pc = IF q.rewrites < MaxRewrites THEN "rewrite"
                                           ELSE "abstain",
                                    !.parents = <<>>]
    BY <1>13 DEF Grade
  <2>2. CASE Relevant(good) # <<>> /\ q.anachronism
    <3> DEFINE g == Given(Relevant(good), Relevant(good), "done")
    <3>1. q' = [g EXCEPT !.answer = "refusal"]
      BY <2>1, <2>2
    <3>2. Shaped(g) /\ g.pc = "done"
      BY GivenIs
    <3> HIDE DEF g
    <3>3. Shaped(q') /\ q'.pc = "done" /\ q'.answer = "refusal"
      BY <3>1, <3>2 DEF Shaped, Fields
    <3> QED BY <3>3 DEF Inv, Grounded, AnswerIsTheCheckedOne, Shaped
  <2>3. CASE Relevant(good) # <<>> /\ ~q.anachronism
    <3>1. q' = Given(Relevant(good), Relevant(good), "extract")
      BY <2>1, <2>3
    <3> QED BY <2>3, <3>1, GivenIs, GoesOn
  <2>4. CASE Relevant(good) = <<>>
    <3>1. q' = [q EXCEPT !.pc = IF q.rewrites < MaxRewrites THEN "rewrite" ELSE "abstain",
                         !.parents = <<>>]
      BY <2>1, <2>4
    <3>2. Shaped(q') /\ q'.pc \in {"rewrite", "abstain"}
      BY <1>0, <3>1 DEF Shaped, Fields
    <3> QED BY <3>2, GoesOn
  <2> QED BY <2>2, <2>3, <2>4
<1>14. CASE Rewrite
  <2>1. PICK filter, barred :
            q' = [q EXCEPT !.pc = IF barred THEN "judged" ELSE "search",
                           !.rewrites = @ + 1, !.filter = filter]
    BY <1>14 DEF Rewrite
  <2>2. Shaped(q') /\ q'.pc \in {"judged", "search"}
    BY <1>0, <2>1 DEF Shaped, Fields
  <2> QED BY <2>2, GoesOn
<1>15. CASE Abstain
  BY <1>15, RefusedGood DEF Abstain
<1>16. CASE Extract
  <2>1. CASE q' = Refused
    BY <2>1, RefusedGood
  <2>2. CASE q' = [q EXCEPT !.pc = "write"] \/ q' = [q EXCEPT !.pc = "direct"]
    <3>1. Shaped(q') /\ q'.pc \in {"write", "direct"} /\ q'.evidence = q.evidence
      BY <1>0, <2>2 DEF Shaped, Fields
    <3>2. q.evidence # <<>>
      BY <1>0, <1>16 DEF Extract, Grounded
    <3> QED BY <3>1, <3>2, GoesOn
  <2> QED BY <1>16, <2>1, <2>2 DEF Extract
<1>17. CASE AnswerDirectly
  <2>1. CASE q' = Refused
    BY <2>1, RefusedGood
  <2>2. CASE \E v \in Verdicts({"direct"}) : q' = Answered("direct", v["direct"], v)
    <3>1. PICK v \in Verdicts({"direct"}) : q' = Answered("direct", v["direct"], v)
      BY <2>2
    <3>2. v["direct"] \in BOOLEAN
      BY DEF Verdicts, Texts
    <3>3. q.evidence # <<>>
      BY <1>0, <1>17 DEF AnswerDirectly, Grounded
    <3> QED BY <3>1, <3>2, <3>3, AnswerGood
  <2> QED BY <1>17, <2>1, <2>2 DEF AnswerDirectly
<1>18. CASE Write
  <2>1. PICK text \in {"written", "facts"}, left \in {"stripped", "refusal"},
             v \in Verdicts({"written", "stripped", "facts"}) :
            q' = Verified(text, left, v)
    BY <1>18 DEF Write
  <2>2. text \in Texts /\ v \in [Texts -> BOOLEAN]
    BY DEF Texts, Verdicts
  <2>3. q.evidence # <<>>
    BY <1>0, <1>18 DEF Write, Grounded
  <2> QED BY <2>1, <2>2, <2>3, VerifiedGood
<1>19. CASE Generate
  <2>1. CASE q' = Answered("refusal", ~q.agg \/ q.evidence = <<>>, Unasked.supports)
    <3>1. (~q.agg \/ q.evidence = <<>>) \in BOOLEAN
      OBVIOUS
    <3> QED BY <2>1, <3>1, AnswerGood
  <2>2. CASE \E v \in Verdicts({"written"}) :
                 q' = Answered("written", v["written"] /\ ~q.agg /\ q.evidence # <<>>, v)
    <3>1. PICK v \in Verdicts({"written"}) :
              q' = Answered("written", v["written"] /\ ~q.agg /\ q.evidence # <<>>, v)
      BY <2>2
    <3>2. (v["written"] /\ ~q.agg /\ q.evidence # <<>>) \in BOOLEAN
      OBVIOUS
    <3> QED BY <3>1, <3>2, AnswerGood
  <2> QED BY <1>19, <2>1, <2>2 DEF Generate
<1>20. CASE Synthesize
  <2>1. PICK v : q' = Answered("written", TRUE, v)
    BY <1>20 DEF Synthesize
  <2>2. q.path = "planner"
    BY <1>0, <1>20 DEF Synthesize, Grounded
  <2> QED BY <2>1, <2>2, AnswerGood
<1>21. CASE \E d \in docs : Delete(d)
  BY <1>1, <1>21 DEF Delete
<1> QED
  BY <1>1, <1>2, <1>3, <1>4, <1>5, <1>6, <1>7, <1>8, <1>9, <1>10, <1>11, <1>12,
     <1>13, <1>14, <1>15, <1>16, <1>17, <1>18, <1>19, <1>20, <1>21
     DEF Next, Proceed, vars

-----------------------------------------------------------------------------
\* Outside the planner, an answer is reported as supported only if the check
\* passed on the text that is returned, and on evidence, however documents
\* vanish meanwhile (generate_grounded_answer, query_platform_stream).
THEOREM AnswerIsTheCheckedOneHolds == Spec => []AnswerIsTheCheckedOne
<1>1. Inv => AnswerIsTheCheckedOne
  BY DEF Inv
<1> QED BY <1>1, InitInv, NextInv, PTL DEF Spec
=============================================================================
