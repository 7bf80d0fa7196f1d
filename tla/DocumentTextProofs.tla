-------------------------- MODULE DocumentTextProofs --------------------------
(* Proofs about documents on their way to chunks, for any document, any       *)
(* formats and any limits.                                                    *)
EXTENDS DocumentText, FiniteSetTheorems, SequenceTheorems, TLAPS

-----------------------------------------------------------------------------
(* Folds. *)

\* A set that holds 0, and with a number the next one, holds every number.
LEMMA Induction ==
    ASSUME NEW S, 0 \in S, \A n \in Nat : n \in S => n + 1 \in S
    PROVE  Nat \subseteq S
<1> DEFINE R == OpToRel(<, Nat)
<1>1. R = {ss \in Nat \X Nat : ss[1] < ss[2]}
  BY DEF OpToRel
<1>2. IsWellFoundedOn(R, Nat)
  BY NatLessThanWellFounded DEF OpToRel
<1> HIDE DEF R
<1>3. SUFFICES ASSUME Nat \ S # {} PROVE FALSE
  OBVIOUS
<1>4. PICK n \in Nat \ S : \A m \in Nat \ S : ~(<<m, n>> \in R)
  <2>1. Nat \ S \subseteq Nat
    OBVIOUS
  <2> QED BY <1>2, <1>3, <2>1, WFMin
<1>5. n # 0
  OBVIOUS
<1>6. n - 1 \in Nat /\ n - 1 < n
  BY <1>5
<1>7. n - 1 \in S
  BY <1>1, <1>4, <1>6
<1> QED BY <1>6, <1>7

\* A set of numbers that is not empty has a least one.
LEMMA Least ==
    ASSUME NEW T, T \subseteq Nat, T # {}
    PROVE  \E m \in T : \A j \in T : m <= j
<1> DEFINE R == OpToRel(<, Nat)
<1>1. R = {ss \in Nat \X Nat : ss[1] < ss[2]}
  BY DEF OpToRel
<1>2. IsWellFoundedOn(R, Nat)
  BY NatLessThanWellFounded DEF OpToRel
<1> HIDE DEF R
<1>3. PICK m \in T : \A j \in T : ~(<<j, m>> \in R)
  BY <1>2, WFMin
<1>4. \A j \in T : ~(j < m)
  <2>1. \A j \in T : <<j, m>> \in Nat \X Nat
    OBVIOUS
  <2> QED BY <1>1, <1>3, <2>1
<1> QED BY <1>4

\* What a fold over the indexes 1..n may compute, step by step.
FoldOf(G, base, step, n) ==
    \A s \in SUBSET (1..n) :
        G[s] = IF s = {} THEN base ELSE step[<<G[s \ {Max(s)}], Max(s)>>]

\* The largest index of a set within 1..k that holds k is k.
LEMMA TopIs ==
    ASSUME NEW k \in Nat, NEW s \in SUBSET (1..k), k \in s
    PROVE  Max(s) = k
<1>1. \A y \in s : k >= y
  OBVIOUS
<1>2. \A x \in s : (\A y \in s : x >= y) => x = k
  OBVIOUS
<1> QED BY <1>1, <1>2 DEF Max

\* The largest index of a set of indexes is one of them, and the largest.
LEMMA TopIn ==
    ASSUME NEW n \in Nat, NEW s \in SUBSET (1..n), s # {}
    PROVE  Max(s) \in s /\ \A k \in s : k <= Max(s)
<1> DEFINE T == {m \in Nat : \A k \in s : k <= m}
<1>1. n \in T
  OBVIOUS
<1>2. PICK m \in T : \A j \in T : m <= j
  <2> HIDE DEF T
  <2>1. T \subseteq Nat /\ T # {}
    BY <1>1 DEF T
  <2> QED BY <2>1, Least
<1>3. m \in s
  <2>1. SUFFICES ASSUME m \notin s PROVE FALSE
    OBVIOUS
  <2>2. \A k \in s : k <= m - 1 /\ m - 1 \in Nat
    BY <1>2, <2>1
  <2>3. m - 1 \in T
    BY <2>2
  <2> QED BY <1>2, <2>3
<1>4. \A k \in s : m >= k
  BY <1>2
<1>5. Max(s) \in s /\ \A k \in s : Max(s) >= k
  BY <1>3, <1>4 DEF Max
<1> QED BY <1>5

\* The indexes up to one of a list.
LEMMA Segment ==
    ASSUME NEW n \in Nat, NEW i \in 1..n
    PROVE  /\ 1..i \in SUBSET (1..n) /\ 1..i # {} /\ i \in 1..i /\ i \in Nat
           /\ (1..i) \ {i} = 1..(i - 1)
OBVIOUS

\* A function that computes the fold of each set of indexes exists.
LEMMA FoldExists ==
    ASSUME NEW A, NEW base \in A, NEW n \in Nat, NEW step \in [A \X (1..n) -> A]
    PROVE  \E G \in [SUBSET (1..n) -> A] : FoldOf(G, base, step, n)
<1> DEFINE S == {k \in Nat : k <= n =>
                    \E G \in [SUBSET (1..k) -> A] : FoldOf(G, base, step, k)}
<1>1. 0 \in S
  <2>1. [s \in SUBSET (1..0) |-> base] \in [SUBSET (1..0) -> A]
    OBVIOUS
  <2>2. \A s \in SUBSET (1..0) : s = {}
    OBVIOUS
  <2>3. FoldOf([s \in SUBSET (1..0) |-> base], base, step, 0)
    BY <2>2 DEF FoldOf
  <2> QED BY <2>1, <2>3
<1>2. ASSUME NEW k \in Nat, k \in S PROVE k + 1 \in S
  <2>1. SUFFICES ASSUME k + 1 <= n
                 PROVE  \E G \in [SUBSET (1..(k + 1)) -> A] : FoldOf(G, base, step, k + 1)
    <3>1. k + 1 \in Nat
      OBVIOUS
    <3> QED BY <3>1, Zenon
  <2>2. PICK G \in [SUBSET (1..k) -> A] : FoldOf(G, base, step, k)
    <3>1. k <= n
      BY <2>1
    <3>2. k <= n => \E G \in [SUBSET (1..k) -> A] : FoldOf(G, base, step, k)
      BY <1>2, Zenon
    <3> QED BY <3>1, <3>2
  <2> DEFINE H == [s \in SUBSET (1..(k + 1)) |->
                      IF k + 1 \in s THEN step[<<G[s \ {k + 1}], k + 1>>] ELSE G[s]]
  <2>3. \A s \in SUBSET (1..(k + 1)) : s \ {k + 1} \in SUBSET (1..k)
    OBVIOUS
  <2>4. \A s \in SUBSET (1..(k + 1)) : k + 1 \notin s => s \in SUBSET (1..k)
    OBVIOUS
  <2>4a. k + 1 \in 1..n
    BY <2>1
  <2>5. H \in [SUBSET (1..(k + 1)) -> A]
    BY <2>1, <2>3, <2>4, <2>4a
  <2>6. ASSUME NEW s \in SUBSET (1..(k + 1))
        PROVE  H[s] = IF s = {} THEN base ELSE step[<<H[s \ {Max(s)}], Max(s)>>]
    <3>1. CASE k + 1 \in s
      <4>1. Max(s) = k + 1
        BY <3>1, TopIs
      <4>2. H[s \ {k + 1}] = G[s \ {k + 1}]
        OBVIOUS
      <4> QED BY <3>1, <4>1, <4>2
    <3>2. CASE k + 1 \notin s
      <4>1. /\ s \in SUBSET (1..k) /\ s \ {Max(s)} \in SUBSET (1..(k + 1))
            /\ s \ {Max(s)} \in SUBSET (1..k)
        BY <2>4, <3>2
      <4>2. H[s] = G[s] /\ H[s \ {Max(s)}] = G[s \ {Max(s)}]
        BY <3>2, <4>1
      <4> HIDE DEF H
      <4> QED BY <2>2, <4>1, <4>2 DEF FoldOf
    <3> QED BY <3>1, <3>2
  <2>7. FoldOf(H, base, step, k + 1)
    <3> HIDE DEF H
    <3> QED BY <2>6 DEF FoldOf
  <2> QED BY <2>5, <2>7
<1>3. n \in S
  <2> HIDE DEF S
  <2> QED BY <1>1, <1>2, Induction
<1>4. n <= n
  OBVIOUS
<1>5. n <= n => \E G \in [SUBSET (1..n) -> A] : FoldOf(G, base, step, n)
  BY <1>3, Zenon
<1> QED BY <1>4, <1>5

\* F holds the values of a fold after each of n steps.
Steps(F, base, step, n) ==
    /\ F[0] = base
    /\ \A i \in 1..n : F[i] = step[<<F[i - 1], i>>]

\* A fold C of the segments of 1..n is reached step by step.
LEMMA FoldSteps ==
    ASSUME NEW A, NEW base \in A, NEW n \in Nat, NEW step \in [A \X (1..n) -> A],
           NEW C, C[{}] = base,
           \A i \in 1..n : C[1..(i - 1)] \in A => C[1..i] = step[<<C[1..(i - 1)], i>>]
    PROVE  \E F \in [0..n -> A] : F[n] = C[1..n] /\ Steps(F, base, step, n)
<1> DEFINE S == {i \in Nat : i <= n => C[1..i] \in A}
<1>1. 0 \in S
  <2>1. 1..0 = {}
    OBVIOUS
  <2> QED BY <2>1
<1>2. ASSUME NEW i \in Nat, i \in S PROVE i + 1 \in S
  <2>1. SUFFICES ASSUME i + 1 <= n PROVE C[1..(i + 1)] \in A
    OBVIOUS
  <2>2. i + 1 \in 1..n /\ (i + 1) - 1 = i /\ C[1..i] \in A
    BY <1>2, <2>1
  <2> QED BY <2>2
<1>3. Nat \subseteq S
  <2> HIDE DEF S
  <2> QED BY <1>1, <1>2, Induction
<1> DEFINE F == [i \in 0..n |-> C[1..i]]
<1>4. F \in [0..n -> A] /\ F[n] = C[1..n]
  BY <1>3
<1>5. F[0] = base
  <2>1. 1..0 = {}
    OBVIOUS
  <2> QED BY <2>1
<1>6. ASSUME NEW i \in 1..n PROVE F[i] = step[<<F[i - 1], i>>]
  <2>1. i \in 0..n /\ i - 1 \in 0..n
    OBVIOUS
  <2>2. C[1..(i - 1)] \in A
    BY <1>3, <2>1
  <2> QED BY <2>1, <2>2
<1> HIDE DEF F
<1> QED BY <1>4, <1>5, <1>6 DEF Steps

-----------------------------------------------------------------------------
(* Nodes and headings of a list of nodes. *)

NodeTypes == {"title", "heading", "section", "table", "figure", "chart", "caption",
              "footnote", "list_item", "code", "paragraph"}

\* Ids of what a node holds: pieces, or paragraphs of pages.
HoldSets == SUBSET (Nat \cup (Nat \X Nat))

NodeSet ==
    [type : NodeTypes, level : Nat, holds : HoldSets,
     text : Seq(Nat \X Nat), up : Nat, path : Seq(Nat), page : Nat,
     data : {"none", "table", "figure"}, caption : Seq(Nat \X Nat), rows : Nat,
     header : BOOLEAN]

\* Heading h of the list ns encloses node n.
EnclosesIn(ns, h, n) ==
    /\ h < n /\ ns[h].level > 0
    /\ ns[n].level > 0 => ns[h].level < ns[n].level
    /\ \A g \in h+1..n-1 : ns[g].level > 0 => ns[g].level > ns[h].level

Around(ns, n) == {h \in DOMAIN ns : EnclosesIn(ns, h, n)}

Rising(s) == \A i, j \in DOMAIN s : i < j => s[i] < s[j]

\* A node hangs where HeadingTree says it does.
Hangs(ns, n) ==
    /\ ns[n].up = Max(Around(ns, n) \cup {0})
    /\ ToSet(ns[n].path) = IF ns[n].level > 0 THEN Around(ns, n) \cup {n} ELSE Around(ns, n)
    /\ Rising(ns[n].path)

Tree(ns) == \A n \in DOMAIN ns : Hangs(ns, n)

\* The headings that are open behind the last node.
Open(ns) ==
    {h \in DOMAIN ns : /\ ns[h].level > 0
                       /\ \A g \in h+1..Len(ns) :
                              ns[g].level > 0 => ns[g].level > ns[h].level}

Stack(ns, hs) == hs \in Seq(Nat) /\ ToSet(hs) = Open(ns) /\ Rising(hs)

\* Two lists that agree on where their nodes hang.
Alike(ns, ms) ==
    /\ DOMAIN ms = DOMAIN ns /\ Len(ms) = Len(ns)
    /\ \A n \in DOMAIN ns : /\ ms[n].level = ns[n].level /\ ms[n].up = ns[n].up
                            /\ ms[n].path = ns[n].path

\* What such lists agree on.
LEMMA AlikeIs ==
    ASSUME NEW ns \in Seq(NodeSet), NEW ms \in Seq(NodeSet), Alike(ns, ms), NEW hs
    PROVE  /\ Tree(ns) => Tree(ms)
           /\ Stack(ns, hs) => Stack(ms, hs)
<1>1. Len(ns) \in Nat /\ DOMAIN ns = 1..Len(ns) /\ DOMAIN ms = 1..Len(ns) /\ Len(ms) = Len(ns)
  BY DEF Alike
<1>2. \A n \in 1..Len(ns) : /\ ms[n].level = ns[n].level /\ ms[n].up = ns[n].up
                            /\ ms[n].path = ns[n].path
  BY <1>1 DEF Alike
<1>3. ASSUME NEW n \in 1..Len(ns) PROVE Around(ms, n) = Around(ns, n)
  <2>1. \A h \in 1..Len(ns) : h < n => \A g \in h+1..n-1 : g \in 1..Len(ns)
    BY <1>1
  <2>2. \A h \in 1..Len(ns) : EnclosesIn(ms, h, n) <=> EnclosesIn(ns, h, n)
    BY <1>1, <1>2, <2>1 DEF EnclosesIn
  <2> QED BY <1>1, <2>2 DEF Around
<1>4. \A n \in 1..Len(ns) : Hangs(ns, n) => Hangs(ms, n)
  BY <1>2, <1>3 DEF Hangs
<1>5. Open(ms) = Open(ns)
  <2>1. \A h \in 1..Len(ns) : \A g \in h+1..Len(ns) : g \in 1..Len(ns)
    BY <1>1
  <2> QED BY <1>1, <1>2, <2>1 DEF Open
<1> QED BY <1>1, <1>4, <1>5 DEF Tree, Stack

\* The greatest of a rising list is its last element.
LEMMA RisingMax ==
    ASSUME NEW s \in Seq(Nat), Rising(s)
    PROVE  Max(ToSet(s) \cup {0}) = LastOf(s)
<1>1. Len(s) \in Nat /\ DOMAIN s = 1..Len(s) /\ \A i \in 1..Len(s) : s[i] \in Nat
  OBVIOUS
<1>2. ToSet(s) = {s[i] : i \in 1..Len(s)}
  BY <1>1 DEF ToSet
<1>3. LastOf(s) = IF Len(s) = 0 THEN 0 ELSE s[Len(s)]
  BY DEF LastOf, Last
<1>4. LastOf(s) \in ToSet(s) \cup {0}
  BY <1>1, <1>2, <1>3
<1>5. \A y \in ToSet(s) \cup {0} : LastOf(s) >= y
  <2>1. \A i \in 1..Len(s) : i < Len(s) => s[i] < s[Len(s)]
    BY <1>1 DEF Rising
  <2> QED BY <1>1, <1>2, <1>3, <2>1
<1>6. ToSet(s) \cup {0} \subseteq Nat
  BY <1>1, <1>2
<1> HIDE DEF Rising
<1>7. \A x \in ToSet(s) \cup {0} :
          (\A y \in ToSet(s) \cup {0} : x >= y) => x = LastOf(s)
  BY <1>4, <1>5, <1>6
<1> QED BY <1>4, <1>5, <1>7 DEF Max

\* One more element in a list of nodes.
LEMMA LongerIs ==
    ASSUME NEW ns \in Seq(NodeSet), NEW r \in NodeSet
    PROVE  LET ms == Append(ns, r)
           IN  /\ ms \in Seq(NodeSet) /\ Len(ns) \in Nat /\ Len(ms) = Len(ns) + 1
               /\ DOMAIN ns = 1..Len(ns) /\ DOMAIN ms = 1..(Len(ns) + 1)
               /\ ms[Len(ns) + 1] = r
               /\ \A n \in 1..Len(ns) : ms[n] = ns[n]
OBVIOUS

\* Where the nodes before hang does not depend on it.
LEMMA BeforeIs ==
    ASSUME NEW ns \in Seq(NodeSet), NEW ms \in Seq(NodeSet), Len(ms) >= Len(ns),
           \A n \in 1..Len(ns) : ms[n] = ns[n], NEW n \in 1..Len(ns)
    PROVE  Hangs(ns, n) <=> Hangs(ms, n)
<1>1. /\ Len(ns) \in Nat /\ DOMAIN ns = 1..Len(ns) /\ Len(ms) \in Nat
      /\ DOMAIN ms = 1..Len(ms)
  OBVIOUS
<1>2. \A h \in 1..Len(ns) : h < n => \A g \in h+1..n-1 : g \in 1..Len(ns)
  BY <1>1
<1>3. \A h \in 1..Len(ns) : EnclosesIn(ms, h, n) <=> EnclosesIn(ns, h, n)
  BY <1>1, <1>2 DEF EnclosesIn
<1>4. \A h \in 1..Len(ms) : h \notin 1..Len(ns) => ~EnclosesIn(ms, h, n)
  BY <1>1 DEF EnclosesIn
<1>5. \A h \in 1..Len(ns) : h \in 1..Len(ms)
  BY <1>1
<1>6. Around(ms, n) = Around(ns, n)
  BY <1>1, <1>3, <1>4, <1>5 DEF Around
<1> QED BY <1>6 DEF Hangs

\* A node that is no heading hangs under the open headings.
LEMMA AppendPlain ==
    ASSUME NEW ns \in Seq(NodeSet), NEW hs, Tree(ns), Stack(ns, hs),
           NEW r \in NodeSet, r.level = 0, r.path = hs, r.up = LastOf(hs)
    PROVE  Tree(Append(ns, r)) /\ Stack(Append(ns, r), hs)
<1> DEFINE ms == Append(ns, r)
           N == Len(ns) + 1
<1>1. /\ ms \in Seq(NodeSet) /\ Len(ns) \in Nat /\ Len(ms) = N
      /\ DOMAIN ns = 1..Len(ns) /\ DOMAIN ms = 1..N /\ ms[N] = r
      /\ \A n \in 1..Len(ns) : ms[n] = ns[n]
  BY LongerIs
<1> HIDE DEF ms
<1>2. \A n \in 1..Len(ns) : Hangs(ms, n)
  <2>1. Len(ms) >= Len(ns)
    BY <1>1
  <2>2. \A n \in 1..Len(ns) : Hangs(ns, n)
    BY <1>1 DEF Tree
  <2> QED BY <1>1, <2>1, <2>2, BeforeIs
<1>3. Around(ms, N) = Open(ns)
  <2>1. \A h \in 1..Len(ns) : \A g \in h+1..Len(ns) : g \in 1..Len(ns)
    BY <1>1
  <2>2. \A h \in 1..Len(ns) : EnclosesIn(ms, h, N) <=> h \in Open(ns)
    <3>1. N - 1 = Len(ns) /\ ~(ms[N].level > 0)
      BY <1>1
    <3>2. \A h \in 1..Len(ns) : h < N
      BY <1>1
    <3> HIDE DEF N
    <3> QED BY <1>1, <2>1, <3>1, <3>2 DEF EnclosesIn, Open
  <2>3. ~EnclosesIn(ms, N, N)
    BY <1>1 DEF EnclosesIn
  <2>4. 1..N = 1..Len(ns) \cup {N}
    BY <1>1
  <2>5. Open(ns) \subseteq 1..Len(ns)
    BY <1>1 DEF Open
  <2> QED BY <1>1, <2>2, <2>3, <2>4, <2>5 DEF Around
<1>4. Open(ms) = Open(ns)
  <2>1. \A h \in 1..Len(ns) : h+1..N = (h+1..Len(ns)) \cup {N}
    BY <1>1
  <2>2. \A h \in 1..Len(ns) : \A g \in h+1..Len(ns) : g \in 1..Len(ns)
    BY <1>1
  <2>3. 1..N = 1..Len(ns) \cup {N} /\ ~(ms[N].level > 0)
    BY <1>1
  <2> HIDE DEF N
  <2>4. ASSUME NEW h \in 1..Len(ns) PROVE h \in Open(ms) <=> h \in Open(ns)
    <3>1. \A g \in h+1..Len(ns) : ms[g] = ns[g]
      BY <1>1, <2>2
    <3>2. /\ ms[h] = ns[h] /\ h+1..N = (h+1..Len(ns)) \cup {N}
          /\ h \in DOMAIN ms /\ h \in DOMAIN ns
      BY <1>1, <2>1, <2>3
    <3> QED BY <1>1, <2>3, <3>1, <3>2 DEF Open
  <2>5. N \notin Open(ms)
    BY <2>3 DEF Open
  <2>6. Open(ms) \subseteq 1..N /\ Open(ns) \subseteq 1..Len(ns)
    BY <1>1 DEF Open
  <2> QED BY <2>3, <2>4, <2>5, <2>6
<1>5. Hangs(ms, N)
  <2>1. hs \in Seq(Nat) /\ Rising(hs) /\ ToSet(hs) = Open(ns)
    BY DEF Stack
  <2>2. ~(ms[N].level > 0)
    BY <1>1
  <2> QED BY <1>1, <1>3, <2>1, <2>2, RisingMax DEF Hangs
<1>6. 1..N = 1..Len(ns) \cup {N}
  BY <1>1
<1> HIDE DEF N
<1>7. Tree(ms)
  BY <1>1, <1>2, <1>5, <1>6 DEF Tree
<1> QED BY <1>4, <1>7 DEF Stack, ms

\* The first elements of a list.
LEMMA PrefixIs ==
    ASSUME NEW A, NEW l \in Seq(A), NEW m \in 0..Len(l)
    PROVE  LET p == SubSeq(l, 1, m)
           IN  p \in Seq(A) /\ Len(p) = m /\ DOMAIN p = 1..m /\ \A i \in 1..m : p[i] = l[i]
<1>1. Len(l) \in Nat /\ m \in Nat
  OBVIOUS
<1>2. SubSeq(l, 1, m) \in Seq(A) /\ Len(SubSeq(l, 1, m)) = m
  BY <1>1
<1>3. \A i \in 1..m : SubSeq(l, 1, m)[i] = l[i]
  BY <1>1
<1> QED BY <1>1, <1>2, <1>3

\* What a list of nodes consists of.
LEMMA NodesAre ==
    ASSUME NEW ns \in Seq(NodeSet)
    PROVE  /\ Len(ns) \in Nat /\ DOMAIN ns = 1..Len(ns)
           /\ \A n \in 1..Len(ns) : ns[n] \in NodeSet /\ ns[n].level \in Nat
<1>1. \A r \in NodeSet : r.level \in Nat
  BY DEF NodeSet
<1>2. Len(ns) \in Nat /\ DOMAIN ns = 1..Len(ns) /\ \A n \in 1..Len(ns) : ns[n] \in NodeSet
  OBVIOUS
<1> QED BY <1>1, <1>2

\* The headings of a stack hs that one of level l leaves open.
PoppedFrom(ns, hs, l) ==
    SubSeq(hs, 1, SelectLastInSeq(hs, LAMBDA h : ns[h].level < l))

\* Those are the open headings above its level.
LEMMA PoppedIs ==
    ASSUME NEW ns \in Seq(NodeSet), NEW hs, Stack(ns, hs), NEW l \in Nat
    PROVE  LET p == PoppedFrom(ns, hs, l)
           IN  /\ p \in Seq(Nat) /\ Rising(p)
               /\ ToSet(p) = {h \in Open(ns) : ns[h].level < l}
<1> DEFINE I == {i \in 1..Len(hs) : ns[hs[i]].level < l}
           m == IF I # {} THEN Max(I) ELSE 0
           p == SubSeq(hs, 1, m)
<1>1. PoppedFrom(ns, hs, l) = p
  BY Zenon DEF PoppedFrom, SelectLastInSeq
<1>2. /\ hs \in Seq(Nat) /\ Len(hs) \in Nat /\ DOMAIN hs = 1..Len(hs)
      /\ ToSet(hs) = Open(ns) /\ ToSet(hs) = {hs[i] : i \in 1..Len(hs)}
      /\ \A i \in 1..Len(hs) : hs[i] \in Open(ns)
  BY DEF Stack, ToSet
<1>a. I # {} => Max(I) \in I /\ \A i \in I : i <= Max(I)
  <2>1. I \in SUBSET (1..Len(hs))
    OBVIOUS
  <2> HIDE DEF I
  <2> QED BY <1>2, <2>1, TopIn
<1>3. m \in 0..Len(hs)
  BY <1>2, <1>a, SMTT(60)
<1>4. \A i \in 1..Len(hs) : i > m => ~(ns[hs[i]].level < l)
  <2>1. \A i \in I : i <= m
    BY <1>2, <1>a
  <2> QED BY <1>3, <2>1
<1>5. m > 0 => ns[hs[m]].level < l
  <2>1. m > 0 => m \in I
    BY <1>a
  <2> QED BY <2>1
<1> HIDE DEF I, m
<1>6. /\ Len(ns) \in Nat /\ DOMAIN ns = 1..Len(ns)
      /\ \A n \in 1..Len(ns) : ns[n].level \in Nat
  BY NodesAre
<1>7. Open(ns) \subseteq 1..Len(ns) /\ \A h \in Open(ns) : ns[h].level > 0
  BY <1>6 DEF Open
<1>8. \A i \in 1..m : ns[hs[i]].level < l
  <2> SUFFICES ASSUME NEW i \in 1..m PROVE ns[hs[i]].level < l
    OBVIOUS
  <2>1. i \in 1..Len(hs) /\ m \in 1..Len(hs)
    BY <1>2, <1>3
  <2>2. CASE i = m
    BY <1>3, <1>5, <2>2
  <2>3. CASE i < m
    <3>1. hs[i] < hs[m]
      BY <1>2, <2>1, <2>3 DEF Stack, Rising
    <3>2. hs[i] \in Open(ns) /\ hs[m] \in Open(ns)
      BY <1>2, <2>1
    <3>3. hs[m] \in hs[i]+1..Len(ns)
      BY <1>6, <1>7, <3>1, <3>2
    <3>4. ns[hs[m]].level > ns[hs[i]].level
      BY <1>7, <3>2, <3>3 DEF Open
    <3>5. hs[i] \in 1..Len(ns) /\ hs[m] \in 1..Len(ns)
      BY <1>7, <3>2
    <3>6. ns[hs[m]].level < l
      BY <1>3, <1>5, <2>1
    <3>7. ns[hs[m]].level \in Nat /\ ns[hs[i]].level \in Nat
      BY <1>6, <3>5
    <3> DEFINE a == ns[hs[i]].level
               b == ns[hs[m]].level
    <3>8. a \in Nat /\ b \in Nat /\ b > a /\ b < l
      BY <3>4, <3>6, <3>7
    <3>9. a < l
      <4> HIDE DEF a, b
      <4> QED BY <3>8
    <3> QED BY <3>9
  <2> QED BY <1>3, <2>2, <2>3
<1>9. p \in Seq(Nat) /\ Len(p) = m /\ DOMAIN p = 1..m /\ \A i \in 1..m : p[i] = hs[i]
  BY <1>2, <1>3, PrefixIs
<1> HIDE DEF p
<1>10. Rising(p)
  <2>1. \A i \in 1..m : i \in DOMAIN hs
    BY <1>2, <1>3
  <2> QED BY <1>9, <2>1 DEF Rising, Stack
<1>11. ToSet(p) = {hs[i] : i \in 1..m}
  BY <1>9 DEF ToSet
<1>12. ToSet(p) = {h \in Open(ns) : ns[h].level < l}
  <2>1. \A i \in 1..m : hs[i] \in Open(ns) /\ ns[hs[i]].level < l
    BY <1>2, <1>3, <1>8
  <2>2. \A i \in 1..Len(hs) : ns[hs[i]].level < l => i \in 1..m
    BY <1>3, <1>4
  <2>3. \A h \in Open(ns) : ns[h].level < l => \E i \in 1..m : h = hs[i]
    BY <1>2, <2>2
  <2> QED BY <1>11, <2>1, <2>3
<1> QED BY <1>1, <1>9, <1>10, <1>12

\* One more element at the end of a rising list.
LEMMA RisingLonger ==
    ASSUME NEW s \in Seq(Nat), Rising(s), NEW n \in Nat, \A x \in ToSet(s) : x < n
    PROVE  LET t == Append(s, n)
           IN  t \in Seq(Nat) /\ Rising(t) /\ ToSet(t) = ToSet(s) \cup {n} /\ LastOf(t) = n
<1> DEFINE t == Append(s, n)
<1>1. /\ t \in Seq(Nat) /\ Len(s) \in Nat /\ Len(t) = Len(s) + 1 /\ t[Len(s) + 1] = n
      /\ DOMAIN s = 1..Len(s) /\ DOMAIN t = 1..(Len(s) + 1)
      /\ \A i \in 1..Len(s) : t[i] = s[i]
  OBVIOUS
<1>2. ToSet(s) = {s[i] : i \in 1..Len(s)} /\ ToSet(t) = {t[i] : i \in 1..(Len(s) + 1)}
  BY <1>1 DEF ToSet
<1>3. 1..(Len(s) + 1) = 1..Len(s) \cup {Len(s) + 1}
  BY <1>1
<1>4. LastOf(t) = n
  <2>1. t # <<>>
    <3>1. Len(t) # 0
      BY <1>1
    <3> HIDE DEF t
    <3> QED BY <3>1
  <2> QED BY <1>1, <2>1 DEF LastOf, Last
<1> HIDE DEF t
<1>5. ToSet(t) = ToSet(s) \cup {n}
  BY <1>1, <1>2, <1>3
<1>6. Rising(t)
  <2> SUFFICES ASSUME NEW i \in 1..(Len(s) + 1), NEW j \in 1..(Len(s) + 1), i < j
               PROVE  t[i] < t[j]
    BY <1>1 DEF Rising
  <2>1. i \in 1..Len(s) /\ t[i] = s[i] /\ s[i] \in ToSet(s)
    BY <1>1, <1>2, SMTT(60)
  <2>2. CASE j = Len(s) + 1
    BY <1>1, <2>1, <2>2
  <2>3. CASE j \in 1..Len(s)
    BY <1>1, <2>1, <2>3 DEF Rising
  <2> QED BY <1>3, <2>2, <2>3
<1> QED BY <1>1, <1>4, <1>5, <1>6 DEF t

\* A heading hangs under the open headings above its level, and closes the
\* others.
LEMMA AppendHeading ==
    ASSUME NEW ns \in Seq(NodeSet), NEW hs, Tree(ns), Stack(ns, hs), NEW r \in NodeSet,
           r.level > 0, NEW p, p = PoppedFrom(ns, hs, r.level),
           r.path = Append(p, Len(ns) + 1), r.up = LastOf(p)
    PROVE  Tree(Append(ns, r)) /\ Stack(Append(ns, r), Append(p, Len(ns) + 1))
<1> DEFINE ms == Append(ns, r)
           N == Len(ns) + 1
           l == r.level
           above == {h \in Open(ns) : ns[h].level < l}
<1>1. /\ ms \in Seq(NodeSet) /\ Len(ns) \in Nat /\ Len(ms) = N
      /\ DOMAIN ns = 1..Len(ns) /\ DOMAIN ms = 1..N /\ ms[N] = r
      /\ \A n \in 1..Len(ns) : ms[n] = ns[n]
  BY LongerIs
<1>a. r.level \in Nat
  BY DEF NodeSet
<1>b. p \in Seq(Nat) /\ Rising(p) /\ ToSet(p) = above
  BY <1>a, PoppedIs
<1>c. /\ 1..N = 1..Len(ns) \cup {N} /\ N - 1 = Len(ns) /\ N \in Nat
      /\ N \notin 1..Len(ns) /\ \A h \in 1..Len(ns) : h < N
  BY <1>1
<1>d. \A h \in 1..Len(ns) : /\ h+1..N = (h+1..Len(ns)) \cup {N}
                            /\ \A g \in h+1..Len(ns) : g \in 1..Len(ns)
  BY <1>1
<1>e. Open(ns) \subseteq 1..Len(ns) /\ above \subseteq Open(ns)
  BY <1>1 DEF Open
<1> HIDE DEF ms, N, l
<1>2. \A n \in 1..Len(ns) : Hangs(ms, n)
  <2>1. Len(ms) >= Len(ns)
    BY <1>1, <1>c
  <2>2. \A n \in 1..Len(ns) : Hangs(ns, n)
    BY <1>1 DEF Tree
  <2> QED BY <1>1, <2>1, <2>2, BeforeIs
<1>3. Around(ms, N) = above
  <2>1. ASSUME NEW h \in 1..Len(ns) PROVE EnclosesIn(ms, h, N) <=> h \in above
    <3>1. /\ ms[h] = ns[h] /\ h < N /\ N - 1 = Len(ns) /\ h \in DOMAIN ns
          /\ \A g \in h+1..Len(ns) : ms[g] = ns[g]
      BY <1>1, <1>c, <1>d
    <3>2. ms[N].level > 0 /\ ms[N].level = l
      BY <1>1 DEF l
    <3> HIDE DEF above
    <3>3. h \in above <=> h \in Open(ns) /\ ns[h].level < l
      BY DEF above
    <3> QED BY <3>1, <3>2, <3>3 DEF EnclosesIn, Open
  <2>2. ~EnclosesIn(ms, N, N)
    BY <1>c DEF EnclosesIn
  <2> QED BY <1>1, <1>c, <1>e, <2>1, <2>2 DEF Around
<1>4. Open(ms) = above \cup {N}
  <2>1. ASSUME NEW h \in 1..Len(ns) PROVE h \in Open(ms) <=> h \in above
    <3>1. /\ ms[h] = ns[h] /\ h \in DOMAIN ms /\ h \in DOMAIN ns
          /\ h+1..N = (h+1..Len(ns)) \cup {N}
          /\ \A g \in h+1..Len(ns) : ms[g] = ns[g]
      BY <1>1, <1>c, <1>d
    <3>2. ms[N].level > 0 /\ ms[N].level = l /\ Len(ms) = N
      BY <1>1 DEF l
    <3>3. ns[h].level \in Nat /\ l \in Nat
      BY <1>a, NodesAre DEF l
    <3> HIDE DEF above
    <3>4. h \in above <=> h \in Open(ns) /\ ns[h].level < l
      BY DEF above
    <3>5. h \in Open(ms) <=> /\ ns[h].level > 0 /\ l > ns[h].level
                             /\ \A g \in h+1..Len(ns) :
                                    ns[g].level > 0 => ns[g].level > ns[h].level
      BY <3>1, <3>2 DEF Open
    <3>6. l > ns[h].level <=> ns[h].level < l
      BY <3>3
    <3> QED BY <3>1, <3>4, <3>5, <3>6 DEF Open
  <2>2. N \in Open(ms)
    <3>1. N+1..N = {} /\ N \in DOMAIN ms /\ Len(ms) = N
      BY <1>1, <1>c
    <3> QED BY <1>1, <3>1 DEF Open
  <2>3. Open(ms) \subseteq 1..N
    BY <1>1 DEF Open
  <2> QED BY <1>c, <1>e, <2>1, <2>2, <2>3
<1>5. /\ Append(p, N) \in Seq(Nat) /\ Rising(Append(p, N))
      /\ ToSet(Append(p, N)) = above \cup {N}
  <2>1. \A x \in ToSet(p) : x < N
    BY <1>b, <1>c, <1>e
  <2> HIDE DEF above
  <2> QED BY <1>b, <1>c, <2>1, RisingLonger
<1>6. Hangs(ms, N)
  <2>1. ms[N].level > 0 /\ ms[N].up = LastOf(p) /\ ms[N].path = Append(p, N)
    BY <1>1 DEF N
  <2>2. Max(Around(ms, N) \cup {0}) = LastOf(p)
    BY <1>3, <1>b, RisingMax
  <2> QED BY <1>3, <1>5, <2>1, <2>2 DEF Hangs
<1>7. Tree(ms)
  BY <1>1, <1>2, <1>6, <1>c DEF Tree
<1>8. Stack(ms, Append(p, N))
  BY <1>4, <1>5 DEF Stack
<1> QED BY <1>7, <1>8 DEF ms, N

\* An empty list of nodes has no open heading.
LEMMA NoNodes ==
    /\ <<>> \in Seq(NodeSet) /\ Tree(<<>>) /\ Stack(<<>>, <<>>)
    /\ LastOf(<<>>) = 0
<1>1. DOMAIN <<>> = {} /\ <<>> \in Seq(NodeSet) /\ <<>> \in Seq(Nat)
  OBVIOUS
<1>2. ToSet(<<>>) = {} /\ Open(<<>>) = {}
  BY <1>1 DEF ToSet, Open
<1> QED BY <1>1, <1>2 DEF Tree, Stack, Rising, LastOf

\* The pages of a PDF: a section and what is under it.
LEMMA AppendPage ==
    ASSUME NEW ns \in Seq(NodeSet), NEW ps \in Seq(NodeSet), Tree(ns), Len(ps) > 0,
           \A n \in 1..Len(ns) : ns[n].level <= 1,
           ps[1].level = 1, ps[1].up = 0,
           \A k \in 1..Len(ps) : ps[k].path = <<Len(ns) + 1>>,
           \A k \in 2..Len(ps) : ps[k].level = 0 /\ ps[k].up = Len(ns) + 1
    PROVE  /\ ns \o ps \in Seq(NodeSet) /\ Tree(ns \o ps)
           /\ \A n \in 1..Len(ns \o ps) : (ns \o ps)[n].level <= 1
<1> DEFINE ms == ns \o ps
           a == Len(ns)
           b == Len(ps)
           N == a + 1
<1>1. /\ a \in Nat /\ b \in Nat /\ ms \in Seq(NodeSet) /\ Len(ms) = a + b
      /\ DOMAIN ms = 1..(a + b)
      /\ \A n \in 1..(a + b) : ms[n] = IF n <= a THEN ns[n] ELSE ps[n - a]
  BY ConcatProperties
<1>2. \A n \in 1..a : ms[n] = ns[n] /\ ms[n].level <= 1
  BY <1>1
<1>3. ms[N] = ps[1] /\ ms[N].level = 1 /\ ms[N].up = 0 /\ ms[N].path = <<N>>
  <2>1. N \in 1..(a + b) /\ ~(N <= a) /\ N - a = 1 /\ 1 \in 1..b
    BY <1>1
  <2> QED BY <1>1, <2>1
<1>4. ASSUME NEW n \in N+1..(a + b)
      PROVE  ms[n].level = 0 /\ ms[n].up = N /\ ms[n].path = <<N>>
  <2>1. n \in 1..(a + b) /\ ~(n <= a) /\ n - a \in 2..b /\ n - a \in 1..b
    BY <1>1
  <2> QED BY <1>1, <2>1
<1>5. Len(ms) >= Len(ns)
  BY <1>1
<1> HIDE DEF ms
<1>6. \A n \in 1..a : Hangs(ms, n)
  <2>1. \A n \in 1..a : Hangs(ns, n)
    BY DEF Tree
  <2> QED BY <1>1, <1>2, <1>5, <2>1, BeforeIs
<1>7. \A n \in 1..(a + b) : ms[n].level \in Nat
  BY <1>1, NodesAre
<1> HIDE DEF b
<1>8. N \in 1..(a + b)
  BY <1>1 DEF b
<1>9. ToSet(<<N>>) = {N} /\ Rising(<<N>>)
  BY DEF ToSet, Rising
<1>10. Hangs(ms, N)
  <2>1. \A h \in 1..(a + b) : ~EnclosesIn(ms, h, N)
    <3> SUFFICES ASSUME NEW h \in 1..(a + b), EnclosesIn(ms, h, N) PROVE FALSE
      OBVIOUS
    <3>1. h < N /\ ms[h].level > 0 /\ ms[h].level < ms[N].level
      BY <1>3 DEF EnclosesIn
    <3> QED BY <1>3, <1>7, <3>1
  <2>2. Around(ms, N) = {}
    BY <1>1, <2>1 DEF Around
  <2>3. Max({} \cup {0}) = 0
    BY DEF Max
  <2>4. /\ ms[N].level > 0 /\ ms[N].up = 0 /\ ms[N].path = <<N>>
        /\ Around(ms, N) \cup {N} = {N} /\ Around(ms, N) \cup {0} = {} \cup {0}
    BY <1>3, <2>2
  <2> HIDE DEF N
  <2> QED BY <1>9, <2>3, <2>4 DEF Hangs
<1>11. ASSUME NEW n \in N+1..(a + b) PROVE Hangs(ms, n)
  <2>1. N < n /\ n \in 1..(a + b) /\ N \in Nat /\ a \in Nat
    BY <1>1
  <2>2. EnclosesIn(ms, N, n)
    <3>1. \A g \in N+1..n-1 : ms[g].level = 0
      BY <1>1, <1>4
    <3>2. ms[n].level = 0
      BY <1>4
    <3> QED BY <1>3, <2>1, <3>1, <3>2 DEF EnclosesIn
  <2>3. ASSUME NEW h \in 1..(a + b), EnclosesIn(ms, h, n) PROVE h = N
    <3>1. h < n /\ ms[h].level > 0 /\ \A g \in h+1..n-1 : ms[g].level > 0 =>
                                                          ms[g].level > ms[h].level
      BY <2>3 DEF EnclosesIn
    <3>2. CASE h < N
      <4>1. N \in h+1..n-1 /\ h \in 1..a
        BY <1>1, <2>1, <3>2
      <4>2. ms[N].level > ms[h].level
        BY <1>3, <3>1, <4>1
      <4> QED BY <1>3, <1>7, <3>1, <4>2
    <3>3. CASE h > N
      <4>1. h \in N+1..(a + b)
        BY <1>1, <3>3
      <4> QED BY <1>4, <3>1, <4>1
    <3> QED BY <1>1, <3>2, <3>3
  <2>4. Around(ms, n) = {N}
    BY <1>1, <1>8, <2>2, <2>3 DEF Around
  <2>5. Max({N} \cup {0}) = N
    <3>1. N \in {N} \cup {0} /\ \A y \in {N} \cup {0} : N >= y
      BY <2>1
    <3>2. \A x \in {N} \cup {0} : (\A y \in {N} \cup {0} : x >= y) => x = N
      BY <2>1
    <3> QED BY <3>1, <3>2 DEF Max
  <2>6. ~(ms[n].level > 0) /\ ms[n].up = N /\ ms[n].path = <<N>>
    BY <1>4
  <2> HIDE DEF N
  <2> QED BY <1>9, <2>4, <2>5, <2>6 DEF Hangs
<1>12. 1..(a + b) = 1..a \cup {N} \cup N+1..(a + b)
  BY <1>1, <1>8
<1>13. Tree(ms)
  BY <1>1, <1>6, <1>10, <1>11, <1>12 DEF Tree
<1>14. \A n \in 1..(a + b) : ms[n].level <= 1
  BY <1>2, <1>3, <1>4, <1>12
<1> QED BY <1>1, <1>13, <1>14 DEF ms

-----------------------------------------------------------------------------
(* The invariant of the parser. *)

Piece == Items \cup Lines \cup Statements \cup Pages \cup {"text"}

Typed ==
    /\ docType \in DocTypes \cup {"none"} /\ reader \in Readers /\ parsed \in BOOLEAN
    /\ pieces \in Seq(Piece) /\ Len(pieces) <= MaxPieces
    /\ pending \in Seq(Nat) /\ fence \in Seq(Nat)
    /\ nodes \in Seq(NodeSet) /\ heads \in Seq(Nat) /\ lastFig \in 0..Len(nodes)

\* A node of a reader without headings, and of one block by block.
Flat(ns) ==
    \A n \in DOMAIN ns : ns[n].level = 0 /\ ns[n].path = <<>> /\ ns[n].up \in 0..n-1

FiniteHolds(ns) == \A n \in DOMAIN ns : IsFiniteSet(ns[n].holds)

\* What each reader has built: Docling and the markdown reader a tree with a
\* stack of its open headings, the PDF reader one with a section for a page.
Built ==
    /\ reader \in {"docling", "markdown"} => Tree(nodes) /\ Stack(nodes, heads)
    /\ reader \notin {"docling", "markdown"} => heads = <<>>
    /\ reader = "pages" => Tree(nodes) /\ \A n \in 1..Len(nodes) : nodes[n].level <= 1
    /\ docType = "none" => reader = "none"
    /\ reader = "none" => pieces = <<>> /\ ~parsed
    /\ reader \in {"none", "pdf", "failed"} => nodes = <<>>
    /\ reader \in {"pdf", "pages"} => pieces \in Seq(Pages)
    /\ reader = "pages" => \A j \in 1..Len(pending) : pending[j] \in 1..Len(pieces)
    /\ reader \in {"code", "blocks", "text"} => Flat(nodes)
    /\ reader = "blocks" => FiniteHolds(nodes)

PInv == Typed /\ Built

\* The last element of a path.
LEMMA LastOfIs ==
    ASSUME NEW s \in Seq(Nat)
    PROVE  LastOf(s) \in Nat /\ (s = <<>> => LastOf(s) = 0)
<1>1. Len(s) \in Nat /\ \A i \in 1..Len(s) : s[i] \in Nat
  OBVIOUS
<1>2. s # <<>> => Len(s) > 0
  OBVIOUS
<1>3. s # <<>> => s[Len(s)] \in Nat
  BY <1>1, <1>2
<1> QED BY <1>3 DEF LastOf, Last

\* A text of n lines.
LEMMA JoinedIs ==
    ASSUME NEW n \in Nat
    PROVE  Joined(n) \in Seq(Nat \X Nat)
<1>1. LineText \in Nat \X Nat
  BY ParserAssumption
<1>2. LineText[1] \in Nat /\ LineText[2] \in Nat
  BY <1>1
<1>3. CASE n = 0
  BY <1>3 DEF Joined
<1>4. CASE n # 0
  <2>1. n * LineText[1] \in Nat /\ n * LineText[2] \in Nat
    BY <1>2
  <2> DEFINE a == n * LineText[1]
             b == n * LineText[2]
  <2>2. a \in Nat /\ b + n - 1 \in Nat
    BY <1>4, <2>1
  <2>3. Joined(n) = <<<<a, b + n - 1>>>>
    BY <1>4 DEF Joined
  <2> HIDE DEF a, b
  <2> QED BY <2>2, <2>3
<1> QED BY <1>3, <1>4

\* A node under a path.
LEMMA NodeUnderIs ==
    ASSUME NEW path \in Seq(Nat), NEW type \in NodeTypes, NEW level \in Nat,
           NEW holds \in HoldSets, NEW text \in Seq(Nat \X Nat),
           NEW page \in Nat
    PROVE  LET r == NodeUnder(path, type, level, holds, text, page)
           IN  /\ r \in NodeSet /\ r.level = level /\ r.path = path
               /\ r.up = LastOf(path) /\ r.holds = holds
<1>1. LastOf(path) \in Nat /\ <<>> \in Seq(Nat \X Nat)
  BY LastOfIs
<1> QED BY <1>1 DEF NodeUnder, NodeSet

\* A node under the open headings.
Plain(r) == r \in NodeSet /\ r.level = 0 /\ r.path = heads /\ r.up = LastOf(heads)

\* Nodes and figures are such.
LEMMA PlainIs ==
    ASSUME Typed, NEW type \in NodeTypes, NEW holds \in HoldSets,
           NEW text \in Seq(Nat \X Nat), NEW page \in Nat,
           NEW caption \in Seq(Nat \X Nat)
    PROVE  /\ Plain(Node(type, holds, text, page)) /\ Node(type, holds, text, page).holds = holds
           /\ Plain(FigureNode(type, holds, text, caption, page))
<1>0. heads \in Seq(Nat) /\ 0 \in Nat /\ "table" \in NodeTypes
  BY DEF Typed, NodeTypes
<1>1. Plain(Node(type, holds, text, page)) /\ Node(type, holds, text, page).holds = holds
  <2>1. LET r == NodeUnder(heads, type, 0, holds, text, page)
        IN  /\ r \in NodeSet /\ r.level = 0 /\ r.path = heads
            /\ r.up = LastOf(heads) /\ r.holds = holds
    BY <1>0, NodeUnderIs
  <2> QED BY <2>1 DEF Node, Plain
<1>2. Plain(FigureNode(type, holds, text, caption, page))
  <2> DEFINE r == Node(type, holds, text, page)
             s == [r EXCEPT !.data = "figure"]
  <2>0. FigureNode(type, holds, text, caption, page) = [s EXCEPT !.caption = caption]
    <3>1. r \in NodeSet
      BY <1>0, NodeUnderIs DEF Node
    <3> QED BY <3>1 DEF FigureNode, NodeSet
  <2>1. Plain(r)
    BY <1>1
  <2> HIDE DEF r
  <2>2. Plain(s)
    BY <2>1 DEF Plain, NodeSet
  <2> HIDE DEF s
  <2> QED BY <2>0, <2>2 DEF Plain, NodeSet
<1> QED BY <1>1, <1>2

\* Tables are such.
LEMMA TablePlainIs ==
    ASSUME Typed, NEW holds \in HoldSets, NEW text \in Seq(Nat \X Nat), NEW page \in Nat,
           NEW rows \in Nat, NEW header \in BOOLEAN
    PROVE  Plain(TableNode(holds, text, page, rows, header))
<1>1. heads \in Seq(Nat) /\ 0 \in Nat /\ "table" \in NodeTypes /\ <<>> \in Seq(Nat \X Nat)
  BY DEF Typed, NodeTypes
<1>2. Plain(TableNode(holds, text, page, rows, header))
  <2> DEFINE r == Node("table", holds, text, page)
             s == [r EXCEPT !.data = "table"]
             t == [s EXCEPT !.rows = rows]
  <2>0. TableNode(holds, text, page, rows, header) = [t EXCEPT !.header = header]
    <3>1. r \in NodeSet
      BY <1>1, NodeUnderIs DEF Node
    <3> QED BY <3>1 DEF TableNode, NodeSet
  <2>1. Plain(r)
    BY <1>1, PlainIs
  <2> HIDE DEF r
  <2>2. Plain(s)
    BY <2>1 DEF Plain, NodeSet
  <2> HIDE DEF s
  <2>3. Plain(t)
    BY <2>2 DEF Plain, NodeSet
  <2> HIDE DEF t
  <2> QED BY <2>0, <2>3 DEF Plain, NodeSet
<1> QED BY <1>2

\* A heading's node.
HeadingNode(p, n, type, level, holds, text, page) ==
    [NodeUnder(p, type, level, holds, text, page) EXCEPT !.path = Append(@, n)]

\* What a heading may consist of.
HeadingParts(type, level, holds, text, page) ==
    /\ type \in NodeTypes /\ level \in Nat /\ level > 0 /\ holds \in HoldSets
    /\ text \in Seq(Nat \X Nat) /\ page \in Nat

\* A heading is on its own path.
LEMMA HeadingNodeIs ==
    ASSUME NEW p \in Seq(Nat), NEW n \in Nat, NEW type, NEW level, NEW holds, NEW text,
           NEW page, HeadingParts(type, level, holds, text, page)
    PROVE  LET r == HeadingNode(p, n, type, level, holds, text, page)
           IN  /\ r \in NodeSet /\ r.level = level /\ r.path = Append(p, n)
               /\ r.up = LastOf(p)
<1> DEFINE u == NodeUnder(p, type, level, holds, text, page)
<1>1. u \in NodeSet /\ u.level = level /\ u.path = p /\ u.up = LastOf(p)
  BY NodeUnderIs DEF HeadingParts
<1>2. Append(p, n) \in Seq(Nat)
  OBVIOUS
<1>3. HeadingNode(p, n, type, level, holds, text, page) = [u EXCEPT !.path = Append(u.path, n)]
  BY <1>1 DEF HeadingNode, NodeSet
<1> HIDE DEF u
<1> QED BY <1>1, <1>2, <1>3 DEF NodeSet

\* What a heading leaves open does not depend on nodes behind the stack.
LEMMA PoppedAgrees ==
    ASSUME NEW ns \in Seq(NodeSet), NEW ms \in Seq(NodeSet), NEW hs, Stack(ns, hs),
           Len(ms) >= Len(ns), \A n \in 1..Len(ns) : ms[n] = ns[n], NEW l \in Nat
    PROVE  PoppedFrom(ms, hs, l) = PoppedFrom(ns, hs, l)
<1> DEFINE I(ks) == {i \in 1..Len(hs) : ks[hs[i]].level < l}
           m(ks) == IF I(ks) # {} THEN Max(I(ks)) ELSE 0
<1>1. PoppedFrom(ms, hs, l) = SubSeq(hs, 1, m(ms))
  BY Zenon DEF PoppedFrom, SelectLastInSeq
<1>2. PoppedFrom(ns, hs, l) = SubSeq(hs, 1, m(ns))
  BY Zenon DEF PoppedFrom, SelectLastInSeq
<1>3. \A i \in 1..Len(hs) : hs[i] \in 1..Len(ns)
  <2>1. hs \in Seq(Nat) /\ ToSet(hs) \subseteq DOMAIN ns
    BY DEF Stack, Open
  <2>2. DOMAIN hs = 1..Len(hs) /\ DOMAIN ns = 1..Len(ns)
    BY <2>1
  <2> QED BY <2>1, <2>2 DEF ToSet
<1>4. I(ms) = I(ns)
  BY <1>3
<1>5. m(ms) = m(ns)
  <2> HIDE DEF I
  <2> QED BY <1>4
<1> HIDE DEF m
<1> QED BY <1>1, <1>2, <1>5

\* A heading behind the list ns, which has the open headings of nodes.
LEMMA HeadingGrows ==
    ASSUME Typed, Stack(nodes, heads), NEW ns \in Seq(NodeSet), Tree(ns), Stack(ns, heads),
           Len(ns) >= Len(nodes), \A n \in 1..Len(nodes) : ns[n] = nodes[n],
           NEW type, NEW level, NEW holds, NEW text, NEW page,
           HeadingParts(type, level, holds, text, page), NEW r,
           r = HeadingNode(Popped(level), Len(ns) + 1, type, level, holds, text, page)
    PROVE  /\ Append(ns, r) \in Seq(NodeSet) /\ Tree(Append(ns, r))
           /\ Stack(Append(ns, r), Append(Popped(level), Len(ns) + 1))
<1> DEFINE p == Popped(level)
<1>1. p = PoppedFrom(nodes, heads, level)
  BY Zenon DEF Popped, PoppedFrom
<1>2. nodes \in Seq(NodeSet)
  BY DEF Typed
<1>c. level \in Nat /\ level > 0
  BY DEF HeadingParts
<1>3. p = PoppedFrom(ns, heads, level)
  BY <1>1, <1>2, <1>c, PoppedAgrees
<1>4. p \in Seq(Nat)
  BY <1>3, <1>c, PoppedIs
<1> HIDE DEF p
<1>5. Len(ns) + 1 \in Nat
  OBVIOUS
<1>a. r = HeadingNode(p, Len(ns) + 1, type, level, holds, text, page)
  BY DEF p
<1> DEFINE N == Len(ns) + 1
<1> HIDE DEF N
<1>b. N \in Nat /\ r = HeadingNode(p, N, type, level, holds, text, page)
  BY <1>5, <1>a DEF N
<1>6. r \in NodeSet /\ r.level = level /\ r.path = Append(p, N) /\ r.up = LastOf(p)
  BY <1>4, <1>b, HeadingNodeIs
<1>7. Append(ns, r) \in Seq(NodeSet)
  BY <1>6
<1> QED BY <1>3, <1>6, <1>7, <1>c, AppendHeading DEF p, N

-----------------------------------------------------------------------------
(* The steps of the parser. *)

\* What a reader with a heading stack must keep.
LEMMA Grown ==
    ASSUME PInv, reader \in {"docling", "markdown"}, reader' = reader, docType' = docType,
           nodes' \in Seq(NodeSet), Tree(nodes'), Stack(nodes', heads'),
           pieces' \in Seq(Piece), Len(pieces') <= MaxPieces, pending' \in Seq(Nat),
           fence' \in Seq(Nat), lastFig' \in 0..Len(nodes'), parsed' \in BOOLEAN
    PROVE  PInv'
<1>1. heads' \in Seq(Nat)
  BY DEF Stack
<1>2. Typed'
  BY <1>1 DEF PInv, Typed
<1>3. Built'
  BY DEF PInv, Built
<1> QED BY <1>2, <1>3 DEF PInv

\* One more piece.
LEMMA ReadIs ==
    ASSUME Typed, NEW piece \in Piece, Read(piece)
    PROVE  /\ pieces' \in Seq(Piece) /\ Len(pieces') <= MaxPieces
           /\ Len(pieces') = Len(pieces) + 1 /\ pieces' = Append(pieces, piece)
           /\ This \in Nat /\ {This} \in HoldSets
<1>1. pieces \in Seq(Piece) /\ Len(pieces) \in Nat /\ Len(pieces) < MaxPieces
      /\ pieces' = Append(pieces, piece) /\ MaxPieces \in Nat
  BY ParserAssumption DEF Typed, Read
<1>2. pieces' \in Seq(Piece) /\ Len(pieces') = Len(pieces) + 1
  BY <1>1
<1> QED BY <1>1, <1>2 DEF This, HoldSets

\* What an item has.
LEMMA ItemIs ==
    ASSUME NEW item \in Items
    PROVE  /\ item \in Piece /\ item.label \in Labels /\ item.level \in Nat
           /\ item.page \in Nat /\ item.text \in Seq(Nat \X Nat) /\ item.rows \in Nat
           /\ item.header \in BOOLEAN
           /\ item.label = "section_header" => item.level > 0
BY ParserAssumption DEF Piece

\* A title or a section header.
LEMMA PushHeadingIs ==
    ASSUME PInv, reader \in {"docling", "markdown"}, NEW type, NEW level,
           NEW holds, NEW text, NEW page, HeadingParts(type, level, holds, text, page),
           PushHeading(type, level, holds, text, page)
    PROVE  nodes' \in Seq(NodeSet) /\ Tree(nodes') /\ Stack(nodes', heads')
<1>1. Typed /\ Tree(nodes) /\ Stack(nodes, heads) /\ nodes \in Seq(NodeSet)
  BY DEF PInv, Built, Typed
<1> DEFINE r == HeadingNode(Popped(level), Len(nodes) + 1, type, level, holds, text, page)
<1>2. nodes' = Append(nodes, r) /\ heads' = Append(Popped(level), Len(nodes) + 1)
  BY Zenon DEF PushHeading, Heading, HeadingNode
<1>3. Len(nodes) >= Len(nodes)
  BY <1>1
<1> HIDE DEF r
<1> QED BY <1>1, <1>2, <1>3, HeadingGrows DEF r

\* A node that is no heading.
LEMMA PlainGrows ==
    ASSUME PInv, reader \in {"docling", "markdown"}, NEW ns \in Seq(NodeSet),
           Tree(ns), Stack(ns, heads), NEW r, Plain(r)
    PROVE  /\ Append(ns, r) \in Seq(NodeSet) /\ Len(Append(ns, r)) = Len(ns) + 1
           /\ Tree(Append(ns, r)) /\ Stack(Append(ns, r), heads)
<1>1. r \in NodeSet
  BY DEF Plain
<1> QED BY <1>1, AppendPlain DEF Plain

\* A caption is put into a node that is there.
LEMMA CaptionedIs ==
    ASSUME Typed, NEW text \in Seq(Nat \X Nat)
    PROVE  Captioned(text) \in Seq(NodeSet) /\ Alike(nodes, Captioned(text))
           /\ Len(Captioned(text)) = Len(nodes)
<1>1. nodes \in Seq(NodeSet) /\ Len(nodes) \in Nat /\ lastFig \in 0..Len(nodes)
  BY DEF Typed
<1>2. CASE Captioned(text) = nodes
  BY <1>1, <1>2 DEF Alike
<1>3. CASE lastFig # 0 /\ Captioned(text) = [nodes EXCEPT ![lastFig].caption = text]
  <2> DEFINE k == lastFig
             old == nodes[k]
             new == [old EXCEPT !.caption = text]
             ms == [nodes EXCEPT ![k] = new]
  <2>1. k \in 1..Len(nodes) /\ old \in NodeSet
    BY <1>1, <1>3
  <2>2. new \in NodeSet /\ new.level = old.level /\ new.up = old.up /\ new.path = old.path
    BY <2>1 DEF NodeSet
  <2>3. Captioned(text) = ms
    BY <1>3
  <2> HIDE DEF new, old
  <2>4. /\ ms \in Seq(NodeSet) /\ Len(ms) = Len(nodes) /\ DOMAIN ms = DOMAIN nodes
        /\ DOMAIN nodes = 1..Len(nodes)
        /\ \A n \in 1..Len(nodes) : ms[n] = IF n = k THEN new ELSE nodes[n]
    BY <1>1, <2>1, <2>2
  <2>5. nodes[k] = old
    BY DEF old
  <2> HIDE DEF ms
  <2> QED BY <2>2, <2>3, <2>4, <2>5 DEF Alike
<1> QED BY <1>2, <1>3 DEF Captioned

\* An item of Docling.
LEMMA ReadItemKeeps ==
    ASSUME PInv, NEW item \in Items, ReadItem(item)
    PROVE  PInv'
<1>0. /\ Typed /\ reader = "docling" /\ Read(item) /\ item \in Piece
      /\ reader' = reader /\ docType' = docType /\ parsed' = parsed /\ pending' = pending
      /\ fence' = fence /\ parsed \in BOOLEAN /\ pending \in Seq(Nat) /\ fence \in Seq(Nat)
  BY ItemIs DEF ReadItem, Reading, PInv, Typed
<1>1. /\ item.label \in Labels /\ item.level \in Nat /\ item.page \in Nat
      /\ item.text \in Seq(Nat \X Nat) /\ item.rows \in Nat /\ <<>> \in Seq(Nat \X Nat)
      /\ item.header \in BOOLEAN
      /\ item.label = "section_header" => item.level > 0
  BY ItemIs
<1>2. /\ pieces' \in Seq(Piece) /\ Len(pieces') <= MaxPieces
      /\ {This} \in HoldSets
  BY <1>0, ReadIs
<1>3. /\ nodes \in Seq(NodeSet) /\ Len(nodes) \in Nat /\ lastFig \in 0..Len(nodes)
      /\ Tree(nodes) /\ Stack(nodes, heads)
  BY <1>0 DEF PInv, Built, Typed
<1>4. SUFFICES /\ nodes' \in Seq(NodeSet) /\ Tree(nodes') /\ Stack(nodes', heads')
               /\ lastFig' \in 0..Len(nodes')
  BY <1>0, <1>2, Grown
<1>5. CASE ReadTitle(item)
  <2>1. PushHeading("title", 1, {This}, item.text, item.page) /\ lastFig' = 0
    BY <1>5 DEF ReadTitle
  <2>2. HeadingParts("title", 1, {This}, item.text, item.page)
    BY <1>1, <1>2 DEF NodeTypes, HeadingParts
  <2>3. nodes' \in Seq(NodeSet) /\ Tree(nodes') /\ Stack(nodes', heads')
    BY <1>0, <2>1, <2>2, PushHeadingIs
  <2> QED BY <2>1, <2>3
<1>6. CASE ReadSectionHeader(item)
  <2>1. /\ PushHeading("heading", item.level, {This}, item.text, item.page) /\ lastFig' = 0
        /\ item.label = "section_header"
    BY <1>6 DEF ReadSectionHeader
  <2>2. HeadingParts("heading", item.level, {This}, item.text, item.page)
    BY <1>1, <1>2, <2>1 DEF NodeTypes, HeadingParts
  <2>3. nodes' \in Seq(NodeSet) /\ Tree(nodes') /\ Stack(nodes', heads')
    BY <1>0, <2>1, <2>2, PushHeadingIs
  <2> QED BY <2>1, <2>3
<1>7. CASE ReadTable(item)
  <2> DEFINE r == TableNode({This}, item.text, item.page, item.rows, item.header)
  <2>1. nodes' = Append(nodes, r) /\ lastFig' = Len(nodes) + 1 /\ heads' = heads
    BY <1>7 DEF ReadTable
  <2>2. Plain(r)
    BY <1>0, <1>1, <1>2, TablePlainIs
  <2> HIDE DEF r
  <2>3. /\ nodes' \in Seq(NodeSet) /\ Len(nodes') = Len(nodes) + 1 /\ Tree(nodes')
        /\ Stack(nodes', heads')
    BY <1>0, <1>3, <2>1, <2>2, PlainGrows
  <2> QED BY <1>3, <2>1, <2>3
<1>8. CASE ReadPicture(item)
  <2> DEFINE r == FigureNode(item.label, {This}, item.text, <<>>, item.page)
  <2>1. /\ nodes' = Append(nodes, r) /\ lastFig' = Len(nodes) + 1 /\ heads' = heads
        /\ item.label \in {"figure", "chart"}
    BY <1>8 DEF ReadPicture
  <2>2. Plain(r)
    <3>1. item.label \in NodeTypes
      BY <2>1 DEF NodeTypes
    <3> QED BY <1>0, <1>1, <1>2, <3>1, PlainIs
  <2> HIDE DEF r
  <2>3. /\ nodes' \in Seq(NodeSet) /\ Len(nodes') = Len(nodes) + 1 /\ Tree(nodes')
        /\ Stack(nodes', heads')
    BY <1>0, <1>3, <2>1, <2>2, PlainGrows
  <2> QED BY <1>3, <2>1, <2>3
<1>9. CASE ReadCaption(item)
  <2> DEFINE type == IF item.label = "caption" THEN "caption" ELSE "paragraph"
             r == Node(type, {This}, item.text, item.page)
             ns == Captioned(item.text)
  <2>1. nodes' = Append(ns, r) /\ lastFig' = lastFig /\ heads' = heads
    BY <1>9 DEF ReadCaption
  <2>2. Plain(r)
    <3>1. type \in NodeTypes
      BY DEF NodeTypes
    <3> HIDE DEF type
    <3> QED BY <1>0, <1>1, <1>2, <3>1, PlainIs
  <2> HIDE DEF r
  <2>3. ns \in Seq(NodeSet) /\ Alike(nodes, ns) /\ Len(ns) = Len(nodes)
    BY <1>0, <1>1, CaptionedIs
  <2> HIDE DEF ns
  <2>4. Tree(ns) /\ Stack(ns, heads)
    BY <1>3, <2>3, AlikeIs
  <2>5. /\ nodes' \in Seq(NodeSet) /\ Len(nodes') = Len(nodes) + 1 /\ Tree(nodes')
        /\ Stack(nodes', heads')
    BY <1>0, <2>1, <2>2, <2>3, <2>4, PlainGrows
  <2> QED BY <1>3, <2>1, <2>5
<1>10. CASE ReadText(item)
  <2> DEFINE r == Node(item.label, {This}, item.text, item.page)
  <2>1. /\ nodes' = Append(nodes, r) /\ lastFig' = lastFig /\ heads' = heads
        /\ item.label \in {"footnote", "list_item", "code", "paragraph"}
    BY <1>10 DEF ReadText
  <2>2. Plain(r)
    <3>1. item.label \in NodeTypes
      BY <2>1 DEF NodeTypes
    <3> QED BY <1>0, <1>1, <1>2, <3>1, PlainIs
  <2> HIDE DEF r
  <2>3. /\ nodes' \in Seq(NodeSet) /\ Len(nodes') = Len(nodes) + 1 /\ Tree(nodes')
        /\ Stack(nodes', heads')
    BY <1>0, <1>3, <2>1, <2>2, PlainGrows
  <2> QED BY <1>3, <2>1, <2>3
<1> QED BY <1>5, <1>6, <1>7, <1>8, <1>9, <1>10 DEF ReadItem

\* A paragraph of markdown is no heading.
LEMMA ParagraphNodeIs ==
    ASSUME Typed, pending # <<>>
    PROVE  Plain(ParagraphNode)
<1>1. pending \in Seq(Nat) /\ Len(pending) \in Nat /\ pending[1] \in Nat
      /\ DOMAIN pending = 1..Len(pending) /\ \A i \in 1..Len(pending) : pending[i] \in Nat
  <2>1. pending \in Seq(Nat)
    BY DEF Typed
  <2>2. 1 \in 1..Len(pending)
    BY <2>1
  <2> QED BY <2>1, <2>2
<1>2. ToSet(pending) \in HoldSets /\ {pending[1]} \in HoldSets
  BY <1>1 DEF ToSet, HoldSets
<1>3. Joined(Len(pending)) \in Seq(Nat \X Nat) /\ Joined(1) \in Seq(Nat \X Nat)
      /\ 0 \in Nat /\ <<>> \in Seq(Nat \X Nat)
  BY <1>1, JoinedIs
<1>4. {"table", "figure", "paragraph"} \subseteq NodeTypes
  BY DEF NodeTypes
<1>5. Plain(TableNode(ToSet(pending), Joined(Len(pending)), 0, 0, FALSE))
  <2>1. FALSE \in BOOLEAN
    OBVIOUS
  <2> QED BY <1>2, <1>3, <2>1, TablePlainIs
<1>6. Plain(FigureNode("figure", {pending[1]}, Joined(1), Joined(1), 0))
  BY <1>2, <1>3, <1>4, PlainIs
<1>7. Plain(Node("paragraph", ToSet(pending), Joined(Len(pending)), 0))
  BY <1>2, <1>3, <1>4, PlainIs
<1>8. \/ ParagraphNode = TableNode(ToSet(pending), Joined(Len(pending)), 0, 0, FALSE)
      \/ ParagraphNode = FigureNode("figure", {pending[1]}, Joined(1), Joined(1), 0)
      \/ ParagraphNode = Node("paragraph", ToSet(pending), Joined(Len(pending)), 0)
  BY Zenon DEF ParagraphNode
<1> QED BY <1>5, <1>6, <1>7, <1>8

\* The list ns is nodes, with more behind, under the same open headings.
Extends(ns) ==
    /\ ns \in Seq(NodeSet) /\ Tree(ns) /\ Stack(ns, heads) /\ Len(ns) >= Len(nodes)
    /\ \A n \in 1..Len(nodes) : ns[n] = nodes[n]

\* As it is when the paragraph at hand is flushed.
LEMMA FlushedIs ==
    ASSUME PInv, reader \in {"docling", "markdown"}
    PROVE  Extends(Flushed) /\ Len(Flushed) \in Nat
<1>1. Typed /\ Tree(nodes) /\ Stack(nodes, heads) /\ nodes \in Seq(NodeSet)
  BY DEF PInv, Built, Typed
<1>2. CASE pending = <<>>
  <2>1. Flushed = nodes
    BY <1>2 DEF Flushed
  <2> QED BY <1>1, <2>1 DEF Extends
<1>3. CASE pending # <<>>
  <2> DEFINE r == ParagraphNode
  <2>1. Flushed = Append(nodes, r)
    BY <1>3 DEF Flushed
  <2>2. Plain(r)
    BY <1>1, <1>3, ParagraphNodeIs
  <2> HIDE DEF r
  <2>3. /\ Append(nodes, r) \in Seq(NodeSet) /\ Len(Append(nodes, r)) = Len(nodes) + 1
        /\ Tree(Append(nodes, r)) /\ Stack(Append(nodes, r), heads)
    BY <1>1, <2>2, PlainGrows
  <2>4. r \in NodeSet
    BY <2>2 DEF Plain
  <2>5. \A n \in 1..Len(nodes) : Append(nodes, r)[n] = nodes[n]
    BY <1>1, <2>4, LongerIs
  <2> QED BY <1>1, <2>1, <2>3, <2>5 DEF Extends
<1> QED BY <1>2, <1>3

\* Any more nodes without a heading.
LEMMA PlainBehind ==
    ASSUME PInv, reader \in {"docling", "markdown"}, NEW ns, Extends(ns), NEW r, Plain(r)
    PROVE  Extends(Append(ns, r))
<1>1. /\ ns \in Seq(NodeSet) /\ r \in NodeSet /\ nodes \in Seq(NodeSet)
      /\ Len(ns) \in Nat /\ Len(nodes) \in Nat /\ Len(ns) >= Len(nodes)
  BY DEF Extends, Plain, PInv, Typed
<1>2. \A n \in 1..Len(ns) : Append(ns, r)[n] = ns[n]
  BY <1>1
<1>3. /\ Append(ns, r) \in Seq(NodeSet) /\ Len(Append(ns, r)) = Len(ns) + 1
      /\ Tree(Append(ns, r)) /\ Stack(Append(ns, r), heads)
  BY <1>1, PlainGrows DEF Extends
<1>4. \A n \in 1..Len(nodes) : n \in 1..Len(ns) /\ ns[n] = nodes[n]
  BY <1>1 DEF Extends
<1> QED BY <1>1, <1>2, <1>3, <1>4 DEF Extends

\* A line of markdown.
LEMMA ReadLineKeeps ==
    ASSUME PInv, NEW line \in Lines, ReadLine(line)
    PROVE  PInv'
<1>0. /\ Typed /\ reader = "markdown" /\ Read(line) /\ line \in Piece
      /\ reader' = reader /\ docType' = docType /\ parsed' = parsed /\ lastFig' = lastFig
      /\ parsed \in BOOLEAN /\ pending \in Seq(Nat) /\ fence \in Seq(Nat)
  BY DEF ReadLine, Reading, PInv, Typed, Piece
<1>2. /\ pieces' \in Seq(Piece) /\ Len(pieces') <= MaxPieces
      /\ {This} \in HoldSets /\ This \in Nat /\ Joined(1) \in Seq(Nat \X Nat)
  BY <1>0, ReadIs, JoinedIs
<1>3. /\ nodes \in Seq(NodeSet) /\ Len(nodes) \in Nat /\ lastFig \in 0..Len(nodes)
      /\ Tree(nodes) /\ Stack(nodes, heads)
  BY <1>0 DEF PInv, Built, Typed
<1>4. Extends(Flushed) /\ Len(Flushed) \in Nat /\ Extends(nodes)
  BY <1>0, <1>3, FlushedIs DEF Extends
<1>5. SUFFICES /\ nodes' \in Seq(NodeSet) /\ Tree(nodes') /\ Stack(nodes', heads')
               /\ Len(nodes') >= Len(nodes) /\ pending' \in Seq(Nat) /\ fence' \in Seq(Nat)
  <2>1. Len(nodes') \in Nat
    OBVIOUS
  <2>2. lastFig' \in 0..Len(nodes')
    BY <1>0, <1>3, <2>1
  <2> QED BY <1>0, <1>2, <2>2, Grown
<1>6. <<>> \in Seq(Nat) /\ <<This>> \in Seq(Nat) /\ Append(pending, This) \in Seq(Nat)
      /\ Append(fence, This) \in Seq(Nat)
  BY <1>0, <1>2
<1>7. CASE ReadHeadingLine(line)
  <2> DEFINE level == LevelOf(line)
             r == HeadingNode(Popped(level), Len(Flushed) + 1, "heading", level, {This},
                              Joined(1), 0)
  <2>1. /\ nodes' = Append(Flushed, r) /\ heads' = Append(Popped(level), Len(Flushed) + 1)
        /\ pending' = <<>> /\ fence' = fence
    BY <1>7, Zenon DEF ReadHeadingLine, HeadingNode
  <2>2. HeadingParts("heading", level, {This}, Joined(1), 0)
    BY <1>2 DEF HeadingParts, NodeTypes, LevelOf
  <2> HIDE DEF r, level
  <2>3. r = HeadingNode(Popped(level), Len(Flushed) + 1, "heading", level, {This},
                        Joined(1), 0)
    BY DEF r
  <2>4. /\ Append(Flushed, r) \in Seq(NodeSet) /\ Tree(Append(Flushed, r))
        /\ Stack(Append(Flushed, r), Append(Popped(level), Len(Flushed) + 1))
    BY <1>0, <1>3, <1>4, <2>2, <2>3, HeadingGrows DEF Extends
  <2>5. Len(nodes') = Len(Flushed) + 1
    BY <2>1, <2>4
  <2> QED BY <1>0, <1>3, <1>4, <1>6, <2>1, <2>4, <2>5 DEF Extends
<1>8. CASE ReadBlankLine(line)
  BY <1>0, <1>4, <1>6, <1>8 DEF ReadBlankLine, Extends
<1>9. CASE ReadOtherLine(line)
  BY <1>0, <1>4, <1>6, <1>9 DEF ReadOtherLine, Extends
<1>10. CASE OpenFence(line)
  BY <1>0, <1>4, <1>6, <1>10 DEF OpenFence, Extends
<1>11. CASE CloseFence(line)
  <2> DEFINE r == Node("code", ToSet(fence) \cup {This}, Joined(Len(fence) + 1), 0)
  <2>1. nodes' = Append(nodes, r) /\ fence' = <<>> /\ heads' = heads /\ pending' = pending
    BY <1>11 DEF CloseFence
  <2>2. ToSet(fence) \cup {This} \in HoldSets
    BY <1>0, <1>2 DEF HoldSets, ToSet
  <2>3. Joined(Len(fence) + 1) \in Seq(Nat \X Nat) /\ <<>> \in Seq(Nat \X Nat)
    BY <1>0, JoinedIs
  <2>4. Plain(r)
    <3>1. "code" \in NodeTypes /\ 0 \in Nat
      BY DEF NodeTypes
    <3> QED BY <1>0, <2>2, <2>3, <3>1, PlainIs
  <2> HIDE DEF r
  <2>5. Extends(Append(nodes, r))
    BY <1>0, <1>4, <2>4, PlainBehind
  <2> QED BY <1>0, <1>6, <2>1, <2>5 DEF Extends
<1>12. CASE ReadFencedLine(line)
  BY <1>0, <1>4, <1>6, <1>12 DEF ReadFencedLine, Extends
<1> QED BY <1>7, <1>8, <1>9, <1>10, <1>11, <1>12 DEF ReadLine

\* The end of a markdown document.
LEMMA FinishMarkdownKeeps ==
    ASSUME PInv, FinishMarkdown
    PROVE  PInv'
<1>1. /\ reader = "markdown" /\ nodes' = Flushed /\ pending' = <<>> /\ parsed' = TRUE
      /\ docType' = docType /\ reader' = reader /\ pieces' = pieces /\ fence' = fence
      /\ heads' = heads /\ lastFig' = lastFig
  BY DEF FinishMarkdown, Reading, Return
<1>2. /\ Typed /\ pieces \in Seq(Piece) /\ Len(pieces) <= MaxPieces /\ fence \in Seq(Nat)
      /\ nodes \in Seq(NodeSet) /\ Len(nodes) \in Nat /\ lastFig \in 0..Len(nodes)
  BY DEF PInv, Typed
<1>3. Extends(Flushed) /\ Len(Flushed) \in Nat
  BY <1>1, FlushedIs
<1>4. lastFig' \in 0..Len(nodes')
  BY <1>1, <1>2, <1>3 DEF Extends
<1>5. pending' \in Seq(Nat) /\ parsed' \in BOOLEAN
  BY <1>1
<1> QED BY <1>1, <1>2, <1>3, <1>4, <1>5, Grown DEF Extends

\* The end of what Docling yields.
LEMMA FinishDoclingKeeps ==
    ASSUME PInv, FinishDocling
    PROVE  PInv'
<1>1. /\ reader = "docling" /\ nodes' = nodes /\ pending' = pending /\ parsed' = TRUE
      /\ docType' = docType /\ reader' = reader /\ pieces' = pieces /\ fence' = fence
      /\ heads' = heads /\ lastFig' = lastFig
  BY DEF FinishDocling, Reading, Return
<1>2. /\ Typed /\ pieces \in Seq(Piece) /\ Len(pieces) <= MaxPieces /\ fence \in Seq(Nat)
      /\ nodes \in Seq(NodeSet) /\ lastFig \in 0..Len(nodes) /\ pending \in Seq(Nat)
      /\ Tree(nodes) /\ Stack(nodes, heads)
  BY <1>1 DEF PInv, Typed, Built
<1> QED BY <1>1, <1>2, Grown

\* Formats by their readers.
LEMMA ReadersAre ==
    ASSUME NEW t
    PROVE  /\ NativeReader(t) \in {"pdf", "markdown", "text"}
           /\ ReadersOf(t) \subseteq {"code", "blocks", "docling", "pdf", "markdown", "text"}
<1>1. NativeReader(t) \in {"pdf", "markdown", "text"}
  BY Zenon DEF NativeReader
<1>2. \/ ReadersOf(t) = {"code", "blocks"} \/ ReadersOf(t) = {"docling"}
      \/ ReadersOf(t) = {NativeReader(t)}
  BY Zenon DEF ReadersOf
<1>3. CASE ReadersOf(t) = {"code", "blocks"}
  BY <1>1, <1>3
<1>4. CASE ReadersOf(t) = {"docling"}
  BY <1>1, <1>4
<1>5. CASE ReadersOf(t) = {NativeReader(t)}
  BY <1>1, <1>5
<1> QED BY <1>2, <1>3, <1>4, <1>5

\* A reader begins with nothing.
LEMMA Begun ==
    ASSUME PInv, docType' \in DocTypes,
           reader' \in {"code", "blocks", "docling", "pdf", "markdown", "text"},
           nodes' = <<>>, heads' = <<>>, pieces' = <<>>, lastFig' = 0,
           parsed' = parsed, pending' = pending, fence' = fence
    PROVE  PInv'
<1>1. docType' # "none"
  BY ParserAssumption
<1>2. 0 \in 0..Len(nodes') /\ Len(pieces') <= MaxPieces /\ pieces' \in Seq(Piece)
      /\ pieces' \in Seq(Pages) /\ heads' \in Seq(Nat) /\ nodes' \in Seq(NodeSet)
  <2>1. Len(<<>>) = 0
    OBVIOUS
  <2> QED BY <2>1, ParserAssumption
<1>3. Typed'
  <2>1. reader' \in Readers
    BY DEF Readers
  <2> QED BY <1>2, <2>1 DEF PInv, Typed
<1>4. Tree(nodes') /\ Stack(nodes', heads')
  BY NoNodes
<1>5. Flat(nodes') /\ FiniteHolds(nodes')
  BY DEF Flat, FiniteHolds
<1>6. Built'
  BY <1>1, <1>2, <1>4, <1>5 DEF Built
<1> QED BY <1>3, <1>6 DEF PInv

\* parse_tree is called.
LEMMA ParseTreeKeeps ==
    ASSUME PInv, NEW t \in DocTypes, ParseTree(t)
    PROVE  PInv'
<1>1. /\ docType = "none" /\ docType' = t /\ reader' \in ReadersOf(t)
      /\ nodes' = nodes /\ heads' = heads /\ pieces' = pieces /\ lastFig' = lastFig
      /\ parsed' = parsed /\ pending' = pending /\ fence' = fence
  BY DEF ParseTree
<1>2. reader' \in {"code", "blocks", "docling", "pdf", "markdown", "text"}
  BY <1>1, ReadersAre
<1>3. nodes = <<>> /\ heads = <<>> /\ pieces = <<>>
  BY <1>1 DEF PInv, Built
<1>4. lastFig = 0
  <2>1. Len(<<>>) = 0
    OBVIOUS
  <2> QED BY <1>3, <2>1 DEF PInv, Typed
<1> QED BY <1>1, <1>2, <1>3, <1>4, Begun

\* The native reader takes over.
LEMMA FallBackKeeps ==
    ASSUME PInv, FallBack
    PROVE  PInv'
<1>1. /\ reader = "docling" /\ docType' = docType /\ reader' = NativeReader(docType)
      /\ nodes' = <<>> /\ heads' = <<>> /\ pieces' = <<>> /\ lastFig' = 0
      /\ parsed' = parsed /\ pending' = pending /\ fence' = fence
  BY DEF FallBack, Reading
<1>2. reader' \in {"pdf", "markdown", "text"}
  BY <1>1, ReadersAre
<1>3. docType' \in DocTypes
  BY <1>1 DEF PInv, Typed, Built
<1> QED BY <1>1, <1>2, <1>3, Begun

\* A node without a heading above it.
Bare(r, up) == r \in NodeSet /\ r.level = 0 /\ r.path = <<>> /\ r.up = up

\* One more such node.
LEMMA FlatGrows ==
    ASSUME NEW ns \in Seq(NodeSet), Flat(ns), NEW r, NEW up \in 0..Len(ns), Bare(r, up)
    PROVE  Append(ns, r) \in Seq(NodeSet) /\ Flat(Append(ns, r))
           /\ Len(Append(ns, r)) = Len(ns) + 1
<1> DEFINE ms == Append(ns, r)
<1>1. r \in NodeSet
  BY DEF Bare
<1>2. /\ ms \in Seq(NodeSet) /\ Len(ns) \in Nat /\ Len(ms) = Len(ns) + 1
      /\ DOMAIN ns = 1..Len(ns) /\ DOMAIN ms = 1..(Len(ns) + 1)
      /\ ms[Len(ns) + 1] = r
      /\ \A n \in 1..Len(ns) : ms[n] = ns[n]
  BY <1>1, LongerIs
<1> HIDE DEF ms
<1>3. ASSUME NEW n \in DOMAIN ms
      PROVE  ms[n].level = 0 /\ ms[n].path = <<>> /\ ms[n].up \in 0..n-1
  <2>1. CASE n = Len(ns) + 1
    <3>1. ms[n].level = 0 /\ ms[n].path = <<>> /\ ms[n].up = up
      BY <1>2, <2>1 DEF Bare
    <3> QED BY <1>2, <2>1, <3>1
  <2>2. CASE n # Len(ns) + 1
    <3>1. n \in 1..Len(ns) /\ n \in DOMAIN ns /\ ms[n] = ns[n]
      BY <1>2, <2>2
    <3> QED BY <3>1 DEF Flat
  <2> QED BY <2>1, <2>2
<1>4. Flat(ms)
  BY <1>3 DEF Flat
<1> QED BY <1>2, <1>4 DEF ms

\* What a reader without headings must keep.
LEMMA FlatGrown ==
    ASSUME PInv, reader \in {"code", "blocks", "text"}, reader' = reader,
           docType' = docType, heads' = heads, lastFig' = lastFig, pending' = pending,
           fence' = fence, nodes' \in Seq(NodeSet), Len(nodes') >= Len(nodes),
           Flat(nodes'), reader = "blocks" => FiniteHolds(nodes'),
           pieces' \in Seq(Piece), Len(pieces') <= MaxPieces, parsed' \in BOOLEAN
    PROVE  PInv'
<1>1. lastFig' \in 0..Len(nodes')
  BY DEF PInv, Typed
<1>2. Typed'
  BY <1>1 DEF PInv, Typed
<1>3. Built'
  BY DEF PInv, Built
<1> QED BY <1>2, <1>3 DEF PInv

\* The nodes of such a reader are bare.
LEMMA BareIs ==
    ASSUME PInv, reader \notin {"docling", "markdown"}, NEW type \in NodeTypes,
           NEW holds \in HoldSets, NEW text \in Seq(Nat \X Nat), NEW page \in Nat
    PROVE  LET r == Node(type, holds, text, page)
           IN  Bare(r, 0) /\ r.holds = holds
<1>1. Typed /\ heads = <<>> /\ 0 \in Nat /\ <<>> \in Seq(Nat \X Nat)
  BY DEF PInv, Built
<1> DEFINE r == Node(type, holds, text, page)
<1>2. Plain(r) /\ r.holds = holds
  BY <1>1, PlainIs
<1> HIDE DEF r
<1>3. LastOf(heads) = 0
  BY <1>1, NoNodes
<1>4. Bare(r, 0)
  BY <1>1, <1>2, <1>3 DEF Plain, Bare
<1> QED BY <1>2, <1>4 DEF r

\* A statement of Python.
LEMMA ReadStatementKeeps ==
    ASSUME PInv, NEW s \in Statements, ReadStatement(s)
    PROVE  PInv'
<1>0. /\ Typed /\ reader = "code" /\ Read(s) /\ s \in Piece
      /\ reader' = reader /\ docType' = docType /\ parsed' = parsed /\ lastFig' = lastFig
      /\ pending' = pending /\ fence' = fence /\ heads' = heads /\ parsed \in BOOLEAN
  BY DEF ReadStatement, Reading, PInv, Typed, Piece
<1>1. /\ pieces' \in Seq(Piece) /\ Len(pieces') <= MaxPieces /\ {This} \in HoldSets
  BY <1>0, ReadIs
<1>2. /\ nodes \in Seq(NodeSet) /\ Len(nodes) \in Nat /\ Flat(nodes)
  BY <1>0 DEF PInv, Built, Typed
<1>3. SUFFICES nodes' \in Seq(NodeSet) /\ Flat(nodes') /\ Len(nodes') >= Len(nodes)
  BY <1>0, <1>1, FlatGrown
<1> DEFINE p == CodeNode("paragraph", {This}, 1)
           c == CodeNode("code", {This}, 1)
           b == CodeNode("code", {This}, 2)
           m == [c EXCEPT !.up = Len(nodes) + 1]
<1>4. Bare(p, 0) /\ Bare(c, 0) /\ Bare(b, 0)
  <2>1. "paragraph" \in NodeTypes /\ "code" \in NodeTypes /\ 1 \in Nat /\ 2 \in Nat
    BY DEF NodeTypes
  <2>2. Joined(1) \in Seq(Nat \X Nat) /\ Joined(2) \in Seq(Nat \X Nat)
    BY JoinedIs
  <2>3. Bare(Node("paragraph", {This}, Joined(1), 1), 0)
    BY <1>0, <1>1, <2>1, <2>2, BareIs
  <2>4. Bare(Node("code", {This}, Joined(1), 1), 0)
    BY <1>0, <1>1, <2>1, <2>2, BareIs
  <2>5. Bare(Node("code", {This}, Joined(2), 1), 0)
    BY <1>0, <1>1, <2>1, <2>2, BareIs
  <2> QED BY <2>3, <2>4, <2>5, Zenon DEF CodeNode
<1>5. \/ nodes' = Append(nodes, p) \/ nodes' = Append(nodes, c)
      \/ nodes' = nodes \o <<b, m>> \/ nodes' = nodes
  BY Zenon DEF ReadStatement, ClassNodes
<1> HIDE DEF p, c, b
<1>6. Bare(m, Len(nodes) + 1)
  <2>1. c \in NodeSet /\ c.level = 0 /\ c.path = <<>> /\ Len(nodes) + 1 \in Nat
    BY <1>2, <1>4 DEF Bare
  <2>2. m \in NodeSet /\ m.level = c.level /\ m.path = c.path /\ m.up = Len(nodes) + 1
    BY <2>1 DEF NodeSet
  <2> HIDE DEF m
  <2> QED BY <2>1, <2>2 DEF Bare
<1> HIDE DEF m
<1>7. CASE nodes' = Append(nodes, p)
  BY <1>2, <1>4, <1>7, FlatGrows
<1>8. CASE nodes' = Append(nodes, c)
  BY <1>2, <1>4, <1>8, FlatGrows
<1>9. CASE nodes' = nodes \o <<b, m>>
  <2>1. /\ Append(nodes, b) \in Seq(NodeSet) /\ Flat(Append(nodes, b))
        /\ Len(Append(nodes, b)) = Len(nodes) + 1
    BY <1>2, <1>4, FlatGrows
  <2> DEFINE ns == Append(nodes, b)
  <2>2. ns \in Seq(NodeSet) /\ Flat(ns) /\ Len(ns) = Len(nodes) + 1
    BY <2>1
  <2>3. nodes \o <<b, m>> = Append(ns, m)
    <3>1. b \in NodeSet /\ m \in NodeSet
      BY <1>4, <1>6 DEF Bare
    <3> QED BY <1>2, <3>1
  <2> HIDE DEF ns
  <2>4. Len(nodes) + 1 \in 0..Len(ns)
    BY <1>2, <2>2
  <2>5. Append(ns, m) \in Seq(NodeSet) /\ Flat(Append(ns, m)) /\ Len(Append(ns, m)) = Len(ns) + 1
    BY <1>6, <2>2, <2>4, FlatGrows
  <2>6. nodes' = Append(ns, m)
    BY <1>9, <2>3
  <2>7. Len(nodes') >= Len(nodes)
    BY <1>2, <2>2, <2>5, <2>6
  <2> QED BY <2>5, <2>6, <2>7
<1>10. CASE nodes' = nodes
  BY <1>2, <1>10
<1> QED BY <1>5, <1>7, <1>8, <1>9, <1>10

\* The end of Python code.
LEMMA FinishCodeKeeps ==
    ASSUME PInv, FinishCode
    PROVE  PInv'
<1>0. /\ Typed /\ reader = "code" /\ parsed' = TRUE /\ pending' = pending
      /\ reader' = reader /\ docType' = docType /\ pieces' = pieces /\ lastFig' = lastFig
      /\ fence' = fence /\ heads' = heads
  BY DEF FinishCode, Reading, PInv, Return
<1>1. /\ pieces \in Seq(Piece) /\ Len(pieces) <= MaxPieces /\ Len(pieces) \in Nat
      /\ nodes \in Seq(NodeSet) /\ Len(nodes) \in Nat /\ Flat(nodes)
  BY <1>0 DEF PInv, Built, Typed
<1>2. SUFFICES nodes' \in Seq(NodeSet) /\ Flat(nodes') /\ Len(nodes') >= Len(nodes)
  BY <1>0, <1>1, FlatGrown
<1>3. CASE nodes # <<>>
  BY <1>1, <1>3 DEF FinishCode
<1>4. CASE nodes = <<>>
  <2> DEFINE r == Node("code", DOMAIN pieces, Joined(Len(pieces)), 0)
  <2>1. nodes' = Append(nodes, r)
    BY <1>4 DEF FinishCode
  <2>2. Bare(r, 0)
    <3>1. DOMAIN pieces \in HoldSets /\ "code" \in NodeTypes /\ 0 \in Nat
      BY <1>1 DEF HoldSets, NodeTypes
    <3>2. Joined(Len(pieces)) \in Seq(Nat \X Nat)
      BY <1>1, JoinedIs
    <3> QED BY <1>0, <3>1, <3>2, BareIs
  <2> HIDE DEF r
  <2> QED BY <1>1, <2>1, <2>2, FlatGrows
<1> QED BY <1>3, <1>4

\* A line of other code.
LEMMA ReadBlockLineKeeps ==
    ASSUME PInv, NEW s \in Statements, ReadBlockLine(s)
    PROVE  PInv'
<1>0. /\ Typed /\ reader = "blocks" /\ Read(s) /\ s \in Piece
      /\ reader' = reader /\ docType' = docType /\ parsed' = parsed /\ lastFig' = lastFig
      /\ pending' = pending /\ fence' = fence /\ heads' = heads /\ parsed \in BOOLEAN
  BY DEF ReadBlockLine, Reading, PInv, Typed, Piece
<1>1. /\ pieces' \in Seq(Piece) /\ Len(pieces') <= MaxPieces /\ {This} \in HoldSets
  BY <1>0, ReadIs
<1>2. /\ nodes \in Seq(NodeSet) /\ Len(nodes) \in Nat /\ Flat(nodes) /\ FiniteHolds(nodes)
      /\ DOMAIN nodes = 1..Len(nodes)
  BY <1>0 DEF PInv, Built, Typed
<1>3. SUFFICES /\ nodes' \in Seq(NodeSet) /\ Flat(nodes') /\ Len(nodes') >= Len(nodes)
               /\ FiniteHolds(nodes')
  BY <1>0, <1>1, FlatGrown
<1>4. "code" \in NodeTypes /\ 0 \in Nat
  BY DEF NodeTypes
<1>5. CASE nodes = <<>> \/ s \in {"def", "class"}
  <2> DEFINE r == Node("code", {This}, Joined(1), 0)
  <2>1. nodes' = Append(nodes, r)
    BY <1>5 DEF ReadBlockLine
  <2>2. Bare(r, 0) /\ r.holds = {This}
    <3>1. Joined(1) \in Seq(Nat \X Nat) /\ reader \notin {"docling", "markdown"}
      BY <1>0, JoinedIs
    <3> DEFINE h == {This}
               t == Joined(1)
    <3>2. h \in HoldSets /\ t \in Seq(Nat \X Nat)
      BY <1>1, <3>1
    <3> HIDE DEF h, t
    <3>3. Bare(Node("code", h, t, 0), 0) /\ Node("code", h, t, 0).holds = h
      BY <1>4, <3>1, <3>2, BareIs
    <3> QED BY <3>3 DEF h, t
  <2> HIDE DEF r
  <2>3. IsFiniteSet(r.holds)
    BY <2>2, FS_Singleton
  <2>4. r \in NodeSet
    BY <2>2 DEF Bare
  <2>5. /\ DOMAIN nodes' = 1..(Len(nodes) + 1) /\ nodes'[Len(nodes) + 1] = r
        /\ \A n \in 1..Len(nodes) : nodes'[n] = nodes[n]
    BY <1>2, <2>1, <2>4, LongerIs
  <2>6. FiniteHolds(nodes')
    BY <1>2, <2>3, <2>5 DEF FiniteHolds
  <2>7. nodes' \in Seq(NodeSet) /\ Flat(nodes') /\ Len(nodes') = Len(nodes) + 1
    BY <1>2, <2>1, <2>2, FlatGrows
  <2> QED BY <1>2, <2>6, <2>7
<1>6. CASE ~(nodes = <<>> \/ s \in {"def", "class"})
  <2> DEFINE k == Len(nodes)
             lines == nodes[k].holds \cup {This}
             r == Node("code", lines, Joined(Cardinality(lines)), 0)
  <2>1. nodes' = [nodes EXCEPT ![k] = r]
    BY <1>6 DEF ReadBlockLine, Last
  <2>2. k \in 1..Len(nodes) /\ k \in DOMAIN nodes
    BY <1>2, <1>6
  <2>3. lines \in HoldSets /\ IsFiniteSet(lines)
    <3>1. nodes[k] \in NodeSet
      BY <1>2, <2>2
    <3>2. nodes[k].holds \in HoldSets
      BY <3>1 DEF NodeSet
    <3>3. IsFiniteSet(nodes[k].holds)
      BY <1>2, <2>2 DEF FiniteHolds
    <3>4. IsFiniteSet({This})
      BY FS_Singleton
    <3>5. IsFiniteSet(lines)
      BY <3>3, <3>4, FS_Union
    <3> QED BY <1>1, <3>2, <3>5 DEF HoldSets
  <2>4. Bare(r, 0) /\ r.holds = lines
    <3>1. Cardinality(lines) \in Nat
      BY <2>3, FS_CardinalityType
    <3>2. Joined(Cardinality(lines)) \in Seq(Nat \X Nat)
      BY <3>1, JoinedIs
    <3> HIDE DEF lines
    <3> QED BY <1>0, <1>4, <2>3, <3>2, BareIs
  <2> HIDE DEF r, lines
  <2>5. r \in NodeSet /\ r.level = 0 /\ r.path = <<>> /\ r.up = 0
    BY <2>4 DEF Bare
  <2>6. /\ nodes' \in Seq(NodeSet) /\ Len(nodes') = Len(nodes)
        /\ DOMAIN nodes' = 1..Len(nodes)
        /\ \A n \in 1..Len(nodes) : nodes'[n] = r \/ nodes'[n] = nodes[n]
    BY <1>2, <2>1, <2>2, <2>5
  <2>7. FiniteHolds(nodes')
    <3>1. \A n \in 1..Len(nodes) : IsFiniteSet(nodes[n].holds)
      BY <1>2 DEF FiniteHolds
    <3>2. IsFiniteSet(r.holds)
      BY <2>3, <2>4
    <3>3. \A n \in 1..Len(nodes) : IsFiniteSet(nodes'[n].holds)
      BY <2>6, <3>1, <3>2
    <3> QED BY <2>6, <3>3 DEF FiniteHolds
  <2>8. Flat(nodes')
    <3>1. \A n \in 1..Len(nodes) : 0 \in 0..n-1
      OBVIOUS
    <3> QED BY <1>2, <2>5, <2>6, <3>1 DEF Flat
  <2> QED BY <1>2, <2>6, <2>7, <2>8
<1> QED BY <1>5, <1>6

\* The end of other code.
LEMMA FinishBlocksKeeps ==
    ASSUME PInv, FinishBlocks
    PROVE  PInv'
<1>0. /\ Typed /\ reader = "blocks" /\ parsed' = TRUE /\ pending' = pending
      /\ reader' = reader /\ docType' = docType /\ pieces' = pieces /\ lastFig' = lastFig
      /\ fence' = fence /\ heads' = heads
  BY DEF FinishBlocks, Reading, PInv, Return
<1>1. /\ pieces \in Seq(Piece) /\ Len(pieces) <= MaxPieces /\ Len(pieces) \in Nat
      /\ nodes \in Seq(NodeSet) /\ Len(nodes) \in Nat /\ Flat(nodes) /\ FiniteHolds(nodes)
  BY <1>0 DEF PInv, Built, Typed
<1>2. SUFFICES /\ nodes' \in Seq(NodeSet) /\ Flat(nodes') /\ Len(nodes') >= Len(nodes)
               /\ FiniteHolds(nodes')
  BY <1>0, <1>1, FlatGrown
<1>3. CASE nodes # <<>>
  BY <1>1, <1>3 DEF FinishBlocks
<1>4. CASE nodes = <<>>
  <2> DEFINE r == Node("code", {}, <<>>, 0)
  <2>1. nodes' = Append(nodes, r) /\ nodes' = <<r>>
    BY <1>4 DEF FinishBlocks
  <2>2. Bare(r, 0) /\ r.holds = {}
    <3>1. {} \in HoldSets /\ "code" \in NodeTypes /\ 0 \in Nat /\ <<>> \in Seq(Nat \X Nat)
      BY DEF HoldSets, NodeTypes
    <3> QED BY <1>0, <3>1, BareIs
  <2> HIDE DEF r
  <2>3. FiniteHolds(nodes')
    BY <2>1, <2>2, FS_EmptySet DEF FiniteHolds
  <2>4. nodes' \in Seq(NodeSet) /\ Flat(nodes') /\ Len(nodes') = Len(nodes) + 1
    <3>1. 0 \in 0..Len(nodes)
      BY <1>1
    <3> QED BY <1>1, <2>1, <2>2, <3>1, FlatGrows
  <2>5. Len(nodes') >= Len(nodes)
    BY <1>1, <2>4
  <2> QED BY <2>3, <2>4, <2>5
<1> QED BY <1>3, <1>4

\* A paragraph of plain text.
LEMMA ReadParagraphKeeps ==
    ASSUME PInv, ReadParagraph
    PROVE  PInv'
<1>0. /\ Typed /\ reader = "text" /\ Read("text") /\ "text" \in Piece
      /\ reader' = reader /\ docType' = docType /\ parsed' = parsed /\ lastFig' = lastFig
      /\ pending' = pending /\ fence' = fence /\ heads' = heads /\ parsed \in BOOLEAN
  BY DEF ReadParagraph, Reading, PInv, Typed, Piece
<1>1. /\ pieces' \in Seq(Piece) /\ Len(pieces') <= MaxPieces /\ {This} \in HoldSets
  BY <1>0, ReadIs
<1>2. /\ nodes \in Seq(NodeSet) /\ Len(nodes) \in Nat /\ Flat(nodes)
  BY <1>0 DEF PInv, Built, Typed
<1> DEFINE r == Node("paragraph", {This}, Joined(1), 0)
<1>3. nodes' = Append(nodes, r)
  BY DEF ReadParagraph
<1>4. Bare(r, 0)
  <2>1. Joined(1) \in Seq(Nat \X Nat) /\ "paragraph" \in NodeTypes /\ 0 \in Nat
    BY JoinedIs DEF NodeTypes
  <2> QED BY <1>0, <1>1, <2>1, BareIs
<1> HIDE DEF r
<1>5. nodes' \in Seq(NodeSet) /\ Flat(nodes') /\ Len(nodes') >= Len(nodes)
  BY <1>2, <1>3, <1>4, FlatGrows
<1> QED BY <1>0, <1>1, <1>5, FlatGrown

\* The end of plain text.
LEMMA FinishTextKeeps ==
    ASSUME PInv, FinishText
    PROVE  PInv'
<1>0. /\ Typed /\ reader = "text" /\ parsed' = TRUE /\ pending' = pending /\ nodes' = nodes
      /\ reader' = reader /\ docType' = docType /\ pieces' = pieces /\ lastFig' = lastFig
      /\ fence' = fence /\ heads' = heads
  BY DEF FinishText, Reading, PInv, Return
<1>1. /\ pieces \in Seq(Piece) /\ Len(pieces) <= MaxPieces
      /\ nodes \in Seq(NodeSet) /\ Len(nodes) >= Len(nodes) /\ Flat(nodes)
  BY <1>0 DEF PInv, Built, Typed
<1> QED BY <1>0, <1>1, FlatGrown

-----------------------------------------------------------------------------
(* The reader of PDFs. *)

\* A step of Kept.
WithLine(k, kept, i) == IF Suppressed(pieces[k], i) THEN kept ELSE Append(kept, i)

\* What Kept(k) is after each line.
KeptOf(F, k) ==
    /\ F \in [0..Len(pieces[k]) -> Seq(Nat)] /\ F[0] = <<>>
    /\ \A i \in 1..Len(pieces[k]) : F[i] = WithLine(k, F[i - 1], i)
    /\ Kept(k) = F[Len(pieces[k])]

\* The lines of a page are taken one by one.
LEMMA KeptSteps ==
    ASSUME NEW k, pieces[k] \in Seq({"text", "pipe", "running"})
    PROVE  \E F : KeptOf(F, k)
<1> DEFINE list == [i \in DOMAIN pieces[k] |-> i]
           n == Len(pieces[k])
           A == Nat
           step == [p \in Seq(A) \X (1..n) |-> WithLine(k, p[1], list[p[2]])]
           eq(G) == G = [s \in SUBSET (1..n) |->
                            IF s = {} THEN <<>>
                            ELSE WithLine(k, G[s \ {Max(s)}], list[Max(s)])]
           C == CHOOSE G : eq(G)
<1>1. DOMAIN list = 1..n /\ n \in Nat /\ \A i \in 1..n : list[i] = i
  OBVIOUS
<1>2. Kept(k) = C[1..n]
  BY <1>1, Zenon DEF Kept, WithLine, FoldLeft, MapThenFoldSet
<1> HIDE DEF list
<1>3. step \in [Seq(A) \X (1..n) -> Seq(A)] /\ <<>> \in Seq(A)
  <2>1. \A l \in Seq(A), i \in 1..n : WithLine(k, l, list[i]) \in Seq(A)
    BY <1>1 DEF WithLine
  <2> QED BY <2>1
<1>4. \A l \in Seq(A), i \in 1..n : step[<<l, i>>] = WithLine(k, l, list[i])
  OBVIOUS
<1>5. \E G : eq(G)
  <2> HIDE DEF step
  <2>1. PICK G \in [SUBSET (1..n) -> Seq(A)] : FoldOf(G, <<>>, step, n)
    BY <1>1, <1>3, FoldExists
  <2>2. ASSUME NEW s \in SUBSET (1..n), s # {}
        PROVE  G[s] = WithLine(k, G[s \ {Max(s)}], list[Max(s)])
    <3>1. Max(s) \in 1..n
      BY <1>1, <2>2, TopIn
    <3>2. G[s] = step[<<G[s \ {Max(s)}], Max(s)>>]
      BY <2>1, <2>2 DEF FoldOf
    <3>3. G[s \ {Max(s)}] \in Seq(A)
      OBVIOUS
    <3> QED BY <1>4, <3>1, <3>2, <3>3
  <2>3. G[{}] = <<>>
    BY <2>1 DEF FoldOf
  <2>4. eq(G)
    BY <2>2, <2>3
  <2> QED BY <2>4
<1>6. eq(C)
  <2> HIDE DEF eq
  <2> QED BY <1>5
<1> HIDE DEF C, step, n
<1>7. C[{}] = <<>>
  BY <1>6
<1>8. \A i \in 1..n : C[1..(i - 1)] \in Seq(A) =>
                         C[1..i] = step[<<C[1..(i - 1)], i>>]
  <2> SUFFICES ASSUME NEW i \in 1..n, C[1..(i - 1)] \in Seq(A)
               PROVE  C[1..i] = step[<<C[1..(i - 1)], i>>]
    OBVIOUS
  <2>1. 1..i \in SUBSET (1..n) /\ 1..i # {} /\ i \in 1..i /\ i \in Nat
    BY <1>1, Segment
  <2>2. Max(1..i) = i /\ (1..i) \ {i} = 1..(i - 1)
    BY <1>1, <2>1, TopIs, Segment
  <2>3. C[1..i] = WithLine(k, C[1..(i - 1)], list[i])
    BY <1>6, <2>1, <2>2
  <2> QED BY <1>4, <2>3
<1>9. PICK F \in [0..n -> Seq(A)] : F[n] = C[1..n] /\ Steps(F, <<>>, step, n)
  <2>1. \E F \in [0..n -> Seq(A)] : F[n] = C[1..n] /\ Steps(F, <<>>, step, n)
    BY <1>1, <1>3, <1>7, <1>8, FoldSteps, ZenonT(60)
  <2> QED BY <2>1
<1>10. F[0] = <<>>
  BY <1>9 DEF Steps
<1>11. ASSUME NEW i \in 1..n PROVE F[i] = WithLine(k, F[i - 1], i)
  <2>1. i - 1 \in 0..n
    BY <1>1
  <2>2. F[i] = step[<<F[i - 1], i>>] /\ F[i - 1] \in Seq(A)
    BY <1>9, <2>1 DEF Steps
  <2>3. step[<<F[i - 1], i>>] = WithLine(k, F[i - 1], list[i])
    BY <1>4, <2>2
  <2> QED BY <1>1, <2>2, <2>3
<1> QED BY <1>2, <1>9, <1>10, <1>11 DEF KeptOf, n

\* The lines of a page that stay are numbers.
LEMMA KeptIs ==
    ASSUME NEW k, pieces[k] \in Seq({"text", "pipe", "running"})
    PROVE  Kept(k) \in Seq(Nat)
<1>1. PICK F : KeptOf(F, k)
  BY KeptSteps
<1>2. Len(pieces[k]) \in 0..Len(pieces[k])
  OBVIOUS
<1> QED BY <1>1, <1>2 DEF KeptOf

\* The nodes of a page: a section, and paragraphs and tables under it.
LEMMA PageNodesAre ==
    ASSUME PInv, reader = "pages", NEW k \in 1..Len(pieces)
    PROVE  LET ps == PageNodes(k)
               n == Len(nodes) + 1
           IN  /\ ps \in Seq(NodeSet) /\ Len(ps) > 0 /\ ps[1].level = 1 /\ ps[1].up = 0
               /\ \A j \in 1..Len(ps) : ps[j].path = <<n>>
               /\ \A j \in 2..Len(ps) : ps[j].level = 0 /\ ps[j].up = n
<1> DEFINE n == Len(nodes) + 1
           K == Kept(k)
           section == NodeUnder(<<>>, "section", 1, {}, <<<<2, 6>>>>, k)
           s == [section EXCEPT !.path = <<n>>]
           p(i) == NodeUnder(<<n>>, "paragraph", 0, {<<k, i>>}, Joined(1), k)
           q(i) == IF pieces[k][i] = "pipe"
                   THEN [p(i) EXCEPT !.type = "table", !.data = "table"] ELSE p(i)
           ps == PageNodes(k)
<1>1. ps = <<s>> \o [j \in DOMAIN K |-> q(K[j])]
  BY Zenon DEF PageNodes
<1>2. n \in Nat /\ k \in Nat /\ pieces \in Seq(Pages) /\ pieces[k] \in Seq({"text", "pipe", "running"})
  <2>1. nodes \in Seq(NodeSet) /\ pieces \in Seq(Pages)
    BY DEF PInv, Typed, Built
  <2>2. pieces[k] \in Pages
    BY <2>1
  <2> QED BY <2>1, <2>2, ParserAssumption
<1>3. K \in Seq(Nat)
  BY <1>2, KeptIs
<1> HIDE DEF n, K
<1>4. s \in NodeSet /\ s.level = 1 /\ s.up = 0 /\ s.path = <<n>>
  <2>1. /\ section \in NodeSet /\ section.level = 1 /\ section.up = LastOf(<<>>)
        /\ section.path = <<>>
    <3> DEFINE h == {}
               t == <<<<2, 6>>>>
               l == <<>>
    <3>1. "section" \in NodeTypes /\ h \in HoldSets /\ l \in Seq(Nat) /\ 1 \in Nat
      BY DEF NodeTypes, HoldSets
    <3>2. t \in Seq(Nat \X Nat)
      OBVIOUS
    <3> HIDE DEF h, t, l
    <3>3. LET r == NodeUnder(l, "section", 1, h, t, k)
          IN  r \in NodeSet /\ r.level = 1 /\ r.path = l /\ r.up = LastOf(l)
      BY <1>2, <3>1, <3>2, NodeUnderIs
    <3> QED BY <3>3 DEF h, t, l
  <2> HIDE DEF section
  <2>2. <<n>> \in Seq(Nat)
    BY <1>2
  <2>3. LastOf(<<>>) = 0
    BY NoNodes
  <2> QED BY <2>1, <2>2, <2>3 DEF NodeSet
<1>5. ASSUME NEW i \in Nat
      PROVE  q(i) \in NodeSet /\ q(i).level = 0 /\ q(i).up = n /\ q(i).path = <<n>>
  <2> DEFINE h == {<<k, i>>}
             t == Joined(1)
             l == <<n>>
  <2>1. /\ h \in HoldSets /\ t \in Seq(Nat \X Nat) /\ l \in Seq(Nat)
        /\ "paragraph" \in NodeTypes /\ 0 \in Nat
    <3>1. <<k, i>> \in Nat \X Nat
      BY <1>2
    <3>2. h \in HoldSets
      BY <3>1 DEF HoldSets
    <3>3. t \in Seq(Nat \X Nat)
      BY JoinedIs
    <3>4. l \in Seq(Nat)
      BY <1>2
    <3> QED BY <3>2, <3>3, <3>4 DEF NodeTypes
  <2>2. LastOf(l) = n
    BY DEF LastOf, Last
  <2> HIDE DEF h, t, l
  <2>3. LET r == NodeUnder(l, "paragraph", 0, h, t, k)
        IN  r \in NodeSet /\ r.level = 0 /\ r.path = l /\ r.up = LastOf(l)
    BY <1>2, <2>1, NodeUnderIs
  <2>4. p(i) = NodeUnder(l, "paragraph", 0, h, t, k)
    BY DEF h, t, l
  <2>5. p(i) \in NodeSet /\ p(i).level = 0 /\ p(i).up = n /\ p(i).path = l
    BY <2>2, <2>3, <2>4
  <2> HIDE DEF p
  <2> DEFINE r == [p(i) EXCEPT !.type = "table"]
  <2>6. r \in NodeSet /\ r.level = 0 /\ r.up = n /\ r.path = l
    <3>1. "table" \in NodeTypes
      BY DEF NodeTypes
    <3> QED BY <2>5, <3>1 DEF NodeSet
  <2> HIDE DEF r
  <2>7. LET u == [r EXCEPT !.data = "table"]
        IN  u \in NodeSet /\ u.level = 0 /\ u.up = n /\ u.path = l
    BY <2>6 DEF NodeSet
  <2>8. q(i) = p(i) \/ q(i) = [r EXCEPT !.data = "table"]
    BY Zenon DEF r
  <2> HIDE DEF q
  <2> QED BY <2>5, <2>7, <2>8 DEF l
<1> HIDE DEF s, q
<1> DEFINE rest == [j \in DOMAIN K |-> q(K[j])]
<1>6. rest \in Seq(NodeSet) /\ \A j \in 1..Len(rest) : rest[j] = q(K[j]) /\ K[j] \in Nat
  <2>1. DOMAIN K = 1..Len(K) /\ Len(K) \in Nat /\ \A j \in 1..Len(K) : K[j] \in Nat
    BY <1>3
  <2>2. \A j \in 1..Len(K) : q(K[j]) \in NodeSet
    BY <1>5, <2>1
  <2> QED BY <2>1, <2>2
<1> HIDE DEF rest
<1>7. ps = <<s>> \o rest
  BY <1>1 DEF rest
<1>8. <<s>> \in Seq(NodeSet) /\ Len(<<s>>) = 1 /\ <<s>>[1] = s
  BY <1>4
<1>9. /\ ps \in Seq(NodeSet) /\ Len(ps) = 1 + Len(rest) /\ Len(rest) \in Nat
      /\ ps[1] = s /\ \A j \in 2..Len(ps) : j - 1 \in 1..Len(rest) /\ ps[j] = rest[j - 1]
  BY <1>6, <1>7, <1>8
<1> HIDE DEF ps
<1>10. \A j \in 2..Len(ps) : ps[j].level = 0 /\ ps[j].up = n /\ ps[j].path = <<n>>
  BY <1>5, <1>6, <1>9, SMTT(60)
<1>11. \A j \in 1..Len(ps) : j = 1 \/ j \in 2..Len(ps)
  BY <1>9
<1>12. \A j \in 1..Len(ps) : ps[j].path = <<n>>
  BY <1>4, <1>9, <1>10, <1>11
<1>13. Len(ps) > 0
  BY <1>9
<1> QED BY <1>4, <1>9, <1>10, <1>12, <1>13 DEF ps, n

\* The reader of PDFs begins with no nodes.
LEMMA PdfGrown ==
    ASSUME PInv, reader = "pdf", reader' \in {"pdf", "pages", "failed"},
           docType' = docType, heads' = heads, lastFig' = lastFig, nodes' = nodes,
           fence' = fence, parsed' = parsed, pieces' \in Seq(Pages), pieces' \in Seq(Piece),
           Len(pieces') <= MaxPieces, pending' \in Seq(Nat),
           reader' = "pages" => \A j \in 1..Len(pending') : pending'[j] \in 1..Len(pieces')
    PROVE  PInv'
<1>1. heads' = <<>> /\ nodes' = <<>> /\ docType # "none"
  BY DEF PInv, Built
<1>2. Typed'
  BY DEF PInv, Typed, Readers
<1>3. Tree(nodes')
  BY <1>1, NoNodes
<1>4. \A n \in 1..Len(nodes') : nodes'[n].level <= 1
  BY <1>1
<1>5. Built'
  BY <1>1, <1>3, <1>4 DEF Built
<1> QED BY <1>2, <1>5 DEF PInv

\* A page.
LEMMA ReadPageKeeps ==
    ASSUME PInv, NEW page \in Pages, ReadPage(page)
    PROVE  PInv'
<1>1. /\ reader = "pdf" /\ Read(page) /\ reader' = reader /\ docType' = docType
      /\ heads' = heads /\ lastFig' = lastFig /\ nodes' = nodes /\ fence' = fence
      /\ parsed' = parsed /\ pending' = pending
  BY DEF ReadPage, Reading
<1>2. Typed /\ page \in Piece /\ pending \in Seq(Nat)
  BY DEF PInv, Typed, Piece
<1>3. /\ pieces' \in Seq(Piece) /\ Len(pieces') <= MaxPieces
      /\ pieces' = Append(pieces, page)
  BY <1>1, <1>2, ReadIs
<1>4. pieces \in Seq(Pages)
  BY <1>1 DEF PInv, Built
<1>5. pieces' \in Seq(Pages)
  BY <1>3, <1>4
<1> QED BY <1>1, <1>2, <1>3, <1>5, PdfGrown

\* The PDF has been read, or cannot be.
LEMMA PagesReadKeep ==
    ASSUME PInv, FinishPages \/ PdfFails
    PROVE  PInv'
<1>1. /\ reader = "pdf" /\ docType' = docType /\ pieces' = pieces
      /\ heads' = heads /\ lastFig' = lastFig /\ nodes' = nodes /\ fence' = fence
      /\ parsed' = parsed
  BY DEF FinishPages, PdfFails, Reading
<1>2. /\ pieces \in Seq(Pages) /\ pieces \in Seq(Piece) /\ Len(pieces) <= MaxPieces
      /\ pending \in Seq(Nat)
  BY <1>1 DEF PInv, Built, Typed
<1>3. CASE FinishPages
  <2>1. reader' = "pages" /\ pending' = [k \in DOMAIN pieces |-> k]
    BY <1>3 DEF FinishPages
  <2>2. DOMAIN pieces = 1..Len(pieces) /\ Len(pieces) \in Nat
    BY <1>2
  <2>3. pending' \in Seq(Nat) /\ \A j \in 1..Len(pending') : pending'[j] \in 1..Len(pieces)
    BY <2>1, <2>2
  <2> QED BY <1>1, <1>2, <2>1, <2>3, PdfGrown
<1>4. CASE PdfFails
  <2>1. reader' = "failed" /\ pending' = pending
    BY <1>4 DEF PdfFails
  <2> QED BY <1>1, <1>2, <2>1, PdfGrown
<1> QED BY <1>3, <1>4

\* What remains of the pages to build.
LEMMA PagesGrown ==
    ASSUME PInv, reader = "pages", reader' = reader,
           docType' = docType, heads' = heads, lastFig' = lastFig, fence' = fence,
           parsed' \in BOOLEAN, pieces' = pieces, pending' \in Seq(Nat),
           \A j \in 1..Len(pending') : pending'[j] \in 1..Len(pieces),
           nodes' \in Seq(NodeSet), Tree(nodes'), Len(nodes') >= Len(nodes),
           \A n \in 1..Len(nodes') : nodes'[n].level <= 1
    PROVE  PInv'
<1>1. heads = <<>> /\ docType # "none" /\ pieces \in Seq(Pages)
  BY DEF PInv, Built
<1>2. lastFig' \in 0..Len(nodes')
  BY DEF PInv, Typed
<1>3. Typed'
  BY <1>2 DEF PInv, Typed
<1>4. Built'
  BY <1>1 DEF Built
<1> QED BY <1>3, <1>4 DEF PInv

\* A page becomes a section.
LEMMA BuildPageKeeps ==
    ASSUME PInv, BuildPage
    PROVE  PInv'
<1>1. /\ reader = "pages" /\ reader' = reader /\ docType' = docType /\ heads' = heads
      /\ lastFig' = lastFig /\ fence' = fence /\ parsed' = parsed /\ pieces' = pieces
      /\ pending # <<>> /\ pending' = Tail(pending)
  BY DEF BuildPage, Reading
<1>2. /\ pending \in Seq(Nat) /\ \A j \in 1..Len(pending) : pending[j] \in 1..Len(pieces)
      /\ nodes \in Seq(NodeSet) /\ Len(nodes) \in Nat /\ Tree(nodes) /\ parsed \in BOOLEAN
      /\ \A n \in 1..Len(nodes) : nodes[n].level <= 1
  BY <1>1 DEF PInv, Typed, Built
<1>3. /\ pending' \in Seq(Nat)
      /\ \A j \in 1..Len(pending') : pending'[j] \in 1..Len(pieces)
  <2>1. pending' \in Seq(Nat) /\ Len(pending') = Len(pending) - 1 /\ Len(pending) \in Nat
        /\ \A j \in 1..Len(pending') : pending'[j] = pending[j + 1]
    BY <1>1, <1>2
  <2>2. \A j \in 1..Len(pending') : j + 1 \in 1..Len(pending)
    BY <2>1
  <2> QED BY <1>2, <2>1, <2>2
<1> DEFINE k == Head(pending)
<1>4. k \in 1..Len(pieces)
  <2>1. 1 \in 1..Len(pending) /\ k = pending[1]
    BY <1>1, <1>2
  <2> QED BY <1>2, <2>1
<1> HIDE DEF k
<1>5. CASE nodes' = nodes
  <2>1. Len(nodes') >= Len(nodes)
    BY <1>2, <1>5
  <2> QED BY <1>1, <1>2, <1>3, <1>5, <2>1, PagesGrown
<1>6. CASE nodes' = nodes \o PageNodes(k)
  <2> DEFINE ps == PageNodes(k)
  <2>1. /\ ps \in Seq(NodeSet) /\ Len(ps) > 0 /\ ps[1].level = 1 /\ ps[1].up = 0
        /\ \A j \in 1..Len(ps) : ps[j].path = <<Len(nodes) + 1>>
        /\ \A j \in 2..Len(ps) : ps[j].level = 0 /\ ps[j].up = Len(nodes) + 1
    BY <1>1, <1>4, PageNodesAre
  <2>2. nodes' = nodes \o ps
    BY <1>6
  <2> HIDE DEF ps
  <2>3. /\ nodes \o ps \in Seq(NodeSet) /\ Tree(nodes \o ps)
        /\ \A n \in 1..Len(nodes \o ps) : (nodes \o ps)[n].level <= 1
    BY <1>2, <2>1, AppendPage
  <2>4. Len(nodes \o ps) = Len(nodes) + Len(ps)
    BY <1>2, <2>1
  <2>5. Len(nodes') >= Len(nodes)
    BY <1>2, <2>1, <2>2, <2>4
  <2> QED BY <1>1, <1>2, <1>3, <2>2, <2>3, <2>5, PagesGrown
<1> QED BY <1>5, <1>6 DEF BuildPage, k

\* The last page is built.
LEMMA FinishPdfKeeps ==
    ASSUME PInv, FinishPdf
    PROVE  PInv'
<1>1. /\ reader = "pages" /\ reader' = reader /\ docType' = docType /\ heads' = heads
      /\ lastFig' = lastFig /\ fence' = fence /\ parsed' = TRUE /\ pieces' = pieces
      /\ pending' = pending
  BY DEF FinishPdf, Reading, Return
<1>2. /\ pending \in Seq(Nat) /\ \A j \in 1..Len(pending) : pending[j] \in 1..Len(pieces)
      /\ nodes \in Seq(NodeSet) /\ Len(nodes) \in Nat /\ Tree(nodes)
      /\ \A n \in 1..Len(nodes) : nodes[n].level <= 1
  BY <1>1 DEF PInv, Typed, Built
<1>3. CASE nodes # <<>>
  <2>1. nodes' = nodes
    BY <1>3 DEF FinishPdf
  <2>2. Len(nodes') >= Len(nodes)
    BY <1>2, <2>1
  <2> QED BY <1>1, <1>2, <2>1, <2>2, PagesGrown
<1>4. CASE nodes = <<>>
  <2> DEFINE h == {}
             t == <<<<3, 20>>>>
             r == Node("paragraph", h, t, 1)
  <2>1. nodes' = <<r>>
    BY <1>4 DEF FinishPdf
  <2>2. h \in HoldSets /\ t \in Seq(Nat \X Nat) /\ "paragraph" \in NodeTypes /\ 1 \in Nat
    <3>1. t \in Seq(Nat \X Nat)
      OBVIOUS
    <3> QED BY <3>1 DEF HoldSets, NodeTypes
  <2> HIDE DEF h, t
  <2>3. Bare(r, 0)
    BY <1>1, <2>2, BareIs
  <2> HIDE DEF r
  <2>4. r \in NodeSet /\ r.level = 0 /\ r.path = <<>> /\ r.up = LastOf(<<>>)
    BY <2>3, NoNodes DEF Bare
  <2>5. nodes' = Append(<<>>, r)
    BY <2>1
  <2>6. Tree(nodes')
    BY <2>4, <2>5, NoNodes, AppendPlain
  <2>7. nodes' \in Seq(NodeSet) /\ Len(nodes') = 1 /\ nodes'[1] = r
    BY <2>1, <2>4
  <2>8. Len(nodes') >= Len(nodes) /\ \A n \in 1..Len(nodes') : nodes'[n].level <= 1
    <3>1. Len(nodes) = 0
      BY <1>4
    <3>2. \A n \in 1..1 : nodes'[n] = r
      BY <2>7
    <3> QED BY <2>4, <2>7, <3>1, <3>2
  <2> QED BY <1>1, <1>2, <2>6, <2>7, <2>8, PagesGrown
<1> QED BY <1>3, <1>4

-----------------------------------------------------------------------------
(* The invariant of the parser, and the headings of a document. *)

\* Nothing is read at first.
LEMMA ParserBegins ==
    ASSUME Init
    PROVE  PInv
<1>1. /\ docType = "none" /\ reader = "none" /\ parsed = FALSE
      /\ pieces = <<>> /\ pending = <<>> /\ fence = <<>>
      /\ nodes = <<>> /\ heads = <<>> /\ lastFig = 0
  BY DEF Init, ParserInit
<1>2. Len(pieces) = 0 /\ Len(nodes) = 0 /\ MaxPieces \in Nat
  BY <1>1, ParserAssumption
<1>3. Typed
  <2>1. Len(pieces) <= MaxPieces /\ lastFig \in 0..Len(nodes)
    BY <1>1, <1>2
  <2>2. /\ pieces \in Seq(Piece) /\ pending \in Seq(Nat) /\ fence \in Seq(Nat)
        /\ nodes \in Seq(NodeSet) /\ heads \in Seq(Nat)
    BY <1>1
  <2>3. docType \in DocTypes \cup {"none"} /\ reader \in Readers /\ parsed \in BOOLEAN
    BY <1>1 DEF Readers
  <2> QED BY <2>1, <2>2, <2>3 DEF Typed
<1> QED BY <1>1, <1>3 DEF PInv, Built

\* A step of the chunker leaves the document alone.
LEMMA ParserRests ==
    ASSUME PInv, UNCHANGED parserVars
    PROVE  PInv'
<1>1. /\ docType' = docType /\ reader' = reader /\ parsed' = parsed /\ pieces' = pieces
      /\ pending' = pending /\ fence' = fence /\ nodes' = nodes /\ heads' = heads
      /\ lastFig' = lastFig
  BY DEF parserVars
<1>2. Typed'
  BY <1>1 DEF PInv, Typed
<1>3. Built'
  BY <1>1 DEF PInv, Built
<1> QED BY <1>2, <1>3 DEF PInv

\* The parser keeps what it has built.
LEMMA ParserKeeps ==
    ASSUME PInv, [Next]_vars
    PROVE  PInv'
<1>1. CASE UNCHANGED vars
  BY <1>1, ParserRests DEF vars
<1>2. CASE Chunk
  BY <1>2, ParserRests DEF Chunk
<1>3. CASE ParserNext
  <2>1. CASE \E t \in DocTypes : ParseTree(t)
    BY <2>1, ParseTreeKeeps
  <2>2. CASE \E item \in Items : ReadItem(item)
    BY <2>2, ReadItemKeeps
  <2>3. CASE \E line \in Lines : ReadLine(line)
    BY <2>3, ReadLineKeeps
  <2>4. CASE \E s \in Statements : ReadStatement(s) \/ ReadBlockLine(s)
    BY <2>4, ReadStatementKeeps, ReadBlockLineKeeps
  <2>5. CASE \E page \in Pages : ReadPage(page)
    BY <2>5, ReadPageKeeps
  <2>6. CASE ReadParagraph \/ BuildPage
    BY <2>6, ReadParagraphKeeps, BuildPageKeeps
  <2>7. CASE FallBack \/ PdfFails \/ FinishPages
    BY <2>7, FallBackKeeps, PagesReadKeep
  <2>8. CASE FinishDocling \/ FinishMarkdown \/ FinishCode \/ FinishBlocks
    BY <2>8, FinishDoclingKeeps, FinishMarkdownKeeps, FinishCodeKeeps, FinishBlocksKeeps
  <2>9. CASE FinishPdf \/ FinishText
    BY <2>9, FinishPdfKeeps, FinishTextKeeps
  <2> QED BY <1>3, <2>1, <2>2, <2>3, <2>4, <2>5, <2>6, <2>7, <2>8, <2>9, Zenon DEF ParserNext
<1> QED BY <1>1, <1>2, <1>3, Zenon DEF Next, Parse

\* Whatever a document holds and whichever reader takes over, the parser's
\* invariant holds: Docling's and the markdown reader's stack are the headings
\* that are open behind the last node.
THEOREM ParserInvariant == Spec => []PInv
<1>1. Init => PInv
  BY ParserBegins
<1>2. PInv /\ [Next]_vars => PInv'
  BY ParserKeeps
<1> QED BY <1>1, <1>2, PTL DEF Spec

\* That every node hangs under the nearest heading that encloses it, and that
\* its path names all of them, follows.
LEMMA TreeIsHeadingTree ==
    ASSUME PInv
    PROVE  HeadingTree
<1>1. SUFFICES ASSUME reader \in {"docling", "markdown", "pages"}, NEW n \in DOMAIN nodes
      PROVE  LET around == {h \in DOMAIN nodes : Encloses(h, n)}
                 path == IF IsHeading(n) THEN around \cup {n} ELSE around
             IN  /\ nodes[n].up = Max(around \cup {0})
                 /\ ToSet(nodes[n].path) = path
                 /\ \A i, j \in DOMAIN nodes[n].path :
                      i < j => nodes[n].path[i] < nodes[n].path[j]
  BY Zenon DEF HeadingTree
<1>2. Tree(nodes)
  BY <1>1 DEF PInv, Built
<1>3. Hangs(nodes, n)
  BY <1>1, <1>2 DEF Tree
<1>4. {h \in DOMAIN nodes : Encloses(h, n)} = Around(nodes, n)
  BY DEF Encloses, IsHeading, Around, EnclosesIn
<1> QED BY <1>3, <1>4, Zenon DEF Hangs, Rising, IsHeading

\* A node hangs under the nearest heading that encloses it and its section
\* path names all of them from the outside in, in any document.
THEOREM HeadingTreeHolds == Spec => []HeadingTree
<1>1. PInv => HeadingTree
  BY TreeIsHeadingTree
<1> QED BY <1>1, ParserInvariant, PTL

-----------------------------------------------------------------------------
(* Lengths of texts. *)

\* The sums of the first elements of a list of numbers.
SumsOf(F, s) ==
    /\ F \in [0..Len(s) -> Nat] /\ F[0] = 0
    /\ \A i \in 1..Len(s) : F[i] = F[i - 1] + s[i]

\* The total is the last of them.
LEMMA TotalIs ==
    ASSUME NEW s \in Seq(Nat)
    PROVE  \E F : SumsOf(F, s) /\ Total(s) = F[Len(s)]
<1> DEFINE n == Len(s)
           step == [p \in Nat \X (1..n) |-> p[1] + s[p[2]]]
           eq(G) == G = [t \in SUBSET (1..n) |->
                            IF t = {} THEN 0 ELSE G[t \ {Max(t)}] + s[Max(t)]]
           C == CHOOSE G : eq(G)
<1>1. DOMAIN s = 1..n /\ n \in Nat /\ \A i \in 1..n : s[i] \in Nat
  OBVIOUS
<1>2. Total(s) = C[1..n]
  BY <1>1, Zenon DEF Total, FoldLeft, MapThenFoldSet
<1>3. step \in [Nat \X (1..n) -> Nat] /\ 0 \in Nat
  <2>1. \A l \in Nat, i \in 1..n : l + s[i] \in Nat
    BY <1>1
  <2> QED BY <2>1
<1>4. \A l \in Nat, i \in 1..n : step[<<l, i>>] = l + s[i]
  OBVIOUS
<1>5. \E G : eq(G)
  <2> HIDE DEF step
  <2>1. PICK G \in [SUBSET (1..n) -> Nat] : FoldOf(G, 0, step, n)
    BY <1>1, <1>3, FoldExists
  <2>2. ASSUME NEW t \in SUBSET (1..n), t # {}
        PROVE  G[t] = G[t \ {Max(t)}] + s[Max(t)]
    <3>1. Max(t) \in 1..n
      BY <1>1, <2>2, TopIn
    <3>2. G[t] = step[<<G[t \ {Max(t)}], Max(t)>>]
      BY <2>1, <2>2 DEF FoldOf
    <3>3. G[t \ {Max(t)}] \in Nat
      OBVIOUS
    <3> QED BY <1>4, <3>1, <3>2, <3>3
  <2>3. G[{}] = 0
    BY <2>1 DEF FoldOf
  <2>4. eq(G)
    BY <2>2, <2>3
  <2> QED BY <2>4
<1>6. eq(C)
  <2> HIDE DEF eq
  <2> QED BY <1>5
<1> HIDE DEF C, step, n
<1>7. C[{}] = 0
  BY <1>6
<1>8. \A i \in 1..n : C[1..(i - 1)] \in Nat => C[1..i] = step[<<C[1..(i - 1)], i>>]
  <2> SUFFICES ASSUME NEW i \in 1..n, C[1..(i - 1)] \in Nat
               PROVE  C[1..i] = step[<<C[1..(i - 1)], i>>]
    OBVIOUS
  <2>1. 1..i \in SUBSET (1..n) /\ 1..i # {} /\ i \in 1..i /\ i \in Nat
    BY <1>1, Segment
  <2>2. Max(1..i) = i /\ (1..i) \ {i} = 1..(i - 1)
    BY <1>1, <2>1, TopIs, Segment
  <2>3. C[1..i] = C[1..(i - 1)] + s[i]
    BY <1>6, <2>1, <2>2
  <2> QED BY <1>4, <2>3
<1>9. PICK F \in [0..n -> Nat] : F[n] = C[1..n] /\ Steps(F, 0, step, n)
  <2> DEFINE zero == 0
             A == Nat
  <2>1. n \in Nat /\ step \in [A \X (1..n) -> A] /\ zero \in A /\ C[{}] = zero
    BY <1>1, <1>3, <1>7
  <2>2. \A i \in 1..n : C[1..(i - 1)] \in A => C[1..i] = step[<<C[1..(i - 1)], i>>]
    BY <1>8
  <2> HIDE DEF zero, A
  <2>3. \E F \in [0..n -> A] : F[n] = C[1..n] /\ Steps(F, zero, step, n)
    BY <2>1, <2>2, FoldSteps, ZenonT(60)
  <2> QED BY <2>3 DEF zero, A
<1>10. \A i \in 1..n : F[i] = F[i - 1] + s[i]
  <2>1. \A i \in 1..n : F[i - 1] \in Nat
    BY <1>1
  <2> QED BY <1>4, <1>9, <2>1 DEF Steps
<1>11. SumsOf(F, s)
  BY <1>9, <1>10 DEF SumsOf, Steps, n
<1> QED BY <1>2, <1>9, <1>11 DEF n

\* A total is a number, and nothing adds up to nothing.
LEMMA TotalTyped ==
    ASSUME NEW s \in Seq(Nat)
    PROVE  Total(s) \in Nat /\ (s = <<>> => Total(s) = 0)
<1>1. PICK F : SumsOf(F, s) /\ Total(s) = F[Len(s)]
  BY TotalIs
<1>2. Len(s) \in Nat /\ Len(s) \in 0..Len(s) /\ (s = <<>> => Len(s) = 0)
  OBVIOUS
<1> QED BY <1>1, <1>2 DEF SumsOf

\* The greater of two numbers.
LEMMA MaxOfTwo ==
    ASSUME NEW a \in Int, NEW b \in Int
    PROVE  /\ Max({a, b}) \in {a, b} /\ Max({a, b}) >= a /\ Max({a, b}) >= b
<1>1. CASE a >= b
  <2>1. a \in {a, b} /\ \A y \in {a, b} : a >= y
    BY <1>1
  <2> QED BY <2>1 DEF Max
<1>2. CASE b >= a
  <2>1. b \in {a, b} /\ \A y \in {a, b} : b >= y
    BY <1>2
  <2> QED BY <2>1 DEF Max
<1> QED BY <1>1, <1>2

\* The lesser of two numbers.
LEMMA MinOfTwo ==
    ASSUME NEW a \in Int, NEW b \in Int
    PROVE  /\ Min({a, b}) \in {a, b} /\ Min({a, b}) <= a /\ Min({a, b}) <= b
<1>1. CASE a <= b
  <2>1. a \in {a, b} /\ \A y \in {a, b} : a <= y
    BY <1>1
  <2> QED BY <2>1 DEF Min
<1>2. CASE b <= a
  <2>1. b \in {a, b} /\ \A y \in {a, b} : b <= y
    BY <1>2
  <2> QED BY <2>1 DEF Min
<1> QED BY <1>1, <1>2

\* Tokens are words, or four characters each.
LEMMA TokensIs ==
    ASSUME NEW w \in Nat, NEW c \in Nat
    PROVE  /\ Tokens(w, c) \in Nat /\ Tokens(w, c) >= w /\ Tokens(w, c) >= c \div 4
           /\ Tokens(w, c) = w \/ Tokens(w, c) = c \div 4
<1>1. c \div 4 \in Nat
  OBVIOUS
<1> DEFINE q == c \div 4
<1> HIDE DEF q
<1>2. w \in Int /\ q \in Int /\ q \in Nat
  BY <1>1 DEF q
<1>3. Max({w, q}) \in {w, q} /\ Max({w, q}) >= w /\ Max({w, q}) >= q
  BY <1>2, MaxOfTwo
<1>4. Tokens(w, c) = Max({w, q})
  BY DEF Tokens, q
<1>5. Max({w, q}) = w \/ Max({w, q}) = q
  BY <1>3
<1> QED BY <1>2, <1>3, <1>4, <1>5 DEF q

\* The length of a text.
LEMMA TextIs ==
    ASSUME NEW text \in Seq(Nat \X Nat)
    PROVE  /\ Words(text) \in Nat /\ Chars(text) \in Nat /\ Length(text) \in Nat
           /\ TokensOf(text) \in Nat
           /\ text = <<>> => Words(text) = 0 /\ TokensOf(text) = 0
<1>1. /\ DOMAIN text = 1..Len(text) /\ Len(text) \in Nat
      /\ \A i \in 1..Len(text) : text[i] \in Nat \X Nat
  OBVIOUS
<1>2. \A i \in 1..Len(text) : text[i][1] \in Nat /\ text[i][2] \in Nat
  BY <1>1
<1> DEFINE ws == [i \in DOMAIN text |-> text[i][1]]
           cs == [i \in DOMAIN text |-> text[i][2]]
<1>3. ws \in Seq(Nat) /\ cs \in Seq(Nat) /\ (text = <<>> => ws = <<>>)
  BY <1>1, <1>2
<1>4. Words(text) = Total(ws) /\ Chars(text) = Total(cs)
  BY DEF Words, Chars
<1> HIDE DEF ws, cs
<1>5. /\ Words(text) \in Nat /\ Chars(text) \in Nat /\ (text = <<>> => Words(text) = 0)
  BY <1>3, <1>4, TotalTyped
<1>6. Length(text) \in Nat /\ (text = <<>> => Length(text) = 0)
  <2>1. CASE text = <<>>
    BY <2>1 DEF Length
  <2>2. CASE text # <<>>
    <3>1. Len(text) >= 1
      BY <1>1, <2>2
    <3>2. Length(text) = Chars(text) + Len(text) - 1
      BY <2>2 DEF Length
    <3> QED BY <1>1, <1>5, <2>2, <3>1, <3>2
  <2> QED BY <2>1, <2>2
<1>7. TokensOf(text) \in Nat
  BY <1>5, <1>6, TokensIs DEF TokensOf
<1>8. text = <<>> => TokensOf(text) = 0
  <2>1. SUFFICES ASSUME text = <<>> PROVE TokensOf(text) = 0
    OBVIOUS
  <2>2. TokensOf(text) = Tokens(0, 0)
    BY <1>5, <1>6, <2>1, Zenon DEF TokensOf
  <2> QED BY <2>2, TokensIs
<1> QED BY <1>5, <1>6, <1>7, <1>8

-----------------------------------------------------------------------------
(* Lists of lists. *)

\* The first lists of s, one after the other.
JoinsOf(A, F, s) ==
    /\ F \in [0..Len(s) -> Seq(A)] /\ F[0] = <<>>
    /\ \A i \in 1..Len(s) : F[i] = F[i - 1] \o s[i]

\* FlattenSeq is the last of them.
LEMMA FlattenIs ==
    ASSUME NEW A, NEW s \in Seq(Seq(A))
    PROVE  \E F : JoinsOf(A, F, s) /\ FlattenSeq(s) = F[Len(s)]
<1> DEFINE n == Len(s)
           step == [p \in Seq(A) \X (1..n) |-> p[1] \o s[p[2]]]
           eq(f) == f = [i \in 1..n |-> IF i = 1 THEN s[i] ELSE f[i - 1] \o s[i]]
           c == CHOOSE f : eq(f)
<1>1. n \in Nat /\ (\A i \in 1..n : s[i] \in Seq(A)) /\ <<>> \in Seq(A)
  OBVIOUS
<1>2. CASE n = 0
  <2>1. s = <<>> /\ FlattenSeq(s) = <<>>
    BY <1>2 DEF FlattenSeq
  <2> DEFINE F == [i \in 0..0 |-> <<>>]
  <2>2. JoinsOf(A, F, s)
    BY <1>2 DEF JoinsOf
  <2>3. F[0] = <<>>
    OBVIOUS
  <2> QED BY <1>2, <2>1, <2>2, <2>3
<1>3. CASE n # 0
  <2>1. FlattenSeq(s) = c[n]
    BY <1>3, Zenon DEF FlattenSeq
  <2>2. step \in [Seq(A) \X (1..n) -> Seq(A)]
    <3>1. \A l \in Seq(A), i \in 1..n : l \o s[i] \in Seq(A)
      BY <1>1
    <3> QED BY <3>1
  <2>3. \A l \in Seq(A), i \in 1..n : step[<<l, i>>] = l \o s[i]
    OBVIOUS
  <2>4. \E f : eq(f)
    <3> HIDE DEF step, n
    <3>1. PICK G \in [SUBSET (1..n) -> Seq(A)] : FoldOf(G, <<>>, step, n)
      BY <1>1, <2>2, FoldExists
    <3> DEFINE f == [i \in 1..n |-> G[1..i]]
    <3>2. ASSUME NEW i \in 1..n
          PROVE  f[i] = IF i = 1 THEN s[i] ELSE f[i - 1] \o s[i]
      <4>1. 1..i \in SUBSET (1..n) /\ 1..i # {} /\ i \in 1..i /\ i \in Nat
        BY <1>1, Segment
      <4>2. Max(1..i) = i /\ (1..i) \ {i} = 1..(i - 1)
        BY <1>1, <4>1, TopIs, Segment
      <4>3. G[1..i] = step[<<G[1..(i - 1)], i>>]
        BY <3>1, <4>1, <4>2 DEF FoldOf
      <4>4. 1..(i - 1) \in SUBSET (1..n)
        BY <1>1
      <4>5. G[1..(i - 1)] \in Seq(A)
        BY <4>4
      <4>6. f[i] = G[1..(i - 1)] \o s[i]
        BY <2>3, <4>3, <4>5
      <4>7. CASE i = 1
        <5>1. G[1..(i - 1)] = <<>>
          <6>1. 1..(i - 1) = {}
            BY <4>7
          <6> QED BY <3>1, <4>4, <6>1 DEF FoldOf
        <5>2. <<>> \o s[i] = s[i]
          BY <1>1
        <5> QED BY <4>6, <4>7, <5>1, <5>2
      <4>8. CASE i # 1
        <5>1. i - 1 \in 1..n
          BY <1>1, <4>8
        <5>2. f[i - 1] = G[1..(i - 1)]
          BY <5>1
        <5> HIDE DEF f
        <5> QED BY <4>6, <4>8, <5>2
      <4> QED BY <4>7, <4>8
    <3>3. eq(f)
      BY <3>2
    <3> QED BY <3>3
  <2>5. eq(c)
    <3> HIDE DEF eq
    <3> QED BY <2>4
  <2> HIDE DEF c, step
  <2>6. 1 \in 1..n /\ c[1] = s[1]
    BY <1>1, <1>3, <2>5
  <2>7. \A i \in 1..n : i # 1 => c[i] = c[i - 1] \o s[i]
    BY <2>5
  <2> DEFINE S == {i \in Nat : i + 1 <= n => c[i + 1] \in Seq(A)}
  <2>8. 0 \in S
    BY <1>1, <2>6
  <2>9. ASSUME NEW i \in Nat, i \in S PROVE i + 1 \in S
    <3>1. SUFFICES ASSUME (i + 1) + 1 <= n PROVE c[(i + 1) + 1] \in Seq(A)
      OBVIOUS
    <3>2. c[i + 1] \in Seq(A) /\ (i + 1) + 1 \in 1..n /\ (i + 1) + 1 # 1
          /\ ((i + 1) + 1) - 1 = i + 1
      BY <2>9, <3>1
    <3>3. s[(i + 1) + 1] \in Seq(A) /\ c[(i + 1) + 1] = c[i + 1] \o s[(i + 1) + 1]
      BY <1>1, <2>7, <3>2
    <3> QED BY <3>2, <3>3
  <2>10. Nat \subseteq S
    <3> HIDE DEF S
    <3> QED BY <2>8, <2>9, Induction
  <2>11. \A i \in 1..n : c[i] \in Seq(A)
    <3> SUFFICES ASSUME NEW i \in 1..n PROVE c[i] \in Seq(A)
      OBVIOUS
    <3>1. i - 1 \in Nat /\ (i - 1) + 1 = i /\ (i - 1) + 1 <= n
      BY <1>1
    <3> QED BY <2>10, <3>1
  <2> DEFINE F == [i \in 0..n |-> IF i = 0 THEN <<>> ELSE c[i]]
  <2>12. F \in [0..n -> Seq(A)] /\ F[0] = <<>> /\ F[n] = c[n]
    BY <1>1, <1>3, <2>11
  <2>13. ASSUME NEW i \in 1..n PROVE F[i] = F[i - 1] \o s[i]
    <3>1. CASE i = 1
      <4>1. F[i] = s[1] /\ F[i - 1] = <<>> /\ <<>> \o s[1] = s[1]
        BY <1>1, <2>6, <3>1
      <4> QED BY <3>1, <4>1
    <3>2. CASE i # 1
      <4>1. i - 1 \in 1..n
        BY <1>1, <3>2
      <4>2. F[i] = c[i] /\ F[i - 1] = c[i - 1]
        BY <3>2, <4>1
      <4> QED BY <2>7, <3>2, <4>2
    <3> QED BY <3>1, <3>2
  <2> HIDE DEF F
  <2>14. JoinsOf(A, F, s)
    BY <2>12, <2>13 DEF JoinsOf
  <2> QED BY <2>1, <2>12, <2>14 DEF n
<1> QED BY <1>2, <1>3

\* One more list at the end.
LEMMA FlattenLonger ==
    ASSUME NEW A, NEW s \in Seq(Seq(A)), NEW t \in Seq(Seq(A)), Len(t) = Len(s) + 1,
           \A i \in 1..Len(s) : t[i] = s[i]
    PROVE  /\ FlattenSeq(s) \in Seq(A)
           /\ FlattenSeq(t) = FlattenSeq(s) \o t[Len(t)]
<1>1. PICK F : JoinsOf(A, F, s) /\ FlattenSeq(s) = F[Len(s)]
  BY FlattenIs
<1>2. PICK G : JoinsOf(A, G, t) /\ FlattenSeq(t) = G[Len(t)]
  BY FlattenIs
<1> DEFINE S == {i \in Nat : i <= Len(s) => G[i] = F[i]}
<1>3. 0 \in S
  BY <1>1, <1>2 DEF JoinsOf
<1>4. ASSUME NEW i \in Nat, i \in S PROVE i + 1 \in S
  <2>1. SUFFICES ASSUME i + 1 <= Len(s) PROVE G[i + 1] = F[i + 1]
    OBVIOUS
  <2>a. Len(s) \in Nat /\ i <= Len(s)
    <3>1. Len(s) \in Nat
      OBVIOUS
    <3> QED BY <2>1, <3>1
  <2>b. i + 1 \in 1..Len(s) /\ i + 1 \in 1..Len(t) /\ (i + 1) - 1 = i
    <3> DEFINE m == Len(s)
               l == Len(t)
    <3>1. m \in Nat /\ l = m + 1 /\ i + 1 <= m
      BY <2>1, <2>a
    <3> HIDE DEF m, l
    <3>2. i + 1 \in 1..m /\ i + 1 \in 1..l /\ (i + 1) - 1 = i
      BY <3>1
    <3> QED BY <3>2 DEF m, l
  <2>2. i + 1 \in 1..Len(s) /\ i + 1 \in 1..Len(t) /\ (i + 1) - 1 = i /\ G[i] = F[i]
    BY <1>4, <2>a, <2>b
  <2> QED BY <1>1, <1>2, <2>2 DEF JoinsOf
<1>5. Nat \subseteq S
  <2> HIDE DEF S
  <2> QED BY <1>3, <1>4, Induction
<1>6. Len(s) \in Nat /\ Len(s) \in 0..Len(s) /\ Len(t) \in 1..Len(t) /\ Len(t) - 1 = Len(s)
  OBVIOUS
<1>7. G[Len(s)] = F[Len(s)]
  BY <1>5, <1>6
<1>8. G[Len(t)] = G[Len(s)] \o t[Len(t)]
  BY <1>2, <1>6 DEF JoinsOf
<1>9. F[Len(s)] \in Seq(A)
  BY <1>1, <1>6 DEF JoinsOf
<1> QED BY <1>1, <1>2, <1>7, <1>8, <1>9

WithLast(s, x) == [s EXCEPT ![Len(s)] = Append(@, x)]

\* One more element in the last list.
LEMMA FlattenDeeper ==
    ASSUME NEW A, NEW s \in Seq(Seq(A)), NEW x \in A, s # <<>>
    PROVE  LET t == WithLast(s, x)
           IN  /\ t \in Seq(Seq(A)) /\ Len(t) = Len(s) /\ FlattenSeq(s) \in Seq(A)
               /\ FlattenSeq(t) = Append(FlattenSeq(s), x)
               /\ t[Len(s)] = Append(s[Len(s)], x)
               /\ \A i \in 1..Len(s) : i # Len(s) => t[i] = s[i]
<1> DEFINE n == Len(s)
           t == WithLast(s, x)
           p == SubSeq(s, 1, n - 1)
<1>1. n \in Nat /\ n \in 1..n /\ n - 1 \in 0..n /\ s[n] \in Seq(A)
  OBVIOUS
<1>2. Append(s[n], x) \in Seq(A)
  BY <1>1
<1>3. /\ t \in Seq(Seq(A)) /\ Len(t) = n /\ t[n] = Append(s[n], x)
      /\ \A i \in 1..n : i # n => t[i] = s[i]
  BY <1>1, <1>2 DEF WithLast
<1>4. p \in Seq(Seq(A)) /\ Len(p) = n - 1 /\ \A i \in 1..(n - 1) : p[i] = s[i]
  BY <1>1, PrefixIs
<1> HIDE DEF p
<1> HIDE DEF n
<1>a. n = Len(p) + 1 /\ \A i \in 1..(n - 1) : i \in 1..n /\ i # n
  BY <1>1, <1>4
<1>5. n = Len(p) + 1 /\ \A i \in 1..Len(p) : i \in 1..n /\ i # n /\ s[i] = p[i]
  BY <1>4, <1>a
<1>6. FlattenSeq(p) \in Seq(A) /\ FlattenSeq(s) = FlattenSeq(p) \o s[n]
  BY <1>4, <1>5, FlattenLonger DEF n
<1> HIDE DEF t
<1>7. \A i \in 1..Len(p) : t[i] = p[i]
  BY <1>3, <1>5
<1>8. FlattenSeq(t) = FlattenSeq(p) \o t[n]
  BY <1>3, <1>4, <1>5, <1>7, FlattenLonger, ZenonT(60)
<1>9. FlattenSeq(p) \o Append(s[n], x) = Append(FlattenSeq(p) \o s[n], x)
  <2> DEFINE f == FlattenSeq(p)
             e == s[n]
  <2>1. f \in Seq(A) /\ e \in Seq(A) /\ <<x>> \in Seq(A)
    BY <1>1, <1>6
  <2> HIDE DEF f, e
  <2>2. (f \o e) \o <<x>> = f \o (e \o <<x>>)
    BY <2>1, ConcatAssociative, SMTT(60)
  <2>3. e \o <<x>> = Append(e, x) /\ (f \o e) \o <<x>> = Append(f \o e, x)
    <3>1. f \o e \in Seq(A)
      BY <2>1
    <3> QED BY <2>1, <3>1
  <2> QED BY <2>2, <2>3 DEF f, e
<1>10. FlattenSeq(s) \in Seq(A)
  BY <1>1, <1>6
<1> QED BY <1>3, <1>6, <1>8, <1>9, <1>10 DEF t, n

-----------------------------------------------------------------------------
(* Lists of any kind. *)

IsSeq(s) == s \in Seq(ToSet(s))

\* A function on the first numbers is a list.
LEMMA ListIs ==
    ASSUME NEW n \in Nat, NEW f, f = [i \in 1..n |-> f[i]]
    PROVE  IsSeq(f) /\ Len(f) = n /\ DOMAIN f = 1..n
<1>1. DOMAIN f = 1..n
  OBVIOUS
<1>2. f \in [1..n -> ToSet(f)]
  BY <1>1 DEF ToSet
<1>3. f \in Seq(ToSet(f))
  BY <1>2, SeqDef
<1>4. Len(f) \in Nat /\ DOMAIN f = 1..Len(f)
  BY <1>3
<1>5. Len(f) = n
  BY <1>1, <1>4
<1> QED BY <1>1, <1>3, <1>5 DEF IsSeq

\* What a list has.
LEMMA SeqIs ==
    ASSUME NEW s, IsSeq(s)
    PROVE  /\ Len(s) \in Nat /\ DOMAIN s = 1..Len(s) /\ s \in Seq(ToSet(s))
           /\ \A x : x \in ToSet(s) <=> \E i \in 1..Len(s) : s[i] = x
<1>1. s \in Seq(ToSet(s))
  BY DEF IsSeq
<1>2. Len(s) \in Nat /\ DOMAIN s = 1..Len(s)
  BY <1>1
<1> QED BY <1>1, <1>2 DEF ToSet

\* One more element.
LEMMA AppendIs ==
    ASSUME NEW s, IsSeq(s), NEW x
    PROVE  LET t == Append(s, x)
           IN  /\ IsSeq(t) /\ Len(t) = Len(s) + 1 /\ t[Len(s) + 1] = x
               /\ \A i \in 1..Len(s) : t[i] = s[i]
               /\ ToSet(t) = ToSet(s) \cup {x}
<1> DEFINE A == ToSet(s) \cup {x}
           t == Append(s, x)
<1>1. Len(s) \in Nat /\ DOMAIN s = 1..Len(s) /\ s \in Seq(ToSet(s))
  BY SeqIs
<1>2. s \in Seq(A) /\ x \in A
  BY <1>1, SeqMonotonic
<1>3. /\ t \in Seq(A) /\ Len(t) = Len(s) + 1 /\ t[Len(s) + 1] = x
      /\ \A i \in 1..Len(s) : t[i] = s[i]
  <2> HIDE DEF A
  <2> QED BY <1>2, AppendProperties
<1> HIDE DEF t
<1>4. DOMAIN t = 1..(Len(s) + 1) /\ Len(s) + 1 \in DOMAIN t
  BY <1>1, <1>3
<1>5. \A i \in 1..Len(s) : i \in DOMAIN t
  BY <1>1, <1>4
<1>6. \A i \in DOMAIN t : i \in 1..Len(s) \/ i = Len(s) + 1
  BY <1>1, <1>4
<1>7. ToSet(t) = A
  BY <1>1, <1>3, <1>4, <1>5, <1>6 DEF ToSet
<1> QED BY <1>3, <1>7 DEF IsSeq, t

\* One list behind another.
LEMMA ConcatIs ==
    ASSUME NEW s, IsSeq(s), NEW u, IsSeq(u)
    PROVE  LET t == s \o u
           IN  /\ IsSeq(t) /\ Len(t) = Len(s) + Len(u)
               /\ \A i \in 1..Len(s) : t[i] = s[i]
               /\ \A i \in 1..Len(u) : t[Len(s) + i] = u[i]
               /\ ToSet(t) = ToSet(s) \cup ToSet(u)
<1> DEFINE A == ToSet(s) \cup ToSet(u)
           t == s \o u
<1>1. /\ Len(s) \in Nat /\ DOMAIN s = 1..Len(s) /\ s \in Seq(ToSet(s))
      /\ Len(u) \in Nat /\ DOMAIN u = 1..Len(u) /\ u \in Seq(ToSet(u))
  BY SeqIs
<1>2. s \in Seq(A) /\ u \in Seq(A)
  BY <1>1, SeqMonotonic
<1>3. /\ t \in Seq(A) /\ Len(t) = Len(s) + Len(u)
      /\ \A i \in 1..(Len(s) + Len(u)) :
             t[i] = IF i <= Len(s) THEN s[i] ELSE u[i - Len(s)]
  <2> HIDE DEF A
  <2> QED BY <1>2, ConcatProperties
<1> HIDE DEF t
<1>4. DOMAIN t = 1..(Len(s) + Len(u))
  BY <1>1, <1>3
<1>5. \A i \in 1..Len(s) : i \in DOMAIN t /\ t[i] = s[i]
  BY <1>1, <1>3, <1>4
<1>6. \A i \in 1..Len(u) : Len(s) + i \in DOMAIN t /\ t[Len(s) + i] = u[i]
  <2> SUFFICES ASSUME NEW i \in 1..Len(u)
               PROVE  Len(s) + i \in DOMAIN t /\ t[Len(s) + i] = u[i]
    OBVIOUS
  <2>1. /\ Len(s) + i \in 1..(Len(s) + Len(u)) /\ ~(Len(s) + i <= Len(s))
        /\ (Len(s) + i) - Len(s) = i
    BY <1>1
  <2> QED BY <1>3, <1>4, <2>1
<1>7. \A i \in DOMAIN t : \/ i \in 1..Len(s) /\ t[i] = s[i]
                          \/ \E j \in 1..Len(u) : t[i] = u[j]
  <2> SUFFICES ASSUME NEW i \in DOMAIN t, i \notin 1..Len(s)
               PROVE  \E j \in 1..Len(u) : t[i] = u[j]
    BY <1>5
  <2>1. i - Len(s) \in 1..Len(u) /\ ~(i <= Len(s))
    BY <1>1, <1>4
  <2> QED BY <1>3, <1>4, <2>1
<1>8. ToSet(t) = A
  <2>1. \A x \in ToSet(t) : x \in A
    BY <1>1, <1>7 DEF ToSet
  <2>2. \A x \in A : x \in ToSet(t)
    BY <1>1, <1>5, <1>6 DEF ToSet
  <2> QED BY <2>1, <2>2
<1> QED BY <1>3, <1>5, <1>6, <1>8 DEF IsSeq, t

-----------------------------------------------------------------------------
(* The invariant of the chunker. *)

Staged ==
    /\ stage \in {"wait", "group", "parent", "split", "done"}
    /\ at \in Nat /\ at > 0 /\ groupTok \in Nat
    /\ stage = "wait" => at = 1 /\ groups = <<>> /\ groupTok = 0
    /\ stage # "wait" => parsed
    /\ stage \in {"wait", "group"} => /\ parents = <<>> /\ children = <<>> /\ buffer = <<>>
                                      /\ bufferTok = 0 /\ span = <<0, 0>>
    /\ nodes = <<>> => stage \in {"wait", "done"}

\* The groups cut the nodes into consecutive runs, none of them empty.
Grouped ==
    /\ groups \in Seq(Seq(Nat))
    /\ FlattenSeq(groups) = [n \in 1..Len(FlattenSeq(groups)) |-> n]
    /\ Len(FlattenSeq(groups)) = IF stage = "wait" THEN 0
                                 ELSE IF stage = "group" THEN at - 1 ELSE Len(nodes)
    /\ stage = "group" => at <= Len(nodes) + 1
    /\ \A i \in 1..Len(groups) : groups[i] # <<>> /\ ToSet(groups[i]) \subseteq DOMAIN nodes

\* Every parent holds the nodes of its group.
Parented ==
    /\ IsSeq(parents)
    /\ \A i \in 1..Len(parents) : /\ parents[i].nodes \in Seq(Nat)
                                  /\ ToSet(parents[i].nodes) \subseteq DOMAIN nodes
    /\ nodes # <<>> => /\ Len(parents) <= Len(groups)
                       /\ \A i \in 1..Len(parents) : parents[i].nodes = groups[i]
    /\ stage = "split" => Len(parents) > 0

\* What a child names is there.
Named(c) ==
    /\ c.parent \in 1..Len(parents) /\ c.nodes \in Seq(Nat)
    /\ ToSet(c.nodes) \subseteq DOMAIN nodes

Chunked == IsSeq(children) /\ \A c \in ToSet(children) : Named(c)

\* The buffer holds nodes that have been passed, and no more than fit.
Buffered ==
    /\ buffer \in Seq(Nat) /\ bufferTok \in Nat /\ bufferTok <= ChildMax
    /\ buffer # <<>> => stage = "split"
    /\ buffer = <<>> => bufferTok = 0
    /\ \A n \in ToSet(buffer) : n \in DOMAIN nodes /\ n < at

CInv == Staged /\ Grouped /\ Parented /\ Chunked /\ Buffered

\* The parser works only until parse_tree has returned.
LEMMA ParsingIs ==
    ASSUME PInv, ParserNext
    PROVE  ~parsed
<1>1. CASE \E t \in DocTypes : ParseTree(t)
  BY <1>1 DEF ParseTree, PInv, Built
<1>2. CASE \/ \E item \in Items : ReadItem(item)
           \/ \E line \in Lines : ReadLine(line)
           \/ \E s \in Statements : ReadStatement(s) \/ ReadBlockLine(s)
           \/ \E page \in Pages : ReadPage(page)
  BY <1>2, Zenon DEF ReadItem, ReadLine, ReadStatement, ReadBlockLine, ReadPage, Reading
<1>3. CASE \/ ReadParagraph \/ BuildPage \/ FallBack \/ PdfFails \/ FinishPages
           \/ FinishDocling \/ FinishMarkdown \/ FinishCode \/ FinishBlocks
           \/ FinishPdf \/ FinishText
  BY <1>3, Zenon DEF ReadParagraph, BuildPage, FallBack, PdfFails, FinishPages, FinishDocling,
        FinishMarkdown, FinishCode, FinishBlocks, FinishPdf, FinishText, Reading
<1> QED BY <1>1, <1>2, <1>3, Zenon DEF ParserNext

\* Until then the chunker waits.
LEMMA ChunkerWaits ==
    ASSUME PInv, CInv, Parse
    PROVE  CInv'
<1>1. ~parsed /\ UNCHANGED chunkerVars
  BY ParsingIs DEF Parse
<1>2. /\ stage' = stage /\ at' = at /\ groups' = groups /\ groupTok' = groupTok
      /\ parents' = parents /\ children' = children /\ buffer' = buffer
      /\ bufferTok' = bufferTok /\ span' = span
  BY <1>1 DEF chunkerVars
<1>3. /\ stage = "wait" /\ at = 1 /\ groups = <<>> /\ groupTok = 0
      /\ parents = <<>> /\ children = <<>> /\ buffer = <<>>
      /\ bufferTok = 0 /\ span = <<0, 0>>
  BY <1>1 DEF CInv, Staged
<1>4. Staged'
  BY <1>2, <1>3 DEF Staged
<1>5. Len(groups) = 0 /\ Len(parents) = 0 /\ ToSet(children) = {} /\ ToSet(buffer) = {}
  BY <1>3 DEF ToSet
<1>6. Grouped'
  <2>1. /\ groups \in Seq(Seq(Nat))
        /\ FlattenSeq(groups) = [n \in 1..Len(FlattenSeq(groups)) |-> n]
        /\ Len(FlattenSeq(groups)) = 0
    BY <1>3 DEF CInv, Grouped
  <2>2. \A i \in 1..Len(groups) : FALSE
    BY <1>5
  <2>3. stage' = "wait" /\ stage' # "group"
    BY <1>2, <1>3
  <2> QED BY <1>2, <2>1, <2>2, <2>3 DEF Grouped
<1>7. Parented'
  <2>1. IsSeq(parents) /\ Len(parents) = 0 /\ Len(groups) = 0
    BY <1>5 DEF CInv, Parented
  <2> QED BY <1>2, <1>3, <2>1 DEF Parented, IsSeq
<1>8. Chunked'
  BY <1>2, <1>5 DEF CInv, Chunked, IsSeq
<1>9. Buffered'
  BY <1>2, <1>3, <1>5 DEF CInv, Buffered
<1> QED BY <1>4, <1>6, <1>7, <1>8, <1>9 DEF CInv

\* Nothing happens.
LEMMA ChunkerRests ==
    ASSUME CInv, UNCHANGED vars
    PROVE  CInv'
<1>1. /\ stage' = stage /\ at' = at /\ groups' = groups /\ groupTok' = groupTok
      /\ parents' = parents /\ children' = children /\ buffer' = buffer
      /\ bufferTok' = bufferTok /\ span' = span /\ nodes' = nodes /\ parsed' = parsed
  BY DEF vars, parserVars, chunkerVars
<1>2. Staged'
  BY <1>1 DEF CInv, Staged
<1>3. Grouped'
  BY <1>1 DEF CInv, Grouped
<1>4. Parented'
  BY <1>1 DEF CInv, Parented, IsSeq
<1>5. Chunked'
  BY <1>1 DEF CInv, Chunked, Named, IsSeq
<1>6. Buffered'
  BY <1>1 DEF CInv, Buffered
<1> QED BY <1>2, <1>3, <1>4, <1>5, <1>6 DEF CInv

\* Nothing is grouped at first.
LEMMA ChunkerBegins ==
    ASSUME Init
    PROVE  CInv
<1>1. /\ stage = "wait" /\ at = 1 /\ groups = <<>> /\ groupTok = 0
      /\ parents = <<>> /\ children = <<>> /\ buffer = <<>>
      /\ bufferTok = 0 /\ span = <<0, 0>> /\ nodes = <<>>
  BY DEF Init, ParserInit, ChunkerInit
<1>2. Len(<<>>) = 0 /\ ToSet(<<>>) = {} /\ <<>> \in Seq({}) /\ <<>> \in Seq(Nat)
      /\ <<>> \in Seq(Seq(Nat)) /\ <<>> = [n \in 1..0 |-> n]
  BY DEF ToSet
<1>3. Staged
  BY <1>1 DEF Staged
<1>4. FlattenSeq(groups) = <<>>
  BY <1>1, <1>2 DEF FlattenSeq
<1>5. Grouped
  <2>1. Len(FlattenSeq(groups)) = 0 /\ Len(groups) = 0 /\ groups \in Seq(Seq(Nat))
    BY <1>1, <1>2, <1>4
  <2>2. FlattenSeq(groups) = [n \in 1..Len(FlattenSeq(groups)) |-> n]
    BY <1>2, <1>4, <2>1
  <2>3. \A i \in 1..Len(groups) : FALSE
    BY <2>1
  <2> QED BY <1>1, <2>1, <2>2, <2>3 DEF Grouped
<1>6. Parented
  BY <1>1, <1>2 DEF Parented, IsSeq
<1>7. Chunked
  BY <1>1, <1>2 DEF Chunked, IsSeq
<1>8. Buffered
  BY <1>1, <1>2, ChunkerAssumption DEF Buffered
<1> QED BY <1>3, <1>5, <1>6, <1>7, <1>8 DEF CInv

-----------------------------------------------------------------------------
(* A long text, pack by pack. *)

\* A step of Packs.
WithSentence(text, packs, i) ==
    IF packs # <<>> /\ SumOfTokens(SubSeq(text, Last(packs)[1], i)) <= ChildMax
    THEN [packs EXCEPT ![Len(packs)] = <<@[1], i>>]
    ELSE Append(packs, <<i, i>>)

Pairs == Nat \X Nat

\* A pack of the first k sentences: one of them, or some that fit together.
Fits(text, k, a, b) ==
    /\ 1 <= a /\ a <= b /\ b <= k
    /\ a < b => SumOfTokens(SubSeq(text, a, b)) <= ChildMax

\* The packs share the first k sentences out without a gap.
GoodPacks(text, packs, k) ==
    /\ packs \in Seq(Pairs)
    /\ k = 0 => packs = <<>>
    /\ k > 0 => Len(packs) > 0 /\ packs[1][1] = 1 /\ packs[Len(packs)][2] = k
    /\ \A i \in 1..Len(packs) : Fits(text, k, packs[i][1], packs[i][2])
    /\ \A i \in 2..Len(packs) : packs[i][1] = packs[i - 1][2] + 1

\* One more sentence.
LEMMA PutIs ==
    ASSUME NEW text, NEW k \in Nat, NEW packs, GoodPacks(text, packs, k)
    PROVE  GoodPacks(text, WithSentence(text, packs, k + 1), k + 1)
<1> DEFINE n == Len(packs)
           new == WithSentence(text, packs, k + 1)
<1>1. packs \in Seq(Pairs) /\ n \in Nat /\ k + 1 \in Nat /\ k + 1 > 0
  BY DEF GoodPacks
<1>2. \A i \in 1..n : packs[i] \in Pairs /\ packs[i][1] \in Nat /\ packs[i][2] \in Nat
  <2>1. \A i \in 1..n : packs[i] \in Nat \X Nat
    BY <1>1 DEF Pairs
  <2> QED BY <2>1 DEF Pairs
<1>3. \A i \in 1..n : Fits(text, k + 1, packs[i][1], packs[i][2]) /\ packs[i][2] <= k
  <2> SUFFICES ASSUME NEW i \in 1..n
               PROVE  Fits(text, k + 1, packs[i][1], packs[i][2]) /\ packs[i][2] <= k
    OBVIOUS
  <2> DEFINE a == packs[i][1]
             b == packs[i][2]
  <2>1. a \in Nat /\ b \in Nat /\ Fits(text, k, a, b)
    BY <1>2 DEF GoodPacks
  <2> HIDE DEF a, b
  <2>2. Fits(text, k + 1, a, b) /\ b <= k
    BY <2>1 DEF Fits
  <2> QED BY <2>2 DEF a, b
<1>4. CASE packs # <<>> /\ SumOfTokens(SubSeq(text, Last(packs)[1], k + 1)) <= ChildMax
  <2> DEFINE a == packs[n][1]
             e == <<a, k + 1>>
  <2>1. n \in 1..n /\ n > 0
    BY <1>1, <1>4
  <2>2. new = [packs EXCEPT ![n] = e]
    BY <1>4 DEF WithSentence
  <2>3. a \in Nat /\ 1 <= a /\ a <= k /\ e \in Pairs /\ e[1] = a /\ e[2] = k + 1
    <3> DEFINE b == packs[n][2]
    <3>1. a \in Nat /\ b \in Nat /\ Fits(text, k, a, b)
      BY <1>2, <2>1 DEF GoodPacks
    <3> HIDE DEF a, b
    <3>2. 1 <= a /\ a <= k
      BY <3>1 DEF Fits
    <3>3. e \in Nat \X Nat
      BY <1>1, <3>1
    <3> QED BY <3>1, <3>2, <3>3 DEF Pairs
  <2>4. SumOfTokens(SubSeq(text, a, k + 1)) <= ChildMax
    BY <1>4 DEF Last
  <2>5. Fits(text, k + 1, a, k + 1)
    <3> HIDE DEF a
    <3> QED BY <1>1, <2>3, <2>4 DEF Fits
  <2> HIDE DEF e
  <2>6. /\ new \in Seq(Pairs) /\ Len(new) = n /\ new[n] = e
        /\ \A i \in 1..n : i # n => new[i] = packs[i]
    <3> HIDE DEF new
    <3> QED BY <1>1, <2>1, <2>2, <2>3
  <2> HIDE DEF new
  <2>7. \A i \in 1..n : Fits(text, k + 1, new[i][1], new[i][2])
    <3> SUFFICES ASSUME NEW i \in 1..n PROVE Fits(text, k + 1, new[i][1], new[i][2])
      OBVIOUS
    <3>1. CASE i = n
      BY <2>3, <2>5, <2>6, <3>1
    <3>2. CASE i # n
      BY <1>3, <2>6, <3>2
    <3> QED BY <3>1, <3>2
  <2>8. \A i \in 1..n : new[i][1] = packs[i][1]
    BY <2>3, <2>6
  <2>9. \A i \in 2..n : i - 1 \in 1..n /\ i - 1 # n /\ i \in 1..n
    BY <1>1
  <2>10. \A i \in 2..n : new[i][1] = new[i - 1][2] + 1
    <3>1. \A i \in 2..n : packs[i][1] = packs[i - 1][2] + 1
      BY DEF GoodPacks
    <3> QED BY <2>6, <2>8, <2>9, <3>1
  <2>11. new[1][1] = 1 /\ new[n][2] = k + 1
    <3>1. k > 0
      <4>1. k = 0 => packs = <<>>
        BY DEF GoodPacks
      <4> QED BY <1>4, <4>1
    <3>2. packs[1][1] = 1
      BY <3>1 DEF GoodPacks
    <3>3. 1 \in 1..n
      BY <1>1, <2>1
    <3> QED BY <2>3, <2>6, <2>8, <3>2, <3>3
  <2>12. /\ k + 1 # 0 /\ Len(new) > 0 /\ new[Len(new)][2] = k + 1
         /\ \A i \in 1..Len(new) : Fits(text, k + 1, new[i][1], new[i][2])
         /\ \A i \in 2..Len(new) : new[i][1] = new[i - 1][2] + 1
    <3> HIDE DEF n
    <3> QED BY <1>1, <2>1, <2>6, <2>7, <2>10, <2>11
  <2>13. GoodPacks(text, new, k + 1)
    BY <2>6, <2>11, <2>12 DEF GoodPacks
  <2> QED BY <2>13 DEF new
<1>5. CASE ~(packs # <<>> /\ SumOfTokens(SubSeq(text, Last(packs)[1], k + 1)) <= ChildMax)
  <2> DEFINE e == <<k + 1, k + 1>>
  <2>1. new = Append(packs, e)
    BY <1>5 DEF WithSentence
  <2>2. e \in Pairs /\ e[1] = k + 1 /\ e[2] = k + 1
    BY <1>1 DEF Pairs
  <2>3. Fits(text, k + 1, k + 1, k + 1)
    BY <1>1 DEF Fits
  <2> HIDE DEF e
  <2>4. /\ new \in Seq(Pairs) /\ Len(new) = n + 1 /\ new[n + 1] = e
        /\ \A i \in 1..n : new[i] = packs[i]
    <3> HIDE DEF new
    <3> QED BY <1>1, <2>1, <2>2
  <2> HIDE DEF new
  <2>5. \A i \in 1..(n + 1) : Fits(text, k + 1, new[i][1], new[i][2])
    <3> SUFFICES ASSUME NEW i \in 1..(n + 1) PROVE Fits(text, k + 1, new[i][1], new[i][2])
      OBVIOUS
    <3>1. CASE i = n + 1
      BY <2>2, <2>3, <2>4, <3>1
    <3>2. CASE i # n + 1
      <4>1. i \in 1..n
        BY <1>1, <3>2
      <4> QED BY <1>3, <2>4, <4>1
    <3> QED BY <3>1, <3>2
  <2>6. CASE k = 0
    <3>1. n = 0
      BY <2>6 DEF GoodPacks
    <3>2. new[1] = e /\ Len(new) = 1
      BY <2>4, <3>1
    <3>3. \A i \in 2..1 : FALSE
      OBVIOUS
    <3>4. /\ k + 1 # 0 /\ Len(new) > 0 /\ new[Len(new)][2] = k + 1 /\ new[1][1] = 1
          /\ \A i \in 1..Len(new) : Fits(text, k + 1, new[i][1], new[i][2])
          /\ \A i \in 2..Len(new) : FALSE
      <4> HIDE DEF n
      <4> QED BY <1>1, <2>2, <2>5, <2>6, <3>1, <3>2, <3>3
    <3>5. GoodPacks(text, new, k + 1)
      BY <2>4, <3>4 DEF GoodPacks
    <3> QED BY <3>5 DEF new
  <2>7. CASE k # 0
    <3>1. n > 0 /\ packs[1][1] = 1 /\ packs[n][2] = k
      BY <2>7 DEF GoodPacks
    <3>2. 1 \in 1..n /\ n \in 1..n
      BY <1>1, <3>1
    <3>3. new[1][1] = 1 /\ new[n][2] = k
      BY <2>4, <3>1, <3>2
    <3>4. ASSUME NEW i \in 2..(n + 1) PROVE new[i][1] = new[i - 1][2] + 1
      <4>1. CASE i = n + 1
        <5>1. new[i][1] = k + 1 /\ i - 1 = n
          BY <1>1, <2>2, <2>4, <4>1
        <5> QED BY <3>3, <5>1
      <4>2. CASE i # n + 1
        <5>1. i \in 2..n /\ i \in 1..n /\ i - 1 \in 1..n
          BY <1>1, <4>2
        <5>2. packs[i][1] = packs[i - 1][2] + 1
          BY <5>1 DEF GoodPacks
        <5> QED BY <2>4, <5>1, <5>2
      <4> QED BY <4>1, <4>2
    <3>5. new[n + 1][2] = k + 1 /\ Len(new) > 0
      BY <1>1, <2>2, <2>4
    <3>6. GoodPacks(text, new, k + 1)
      BY <1>1, <2>4, <2>5, <3>3, <3>4, <3>5 DEF GoodPacks
    <3> QED BY <3>6 DEF new
  <2> QED BY <2>6, <2>7
<1> QED BY <1>4, <1>5

\* The packs of a text.
LEMMA PacksAre ==
    ASSUME NEW text \in Seq(Nat \X Nat)
    PROVE  GoodPacks(text, Packs(text), Len(text))
<1> DEFINE list == [i \in DOMAIN text |-> i]
           n == Len(text)
           A == Seq(Pairs)
           step == [p \in A \X (1..n) |-> WithSentence(text, p[1], list[p[2]])]
           eq(G) == G = [s \in SUBSET (1..n) |->
                            IF s = {} THEN <<>>
                            ELSE WithSentence(text, G[s \ {Max(s)}], list[Max(s)])]
           C == CHOOSE G : eq(G)
<1>1. DOMAIN list = 1..n /\ n \in Nat /\ \A i \in 1..n : list[i] = i
  OBVIOUS
<1>2. Packs(text) = C[1..n]
  BY <1>1, Zenon DEF Packs, WithSentence, FoldLeft, MapThenFoldSet
<1> HIDE DEF list
<1>3. step \in [A \X (1..n) -> A] /\ <<>> \in A
  <2>1. ASSUME NEW l \in A, NEW i \in 1..n PROVE WithSentence(text, l, list[i]) \in A
    <3>1. list[i] = i /\ i \in Nat
      BY <1>1
    <3>2. <<i, i>> \in Pairs
      BY <3>1 DEF Pairs
    <3>3. Append(l, <<i, i>>) \in A
      BY <3>2
    <3>4. ASSUME l # <<>> PROVE [l EXCEPT ![Len(l)] = <<@[1], i>>] \in A
      <4>1. Len(l) \in 1..Len(l) /\ l[Len(l)] \in Pairs
        BY <3>4
      <4>2. l[Len(l)] \in Nat \X Nat
        BY <4>1 DEF Pairs
      <4>3. l[Len(l)][1] \in Nat
        BY <4>2
      <4>4. <<l[Len(l)][1], i>> \in Nat \X Nat
        BY <3>1, <4>3
      <4>5. <<l[Len(l)][1], i>> \in Pairs
        BY <4>4 DEF Pairs
      <4> QED BY <4>1, <4>5
    <3> QED BY <3>1, <3>3, <3>4 DEF WithSentence
  <2> QED BY <2>1
<1> HIDE DEF A
<1>4. \A l \in A, i \in 1..n : step[<<l, i>>] = WithSentence(text, l, list[i])
  OBVIOUS
<1>5. \E G : eq(G)
  <2> HIDE DEF step
  <2>1. PICK G \in [SUBSET (1..n) -> A] : FoldOf(G, <<>>, step, n)
    BY <1>1, <1>3, FoldExists
  <2>2. ASSUME NEW s \in SUBSET (1..n), s # {}
        PROVE  G[s] = WithSentence(text, G[s \ {Max(s)}], list[Max(s)])
    <3>1. Max(s) \in 1..n
      BY <1>1, <2>2, TopIn
    <3>2. G[s] = step[<<G[s \ {Max(s)}], Max(s)>>]
      BY <2>1, <2>2 DEF FoldOf
    <3>3. G[s \ {Max(s)}] \in A
      OBVIOUS
    <3> QED BY <1>4, <3>1, <3>2, <3>3
  <2>3. G[{}] = <<>>
    BY <2>1 DEF FoldOf
  <2>4. eq(G)
    BY <2>2, <2>3
  <2> QED BY <2>4
<1>6. eq(C)
  <2> HIDE DEF eq
  <2> QED BY <1>5
<1> HIDE DEF C, step, n
<1>7. C[{}] = <<>>
  BY <1>6
<1>8. \A i \in 1..n : C[1..(i - 1)] \in A => C[1..i] = step[<<C[1..(i - 1)], i>>]
  <2> SUFFICES ASSUME NEW i \in 1..n, C[1..(i - 1)] \in A
               PROVE  C[1..i] = step[<<C[1..(i - 1)], i>>]
    OBVIOUS
  <2>1. 1..i \in SUBSET (1..n) /\ 1..i # {} /\ i \in 1..i /\ i \in Nat
    BY <1>1, Segment
  <2>2. Max(1..i) = i /\ (1..i) \ {i} = 1..(i - 1)
    BY <1>1, <2>1, TopIs, Segment
  <2>3. C[1..i] = WithSentence(text, C[1..(i - 1)], list[i])
    BY <1>6, <2>1, <2>2
  <2> QED BY <1>4, <2>3
<1>9. PICK F \in [0..n -> A] : F[n] = C[1..n] /\ Steps(F, <<>>, step, n)
  <2>1. \E F \in [0..n -> A] : F[n] = C[1..n] /\ Steps(F, <<>>, step, n)
    BY <1>1, <1>3, <1>7, <1>8, FoldSteps, ZenonT(60)
  <2> QED BY <2>1
<1> DEFINE S == {i \in Nat : i <= n => GoodPacks(text, F[i], i)}
<1>10. 0 \in S
  <2>1. F[0] = <<>> /\ <<>> \in Seq(Pairs) /\ Len(<<>>) = 0
    BY <1>9 DEF Steps
  <2>2. (\A i \in 1..0 : FALSE) /\ (\A i \in 2..0 : FALSE)
    OBVIOUS
  <2>3. GoodPacks(text, F[0], 0)
    BY <2>1, <2>2 DEF GoodPacks
  <2> QED BY <2>3
<1>11. ASSUME NEW i \in Nat, i \in S PROVE i + 1 \in S
  <2>1. SUFFICES ASSUME i + 1 <= n PROVE GoodPacks(text, F[i + 1], i + 1)
    OBVIOUS
  <2>2. i <= n /\ i + 1 \in 1..n /\ (i + 1) - 1 = i /\ i \in 0..n
    BY <1>1, <2>1
  <2>3. GoodPacks(text, F[i], i)
    BY <1>11, <2>2
  <2>4. F[i + 1] = WithSentence(text, F[i], i + 1)
    <3>1. F[i + 1] = step[<<F[i], i + 1>>]
      BY <1>9, <2>2 DEF Steps
    <3>2. F[i] \in A /\ list[i + 1] = i + 1
      BY <1>1, <2>2
    <3> QED BY <1>4, <2>2, <3>1, <3>2
  <2> QED BY <2>3, <2>4, PutIs
<1>12. Nat \subseteq S
  <2> HIDE DEF S
  <2> QED BY <1>10, <1>11, Induction
<1>13. GoodPacks(text, F[n], n)
  BY <1>1, <1>12
<1> QED BY <1>2, <1>9, <1>13 DEF n

-----------------------------------------------------------------------------
(* The steps of the chunker. *)

\* What is known of a node.
LEMMA NodeIs ==
    ASSUME PInv, NEW n \in DOMAIN nodes
    PROVE  /\ n \in Nat /\ n \in 1..Len(nodes) /\ nodes[n] \in NodeSet
           /\ nodes[n].text \in Seq(Nat \X Nat) /\ nodes[n].caption \in Seq(Nat \X Nat)
           /\ nodes[n].rows \in Nat /\ nodes[n].page \in Nat
           /\ nodes[n].data \in {"none", "table", "figure"} /\ nodes[n].path \in Seq(Nat)
           /\ TokensOf(nodes[n].text) \in Nat /\ Words(nodes[n].text) \in Nat
           /\ Length(nodes[n].text) \in Nat
<1>1. nodes \in Seq(NodeSet)
  BY DEF PInv, Typed
<1>2. n \in Nat /\ n \in 1..Len(nodes) /\ nodes[n] \in NodeSet
  BY <1>1
<1>3. /\ nodes[n].text \in Seq(Nat \X Nat) /\ nodes[n].caption \in Seq(Nat \X Nat)
      /\ nodes[n].rows \in Nat /\ nodes[n].page \in Nat
      /\ nodes[n].data \in {"none", "table", "figure"} /\ nodes[n].path \in Seq(Nat)
  BY <1>2 DEF NodeSet
<1>4. /\ TokensOf(nodes[n].text) \in Nat /\ Words(nodes[n].text) \in Nat
      /\ Length(nodes[n].text) \in Nat
  BY <1>3, TextIs
<1> QED BY <1>2, <1>3, <1>4

\* What the parser leaves alone.
LEMMA Same ==
    ASSUME UNCHANGED parserVars
    PROVE  nodes' = nodes /\ parsed' = parsed
BY DEF parserVars

\* A document without content.
LEMMA EmptyDocumentKeeps ==
    ASSUME PInv, CInv, UNCHANGED parserVars, EmptyDocument
    PROVE  CInv'
<1> DEFINE p == [nodes |-> <<>>, path |-> <<>>, pages |-> <<0, 0>>]
           c == [parent |-> 1, kind |-> "title", nodes |-> <<>>, path |-> <<>>,
                 pages |-> <<0, 0>>, tokens |-> 0, part |-> 1, parts |-> 1,
                 range |-> <<0, 0>>]
<1>1. /\ stage = "wait" /\ parsed /\ nodes = <<>> /\ stage' = "done"
      /\ parents' = <<p>> /\ children' = <<c>>
      /\ at' = at /\ groups' = groups /\ groupTok' = groupTok /\ buffer' = buffer
      /\ bufferTok' = bufferTok /\ span' = span /\ nodes' = nodes /\ parsed' = parsed
  BY Same DEF EmptyDocument
<1>2. p.nodes = <<>> /\ c.nodes = <<>> /\ c.parent = 1
  OBVIOUS
<1> HIDE DEF p, c
<1>3. /\ IsSeq(parents') /\ Len(parents') = 1 /\ parents'[1] = p /\ IsSeq(children')
      /\ ToSet(children') = {c}
  <2> DEFINE ps == <<p>>
             cs == <<c>>
  <2>1. ToSet(cs) = {c} /\ ToSet(ps) = {p}
    BY DEF ToSet
  <2>2. ps \in Seq({p}) /\ cs \in Seq({c}) /\ Len(ps) = 1 /\ ps[1] = p
    OBVIOUS
  <2> HIDE DEF ps, cs
  <2>3. IsSeq(ps) /\ IsSeq(cs)
    BY <2>1, <2>2 DEF IsSeq
  <2>4. parents' = ps /\ children' = cs
    BY <1>1 DEF ps, cs
  <2> QED BY <2>1, <2>2, <2>3, <2>4
<1>4. ToSet(<<>>) = {} /\ Len(<<>>) = 0 /\ <<>> \in Seq(Nat)
  BY DEF ToSet
<1>5. Staged'
  BY <1>1 DEF CInv, Staged
<1>6. Grouped'
  <2>1. groups = <<>> /\ Len(groups) = 0 /\ Len(nodes) = 0
    BY <1>1, <1>4 DEF CInv, Staged
  <2>2. /\ FlattenSeq(groups) = [n \in 1..Len(FlattenSeq(groups)) |-> n]
        /\ Len(FlattenSeq(groups)) = 0 /\ groups \in Seq(Seq(Nat))
    BY <1>1 DEF CInv, Grouped
  <2>3. \A i \in 1..Len(groups) : FALSE
    BY <2>1
  <2> QED BY <1>1, <2>1, <2>2, <2>3 DEF Grouped
<1>7. Parented'
  <2>1. \A i \in 1..Len(parents') : parents'[i].nodes = <<>>
    BY <1>2, <1>3
  <2> QED BY <1>1, <1>3, <1>4, <2>1 DEF Parented
<1>8. Chunked'
  <2>1. c.parent \in 1..Len(parents') /\ c.nodes \in Seq(Nat) /\ ToSet(c.nodes) = {}
    BY <1>2, <1>3, <1>4
  <2>2. \A d \in ToSet(children') : d = c
    BY <1>3
  <2>3. /\ IsSeq(children')
        /\ \A d \in ToSet(children') :
              /\ d.parent \in 1..Len(parents') /\ d.nodes \in Seq(Nat)
              /\ ToSet(d.nodes) \subseteq DOMAIN nodes'
    BY <1>3, <2>1, <2>2
  <2> QED BY <2>3 DEF Chunked, Named, IsSeq
<1>9. Buffered'
  BY <1>1 DEF CInv, Staged, Buffered
<1> QED BY <1>5, <1>6, <1>7, <1>8, <1>9 DEF CInv

\* One more number behind the first ones.
LEMMA Counted ==
    ASSUME NEW a \in Nat, a > 0, NEW f \in Seq(Nat), Len(f) = a - 1,
           f = [n \in 1..Len(f) |-> n]
    PROVE  LET g == Append(f, a)
           IN  Len(g) = a /\ g = [n \in 1..Len(g) |-> n]
<1> DEFINE g == Append(f, a)
<1>1. /\ Len(g) = a /\ DOMAIN g = 1..a /\ g[a] = a /\ g \in Seq(Nat)
      /\ \A n \in 1..(a - 1) : g[n] = f[n]
  OBVIOUS
<1>2. \A n \in 1..(a - 1) : f[n] = n
  OBVIOUS
<1> HIDE DEF g
<1>3. \A n \in 1..a : g[n] = n
  <2>1. \A n \in 1..a : n = a \/ n \in 1..(a - 1)
    OBVIOUS
  <2> QED BY <1>1, <1>2, <2>1
<1>4. g = [n \in 1..a |-> n]
  BY <1>1, <1>3
<1> QED BY <1>1, <1>4 DEF g

\* A node is put into a group.
LEMMA GroupNodeKeeps ==
    ASSUME PInv, CInv, UNCHANGED parserVars, GroupNode
    PROVE  CInv'
<1>1. /\ stage = "group" /\ at <= Len(nodes) /\ at' = at + 1 /\ stage' = stage
      /\ parents' = parents /\ children' = children /\ buffer' = buffer
      /\ bufferTok' = bufferTok /\ span' = span /\ nodes' = nodes /\ parsed' = parsed
  BY Same DEF GroupNode
<1>2. /\ at \in Nat /\ at > 0 /\ groupTok \in Nat /\ parsed /\ nodes # <<>>
      /\ parents = <<>> /\ children = <<>> /\ buffer = <<>> /\ bufferTok = 0 /\ span = <<0, 0>>
  BY <1>1 DEF CInv, Staged
<1>3. /\ groups \in Seq(Seq(Nat)) /\ Len(FlattenSeq(groups)) = at - 1
      /\ FlattenSeq(groups) = [n \in 1..Len(FlattenSeq(groups)) |-> n]
      /\ \A i \in 1..Len(groups) : groups[i] # <<>> /\ ToSet(groups[i]) \subseteq DOMAIN nodes
      /\ Len(groups) \in Nat
  BY <1>1 DEF CInv, Grouped
<1>4. at \in DOMAIN nodes /\ at \in 1..Len(nodes) /\ Len(nodes) \in Nat
      /\ DOMAIN nodes = 1..Len(nodes)
  <2>1. nodes \in Seq(NodeSet)
    BY DEF PInv, Typed
  <2> QED BY <1>1, <1>2, <2>1
<1>5. TokensOf(nodes[at].text) \in Nat
  BY <1>4, NodeIs
<1>6. /\ groups' \in Seq(Seq(Nat))
      /\ FlattenSeq(groups') = Append(FlattenSeq(groups), at) /\ FlattenSeq(groups) \in Seq(Nat)
      /\ \A i \in 1..Len(groups') : groups'[i] # <<>> /\ ToSet(groups'[i]) \subseteq DOMAIN nodes
      /\ groupTok' \in Nat
  <2>1. CASE groups = <<>> \/ ClosesGroup(at)
    <3> DEFINE e == <<at>>
    <3>1. groups' = Append(groups, e) /\ groupTok' = TokensOf(nodes[at].text)
      BY <2>1 DEF GroupNode
    <3>2. e \in Seq(Nat) /\ e # <<>> /\ ToSet(e) = {at}
      BY <1>2 DEF ToSet
    <3> HIDE DEF e
    <3>3. /\ groups' \in Seq(Seq(Nat)) /\ Len(groups') = Len(groups) + 1
          /\ groups'[Len(groups')] = e /\ \A i \in 1..Len(groups) : groups'[i] = groups[i]
      BY <1>3, <3>1, <3>2
    <3>4. FlattenSeq(groups) \in Seq(Nat) /\ FlattenSeq(groups') = FlattenSeq(groups) \o e
      BY <1>3, <3>3, FlattenLonger, ZenonT(60)
    <3>5. FlattenSeq(groups') = Append(FlattenSeq(groups), at)
      <4> DEFINE f == FlattenSeq(groups)
      <4>1. f \in Seq(Nat) /\ at \in Nat
        BY <1>2, <3>4
      <4> HIDE DEF f
      <4>2. f \o <<at>> = Append(f, at)
        BY <4>1, AppendIsConcat
      <4> QED BY <3>4, <4>2 DEF f, e
    <3>6. \A i \in 1..Len(groups') : i \in 1..Len(groups) \/ i = Len(groups')
      BY <1>3, <3>3
    <3>7. \A i \in 1..Len(groups') :
              groups'[i] # <<>> /\ ToSet(groups'[i]) \subseteq DOMAIN nodes
      <4> SUFFICES ASSUME NEW i \in 1..Len(groups')
                   PROVE  groups'[i] # <<>> /\ ToSet(groups'[i]) \subseteq DOMAIN nodes
        OBVIOUS
      <4>1. CASE i \in 1..Len(groups)
        BY <1>3, <3>3, <4>1
      <4>2. CASE i = Len(groups')
        BY <1>4, <3>2, <3>3, <4>2
      <4> QED BY <3>6, <4>1, <4>2
    <3> QED BY <1>5, <3>1, <3>3, <3>4, <3>5, <3>7
  <2>2. CASE ~(groups = <<>> \/ ClosesGroup(at))
    <3> DEFINE k == Len(groups)
    <3>1. groups' = WithLast(groups, at) /\ groupTok' = groupTok + TokensOf(nodes[at].text)
      BY <2>2 DEF GroupNode, WithLast
    <3>a. groups # <<>>
      BY <2>2
    <3>2. /\ groups' \in Seq(Seq(Nat)) /\ Len(groups') = k /\ FlattenSeq(groups) \in Seq(Nat)
          /\ FlattenSeq(groups') = Append(FlattenSeq(groups), at)
          /\ groups'[k] = Append(groups[k], at)
          /\ \A i \in 1..k : i # k => groups'[i] = groups[i]
      <4> DEFINE t == WithLast(groups, at)
      <4>1. groups \in Seq(Seq(Nat)) /\ at \in Nat
        BY <1>2, <1>3
      <4>2. FlattenSeq(groups) \in Seq(Nat) /\ t \in Seq(Seq(Nat))
            /\ Len(t) = Len(groups)
            /\ FlattenSeq(t) = Append(FlattenSeq(groups), at)
            /\ t[Len(groups)] = Append(groups[Len(groups)], at)
            /\ \A i \in 1..Len(groups) : i # Len(groups) => t[i] = groups[i]
        BY <3>a, <4>1, FlattenDeeper
      <4> HIDE DEF t
      <4>3. groups' = t
        BY <3>1 DEF t
      <4> QED BY <4>2, <4>3
    <3>3. k \in 1..k
      BY <1>3, <2>2
    <3>4. groups[k] \in Seq(Nat) /\ ToSet(groups[k]) \subseteq DOMAIN nodes
      BY <1>3, <3>3
    <3>5. groups'[k] # <<>> /\ ToSet(groups'[k]) \subseteq DOMAIN nodes
      <4> DEFINE g == groups[k]
                 h == Append(g, at)
      <4>1. g \in Seq(Nat) /\ at \in Nat
        BY <1>2, <3>4
      <4> HIDE DEF g
      <4>2. /\ h # <<>> /\ Len(h) = Len(g) + 1 /\ h[Len(g) + 1] = at /\ h \in Seq(Nat)
            /\ \A i \in 1..Len(g) : h[i] = g[i]
        BY <4>1, AppendProperties
      <4> HIDE DEF h
      <4>3. \A i \in DOMAIN h : h[i] = at \/ \E j \in DOMAIN g : h[i] = g[j]
        <5>1. DOMAIN h = 1..(Len(g) + 1) /\ DOMAIN g = 1..Len(g) /\ Len(g) \in Nat
          BY <4>1, <4>2
        <5>2. \A i \in 1..(Len(g) + 1) : i = Len(g) + 1 \/ i \in 1..Len(g)
          BY <5>1
        <5> QED BY <4>2, <5>1, <5>2
      <4>4. ToSet(h) \subseteq ToSet(g) \cup {at}
        BY <4>3 DEF ToSet
      <4> QED BY <1>4, <3>2, <3>4, <4>2, <4>4 DEF g, h
    <3>6. \A i \in 1..Len(groups') :
              groups'[i] # <<>> /\ ToSet(groups'[i]) \subseteq DOMAIN nodes
      <4> SUFFICES ASSUME NEW i \in 1..k
                   PROVE  groups'[i] # <<>> /\ ToSet(groups'[i]) \subseteq DOMAIN nodes
        BY <3>2
      <4>1. CASE i # k
        BY <1>3, <3>2, <4>1
      <4>2. CASE i = k
        BY <3>5, <4>2
      <4> QED BY <4>1, <4>2
    <3>7. groupTok' \in Nat
      BY <1>2, <1>5, <3>1
    <3> HIDE DEF k
    <3> QED BY <3>2, <3>6, <3>7
  <2> QED BY <2>1, <2>2
<1>7. Staged'
  BY <1>1, <1>2, <1>6 DEF Staged
<1>8. Grouped'
  <2> DEFINE f == FlattenSeq(groups)
             g == FlattenSeq(groups')
  <2>1. f \in Seq(Nat) /\ Len(f) = at - 1 /\ f = [n \in 1..Len(f) |-> n] /\ g = Append(f, at)
    BY <1>3, <1>6
  <2> HIDE DEF f, g
  <2>2. Len(g) = at /\ g = [n \in 1..Len(g) |-> n]
    BY <1>2, <2>1, Counted
  <2>3. (at + 1) - 1 = at /\ at + 1 <= Len(nodes) + 1
    BY <1>2, <1>4
  <2> QED BY <1>1, <1>6, <2>2, <2>3 DEF Grouped, g
<1>9. Parented'
  <2>1. IsSeq(parents) /\ Len(parents) = 0
    BY <1>2 DEF CInv, Parented
  <2>2. Len(groups') >= 0
    BY <1>6
  <2>3. \A i \in 1..Len(parents) : FALSE
    BY <2>1
  <2> QED BY <1>1, <1>2, <2>1, <2>2, <2>3 DEF Parented, IsSeq
<1>10. Chunked'
  <2>1. ToSet(children) = {}
    BY <1>2 DEF ToSet
  <2> QED BY <1>1, <2>1 DEF CInv, Chunked, IsSeq
<1>11. Buffered'
  <2>1. ToSet(buffer) = {}
    BY <1>2 DEF ToSet
  <2> QED BY <1>1, <1>2, <2>1 DEF CInv, Buffered
<1> QED BY <1>7, <1>8, <1>9, <1>10, <1>11 DEF CInv

\* Grouping begins, and ends.
LEMMA GroupingKeeps ==
    ASSUME PInv, CInv, UNCHANGED parserVars, StartGrouping \/ EndGrouping
    PROVE  CInv'
<1>1. /\ stage' \in {"group", "parent"} /\ groups' = groups /\ groupTok' = groupTok
      /\ parents' = parents /\ children' = children /\ buffer' = buffer
      /\ bufferTok' = bufferTok /\ span' = span /\ nodes' = nodes /\ parsed' = parsed
      /\ stage \in {"wait", "group"}
  BY Same DEF StartGrouping, EndGrouping
<1>2. /\ at \in Nat /\ at > 0 /\ groupTok \in Nat
      /\ parents = <<>> /\ children = <<>> /\ buffer = <<>> /\ bufferTok = 0 /\ span = <<0, 0>>
  BY <1>1 DEF CInv, Staged
<1>a. Len(nodes) \in Nat
  BY DEF PInv, Typed
<1>3. CASE StartGrouping
  <2>1. stage = "wait" /\ parsed /\ nodes # <<>> /\ stage' = "group" /\ at' = at
    BY <1>3 DEF StartGrouping
  <2>2. at = 1
    BY <2>1 DEF CInv, Staged
  <2>3. Staged'
    BY <1>1, <1>2, <2>1, <2>2 DEF Staged
  <2>4. at <= Len(nodes) + 1 /\ at - 1 = 0
    BY <1>a, <2>2
  <2>5. Grouped'
    BY <1>1, <2>1, <2>4 DEF CInv, Grouped
  <2> QED BY <1>1, <1>2, <2>1, <2>3, <2>5 DEF CInv, Parented, Chunked, Buffered, IsSeq, Named
<1>4. CASE EndGrouping
  <2>1. stage = "group" /\ at > Len(nodes) /\ stage' = "parent" /\ at' = 1
    BY <1>4 DEF EndGrouping
  <2>2. parsed /\ nodes # <<>>
    BY <2>1 DEF CInv, Staged
  <2>3. Staged'
    BY <1>1, <1>2, <2>1, <2>2 DEF Staged
  <2>4. at - 1 = Len(nodes)
    BY <1>2, <1>a, <2>1 DEF CInv, Grouped
  <2>5. Grouped'
    BY <1>1, <2>1, <2>4 DEF CInv, Grouped
  <2>6. Buffered'
    <3>1. ToSet(buffer) = {}
      BY <1>2 DEF ToSet
    <3> QED BY <1>1, <1>2, <3>1 DEF CInv, Buffered
  <2> QED BY <1>1, <1>2, <2>1, <2>3, <2>5, <2>6 DEF CInv, Parented, Chunked, IsSeq, Named
<1> QED BY <1>3, <1>4

\* The next parent.
LEMMA StartParentKeeps ==
    ASSUME PInv, CInv, UNCHANGED parserVars, StartParent
    PROVE  CInv'
<1> DEFINE g == groups[Len(parents) + 1]
           p == [nodes |-> g, path |-> ParentPath(g), pages |-> PageSpan(g)]
<1>1. /\ stage = "parent" /\ Len(parents) < Len(groups) /\ stage' = "split"
      /\ parents' = Append(parents, p)
      /\ at' = at /\ groups' = groups /\ groupTok' = groupTok
      /\ children' = children /\ buffer' = buffer
      /\ bufferTok' = bufferTok /\ span' = span /\ nodes' = nodes /\ parsed' = parsed
  BY Same DEF StartParent
<1>2. p.nodes = g
  OBVIOUS
<1>3. /\ IsSeq(parents) /\ groups \in Seq(Seq(Nat)) /\ Len(groups) \in Nat
      /\ Len(parents) \in Nat
      /\ \A i \in 1..Len(groups) : groups[i] # <<>> /\ ToSet(groups[i]) \subseteq DOMAIN nodes
      /\ nodes # <<>>
  <2>1. IsSeq(parents) /\ groups \in Seq(Seq(Nat))
      /\ \A i \in 1..Len(groups) : groups[i] # <<>> /\ ToSet(groups[i]) \subseteq DOMAIN nodes
    BY DEF CInv, Parented, Grouped
  <2>2. Len(parents) \in Nat
    BY <2>1, SeqIs
  <2>3. nodes # <<>>
    BY <1>1 DEF CInv, Staged
  <2> QED BY <2>1, <2>2, <2>3
<1>4. Len(parents) + 1 \in 1..Len(groups)
  BY <1>1, <1>3
<1>5. g \in Seq(Nat) /\ ToSet(g) \subseteq DOMAIN nodes
  BY <1>3, <1>4
<1> HIDE DEF p
<1>6. /\ IsSeq(parents') /\ Len(parents') = Len(parents) + 1 /\ parents'[Len(parents) + 1] = p
      /\ \A i \in 1..Len(parents) : parents'[i] = parents[i]
  BY <1>1, <1>3, AppendIs
<1>7. \A i \in 1..Len(parents') : i \in 1..Len(parents) \/ i = Len(parents) + 1
  BY <1>3, <1>6
<1>8. Staged'
  BY <1>1 DEF CInv, Staged
<1>9. Grouped'
  BY <1>1 DEF CInv, Grouped
<1>10. Parented'
  <2>1. \A i \in 1..Len(parents) : /\ parents[i].nodes \in Seq(Nat)
                                   /\ ToSet(parents[i].nodes) \subseteq DOMAIN nodes
                                   /\ parents[i].nodes = groups[i]
    BY <1>3 DEF CInv, Parented
  <2>2. ASSUME NEW i \in 1..Len(parents')
        PROVE  /\ parents'[i].nodes \in Seq(Nat)
               /\ ToSet(parents'[i].nodes) \subseteq DOMAIN nodes
               /\ parents'[i].nodes = groups[i]
    <3>1. CASE i \in 1..Len(parents)
      BY <1>6, <2>1, <3>1
    <3>2. CASE i = Len(parents) + 1
      BY <1>2, <1>5, <1>6, <3>2
    <3> QED BY <1>7, <3>1, <3>2
  <2>3. Len(parents') <= Len(groups) /\ Len(parents') > 0
    BY <1>3, <1>4, <1>6
  <2> QED BY <1>1, <1>6, <2>2, <2>3 DEF Parented
<1>11. Chunked'
  <2>1. ASSUME NEW c \in ToSet(children) PROVE Named(c)'
    <3>1. Named(c)
      BY DEF CInv, Chunked
    <3>2. c.parent \in 1..Len(parents')
      BY <1>3, <1>6, <3>1 DEF Named
    <3> QED BY <1>1, <3>1, <3>2 DEF Named
  <2> QED BY <1>1, <2>1 DEF CInv, Chunked, IsSeq
<1>12. Buffered'
  BY <1>1 DEF CInv, Buffered
<1> QED BY <1>8, <1>9, <1>10, <1>11, <1>12 DEF CInv

\* The last parent has been split.
LEMMA FinishKeeps ==
    ASSUME PInv, CInv, UNCHANGED parserVars, Finish
    PROVE  CInv'
<1>1. /\ stage = "parent" /\ stage' = "done" /\ parents' = parents
      /\ at' = at /\ groups' = groups /\ groupTok' = groupTok
      /\ children' = children /\ buffer' = buffer
      /\ bufferTok' = bufferTok /\ span' = span /\ nodes' = nodes /\ parsed' = parsed
  BY Same DEF Finish
<1>2. Staged'
  BY <1>1 DEF CInv, Staged
<1>3. Grouped'
  BY <1>1 DEF CInv, Grouped
<1>4. Parented' /\ Chunked'
  BY <1>1 DEF CInv, Parented, Chunked, IsSeq, Named
<1>5. Buffered'
  BY <1>1 DEF CInv, Buffered
<1> QED BY <1>2, <1>3, <1>4, <1>5 DEF CInv

-----------------------------------------------------------------------------
(* What a node is split into. *)

\* The chunk of the texts in the buffer.
TextChild == Child("text", buffer, nodes[Last(buffer)].path, span, TokensOfNodes(buffer))

\* A chunk of the node at hand alone.
OfNode(c) ==
    /\ c.parent = Len(parents) /\ c.nodes = <<at>> /\ c.pages = OwnPages
    /\ c.kind \in {"table", "figure", "split"}
    /\ c.kind = "split" => /\ c.range \in Pairs
                           /\ Fits(Here.text, Len(Here.text), c.range[1], c.range[2])
                           /\ c.tokens = TokensOf(SubSeq(Here.text, c.range[1], c.range[2]))

\* Such chunks, numbered, that share the rows or sentences out without a gap.
PartsOfNode(more) ==
    /\ IsSeq(more) /\ Len(more) > 0
    /\ \A i \in 1..Len(more) :
          OfNode(more[i]) /\ more[i].part = i /\ more[i].parts = Len(more)
    /\ more[1].range[1] <= 1
    /\ \A i \in 2..Len(more) : more[i].range[1] = more[i - 1].range[2] + 1
    /\ more[Len(more)].range[2] = Whole(more[Len(more)])

\* The node that is split is there.
LEMMA SplitAt ==
    ASSUME PInv, CInv, Splitting
    PROVE  /\ stage = "split" /\ Len(parents) \in Nat /\ Len(parents) > 0
           /\ at \in DOMAIN nodes /\ at \in Nat /\ Here \in NodeSet
           /\ at \in ToSet(parents[Len(parents)].nodes)
<1>1. stage = "split" /\ at \in ToSet(parents[Len(parents)].nodes)
  BY DEF Splitting, Last
<1>2. /\ IsSeq(parents) /\ Len(parents) > 0
      /\ \A i \in 1..Len(parents) : ToSet(parents[i].nodes) \subseteq DOMAIN nodes
  BY <1>1 DEF CInv, Parented
<1>3. Len(parents) \in Nat
  BY <1>2, SeqIs
<1>4. Len(parents) \in 1..Len(parents)
  BY <1>2, <1>3
<1>5. at \in DOMAIN nodes
  BY <1>1, <1>2, <1>4
<1>6. at \in Nat /\ nodes[at] \in NodeSet
  BY <1>5, NodeIs
<1> QED BY <1>1, <1>2, <1>3, <1>5, <1>6 DEF Here

\* A list of one chunk.
LEMMA OnlyPart ==
    ASSUME NEW c, OfNode(c), c.part = 1, c.parts = 1, c.range[1] <= 1,
           c.range[2] = Whole(c)
    PROVE  PartsOfNode(<<c>>)
<1> DEFINE cs == <<c>>
<1>1. cs \in Seq({c}) /\ Len(cs) = 1 /\ cs[1] = c
  OBVIOUS
<1>2. ToSet(cs) = {c}
  BY DEF ToSet
<1>3. \A i \in 1..1 : i = 1
  OBVIOUS
<1>4. \A i \in 2..1 : FALSE
  OBVIOUS
<1> HIDE DEF cs
<1>5. IsSeq(cs)
  BY <1>1, <1>2 DEF IsSeq
<1>6. PartsOfNode(cs)
  BY <1>1, <1>3, <1>4, <1>5 DEF PartsOfNode
<1> QED BY <1>6 DEF cs

\* The whole of a chunk of each kind.
LEMMA WholeIs ==
    ASSUME NEW c, c.nodes = <<at>>, Here.rows \in Nat
    PROVE  /\ c.kind = "split" => Whole(c) = Len(Here.text)
           /\ c.kind = "table" => Whole(c) = DataRows
           /\ c.kind = "figure" => Whole(c) = 0
<1>1. c.nodes[1] = at
  OBVIOUS
<1>2. ASSUME c.kind = "split" PROVE Whole(c) = Len(nodes[c.nodes[1]].text)
  BY <1>2, Zenon DEF Whole
<1>3. ASSUME c.kind = "table"
      PROVE  Whole(c) = nodes[c.nodes[1]].rows - (IF nodes[c.nodes[1]].header THEN 1 ELSE 0)
  <2>1. c.kind # "split"
    BY <1>3
  <2> QED BY <1>3, <2>1, Zenon DEF Whole
<1>4. ASSUME c.kind = "figure" PROVE Whole(c) = 0
  <2>1. c.kind # "split" /\ c.kind # "table"
    BY <1>4
  <2> QED BY <2>1, Zenon DEF Whole
<1>5. nodes[c.nodes[1]] = Here
  BY <1>1 DEF Here
<1>6. Here.rows - (IF Here.header THEN 1 ELSE 0) = DataRows
  BY DEF DataRows
<1> QED BY <1>2, <1>3, <1>4, <1>5, <1>6

\* A quotient that is rounded up.
LEMMA RoundedUp ==
    ASSUME NEW d \in Nat, NEW b \in Nat, b > 0, d > 0
    PROVE  LET n == (d + b - 1) \div b
           IN  n \in Nat /\ n > 0 /\ n * b >= d /\ (n - 1) * b < d
<1> DEFINE m == d + b - 1
           n == m \div b
           r == m % b
<1>1. m \in Nat /\ m >= b
  OBVIOUS
<1> HIDE DEF m
<1>2. n \in Int /\ r \in Int /\ m = b * n + r /\ 0 <= r /\ r < b
  BY <1>1
<1> HIDE DEF n, r
<1>3. b * n > m - b
  BY <1>1, <1>2
<1>4. b * n >= d /\ b * n > 0 /\ b * n <= m
  <2> DEFINE p == b * n
  <2>1. p \in Int /\ p > m - b /\ m = d + b - 1 /\ m = p + r
    BY <1>2, <1>3 DEF m
  <2> HIDE DEF p
  <2>2. p >= d /\ p > 0 /\ p <= m
    BY <1>1, <1>2, <2>1
  <2> QED BY <2>2 DEF p
<1>5. n > 0
  <2>1. ASSUME n <= 0 PROVE b * n <= 0
    BY <1>2, <2>1
  <2> QED BY <1>2, <1>4, <2>1
<1>6. n * b = b * n /\ (n - 1) * b = b * n - b
  BY <1>2
<1>7. (n - 1) * b < d
  <2> DEFINE p == b * n
  <2>1. p \in Int /\ p <= m /\ m = d + b - 1 /\ (n - 1) * b = p - b
    BY <1>2, <1>4, <1>6 DEF m
  <2> HIDE DEF p
  <2> QED BY <2>1
<1> QED BY <1>2, <1>4, <1>5, <1>6, <1>7 DEF n, m

\* A figure is split into itself.
LEMMA FigureParts ==
    ASSUME PInv, CInv, Splitting
    PROVE  PartsOfNode(<<Child("figure", <<at>>, Here.path, OwnPages, 0)>>)
<1> DEFINE c == Child("figure", <<at>>, Here.path, OwnPages, 0)
<1>1. Here.rows \in Nat
  BY SplitAt DEF NodeSet
<1>2. /\ c.parent = Len(parents) /\ c.nodes = <<at>> /\ c.pages = OwnPages
      /\ c.kind = "figure" /\ c.part = 1 /\ c.parts = 1 /\ c.range = <<0, 0>>
  BY DEF Child
<1> HIDE DEF c
<1>3. OfNode(c)
  BY <1>2 DEF OfNode
<1>4. c.range[1] <= 1 /\ c.range[2] = 0
  BY <1>2
<1>5. Whole(c) = 0
  BY <1>1, <1>2, WholeIs
<1>6. PartsOfNode(<<c>>)
  BY <1>2, <1>3, <1>4, <1>5, OnlyPart
<1> QED BY <1>6 DEF c

\* A table is split into itself.
LEMMA WholeTableParts ==
    ASSUME PInv, CInv, Splitting
    PROVE  PartsOfNode(<<WholeTable>>)
<1> DEFINE c == WholeTable
<1>1. Here.rows \in Nat
  BY SplitAt DEF NodeSet
<1>2. /\ c.parent = Len(parents) /\ c.nodes = <<at>> /\ c.pages = OwnPages
      /\ c.kind = "table" /\ c.part = 1 /\ c.parts = 1 /\ c.range = <<1, DataRows>>
  BY DEF WholeTable, Child
<1> HIDE DEF c
<1>3. OfNode(c)
  BY <1>2 DEF OfNode
<1>4. c.range[1] <= 1 /\ c.range[2] = DataRows
  BY <1>2
<1>5. Whole(c) = DataRows
  BY <1>1, <1>2, WholeIs
<1>6. PartsOfNode(<<c>>)
  BY <1>2, <1>3, <1>4, <1>5, OnlyPart
<1> QED BY <1>6 DEF c

\* A long table is split into batches of rows, the last one shorter.
LEMMA TablePartsAre ==
    ASSUME PInv, CInv, Splitting, Here.rows > 3
    PROVE  PartsOfNode(TableParts)
<1> DEFINE d == DataRows
           b == RowBatch
           n == TotalSplits
           c(i) == [Child("table", <<at>>, Here.path, OwnPages, 0)
                      EXCEPT !.part = i, !.parts = n,
                             !.range = <<(i - 1) * b + 1, Min({i * b, d})>>]
           more == TableParts
<1>1. Here.rows \in Nat
  BY SplitAt DEF NodeSet
<1>2. d \in Nat /\ d > 0
  BY <1>1 DEF DataRows
<1>3. b \in Nat /\ b > 0
  <2> DEFINE q == DataRows \div Max({2, TableTokens \div ChildMax + 1})
  <2>1. q \in Nat
    <3> DEFINE t == TableTokens \div ChildMax + 1
               u == Max({2, t})
    <3>1. TableTokens \in Nat
      <4>1. /\ Words(Here.caption) \in Nat /\ Words(Here.text) \in Nat
            /\ Length(Here.caption) \in Nat /\ Length(Here.text) \in Nat
        <5>1. Here.caption \in Seq(Nat \X Nat) /\ Here.text \in Seq(Nat \X Nat)
          BY SplitAt DEF NodeSet
        <5> QED BY <5>1, TextIs
      <4> DEFINE w == Words(Here.caption) + Words(Here.text)
                 l == Length(Here.caption) + Length(Here.text)
      <4>2. w \in Nat /\ l \in Nat
        BY <4>1
      <4> HIDE DEF w, l
      <4>3. Tokens(w, l) \in Nat
        BY <4>2, TokensIs
      <4> QED BY <4>3 DEF TableTokens, w, l
    <3>2. t \in Int
      BY <3>1, ChunkerAssumption
    <3> HIDE DEF t
    <3>3. u \in {2, t} /\ u >= 2
      BY <3>2, MaxOfTwo
    <3>4. u \in Nat /\ u > 0
      BY <3>2, <3>3
    <3> HIDE DEF u
    <3>5. d \div u \in Nat
      <4> HIDE DEF d
      <4> QED BY <1>2, <3>4
    <3> QED BY <3>5 DEF u, t
  <2> HIDE DEF q
  <2>2. Max({2, q}) \in {2, q} /\ Max({2, q}) >= 2
    <3> DEFINE two == 2
    <3>1. two \in Int /\ q \in Int
      BY <2>1
    <3> HIDE DEF two
    <3>2. Max({two, q}) \in {two, q} /\ Max({two, q}) >= two
      BY <3>1, MaxOfTwo
    <3> QED BY <3>2 DEF two
  <2>3. b = Max({2, q}) /\ b >= 2
    BY <2>2 DEF RowBatch, q
  <2> HIDE DEF b
  <2> QED BY <2>1, <2>2, <2>3
<1>4. n = (d + b - 1) \div b
  BY DEF TotalSplits
<1> HIDE DEF d, b, n
<1>5. n \in Nat /\ n > 0 /\ n * b >= d /\ (n - 1) * b < d
  BY <1>2, <1>3, <1>4, RoundedUp
<1>6. more = [i \in 1..n |-> c(i)]
  BY DEF TableParts, n, d, b
<1>7. ASSUME NEW i \in 1..n
      PROVE  /\ more[i] = c(i) /\ OfNode(more[i]) /\ more[i].part = i /\ more[i].parts = n
             /\ more[i].range = <<(i - 1) * b + 1, Min({i * b, d})>>
             /\ more[i].kind = "table" /\ more[i].nodes = <<at>>
  <2>1. more[i] = c(i)
    <3> HIDE DEF c, more
    <3> QED BY <1>6, Zenon
  <2> DEFINE x == c(i)
  <2>2. /\ x.parent = Len(parents) /\ x.nodes = <<at>> /\ x.pages = OwnPages
        /\ x.kind = "table" /\ x.part = i /\ x.parts = n
        /\ x.range = <<(i - 1) * b + 1, Min({i * b, d})>>
    BY DEF Child
  <2> HIDE DEF x
  <2>3. OfNode(x)
    BY <2>2 DEF OfNode
  <2> QED BY <2>1, <2>2, <2>3 DEF x
<1> HIDE DEF c, more
<1>8. IsSeq(more) /\ Len(more) = n
  <2>1. more = [i \in 1..n |-> more[i]]
    BY <1>6
  <2> QED BY <1>5, <2>1, ListIs
<1>9. \A i \in 1..n : more[i].range[1] = (i - 1) * b + 1 /\ more[i].range[2] = Min({i * b, d})
  BY <1>7
<1>10. \A i \in 1..n : i * b \in Int /\ (i - 1) * b \in Int
  BY <1>3
<1>11. \A i \in 1..(n - 1) : Min({i * b, d}) = i * b
  <2> SUFFICES ASSUME NEW i \in 1..(n - 1) PROVE Min({i * b, d}) = i * b
    OBVIOUS
  <2>1. i \in Nat /\ i <= n - 1 /\ i * b \in Int
    BY <1>3, <1>5
  <2>2. i * b <= (n - 1) * b
    BY <1>3, <1>5, <2>1
  <2>3. i * b < d
    <3>1. (n - 1) * b \in Int
      BY <1>3, <1>5
    <3> DEFINE p == (n - 1) * b
               r == i * b
    <3> HIDE DEF p, r
    <3>2. p \in Int /\ r \in Int /\ r <= p /\ p < d
      BY <1>5, <2>1, <2>2, <3>1 DEF p, r
    <3>3. r < d
      BY <1>2, <3>2
    <3> QED BY <3>3 DEF r
  <2> DEFINE r == i * b
  <2> HIDE DEF r
  <2>4. r \in Int /\ r < d
    BY <2>1, <2>3 DEF r
  <2>5. Min({r, d}) = r
    <3>1. r \in Int /\ d \in Int
      BY <1>2, <2>4
    <3>2. Min({r, d}) \in {r, d} /\ Min({r, d}) <= r
      BY <3>1, MinOfTwo
    <3> QED BY <2>4, <3>1, <3>2
  <2> QED BY <2>5 DEF r
<1>12. Min({n * b, d}) = d
  <2> DEFINE r == n * b
  <2>1. r \in Int /\ r >= d
    BY <1>3, <1>5
  <2> HIDE DEF r
  <2>2. Min({r, d}) \in {r, d} /\ Min({r, d}) <= d
    BY <1>2, <2>1, MinOfTwo
  <2>3. Min({r, d}) = d
    BY <1>2, <2>1, <2>2
  <2> QED BY <2>3 DEF r
<1>13. \A i \in 2..n : more[i].range[1] = more[i - 1].range[2] + 1
  <2> SUFFICES ASSUME NEW i \in 2..n PROVE more[i].range[1] = more[i - 1].range[2] + 1
    OBVIOUS
  <2>1. i \in 1..n /\ i - 1 \in 1..n /\ i - 1 \in 1..(n - 1)
    BY <1>5
  <2> QED BY <1>9, <1>11, <2>1
<1>14. more[1].range[1] <= 1
  <2>1. 1 \in 1..n /\ (1 - 1) * b + 1 = 1
    BY <1>3, <1>5
  <2>2. more[1].range[1] = (1 - 1) * b + 1
    BY <1>9, <2>1
  <2> QED BY <2>1, <2>2
<1>15. more[n].range[2] = Whole(more[n])
  <2>1. n \in 1..n
    BY <1>5
  <2>2. Whole(more[n]) = d
    BY <1>1, <1>7, <2>1, WholeIs DEF d
  <2> QED BY <1>9, <1>12, <2>1, <2>2
<1>16. PartsOfNode(more)
  BY <1>5, <1>7, <1>8, <1>13, <1>14, <1>15 DEF PartsOfNode
<1> QED BY <1>16 DEF more

\* A long text is split into packs of sentences.
LEMMA TextParts ==
    ASSUME PInv, CInv, Splitting, HasText(at)
    PROVE  LET packs == Packs(Here.text)
               Part(i) ==
                 [Child("split", <<at>>, Here.path, OwnPages,
                        TokensOf(SubSeq(Here.text, packs[i][1], packs[i][2])))
                    EXCEPT !.part = i, !.parts = Len(packs), !.range = packs[i]]
           IN  PartsOfNode([i \in DOMAIN packs |-> Part(i)])
<1> DEFINE packs == Packs(Here.text)
           n == Len(packs)
           Part(i) == [Child("split", <<at>>, Here.path, OwnPages,
                             TokensOf(SubSeq(Here.text, packs[i][1], packs[i][2])))
                          EXCEPT !.part = i, !.parts = Len(packs), !.range = packs[i]]
           more == [i \in DOMAIN packs |-> Part(i)]
<1>1. Here.rows \in Nat /\ Here.text \in Seq(Nat \X Nat) /\ Here.text # <<>>
  BY SplitAt DEF NodeSet, HasText, Here
<1>2. GoodPacks(Here.text, packs, Len(Here.text)) /\ Len(Here.text) \in Nat /\ Len(Here.text) > 0
  BY <1>1, PacksAre
<1> HIDE DEF packs
<1>3. /\ packs \in Seq(Pairs) /\ n \in Nat /\ DOMAIN packs = 1..n /\ n > 0
      /\ packs[1][1] = 1 /\ packs[n][2] = Len(Here.text)
      /\ \A i \in 1..n : Fits(Here.text, Len(Here.text), packs[i][1], packs[i][2])
      /\ \A i \in 1..n : packs[i] \in Pairs
      /\ \A i \in 2..n : packs[i][1] = packs[i - 1][2] + 1
  <2>1. packs \in Seq(Pairs)
    BY <1>2 DEF GoodPacks
  <2>2. n \in Nat /\ DOMAIN packs = 1..n /\ \A i \in 1..n : packs[i] \in Pairs
    BY <2>1
  <2> QED BY <1>2, <2>1, <2>2 DEF GoodPacks
<1> HIDE DEF n
<1>4. ASSUME NEW i \in 1..n
      PROVE  /\ OfNode(more[i]) /\ more[i].part = i /\ more[i].parts = n
             /\ more[i].range = packs[i] /\ more[i].kind = "split" /\ more[i].nodes = <<at>>
  <2> DEFINE x == Part(i)
  <2>1. more[i] = x
    BY <1>3
  <2> HIDE DEF more
  <2>2. /\ x.parent = Len(parents) /\ x.nodes = <<at>> /\ x.pages = OwnPages
        /\ x.kind = "split" /\ x.part = i /\ x.parts = n /\ x.range = packs[i]
        /\ x.tokens = TokensOf(SubSeq(Here.text, packs[i][1], packs[i][2]))
    BY DEF Child, n
  <2> HIDE DEF x
  <2>3. OfNode(x)
    BY <1>3, <2>2 DEF OfNode
  <2> QED BY <2>1, <2>2, <2>3
<1>5. more = [i \in 1..n |-> more[i]]
  BY <1>3
<1> HIDE DEF more
<1>6. IsSeq(more) /\ Len(more) = n
  BY <1>3, <1>5, ListIs
<1>7. 1 \in 1..n /\ n \in 1..n /\ \A i \in 2..n : i \in 1..n /\ i - 1 \in 1..n
  BY <1>3
<1>8. more[n].range[2] = Whole(more[n])
  BY <1>1, <1>3, <1>4, <1>7, WholeIs
<1>9. more[1].range[1] <= 1
  BY <1>3, <1>4, <1>7
<1>10. \A i \in 2..n : more[i].range[1] = more[i - 1].range[2] + 1
  BY <1>3, <1>4, <1>7
<1>11. PartsOfNode(more)
  BY <1>3, <1>4, <1>6, <1>8, <1>9, <1>10 DEF PartsOfNode
<1> QED BY <1>11, Zenon DEF more, packs, n

-----------------------------------------------------------------------------
(* The steps that split. *)

\* What the buffer holds is chunked, unless it is blank.
LEMMA FlushedChildrenAre ==
    ASSUME CInv
    PROVE  /\ IsSeq(FlushedChildren) /\ IsSeq(children)
           /\ BufferIsBlank => FlushedChildren = children
           /\ ~BufferIsBlank => FlushedChildren = Append(children, TextChild)
           /\ \A c \in ToSet(FlushedChildren) :
                 c \in ToSet(children) \/ (~BufferIsBlank /\ c = TextChild)
<1>1. IsSeq(children)
  BY DEF CInv, Chunked
<1>2. CASE BufferIsBlank
  <2>1. FlushedChildren = children
    BY <1>2 DEF FlushedChildren
  <2> QED BY <1>1, <1>2, <2>1
<1>3. CASE ~BufferIsBlank
  <2> DEFINE x == TextChild
  <2>1. FlushedChildren = Append(children, x)
    BY <1>3 DEF FlushedChildren, TextChild
  <2> HIDE DEF x
  <2>2. IsSeq(Append(children, x)) /\ ToSet(Append(children, x)) = ToSet(children) \cup {x}
    BY <1>1, AppendIs
  <2>3. /\ IsSeq(FlushedChildren)
        /\ \A c \in ToSet(FlushedChildren) : c \in ToSet(children) \/ c = x
    BY <2>1, <2>2
  <2> QED BY <1>1, <1>3, <2>1, <2>3 DEF x
<1> QED BY <1>2, <1>3

\* A buffer that is not blank holds nodes of the parent at hand.
LEMMA TextChildIs ==
    ASSUME PInv, CInv, ~BufferIsBlank
    PROVE  /\ TextChild.parent = Len(parents) /\ TextChild.kind = "text"
           /\ TextChild.nodes = buffer /\ TextChild.pages = span
           /\ TextChild.tokens = TokensOfNodes(buffer)
           /\ TextChild.part = 1 /\ TextChild.parts = 1 /\ TextChild.range = <<0, 0>>
           /\ buffer # <<>> /\ stage = "split" /\ Named(TextChild)
<1>1. /\ TextChild.parent = Len(parents) /\ TextChild.kind = "text"
      /\ TextChild.nodes = buffer /\ TextChild.pages = span
      /\ TextChild.tokens = TokensOfNodes(buffer)
      /\ TextChild.part = 1 /\ TextChild.parts = 1 /\ TextChild.range = <<0, 0>>
  BY DEF TextChild, Child
<1>2. PICK n \in ToSet(buffer) : ~Blank(n)
  BY DEF BufferIsBlank
<1>3. buffer # <<>>
  BY <1>2 DEF ToSet
<1>4. stage = "split" /\ buffer \in Seq(Nat) /\ ToSet(buffer) \subseteq DOMAIN nodes
  BY <1>3 DEF CInv, Buffered
<1>5. Len(parents) > 0 /\ Len(parents) \in Nat
  <2>1. IsSeq(parents) /\ Len(parents) > 0
    BY <1>4 DEF CInv, Parented
  <2> QED BY <2>1, SeqIs
<1>6. Len(parents) \in 1..Len(parents)
  BY <1>5
<1>7. Named(TextChild)
  BY <1>1, <1>4, <1>6 DEF Named
<1> QED BY <1>1, <1>3, <1>4, <1>7

\* A table, a figure or a long text is cut out of the others.
LEMMA CutIs ==
    ASSUME PInv, CInv, SplitTable \/ SplitFigure \/ SplitLongText
    PROVE  Splitting /\ Onward /\ \E more : PartsOfNode(more) /\ FlushAnd(more)
<1>1. CASE SplitTable
  <2>1. Splitting /\ Onward
    BY <1>1 DEF SplitTable
  <2>2. CASE TableTokens > ChildMax /\ Here.rows > 3
    <3>1. FlushAnd(TableParts)
      BY <1>1, <2>2 DEF SplitTable
    <3> QED BY <2>1, <2>2, <3>1, TablePartsAre, Zenon
  <2>3. CASE ~(TableTokens > ChildMax /\ Here.rows > 3)
    <3>1. FlushAnd(<<WholeTable>>)
      BY <1>1, <2>3 DEF SplitTable
    <3> QED BY <2>1, <3>1, WholeTableParts, Zenon
  <2> QED BY <2>2, <2>3
<1>2. CASE SplitFigure
  <2>1. Splitting /\ Onward
    BY <1>2 DEF SplitFigure
  <2>2. FlushAnd(<<Child("figure", <<at>>, Here.path, OwnPages, 0)>>)
    BY <1>2 DEF SplitFigure
  <2> QED BY <2>1, <2>2, FigureParts, Zenon
<1>3. CASE SplitLongText
  <2>1. Splitting /\ Onward /\ TokensOf(Here.text) > ChildMax
    BY <1>3, Zenon DEF SplitLongText
  <2>2. HasText(at)
    <3>1. Here.text \in Seq(Nat \X Nat) /\ at \in DOMAIN nodes
      BY <2>1, SplitAt DEF NodeSet
    <3>2. Here.text # <<>>
      <4>1. Here.text = <<>> => TokensOf(Here.text) = 0
        BY <3>1, TextIs
      <4> QED BY <2>1, <4>1, ChunkerAssumption
    <3> QED BY <3>2 DEF HasText, Here
  <2> QED BY <1>3, <2>1, <2>2, TextParts, Zenon DEF SplitLongText
<1> QED BY <1>1, <1>2, <1>3

\* A step from one node to the next within a parent.
LEMMA OnwardKeeps ==
    ASSUME PInv, CInv, UNCHANGED parserVars, Splitting, Onward,
           IsSeq(children'), \A c \in ToSet(children') : Named(c), Buffered'
    PROVE  CInv'
<1>1. /\ at' = at + 1 /\ stage' = stage /\ groups' = groups /\ groupTok' = groupTok
      /\ parents' = parents /\ nodes' = nodes /\ parsed' = parsed
  BY Same DEF Onward
<1>2. stage = "split" /\ at \in Nat
  BY SplitAt
<1>3. Staged'
  BY <1>1, <1>2 DEF CInv, Staged
<1>4. Grouped'
  BY <1>1, <1>2 DEF CInv, Grouped
<1>5. Parented'
  BY <1>1 DEF CInv, Parented, IsSeq
<1>6. Chunked'
  BY <1>1 DEF Chunked, Named, IsSeq
<1> QED BY <1>3, <1>4, <1>5, <1>6 DEF CInv

\* What is known of the chunks behind those of the buffer.
LEMMA CutNames ==
    ASSUME PInv, CInv, Splitting, NEW more, PartsOfNode(more)
    PROVE  /\ IsSeq(FlushedChildren \o more)
           /\ \A c \in ToSet(FlushedChildren \o more) : Named(c)
<1>1. IsSeq(FlushedChildren) /\ \A c \in ToSet(FlushedChildren) : Named(c)
  <2>1. \A c \in ToSet(children) : Named(c)
    BY DEF CInv, Chunked
  <2> QED BY <2>1, FlushedChildrenAre, TextChildIs
<1>2. IsSeq(more)
  BY DEF PartsOfNode
<1>3. \A c \in ToSet(more) : OfNode(c)
  <2>1. \A i \in 1..Len(more) : OfNode(more[i])
    BY DEF PartsOfNode
  <2>2. \A x : x \in ToSet(more) <=> \E i \in 1..Len(more) : more[i] = x
    BY <1>2, SeqIs
  <2> QED BY <2>1, <2>2
<1>4. \A c : OfNode(c) => Named(c)
  <2> SUFFICES ASSUME NEW c, OfNode(c) PROVE Named(c)
    OBVIOUS
  <2>1. c.parent = Len(parents) /\ c.nodes = <<at>>
    BY DEF OfNode
  <2>2. Len(parents) \in 1..Len(parents) /\ at \in Nat /\ at \in DOMAIN nodes
    BY SplitAt
  <2>3. <<at>> \in Seq(Nat) /\ ToSet(<<at>>) = {at}
    BY <2>2 DEF ToSet
  <2> QED BY <2>1, <2>2, <2>3 DEF Named
<1> DEFINE s == FlushedChildren
<1> HIDE DEF s
<1>5. IsSeq(s) /\ \A c \in ToSet(s) : Named(c)
  BY <1>1 DEF s
<1>6. IsSeq(s \o more) /\ ToSet(s \o more) = ToSet(s) \cup ToSet(more)
  BY <1>2, <1>5, ConcatIs
<1>7. \A c \in ToSet(s \o more) : Named(c)
  BY <1>3, <1>4, <1>5, <1>6
<1> QED BY <1>6, <1>7 DEF s

\* A table, a figure or a long text.
LEMMA CutKeeps ==
    ASSUME PInv, CInv, UNCHANGED parserVars, SplitTable \/ SplitFigure \/ SplitLongText
    PROVE  CInv'
<1>1. PICK more : PartsOfNode(more) /\ FlushAnd(more)
  BY CutIs
<1>2. Splitting /\ Onward
  BY CutIs
<1>3. /\ children' = FlushedChildren \o more /\ buffer' = <<>> /\ bufferTok' = 0
  BY <1>1 DEF FlushAnd
<1>4. IsSeq(children') /\ \A c \in ToSet(children') : Named(c)
  <2> DEFINE s == FlushedChildren \o more
  <2>1. IsSeq(s) /\ \A c \in ToSet(s) : Named(c)
    BY <1>1, <1>2, CutNames
  <2>2. children' = s
    BY <1>3
  <2> HIDE DEF s
  <2> QED BY <2>1, <2>2
<1>5. Buffered'
  <2>1. ToSet(<<>>) = {} /\ <<>> \in Seq(Nat)
    BY DEF ToSet
  <2> QED BY <1>3, <2>1, ChunkerAssumption DEF Buffered
<1> QED BY <1>2, <1>4, <1>5, OnwardKeeps

\* A text that is empty.
LEMMA SkipKeeps ==
    ASSUME PInv, CInv, UNCHANGED parserVars, SkipEmptyText
    PROVE  CInv'
<1>1. /\ Splitting /\ Onward /\ children' = children /\ buffer' = buffer
      /\ bufferTok' = bufferTok /\ stage' = stage /\ at' = at + 1 /\ nodes' = nodes
  BY Same DEF SkipEmptyText, Onward
<1>2. at \in Nat
  BY <1>1, SplitAt
<1>3. IsSeq(children') /\ \A c \in ToSet(children') : Named(c)
  BY <1>1 DEF CInv, Chunked
<1>4. Buffered'
  <2>1. \A n \in ToSet(buffer) : n \in Nat /\ n < at + 1
    <3>1. ToSet(buffer) \subseteq Nat
      BY DEF CInv, Buffered, ToSet
    <3>2. \A n \in ToSet(buffer) : n < at
      BY DEF CInv, Buffered
    <3> QED BY <1>2, <3>1, <3>2
  <2> QED BY <1>1, <2>1 DEF CInv, Buffered
<1> QED BY <1>1, <1>3, <1>4, OnwardKeeps

\* A text that fits into a chunk.
LEMMA BufferTextKeeps ==
    ASSUME PInv, CInv, UNCHANGED parserVars, BufferText
    PROVE  CInv'
<1>1. /\ Splitting /\ Onward /\ TokensOf(Here.text) <= ChildMax
      /\ stage' = stage /\ at' = at + 1 /\ nodes' = nodes /\ ChildMax \in Nat
  BY Same, ChunkerAssumption DEF BufferText, Onward
<1>2. /\ at \in Nat /\ at \in DOMAIN nodes /\ stage = "split" /\ TokensOf(Here.text) \in Nat
  BY <1>1, SplitAt, NodeIs DEF Here
<1>3. /\ buffer \in Seq(Nat) /\ bufferTok \in Nat /\ (buffer = <<>> => bufferTok = 0)
      /\ \A n \in ToSet(buffer) : n \in DOMAIN nodes /\ n \in Nat /\ n < at
  <2>1. ToSet(buffer) \subseteq Nat
    BY DEF CInv, Buffered, ToSet
  <2> QED BY <2>1 DEF CInv, Buffered
<1>4. CASE Overflows
  <2>1. /\ children' = FlushedChildren /\ buffer' = <<at>>
        /\ bufferTok' = TokensOf(Here.text)
    BY <1>4 DEF BufferText
  <2>2. IsSeq(children') /\ \A c \in ToSet(children') : Named(c)
    <3>1. \A c \in ToSet(children) : Named(c)
      BY DEF CInv, Chunked
    <3> QED BY <2>1, <3>1, FlushedChildrenAre, TextChildIs
  <2>3. <<at>> \in Seq(Nat) /\ ToSet(<<at>>) = {at} /\ <<at>> # <<>>
    BY <1>2 DEF ToSet
  <2>4. Buffered'
    BY <1>1, <1>2, <2>1, <2>3 DEF Buffered
  <2> QED BY <1>1, <2>2, <2>4, OnwardKeeps
<1>5. CASE ~Overflows
  <2>1. /\ children' = children /\ buffer' = Append(buffer, at)
        /\ bufferTok' = bufferTok + TokensOf(Here.text)
    BY <1>5 DEF BufferText
  <2>2. IsSeq(children') /\ \A c \in ToSet(children') : Named(c)
    BY <2>1 DEF CInv, Chunked
  <2>3. bufferTok' \in Nat /\ bufferTok' <= ChildMax
    <3>1. CASE buffer = <<>>
      BY <1>1, <1>2, <1>3, <2>1, <3>1
    <3>2. CASE buffer # <<>>
      <4>1. ~(bufferTok + TokensOf(Here.text) > ChildMax)
        BY <1>5, <3>2 DEF Overflows
      <4> QED BY <1>1, <1>2, <1>3, <2>1, <4>1
    <3> QED BY <3>1, <3>2
  <2>4. /\ Append(buffer, at) \in Seq(Nat) /\ Append(buffer, at) # <<>>
        /\ ToSet(Append(buffer, at)) = ToSet(buffer) \cup {at}
    <3>1. IsSeq(buffer)
      <4>1. buffer \in Seq(ToSet(buffer))
        BY <1>3 DEF ToSet
      <4> QED BY <4>1 DEF IsSeq
    <3> DEFINE t == Append(buffer, at)
    <3>2. ToSet(t) = ToSet(buffer) \cup {at} /\ Len(t) = Len(buffer) + 1
      BY <3>1, AppendIs
    <3>3. t \in Seq(Nat) /\ t # <<>>
      BY <1>2, <1>3
    <3> HIDE DEF t
    <3> QED BY <3>2, <3>3 DEF t
  <2>5. \A n \in ToSet(Append(buffer, at)) : n \in DOMAIN nodes /\ n < at + 1
    BY <1>2, <1>3, <2>4
  <2>6. Buffered'
    BY <1>1, <1>2, <2>1, <2>3, <2>4, <2>5 DEF Buffered
  <2> QED BY <1>1, <2>2, <2>6, OnwardKeeps
<1> QED BY <1>4, <1>5

\* The end of a parent.
LEMMA EndParentKeeps ==
    ASSUME PInv, CInv, UNCHANGED parserVars, EndParent
    PROVE  CInv'
<1>1. /\ stage = "split" /\ stage' = "parent" /\ children' = FlushedChildren
      /\ buffer' = <<>> /\ bufferTok' = 0 /\ at' = at /\ groups' = groups
      /\ groupTok' = groupTok /\ parents' = parents /\ nodes' = nodes /\ parsed' = parsed
  BY Same DEF EndParent
<1>2. Staged'
  BY <1>1 DEF CInv, Staged
<1>3. Grouped'
  BY <1>1 DEF CInv, Grouped
<1>4. Parented'
  BY <1>1 DEF CInv, Parented, IsSeq
<1>5. Chunked'
  <2>1. \A c \in ToSet(children) : Named(c)
    BY DEF CInv, Chunked
  <2>2. IsSeq(children') /\ \A c \in ToSet(children') : Named(c)
    BY <1>1, <2>1, FlushedChildrenAre, TextChildIs
  <2> QED BY <1>1, <2>2 DEF Chunked, Named, IsSeq
<1>6. Buffered'
  <2>1. ToSet(<<>>) = {} /\ <<>> \in Seq(Nat)
    BY DEF ToSet
  <2> QED BY <1>1, <2>1, ChunkerAssumption DEF Buffered
<1> QED BY <1>2, <1>3, <1>4, <1>5, <1>6 DEF CInv

\* The chunker keeps what it has.
LEMMA ChunkerKeeps ==
    ASSUME PInv, CInv, [Next]_vars
    PROVE  CInv'
<1>1. CASE UNCHANGED vars
  BY <1>1, ChunkerRests
<1>2. CASE Parse
  BY <1>2, ChunkerWaits
<1>3. CASE Chunk
  <2>1. UNCHANGED parserVars /\ ChunkerNext
    BY <1>3 DEF Chunk
  <2>2. CASE EmptyDocument
    BY <2>1, <2>2, EmptyDocumentKeeps
  <2>3. CASE StartGrouping \/ EndGrouping
    BY <2>1, <2>3, GroupingKeeps
  <2>4. CASE GroupNode
    BY <2>1, <2>4, GroupNodeKeeps
  <2>5. CASE StartParent
    BY <2>1, <2>5, StartParentKeeps
  <2>6. CASE Finish
    BY <2>1, <2>6, FinishKeeps
  <2>7. CASE SplitTable \/ SplitFigure \/ SplitLongText
    BY <2>1, <2>7, CutKeeps
  <2>8. CASE SkipEmptyText
    BY <2>1, <2>8, SkipKeeps
  <2>9. CASE BufferText
    BY <2>1, <2>9, BufferTextKeeps
  <2>10. CASE EndParent
    BY <2>1, <2>10, EndParentKeeps
  <2> QED BY <2>1, <2>2, <2>3, <2>4, <2>5, <2>6, <2>7, <2>8, <2>9, <2>10, Zenon
        DEF ChunkerNext
<1> QED BY <1>1, <1>2, <1>3, Zenon DEF Next

\* Whatever the limits, the groups cut the nodes into consecutive runs, every
\* parent holds one of them, and chunks name nodes and parents that exist.
THEOREM ChunkerInvariant == Spec => [](PInv /\ CInv)
<1>1. Init => PInv /\ CInv
  BY ParserBegins, ChunkerBegins
<1>2. PInv /\ CInv /\ [Next]_vars => PInv' /\ CInv'
  BY ParserKeeps, ChunkerKeeps
<1> QED BY <1>1, <1>2, PTL DEF Spec

-----------------------------------------------------------------------------
(* Types. *)

\* A node hangs under an earlier one, and its path leads there.
LEMMA HangsInside ==
    ASSUME NEW ns, ns \in Seq(NodeSet), NEW n \in DOMAIN ns, Hangs(ns, n)
    PROVE  ns[n].up \in 0..n-1 /\ \A h \in ToSet(ns[n].path) : h \in DOMAIN ns
<1>1. DOMAIN ns = 1..Len(ns) /\ Len(ns) \in Nat /\ n \in Nat
  OBVIOUS
<1> DEFINE a == Around(ns, n)
<1>2. a \in SUBSET (1..Len(ns)) /\ \A h \in a : h \in Nat /\ h < n
  BY <1>1 DEF Around, EnclosesIn
<1>3. /\ ns[n].up = Max(a \cup {0})
      /\ ToSet(ns[n].path) \subseteq a \cup {n}
  BY DEF Hangs
<1> HIDE DEF a
<1>4. Max(a \cup {0}) \in 0..n-1
  <2>1. CASE a = {}
    <3> DEFINE z == 0
    <3>1. a \cup {z} = {z} /\ n \in 1..Len(ns)
      BY <1>1, <2>1
    <3>2. Max({z}) = z
      <4>1. z \in {z} /\ \A y \in {z} : z >= y
        OBVIOUS
      <4> QED BY <4>1 DEF Max
    <3>3. z \in 0..n-1
      BY <1>1, <3>1
    <3>4. Max(a \cup {z}) = z
      BY <3>1, <3>2
    <3> HIDE DEF z
    <3>5. Max(a \cup {z}) \in 0..n-1
      BY <3>3, <3>4
    <3> QED BY <3>5 DEF z
  <2>2. CASE a # {}
    <3> DEFINE m == Max(a)
    <3>1. m \in a /\ \A k \in a : k <= m
      BY <1>1, <1>2, <2>2, TopIn
    <3> HIDE DEF m
    <3>2. m \in Nat /\ m < n
      BY <1>2, <3>1
    <3> DEFINE b == a \cup {0}
    <3>3. m \in b /\ (\A y \in b : m >= y) /\ \A y \in b : y \in Nat
      BY <1>2, <3>1, <3>2
    <3> HIDE DEF b
    <3>4. \A x \in b : (\A y \in b : x >= y) => x = m
      BY <3>3
    <3>5. Max(b) = m
      BY <3>3, <3>4 DEF Max
    <3> QED BY <1>1, <3>2, <3>5 DEF b
  <2> QED BY <2>1, <2>2
<1>5. \A h \in ToSet(ns[n].path) : h \in DOMAIN ns
  BY <1>1, <1>2, <1>3
<1> QED BY <1>3, <1>4, <1>5

\* The types follow from the invariants.
LEMMA Types ==
    ASSUME PInv, CInv
    PROVE  TypeOK
<1>1. /\ docType \in DocTypes \cup {"none"} /\ reader \in Readers /\ parsed \in BOOLEAN
      /\ Len(pieces) <= MaxPieces /\ lastFig \in 0..Len(nodes)
      /\ nodes \in Seq(NodeSet)
  BY DEF PInv, Typed
<1>2. Indexes(heads)
  <2>1. CASE reader \in {"docling", "markdown"}
    <3>1. ToSet(heads) = Open(nodes)
      BY <2>1 DEF PInv, Built, Stack
    <3> QED BY <3>1 DEF Indexes, Open
  <2>2. CASE reader \notin {"docling", "markdown"}
    <3>1. heads = <<>>
      BY <2>2 DEF PInv, Built
    <3>2. ToSet(<<>>) = {}
      BY DEF ToSet
    <3> QED BY <3>1, <3>2 DEF Indexes
  <2> QED BY <2>1, <2>2
<1>3. ASSUME NEW n \in DOMAIN nodes
      PROVE  nodes[n].up \in 0..n-1 /\ Indexes(nodes[n].path)
  <2>1. CASE Tree(nodes)
    <3>1. Hangs(nodes, n)
      BY <2>1 DEF Tree
    <3> QED BY <1>1, <3>1, HangsInside DEF Indexes
  <2>2. CASE Flat(nodes)
    <3>1. nodes[n].path = <<>> /\ nodes[n].up \in 0..n-1
      BY <2>2 DEF Flat
    <3>2. ToSet(<<>>) = {}
      BY DEF ToSet
    <3> QED BY <3>1, <3>2 DEF Indexes
  <2>3. CASE nodes = <<>>
    BY <2>3
  <2>4. Tree(nodes) \/ Flat(nodes) \/ nodes = <<>>
    BY <1>1 DEF PInv, Built, Readers
  <2> QED BY <2>1, <2>2, <2>3, <2>4
<1>4. /\ stage \in {"wait", "group", "parent", "split", "done"}
      /\ FlattenSeq(groups) = [n \in 1..Len(FlattenSeq(groups)) |-> n]
      /\ Len(FlattenSeq(groups)) = IF stage = "wait" THEN 0
                                   ELSE IF stage = "group" THEN at - 1 ELSE Len(nodes)
  BY DEF CInv, Staged, Grouped
<1>5. Indexes(buffer) /\ bufferTok <= ChildMax
  BY DEF CInv, Buffered, Indexes
<1>6. \A c \in ToSet(children) : c.parent \in DOMAIN parents /\ Indexes(c.nodes)
  <2>1. DOMAIN parents = 1..Len(parents)
    <3>1. IsSeq(parents)
      BY DEF CInv, Parented
    <3> QED BY <3>1, SeqIs
  <2>2. \A c \in ToSet(children) : Named(c)
    BY DEF CInv, Chunked
  <2> QED BY <2>1, <2>2 DEF Named, Indexes
<1> QED BY <1>1, <1>2, <1>3, <1>4, <1>5, <1>6 DEF TypeOK

\* Every variable stays in its range, in any document and for any limits.
THEOREM DocumentTypeOK == Spec => []TypeOK
<1>1. PInv /\ CInv => TypeOK
  BY Types
<1> QED BY <1>1, ChunkerInvariant, PTL

-----------------------------------------------------------------------------
(* Totals. *)

\* A list of numbers has one list of sums.
LEMMA SumsAreOne ==
    ASSUME NEW s \in Seq(Nat), NEW t \in Seq(Nat), NEW n \in Nat, n <= Len(s), n <= Len(t),
           \A i \in 1..n : t[i] = s[i],
           NEW F, SumsOf(F, s), NEW G, SumsOf(G, t)
    PROVE  G[n] = F[n]
<1> DEFINE S == {i \in Nat : i <= n => G[i] = F[i]}
<1>1. 0 \in S
  BY DEF SumsOf
<1>2. ASSUME NEW i \in Nat, i \in S PROVE i + 1 \in S
  <2>1. SUFFICES ASSUME i + 1 <= n PROVE G[i + 1] = F[i + 1]
    OBVIOUS
  <2>2. /\ i + 1 \in 1..n /\ i + 1 \in 1..Len(s) /\ i + 1 \in 1..Len(t) /\ (i + 1) - 1 = i
        /\ G[i] = F[i]
    <3>1. Len(s) \in Nat /\ Len(t) \in Nat /\ i <= n
      BY <2>1
    <3> QED BY <1>2, <2>1, <3>1
  <2>3. G[i + 1] = G[i] + t[i + 1] /\ F[i + 1] = F[i] + s[i + 1] /\ t[i + 1] = s[i + 1]
    BY <2>2 DEF SumsOf
  <2> QED BY <2>2, <2>3
<1>3. Nat \subseteq S
  <2> HIDE DEF S
  <2> QED BY <1>1, <1>2, Induction
<1> QED BY <1>3

\* One more number.
LEMMA TotalAppend ==
    ASSUME NEW s \in Seq(Nat), NEW x \in Nat
    PROVE  Total(Append(s, x)) = Total(s) + x
<1> DEFINE t == Append(s, x)
           n == Len(s)
<1>1. /\ t \in Seq(Nat) /\ Len(t) = n + 1 /\ t[n + 1] = x /\ n \in Nat
      /\ \A i \in 1..n : t[i] = s[i]
  OBVIOUS
<1> HIDE DEF t, n
<1>2. PICK F : SumsOf(F, s) /\ Total(s) = F[n]
  BY TotalIs DEF n
<1>3. PICK G : SumsOf(G, t) /\ Total(t) = G[Len(t)]
  BY <1>1, TotalIs
<1>4. G[n] = F[n]
  <2>1. n <= Len(s) /\ n <= Len(t)
    BY <1>1 DEF n
  <2> QED BY <1>1, <1>2, <1>3, <2>1, SumsAreOne, SMTT(60)
<1>5. n + 1 \in 1..Len(t) /\ (n + 1) - 1 = n
  BY <1>1
<1>6. G[n + 1] = G[n] + t[n + 1]
  BY <1>3, <1>5 DEF SumsOf
<1> QED BY <1>1, <1>2, <1>3, <1>4, <1>6 DEF t

\* One number.
LEMMA TotalOne ==
    ASSUME NEW x \in Nat
    PROVE  Total(<<x>>) = x
<1>1. PICK F : SumsOf(F, <<x>>) /\ Total(<<x>>) = F[Len(<<x>>)]
  <2>1. <<x>> \in Seq(Nat)
    OBVIOUS
  <2> QED BY <2>1, TotalIs
<1>2. Len(<<x>>) = 1 /\ <<x>>[1] = x /\ 1 \in 1..1 /\ 1 - 1 = 0
  OBVIOUS
<1>3. F[1] = F[0] + x /\ F[0] = 0
  BY <1>1, <1>2 DEF SumsOf
<1> QED BY <1>1, <1>2, <1>3

\* A part of the numbers.
LEMMA TotalPart ==
    ASSUME NEW s \in Seq(Nat), NEW a \in 1..Len(s), NEW b \in a..Len(s)
    PROVE  Total(SubSeq(s, a, b)) <= Total(s)
<1> DEFINE t == SubSeq(s, a, b)
           n == Len(s)
           m == b - a + 1
<1>1. a \in Nat /\ b \in Nat /\ 1 <= a /\ a <= b /\ b <= n /\ n \in Nat /\ m \in Nat
  OBVIOUS
<1>2. t \in Seq(Nat) /\ Len(t) = m /\ \A i \in 1..m : t[i] = s[a + i - 1]
  BY <1>1
<1> HIDE DEF t
<1>3. PICK F : SumsOf(F, s) /\ Total(s) = F[n]
  BY TotalIs
<1>4. PICK G : SumsOf(G, t) /\ Total(t) = G[m]
  BY <1>2, TotalIs
<1>a. \A i \in 1..n : s[i] \in Nat
  OBVIOUS
<1> HIDE DEF n, m
<1>5. /\ \A i \in 0..n : F[i] \in Nat
      /\ \A i \in 1..n : F[i] = F[i - 1] + s[i] /\ s[i] \in Nat
      /\ \A i \in 0..m : G[i] \in Nat
      /\ \A i \in 1..m : G[i] = G[i - 1] + t[i]
      /\ G[0] = 0
  <2>1. /\ \A i \in 0..n : F[i] \in Nat
        /\ \A i \in 1..n : F[i] = F[i - 1] + s[i]
    BY <1>3 DEF SumsOf, n
  <2>2. /\ G \in [0..m -> Nat] /\ G[0] = 0
        /\ \A i \in 1..m : G[i] = G[i - 1] + t[i]
    BY <1>2, <1>4 DEF SumsOf
  <2> QED BY <1>a, <2>1, <2>2
<1> DEFINE S == {i \in Nat : i <= m => G[i] <= F[a + i - 1]}
<1>6. 0 \in S
  <2>1. a + 0 - 1 \in 0..n
    BY <1>1
  <2> QED BY <1>5, <2>1
<1>7. ASSUME NEW i \in Nat, i \in S PROVE i + 1 \in S
  <2>1. SUFFICES ASSUME i + 1 <= m PROVE G[i + 1] <= F[a + (i + 1) - 1]
    OBVIOUS
  <2>2. /\ i + 1 \in 1..m /\ (i + 1) - 1 = i /\ a + (i + 1) - 1 \in 1..n /\ i \in 0..m
        /\ (a + (i + 1) - 1) - 1 = a + i - 1 /\ a + i - 1 \in 0..n /\ i <= m
    BY <1>1, <2>1 DEF m
  <2> DEFINE j == a + (i + 1) - 1
             k == a + i - 1
  <2>3. G[i] <= F[k]
    BY <1>7, <2>2
  <2>4. G[i + 1] = G[i] + t[i + 1] /\ t[i + 1] = s[j]
    BY <1>2, <1>5, <2>2
  <2>5. j \in 1..n /\ j - 1 = k /\ k \in 0..n
    BY <2>2
  <2> HIDE DEF j, k
  <2>6. F[j] = F[k] + s[j] /\ s[j] \in Nat /\ F[k] \in Nat
    BY <1>5, <2>5
  <2>7. G[i] \in Nat
    BY <1>5, <2>2
  <2>8. G[i + 1] <= F[j]
    <3> DEFINE g == G[i]
               h == G[i + 1]
               f == F[k]
               e == F[j]
               x == s[j]
    <3>1. g <= f /\ h = g + x /\ e = f + x /\ x \in Nat /\ f \in Nat /\ g \in Nat
      BY <2>3, <2>4, <2>6, <2>7
    <3> HIDE DEF g, h, f, e, x
    <3>2. h <= e
      BY <3>1
    <3> QED BY <3>2 DEF h, e
  <2> QED BY <2>8 DEF j
<1>8. Nat \subseteq S
  <2> HIDE DEF S
  <2> QED BY <1>6, <1>7, Induction
<1>9. G[m] <= F[b]
  <2>1. a + m - 1 = b
    BY <1>1 DEF m
  <2>2. m \in S /\ m <= m
    BY <1>1, <1>8
  <2> QED BY <2>1, <2>2
<1> DEFINE R == {i \in Nat : b + i <= n => F[b] <= F[b + i]}
<1>10. 0 \in R
  <2>1. b + 0 = b /\ F[b] \in Nat
    BY <1>1, <1>5
  <2> QED BY <2>1
<1>11. ASSUME NEW i \in Nat, i \in R PROVE i + 1 \in R
  <2>1. SUFFICES ASSUME b + (i + 1) <= n PROVE F[b] <= F[b + (i + 1)]
    OBVIOUS
  <2> DEFINE j == b + (i + 1)
             k == b + i
  <2>2. j \in 1..n /\ j - 1 = k /\ k \in 0..n /\ k <= n /\ b \in 0..n
    BY <1>1, <2>1
  <2>3. F[b] <= F[k]
    BY <1>11, <2>2
  <2> HIDE DEF j, k
  <2>4. F[j] = F[k] + s[j] /\ s[j] \in Nat /\ F[k] \in Nat /\ F[b] \in Nat
    BY <1>5, <2>2
  <2>5. F[b] <= F[j]
    BY <2>3, <2>4
  <2> QED BY <2>5 DEF j
<1>12. Nat \subseteq R
  <2> HIDE DEF R
  <2> QED BY <1>10, <1>11, Induction
<1>13. F[b] <= F[n]
  <2>1. n - b \in Nat /\ b + (n - b) = n
    BY <1>1
  <2>2. n - b \in R
    BY <1>12, <2>1
  <2> QED BY <2>1, <2>2
<1>14. G[m] \in Nat /\ F[b] \in Nat /\ F[n] \in Nat
  BY <1>1, <1>5
<1>15. G[m] <= F[n]
  BY <1>9, <1>13, <1>14
<1> QED BY <1>3, <1>4, <1>15 DEF t

\* Numbers that are no greater, one by one.
LEMMA TotalLess ==
    ASSUME NEW s \in Seq(Nat), NEW t \in Seq(Nat), Len(t) = Len(s),
           \A i \in 1..Len(s) : t[i] <= s[i]
    PROVE  Total(t) <= Total(s)
<1> DEFINE n == Len(s)
<1>1. n \in Nat /\ \A i \in 1..n : s[i] \in Nat /\ t[i] \in Nat /\ t[i] <= s[i]
  OBVIOUS
<1>2. PICK F : SumsOf(F, s) /\ Total(s) = F[n]
  BY TotalIs
<1>3. PICK G : SumsOf(G, t) /\ Total(t) = G[n]
  BY TotalIs
<1> HIDE DEF n
<1>4. /\ \A i \in 0..n : F[i] \in Nat /\ G[i] \in Nat
      /\ \A i \in 1..n : F[i] = F[i - 1] + s[i] /\ G[i] = G[i - 1] + t[i]
      /\ F[0] = 0 /\ G[0] = 0
  BY <1>2, <1>3 DEF SumsOf, n
<1> DEFINE S == {i \in Nat : i <= n => G[i] <= F[i]}
<1>5. 0 \in S
  BY <1>4
<1>6. ASSUME NEW i \in Nat, i \in S PROVE i + 1 \in S
  <2>1. SUFFICES ASSUME i + 1 <= n PROVE G[i + 1] <= F[i + 1]
    OBVIOUS
  <2> DEFINE j == i + 1
  <2>2. j \in 1..n /\ j - 1 = i /\ i \in 0..n /\ G[i] <= F[i]
    BY <1>1, <1>6, <2>1
  <2> HIDE DEF j
  <2>3. /\ F[j] = F[i] + s[j] /\ G[j] = G[i] + t[j] /\ F[i] \in Nat /\ G[i] \in Nat
        /\ s[j] \in Nat /\ t[j] \in Nat /\ t[j] <= s[j]
    BY <1>1, <1>4, <2>2
  <2>4. G[j] <= F[j]
    BY <2>2, <2>3, SMTT(60)
  <2> QED BY <2>4 DEF j
<1>7. Nat \subseteq S
  <2> HIDE DEF S
  <2> QED BY <1>5, <1>6, Induction
<1>8. n \in S /\ n <= n
  BY <1>1, <1>7
<1> QED BY <1>2, <1>3, <1>8

\* Numbers whose quarters, rounded down, are no greater.
LEMMA TotalQuarters ==
    ASSUME NEW s \in Seq(Nat), NEW t \in Seq(Nat), Len(t) = Len(s),
           \A i \in 1..Len(s) : t[i] <= 4 * s[i] + 3
    PROVE  Total(t) <= 4 * Total(s) + 3 * Len(s)
<1> DEFINE n == Len(s)
<1>1. n \in Nat /\ \A i \in 1..n : s[i] \in Nat /\ t[i] \in Nat /\ t[i] <= 4 * s[i] + 3
  BY SMTT(30)
<1>2. PICK F : SumsOf(F, s) /\ Total(s) = F[n]
  BY TotalIs
<1>3. PICK G : SumsOf(G, t) /\ Total(t) = G[n]
  BY TotalIs
<1> HIDE DEF n
<1>4. /\ \A i \in 0..n : F[i] \in Nat /\ G[i] \in Nat
      /\ \A i \in 1..n : F[i] = F[i - 1] + s[i] /\ G[i] = G[i - 1] + t[i]
      /\ F[0] = 0 /\ G[0] = 0
  BY <1>2, <1>3 DEF SumsOf, n
<1> DEFINE S == {i \in Nat : i <= n => G[i] <= 4 * F[i] + 3 * i}
<1>5. 0 \in S
  <2>1. 0 <= 4 * 0 + 3 * 0
    OBVIOUS
  <2> QED BY <1>4, <2>1
<1>6. ASSUME NEW i \in Nat, i \in S PROVE i + 1 \in S
  <2>1. SUFFICES ASSUME i + 1 <= n PROVE G[i + 1] <= 4 * F[i + 1] + 3 * (i + 1)
    OBVIOUS
  <2> DEFINE j == i + 1
  <2>2. j \in 1..n /\ j - 1 = i /\ j = i + 1 /\ i \in 0..n /\ G[i] <= 4 * F[i] + 3 * i
    BY <1>1, <1>6, <2>1
  <2> HIDE DEF j
  <2>3. /\ F[j] = F[i] + s[j] /\ G[j] = G[i] + t[j] /\ F[i] \in Nat /\ G[i] \in Nat
        /\ s[j] \in Nat /\ t[j] \in Nat /\ t[j] <= 4 * s[j] + 3
    BY <1>1, <1>4, <2>2
  <2>4. G[j] <= 4 * F[j] + 3 * j
    <3> DEFINE g == G[i]
               f == F[i]
               x == s[j]
               y == t[j]
    <3>1. /\ g <= 4 * f + 3 * i /\ G[j] = g + y /\ F[j] = f + x /\ y <= 4 * x + 3
          /\ f \in Nat /\ g \in Nat /\ x \in Nat /\ y \in Nat /\ j = i + 1
      BY <2>2, <2>3
    <3> HIDE DEF g, f, x, y
    <3>2. g + y <= 4 * (f + x) + 3 * j
      BY <3>1
    <3> QED BY <3>1, <3>2
  <2> QED BY <2>4 DEF j
<1>7. Nat \subseteq S
  <2> HIDE DEF S
  <2> QED BY <1>5, <1>6, Induction
<1>8. n \in S /\ n <= n
  BY <1>1, <1>7
<1> QED BY <1>2, <1>3, <1>8 DEF n

-----------------------------------------------------------------------------
(* How long a chunk may be. *)

\* Words and characters that are counted in parts.
LEMMA TokensBounded ==
    ASSUME NEW w \in Nat, NEW l \in Nat, NEW b \in Nat, w <= b, l <= 4 * b + 3
    PROVE  Tokens(w, l) <= b
<1>1. l \div 4 <= b
  OBVIOUS
<1>2. (Tokens(w, l) = w \/ Tokens(w, l) = l \div 4) /\ Tokens(w, l) \in Nat
  BY TokensIs
<1> QED BY <1>1, <1>2

\* No text has more than four times as many characters as tokens, and three.
LEMMA FourFor ==
    ASSUME NEW w \in Nat, NEW l \in Nat
    PROVE  w <= Tokens(w, l) /\ l <= 4 * Tokens(w, l) + 3
<1> DEFINE t == Tokens(w, l)
           q == l \div 4
<1>1. t \in Nat /\ t >= w /\ t >= q
  BY TokensIs
<1>2. l <= 4 * q + 3 /\ q \in Nat
  OBVIOUS
<1> HIDE DEF t, q
<1>3. w <= t /\ l <= 4 * t + 3
  BY <1>1, <1>2
<1> QED BY <1>3 DEF t

\* A text of one sentence.
LEMMA SentenceIs ==
    ASSUME NEW x \in Nat \X Nat
    PROVE  TokensOf(<<x>>) = Tokens(x[1], x[2])
<1> DEFINE t == <<x>>
<1>1. t \in Seq(Nat \X Nat) /\ DOMAIN t = {1} /\ Len(t) = 1 /\ t[1] = x /\ t # <<>>
      /\ x[1] \in Nat /\ x[2] \in Nat
  OBVIOUS
<1>2. [i \in DOMAIN t |-> t[i][1]] = <<x[1]>> /\ [i \in DOMAIN t |-> t[i][2]] = <<x[2]>>
  OBVIOUS
<1> HIDE DEF t
<1>3. Words(t) = x[1] /\ Chars(t) = x[2]
  BY <1>1, <1>2, TotalOne DEF Words, Chars
<1>4. Length(t) = x[2]
  BY <1>1, <1>3 DEF Length
<1> QED BY <1>3, <1>4 DEF TokensOf, t

\* Numbers for the first numbers are a list.
LEMMA NumbersAre ==
    ASSUME NEW n \in Nat, NEW f, f = [i \in 1..n |-> f[i]], \A i \in 1..n : f[i] \in Nat
    PROVE  f \in Seq(Nat) /\ Len(f) = n /\ DOMAIN f = 1..n
<1>1. f \in [1..n -> Nat]
  OBVIOUS
<1>2. f \in Seq(Nat)
  BY <1>1, SeqDef
<1>3. Len(f) = n
  BY ListIs
<1> QED BY <1>1, <1>2, <1>3

\* A text of some sentences, against the sum of their tokens.
LEMMA PackBounded ==
    ASSUME NEW text \in Seq(Nat \X Nat), text # <<>>
    PROVE  TokensOf(text) <= SumOfTokens(text) + Len(text) - 1
<1> DEFINE n == Len(text)
           ws == [i \in DOMAIN text |-> text[i][1]]
           cs == [i \in DOMAIN text |-> text[i][2]]
           ts == [i \in DOMAIN text |-> TokensOf(<<text[i]>>)]
<1>1. n \in Nat /\ n > 0 /\ DOMAIN text = 1..n /\ \A i \in 1..n : text[i] \in Nat \X Nat
  OBVIOUS
<1>2. \A i \in 1..n : text[i][1] \in Nat /\ text[i][2] \in Nat
  BY <1>1
<1>3. ASSUME NEW i \in 1..n
      PROVE  /\ ts[i] \in Nat /\ ws[i] = text[i][1] /\ cs[i] = text[i][2]
             /\ ws[i] <= ts[i] /\ cs[i] <= 4 * ts[i] + 3
  <2> DEFINE w == text[i][1]
             l == text[i][2]
  <2>1. w \in Nat /\ l \in Nat /\ text[i] \in Nat \X Nat
    BY <1>1, <1>2
  <2>2. TokensOf(<<text[i]>>) = Tokens(w, l)
    BY <2>1, SentenceIs
  <2>3. ts[i] = TokensOf(<<text[i]>>) /\ ws[i] = w /\ cs[i] = l
    BY <1>1
  <2> HIDE DEF w, l, ts, ws, cs
  <2>4. ts[i] = Tokens(w, l) /\ Tokens(w, l) \in Nat
    BY <2>1, <2>2, <2>3, TokensIs
  <2>5. w <= Tokens(w, l) /\ l <= 4 * Tokens(w, l) + 3
    BY <2>1, FourFor
  <2> QED BY <2>3, <2>4, <2>5 DEF w, l
<1>4. /\ ws \in Seq(Nat) /\ cs \in Seq(Nat) /\ ts \in Seq(Nat)
      /\ Len(ws) = n /\ Len(cs) = n /\ Len(ts) = n
  <2>1. \A i \in 1..n : ws[i] \in Nat /\ cs[i] \in Nat /\ ts[i] \in Nat
    BY <1>2, <1>3
  <2>2. ws = [i \in 1..n |-> ws[i]] /\ cs = [i \in 1..n |-> cs[i]] /\ ts = [i \in 1..n |-> ts[i]]
    BY <1>1
  <2> HIDE DEF ws, cs, ts, n
  <2>3. n \in Nat
    BY <1>1
  <2>4. ws \in Seq(Nat) /\ Len(ws) = n
    BY <2>1, <2>2, <2>3, NumbersAre
  <2>5. cs \in Seq(Nat) /\ Len(cs) = n
    BY <2>1, <2>2, <2>3, NumbersAre
  <2>6. ts \in Seq(Nat) /\ Len(ts) = n
    BY <2>1, <2>2, <2>3, NumbersAre
  <2> QED BY <2>4, <2>5, <2>6
<1>5. Words(text) = Total(ws) /\ Chars(text) = Total(cs) /\ SumOfTokens(text) = Total(ts)
  BY DEF Words, Chars, SumOfTokens
<1> HIDE DEF ws, cs, ts, n
<1>6. Total(ws) <= Total(ts)
  BY <1>3, <1>4, TotalLess
<1>7. Total(cs) <= 4 * Total(ts) + 3 * n
  BY <1>3, <1>4, TotalQuarters
<1>8. Total(ws) \in Nat /\ Total(cs) \in Nat /\ Total(ts) \in Nat
  BY <1>4, TotalTyped
<1>9. Length(text) = Total(cs) + n - 1
  BY <1>5 DEF Length, n
<1> DEFINE w == Total(ws)
           c == Total(cs)
           l == Length(text)
           s == Total(ts)
           b == s + n - 1
<1>10. TokensOf(text) = Tokens(w, l) /\ SumOfTokens(text) = s
  BY <1>5 DEF TokensOf
<1>11. /\ w \in Nat /\ c \in Nat /\ s \in Nat /\ l = c + n - 1 /\ w <= s
       /\ c <= 4 * s + 3 * n
  BY <1>6, <1>7, <1>8, <1>9
<1> HIDE DEF w, c, l, s
<1>12. b \in Nat /\ l \in Nat /\ w <= b /\ l <= 4 * b + 3
  BY <1>1, <1>11
<1> HIDE DEF b
<1>13. Tokens(w, l) <= b
  BY <1>11, <1>12, TokensBounded
<1> QED BY <1>10, <1>13 DEF b, n

\* The sum of the tokens of the sentences is a number.
LEMMA SumOfTokensIs ==
    ASSUME NEW text \in Seq(Nat \X Nat)
    PROVE  SumOfTokens(text) \in Nat
<1> DEFINE n == Len(text)
           ts == [i \in DOMAIN text |-> TokensOf(<<text[i]>>)]
<1>1. n \in Nat /\ DOMAIN text = 1..n /\ \A i \in 1..n : text[i] \in Nat \X Nat
  OBVIOUS
<1>2. \A i \in 1..n : <<text[i]>> \in Seq(Nat \X Nat)
  BY <1>1
<1>3. \A i \in 1..n : ts[i] \in Nat
  BY <1>1, <1>2, TextIs
<1>4. ts = [i \in 1..n |-> ts[i]]
  BY <1>1
<1> HIDE DEF ts, n
<1>5. ts \in Seq(Nat)
  BY <1>1, <1>3, <1>4, NumbersAre
<1>6. Total(ts) \in Nat
  BY <1>5, TotalTyped
<1> QED BY <1>6 DEF SumOfTokens, ts

\* The tokens of each of some texts.
TokenList(ns) == [i \in DOMAIN ns |-> TokensOf(nodes[ns[i]].text)]

\* A part of a list.
LEMMA PartIs ==
    ASSUME NEW A, NEW s \in Seq(A), NEW a \in 1..Len(s), NEW b \in 1..Len(s), a <= b
    PROVE  LET t == SubSeq(s, a, b)
               m == b - a + 1
           IN  /\ t \in Seq(A) /\ Len(t) = m /\ DOMAIN t = 1..m
               /\ \A i \in 1..m : t[i] = s[a + i - 1] /\ a + i - 1 \in 1..Len(s)
<1> DEFINE n == Len(s)
           m == b - a + 1
           t == SubSeq(s, a, b)
<1>1. a \in Int /\ b \in Int /\ n \in Nat /\ 1 <= a /\ b <= n /\ m \in Nat
  OBVIOUS
<1>2. t \in Seq(A) /\ Len(t) = m /\ \A i \in 1..m : t[i] = s[a + i - 1]
  BY <1>1
<1>3. \A i \in 1..m : a + i - 1 \in 1..n
  BY <1>1
<1> HIDE DEF t
<1>4. DOMAIN t = 1..m
  BY <1>2
<1> QED BY <1>2, <1>3, <1>4 DEF t

\* What is stripped is at the ends.
LEMMA StrippedIs ==
    ASSUME NEW ns \in Seq(Nat), \E i \in 1..Len(ns) : ~Blank(ns[i])
    PROVE  \E a, b \in 1..Len(ns) : a <= b /\ Stripped(ns) = SubSeq(ns, a, b)
<1> DEFINE n == Len(ns)
           I == {i \in 1..n : ~Blank(ns[i])}
           a == IF I # {} THEN Min(I) ELSE 0
           b == IF I # {} THEN Max(I) ELSE 0
<1>1. Stripped(ns) = SubSeq(ns, a, b)
  BY Zenon DEF Stripped, SelectInSeq, SelectLastInSeq
<1>2. n \in Nat /\ I \in SUBSET (1..n) /\ I # {}
  OBVIOUS
<1> HIDE DEF I, n
<1>3. Max(I) \in I /\ \A k \in I : k <= Max(I)
  BY <1>2, TopIn
<1>4. Min(I) \in I
  <2>1. I \subseteq Nat /\ I # {}
    BY <1>2
  <2>2. PICK m \in I : \A j \in I : m <= j
    BY <2>1, Least
  <2>3. \A x \in I : (\A y \in I : x <= y) => x = m
    BY <2>1, <2>2
  <2> QED BY <2>2, <2>3 DEF Min
<1>5. a \in 1..n /\ b \in 1..n /\ a <= b
  <2>1. a = Min(I) /\ b = Max(I)
    BY <1>2
  <2> HIDE DEF a, b
  <2> QED BY <1>2, <1>3, <1>4, <2>1
<1> HIDE DEF a, b
<1> QED BY <1>1, <1>5 DEF n

\* Several texts, against the sum of their tokens.
LEMMA NodesBounded ==
    ASSUME PInv, NEW ns \in Seq(Nat), ToSet(ns) \subseteq DOMAIN nodes,
           \E i \in 1..Len(ns) : ~Blank(ns[i])
    PROVE  /\ TokenList(ns) \in Seq(Nat)
           /\ TokensOfNodes(ns) <= Total(TokenList(ns)) + (5 * Len(ns) - 2) \div 4
<1> DEFINE n == Len(ns)
           T == TokenList(ns)
<1>1. PICK a, b \in 1..n : a <= b /\ Stripped(ns) = SubSeq(ns, a, b)
  BY StrippedIs
<1> DEFINE m == b - a + 1
           st == Stripped(ns)
           ws == [i \in DOMAIN st |-> Words(nodes[st[i]].text)]
           ls == [i \in DOMAIN st |-> Length(nodes[st[i]].text)]
           ts == SubSeq(T, a, b)
<1>2. /\ n \in Nat /\ a \in Nat /\ b \in Nat /\ m \in Nat /\ 1 <= m /\ m <= n
      /\ DOMAIN ns = 1..n /\ \A i \in 1..n : ns[i] \in DOMAIN nodes
  <2>1. n \in Nat /\ DOMAIN ns = 1..n
    OBVIOUS
  <2>2. \A i \in 1..n : ns[i] \in DOMAIN nodes
    BY <2>1 DEF ToSet
  <2> HIDE DEF n
  <2> QED BY <1>1, <2>1, <2>2
<1>3. /\ st \in Seq(Nat) /\ Len(st) = m /\ DOMAIN st = 1..m
      /\ \A i \in 1..m : st[i] = ns[a + i - 1] /\ a + i - 1 \in 1..n
  <2>1. a \in 1..Len(ns) /\ b \in 1..Len(ns) /\ a <= b /\ st = SubSeq(ns, a, b)
    BY <1>1
  <2> DEFINE c == SubSeq(ns, a, b)
  <2>2. /\ c \in Seq(Nat) /\ Len(c) = m /\ DOMAIN c = 1..m
        /\ \A i \in 1..m : c[i] = ns[a + i - 1] /\ a + i - 1 \in 1..Len(ns)
    <3> HIDE DEF n
    <3> QED BY <2>1, PartIs, Zenon
  <2>3. st = c
    BY <2>1
  <2> HIDE DEF st, c
  <2> QED BY <2>2, <2>3
<1>4. T \in Seq(Nat) /\ Len(T) = n /\ \A i \in 1..n : T[i] = TokensOf(nodes[ns[i]].text)
  <2>1. \A i \in 1..n : T[i] = TokensOf(nodes[ns[i]].text)
    BY <1>2 DEF TokenList
  <2>2. \A i \in 1..n : T[i] \in Nat
    BY <1>2, <2>1, NodeIs
  <2>3. T = [i \in 1..n |-> T[i]]
    BY <1>2 DEF TokenList
  <2> HIDE DEF T, n
  <2> QED BY <1>2, <2>1, <2>2, <2>3, NumbersAre
<1>5. /\ ts \in Seq(Nat) /\ Len(ts) = m
      /\ \A i \in 1..m : ts[i] = TokensOf(nodes[st[i]].text)
  <2>1. ts \in Seq(Nat) /\ Len(ts) = m /\ \A i \in 1..m : ts[i] = T[a + i - 1]
    <3>1. a \in 1..Len(T) /\ b \in 1..Len(T) /\ T \in Seq(Nat)
      BY <1>1, <1>4
    <3>2. a \in Nat /\ b \in Nat /\ a <= b
      BY <1>1, <1>2
    <3> HIDE DEF T, n
    <3>3. SubSeq(T, a, b) = ts
      OBVIOUS
    <3> QED BY <3>1, <3>2, PartIs, SMTT(60)
  <2> HIDE DEF ts, T
  <2> QED BY <1>3, <1>4, <2>1
<1>6. Total(ts) <= Total(T)
  <2>1. a \in 1..Len(T) /\ b \in a..Len(T)
    BY <1>1, <1>2, <1>4
  <2> HIDE DEF T
  <2> QED BY <1>4, <2>1, TotalPart
<1> HIDE DEF T, st, ts, m
<1>7. ASSUME NEW i \in 1..m
      PROVE  /\ ws[i] \in Nat /\ ls[i] \in Nat
             /\ ws[i] <= ts[i] /\ ls[i] <= 4 * ts[i] + 3
  <2> DEFINE k == st[i]
             w == Words(nodes[k].text)
             l == Length(nodes[k].text)
  <2>1. k \in DOMAIN nodes /\ ws[i] = w /\ ls[i] = l /\ ts[i] = TokensOf(nodes[k].text)
    BY <1>2, <1>3, <1>5
  <2> HIDE DEF k, ws, ls
  <2>2. w \in Nat /\ l \in Nat
    BY <2>1, NodeIs
  <2>3. TokensOf(nodes[k].text) = Tokens(w, l)
    BY DEF TokensOf
  <2> HIDE DEF w, l
  <2>4. w <= Tokens(w, l) /\ l <= 4 * Tokens(w, l) + 3
    BY <2>2, FourFor
  <2> QED BY <2>1, <2>2, <2>3, <2>4
<1>8. ws \in Seq(Nat) /\ ls \in Seq(Nat) /\ Len(ws) = m /\ Len(ls) = m
  <2>1. ws = [i \in 1..m |-> ws[i]] /\ ls = [i \in 1..m |-> ls[i]]
    BY <1>3
  <2>2. \A i \in 1..m : ws[i] \in Nat /\ ls[i] \in Nat
    BY <1>7
  <2> HIDE DEF ws, ls
  <2>3. ws \in Seq(Nat) /\ Len(ws) = m
    BY <1>2, <2>1, <2>2, NumbersAre
  <2>4. ls \in Seq(Nat) /\ Len(ls) = m
    BY <1>2, <2>1, <2>2, NumbersAre
  <2> QED BY <2>3, <2>4
<1>9. TokensOfNodes(ns) = Tokens(Total(ws), 2 * (m - 1) + Total(ls))
  BY <1>3 DEF TokensOfNodes, st
<1> HIDE DEF ws, ls
<1>10. Total(ws) <= Total(ts) /\ Total(ls) <= 4 * Total(ts) + 3 * m
  <2>1. \A i \in 1..m : ws[i] <= ts[i] /\ ls[i] <= 4 * ts[i] + 3
    BY <1>7
  <2>2. Total(ws) <= Total(ts)
    BY <1>5, <1>8, <2>1, TotalLess
  <2>3. Total(ls) <= 4 * Total(ts) + 3 * m
    BY <1>5, <1>8, <2>1, TotalQuarters
  <2> QED BY <2>2, <2>3
<1>11. /\ Total(ws) \in Nat /\ Total(ls) \in Nat /\ Total(ts) \in Nat /\ Total(T) \in Nat
  BY <1>4, <1>5, <1>8, TotalTyped
<1> DEFINE w == Total(ws)
           c == Total(ls)
           l == 2 * (m - 1) + c
           s == Total(ts)
           t == Total(T)
           q == (5 * n - 2) \div 4
           bound == t + q
<1>12. q \in Nat /\ 5 * n - 2 <= 4 * q + 3
  <2>1. 5 * n - 2 \in Nat
    BY <1>2
  <2> DEFINE k == 5 * n - 2
  <2> HIDE DEF k
  <2>2. k \div 4 \in Nat /\ k <= 4 * (k \div 4) + 3
    BY <2>1 DEF k
  <2> QED BY <2>2 DEF k
<1>13. /\ w \in Nat /\ c \in Nat /\ s \in Nat /\ t \in Nat /\ w <= s /\ s <= t
       /\ c <= 4 * s + 3 * m
  BY <1>6, <1>10, <1>11
<1> HIDE DEF w, c, s, t, q, n
<1>14. bound \in Nat /\ l \in Nat /\ w <= bound /\ l <= 4 * bound + 3
  BY <1>2, <1>12, <1>13
<1> HIDE DEF bound, l
<1>15. Tokens(w, l) <= bound
  BY <1>13, <1>14, TokensBounded
<1>16. TokensOfNodes(ns) = Tokens(w, l)
  BY <1>9 DEF w, l, c
<1> QED BY <1>4, <1>15, <1>16 DEF bound, t, q, n, T

\* The tokens of several texts are a number.
LEMMA NodesCounted ==
    ASSUME PInv, NEW ns \in Seq(Nat), ToSet(ns) \subseteq DOMAIN nodes,
           \E i \in 1..Len(ns) : ~Blank(ns[i])
    PROVE  TokensOfNodes(ns) \in Nat
<1> DEFINE st == Stripped(ns)
           ws == [i \in DOMAIN st |-> Words(nodes[st[i]].text)]
           ls == [i \in DOMAIN st |-> Length(nodes[st[i]].text)]
           m == Len(st)
<1>1. PICK a, b \in 1..Len(ns) : a <= b /\ st = SubSeq(ns, a, b)
  BY StrippedIs
<1>2. /\ m \in Nat /\ m >= 1 /\ DOMAIN st = 1..m
      /\ \A i \in 1..m : st[i] \in DOMAIN nodes
  <2>1. /\ st \in Seq(Nat) /\ m = b - a + 1 /\ DOMAIN st = 1..(b - a + 1)
        /\ \A i \in 1..(b - a + 1) : st[i] = ns[a + i - 1] /\ a + i - 1 \in 1..Len(ns)
    BY <1>1, PartIs, SMTT(60)
  <2>2. \A i \in 1..Len(ns) : ns[i] \in DOMAIN nodes
    BY DEF ToSet
  <2>3. m \in Nat /\ m >= 1
    BY <1>1, <2>1
  <2> HIDE DEF st, m
  <2> QED BY <2>1, <2>2, <2>3
<1>3. \A i \in 1..m : ws[i] \in Nat /\ ls[i] \in Nat
  BY <1>2, NodeIs
<1>4. ws = [i \in 1..m |-> ws[i]] /\ ls = [i \in 1..m |-> ls[i]]
  BY <1>2
<1>5. TokensOfNodes(ns) = Tokens(Total(ws), 2 * (m - 1) + Total(ls))
  BY DEF TokensOfNodes
<1> HIDE DEF ws, ls, m
<1>6. ws \in Seq(Nat) /\ ls \in Seq(Nat)
  BY <1>2, <1>3, <1>4, NumbersAre
<1>7. Total(ws) \in Nat /\ Total(ls) \in Nat
  BY <1>6, TotalTyped
<1>8. 2 * (m - 1) + Total(ls) \in Nat
  <2> DEFINE c == Total(ls)
  <2>1. c \in Nat /\ m \in Nat /\ m >= 1
    BY <1>2, <1>7
  <2> HIDE DEF c
  <2>2. 2 * (m - 1) + c \in Nat
    BY <2>1
  <2> QED BY <2>2 DEF c
<1> QED BY <1>5, <1>7, <1>8, TokensIs

-----------------------------------------------------------------------------
(* What is to be said of the chunks. *)

\* A page of its own, or of a blank text before.
OwnPage(ns, p) ==
    \/ p \in PagesOf(ns)
    \/ \E n \in DOMAIN nodes : Blank(n) /\ n < ns[1] /\ nodes[n].page = p

Paged(c) == \A p \in ToSet(c.pages) \ {0} : OwnPage(c.nodes, p)

Sized(c) ==
    LET sentences == c.range[2] - c.range[1] + 1 IN
    /\ c.kind = "text" => c.tokens <= ChildMax + (5 * Len(c.nodes) - 2) \div 4
    /\ c.kind = "split" /\ sentences > 1 => c.tokens <= ChildMax + sentences - 1

\* A chunk holds nodes of its parent in their order.
Within(c) ==
    /\ Named(c) /\ c.nodes # <<>> /\ Rising(c.nodes)
    /\ ToSet(c.nodes) \subseteq ToSet(parents[c.parent].nodes)

Good(c) == Within(c) /\ Paged(c) /\ Sized(c)

\* A chunk in its place: the parts around it belong to it.
Link(cs, i) ==
    /\ cs[i].part = 1 => cs[i].range[1] <= 1
    /\ cs[i].part # 1 => /\ i - 1 \in 1..Len(cs)
                         /\ cs[i - 1].nodes = cs[i].nodes /\ cs[i - 1].parts = cs[i].parts
                         /\ cs[i].part = cs[i - 1].part + 1
                         /\ cs[i].range[1] = cs[i - 1].range[2] + 1
    /\ cs[i].part < cs[i].parts => i + 1 \in 1..Len(cs) /\ cs[i + 1].part > 1
    /\ cs[i].part >= cs[i].parts => /\ cs[i].part = cs[i].parts
                                    /\ cs[i].range[2] = Whole(cs[i])
    /\ cs[i].part \in Nat /\ cs[i].parts \in Nat

Chain(cs) == \A i \in 1..Len(cs) : Link(cs, i)

\* No node stands in one chunk and an earlier one in a later chunk.
InOrder(cs) ==
    \A i, j \in 1..Len(cs) :
       i < j => \A x \in ToSet(cs[i].nodes), y \in ToSet(cs[j].nodes) : x <= y

Listed(cs) == IsSeq(cs) /\ (\A c \in ToSet(cs) : Good(c)) /\ Chain(cs) /\ InOrder(cs)

\* The nodes of the chunks come before node n.
Below(cs, n) == \A c \in ToSet(cs) : \A x \in ToSet(c.nodes) : x < n

\* Chunks behind others.
LEMMA ConcatListed ==
    ASSUME NEW s, Listed(s), NEW u, Listed(u),
           \A c \in ToSet(s), d \in ToSet(u) :
              \A x \in ToSet(c.nodes), y \in ToSet(d.nodes) : x <= y
    PROVE  Listed(s \o u)
<1> DEFINE t == s \o u
           m == Len(s)
           n == Len(u)
<1>1. IsSeq(s) /\ IsSeq(u)
  BY DEF Listed
<1>2. /\ IsSeq(t) /\ Len(t) = m + n
      /\ \A i \in 1..m : t[i] = s[i]
      /\ \A i \in 1..n : t[m + i] = u[i]
      /\ ToSet(t) = ToSet(s) \cup ToSet(u)
  BY <1>1, ConcatIs
<1>3. m \in Nat /\ n \in Nat
  BY <1>1, SeqIs
<1>4. (\A i \in 1..m : s[i] \in ToSet(s)) /\ (\A i \in 1..n : u[i] \in ToSet(u))
  BY <1>1, SeqIs
<1> HIDE DEF t
<1>5. \A c \in ToSet(t) : Good(c)
  BY <1>2 DEF Listed
<1>6. ASSUME NEW i \in 1..(m + n)
      PROVE  i \in 1..m \/ \E k \in 1..n : i = m + k
  <2>1. i \in 1..m \/ i - m \in 1..n
    BY <1>3
  <2>2. i = m + (i - m)
    BY <1>3
  <2> QED BY <2>1, <2>2
<1>7. ASSUME NEW i \in 1..m PROVE Link(t, i)
  <2>1. Link(s, i)
    BY DEF Listed, Chain
  <2>2. t[i] = s[i]
    BY <1>2
  <2>3. s[i].part # 1 => /\ i - 1 \in 1..Len(t) /\ t[i - 1] = s[i - 1]
    <3>1. s[i].part # 1 => i - 1 \in 1..m
      BY <2>1 DEF Link
    <3>2. i - 1 \in 1..m => i - 1 \in 1..Len(t)
      BY <1>2, <1>3
    <3> QED BY <1>2, <3>1, <3>2
  <2>4. s[i].part < s[i].parts => i + 1 \in 1..Len(t) /\ t[i + 1] = s[i + 1]
    <3>1. s[i].part < s[i].parts => i + 1 \in 1..m
      BY <2>1 DEF Link
    <3>2. i + 1 \in 1..m => i + 1 \in 1..Len(t)
      BY <1>2, <1>3
    <3> QED BY <1>2, <3>1, <3>2
  <2> QED BY <2>1, <2>2, <2>3, <2>4 DEF Link
<1>8. ASSUME NEW k \in 1..n PROVE Link(t, m + k)
  <2>1. Link(u, k)
    BY DEF Listed, Chain
  <2>2. t[m + k] = u[k]
    BY <1>2
  <2>3. u[k].part # 1 => /\ (m + k) - 1 \in 1..Len(t) /\ t[(m + k) - 1] = u[k - 1]
    <3>1. u[k].part # 1 => k - 1 \in 1..n
      BY <2>1 DEF Link
    <3>2. k - 1 \in 1..n => (m + k) - 1 \in 1..Len(t) /\ (m + k) - 1 = m + (k - 1)
      BY <1>2, <1>3
    <3> QED BY <1>2, <3>1, <3>2
  <2>4. u[k].part < u[k].parts => (m + k) + 1 \in 1..Len(t) /\ t[(m + k) + 1] = u[k + 1]
    <3>1. u[k].part < u[k].parts => k + 1 \in 1..n
      BY <2>1 DEF Link
    <3>2. k + 1 \in 1..n => (m + k) + 1 \in 1..Len(t) /\ (m + k) + 1 = m + (k + 1)
      BY <1>2, <1>3
    <3> QED BY <1>2, <3>1, <3>2
  <2> QED BY <2>1, <2>2, <2>3, <2>4 DEF Link
<1>9. Chain(t)
  BY <1>2, <1>6, <1>7, <1>8 DEF Chain
<1>10. ASSUME NEW i \in 1..(m + n), NEW j \in 1..(m + n), i < j,
              NEW x \in ToSet(t[i].nodes), NEW y \in ToSet(t[j].nodes)
       PROVE  x <= y
  <2>1. CASE j \in 1..m
    <3>1. i \in 1..m /\ t[i] = s[i] /\ t[j] = s[j]
      BY <1>2, <1>3, <1>10, <2>1
    <3> QED BY <1>10, <2>1, <3>1 DEF Listed, InOrder
  <2>2. CASE i \in 1..m /\ \E k \in 1..n : j = m + k
    <3>1. PICK k \in 1..n : j = m + k
      BY <2>2
    <3>2. t[i] = s[i] /\ t[j] = u[k] /\ s[i] \in ToSet(s) /\ u[k] \in ToSet(u)
      BY <1>2, <1>4, <2>2, <3>1
    <3> QED BY <3>2
  <2>3. CASE \E h \in 1..n, k \in 1..n : i = m + h /\ j = m + k
    <3>1. PICK h \in 1..n, k \in 1..n : i = m + h /\ j = m + k
      BY <2>3
    <3>2. h < k /\ t[i] = u[h] /\ t[j] = u[k]
      BY <1>2, <1>3, <1>10, <3>1
    <3> QED BY <3>2 DEF Listed, InOrder
  <2>4. i \in 1..m \/ \E h \in 1..n : i = m + h
    BY <1>6
  <2>5. j \in 1..m \/ \E k \in 1..n : j = m + k
    BY <1>6
  <2>6. (\E h \in 1..n : i = m + h) /\ j \in 1..m => FALSE
    BY <1>3, <1>10
  <2> QED BY <2>1, <2>2, <2>3, <2>4, <2>5
<1>11. InOrder(t)
  BY <1>2, <1>10 DEF InOrder
<1> QED BY <1>2, <1>5, <1>9, <1>11 DEF Listed, t

\* A list of one chunk.
LEMMA OneListed ==
    ASSUME NEW c, Good(c), c.part = 1, c.parts = 1, c.range[1] <= 1, c.range[2] = Whole(c)
    PROVE  Listed(<<c>>) /\ ToSet(<<c>>) = {c}
<1> DEFINE cs == <<c>>
<1>1. cs \in Seq({c}) /\ Len(cs) = 1 /\ cs[1] = c
  OBVIOUS
<1>2. ToSet(cs) = {c}
  BY DEF ToSet
<1>3. \A i \in 1..1 : i = 1
  OBVIOUS
<1> HIDE DEF cs
<1>4. IsSeq(cs)
  BY <1>1, <1>2 DEF IsSeq
<1>5. Link(cs, 1)
  BY <1>1 DEF Link
<1>6. Chain(cs)
  BY <1>1, <1>3, <1>5 DEF Chain
<1>7. InOrder(cs)
  <2>1. \A i, j \in 1..1 : ~(i < j)
    OBVIOUS
  <2> QED BY <1>1, <2>1 DEF InOrder
<1> QED BY <1>2, <1>4, <1>6, <1>7 DEF Listed, cs

\* The parts of a node.
LEMMA PartsListed ==
    ASSUME PInv, CInv, Splitting, NEW more, PartsOfNode(more)
    PROVE  /\ Listed(more) /\ (\A c \in ToSet(more) : ToSet(c.nodes) = {at})
           /\ \E c \in ToSet(more) : at \in ToSet(c.nodes)
<1> DEFINE n == Len(more)
<1>1. /\ IsSeq(more) /\ n > 0 /\ more[1].range[1] <= 1 /\ more[n].range[2] = Whole(more[n])
      /\ \A i \in 1..n : OfNode(more[i]) /\ more[i].part = i /\ more[i].parts = n
      /\ \A i \in 2..n : more[i].range[1] = more[i - 1].range[2] + 1
  BY DEF PartsOfNode
<1>2. /\ n \in Nat /\ (\A i \in 1..n : more[i] \in ToSet(more))
      /\ \A c \in ToSet(more) : \E i \in 1..n : c = more[i]
  BY <1>1, SeqIs, ZenonT(60)
<1>3. /\ at \in Nat /\ at \in DOMAIN nodes /\ Len(parents) \in 1..Len(parents)
      /\ at \in ToSet(parents[Len(parents)].nodes) /\ Here \in NodeSet /\ nodes[at] = Here
  BY SplitAt DEF Here
<1>4. /\ ToSet(<<at>>) = {at} /\ <<at>> # <<>> /\ <<at>> \in Seq(Nat) /\ Len(<<at>>) = 1
  BY <1>3 DEF ToSet
<1> HIDE DEF n
<1>5. ASSUME NEW c \in ToSet(more) PROVE Good(c) /\ c.nodes = <<at>>
  <2>1. OfNode(c)
    BY <1>1, <1>2
  <2>2. /\ c.parent = Len(parents) /\ c.nodes = <<at>> /\ c.pages = OwnPages
        /\ c.kind \in {"table", "figure", "split"}
    BY <2>1 DEF OfNode
  <2>3. Named(c)
    BY <1>3, <1>4, <2>2 DEF Named
  <2>4. Rising(<<at>>)
    <3>1. \A i, j \in DOMAIN <<at>> : ~(i < j)
      BY <1>3
    <3> QED BY <3>1 DEF Rising
  <2>5. Within(c)
    BY <1>3, <1>4, <2>2, <2>3, <2>4 DEF Within
  <2>6. Paged(c)
    <3>1. ToSet(OwnPages) = {Here.page}
      BY DEF OwnPages, ToSet
    <3>2. PagesOf(<<at>>) = {Here.page} \ {0}
      BY <1>3, <1>4 DEF PagesOf
    <3> QED BY <2>2, <3>1, <3>2 DEF Paged, OwnPage
  <2>7. Sized(c)
    <3> DEFINE a == c.range[1]
               b == c.range[2]
               text == Here.text
               part == SubSeq(text, a, b)
    <3>1. SUFFICES ASSUME c.kind = "split", b - a + 1 > 1
                   PROVE  c.tokens <= ChildMax + (b - a + 1) - 1
      BY <2>2 DEF Sized
    <3>2. /\ c.range \in Pairs /\ Fits(text, Len(text), a, b)
          /\ c.tokens = TokensOf(part)
      BY <2>1, <3>1 DEF OfNode
    <3>3. a \in Nat /\ b \in Nat /\ text \in Seq(Nat \X Nat) /\ Len(text) \in Nat
      BY <1>3, <3>2 DEF Pairs, NodeSet
    <3> HIDE DEF a, b, text, part
    <3>4. 1 <= a /\ a <= b /\ b <= Len(text) /\ a < b
      BY <3>1, <3>2, <3>3 DEF Fits
    <3>5. SumOfTokens(part) <= ChildMax
      BY <3>2, <3>4 DEF Fits, part
    <3>6. part \in Seq(Nat \X Nat) /\ Len(part) = b - a + 1
      <4>1. a \in 1..Len(text) /\ b \in 1..Len(text)
        BY <3>3, <3>4
      <4> QED BY <3>3, <3>4, <4>1, PartIs, SMTT(60) DEF part
    <3>7. part # <<>>
      BY <3>3, <3>4, <3>6
    <3>8. TokensOf(part) <= SumOfTokens(part) + Len(part) - 1
      BY <3>6, <3>7, PackBounded
    <3>9. TokensOf(part) \in Nat /\ SumOfTokens(part) \in Nat
      BY <3>6, TextIs, SumOfTokensIs
    <3> DEFINE tokens == TokensOf(part)
               sum == SumOfTokens(part)
               len == Len(part)
               max == ChildMax
    <3>10. /\ tokens \in Nat /\ sum \in Nat /\ max \in Nat /\ sum <= max
           /\ tokens <= sum + len - 1 /\ len = b - a + 1 /\ c.tokens = tokens
      BY <3>2, <3>5, <3>6, <3>8, <3>9, ChunkerAssumption
    <3> HIDE DEF tokens, sum, len, max
    <3>11. tokens <= max + (b - a + 1) - 1
      BY <3>3, <3>10
    <3> QED BY <3>10, <3>11 DEF max
  <2> QED BY <2>2, <2>5, <2>6, <2>7 DEF Good
<1>6. Chain(more)
  <2> SUFFICES ASSUME NEW i \in 1..n PROVE Link(more, i)
    BY DEF Chain, n
  <2>1. i \in Nat /\ more[i].part = i /\ more[i].parts = n /\ more[i] \in ToSet(more)
    BY <1>1, <1>2
  <2>2. i # 1 => /\ i - 1 \in 1..n /\ more[i - 1].part = i - 1 /\ more[i - 1].parts = n
                 /\ more[i - 1].nodes = <<at>> /\ more[i].range[1] = more[i - 1].range[2] + 1
    <3> SUFFICES ASSUME i # 1
                 PROVE  /\ i - 1 \in 1..n /\ more[i - 1].part = i - 1 /\ more[i - 1].parts = n
                        /\ more[i - 1].nodes = <<at>>
                        /\ more[i].range[1] = more[i - 1].range[2] + 1
      OBVIOUS
    <3>1. i - 1 \in 1..n /\ i \in 2..n
      BY <1>2
    <3>2. more[i - 1] \in ToSet(more)
      BY <1>2, <3>1
    <3> QED BY <1>1, <1>5, <3>1, <3>2
  <2>3. i < n => i + 1 \in 1..n /\ more[i + 1].part = i + 1
    BY <1>1, <1>2
  <2>4. ~(i < n) => i = n
    BY <1>2
  <2>5. more[i].nodes = <<at>>
    BY <1>5, <2>1
  <2>6. i = n => more[i].range[2] = Whole(more[i])
    BY <1>1
  <2>7. i = 1 => more[i].range[1] <= 1
    BY <1>1
  <2>8. i + 1 > 1 /\ i = (i - 1) + 1
    BY <2>1
  <2> QED BY <1>2, <2>1, <2>2, <2>3, <2>4, <2>5, <2>6, <2>7, <2>8 DEF Link, n
<1>7. InOrder(more)
  <2>1. \A i \in 1..n : ToSet(more[i].nodes) = {at}
    BY <1>2, <1>4, <1>5
  <2>2. at <= at
    BY <1>3
  <2> QED BY <2>1, <2>2 DEF InOrder, n
<1>8. \A c \in ToSet(more) : ToSet(c.nodes) = {at}
  BY <1>4, <1>5
<1>9. more[1] \in ToSet(more)
  BY <1>1, <1>2
<1> QED BY <1>1, <1>5, <1>6, <1>7, <1>8, <1>9 DEF Listed

-----------------------------------------------------------------------------
(* The invariant of the splitting. *)

\* Where the first k groups end.
EndOf(k) == IF k = 0 THEN 0 ELSE groups[k][Len(groups[k])]

\* The groups are runs of nodes, and this is how far they have been split.
Placed ==
    /\ \A k \in 0..Len(groups) : EndOf(k) \in Nat
    /\ \A k \in 1..Len(groups) : /\ ToSet(groups[k]) = (EndOf(k - 1) + 1)..EndOf(k)
                                 /\ EndOf(k - 1) < EndOf(k)
    /\ stage = "group" => at = EndOf(Len(groups)) + 1
    /\ stage \in {"parent", "split", "done"} => EndOf(Len(groups)) = Len(nodes)
    /\ stage = "parent" => at = EndOf(Len(parents)) + 1
    /\ stage = "split" => EndOf(Len(parents) - 1) < at /\ at <= EndOf(Len(parents)) + 1
    /\ stage = "done" => at = Len(nodes) + 1

\* A page of the buffer, or of a blank text before it.
SpanPage(p) ==
    \/ p \in PagesOf(buffer)
    \/ \E n \in DOMAIN nodes : /\ Blank(n) /\ nodes[n].page = p /\ n < at
                               /\ \A m \in ToSet(buffer) : n < m

\* The buffer holds texts of the parent at hand, behind those that are chunked.
Held ==
    /\ Rising(buffer)
    /\ \A n \in ToSet(buffer) : /\ nodes[n].data = "none" /\ Below(children, n)
                                /\ n \in ToSet(parents[Len(parents)].nodes)
    /\ Below(children, at)
    /\ bufferTok = Total(TokenList(buffer))
    /\ span \in Nat \X Nat
    /\ \A p \in ToSet(span) \ {0} : SpanPage(p)

Stands(n) == n \in ToSet(buffer) \/ \E c \in ToSet(children) : n \in ToSet(c.nodes)

\* Nothing with content has been passed over.
Complete ==
    stage \in {"split", "parent", "done"} =>
        \A n \in DOMAIN nodes : n < at /\ Chunkable(n) => Stands(n)

SInv ==
    /\ Placed
    /\ nodes # <<>> => Listed(children) /\ Held /\ Complete
    /\ nodes = <<>> => \A c \in ToSet(children) : c.kind = "title" /\ c.pages = <<0, 0>>

\* What flushing the buffer leaves.
LEMMA FlushListed ==
    ASSUME PInv, CInv, SInv, stage = "split"
    PROVE  /\ Listed(FlushedChildren) /\ Below(FlushedChildren, at)
           /\ \A n \in DOMAIN nodes : Chunkable(n) /\ Stands(n) =>
                 \E c \in ToSet(FlushedChildren) : n \in ToSet(c.nodes)
<1>1. /\ Listed(children) /\ Held
  <2>1. nodes # <<>>
    BY DEF CInv, Staged
  <2> QED BY <2>1 DEF SInv
<1>2. /\ buffer \in Seq(Nat) /\ bufferTok \in Nat /\ bufferTok <= ChildMax
      /\ \A n \in ToSet(buffer) : n \in DOMAIN nodes /\ n < at
  BY DEF CInv, Buffered
<1>3. CASE BufferIsBlank
  <2>1. FlushedChildren = children
    BY <1>3, FlushedChildrenAre
  <2>2. \A n \in ToSet(buffer) : ~Chunkable(n)
    BY <1>1, <1>3 DEF BufferIsBlank, Chunkable, Held
  <2>3. Below(children, at)
    BY <1>1 DEF Held
  <2> QED BY <1>1, <2>1, <2>2, <2>3 DEF Stands
<1>4. CASE ~BufferIsBlank
  <2> DEFINE x == TextChild
  <2>1. FlushedChildren = Append(children, x)
    BY <1>4, FlushedChildrenAre
  <2>2. /\ x.parent = Len(parents) /\ x.kind = "text" /\ x.nodes = buffer /\ x.pages = span
        /\ x.tokens = TokensOfNodes(buffer)
        /\ x.part = 1 /\ x.parts = 1 /\ x.range = <<0, 0>>
        /\ buffer # <<>> /\ Named(x)
    BY <1>4, TextChildIs
  <2> HIDE DEF x
  <2>3. Within(x)
    BY <1>1, <2>2 DEF Within, Held
  <2>4. Paged(x)
    <3>1. buffer[1] \in ToSet(buffer)
      BY <1>2, <2>2 DEF ToSet
    <3>2. \A p \in ToSet(span) \ {0} : OwnPage(buffer, p)
      BY <1>1, <3>1 DEF Held, SpanPage, OwnPage
    <3> QED BY <2>2, <3>2 DEF Paged
  <2>5. Sized(x)
    <3> DEFINE q == (5 * Len(buffer) - 2) \div 4
               t == Total(TokenList(buffer))
               k == TokensOfNodes(buffer)
    <3>1. \E i \in 1..Len(buffer) : ~Blank(buffer[i])
      <4>1. PICK n \in ToSet(buffer) : ~Blank(n)
        BY <1>4 DEF BufferIsBlank
      <4>2. DOMAIN buffer = 1..Len(buffer)
        BY <1>2
      <4> QED BY <4>1, <4>2 DEF ToSet
    <3>2. ToSet(buffer) \subseteq DOMAIN nodes
      BY <1>2
    <3>3. k <= t + q
      BY <1>2, <3>1, <3>2, NodesBounded
    <3>4. t = bufferTok
      BY <1>1 DEF Held
    <3>5. k \in Int /\ q \in Int
      <4>1. k \in Nat
        BY <1>2, <3>1, <3>2, NodesCounted
      <4>2. Len(buffer) \in Nat
        BY <1>2
      <4> DEFINE l == Len(buffer)
      <4>3. l \in Nat
        BY <4>2
      <4> HIDE DEF l
      <4>4. (5 * l - 2) \div 4 \in Int
        BY <4>3
      <4> QED BY <4>1, <4>4 DEF l
    <3> HIDE DEF k, q, t
    <3>6. k <= ChildMax + q
      BY <1>2, <3>3, <3>4, <3>5, ChunkerAssumption
    <3> QED BY <2>2, <3>6 DEF Sized, k, q
  <2>6. Good(x)
    BY <2>3, <2>4, <2>5 DEF Good
  <2>7. Whole(x) = 0
    <3>1. x.kind # "split" /\ x.kind # "table"
      BY <2>2
    <3> QED BY <3>1, Zenon DEF Whole
  <2>8. x.range[1] <= 1 /\ x.range[2] = 0
    BY <2>2
  <2>9. Listed(<<x>>) /\ ToSet(<<x>>) = {x}
    BY <2>2, <2>6, <2>7, <2>8, OneListed
  <2>10. \A c \in ToSet(children) : \A y \in ToSet(c.nodes), z \in ToSet(buffer) : y < z
    BY <1>1 DEF Held, Below
  <2>11. \A c \in ToSet(children) : ToSet(c.nodes) \subseteq Nat
    <3>1. \A c \in ToSet(children) : c.nodes \in Seq(Nat)
      BY DEF CInv, Chunked, Named
    <3> QED BY <3>1 DEF ToSet
  <2>12. ToSet(buffer) \subseteq Nat
    BY <1>2 DEF ToSet
  <2>13. \A c \in ToSet(children), d \in ToSet(<<x>>) :
             \A y \in ToSet(c.nodes), z \in ToSet(d.nodes) : y <= z
    BY <2>2, <2>9, <2>10, <2>11, <2>12, SMTT(60)
  <2>14. Listed(children \o <<x>>)
    BY <1>1, <2>9, <2>13, ConcatListed
  <2>15. FlushedChildren = children \o <<x>> /\ ToSet(FlushedChildren) = ToSet(children) \cup {x}
    <3>1. IsSeq(children)
      BY <1>1 DEF Listed
    <3>2. ToSet(Append(children, x)) = ToSet(children) \cup {x}
      BY <3>1, AppendIs
    <3>3. Append(children, x) = children \o <<x>>
      <4> DEFINE A == ToSet(children) \cup {x}
      <4>1. children \in Seq(A) /\ x \in A
        BY <3>1, SeqMonotonic DEF IsSeq
      <4> HIDE DEF A
      <4> QED BY <4>1, AppendIsConcat
    <3> QED BY <2>1, <3>2, <3>3
  <2>16. Below(FlushedChildren, at)
    BY <1>1, <1>2, <2>2, <2>15 DEF Held, Below
  <2>17. \A n \in DOMAIN nodes : Stands(n) => \E c \in ToSet(FlushedChildren) : n \in ToSet(c.nodes)
    BY <2>2, <2>15 DEF Stands
  <2> QED BY <2>14, <2>15, <2>16, <2>17
<1> QED BY <1>3, <1>4

\* A list is as good when parents follow.
LEMMA ListedStays ==
    ASSUME nodes' = nodes, Listed(children'),
           \A i \in 1..Len(parents) : i \in 1..Len(parents') /\ parents'[i] = parents[i]
    PROVE  Listed(children)'
<1>1. ASSUME NEW c, Good(c) PROVE Good(c)'
  <2>1. Named(c)' /\ parents'[c.parent] = parents[c.parent]
    BY <1>1 DEF Good, Within, Named
  <2>2. Within(c)'
    BY <1>1, <2>1 DEF Good, Within
  <2>3. Paged(c)'
    BY <1>1 DEF Good, Paged, OwnPage, PagesOf, Blank
  <2>4. Sized(c)'
    BY <1>1 DEF Good, Sized
  <2> QED BY <2>2, <2>3, <2>4 DEF Good
<1>2. ASSUME NEW c \in ToSet(children') PROVE Good(c)'
  BY <1>1 DEF Listed
<1>3. Chain(children)'
  <2>1. \A c : Whole(c)' = Whole(c)
    BY Zenon DEF Whole
  <2>2. ASSUME NEW i \in 1..Len(children') PROVE Link(children, i)'
    <3>1. Link(children', i)
      BY DEF Listed, Chain
    <3> QED BY <2>1, <3>1 DEF Link
  <2> QED BY <2>2 DEF Chain
<1> QED BY <1>2, <1>3 DEF Listed, InOrder, IsSeq

\* Before the first node is split.
LEMMA NothingHeld ==
    ASSUME children' = <<>>, buffer' = <<>>, bufferTok' = 0, span' = <<0, 0>>
    PROVE  Listed(children)' /\ Held'
<1>1. ToSet(<<>>) = {} /\ Len(<<>>) = 0 /\ <<>> \in Seq({}) /\ DOMAIN <<>> = {}
  BY DEF ToSet
<1>2. Listed(children)'
  BY <1>1 DEF Listed, Chain, InOrder, IsSeq
<1>3. Rising(<<>>)
  BY <1>1 DEF Rising
<1>4. Total(TokenList(buffer))' = 0
  <2>1. TokenList(buffer)' = <<>>
    <3>1. [i \in DOMAIN <<>> |-> TokensOf(nodes'[<<>>[i]].text)] = <<>>
      OBVIOUS
    <3> QED BY <3>1 DEF TokenList
  <2>2. <<>> \in Seq(Nat)
    OBVIOUS
  <2>3. Total(<<>>) = 0
    BY <2>2, TotalTyped
  <2>4. Total(TokenList(buffer))' = Total(TokenList(buffer)')
    OBVIOUS
  <2> QED BY <2>1, <2>3, <2>4
<1>5. ToSet(<<0, 0>>) \ {0} = {} /\ <<0, 0>> \in Nat \X Nat
  BY DEF ToSet
<1> QED BY <1>1, <1>2, <1>3, <1>4, <1>5 DEF Held, Below

\* Where nothing moves, what is held stays.
LEMMA HeldStays ==
    ASSUME Held, nodes' = nodes, children' = children, buffer' = buffer,
           bufferTok' = bufferTok, span' = span, at' = at,
           buffer = <<>> \/ parents' = parents
    PROVE  Held'
<1>1. \A n \in ToSet(buffer) : n \in ToSet(parents'[Len(parents')].nodes)
  <2>1. CASE buffer = <<>>
    BY <2>1 DEF ToSet
  <2>2. CASE parents' = parents
    BY <2>2 DEF Held
  <2> QED BY <2>1, <2>2
<1>2. Total(TokenList(buffer))' = Total(TokenList(buffer))
  BY DEF TokenList
<1>3. \A p : SpanPage(p) => SpanPage(p)'
  BY DEF SpanPage, PagesOf, Blank
<1> QED BY <1>1, <1>2, <1>3 DEF Held, Below

\* Where nothing moves, all is in its place.
LEMMA PlacedStays ==
    ASSUME Placed, nodes' = nodes, groups' = groups, parents' = parents, stage' = stage,
           at' = at
    PROVE  Placed'
BY DEF Placed, EndOf

\* Where the parents and the chunks stay, nothing is missing.
LEMMA CompleteStays ==
    ASSUME Complete, nodes' = nodes, children' = children, buffer' = buffer, at' = at,
           stage \in {"split", "parent", "done"}
    PROVE  Complete'
BY DEF Complete, Stands, Chunkable, Blank

\* Nothing at first.
LEMMA SBegins ==
    ASSUME Init
    PROVE  SInv
<1>1. /\ stage = "wait" /\ groups = <<>> /\ children = <<>> /\ nodes = <<>>
  BY DEF Init, ParserInit, ChunkerInit
<1>2. Len(<<>>) = 0 /\ ToSet(<<>>) = {}
  BY DEF ToSet
<1>3. Placed
  <2>1. \A k \in 0..Len(groups) : EndOf(k) \in Nat
    BY <1>1, <1>2 DEF EndOf
  <2>2. \A k \in 1..Len(groups) : FALSE
    BY <1>1, <1>2
  <2> QED BY <1>1, <2>1, <2>2 DEF Placed
<1> QED BY <1>1, <1>2, <1>3 DEF SInv

\* Nothing while the parser works.
LEMMA SParses ==
    ASSUME PInv, CInv, SInv, Parse
    PROVE  SInv'
<1>1. /\ stage = "wait" /\ groups = <<>> /\ children = <<>> /\ buffer = <<>>
      /\ bufferTok = 0 /\ span = <<0, 0>>
  <2>1. ~parsed
    BY ParsingIs DEF Parse
  <2> QED BY <2>1 DEF CInv, Staged
<1>2. /\ stage' = stage /\ groups' = groups /\ children' = children /\ buffer' = buffer
      /\ bufferTok' = bufferTok /\ span' = span
  BY DEF Parse, chunkerVars
<1>3. Len(<<>>) = 0 /\ ToSet(<<>>) = {}
  BY DEF ToSet
<1>4. Placed'
  <2>1. \A k \in 0..Len(groups') : EndOf(k)' \in Nat
    BY <1>1, <1>2, <1>3 DEF EndOf
  <2>2. \A k \in 1..Len(groups') : FALSE
    BY <1>1, <1>2, <1>3
  <2> QED BY <1>1, <1>2, <2>1, <2>2 DEF Placed
<1>5. Listed(children)' /\ Held'
  BY <1>1, <1>2, NothingHeld
<1>6. Complete'
  BY <1>1, <1>2 DEF Complete
<1> QED BY <1>1, <1>2, <1>3, <1>4, <1>5, <1>6 DEF SInv

\* Nothing happens.
LEMMA SRests ==
    ASSUME SInv, UNCHANGED vars
    PROVE  SInv'
<1>1. /\ stage' = stage /\ at' = at /\ groups' = groups /\ parents' = parents
      /\ children' = children /\ buffer' = buffer
      /\ bufferTok' = bufferTok /\ span' = span /\ nodes' = nodes
  BY DEF vars, parserVars, chunkerVars
<1>2. Placed'
  BY <1>1, PlacedStays DEF SInv
<1>3. CASE nodes # <<>>
  <2>1. Listed(children) /\ Held /\ Complete
    BY <1>3 DEF SInv
  <2>2. Listed(children')
    BY <1>1, <2>1
  <2>3. Listed(children)'
    BY <1>1, <2>2, ListedStays
  <2>4. Held'
    BY <1>1, <2>1, HeldStays
  <2>5. Complete'
    BY <1>1, <2>1 DEF Complete, Stands, Chunkable, Blank
  <2> QED BY <1>1, <1>2, <1>3, <2>3, <2>4, <2>5 DEF SInv
<1>4. CASE nodes = <<>>
  BY <1>1, <1>2, <1>4 DEF SInv
<1> QED BY <1>3, <1>4

\* A document without content.
LEMMA SEmptyDocument ==
    ASSUME PInv, CInv, SInv, UNCHANGED parserVars, EmptyDocument
    PROVE  SInv'
<1> DEFINE c == [parent |-> 1, kind |-> "title", nodes |-> <<>>, path |-> <<>>,
                 pages |-> <<0, 0>>, tokens |-> 0, part |-> 1, parts |-> 1,
                 range |-> <<0, 0>>]
<1>1. /\ stage = "wait" /\ nodes = <<>> /\ stage' = "done" /\ children' = <<c>>
      /\ at' = at /\ groups' = groups /\ nodes' = nodes
  BY Same DEF EmptyDocument
<1>2. c.kind = "title" /\ c.pages = <<0, 0>>
  OBVIOUS
<1> HIDE DEF c
<1>3. ToSet(children') = {c}
  <2>1. ToSet(<<c>>) = {c}
    BY DEF ToSet
  <2> QED BY <1>1, <2>1
<1>4. groups = <<>> /\ at = 1 /\ Len(<<>>) = 0
  BY <1>1 DEF CInv, Staged
<1>5. Placed'
  <2>1. \A k \in 0..Len(groups') : EndOf(k)' = 0
    BY <1>1, <1>4 DEF EndOf
  <2>2. \A k \in 1..Len(groups') : FALSE
    BY <1>1, <1>4
  <2>3. Len(groups') = 0 /\ Len(nodes') = 0 /\ 0 \in 0..0
    BY <1>1, <1>4
  <2> QED BY <1>1, <1>4, <2>1, <2>2, <2>3 DEF Placed
<1> QED BY <1>1, <1>2, <1>3, <1>5 DEF SInv

\* Grouping begins.
LEMMA SStartGrouping ==
    ASSUME PInv, CInv, SInv, UNCHANGED parserVars, StartGrouping
    PROVE  SInv'
<1>1. /\ stage = "wait" /\ nodes # <<>> /\ stage' = "group" /\ at' = at /\ groups' = groups
      /\ children' = children /\ buffer' = buffer
      /\ bufferTok' = bufferTok /\ span' = span /\ nodes' = nodes
  BY Same DEF StartGrouping
<1>2. /\ at = 1 /\ groups = <<>> /\ children = <<>> /\ buffer = <<>>
      /\ bufferTok = 0 /\ span = <<0, 0>> /\ Len(<<>>) = 0
  BY <1>1 DEF CInv, Staged
<1>3. Listed(children)' /\ Held'
  BY <1>1, <1>2, NothingHeld
<1>4. Placed'
  <2>1. \A k \in 0..Len(groups') : EndOf(k)' = 0
    BY <1>1, <1>2 DEF EndOf
  <2>2. \A k \in 1..Len(groups') : FALSE
    BY <1>1, <1>2
  <2>3. Len(groups') = 0 /\ 0 \in 0..0 /\ at' = 0 + 1
    BY <1>1, <1>2
  <2> QED BY <1>1, <2>1, <2>2, <2>3 DEF Placed
<1>5. Complete'
  BY <1>1 DEF Complete
<1> QED BY <1>1, <1>3, <1>4, <1>5 DEF SInv

\* A node is put into a group.
LEMMA SGroupNode ==
    ASSUME PInv, CInv, SInv, UNCHANGED parserVars, GroupNode
    PROVE  SInv'
<1>1. /\ stage = "group" /\ stage' = stage /\ at' = at + 1 /\ at <= Len(nodes)
      /\ children' = children /\ buffer' = buffer
      /\ bufferTok' = bufferTok /\ span' = span /\ nodes' = nodes
  BY Same DEF GroupNode
<1>2. /\ at \in Nat /\ at > 0 /\ children = <<>> /\ buffer = <<>> /\ nodes # <<>>
      /\ bufferTok = 0 /\ span = <<0, 0>> /\ at = EndOf(Len(groups)) + 1
  BY <1>1 DEF CInv, Staged, SInv, Placed
<1>3. /\ groups \in Seq(Seq(Nat)) /\ Len(groups) \in Nat /\ groups' \in Seq(Seq(Nat))
      /\ \A k \in 0..Len(groups) : EndOf(k) \in Nat
      /\ \A k \in 1..Len(groups) : /\ ToSet(groups[k]) = (EndOf(k - 1) + 1)..EndOf(k)
                                   /\ EndOf(k - 1) < EndOf(k)
      /\ \A k \in 1..Len(groups) : groups[k] # <<>> /\ groups[k] \in Seq(Nat)
  <2>1. groups' \in Seq(Seq(Nat))
    BY GroupNodeKeeps DEF CInv, Grouped
  <2> QED BY <2>1 DEF CInv, Grouped, SInv, Placed
<1>4. Listed(children)' /\ Held'
  BY <1>1, <1>2, NothingHeld
<1>5. Complete'
  BY <1>1 DEF Complete
<1>a. PICK n \in Nat : n = Len(groups)
  BY <1>3
<1>b. EndOf(n) \in Nat /\ EndOf(n) = at - 1
  <2>1. EndOf(Len(groups)) = EndOf(n)
    BY <1>a
  <2>2. n \in 0..Len(groups)
    BY <1>a
  <2>3. EndOf(n) \in Nat
    BY <1>3, <2>2
  <2>4. at = EndOf(n) + 1
    BY <1>2, <2>1
  <2> DEFINE e == EndOf(n)
  <2>5. e \in Nat /\ at = e + 1
    BY <2>3, <2>4
  <2> HIDE DEF e
  <2>6. e = at - 1
    BY <2>5
  <2> QED BY <2>5, <2>6 DEF e
<1>6. CASE groups = <<>> \/ ClosesGroup(at)
  <2> DEFINE e == <<at>>
  <2>1. groups' = Append(groups, e)
    BY <1>6 DEF GroupNode
  <2>2. e \in Seq(Nat) /\ e[Len(e)] = at /\ ToSet(e) = {at}
    BY <1>2 DEF ToSet
  <2> HIDE DEF e
  <2>3. Len(groups') = n + 1 /\ groups'[n + 1] = e /\ \A k \in 1..n : groups'[k] = groups[k]
    BY <1>3, <1>a, <2>1, <2>2
  <2>4. (\A k \in 0..n : EndOf(k)' = EndOf(k)) /\ EndOf(n + 1)' = at
    <3>1. \A k \in 0..n : k = 0 \/ k \in 1..n
      BY <1>3
    <3>2. n + 1 # 0
      BY <1>3
    <3>3. EndOf(n + 1)' = groups'[n + 1][Len(groups'[n + 1])]
      BY <3>2 DEF EndOf
    <3>4. \A k \in 1..n : EndOf(k)' = EndOf(k)
      BY <2>3 DEF EndOf
    <3>5. EndOf(0)' = EndOf(0)
      BY DEF EndOf
    <3> QED BY <2>2, <2>3, <3>1, <3>3, <3>4, <3>5
  <2>5. \A k \in 0..(n + 1) : k \in 0..n \/ k = n + 1
    BY <1>3
  <2>6. \A k \in 1..(n + 1) : k \in 1..n \/ k = n + 1
    BY <1>3
  <2>7. \A k \in 0..(n + 1) : EndOf(k)' \in Nat
    BY <1>2, <1>3, <1>a, <2>4, <2>5
  <2>8. ASSUME NEW k \in 1..(n + 1)
        PROVE  /\ ToSet(groups'[k]) = (EndOf(k - 1)' + 1)..EndOf(k)'
               /\ EndOf(k - 1)' < EndOf(k)'
    <3>1. CASE k \in 1..n
      <4>1. k \in 0..n /\ k - 1 \in 0..n
        BY <1>3, <3>1
      <4> QED BY <1>3, <1>a, <2>3, <2>4, <3>1, <4>1
    <3>2. CASE k = n + 1
      <4>1. k - 1 = n /\ n \in 0..n
        BY <1>3, <3>2
      <4>2. EndOf(k - 1)' = at - 1 /\ EndOf(k)' = at
        <5>1. EndOf(n)' = at - 1 /\ EndOf(n + 1)' = at
          BY <1>b, <2>4, <4>1
        <5> QED BY <3>2, <4>1, <5>1
      <4>3. ((at - 1) + 1)..at = {at} /\ at - 1 < at
        BY <1>2
      <4> QED BY <2>2, <2>3, <3>2, <4>2, <4>3
    <3> QED BY <2>6, <3>1, <3>2
  <2>9. Placed'
    <3>1. n + 1 \in 0..(n + 1) /\ Len(groups') = n + 1
      BY <2>3
    <3>2. EndOf(Len(groups))' = at
      BY <2>4, <3>1
    <3> QED BY <1>1, <2>7, <2>8, <3>1, <3>2 DEF Placed
  <2> QED BY <1>1, <1>2, <1>4, <1>5, <2>9 DEF SInv
<1>7. CASE ~(groups = <<>> \/ ClosesGroup(at))
  <2> DEFINE g == groups[n]
             h == Append(g, at)
  <2>1. groups' = [groups EXCEPT ![n] = h] /\ n \in 1..n /\ n - 1 \in 0..n /\ n \in 0..n
    BY <1>3, <1>a, <1>7 DEF GroupNode
  <2>2. g \in Seq(Nat) /\ IsSeq(g)
    <3>1. g \in Seq(Nat)
      BY <1>3, <1>a, <2>1
    <3> HIDE DEF g
    <3>2. g \in Seq(ToSet(g))
      BY <3>1 DEF ToSet
    <3> QED BY <3>1, <3>2 DEF IsSeq
  <2>3. h \in Seq(Nat) /\ h[Len(h)] = at /\ ToSet(h) = ToSet(g) \cup {at}
    <3> HIDE DEF g
    <3>1. h \in Seq(Nat) /\ h[Len(h)] = at
      BY <1>2, <2>2
    <3>2. ToSet(h) = ToSet(g) \cup {at}
      BY <2>2, AppendIs
    <3> QED BY <3>1, <3>2
  <2> HIDE DEF h
  <2>4. Len(groups') = n /\ groups'[n] = h /\ \A k \in 1..n : k # n => groups'[k] = groups[k]
    BY <1>3, <1>a, <2>1, <2>3
  <2>5. (\A k \in 0..n : k # n => EndOf(k)' = EndOf(k)) /\ EndOf(n)' = at
    <3>1. \A k \in 0..n : k = 0 \/ k \in 1..n
      BY <1>3
    <3>2. n # 0
      BY <1>3, <2>1
    <3>3. EndOf(n)' = groups'[n][Len(groups'[n])]
      BY <3>2 DEF EndOf
    <3>4. \A k \in 1..n : k # n => EndOf(k)' = EndOf(k)
      BY <2>4 DEF EndOf
    <3>5. EndOf(0)' = EndOf(0)
      BY DEF EndOf
    <3> QED BY <2>3, <2>4, <3>1, <3>3, <3>4, <3>5
  <2>6. \A k \in 0..n : EndOf(k)' \in Nat
    BY <1>2, <1>3, <1>a, <2>5
  <2>7. ASSUME NEW k \in 1..n
        PROVE  /\ ToSet(groups'[k]) = (EndOf(k - 1)' + 1)..EndOf(k)'
               /\ EndOf(k - 1)' < EndOf(k)'
    <3>1. k - 1 \in 0..n /\ k - 1 # n /\ k \in 0..n
      BY <1>3
    <3>2. EndOf(k - 1)' = EndOf(k - 1)
      BY <2>5, <3>1
    <3>3. CASE k # n
      <4>1. EndOf(k)' = EndOf(k) /\ groups'[k] = groups[k]
        BY <2>4, <2>5, <3>1, <3>3
      <4> QED BY <1>3, <1>a, <3>2, <4>1
    <3>4. CASE k = n
      <4> DEFINE a == EndOf(k - 1)
      <4>1. a \in Nat /\ a < EndOf(n) /\ EndOf(n) = at - 1 /\ EndOf(n) \in Nat
            /\ ToSet(g) = (a + 1)..EndOf(n)
        <5>1. /\ a \in Nat /\ a < EndOf(k) /\ ToSet(groups[k]) = (a + 1)..EndOf(k)
          BY <1>3, <1>a, <2>1, <3>1, <3>4
        <5> QED BY <1>b, <3>4, <5>1
      <4>2. EndOf(k)' = at /\ groups'[k] = h
        BY <2>4, <2>5, <3>4
      <4> HIDE DEF a
      <4>3. ((a + 1)..(at - 1)) \cup {at} = (a + 1)..at /\ a < at
        BY <1>2, <4>1
      <4>4. ToSet(h) = (a + 1)..at
        BY <2>3, <4>1, <4>3
      <4> QED BY <3>2, <4>2, <4>3, <4>4 DEF a
    <3> QED BY <3>3, <3>4
  <2>8. Placed'
    <3>1. n \in 0..n /\ Len(groups') = n
      BY <2>4
    <3>2. EndOf(Len(groups))' = at
      BY <2>5, <3>1
    <3> QED BY <1>1, <2>6, <2>7, <3>1, <3>2 DEF Placed
  <2> QED BY <1>1, <1>2, <1>4, <1>5, <2>8 DEF SInv
<1> QED BY <1>6, <1>7

\* Grouping ends.
LEMMA SEndGrouping ==
    ASSUME PInv, CInv, SInv, UNCHANGED parserVars, EndGrouping
    PROVE  SInv'
<1>1. /\ stage = "group" /\ at > Len(nodes) /\ stage' = "parent" /\ at' = 1
      /\ groups' = groups /\ parents' = parents
      /\ children' = children /\ buffer' = buffer
      /\ bufferTok' = bufferTok /\ span' = span /\ nodes' = nodes
  BY Same DEF EndGrouping
<1>2. /\ at \in Nat /\ parents = <<>> /\ children = <<>> /\ buffer = <<>>
      /\ bufferTok = 0 /\ span = <<0, 0>> /\ nodes # <<>> /\ Len(<<>>) = 0
  BY <1>1 DEF CInv, Staged
<1>3. Listed(children)' /\ Held'
  BY <1>1, <1>2, NothingHeld
<1>4. Placed'
  <2>1. Placed /\ at <= Len(nodes) + 1 /\ Len(nodes) \in Nat /\ at = EndOf(Len(groups)) + 1
    BY <1>1 DEF SInv, Placed, CInv, Grouped, PInv, Typed
  <2>2. EndOf(Len(groups)) = Len(nodes)
    <3> DEFINE e == EndOf(Len(groups))
               l == Len(nodes)
    <3>1. e \in Nat
      <4>1. Len(groups) \in Nat
        BY DEF CInv, Grouped
      <4>2. Len(groups) \in 0..Len(groups)
        BY <4>1
      <4> QED BY <2>1, <4>2 DEF Placed
    <3>2. at <= l + 1 /\ at > l /\ l \in Nat /\ at = e + 1
      BY <1>1, <2>1
    <3> HIDE DEF e, l
    <3>3. e = l
      BY <1>2, <3>1, <3>2
    <3> QED BY <3>3 DEF e, l
  <2>3. EndOf(0)' = 0
    BY DEF EndOf
  <2>4. EndOf(Len(parents))' = 0
    BY <1>1, <1>2 DEF EndOf
  <2>5. /\ \A k \in 0..Len(groups') : EndOf(k)' \in Nat
        /\ \A k \in 1..Len(groups') : /\ ToSet(groups'[k]) = (EndOf(k - 1)' + 1)..EndOf(k)'
                                      /\ EndOf(k - 1)' < EndOf(k)'
        /\ EndOf(Len(groups))' = EndOf(Len(groups))
    BY <1>1, <2>1 DEF Placed, EndOf
  <2> QED BY <1>1, <2>2, <2>4, <2>5 DEF Placed
<1>5. Complete'
  <2>1. \A n \in DOMAIN nodes : ~(n < 1)
    BY DEF PInv, Typed
  <2> QED BY <1>1, <2>1 DEF Complete
<1> QED BY <1>1, <1>2, <1>3, <1>4, <1>5 DEF SInv

\* The next parent.
LEMMA SStartParent ==
    ASSUME PInv, CInv, SInv, UNCHANGED parserVars, StartParent
    PROVE  SInv'
<1> DEFINE p == [nodes |-> groups[Len(parents) + 1],
                 path |-> ParentPath(groups[Len(parents) + 1]),
                 pages |-> PageSpan(groups[Len(parents) + 1])]
<1>1. /\ stage = "parent" /\ Len(parents) < Len(groups) /\ stage' = "split"
      /\ parents' = Append(parents, p)
      /\ at' = at /\ groups' = groups /\ children' = children /\ buffer' = buffer
      /\ bufferTok' = bufferTok /\ span' = span /\ nodes' = nodes
  BY Same DEF StartParent
<1> HIDE DEF p
<1>2. nodes # <<>> /\ buffer = <<>> /\ IsSeq(parents) /\ at \in Nat
  BY <1>1 DEF CInv, Staged, Parented, Buffered
<1>3. PICK n \in Nat : n = Len(parents)
  BY <1>2, SeqIs
<1>4. Len(parents') = n + 1 /\ \A i \in 1..n : parents'[i] = parents[i]
  BY <1>1, <1>2, <1>3, AppendIs
<1>5. Listed(children) /\ Held /\ Complete /\ Placed
  BY <1>2 DEF SInv
<1>6. Listed(children)'
  <2>1. Listed(children')
    BY <1>1, <1>5
  <2>2. \A i \in 1..Len(parents) : i \in 1..Len(parents') /\ parents'[i] = parents[i]
    BY <1>3, <1>4
  <2> QED BY <1>1, <2>1, <2>2, ListedStays
<1>7. Held'
  BY <1>1, <1>2, <1>5, HeldStays
<1>8. Complete'
  BY <1>1, <1>5, CompleteStays
<1>9. Placed'
  <2>1. /\ \A k \in 0..Len(groups') : EndOf(k)' \in Nat
        /\ \A k \in 1..Len(groups') : /\ ToSet(groups'[k]) = (EndOf(k - 1)' + 1)..EndOf(k)'
                                      /\ EndOf(k - 1)' < EndOf(k)'
    BY <1>1, <1>5 DEF Placed, EndOf
  <2>2. EndOf(Len(groups))' = Len(nodes)
    BY <1>1, <1>5 DEF Placed, EndOf
  <2>3. at = EndOf(n) + 1 /\ EndOf(n)' = EndOf(n)
    BY <1>1, <1>3, <1>5 DEF Placed, EndOf
  <2>4. Len(groups) \in Nat
    BY DEF CInv, Grouped
  <2>5. n + 1 \in 1..Len(groups') /\ n \in 0..Len(groups') /\ n + 1 \in 0..Len(groups')
        /\ (n + 1) - 1 = n
    BY <1>1, <1>3, <2>4
  <2>6. EndOf(n)' < EndOf(n + 1)' /\ EndOf(n + 1)' \in Nat /\ EndOf(n)' \in Nat
    BY <2>1, <2>5
  <2>7. EndOf(n)' < at /\ at <= EndOf(n + 1)' + 1
    <3> DEFINE a == EndOf(n)
               b == EndOf(n + 1)'
    <3>1. a \in Nat /\ b \in Nat /\ a < b /\ at = a + 1
      BY <2>3, <2>6
    <3> HIDE DEF a, b
    <3>2. a < at /\ at <= b + 1
      BY <3>1
    <3> QED BY <2>3, <3>2 DEF a, b
  <2>8. Len(parents') - 1 = n /\ Len(parents') = n + 1
    BY <1>4
  <2>9. EndOf(Len(parents) - 1)' = EndOf(n)' /\ EndOf(Len(parents))' = EndOf(n + 1)'
    BY <2>8 DEF EndOf
  <2> QED BY <1>1, <2>1, <2>2, <2>7, <2>9 DEF Placed
<1> QED BY <1>1, <1>2, <1>6, <1>7, <1>8, <1>9 DEF SInv

\* The last parent has been split.
LEMMA SFinish ==
    ASSUME PInv, CInv, SInv, UNCHANGED parserVars, Finish
    PROVE  SInv'
<1>1. /\ stage = "parent" /\ Len(parents) = Len(groups) /\ stage' = "done"
      /\ parents' = parents
      /\ at' = at /\ groups' = groups /\ children' = children /\ buffer' = buffer
      /\ bufferTok' = bufferTok /\ span' = span /\ nodes' = nodes
  BY Same DEF Finish
<1>2. nodes # <<>>
  BY <1>1 DEF CInv, Staged
<1>3. Listed(children) /\ Held /\ Complete /\ Placed
  BY <1>2 DEF SInv
<1>4. Listed(children)'
  <2>1. Listed(children')
    BY <1>1, <1>3
  <2> QED BY <1>1, <2>1, ListedStays
<1>5. Held' /\ Complete'
  BY <1>1, <1>3, HeldStays, CompleteStays
<1>6. Placed'
  <2>1. at = EndOf(Len(parents)) + 1 /\ EndOf(Len(groups)) = Len(nodes)
    BY <1>1, <1>3 DEF Placed
  <2>2. at = Len(nodes) + 1
    BY <1>1, <2>1
  <2> QED BY <1>1, <1>3, <2>2 DEF Placed, EndOf
<1> QED BY <1>1, <1>2, <1>4, <1>5, <1>6 DEF SInv

\* The next node of the parent at hand.
LEMMA SOnward ==
    ASSUME PInv, CInv, SInv, UNCHANGED parserVars, Splitting, Onward
    PROVE  Placed'
<1>1. /\ at' = at + 1 /\ stage' = stage /\ groups' = groups
      /\ parents' = parents /\ nodes' = nodes
  BY Same DEF Onward
<1>2. /\ stage = "split" /\ at \in Nat /\ Len(parents) \in Nat /\ Len(parents) > 0
      /\ at \in ToSet(parents[Len(parents)].nodes)
  BY SplitAt
<1>3. /\ Len(parents) <= Len(groups) /\ Len(groups) \in Nat
      /\ parents[Len(parents)].nodes = groups[Len(parents)]
  <2>1. nodes # <<>>
    BY <1>2 DEF CInv, Staged
  <2>2. /\ Len(parents) <= Len(groups) /\ Len(groups) \in Nat
        /\ \A i \in 1..Len(parents) : parents[i].nodes = groups[i]
    BY <2>1 DEF CInv, Parented, Grouped
  <2>3. Len(parents) \in 1..Len(parents)
    BY <1>2
  <2> QED BY <2>2, <2>3
<1>4. PICK n \in Nat : n = Len(parents) /\ n \in 1..Len(groups) /\ n \in 0..Len(groups)
  BY <1>2, <1>3
<1>5. Placed
  BY DEF SInv
<1>6. /\ EndOf(n) \in Nat /\ ToSet(groups[n]) = (EndOf(n - 1) + 1)..EndOf(n)
      /\ EndOf(n - 1) < at
  BY <1>2, <1>4, <1>5 DEF Placed
<1>7. EndOf(n - 1) \in Nat
  <2>1. n - 1 \in 0..Len(groups)
    BY <1>3, <1>4
  <2> QED BY <1>5, <2>1 DEF Placed
<1>8. at <= EndOf(n)
  <2>1. at \in (EndOf(n - 1) + 1)..EndOf(n)
    BY <1>2, <1>3, <1>4, <1>6
  <2> QED BY <1>6, <1>7, <2>1
<1>9. EndOf(n - 1) < at + 1 /\ at + 1 <= EndOf(n) + 1
  <2> DEFINE a == EndOf(n - 1)
             b == EndOf(n)
  <2>1. a \in Nat /\ b \in Nat /\ a < at /\ at <= b
    BY <1>6, <1>7, <1>8
  <2> HIDE DEF a, b
  <2>2. a < at + 1 /\ at + 1 <= b + 1
    BY <1>2, <2>1
  <2> QED BY <2>2 DEF a, b
<1>10. EndOf(Len(parents) - 1) < at + 1 /\ at + 1 <= EndOf(Len(parents)) + 1
  BY <1>4, <1>9
<1> QED BY <1>1, <1>2, <1>5, <1>10 DEF Placed, EndOf

\* The pages that a flush leaves to the next chunk are of blank texts.
LEMMA FlushedSpanIs ==
    ASSUME CInv, SInv, stage = "split"
    PROVE  /\ FlushedSpan \in Nat \X Nat
           /\ \A p \in ToSet(FlushedSpan) \ {0} :
                 \E n \in DOMAIN nodes : Blank(n) /\ nodes[n].page = p /\ n < at
<1>1. Held /\ \A n \in ToSet(buffer) : n \in DOMAIN nodes /\ n < at
  BY DEF SInv, CInv, Staged, Buffered
<1>2. CASE BufferIsBlank
  <2>1. FlushedSpan = span
    BY <1>2 DEF FlushedSpan
  <2>2. ASSUME NEW p \in ToSet(span) \ {0}
        PROVE  \E n \in DOMAIN nodes : Blank(n) /\ nodes[n].page = p /\ n < at
    <3>1. SpanPage(p)
      BY <1>1 DEF Held
    <3>2. CASE p \in PagesOf(buffer)
      BY <1>1, <1>2, <3>2 DEF PagesOf, BufferIsBlank
    <3> QED BY <3>1, <3>2 DEF SpanPage
  <2> QED BY <1>1, <2>1, <2>2 DEF Held
<1>3. CASE ~BufferIsBlank
  <2>1. FlushedSpan = <<0, 0>>
    BY <1>3 DEF FlushedSpan
  <2>2. ToSet(<<0, 0>>) \ {0} = {}
    BY DEF ToSet
  <2> QED BY <2>1, <2>2
<1> QED BY <1>2, <1>3

\* A table, a figure or a long text.
LEMMA SCut ==
    ASSUME PInv, CInv, SInv, UNCHANGED parserVars, SplitTable \/ SplitFigure \/ SplitLongText
    PROVE  SInv'
<1>1. PICK more : PartsOfNode(more) /\ FlushAnd(more)
  BY CutIs
<1>2. Splitting /\ Onward
  BY CutIs
<1>3. /\ stage = "split" /\ at \in Nat /\ at \in DOMAIN nodes /\ nodes # <<>>
      /\ at' = at + 1 /\ stage' = stage /\ groups' = groups
      /\ parents' = parents /\ nodes' = nodes
  <2>1. stage = "split" /\ at \in Nat /\ at \in DOMAIN nodes
    BY <1>2, SplitAt
  <2>2. nodes # <<>>
    BY <2>1 DEF CInv, Staged
  <2> QED BY <1>2, <2>1, <2>2, Same DEF Onward
<1>4. /\ children' = FlushedChildren \o more /\ buffer' = <<>> /\ bufferTok' = 0
      /\ span' = FlushedSpan
  BY <1>1 DEF FlushAnd
<1>5. /\ Listed(FlushedChildren) /\ Below(FlushedChildren, at)
      /\ \A n \in DOMAIN nodes : Chunkable(n) /\ Stands(n) =>
            \E c \in ToSet(FlushedChildren) : n \in ToSet(c.nodes)
  BY <1>3, FlushListed
<1>6. /\ Listed(more) /\ (\A c \in ToSet(more) : ToSet(c.nodes) = {at})
      /\ \E c \in ToSet(more) : at \in ToSet(c.nodes)
  BY <1>1, <1>2, PartsListed
<1> DEFINE s == FlushedChildren
<1> HIDE DEF s
<1>7. Listed(s) /\ Below(s, at) /\ children' = s \o more
  BY <1>4, <1>5 DEF s
<1>8. \A c \in ToSet(s) : \A x \in ToSet(c.nodes) : x \in Nat /\ x < at
  <2>1. \A c \in ToSet(s) : c.nodes \in Seq(Nat)
    BY <1>7 DEF Listed, Good, Within, Named
  <2>2. \A c \in ToSet(s) : ToSet(c.nodes) \subseteq Nat
    BY <2>1 DEF ToSet
  <2> QED BY <1>7, <2>2 DEF Below
<1>9. Listed(s \o more)
  <2>1. \A c \in ToSet(s), d \in ToSet(more) :
            \A x \in ToSet(c.nodes), y \in ToSet(d.nodes) : x <= y
    <3>1. \A x \in Nat : x < at => x <= at
      BY <1>3
    <3>2. ASSUME NEW c \in ToSet(s), NEW d \in ToSet(more), NEW x \in ToSet(c.nodes),
                 NEW y \in ToSet(d.nodes)
          PROVE  x <= y
      <4>1. x \in Nat /\ x < at /\ y = at
        BY <1>6, <1>8
      <4> QED BY <3>1, <4>1
    <3> QED BY <3>2
  <2> QED BY <1>6, <1>7, <2>1, ConcatListed
<1>10. ToSet(s \o more) = ToSet(s) \cup ToSet(more)
  <2>1. IsSeq(s) /\ IsSeq(more)
    BY <1>6, <1>7 DEF Listed
  <2> QED BY <2>1, ConcatIs
<1>11. Listed(children)'
  <2>1. Listed(children')
    BY <1>7, <1>9
  <2> QED BY <1>3, <2>1, ListedStays
<1>12. Held'
  <2>1. ToSet(<<>>) = {} /\ Rising(<<>>)
    BY DEF ToSet, Rising
  <2>2. Below(children, at)'
    <3>1. \A c \in ToSet(s \o more) : \A x \in ToSet(c.nodes) : x < at + 1
      <4>1. \A c \in ToSet(s) : \A x \in ToSet(c.nodes) : x < at + 1
        <5>1. \A x \in Nat : x < at => x < at + 1
          BY <1>3
        <5> QED BY <1>8, <5>1
      <4>2. at < at + 1
        BY <1>3
      <4> QED BY <1>6, <1>10, <4>1, <4>2
    <3> QED BY <1>3, <1>7, <3>1 DEF Below
  <2>3. Total(TokenList(buffer))' = 0
    <3>1. TokenList(buffer)' = <<>>
      <4>1. [i \in DOMAIN <<>> |-> TokensOf(nodes'[<<>>[i]].text)] = <<>>
        OBVIOUS
      <4> QED BY <1>4, <4>1 DEF TokenList
    <3>2. <<>> \in Seq(Nat)
      OBVIOUS
    <3>3. Total(<<>>) = 0
      BY <3>2, TotalTyped
    <3>4. Total(TokenList(buffer))' = Total(TokenList(buffer)')
      OBVIOUS
    <3> QED BY <3>1, <3>3, <3>4
  <2>4. span' \in Nat \X Nat /\ \A p \in ToSet(span') \ {0} : SpanPage(p)'
    <3>1. /\ FlushedSpan \in Nat \X Nat
          /\ \A p \in ToSet(FlushedSpan) \ {0} :
                \E n \in DOMAIN nodes : Blank(n) /\ nodes[n].page = p /\ n < at
      BY <1>3, FlushedSpanIs
    <3>2. \A n \in DOMAIN nodes : n < at => n < at + 1
      <4>1. DOMAIN nodes \subseteq Nat
        BY DEF PInv, Typed
      <4> QED BY <1>3, <4>1
    <3> QED BY <1>3, <1>4, <2>1, <3>1, <3>2 DEF SpanPage, Blank
  <2> QED BY <1>4, <2>1, <2>2, <2>3, <2>4 DEF Held
<1>13. Complete'
  <2>1. ASSUME NEW n \in DOMAIN nodes, n < at + 1, Chunkable(n)
        PROVE  \E c \in ToSet(s \o more) : n \in ToSet(c.nodes)
    <3>1. CASE n = at
      BY <1>6, <1>10, <3>1
    <3>2. CASE n # at
      <4>1. n \in Nat
        BY NodeIs
      <4>2. n < at
        BY <1>3, <2>1, <3>2, <4>1
      <4>3. Stands(n)
        BY <1>3, <2>1, <4>2 DEF SInv, Complete
      <4> QED BY <1>5, <1>10, <2>1, <4>3 DEF s
    <3> QED BY <3>1, <3>2
  <2> QED BY <1>3, <1>7, <2>1 DEF Complete, Stands, Chunkable, Blank
<1>14. Placed'
  BY <1>2, SOnward
<1> QED BY <1>3, <1>11, <1>12, <1>13, <1>14 DEF SInv

\* Numbers before n come before the next number.
LEMMA BelowNext ==
    ASSUME NEW s, NEW n \in Nat, Below(s, n), \A c \in ToSet(s) : c.nodes \in Seq(Nat)
    PROVE  Below(s, n + 1)
<1>1. \A x \in Nat : x < n => x < n + 1
  OBVIOUS
<1>2. \A c \in ToSet(s) : ToSet(c.nodes) \subseteq Nat
  BY DEF ToSet
<1> QED BY <1>1, <1>2 DEF Below

\* An empty text is passed over.
LEMMA SSkip ==
    ASSUME PInv, CInv, SInv, UNCHANGED parserVars, SkipEmptyText
    PROVE  SInv'
<1>1. /\ Splitting /\ Onward /\ Here.data = "none" /\ Here.text = <<>>
      /\ children' = children /\ buffer' = buffer /\ bufferTok' = bufferTok /\ span' = span
      /\ stage' = stage /\ at' = at + 1 /\ parents' = parents /\ nodes' = nodes
  BY Same DEF SkipEmptyText, Onward, HasText, Here
<1>2. stage = "split" /\ at \in Nat /\ at \in DOMAIN nodes /\ nodes # <<>>
  <2>1. stage = "split" /\ at \in Nat /\ at \in DOMAIN nodes
    BY <1>1, SplitAt
  <2> QED BY <2>1 DEF CInv, Staged
<1>3. Listed(children) /\ Held /\ Complete
  BY <1>2 DEF SInv
<1>4. DOMAIN nodes \subseteq Nat
  BY DEF PInv, Typed
<1>5. Listed(children)'
  <2>1. Listed(children')
    BY <1>1, <1>3
  <2> QED BY <1>1, <2>1, ListedStays
<1>6. Held'
  <2>1. Below(children, at + 1)
    <3>1. \A c \in ToSet(children) : c.nodes \in Seq(Nat)
      BY DEF CInv, Chunked, Named
    <3> QED BY <1>2, <1>3, <3>1, BelowNext DEF Held
  <2>2. Total(TokenList(buffer))' = Total(TokenList(buffer))
    BY <1>1 DEF TokenList
  <2>3. \A n \in DOMAIN nodes : n < at => n < at + 1
    BY <1>2, <1>4
  <2>4. \A p : SpanPage(p) => SpanPage(p)'
    BY <1>1, <2>3 DEF SpanPage, PagesOf, Blank
  <2> QED BY <1>1, <1>3, <2>1, <2>2, <2>4 DEF Held, Below
<1>7. Complete'
  <2>1. ~Chunkable(at)
    <3>1. Words(<<>>) = 0
      <4>1. <<>> \in Seq(Nat \X Nat)
        OBVIOUS
      <4> QED BY <4>1, TextIs
    <3> QED BY <1>1, <3>1 DEF Chunkable, Blank, Here
  <2>2. \A n \in DOMAIN nodes : n < at + 1 => n = at \/ n < at
    BY <1>2, <1>4
  <2>3. \A n \in DOMAIN nodes : n < at + 1 /\ Chunkable(n) => Stands(n)
    BY <1>2, <1>3, <2>1, <2>2 DEF Complete
  <2> QED BY <1>1, <2>3 DEF Complete, Stands, Chunkable, Blank
<1>8. Placed'
  BY <1>1, SOnward
<1> QED BY <1>1, <1>2, <1>5, <1>6, <1>7, <1>8 DEF SInv

\* The pages of a buffer that takes one more text.
LEMMA SpanWithIs ==
    ASSUME PInv, at \in DOMAIN nodes, NEW pages \in Nat \X Nat
    PROVE  /\ SpanWith(pages) \in Nat \X Nat
           /\ \A p \in ToSet(SpanWith(pages)) : p \in ToSet(pages) \/ p = Here.page
<1>1. Here.page \in Nat /\ pages[1] \in Nat /\ pages[2] \in Nat
  BY NodeIs DEF Here
<1>2. pages = <<pages[1], pages[2]>>
  OBVIOUS
<1> DEFINE a == pages[1]
           b == pages[2]
           h == Here.page
<1>3. a \in Nat /\ b \in Nat /\ h \in Nat /\ pages = <<a, b>>
  BY <1>1, <1>2
<1>4. SpanWith(pages) = IF h = 0 THEN pages ELSE <<IF a = 0 THEN h ELSE a, h>>
  BY DEF SpanWith
<1> HIDE DEF a, b, h
<1>5. ToSet(<<a, b>>) = {a, b} /\ ToSet(<<h, h>>) = {h} /\ ToSet(<<a, h>>) = {a, h}
  BY DEF ToSet
<1>6. CASE h = 0
  BY <1>3, <1>4, <1>6
<1>7. CASE h # 0 /\ a = 0
  <2>1. SpanWith(pages) = <<h, h>>
    BY <1>4, <1>7
  <2> QED BY <1>3, <1>5, <2>1 DEF h
<1>8. CASE h # 0 /\ a # 0
  <2>1. SpanWith(pages) = <<a, h>>
    BY <1>4, <1>8
  <2> QED BY <1>3, <1>5, <2>1 DEF h
<1> QED BY <1>6, <1>7, <1>8

\* One more in a list that rises.
LEMMA RisingOne ==
    ASSUME NEW s \in Seq(Nat), NEW n \in Nat, Rising(s), \A x \in ToSet(s) : x < n
    PROVE  /\ Append(s, n) \in Seq(Nat) /\ Rising(Append(s, n))
           /\ ToSet(Append(s, n)) = ToSet(s) \cup {n}
<1> DEFINE t == Append(s, n)
           m == Len(s)
<1>1. /\ m \in Nat /\ t \in Seq(Nat) /\ Len(t) = m + 1 /\ DOMAIN t = 1..(m + 1)
      /\ t[m + 1] = n /\ \A i \in 1..m : t[i] = s[i] /\ s[i] \in Nat
  OBVIOUS
<1>2. (\A i \in 1..m : s[i] \in ToSet(s)) /\ DOMAIN s = 1..m
  BY DEF ToSet
<1>3. ToSet(t) = ToSet(s) \cup {n}
  <2>1. s \in Seq(ToSet(s))
    BY DEF ToSet
  <2> QED BY <2>1, AppendIs DEF IsSeq
<1> HIDE DEF t, m
<1>4. ASSUME NEW i \in 1..(m + 1), NEW j \in 1..(m + 1), i < j
      PROVE  t[i] < t[j]
  <2>1. i \in 1..m /\ (j \in 1..m \/ j = m + 1)
    BY <1>1, <1>4
  <2>2. CASE j \in 1..m
    BY <1>1, <1>2, <1>4, <2>1, <2>2 DEF Rising
  <2>3. CASE j = m + 1
    BY <1>1, <1>2, <2>1, <2>3
  <2> QED BY <2>1, <2>2, <2>3
<1>5. Rising(t)
  BY <1>1, <1>4 DEF Rising
<1> QED BY <1>1, <1>3, <1>5 DEF t

\* A text that is put into the buffer.
LEMMA SBufferText ==
    ASSUME PInv, CInv, SInv, UNCHANGED parserVars, BufferText
    PROVE  SInv'
<1> DEFINE k == TokensOf(Here.text)
<1>1. /\ Splitting /\ Onward /\ Here.data = "none"
      /\ stage' = stage /\ at' = at + 1 /\ parents' = parents /\ nodes' = nodes
  BY Same DEF BufferText, Onward
<1>2. /\ stage = "split" /\ at \in Nat /\ at \in DOMAIN nodes /\ nodes # <<>>
      /\ at \in ToSet(parents[Len(parents)].nodes) /\ Here = nodes[at]
      /\ k \in Nat
  <2>1. /\ stage = "split" /\ at \in Nat /\ at \in DOMAIN nodes
        /\ at \in ToSet(parents[Len(parents)].nodes)
    BY <1>1, SplitAt
  <2>2. nodes # <<>>
    BY <2>1 DEF CInv, Staged
  <2> QED BY <2>1, <2>2, NodeIs DEF Here
<1>3. Listed(children) /\ Held /\ Complete
  BY <1>2 DEF SInv
<1>4. DOMAIN nodes \subseteq Nat
  BY DEF PInv, Typed
<1>5. Placed'
  BY <1>1, SOnward
<1>6. /\ buffer \in Seq(Nat) /\ \A n \in ToSet(buffer) : n \in DOMAIN nodes /\ n \in Nat /\ n < at
  <2>1. ToSet(buffer) \subseteq Nat
    BY DEF CInv, Buffered, ToSet
  <2> QED BY <2>1 DEF CInv, Buffered
<1>7. \A n \in DOMAIN nodes : n < at + 1 => n = at \/ n < at
  BY <1>2, <1>4
<1>8. \A n \in DOMAIN nodes : n < at => n < at + 1
  BY <1>2, <1>4
<1>9. \A p : p = Here.page /\ p # 0 /\ at \in ToSet(buffer') => SpanPage(p)'
  BY <1>1, <1>2 DEF SpanPage, PagesOf
<1>10. CASE Overflows
  <2>1. /\ children' = FlushedChildren /\ buffer' = <<at>> /\ bufferTok' = k
        /\ span' = SpanWith(FlushedSpan)
    BY <1>10 DEF BufferText
  <2>2. /\ Listed(FlushedChildren) /\ Below(FlushedChildren, at)
        /\ \A n \in DOMAIN nodes : Chunkable(n) /\ Stands(n) =>
              \E c \in ToSet(FlushedChildren) : n \in ToSet(c.nodes)
    BY <1>2, FlushListed
  <2>3. ToSet(<<at>>) = {at} /\ Rising(<<at>>)
    <3>1. \A i, j \in DOMAIN <<at>> : ~(i < j)
      BY <1>2
    <3> QED BY <1>2, <3>1 DEF ToSet, Rising
  <2>4. Listed(children)'
    <3>1. Listed(children')
      BY <2>1, <2>2
    <3> QED BY <1>1, <3>1, ListedStays
  <2>5. Held'
    <3>1. Below(FlushedChildren, at + 1)
      <4>1. \A c \in ToSet(FlushedChildren) : c.nodes \in Seq(Nat)
        BY <2>2 DEF Listed, Good, Within, Named
      <4> QED BY <1>2, <2>2, <4>1, BelowNext
    <3>2. Total(TokenList(buffer))' = k
      <4>1. TokenList(buffer)' = <<k>>
        <5>1. [i \in DOMAIN <<at>> |-> TokensOf(nodes[<<at>>[i]].text)] = <<k>>
          <6>1. DOMAIN <<at>> = 1..1 /\ <<at>>[1] = at
            OBVIOUS
          <6>2. \A i \in 1..1 : i = 1
            OBVIOUS
          <6>3. [i \in 1..1 |-> TokensOf(nodes[<<at>>[i]].text)] = [i \in 1..1 |-> k]
            BY <1>2, <6>1, <6>2
          <6>4. <<k>> = [i \in 1..1 |-> k]
            <7> HIDE DEF k
            <7> QED OBVIOUS
          <6> QED BY <6>1, <6>3, <6>4
        <5> QED BY <1>1, <2>1, <5>1 DEF TokenList
      <4>2. Total(<<k>>) = k
        <5> HIDE DEF k
        <5> QED BY <1>2, TotalOne
      <4>3. Total(TokenList(buffer))' = Total(TokenList(buffer)')
        OBVIOUS
      <4> QED BY <4>1, <4>2, <4>3
    <3>3. span' \in Nat \X Nat /\ \A p \in ToSet(span') \ {0} : SpanPage(p)'
      <4>1. /\ FlushedSpan \in Nat \X Nat
            /\ \A p \in ToSet(FlushedSpan) \ {0} :
                  \E n \in DOMAIN nodes : Blank(n) /\ nodes[n].page = p /\ n < at
        BY <1>2, FlushedSpanIs
      <4>2. /\ span' \in Nat \X Nat
            /\ \A p \in ToSet(span') : p \in ToSet(FlushedSpan) \/ p = Here.page
        BY <1>2, <2>1, <4>1, SpanWithIs
      <4>3. ASSUME NEW p \in ToSet(FlushedSpan) \ {0} PROVE SpanPage(p)'
        <5>1. PICK n \in DOMAIN nodes : Blank(n) /\ nodes[n].page = p /\ n < at
          BY <4>1
        <5>2. Blank(n)' /\ nodes'[n].page = p /\ n < at'
          BY <1>1, <1>8, <5>1 DEF Blank
        <5> QED BY <1>1, <2>1, <2>3, <5>1, <5>2 DEF SpanPage
      <4>4. at \in ToSet(buffer')
        BY <2>1, <2>3
      <4> QED BY <1>9, <4>2, <4>3, <4>4
    <3> QED BY <1>1, <1>2, <2>1, <2>2, <2>3, <3>1, <3>2, <3>3 DEF Held
  <2>6. Complete'
    <3>1. ASSUME NEW n \in DOMAIN nodes, n < at + 1, Chunkable(n)
          PROVE  n = at \/ \E c \in ToSet(FlushedChildren) : n \in ToSet(c.nodes)
      <4>1. n = at \/ n < at
        BY <1>7, <3>1
      <4>2. n < at => Stands(n)
        BY <1>2, <1>3, <3>1 DEF Complete
      <4> QED BY <2>2, <3>1, <4>1, <4>2
    <3> QED BY <1>1, <2>1, <2>3, <3>1 DEF Complete, Stands, Chunkable, Blank
  <2> QED BY <1>1, <1>2, <1>5, <2>4, <2>5, <2>6 DEF SInv
<1>11. CASE ~Overflows
  <2>1. /\ children' = children /\ buffer' = Append(buffer, at) /\ bufferTok' = bufferTok + k
        /\ span' = SpanWith(span)
    BY <1>11 DEF BufferText
  <2>2. /\ Append(buffer, at) \in Seq(Nat) /\ Rising(Append(buffer, at))
        /\ ToSet(Append(buffer, at)) = ToSet(buffer) \cup {at}
    BY <1>2, <1>3, <1>6, RisingOne DEF Held
  <2>3. Listed(children)'
    <3>1. Listed(children')
      BY <1>3, <2>1
    <3> QED BY <1>1, <3>1, ListedStays
  <2>4. Held'
    <3>1. Below(children, at + 1)
      <4>1. \A c \in ToSet(children) : c.nodes \in Seq(Nat)
        BY DEF CInv, Chunked, Named
      <4> QED BY <1>2, <1>3, <4>1, BelowNext DEF Held
    <3>2. Total(TokenList(buffer))' = bufferTok + k
      <4> DEFINE t == TokenList(buffer)
                 u == Append(buffer, at)
                 m == Len(buffer)
      <4>1. /\ t \in Seq(Nat) /\ Len(t) = m /\ m \in Nat
            /\ \A i \in 1..m : t[i] = TokensOf(nodes[buffer[i]].text)
        <5>1. \A i \in 1..m : buffer[i] \in DOMAIN nodes
          BY <1>6 DEF ToSet
        <5>2. \A i \in 1..m : TokensOf(nodes[buffer[i]].text) \in Nat
          BY <5>1, NodeIs
        <5>3. DOMAIN buffer = 1..m /\ m \in Nat
          BY <1>6
        <5>4. t = [i \in 1..m |-> TokensOf(nodes[buffer[i]].text)]
          BY <5>3 DEF TokenList
        <5> HIDE DEF t, m
        <5> QED BY <5>2, <5>3, <5>4
      <4>2. /\ DOMAIN u = 1..(m + 1) /\ u[m + 1] = at /\ \A i \in 1..m : u[i] = buffer[i]
        BY <1>2, <1>6
      <4>3. TokenList(buffer)' = [i \in 1..(m + 1) |-> TokensOf(nodes[u[i]].text)]
        BY <1>1, <2>1, <4>2 DEF TokenList
      <4>4. TokenList(buffer)' = Append(t, k)
        <5> DEFINE v == Append(t, k)
                   w == [i \in 1..(m + 1) |-> TokensOf(nodes[u[i]].text)]
        <5>1. v \in Seq(Nat) /\ DOMAIN v = 1..(m + 1) /\ v[m + 1] = k /\ \A i \in 1..m : v[i] = t[i]
          <6> HIDE DEF k, t, m
          <6> QED BY <1>2, <4>1
        <5>2. \A i \in 1..(m + 1) : i \in 1..m \/ i = m + 1
          BY <4>1
        <5>3. \A i \in 1..(m + 1) : v[i] = w[i]
          <6>1. \A i \in 1..m : v[i] = TokensOf(nodes[buffer[i]].text) /\ u[i] = buffer[i]
            BY <4>1, <4>2, <5>1
          <6>2. v[m + 1] = TokensOf(nodes[u[m + 1]].text)
            BY <1>2, <4>2, <5>1
          <6> HIDE DEF v, u, m
          <6> QED BY <5>2, <6>1, <6>2
        <5>4. v = [i \in 1..(m + 1) |-> v[i]]
          <6> HIDE DEF v, m
          <6> QED BY <5>1
        <5> HIDE DEF v, u, m
        <5>5. v = w
          BY <5>3, <5>4
        <5> QED BY <4>3, <5>5 DEF v
      <4>5. Total(Append(t, k)) = Total(t) + k
        <5> HIDE DEF t, k
        <5> QED BY <1>2, <4>1, TotalAppend
      <4>6. Total(TokenList(buffer))' = Total(TokenList(buffer)')
        OBVIOUS
      <4> QED BY <1>3, <4>4, <4>5, <4>6 DEF Held
    <3>3. span' \in Nat \X Nat /\ \A p \in ToSet(span') \ {0} : SpanPage(p)'
      <4>1. span \in Nat \X Nat /\ \A p \in ToSet(span) \ {0} : SpanPage(p)
        BY <1>3 DEF Held
      <4>2. /\ span' \in Nat \X Nat
            /\ \A p \in ToSet(span') : p \in ToSet(span) \/ p = Here.page
        BY <1>2, <2>1, <4>1, SpanWithIs
      <4>3. ASSUME NEW p, SpanPage(p) PROVE SpanPage(p)'
        <5>1. CASE p \in PagesOf(buffer)
          BY <1>1, <2>1, <2>2, <5>1 DEF SpanPage, PagesOf
        <5>2. CASE p \notin PagesOf(buffer)
          <6>1. PICK n \in DOMAIN nodes : /\ Blank(n) /\ nodes[n].page = p /\ n < at
                                          /\ \A m \in ToSet(buffer) : n < m
            BY <4>3, <5>2 DEF SpanPage
          <6>2. Blank(n)' /\ nodes'[n].page = p /\ n < at'
            BY <1>1, <1>8, <6>1 DEF Blank
          <6>3. \A m \in ToSet(buffer') : n < m
            BY <2>1, <2>2, <6>1
          <6> QED BY <1>1, <6>2, <6>3 DEF SpanPage
        <5> QED BY <5>1, <5>2
      <4>4. at \in ToSet(buffer')
        BY <2>1, <2>2
      <4> QED BY <1>9, <4>1, <4>2, <4>3, <4>4
    <3>4. \A n \in ToSet(buffer') : /\ nodes[n].data = "none" /\ Below(children, n)
                                    /\ n \in ToSet(parents[Len(parents)].nodes)
      BY <1>1, <1>2, <1>3, <2>1, <2>2 DEF Held
    <3> QED BY <1>1, <2>1, <2>2, <3>1, <3>2, <3>3, <3>4 DEF Held, Below
  <2>5. Complete'
    <3>1. ASSUME NEW n \in DOMAIN nodes, n < at + 1, Chunkable(n)
          PROVE  n = at \/ Stands(n)
      BY <1>2, <1>3, <1>7, <3>1 DEF Complete
    <3> QED BY <1>1, <2>1, <2>2, <3>1 DEF Complete, Stands, Chunkable, Blank
  <2> QED BY <1>1, <1>2, <1>5, <2>3, <2>4, <2>5 DEF SInv
<1> QED BY <1>10, <1>11

\* The last node of a parent has been split.
LEMMA SEndParent ==
    ASSUME PInv, CInv, SInv, UNCHANGED parserVars, EndParent
    PROVE  SInv'
<1>1. /\ stage = "split" /\ stage' = "parent" /\ children' = FlushedChildren
      /\ buffer' = <<>> /\ bufferTok' = 0 /\ span' = <<0, 0>> /\ at' = at
      /\ at \notin ToSet(parents[Len(parents)].nodes)
      /\ groups' = groups /\ parents' = parents /\ nodes' = nodes
  BY Same DEF EndParent, Last
<1>2. nodes # <<>> /\ at \in Nat
  BY <1>1 DEF CInv, Staged
<1>3. Listed(children) /\ Held /\ Complete /\ Placed
  BY <1>2 DEF SInv
<1>4. /\ Listed(FlushedChildren) /\ Below(FlushedChildren, at)
      /\ \A n \in DOMAIN nodes : Chunkable(n) /\ Stands(n) =>
            \E c \in ToSet(FlushedChildren) : n \in ToSet(c.nodes)
  BY <1>1, FlushListed
<1>5. Listed(children)'
  <2>1. Listed(children')
    BY <1>1, <1>4
  <2> QED BY <1>1, <2>1, ListedStays
<1>6. Held'
  <2>1. ToSet(<<>>) = {} /\ Rising(<<>>)
    BY DEF ToSet, Rising
  <2>2. Total(TokenList(buffer))' = 0
    <3>1. TokenList(buffer)' = <<>>
      <4>1. [i \in DOMAIN <<>> |-> TokensOf(nodes'[<<>>[i]].text)] = <<>>
        OBVIOUS
      <4> QED BY <1>1, <4>1 DEF TokenList
    <3>2. <<>> \in Seq(Nat)
      OBVIOUS
    <3>3. Total(<<>>) = 0
      BY <3>2, TotalTyped
    <3>4. Total(TokenList(buffer))' = Total(TokenList(buffer)')
      OBVIOUS
    <3> QED BY <3>1, <3>3, <3>4
  <2>3. ToSet(<<0, 0>>) \ {0} = {} /\ <<0, 0>> \in Nat \X Nat
    BY DEF ToSet
  <2>4. Below(children, at)'
    BY <1>1, <1>4 DEF Below
  <2> QED BY <1>1, <2>1, <2>2, <2>3, <2>4 DEF Held
<1>7. Complete'
  <2>1. ASSUME NEW n \in DOMAIN nodes, n < at, Chunkable(n)
        PROVE  \E c \in ToSet(FlushedChildren) : n \in ToSet(c.nodes)
    BY <1>1, <1>3, <1>4, <2>1 DEF Complete
  <2> QED BY <1>1, <2>1 DEF Complete, Stands, Chunkable, Blank
<1>8. Placed'
  <2>1. /\ Len(parents) \in Nat /\ Len(parents) > 0 /\ Len(groups) \in Nat
        /\ Len(parents) <= Len(groups)
        /\ \A i \in 1..Len(parents) : parents[i].nodes = groups[i]
    BY <1>1, <1>2, SeqIs DEF CInv, Parented, Grouped
  <2>2. PICK n \in Nat : n = Len(parents)
    BY <2>1
  <2>3. /\ n \in 1..Len(groups) /\ n \in 0..Len(groups) /\ n - 1 \in 0..Len(groups)
        /\ n \in 1..Len(parents)
    BY <2>1, <2>2
  <2>4. /\ EndOf(n) \in Nat /\ EndOf(n - 1) \in Nat
        /\ ToSet(groups[n]) = (EndOf(n - 1) + 1)..EndOf(n)
        /\ EndOf(n - 1) < at /\ at <= EndOf(n) + 1
    BY <1>1, <1>3, <2>2, <2>3 DEF Placed
  <2>5. at \notin (EndOf(n - 1) + 1)..EndOf(n)
    BY <1>1, <2>1, <2>2, <2>3, <2>4
  <2>6. at = EndOf(n) + 1
    <3> DEFINE a == EndOf(n - 1)
               b == EndOf(n)
    <3>1. a \in Nat /\ b \in Nat /\ at \notin (a + 1)..b /\ a < at /\ at <= b + 1
      BY <2>4, <2>5
    <3> HIDE DEF a, b
    <3>2. at = b + 1
      BY <1>2, <3>1
    <3> QED BY <3>2 DEF b
  <2>7. at = EndOf(Len(parents)) + 1
    BY <2>2, <2>6
  <2> QED BY <1>1, <1>3, <2>7 DEF Placed, EndOf
<1> QED BY <1>1, <1>2, <1>5, <1>6, <1>7, <1>8 DEF SInv

\* The chunks stay as they should be, whatever the chunker does next.
LEMMA SKeeps ==
    ASSUME PInv, CInv, SInv, [Next]_vars
    PROVE  SInv'
<1>1. CASE UNCHANGED vars
  BY <1>1, SRests
<1>2. CASE Parse
  BY <1>2, SParses
<1>3. CASE Chunk
  <2>1. UNCHANGED parserVars /\ ChunkerNext
    BY <1>3 DEF Chunk
  <2>2. CASE EmptyDocument
    BY <2>1, <2>2, SEmptyDocument
  <2>3. CASE StartGrouping
    BY <2>1, <2>3, SStartGrouping
  <2>4. CASE GroupNode
    BY <2>1, <2>4, SGroupNode
  <2>5. CASE EndGrouping
    BY <2>1, <2>5, SEndGrouping
  <2>6. CASE StartParent
    BY <2>1, <2>6, SStartParent
  <2>7. CASE Finish
    BY <2>1, <2>7, SFinish
  <2>8. CASE SplitTable \/ SplitFigure \/ SplitLongText
    BY <2>1, <2>8, SCut
  <2>9. CASE SkipEmptyText
    BY <2>1, <2>9, SSkip
  <2>10. CASE BufferText
    BY <2>1, <2>10, SBufferText
  <2>11. CASE EndParent
    BY <2>1, <2>11, SEndParent
  <2> QED BY <2>1, <2>2, <2>3, <2>4, <2>5, <2>6, <2>7, <2>8, <2>9, <2>10, <2>11, Zenon
        DEF ChunkerNext
<1> QED BY <1>1, <1>2, <1>3, Zenon DEF Next

\* In any document and for any limits, the chunks made so far hold the nodes
\* passed so far, in order, in parts that follow each other, with the pages
\* and of the size they may have.
THEOREM ChunksInvariant == Spec => [](PInv /\ CInv /\ SInv)
<1>1. Init => PInv /\ CInv /\ SInv
  BY ParserBegins, ChunkerBegins, SBegins
<1>2. PInv /\ CInv /\ SInv /\ [Next]_vars => PInv' /\ CInv' /\ SInv'
  BY ParserKeeps, ChunkerKeeps, SKeeps
<1> QED BY <1>1, <1>2, PTL DEF Spec

\* A chunk is cited with pages of its own nodes, or of a blank text before it.
THEOREM PagesAreOwnHolds == Spec => []PagesAreOwn
<1>1. ASSUME SInv PROVE PagesAreOwn
  <2>1. ASSUME NEW c \in ToSet(children), NEW p \in ToSet(c.pages) \ {0}
        PROVE  \/ p \in PagesOf(c.nodes)
               \/ \E n \in DOMAIN nodes : Blank(n) /\ n < c.nodes[1] /\ nodes[n].page = p
    <3>1. CASE nodes # <<>>
      <4>1. Good(c)
        BY <1>1, <3>1 DEF SInv, Listed
      <4> QED BY <2>1, <4>1 DEF Good, Paged, OwnPage
    <3>2. CASE nodes = <<>>
      <4>1. c.pages = <<0, 0>>
        BY <1>1, <3>2 DEF SInv
      <4>2. ToSet(<<0, 0>>) \ {0} = {}
        BY DEF ToSet
      <4> QED BY <2>1, <4>1, <4>2
    <3> QED BY <3>1, <3>2
  <2> QED BY <2>1 DEF PagesAreOwn
<1> QED BY <1>1, ChunksInvariant, PTL

\* A chunk exceeds child_max_tokens by no more than rounding hides.
THEOREM TextChunksBoundedHolds == Spec => []TextChunksBounded
<1>1. ASSUME SInv PROVE TextChunksBounded
  <2>1. ASSUME NEW c \in ToSet(children)
        PROVE  Sized(c)
    <3>1. CASE nodes # <<>>
      <4>1. Good(c)
        BY <1>1, <3>1 DEF SInv, Listed
      <4> QED BY <4>1 DEF Good
    <3>2. CASE nodes = <<>>
      <4>1. c.kind = "title"
        BY <1>1, <3>2 DEF SInv
      <4> QED BY <4>1 DEF Sized
    <3> QED BY <3>1, <3>2
  <2> QED BY <2>1 DEF TextChunksBounded, Sized
<1> QED BY <1>1, ChunksInvariant, PTL

-----------------------------------------------------------------------------
(* Reading order. *)

Sorted(f) == \A i, j \in DOMAIN f : i < j => f[i] <= f[j]

\* A sorted list behind another with no greater numbers.
LEMMA SortedConcat ==
    ASSUME NEW u \in Seq(Nat), Sorted(u), NEW v \in Seq(Nat), Sorted(v),
           \A x \in ToSet(u), y \in ToSet(v) : x <= y
    PROVE  /\ u \o v \in Seq(Nat) /\ Sorted(u \o v)
           /\ ToSet(u \o v) = ToSet(u) \cup ToSet(v)
<1> DEFINE t == u \o v
           m == Len(u)
           n == Len(v)
<1>1. /\ m \in Nat /\ n \in Nat /\ t \in Seq(Nat) /\ DOMAIN t = 1..(m + n)
      /\ DOMAIN u = 1..m /\ DOMAIN v = 1..n
      /\ \A i \in 1..m : t[i] = u[i]
  OBVIOUS
<1>2. \A i \in 1..n : t[m + i] = v[i]
  OBVIOUS
<1>3. (\A i \in 1..m : u[i] \in ToSet(u)) /\ (\A i \in 1..n : v[i] \in ToSet(v))
  BY <1>1 DEF ToSet
<1>4. ToSet(t) = ToSet(u) \cup ToSet(v)
  <2>1. IsSeq(u) /\ IsSeq(v)
    BY DEF IsSeq, ToSet
  <2> QED BY <2>1, ConcatIs
<1> HIDE DEF t, m, n
<1>5. ASSUME NEW i \in 1..(m + n) PROVE i \in 1..m \/ \E k \in 1..n : i = m + k
  <2>1. i \in 1..m \/ (i - m \in 1..n /\ i = m + (i - m))
    BY <1>1
  <2> QED BY <2>1
<1>6. ASSUME NEW i \in 1..(m + n), NEW j \in 1..(m + n), i < j
      PROVE  t[i] <= t[j]
  <2>1. CASE i \in 1..m /\ j \in 1..m
    BY <1>1, <1>6, <2>1 DEF Sorted
  <2>2. CASE i \in 1..m /\ \E k \in 1..n : j = m + k
    BY <1>1, <1>2, <1>3, <2>2
  <2>3. CASE (\E k \in 1..n : i = m + k) /\ j \in 1..m
    BY <1>1, <1>6, <2>3
  <2>4. CASE \E h \in 1..n, k \in 1..n : i = m + h /\ j = m + k
    <3>1. PICK h \in 1..n, k \in 1..n : i = m + h /\ j = m + k
      BY <2>4
    <3>2. h < k
      BY <1>1, <1>6, <3>1
    <3> QED BY <1>1, <1>2, <3>1, <3>2 DEF Sorted
  <2> QED BY <1>5, <2>1, <2>2, <2>3, <2>4
<1>7. Sorted(t)
  BY <1>1, <1>6 DEF Sorted
<1> QED BY <1>1, <1>4, <1>7 DEF t

\* Sorted lists in order, joined.
LEMMA FlattenSorted ==
    ASSUME NEW s \in Seq(Seq(Nat)), \A i \in 1..Len(s) : Sorted(s[i]),
           \A i, j \in 1..Len(s) : i < j => \A x \in ToSet(s[i]), y \in ToSet(s[j]) : x <= y
    PROVE  /\ Sorted(FlattenSeq(s))
           /\ \A i \in 1..Len(s) : ToSet(s[i]) \subseteq ToSet(FlattenSeq(s))
<1> DEFINE n == Len(s)
<1>1. n \in Nat /\ \A i \in 1..n : s[i] \in Seq(Nat)
  OBVIOUS
<1>2. PICK F : JoinsOf(Nat, F, s) /\ FlattenSeq(s) = F[n]
  BY FlattenIs
<1>3. /\ (\A i \in 0..n : F[i] \in Seq(Nat)) /\ F[0] = <<>>
      /\ \A i \in 1..n : F[i] = F[i - 1] \o s[i]
  BY <1>2 DEF JoinsOf
<1> HIDE DEF n
<1> DEFINE Holds(k) == /\ Sorted(F[k])
                       /\ \A i \in 1..k : ToSet(s[i]) \subseteq ToSet(F[k])
                       /\ \A x \in ToSet(F[k]) : \E i \in 1..k : x \in ToSet(s[i])
           S == {k \in Nat : k <= n => Holds(k)}
<1>4. 0 \in S
  <2>1. ToSet(<<>>) = {} /\ DOMAIN <<>> = {}
    BY DEF ToSet
  <2>2. Holds(0)
    BY <1>3, <2>1 DEF Sorted
  <2> QED BY <2>2
<1>5. ASSUME NEW k \in Nat, k \in S PROVE k + 1 \in S
  <2> SUFFICES ASSUME k + 1 <= n PROVE Holds(k + 1)
    BY <1>1
  <2>1. /\ k <= n /\ k \in 0..n /\ k + 1 \in 1..n /\ (k + 1) - 1 = k
        /\ \A i \in 1..(k + 1) : i \in 1..k \/ i = k + 1
        /\ \A i \in 1..k : i \in 1..n /\ i < k + 1 /\ i \in 1..(k + 1)
        /\ k + 1 \in 1..(k + 1)
    BY <1>1
  <2>2. Holds(k)
    BY <1>5, <2>1
  <2> DEFINE u == F[k]
             v == s[k + 1]
             w == F[k + 1]
  <2>3. /\ u \in Seq(Nat) /\ v \in Seq(Nat) /\ w = u \o v /\ Sorted(u) /\ Sorted(v)
    BY <1>1, <1>3, <2>1, <2>2 DEF n
  <2>4. \A x \in ToSet(u), y \in ToSet(v) : x <= y
    <3>1. ASSUME NEW x \in ToSet(u), NEW y \in ToSet(v) PROVE x <= y
      <4>1. PICK i \in 1..k : x \in ToSet(s[i])
        BY <2>2
      <4> QED BY <2>1, <4>1 DEF n
    <3> QED BY <3>1
  <2>5. /\ (\A i \in 1..k : ToSet(s[i]) \subseteq ToSet(u))
        /\ (\A x \in ToSet(u) : \E i \in 1..k : x \in ToSet(s[i]))
    BY <2>2
  <2>6. Sorted(w) /\ ToSet(w) = ToSet(u) \cup ToSet(v)
    <3> HIDE DEF u, v, w
    <3> QED BY <2>3, <2>4, SortedConcat
  <2>7. \A i \in 1..(k + 1) : ToSet(s[i]) \subseteq ToSet(w)
    <3>1. ASSUME NEW i \in 1..(k + 1) PROVE ToSet(s[i]) \subseteq ToSet(w)
      <4>1. CASE i \in 1..k
        BY <2>5, <2>6, <4>1
      <4>2. CASE i = k + 1
        BY <2>6, <4>2
      <4> QED BY <2>1, <4>1, <4>2
    <3> QED BY <3>1
  <2>8. ASSUME NEW x \in ToSet(w) PROVE \E i \in 1..(k + 1) : x \in ToSet(s[i])
    <3>1. CASE x \in ToSet(u)
      BY <2>1, <2>5, <3>1
    <3>2. CASE x \in ToSet(v)
      BY <2>1, <3>2
    <3> QED BY <2>6, <2>8, <3>1, <3>2
  <2> QED BY <2>6, <2>7, <2>8
<1>6. Nat \subseteq S
  <2> HIDE DEF S
  <2> QED BY <1>4, <1>5, Induction
<1>7. Holds(n)
  <2>1. n \in S
    BY <1>1, <1>6
  <2> QED BY <1>1, <2>1
<1> QED BY <1>2, <1>7 DEF n

\* Chunks that are listed are in reading order.
LEMMA ChunkedInOrder ==
    ASSUME Listed(children)
    PROVE  /\ Sorted(ChunkedNodes)
           /\ \A c \in ToSet(children) : ToSet(c.nodes) \subseteq ToSet(ChunkedNodes)
<1> DEFINE s == [i \in DOMAIN children |-> children[i].nodes]
           n == Len(children)
<1>1. /\ n \in Nat /\ DOMAIN children = 1..n
      /\ \A c : c \in ToSet(children) <=> \E i \in 1..n : children[i] = c
  BY SeqIs DEF Listed
<1>2. \A i \in 1..n : children[i].nodes \in Seq(Nat) /\ Rising(children[i].nodes)
  <2>1. \A i \in 1..n : Good(children[i])
    BY <1>1 DEF Listed
  <2> QED BY <2>1 DEF Good, Within, Named
<1>3. s \in Seq(Seq(Nat)) /\ Len(s) = n /\ \A i \in 1..n : s[i] = children[i].nodes
  <2> HIDE DEF n
  <2>1. s = [i \in 1..n |-> children[i].nodes]
    BY <1>1
  <2> HIDE DEF s
  <2> QED BY <1>1, <1>2, <2>1
<1>4. ASSUME NEW i \in 1..n PROVE Sorted(s[i])
  <2> DEFINE f == s[i]
  <2>1. f \in Seq(Nat) /\ Rising(f)
    BY <1>2, <1>3
  <2> HIDE DEF f
  <2>2. \A j \in DOMAIN f : f[j] \in Nat
    BY <2>1
  <2>3. \A x, y \in Nat : x < y => x <= y
    OBVIOUS
  <2>4. Sorted(f)
    BY <2>1, <2>2, <2>3 DEF Rising, Sorted
  <2> QED BY <2>4 DEF f
<1>5. \A i, j \in 1..n : i < j => \A x \in ToSet(s[i]), y \in ToSet(s[j]) : x <= y
  BY <1>3 DEF Listed, InOrder
<1>6. ChunkedNodes = FlattenSeq(s)
  BY DEF ChunkedNodes
<1> HIDE DEF s
<1>7. /\ Sorted(FlattenSeq(s))
      /\ \A i \in 1..n : ToSet(s[i]) \subseteq ToSet(FlattenSeq(s))
  BY <1>3, <1>4, <1>5, FlattenSorted
<1> QED BY <1>1, <1>3, <1>6, <1>7

\* When the chunker is done, every node with content stands in the chunks, in
\* reading order, under its own parent, and what is split is shared out whole.
THEOREM ReadingOrderHolds == Spec => []ReadingOrder
<1>1. ASSUME PInv, CInv, SInv PROVE ReadingOrder
  <2> SUFFICES ASSUME stage = "done", nodes # <<>> PROVE ReadingOrder
    BY DEF ReadingOrder
  <2>1. Listed(children) /\ Complete /\ Placed
    BY <1>1 DEF SInv
  <2>2. buffer = <<>> /\ at = Len(nodes) + 1
    BY <1>1, <2>1 DEF CInv, Buffered, Placed
  <2>3. \A n \in DOMAIN nodes : Chunkable(n) => n \in ToSet(ChunkedNodes)
    <3>1. ASSUME NEW n \in DOMAIN nodes, Chunkable(n) PROVE n \in ToSet(ChunkedNodes)
      <4>1. n < at
        <5>1. n \in 1..Len(nodes) /\ Len(nodes) \in Nat
          BY <1>1 DEF PInv, Typed
        <5> QED BY <2>2, <5>1
      <4>2. Stands(n)
        BY <2>1, <3>1, <4>1 DEF Complete
      <4>3. n \notin ToSet(buffer)
        BY <2>2 DEF ToSet
      <4> QED BY <2>1, <4>2, <4>3, ChunkedInOrder DEF Stands
    <3> QED BY <3>1
  <2>4. \A i, j \in DOMAIN ChunkedNodes : i < j => ChunkedNodes[i] <= ChunkedNodes[j]
    BY <2>1, ChunkedInOrder DEF Sorted
  <2>5. ASSUME NEW i \in DOMAIN children
        PROVE  /\ ToSet(children[i].nodes) \subseteq ToSet(parents[children[i].parent].nodes)
               /\ Continues(i)
               /\ IF children[i].part < children[i].parts
                  THEN i + 1 \in DOMAIN children /\ children[i + 1].part > 1
                  ELSE /\ children[i].part = children[i].parts
                       /\ children[i].range[2] = Whole(children[i])
    <3>1. /\ DOMAIN children = 1..Len(children) /\ Len(children) \in Nat
          /\ children[i] \in ToSet(children)
      BY <2>1, SeqIs DEF Listed
    <3>2. Link(children, i) /\ Within(children[i])
      BY <2>1, <3>1 DEF Listed, Chain, Good
    <3> DEFINE p == children[i].part
               q == children[i].parts
    <3>3. p \in Nat /\ q \in Nat
      BY <3>2 DEF Link
    <3> HIDE DEF p, q
    <3>4. p < q \/ p >= q
      BY <3>3
    <3>5. p < q => ~(p >= q)
      BY <3>3
    <3>6. Continues(i)
      BY <3>2 DEF Continues, Link
    <3>7. children[i].part < children[i].parts \/ children[i].part >= children[i].parts
      BY <3>4 DEF p, q
    <3> QED BY <3>1, <3>2, <3>6, <3>7 DEF Within, Link
  <2> QED BY <2>3, <2>4, <2>5 DEF ReadingOrder
<1> QED BY <1>1, ChunksInvariant, PTL

-----------------------------------------------------------------------------
(* Where every piece is: the account of each reader. *)

\* A node that stands in a chunk.
Worthy(r) == r.data # "none" \/ Words(r.text) # 0

\* Piece i is in such a node.
Keeps(ns, i) == \E n \in DOMAIN ns : i \in ns[n].holds /\ Worthy(ns[n])

\* One more element, whatever it is.
LEMMA OneMore ==
    ASSUME NEW A, NEW ns \in Seq(A), NEW r
    PROVE  LET ms == Append(ns, r)
           IN  /\ Len(ns) \in Nat /\ Len(ms) = Len(ns) + 1
               /\ DOMAIN ns = 1..Len(ns) /\ DOMAIN ms = 1..(Len(ns) + 1)
               /\ ms[Len(ns) + 1] = r /\ \A n \in 1..Len(ns) : ms[n] = ns[n]
<1> DEFINE S == A \cup {r}
<1>1. ns \in Seq(S) /\ r \in S
  OBVIOUS
<1> HIDE DEF S
<1> QED BY <1>1

\* One more node.
LEMMA KeepsMore ==
    ASSUME NEW A, NEW ns \in Seq(A), NEW r, NEW i,
           Keeps(ns, i) \/ (i \in r.holds /\ Worthy(r))
    PROVE  Keeps(Append(ns, r), i)
<1> DEFINE ms == Append(ns, r)
<1>1. /\ Len(ns) \in Nat /\ DOMAIN ns = 1..Len(ns) /\ DOMAIN ms = 1..(Len(ns) + 1)
      /\ ms[Len(ns) + 1] = r /\ \A n \in 1..Len(ns) : ms[n] = ns[n]
  BY OneMore
<1> HIDE DEF ms
<1>2. CASE Keeps(ns, i)
  <2>1. PICK n \in DOMAIN ns : i \in ns[n].holds /\ Worthy(ns[n])
    BY <1>2 DEF Keeps
  <2>2. n \in DOMAIN ms /\ ms[n] = ns[n]
    BY <1>1
  <2>3. Keeps(ms, i)
    BY <2>1, <2>2 DEF Keeps
  <2> QED BY <2>3 DEF ms
<1>3. CASE i \in r.holds /\ Worthy(r)
  <2>1. Len(ns) + 1 \in DOMAIN ms
    BY <1>1
  <2>2. Keeps(ms, i)
    BY <1>1, <1>3, <2>1 DEF Keeps
  <2> QED BY <2>2 DEF ms
<1> QED BY <1>2, <1>3

\* Several more.
LEMMA KeepsJoined ==
    ASSUME NEW ns \in Seq(NodeSet), NEW ps \in Seq(NodeSet), NEW i,
           Keeps(ns, i) \/ Keeps(ps, i)
    PROVE  Keeps(ns \o ps, i)
<1> DEFINE ms == ns \o ps
           a == Len(ns)
<1>1. /\ a \in Nat /\ Len(ps) \in Nat /\ DOMAIN ns = 1..a /\ DOMAIN ps = 1..Len(ps)
      /\ DOMAIN ms = 1..(a + Len(ps)) /\ \A n \in 1..a : ms[n] = ns[n]
  OBVIOUS
<1>2. ASSUME NEW n \in 1..Len(ps) PROVE ms[a + n] = ps[n]
  <2>1. a + n \in 1..(Len(ns) + Len(ps)) /\ a + n > Len(ns) /\ (a + n) - Len(ns) = n
    BY <1>1
  <2> QED BY <2>1
<1> HIDE DEF ms, a
<1>3. CASE Keeps(ns, i)
  <2>1. PICK n \in DOMAIN ns : i \in ns[n].holds /\ Worthy(ns[n])
    BY <1>3 DEF Keeps
  <2>2. n \in DOMAIN ms /\ ms[n] = ns[n]
    BY <1>1
  <2>3. Keeps(ms, i)
    BY <2>1, <2>2 DEF Keeps
  <2> QED BY <2>3 DEF ms
<1>4. CASE Keeps(ps, i)
  <2>1. PICK n \in DOMAIN ps : i \in ps[n].holds /\ Worthy(ps[n])
    BY <1>4 DEF Keeps
  <2>2. a + n \in DOMAIN ms /\ ms[a + n] = ps[n]
    BY <1>1, <1>2
  <2> DEFINE m == a + n
  <2> HIDE DEF m
  <2>3. m \in DOMAIN ms /\ ms[m] = ps[n]
    BY <2>2 DEF m
  <2>4. Keeps(ms, i)
    BY <2>1, <2>3 DEF Keeps
  <2> QED BY <2>4 DEF ms
<1> QED BY <1>3, <1>4

\* A text with a sentence that has words has words.
LEMMA HasWords ==
    ASSUME NEW text \in Seq(Nat \X Nat), NEW i \in 1..Len(text), text[i][1] > 0
    PROVE  Words(text) # 0
<1> DEFINE ws == [j \in DOMAIN text |-> text[j][1]]
           x == text[i][1]
<1>1. DOMAIN text = 1..Len(text) /\ Len(text) \in Nat
      /\ \A j \in 1..Len(text) : text[j] \in Nat \X Nat
  OBVIOUS
<1>2. \A j \in 1..Len(text) : text[j][1] \in Nat
  BY <1>1
<1>3. ws \in Seq(Nat) /\ Len(ws) = Len(text) /\ ws[i] = x /\ x \in Nat
  BY <1>1, <1>2
<1>4. Words(text) = Total(ws)
  BY DEF Words
<1> HIDE DEF ws, x
<1>5. i \in 1..Len(ws) /\ i \in i..Len(ws) /\ SubSeq(ws, i, i) = <<x>>
  <2>0. i \in Int /\ Len(ws) \in Nat /\ 1 <= i /\ i <= Len(ws)
    BY <1>1, <1>3
  <2>1. i \in 1..Len(ws) /\ i \in i..Len(ws) /\ (i - i) + 1 = 1 /\ (i + 1) - 1 = i
    BY <2>0
  <2>2. SubSeq(ws, i, i) = [j \in 1..1 |-> ws[(i + j) - 1]]
    BY <1>3, <2>1
  <2>3. [j \in 1..1 |-> ws[(i + j) - 1]] = [j \in 1..1 |-> x]
    BY <1>3, <2>1
  <2> QED BY <2>1, <2>2, <2>3
<1>6. Total(SubSeq(ws, i, i)) <= Total(ws)
  BY <1>3, <1>5, TotalPart
<1>7. Total(<<x>>) = x
  BY <1>3, TotalOne
<1>8. x > 0
  BY DEF x
<1>9. x <= Total(ws)
  BY <1>5, <1>6, <1>7
<1>10. Total(ws) \in Nat
  BY <1>3, TotalTyped
<1> QED BY <1>3, <1>4, <1>8, <1>9, <1>10

\* Lines have words.
LEMMA JoinedWords ==
    ASSUME NEW n \in Nat, n # 0
    PROVE  Words(Joined(n)) # 0
<1>1. LineText \in Nat \X Nat /\ LineText[1] > 0
  BY ParserAssumption
<1>2. LineText[1] \in Nat /\ LineText[2] \in Nat
  BY <1>1
<1> DEFINE a == n * LineText[1]
           b == n * LineText[2] + n - 1
           t == Joined(n)
<1>3. a > 0
  BY <1>1, <1>2
<1>4. t = <<<<a, b>>>>
  BY DEF Joined
<1>5. t \in Seq(Nat \X Nat)
  BY JoinedIs
<1> HIDE DEF t, a, b
<1>6. Len(t) = 1 /\ 1 \in 1..Len(t) /\ t[1] = <<a, b>>
  BY <1>4
<1>7. t[1][1] = a
  BY <1>6
<1>8. Words(t) # 0
  BY <1>3, <1>5, <1>6, <1>7, HasWords
<1> QED BY <1>8 DEF t

\* What a node holds, and whether it will stand in a chunk.
LEMMA NodeHolds ==
    ASSUME NEW type, NEW holds, NEW text, NEW page, Words(text) # 0
    PROVE  /\ Node(type, holds, text, page).holds = holds
           /\ Worthy(Node(type, holds, text, page))
<1>1. /\ Node(type, holds, text, page).holds = holds
      /\ Node(type, holds, text, page).text = text
  BY DEF Node, NodeUnder
<1> QED BY <1>1 DEF Worthy

\* A table will.
LEMMA TableHolds ==
    ASSUME NEW holds, NEW text, NEW page, NEW rows, NEW header
    PROVE  /\ TableNode(holds, text, page, rows, header).holds = holds
           /\ Worthy(TableNode(holds, text, page, rows, header))
<1>1. /\ TableNode(holds, text, page, rows, header).holds = holds
      /\ TableNode(holds, text, page, rows, header).data = "table"
  BY DEF TableNode, Node, NodeUnder
<1> QED BY <1>1 DEF Worthy

\* A figure will.
LEMMA FigureHolds ==
    ASSUME NEW type, NEW holds, NEW text, NEW caption, NEW page
    PROVE  /\ FigureNode(type, holds, text, caption, page).holds = holds
           /\ Worthy(FigureNode(type, holds, text, caption, page))
<1>1. /\ FigureNode(type, holds, text, caption, page).holds = holds
      /\ FigureNode(type, holds, text, caption, page).data = "figure"
  BY DEF FigureNode, Node, NodeUnder
<1> QED BY <1>1 DEF Worthy

\* A heading will.
LEMMA HeadingHolds ==
    ASSUME NEW p, NEW n, NEW type, NEW level, NEW holds, NEW text, NEW page, Words(text) # 0
    PROVE  /\ HeadingNode(p, n, type, level, holds, text, page).holds = holds
           /\ Worthy(HeadingNode(p, n, type, level, holds, text, page))
<1>1. /\ HeadingNode(p, n, type, level, holds, text, page).holds = holds
      /\ HeadingNode(p, n, type, level, holds, text, page).text = text
  BY DEF HeadingNode, NodeUnder
<1> QED BY <1>1 DEF Worthy

\* A reader that keeps every piece at once.
KeepsAll == \A i \in 1..Len(pieces) : Keeps(nodes, i)

\* Of Docling's items those that have words.
HasSentence(item) == \E s \in ToSet(item.text) : s[1] > 0

KeepsItems == \A i \in 1..Len(pieces) : HasSentence(pieces[i]) => Keeps(nodes, i)

\* Of Python code the definitions, or all of it.
KeepsCode ==
    /\ \A i \in 1..Len(pieces) :
          pieces[i] \notin {"statement", "decorator"} => Keeps(nodes, i)
    /\ ~parsed /\ nodes # <<>> => HasDefinition
    /\ parsed /\ ~HasDefinition => KeepsAll

\* Of a page the lines that do not repeat; pages that wait are not built yet.
KeepsPage(ns, k) ==
    \A j \in 1..Len(pieces[k]) : pieces[k][j] # "running" => Keeps(ns, <<k, j>>)

KeepsPages ==
    /\ parsed => pending = <<>>
    /\ \A k \in 1..Len(pieces) : k \in ToSet(pending) \/ KeepsPage(nodes, k)

\* A line that ends a paragraph.
Ends(line) == line \in {"blank", "h1", "h2", "fence"}

Odd(S) == Cardinality(S) % 2 = 1

\* A paragraph may begin with line f.
Begins(f) == ~Fenced(f) /\ (f = 1 \/ Ends(pieces[f - 1]))

\* Line i is below the image in line f, in a paragraph that lasts up to line l.
BelowImage(i, f, l) ==
    /\ f < i /\ i <= l /\ pieces[f] = "image" /\ Begins(f)
    /\ \A j \in f..l : pieces[j] \in {"text", "image"}

\* And that paragraph has ended.
ClosedImage(i) ==
    \E f, l \in 1..Len(pieces) : BelowImage(i, f, l) /\ l < Len(pieces) /\ Ends(pieces[l + 1])

\* The paragraph at hand is the last lines of the document.
AtHand ==
    /\ Len(pending) <= Len(pieces)
    /\ \A j \in 1..Len(pending) : /\ pending[j] = (Len(pieces) - Len(pending)) + j
                                  /\ pieces[pending[j]] \in {"text", "pipe", "image"}
    /\ Begins((Len(pieces) - Len(pending)) + 1) \/ fence # <<>>

\* A code block is open behind an odd number of fences.
InBlock ==
    /\ fence # <<>> <=> Odd(Fences)
    /\ fence # <<>> => /\ pending = <<>> /\ fence[1] \in Fences
                       /\ \A i \in Fences : i <= fence[1]
                       /\ \A i \in ToSet(fence) : i >= fence[1]

\* Where a line is while lines are still read, and where at the end.
Handled(i) ==
    \/ pieces[i] = "blank" \/ Keeps(nodes, i)
    \/ i \in ToSet(pending) \/ i \in ToSet(fence) \/ ClosedImage(i)

Dropped(i) == pieces[i] = "blank" \/ Keeps(nodes, i) \/ InOpenFence(i) \/ UnderImage(i)

KeepsLines == /\ ~parsed => AtHand /\ InBlock /\ \A i \in 1..Len(pieces) : Handled(i)
              /\ parsed => \A i \in 1..Len(pieces) : Dropped(i)

\* What every reader has done with the pieces it has read.
Accounted ==
    /\ parsed => reader \notin {"none", "pdf", "failed"}
    /\ reader \notin {"markdown", "pages"} => pending = <<>>
    /\ reader # "markdown" => fence = <<>>
    /\ reader = "docling" => KeepsItems
    /\ reader \in {"text", "blocks"} => KeepsAll
    /\ reader = "code" => KeepsCode
    /\ reader = "pages" => KeepsPages
    /\ reader = "markdown" => KeepsLines

\* One more piece.
LEMMA PieceIs ==
    ASSUME Typed, NEW x, pieces' = Append(pieces, x)
    PROVE  /\ Len(pieces) \in Nat /\ This = Len(pieces) + 1 /\ Len(pieces') = This
           /\ DOMAIN pieces = 1..Len(pieces) /\ DOMAIN pieces' = 1..This /\ pieces'[This] = x
           /\ \A i \in 1..Len(pieces) : pieces'[i] = pieces[i] /\ i \in 1..This
           /\ \A i \in 1..This : i \in 1..Len(pieces) \/ i = This
<1>1. pieces \in Seq(Piece)
  BY DEF Typed
<1>2. /\ Len(pieces) \in Nat /\ Len(pieces') = Len(pieces) + 1
      /\ DOMAIN pieces = 1..Len(pieces) /\ DOMAIN pieces' = 1..(Len(pieces) + 1)
      /\ pieces'[Len(pieces) + 1] = x /\ \A i \in 1..Len(pieces) : pieces'[i] = pieces[i]
  BY <1>1, OneMore
<1>3. \A i \in 1..(Len(pieces) + 1) : i \in 1..Len(pieces) \/ i = Len(pieces) + 1
  BY <1>2
<1>4. \A i \in 1..Len(pieces) : i \in 1..(Len(pieces) + 1)
  BY <1>2
<1> QED BY <1>2, <1>3, <1>4 DEF This

\* Any piece of an item that has words is in a node that has.
LEMMA ItemAccounted ==
    ASSUME Typed, KeepsItems, NEW item \in Items, pieces' = Append(pieces, item),
           NEW ns \in Seq(NodeSet), \A i : Keeps(nodes, i) => Keeps(ns, i),
           NEW r, nodes' = Append(ns, r), Words(item.text) # 0 => This \in r.holds /\ Worthy(r)
    PROVE  KeepsItems'
<1>1. /\ Len(pieces') = This /\ pieces'[This] = item
      /\ \A i \in 1..Len(pieces) : pieces'[i] = pieces[i]
      /\ \A i \in 1..This : i \in 1..Len(pieces) \/ i = This
  BY PieceIs
<1>2. ASSUME NEW i \in 1..Len(pieces), HasSentence(pieces'[i]) PROVE Keeps(nodes', i)
  <2>1. Keeps(nodes, i)
    BY <1>1, <1>2 DEF KeepsItems
  <2> QED BY <2>1, KeepsMore
<1>3. ASSUME HasSentence(item) PROVE Keeps(nodes', This)
  <2>1. PICK s \in ToSet(item.text) : s[1] > 0
    BY <1>3 DEF HasSentence
  <2> DEFINE text == item.text
  <2>2. text \in Seq(Nat \X Nat)
    BY ItemIs
  <2>3. PICK j \in 1..Len(text) : text[j] = s
    <3> HIDE DEF text
    <3>1. s \in ToSet(text)
      BY <2>1 DEF text
    <3>2. DOMAIN text = 1..Len(text)
      BY <2>2
    <3> QED BY <3>1, <3>2 DEF ToSet
  <2>4. Words(text) # 0
    <3> HIDE DEF text
    <3> QED BY <2>1, <2>2, <2>3, HasWords
  <2>5. This \in r.holds /\ Worthy(r)
    BY <2>4
  <2> QED BY <2>5, KeepsMore
<1>4. ASSUME NEW i \in 1..Len(pieces'), HasSentence(pieces'[i]) PROVE Keeps(nodes', i)
  BY <1>1, <1>2, <1>3, <1>4
<1> QED BY <1>4 DEF KeepsItems

\* A caption changes nothing of what a node holds.
LEMMA CaptionedKeeps ==
    ASSUME Typed, NEW text, NEW i, Keeps(nodes, i)
    PROVE  Keeps(Captioned(text), i)
<1>1. nodes \in Seq(NodeSet) /\ Len(nodes) \in Nat /\ DOMAIN nodes = 1..Len(nodes)
  BY DEF Typed
<1>2. CASE Captioned(text) = nodes
  BY <1>2
<1>3. CASE Captioned(text) = [nodes EXCEPT ![lastFig].caption = text]
  <2> DEFINE k == lastFig
             old == nodes[k]
             new == [old EXCEPT !.caption = text]
             ms == [nodes EXCEPT ![k] = new]
  <2>1. PICK n \in DOMAIN nodes : i \in nodes[n].holds /\ Worthy(nodes[n])
    BY DEF Keeps
  <2>2. nodes[n] \in NodeSet
    BY <1>1
  <2>3. n = k => new.holds = old.holds /\ new.text = old.text /\ new.data = old.data
    BY <2>2 DEF NodeSet
  <2>4. Captioned(text) = ms
    BY <1>3
  <2> HIDE DEF new, old
  <2>5. n \in DOMAIN ms /\ ms[n] = IF n = k THEN new ELSE nodes[n]
    BY <2>1
  <2>6. nodes[k] = old
    BY DEF old
  <2> HIDE DEF ms
  <2>7. i \in ms[n].holds /\ Worthy(ms[n])
    BY <2>1, <2>3, <2>5, <2>6 DEF Worthy
  <2> QED BY <2>4, <2>5, <2>7 DEF Keeps
<1> QED BY <1>2, <1>3 DEF Captioned

\* An item of Docling.
LEMMA ReadItemAccounts ==
    ASSUME PInv, Accounted, NEW item \in Items, ReadItem(item)
    PROVE  Accounted'
<1>0. /\ Typed /\ reader = "docling" /\ Read(item) /\ ~parsed
      /\ reader' = reader /\ parsed' = parsed /\ pending' = pending /\ fence' = fence
  BY DEF ReadItem, Reading, PInv
<1>1. pieces' = Append(pieces, item) /\ nodes \in Seq(NodeSet) /\ KeepsItems
  BY <1>0 DEF Read, Typed, Accounted
<1>2. SUFFICES KeepsItems'
  BY <1>0 DEF Accounted
<1>3. SUFFICES \E ns \in Seq(NodeSet) : \E r :
                   /\ nodes' = Append(ns, r) /\ \A i : Keeps(nodes, i) => Keeps(ns, i)
                   /\ Words(item.text) # 0 => This \in r.holds /\ Worthy(r)
  BY <1>0, <1>1, ItemAccounted
<1>4. CASE ReadTitle(item) \/ ReadSectionHeader(item)
  <2>1. PICK type, level : PushHeading(type, level, {This}, item.text, item.page)
    BY <1>4, Zenon DEF ReadTitle, ReadSectionHeader
  <2> DEFINE r == HeadingNode(Popped(level), Len(nodes) + 1, type, level, {This}, item.text,
                              item.page)
  <2>2. nodes' = Append(nodes, r)
    BY <2>1, Zenon DEF PushHeading, Heading, HeadingNode
  <2>3. Words(item.text) # 0 => r.holds = {This} /\ Worthy(r)
    BY HeadingHolds, Zenon
  <2> HIDE DEF r
  <2> QED BY <1>1, <2>2, <2>3
<1>5. CASE ReadTable(item)
  <2> DEFINE r == TableNode({This}, item.text, item.page, item.rows, item.header)
  <2>1. nodes' = Append(nodes, r)
    BY <1>5 DEF ReadTable
  <2>2. Words(item.text) # 0 => r.holds = {This} /\ Worthy(r)
    BY TableHolds, Zenon
  <2> HIDE DEF r
  <2> QED BY <1>1, <2>1, <2>2
<1>6. CASE ReadPicture(item)
  <2> DEFINE r == FigureNode(item.label, {This}, item.text, <<>>, item.page)
  <2>1. nodes' = Append(nodes, r)
    BY <1>6 DEF ReadPicture
  <2>2. Words(item.text) # 0 => r.holds = {This} /\ Worthy(r)
    BY FigureHolds, Zenon
  <2> HIDE DEF r
  <2> QED BY <1>1, <2>1, <2>2
<1>7. CASE ReadCaption(item)
  <2> DEFINE type == IF item.label = "caption" THEN "caption" ELSE "paragraph"
             r == Node(type, {This}, item.text, item.page)
             ns == Captioned(item.text)
  <2>1. nodes' = Append(ns, r)
    BY <1>7 DEF ReadCaption
  <2>2. Words(item.text) # 0 => r.holds = {This} /\ Worthy(r)
    <3> HIDE DEF type
    <3> QED BY NodeHolds, Zenon
  <2>3. ns \in Seq(NodeSet) /\ \A i : Keeps(nodes, i) => Keeps(ns, i)
    BY <1>0, ItemIs, CaptionedIs, CaptionedKeeps
  <2> HIDE DEF r, ns
  <2> QED BY <2>1, <2>2, <2>3
<1>8. CASE ReadText(item)
  <2> DEFINE r == Node(item.label, {This}, item.text, item.page)
  <2>1. nodes' = Append(nodes, r)
    BY <1>8 DEF ReadText
  <2>2. Words(item.text) # 0 => r.holds = {This} /\ Worthy(r)
    BY NodeHolds, Zenon
  <2> HIDE DEF r
  <2> QED BY <1>1, <2>1, <2>2
<1> QED BY <1>4, <1>5, <1>6, <1>7, <1>8 DEF ReadItem

\* The end of what Docling yields.
LEMMA FinishDoclingAccounts ==
    ASSUME Accounted, FinishDocling
    PROVE  Accounted'
<1>1. /\ reader = "docling" /\ nodes' = nodes /\ pending' = pending
      /\ reader' = reader /\ pieces' = pieces /\ fence' = fence
  BY DEF FinishDocling, Reading, Return
<1>2. KeepsItems'
  BY <1>1 DEF Accounted, KeepsItems
<1> QED BY <1>1, <1>2 DEF Accounted

\* With nothing read there is nothing to account for.
LEMMA NothingAccounted ==
    ASSUME pieces' = <<>>, nodes' = <<>>, pending' = <<>>, fence' = <<>>, parsed' = FALSE
    PROVE  Accounted'
<1>1. /\ Len(pieces') = 0 /\ Len(pending') = 0 /\ DOMAIN pieces' = {} /\ 1..0 = {}
      /\ (0 - 0) + 1 = 1
  OBVIOUS
<1>2. KeepsItems' /\ KeepsAll'
  BY <1>1 DEF KeepsItems, KeepsAll
<1>3. KeepsCode'
  BY <1>1, <1>2 DEF KeepsCode
<1>4. KeepsPages'
  BY <1>1 DEF KeepsPages
<1>5. Fences' = {} /\ {j \in Fences' : j < 1} = {}
  BY <1>1 DEF Fences
<1>6. ~Odd(Fences') /\ ~Fenced(1)'
  <2>1. Cardinality({}) = 0 /\ 0 % 2 = 0
    BY FS_EmptySet
  <2> QED BY <1>5, <2>1 DEF Odd, Fenced
<1>7. AtHand'
  <2>1. Begins(1)'
    BY <1>6 DEF Begins
  <2> QED BY <1>1, <2>1 DEF AtHand
<1>8. InBlock'
  BY <1>6 DEF InBlock, Odd
<1>9. KeepsLines'
  BY <1>1, <1>7, <1>8 DEF KeepsLines
<1> QED BY <1>2, <1>3, <1>4, <1>9 DEF Accounted

\* parse_tree is called, or the native reader starts over.
LEMMA BeginningsAccount ==
    ASSUME PInv, Accounted, FallBack \/ \E t \in DocTypes : ParseTree(t)
    PROVE  Accounted'
<1>2. /\ nodes' = <<>> /\ pieces' = <<>> /\ parsed' = FALSE /\ reader \in {"none", "docling"}
      /\ pending' = pending /\ fence' = fence
  <2>1. CASE FallBack
    BY <2>1 DEF FallBack, Reading, PInv, Typed
  <2>2. CASE \E t \in DocTypes : ParseTree(t)
    <3>1. /\ docType = "none" /\ nodes' = nodes /\ pieces' = pieces /\ parsed' = parsed
          /\ pending' = pending /\ fence' = fence
      BY <2>2 DEF ParseTree
    <3>2. reader = "none" /\ pieces = <<>> /\ ~parsed /\ nodes = <<>> /\ parsed \in BOOLEAN
      BY <3>1 DEF PInv, Built, Typed
    <3> QED BY <3>1, <3>2
  <2> QED BY <2>1, <2>2
<1>3. pending' = <<>> /\ fence' = <<>>
  BY <1>2 DEF Accounted
<1> QED BY <1>2, <1>3, NothingAccounted

\* A paragraph of plain text, and its end.
LEMMA TextAccounts ==
    ASSUME PInv, Accounted, ReadParagraph \/ FinishText
    PROVE  Accounted'
<1>1. /\ reader = "text" /\ reader' = reader /\ pending' = pending /\ fence' = fence
      /\ Typed /\ KeepsAll
  BY DEF ReadParagraph, FinishText, Return, Reading, PInv, Accounted
<1>2. SUFFICES KeepsAll'
  BY <1>1 DEF Accounted
<1>3. CASE FinishText
  BY <1>1, <1>3 DEF FinishText, Return, KeepsAll
<1>4. CASE ReadParagraph
  <2> DEFINE r == Node("paragraph", {This}, Joined(1), 0)
  <2>1. nodes' = Append(nodes, r) /\ pieces' = Append(pieces, "text")
    BY <1>4 DEF ReadParagraph, Read
  <2>2. This \in r.holds /\ Worthy(r)
    <3>1. Words(Joined(1)) # 0
      BY JoinedWords
    <3>2. r.holds = {This} /\ Worthy(r)
      BY <3>1, NodeHolds
    <3> QED BY <3>2
  <2> HIDE DEF r
  <2>3. /\ Len(pieces') = This
        /\ \A i \in 1..This : i \in 1..Len(pieces) \/ i = This
    BY <1>1, <2>1, PieceIs
  <2>4. \A i \in 1..Len(pieces) : Keeps(nodes, i)
    BY <1>1 DEF KeepsAll
  <2>5. nodes \in Seq(NodeSet)
    BY <1>1 DEF Typed
  <2>6. \A i \in 1..This : Keeps(nodes', i)
    BY <2>1, <2>2, <2>3, <2>4, <2>5, KeepsMore
  <2> QED BY <2>3, <2>6 DEF KeepsAll
<1> QED BY <1>3, <1>4

\* A line of other code, and the end.
LEMMA BlocksAccount ==
    ASSUME PInv, Accounted, FinishBlocks \/ \E s \in Statements : ReadBlockLine(s)
    PROVE  Accounted'
<1>1. /\ reader = "blocks" /\ reader' = reader /\ pending' = pending /\ fence' = fence
      /\ Typed /\ KeepsAll
  BY DEF ReadBlockLine, FinishBlocks, Return, Reading, PInv, Accounted
<1>2. SUFFICES KeepsAll'
  BY <1>1 DEF Accounted
<1>3. /\ nodes \in Seq(NodeSet) /\ Len(nodes) \in Nat /\ DOMAIN nodes = 1..Len(nodes)
      /\ FiniteHolds(nodes)
  BY <1>1 DEF Typed, PInv, Built
<1>4. CASE FinishBlocks
  <2>1. pieces' = pieces
    BY <1>4 DEF FinishBlocks, Return
  <2>2. CASE nodes # <<>>
    <3>1. nodes' = nodes
      BY <1>4, <2>2 DEF FinishBlocks
    <3> QED BY <1>1, <2>1, <3>1 DEF KeepsAll
  <2>3. CASE nodes = <<>>
    <3>1. \A i : ~Keeps(nodes, i)
      BY <2>3 DEF Keeps
    <3> QED BY <1>1, <2>1, <3>1 DEF KeepsAll
  <2> QED BY <2>2, <2>3
<1>5. ASSUME NEW s \in Statements, ReadBlockLine(s) PROVE KeepsAll'
  <2>1. pieces' = Append(pieces, s)
    BY <1>5 DEF ReadBlockLine, Read
  <2>2. /\ Len(pieces') = This
        /\ \A i \in 1..This : i \in 1..Len(pieces) \/ i = This
    BY <1>1, <2>1, PieceIs
  <2>3. \A i \in 1..Len(pieces) : Keeps(nodes, i)
    BY <1>1 DEF KeepsAll
  <2>4. SUFFICES (\A i : Keeps(nodes, i) => Keeps(nodes', i)) /\ Keeps(nodes', This)
    BY <2>2, <2>3 DEF KeepsAll
  <2>5. CASE nodes = <<>> \/ s \in {"def", "class"}
    <3> DEFINE r == Node("code", {This}, Joined(1), 0)
    <3>1. nodes' = Append(nodes, r)
      BY <1>5, <2>5 DEF ReadBlockLine
    <3>2. This \in r.holds /\ Worthy(r)
      <4>1. Words(Joined(1)) # 0
        BY JoinedWords
      <4>2. r.holds = {This} /\ Worthy(r)
        BY <4>1, NodeHolds
      <4> QED BY <4>2
    <3> HIDE DEF r
    <3> QED BY <1>3, <3>1, <3>2, KeepsMore
  <2>6. CASE ~(nodes = <<>> \/ s \in {"def", "class"})
    <3> DEFINE k == Len(nodes)
               lines == nodes[k].holds \cup {This}
               r == Node("code", lines, Joined(Cardinality(lines)), 0)
    <3>1. nodes' = [nodes EXCEPT ![k] = r]
      BY <1>5, <2>6 DEF ReadBlockLine, Last
    <3>2. k \in DOMAIN nodes
      BY <1>3, <2>6
    <3>3. IsFiniteSet(lines)
      <4>1. IsFiniteSet(nodes[k].holds)
        BY <1>3, <3>2 DEF FiniteHolds
      <4> QED BY <4>1, FS_Singleton, FS_Union
    <3>4. Cardinality(lines) \in Nat /\ Cardinality(lines) # 0
      <4>1. lines # {}
        OBVIOUS
      <4> HIDE DEF lines
      <4> QED BY <3>3, <4>1, FS_CardinalityType, FS_EmptySet
    <3>5. r.holds = lines /\ Worthy(r)
      <4>1. Words(Joined(Cardinality(lines))) # 0
        BY <3>4, JoinedWords
      <4> HIDE DEF lines
      <4> QED BY <4>1, NodeHolds
    <3> HIDE DEF r
    <3>6. DOMAIN nodes' = DOMAIN nodes /\ nodes'[k] = r
          /\ \A n \in DOMAIN nodes : n # k => nodes'[n] = nodes[n]
      BY <3>1, <3>2
    <3>7. Keeps(nodes', This)
      BY <3>2, <3>5, <3>6 DEF Keeps
    <3>8. ASSUME NEW i, Keeps(nodes, i) PROVE Keeps(nodes', i)
      <4>1. PICK n \in DOMAIN nodes : i \in nodes[n].holds /\ Worthy(nodes[n])
        BY <3>8 DEF Keeps
      <4>2. CASE n = k
        <5>1. i \in nodes'[k].holds /\ Worthy(nodes'[k])
          BY <3>5, <3>6, <4>1, <4>2
        <5> QED BY <3>2, <3>6, <5>1 DEF Keeps
      <4>3. CASE n # k
        BY <3>6, <4>1, <4>3 DEF Keeps
      <4> QED BY <4>2, <4>3
    <3> QED BY <3>7, <3>8
  <2> QED BY <2>5, <2>6
<1> QED BY <1>4, <1>5

\* A statement of Python.
LEMMA ReadStatementAccounts ==
    ASSUME PInv, Accounted, NEW s \in Statements, ReadStatement(s)
    PROVE  Accounted'
<1>1. /\ reader = "code" /\ reader' = reader /\ pending' = pending /\ fence' = fence
      /\ Typed /\ KeepsCode /\ ~parsed /\ parsed' = parsed /\ pieces' = Append(pieces, s)
  BY DEF ReadStatement, Read, Reading, PInv, Accounted
<1>2. SUFFICES KeepsCode'
  BY <1>1 DEF Accounted
<1>3. nodes \in Seq(NodeSet)
  BY <1>1 DEF Typed
<1>4. /\ Len(pieces') = This /\ pieces'[This] = s
      /\ \A i \in 1..Len(pieces) : pieces'[i] = pieces[i] /\ i \in 1..This
      /\ \A i \in 1..This : i \in 1..Len(pieces) \/ i = This
      /\ DOMAIN pieces = 1..Len(pieces) /\ DOMAIN pieces' = 1..This
      /\ This \in 1..This
  <2>1. This \in 1..This
    BY <1>1, PieceIs
  <2> QED BY <1>1, <2>1, PieceIs
<1> DEFINE p == CodeNode("paragraph", {This}, 1)
           c == CodeNode("code", {This}, 1)
           b == CodeNode("code", {This}, 2)
           m == [CodeNode("code", {This}, 1) EXCEPT !.up = Len(nodes) + 1]
           other == s \notin {"docstring", "def", "class"}
<1>5. \/ nodes' = Append(nodes, p) /\ ~other
      \/ nodes' = Append(nodes, c) /\ ~other
      \/ nodes' = nodes \o <<b, m>> /\ ~other
      \/ nodes' = nodes /\ other
  BY Zenon DEF ReadStatement, ClassNodes
<1>6. This \in p.holds /\ Worthy(p) /\ This \in c.holds /\ Worthy(c)
      /\ This \in b.holds /\ Worthy(b)
  <2>1. Words(Joined(1)) # 0 /\ Words(Joined(2)) # 0
    BY JoinedWords
  <2>2. p.holds = {This} /\ Worthy(p)
    BY <2>1, NodeHolds DEF CodeNode
  <2>3. c.holds = {This} /\ Worthy(c)
    BY <2>1, NodeHolds DEF CodeNode
  <2>4. b.holds = {This} /\ Worthy(b)
    BY <2>1, NodeHolds DEF CodeNode
  <2> HIDE DEF p, c, b
  <2> QED BY <2>2, <2>3, <2>4
<1> HIDE DEF p, c, b, m
<1>7. \A i : Keeps(nodes, i) => Keeps(nodes', i)
  <2>1. CASE nodes' = nodes \o <<b, m>>
    <3>1. nodes' = Append(Append(nodes, b), m)
      <4> DEFINE S == NodeSet \cup {b, m}
      <4>1. nodes \in Seq(S) /\ b \in S /\ m \in S
        BY <1>3
      <4> HIDE DEF S
      <4> QED BY <2>1, <4>1
    <3>2. Append(nodes, b) \in Seq(NodeSet \cup {b})
      <4>1. nodes \in Seq(NodeSet \cup {b})
        BY <1>3
      <4> QED BY <4>1
    <3>3. \A i : Keeps(nodes, i) => Keeps(Append(nodes, b), i)
      BY <1>3, KeepsMore
    <3> QED BY <3>1, <3>2, <3>3, KeepsMore
  <2> QED BY <1>3, <1>5, <2>1, KeepsMore
<1>8. ~other => Keeps(nodes', This)
  <2>1. CASE nodes' = nodes \o <<b, m>>
    <3>1. nodes' = Append(Append(nodes, b), m)
      <4> DEFINE S == NodeSet \cup {b, m}
      <4>1. nodes \in Seq(S) /\ b \in S /\ m \in S
        BY <1>3
      <4> HIDE DEF S
      <4> QED BY <2>1, <4>1
    <3>2. Append(nodes, b) \in Seq(NodeSet \cup {b})
      <4>1. nodes \in Seq(NodeSet \cup {b})
        BY <1>3
      <4> QED BY <4>1
    <3>3. Keeps(Append(nodes, b), This)
      BY <1>3, <1>6, KeepsMore
    <3> QED BY <3>1, <3>2, <3>3, KeepsMore
  <2> QED BY <1>3, <1>5, <1>6, <2>1, KeepsMore
<1>9. s \notin {"statement", "decorator"} => ~other
  BY ParserAssumption
<1>10. \A i \in 1..Len(pieces) : pieces[i] \notin {"statement", "decorator"} => Keeps(nodes, i)
  BY <1>1 DEF KeepsCode
<1>11. \A i \in 1..Len(pieces') :
          pieces'[i] \notin {"statement", "decorator"} => Keeps(nodes', i)
  <2> HIDE DEF other
  <2>1. \A i \in 1..Len(pieces) :
          pieces'[i] \notin {"statement", "decorator"} => Keeps(nodes', i)
    BY <1>4, <1>7, <1>10
  <2>2. pieces'[This] \notin {"statement", "decorator"} => Keeps(nodes', This)
    BY <1>4, <1>8, <1>9
  <2> QED BY <1>4, <2>1, <2>2
<1>12. nodes' # <<>> => HasDefinition'
  <2>1. CASE ~other
    BY <1>4, <2>1 DEF HasDefinition
  <2>2. CASE other
    <3>1. nodes' # <<>> => HasDefinition
      BY <1>1, <1>5, <2>2 DEF KeepsCode
    <3>2. HasDefinition => HasDefinition'
      BY <1>4 DEF HasDefinition
    <3> QED BY <3>1, <3>2
  <2> QED BY <2>1, <2>2
<1> QED BY <1>1, <1>11, <1>12 DEF KeepsCode

\* The end of Python code.
LEMMA FinishCodeAccounts ==
    ASSUME PInv, Accounted, FinishCode
    PROVE  Accounted'
<1>1. /\ reader = "code" /\ reader' = reader /\ pending' = pending /\ fence' = fence
      /\ Typed /\ KeepsCode /\ ~parsed /\ parsed' = TRUE /\ pieces' = pieces
  BY DEF FinishCode, Return, Reading, PInv, Accounted
<1>2. SUFFICES KeepsCode'
  BY <1>1 DEF Accounted
<1>3. HasDefinition' <=> HasDefinition
  BY <1>1 DEF HasDefinition
<1>4. CASE nodes # <<>>
  <2>1. nodes' = nodes
    BY <1>4 DEF FinishCode
  <2>2. HasDefinition
    BY <1>1, <1>4 DEF KeepsCode
  <2> QED BY <1>1, <1>3, <2>1, <2>2 DEF KeepsCode
<1>5. CASE nodes = <<>>
  <2> DEFINE r == Node("code", DOMAIN pieces, Joined(Len(pieces)), 0)
  <2>1. nodes' = Append(nodes, r)
    BY <1>5 DEF FinishCode
  <2>2. Len(pieces) \in Nat /\ DOMAIN pieces = 1..Len(pieces)
    BY <1>1 DEF Typed
  <2>3. ASSUME NEW i \in 1..Len(pieces) PROVE Keeps(nodes', i)
    <3>1. Len(pieces) # 0
      BY <2>2
    <3>2. Words(Joined(Len(pieces))) # 0
      BY <2>2, <3>1, JoinedWords
    <3>3. r.holds = DOMAIN pieces /\ Worthy(r)
      BY <3>2, NodeHolds
    <3> HIDE DEF r
    <3>4. nodes \in Seq({})
      BY <1>5
    <3> QED BY <2>1, <2>2, <3>3, <3>4, KeepsMore
  <2>4. KeepsAll'
    BY <1>1, <2>3 DEF KeepsAll
  <2> QED BY <1>1, <2>3, <2>4 DEF KeepsCode
<1> QED BY <1>4, <1>5

\* A line of a page that is not running is kept.
LEMMA KeptAll ==
    ASSUME NEW k, pieces[k] \in Seq({"text", "pipe", "running"}),
           NEW j \in 1..Len(pieces[k]), pieces[k][j] # "running"
    PROVE  j \in ToSet(Kept(k))
<1>1. PICK F : KeptOf(F, k)
  BY KeptSteps
<1> DEFINE n == Len(pieces[k])
           S == {m \in Nat : m <= n => j > m \/ j \in ToSet(F[m])}
<1>2. n \in Nat /\ j \in 1..n
  OBVIOUS
<1>3. /\ \A i \in 0..n : F[i] \in Seq(Nat)
      /\ \A i \in 1..n : F[i] = WithLine(k, F[i - 1], i)
      /\ Kept(k) = F[n]
  BY <1>1 DEF KeptOf
<1>4. 0 \in S
  BY <1>2
<1>5. ASSUME NEW m \in Nat, m \in S PROVE m + 1 \in S
  <2> SUFFICES ASSUME m + 1 <= n, j <= m + 1 PROVE j \in ToSet(F[m + 1])
    BY <1>2
  <2>1. m \in 0..n /\ m <= n /\ m + 1 \in 1..n /\ (m + 1) - 1 = m
    BY <1>2
  <2> DEFINE kept == F[m]
  <2>2. kept \in Seq(Nat) /\ F[m + 1] = WithLine(k, kept, m + 1)
    BY <1>3, <2>1
  <2>3. j > m \/ j \in ToSet(kept)
    BY <1>5, <2>1
  <2> HIDE DEF kept
  <2>4. ToSet(Append(kept, m + 1)) = ToSet(kept) \cup {m + 1}
    <3>1. IsSeq(kept)
      BY <2>2 DEF IsSeq, ToSet
    <3> QED BY <3>1, AppendIs
  <2>5. CASE j \in ToSet(kept)
    BY <2>2, <2>4, <2>5 DEF WithLine
  <2>6. CASE j > m
    <3>1. j = m + 1
      BY <1>2, <2>1, <2>6
    <3>2. ~Suppressed(pieces[k], j)
      BY DEF Suppressed
    <3> QED BY <2>2, <2>4, <3>1, <3>2 DEF WithLine
  <2> QED BY <2>3, <2>5, <2>6
<1>6. n \in S
  <2> HIDE DEF S
  <2> QED BY <1>2, <1>4, <1>5, Induction
<1> QED BY <1>2, <1>3, <1>6

\* And it is in a node of the page.
LEMMA PageKeeps ==
    ASSUME PInv, reader = "pages", NEW k \in 1..Len(pieces),
           NEW i \in ToSet(Kept(k))
    PROVE  Keeps(PageNodes(k), <<k, i>>)
<1> DEFINE n == Len(nodes) + 1
           K == Kept(k)
           section == NodeUnder(<<>>, "section", 1, {}, <<<<2, 6>>>>, k)
           s == [section EXCEPT !.path = <<n>>]
           p(x) == NodeUnder(<<n>>, "paragraph", 0, {<<k, x>>}, Joined(1), k)
           q(x) == IF pieces[k][x] = "pipe"
                   THEN [p(x) EXCEPT !.type = "table", !.data = "table"] ELSE p(x)
           ps == PageNodes(k)
           rest == [j \in DOMAIN K |-> q(K[j])]
<1>1. ps = <<s>> \o rest
  BY Zenon DEF PageNodes
<1>2. K \in Seq(Nat)
  <2>1. pieces \in Seq(Pages)
    BY DEF PInv, Built
  <2>2. pieces[k] \in Pages
    BY <2>1
  <2> QED BY <2>2, ParserAssumption, KeptIs
<1>3. q(i).holds = {<<k, i>>} /\ Worthy(q(i))
  <2>1. p(i).holds = {<<k, i>>} /\ p(i).text = Joined(1)
    BY DEF NodeUnder
  <2>2. Words(Joined(1)) # 0
    BY JoinedWords
  <2>3. CASE pieces[k][i] = "pipe"
    <3>1. q(i).holds = {<<k, i>>} /\ q(i).data = "table"
      BY <2>3 DEF NodeUnder
    <3> QED BY <3>1 DEF Worthy
  <2>4. CASE pieces[k][i] # "pipe"
    <3>1. q(i) = p(i)
      BY <2>4
    <3> HIDE DEF p, q
    <3> QED BY <2>1, <2>2, <3>1 DEF Worthy
  <2> QED BY <2>3, <2>4
<1>4. PICK j \in DOMAIN K : K[j] = i
  BY DEF ToSet
<1> HIDE DEF K, s, q
<1>5. /\ DOMAIN K = 1..Len(K) /\ Len(K) \in Nat /\ DOMAIN rest = 1..Len(K)
      /\ Len(rest) = Len(K) /\ rest[j] = q(i)
  BY <1>2, <1>4
<1> DEFINE S == {rest[x] : x \in 1..Len(K)} \cup {s}
<1>6. rest \in Seq(S) /\ <<s>> \in Seq(S) /\ Len(<<s>>) = 1
  BY <1>5
<1> HIDE DEF rest, S
<1>7. /\ DOMAIN ps = 1..(1 + Len(K)) /\ ps[j + 1] = rest[j] /\ j + 1 \in DOMAIN ps
  <2>1. j \in 1..Len(K) /\ j \in Int /\ j >= 1 /\ j <= Len(K)
    BY <1>4, <1>5
  <2>2. /\ DOMAIN ps = 1..(1 + Len(K)) /\ \A x \in 2..(1 + Len(K)) : ps[x] = rest[x - 1]
    <3>1. DOMAIN ps = 1..(1 + Len(K))
      BY <1>1, <1>5, <1>6
    <3>2. ASSUME NEW x \in 2..(1 + Len(K)) PROVE ps[x] = rest[x - 1]
      <4>1. x \in 1..(1 + Len(K)) /\ x > 1
        BY <1>5
      <4> QED BY <1>1, <1>5, <1>6, <4>1
    <3> QED BY <3>1, <3>2
  <2>3. j + 1 \in 2..(1 + Len(K)) /\ (j + 1) - 1 = j /\ j + 1 \in 1..(1 + Len(K))
    BY <1>5, <2>1
  <2> QED BY <2>2, <2>3
<1> DEFINE m == j + 1
<1>8. m \in DOMAIN ps /\ ps[m] = q(i)
  BY <1>5, <1>7
<1> HIDE DEF ps, m
<1> QED BY <1>3, <1>8 DEF Keeps, ps

\* A page is read, or the PDF cannot be.
LEMMA PdfAccounts ==
    ASSUME PInv, Accounted, FinishPages \/ PdfFails \/ \E page \in Pages : ReadPage(page)
    PROVE  Accounted'
<1>1. /\ reader = "pdf" /\ fence' = fence /\ ~parsed /\ parsed' = parsed
      /\ reader' \in {"pdf", "failed", "pages"}
      /\ reader' # "pages" => pending' = pending
      /\ reader' = "pages" => pending' = [k \in DOMAIN pieces |-> k] /\ pieces' = pieces
  BY Zenon DEF ReadPage, PdfFails, FinishPages, Reading
<1>2. reader' = "pages" => KeepsPages'
  <2> SUFFICES ASSUME reader' = "pages" PROVE KeepsPages'
    OBVIOUS
  <2>1. DOMAIN pieces = 1..Len(pieces)
    BY DEF PInv, Typed
  <2>2. \A k \in 1..Len(pieces) : k \in ToSet(pending')
    BY <1>1, <2>1 DEF ToSet
  <2> QED BY <1>1, <2>2 DEF KeepsPages
<1> QED BY <1>1, <1>2 DEF Accounted

\* A page becomes a section.
LEMMA BuildPageAccounts ==
    ASSUME PInv, Accounted, BuildPage
    PROVE  Accounted'
<1>1. /\ reader = "pages" /\ reader' = reader /\ fence' = fence /\ pieces' = pieces
      /\ ~parsed /\ parsed' = parsed /\ pending # <<>> /\ pending' = Tail(pending)
      /\ KeepsPages
  BY DEF BuildPage, Reading, Accounted
<1>2. SUFFICES KeepsPages'
  BY <1>1 DEF Accounted
<1>3. /\ pending \in Seq(Nat) /\ nodes \in Seq(NodeSet) /\ pieces \in Seq(Pages)
      /\ \A j \in 1..Len(pending) : pending[j] \in 1..Len(pieces)
  BY <1>1 DEF PInv, Typed, Built
<1> DEFINE h == Head(pending)
<1>4. h \in 1..Len(pieces) /\ \A k \in ToSet(pending) : k = h \/ k \in ToSet(pending')
  <2>1. /\ Len(pending) \in Nat /\ DOMAIN pending = 1..Len(pending) /\ 1 \in 1..Len(pending)
        /\ h = pending[1] /\ DOMAIN pending' = 1..(Len(pending) - 1)
        /\ \A j \in 1..(Len(pending) - 1) : pending'[j] = pending[j + 1]
    BY <1>1, <1>3
  <2>2. \A j \in 1..Len(pending) : j = 1 \/ (j - 1 \in 1..(Len(pending) - 1) /\ (j - 1) + 1 = j)
    BY <2>1
  <2>3. ASSUME NEW k \in ToSet(pending), k # h PROVE k \in ToSet(pending')
    <3>1. PICK j \in 1..Len(pending) : pending[j] = k
      BY <2>1 DEF ToSet
    <3>2. j - 1 \in DOMAIN pending' /\ pending'[j - 1] = k
      BY <2>1, <2>2, <2>3, <3>1
    <3> QED BY <3>2 DEF ToSet
  <2> QED BY <1>3, <2>1, <2>3
<1>5. \/ (nodes' = nodes /\ Kept(h) = <<>>)
      \/ nodes' = nodes \o PageNodes(h)
  BY Zenon DEF BuildPage
<1> HIDE DEF h
<1>6. PageNodes(h) \in Seq(NodeSet)
  BY <1>1, <1>4, PageNodesAre
<1>7. \A i : Keeps(nodes, i) => Keeps(nodes', i)
  BY <1>3, <1>5, <1>6, KeepsJoined
<1>8. KeepsPage(nodes', h)
  <2>1. pieces[h] \in Pages
    BY <1>3, <1>4
  <2>2. pieces[h] \in Seq({"text", "pipe", "running"})
    BY <2>1, ParserAssumption
  <2>3. ASSUME NEW j \in 1..Len(pieces[h]), pieces[h][j] # "running"
        PROVE  Keeps(nodes', <<h, j>>)
    <3>1. j \in ToSet(Kept(h))
      BY <2>2, <2>3, KeptAll
    <3>2. Kept(h) # <<>>
      BY <3>1 DEF ToSet
    <3>3. Keeps(PageNodes(h), <<h, j>>)
      BY <1>1, <1>4, <3>1, PageKeeps
    <3> QED BY <1>3, <1>5, <1>6, <3>2, <3>3, KeepsJoined
  <2> QED BY <2>3 DEF KeepsPage
<1>9. \A k \in 1..Len(pieces) : KeepsPage(nodes, k) => KeepsPage(nodes', k)
  BY <1>7 DEF KeepsPage
<1>10. \A k \in 1..Len(pieces) : k \in ToSet(pending') \/ KeepsPage(nodes', k)
  BY <1>1, <1>4, <1>8, <1>9 DEF KeepsPages
<1>11. \A k \in 1..Len(pieces) : KeepsPage(nodes', k) => KeepsPage(nodes, k)'
  BY <1>1 DEF KeepsPage
<1> QED BY <1>1, <1>10, <1>11 DEF KeepsPages

\* The last page is built.
LEMMA FinishPdfAccounts ==
    ASSUME PInv, Accounted, FinishPdf
    PROVE  Accounted'
<1>1. /\ reader = "pages" /\ reader' = reader /\ fence' = fence /\ pieces' = pieces
      /\ pending = <<>> /\ pending' = pending /\ KeepsPages
  BY DEF FinishPdf, Return, Reading, Accounted
<1>2. SUFFICES KeepsPages'
  BY <1>1 DEF Accounted
<1>3. \A i : Keeps(nodes, i) => Keeps(nodes', i)
  <2>1. nodes = <<>> => \A i : ~Keeps(nodes, i)
    BY DEF Keeps
  <2> QED BY <2>1 DEF FinishPdf
<1>4. \A k \in 1..Len(pieces) : KeepsPage(nodes, k) => KeepsPage(nodes, k)'
  BY <1>1, <1>3 DEF KeepsPage
<1> QED BY <1>1, <1>4 DEF KeepsPages

\* A set with one more element is odd where it was even.
LEMMA OddIs ==
    ASSUME NEW S, IsFiniteSet(S), NEW x, x \notin S
    PROVE  Odd(S \cup {x}) <=> ~Odd(S)
<1> DEFINE c == Cardinality(S)
           d == Cardinality(S \cup {x})
<1>1. c \in Nat /\ d = c + 1
  BY FS_CardinalityType, FS_AddElement
<1> HIDE DEF c, d
<1>2. d % 2 = 1 <=> ~(c % 2 = 1)
  BY <1>1
<1> QED BY <1>2 DEF Odd, c, d

\* The fences before a line, and those of one more line.
LEMMA FencesGrow ==
    ASSUME Typed, NEW line, pieces' = Append(pieces, line)
    PROVE  /\ IsFiniteSet(Fences) /\ Fences \subseteq 1..Len(pieces) /\ This \notin Fences
           /\ line = "fence" => Fences' = Fences \cup {This}
           /\ line # "fence" => Fences' = Fences
           /\ \A f \in 1..This : Fenced(f)' <=> Fenced(f)
           /\ \A f \in Nat : f = This + 1 => (Fenced(f)' <=> Odd(Fences'))
<1>1. /\ Len(pieces) \in Nat /\ This = Len(pieces) + 1 /\ DOMAIN pieces = 1..Len(pieces)
      /\ DOMAIN pieces' = 1..This /\ pieces'[This] = line
      /\ \A i \in 1..Len(pieces) : pieces'[i] = pieces[i] /\ i \in 1..This
      /\ \A i \in 1..This : i \in 1..Len(pieces) \/ i = This
  BY PieceIs
<1>2. Fences \subseteq 1..Len(pieces) /\ This \notin Fences
  BY <1>1 DEF Fences
<1>3. IsFiniteSet(Fences)
  <2>1. \A n \in Nat : IsFiniteSet(1..n)
    BY FS_Interval
  <2>2. IsFiniteSet(1..Len(pieces))
    BY <1>1, <2>1
  <2> QED BY <1>2, <2>2, FS_Subset
<1>4. /\ line = "fence" => Fences' = Fences \cup {This}
      /\ line # "fence" => Fences' = Fences
  <2>1. This \in 1..This
    BY <1>1
  <2> QED BY <1>1, <2>1 DEF Fences
<1>5. ASSUME NEW f \in 1..This PROVE Fenced(f)' <=> Fenced(f)
  <2>1. ~(This < f)
    BY <1>1
  <2>2. {j \in Fences' : j < f} = {j \in Fences : j < f}
    BY <1>4, <2>1
  <2> QED BY <2>2 DEF Fenced
<1>6. ASSUME NEW f \in Nat, f = This + 1 PROVE Fenced(f)' <=> Odd(Fences')
  <2>1. \A j \in Fences' : j < f
    <3>1. \A j \in Fences : j < f
      BY <1>1, <1>2, <1>6
    <3>2. This < f
      BY <1>1, <1>6
    <3> QED BY <1>4, <3>1, <3>2
  <2>2. {j \in Fences' : j < f} = Fences'
    BY <2>1
  <2> QED BY <2>2 DEF Fenced, Odd
<1> QED BY <1>2, <1>3, <1>4, <1>5, <1>6

\* What is below an image stays there.
LEMMA BelowStays ==
    ASSUME Typed, NEW line, pieces' = Append(pieces, line), NEW i, NEW f \in 1..Len(pieces),
           NEW l \in 1..Len(pieces), BelowImage(i, f, l)
    PROVE  BelowImage(i, f, l)'
<1>1. /\ Len(pieces) \in Nat /\ \A j \in 1..Len(pieces) : pieces'[j] = pieces[j] /\ j \in 1..This
  BY PieceIs
<1>2. Fenced(f)' <=> Fenced(f)
  BY <1>1, FencesGrow
<1>3. f # 1 => f - 1 \in 1..Len(pieces)
  BY <1>1
<1>4. Begins(f)'
  BY <1>1, <1>2, <1>3 DEF BelowImage, Begins
<1>5. \A j \in f..l : j \in 1..Len(pieces)
  BY <1>1
<1> QED BY <1>1, <1>4, <1>5 DEF BelowImage

\* So do images that a paragraph's end has closed.
LEMMA ClosedStays ==
    ASSUME Typed, NEW line, pieces' = Append(pieces, line), NEW i, ClosedImage(i)
    PROVE  ClosedImage(i)'
<1>1. /\ Len(pieces) \in Nat /\ Len(pieces') = This /\ This = Len(pieces) + 1
      /\ \A j \in 1..Len(pieces) : pieces'[j] = pieces[j] /\ j \in 1..This
  BY PieceIs
<1>2. PICK f \in 1..Len(pieces), l \in 1..Len(pieces) :
          BelowImage(i, f, l) /\ l < Len(pieces) /\ Ends(pieces[l + 1])
  BY DEF ClosedImage
<1>3. BelowImage(i, f, l)'
  BY <1>2, BelowStays
<1>4. l + 1 \in 1..Len(pieces) /\ l < This
  BY <1>1, <1>2
<1>5. Ends(pieces'[l + 1]) /\ l < Len(pieces') /\ f \in 1..Len(pieces') /\ l \in 1..Len(pieces')
  BY <1>1, <1>2, <1>4
<1> QED BY <1>3, <1>5 DEF ClosedImage

\* A paragraph's lines are in its node, or below its image.
LEMMA FlushKeeps ==
    ASSUME Typed, AtHand, pending = <<>> \/ fence = <<>>
    PROVE  /\ \A i : Keeps(nodes, i) => Keeps(Flushed, i)
           /\ \A i \in ToSet(pending) :
                 Keeps(Flushed, i) \/ \E f \in 1..Len(pieces) : BelowImage(i, f, Len(pieces))
           /\ \E A : Flushed \in Seq(A)
<1>1. nodes \in Seq(NodeSet) /\ pending \in Seq(Nat) /\ pieces \in Seq(Piece)
  BY DEF Typed
<1>2. CASE pending = <<>>
  <2>1. Flushed = nodes /\ ToSet(pending) = {}
    BY <1>2 DEF Flushed, ToSet
  <2> QED BY <1>1, <2>1
<1>3. CASE pending # <<>>
  <2> DEFINE n == Len(pending)
             m == Len(pieces)
             r == ParagraphNode
             start == m - n
  <2>1. /\ n \in Nat /\ n # 0 /\ DOMAIN pending = 1..n /\ m \in Nat /\ n <= m /\ 1 \in 1..n
    BY <1>1, <1>3 DEF AtHand
  <2>2. Flushed = Append(nodes, r)
    BY <1>3 DEF Flushed
  <2>3. \A i : Keeps(nodes, i) \/ (i \in r.holds /\ Worthy(r)) => Keeps(Flushed, i)
    BY <1>1, <2>2, KeepsMore
  <2>4. Flushed \in Seq(NodeSet \cup {r})
    <3>1. nodes \in Seq(NodeSet \cup {r})
      BY <1>1
    <3> HIDE DEF r
    <3> QED BY <2>2, <3>1
  <2>5. Words(Joined(n)) # 0 /\ Words(Joined(1)) # 0
    BY <2>1, JoinedWords
  <2>6. \/ r = TableNode(ToSet(pending), Joined(n), 0, 0, FALSE)
        \/ /\ r = FigureNode("figure", {pending[1]}, Joined(1), Joined(1), 0)
           /\ pieces[pending[1]] = "image"
           /\ ~(n > 1 /\ \E i \in ToSet(pending) : pieces[i] = "pipe")
        \/ r = Node("paragraph", ToSet(pending), Joined(n), 0)
    BY Zenon DEF ParagraphNode
  <2>7. /\ start \in Nat /\ start + n = m
        /\ \A j \in 1..n : /\ pending[j] = start + j
                           /\ pieces[pending[j]] \in {"text", "pipe", "image"}
        /\ Begins(start + 1)
    BY <1>3, <2>1 DEF AtHand
  <2> HIDE DEF n, m, r, start
  <2>8. CASE r = TableNode(ToSet(pending), Joined(n), 0, 0, FALSE)
    <3> DEFINE t == TableNode(ToSet(pending), Joined(n), 0, 0, FALSE)
    <3>1. t.holds = ToSet(pending) /\ Worthy(t)
      BY TableHolds, Zenon
    <3>2. r = t
      BY <2>8
    <3> HIDE DEF t
    <3> QED BY <2>3, <2>4, <3>1, <3>2
  <2>9. CASE r = Node("paragraph", ToSet(pending), Joined(n), 0)
    <3>1. r.holds = ToSet(pending) /\ Worthy(r)
      BY <2>5, <2>9, NodeHolds
    <3> QED BY <2>3, <2>4, <3>1
  <2>10. CASE /\ r = FigureNode("figure", {pending[1]}, Joined(1), Joined(1), 0)
              /\ pieces[pending[1]] = "image"
              /\ ~(n > 1 /\ \E i \in ToSet(pending) : pieces[i] = "pipe")
    <3>1. r.holds = {pending[1]} /\ Worthy(r)
      BY <2>10, FigureHolds
    <3>2. ASSUME NEW i \in ToSet(pending), i # pending[1]
          PROVE  start + 1 \in 1..m /\ BelowImage(i, start + 1, m)
      <4>1. PICK j \in 1..n : pending[j] = i
        BY <2>1 DEF ToSet
      <4>2. j \in Int /\ j > 1 /\ n > 1 /\ j <= n
        <5>1. j # 1
          BY <3>2, <4>1
        <5> QED BY <2>1, <5>1
      <4>3. i = start + j /\ start + 1 \in 1..m /\ start + 1 < i /\ i <= m
        BY <2>1, <2>7, <4>1, <4>2
      <4>4. pieces[start + 1] = "image"
        BY <2>1, <2>7, <2>10
      <4>5. ASSUME NEW l \in (start + 1)..m PROVE pieces[l] \in {"text", "image"}
        <5>1. l - start \in 1..n /\ start + (l - start) = l
          BY <2>1, <2>7
        <5>2. l = pending[l - start] /\ pieces[l] \in {"text", "pipe", "image"}
          BY <2>7, <5>1
        <5>3. l \in ToSet(pending)
          BY <2>1, <5>1, <5>2 DEF ToSet
        <5> QED BY <2>10, <4>2, <5>2, <5>3
      <4> QED BY <2>7, <4>3, <4>4, <4>5 DEF BelowImage
    <3>3. \A i \in ToSet(pending) : Keeps(Flushed, i) \/ \E f \in 1..m : BelowImage(i, f, m)
      BY <2>3, <3>1, <3>2
    <3> QED BY <2>3, <2>4, <3>3 DEF m
  <2> QED BY <2>6, <2>8, <2>9, <2>10
<1> QED BY <1>2, <1>3

\* A line that ends the paragraph at hand: its lines are in a node or below
\* its image.
LEMMA EndHandles ==
    ASSUME Typed, AtHand, NEW line, pieces' = Append(pieces, line), Ends(line), fence = <<>>,
           \A i : Keeps(Flushed, i) => Keeps(nodes', i), NEW i \in 1..Len(pieces), Handled(i)
    PROVE  Handled(i)'
<1>1. /\ Len(pieces) \in Nat /\ This = Len(pieces) + 1 /\ Len(pieces') = This
      /\ pieces'[This] = line /\ \A j \in 1..Len(pieces) : pieces'[j] = pieces[j] /\ j \in 1..This
  BY PieceIs
<1>2. CASE pieces[i] = "blank"
  BY <1>1, <1>2 DEF Handled
<1>3. CASE Keeps(nodes, i)
  BY <1>3, FlushKeeps DEF Handled
<1>4. CASE ClosedImage(i)
  BY <1>4, ClosedStays DEF Handled
<1>5. CASE i \in ToSet(fence)
  BY <1>5 DEF ToSet
<1>6. CASE i \in ToSet(pending)
  <2>1. CASE Keeps(Flushed, i)
    BY <2>1 DEF Handled
  <2>2. CASE \E f \in 1..Len(pieces) : BelowImage(i, f, Len(pieces))
    <3>1. PICK f \in 1..Len(pieces) : BelowImage(i, f, Len(pieces))
      BY <2>2
    <3>2. PICK l \in Nat : l = Len(pieces)
      BY <1>1
    <3>3. l \in 1..Len(pieces) /\ l + 1 = This /\ l < This
      BY <1>1, <3>2
    <3>4. BelowImage(i, f, l)'
      BY <3>1, <3>2, <3>3, BelowStays
    <3>5. /\ Ends(pieces'[l + 1]) /\ l < Len(pieces')
          /\ f \in 1..Len(pieces') /\ l \in 1..Len(pieces')
      BY <1>1, <3>3
    <3>6. ClosedImage(i)'
      BY <3>4, <3>5 DEF ClosedImage
    <3> QED BY <3>6 DEF Handled
  <2> QED BY <1>6, <2>1, <2>2, FlushKeeps
<1> QED BY <1>2, <1>3, <1>4, <1>5, <1>6 DEF Handled

\* After such a line a paragraph may begin.
LEMMA FreshBegins ==
    ASSUME Typed, NEW line, pieces' = Append(pieces, line), Ends(line), ~Odd(Fences'),
           pending' = <<>>
    PROVE  AtHand'
<1>1. /\ Len(pieces) \in Nat /\ This = Len(pieces) + 1 /\ Len(pieces') = This
      /\ pieces'[This] = line
  BY PieceIs
<1>2. PICK f \in Nat : f = This + 1
  BY <1>1
<1>3. ~Fenced(f)'
  BY <1>2, FencesGrow
<1>4. Len(pending') = 0 /\ (Len(pieces') - Len(pending')) + 1 = f
  BY <1>1, <1>2
<1>5. Ends(pieces'[f - 1])
  BY <1>1, <1>2
<1>6. Begins((Len(pieces) - Len(pending)) + 1)'
  BY <1>3, <1>4, <1>5 DEF Begins, Fenced
<1> QED BY <1>1, <1>4, <1>6 DEF AtHand

\* A line of markdown.
LEMMA ReadLineAccounts ==
    ASSUME PInv, Accounted, NEW line \in Lines, ReadLine(line)
    PROVE  Accounted'
<1>1. /\ Typed /\ reader = "markdown" /\ pieces' = Append(pieces, line)
      /\ reader' = reader /\ parsed' = parsed /\ ~parsed
  BY DEF ReadLine, Read, Reading, PInv
<1>2. AtHand /\ InBlock /\ \A i \in 1..Len(pieces) : Handled(i)
  BY <1>1 DEF Accounted, KeepsLines
<1>3. PICK n \in Nat : n = This /\ n = Len(pieces) + 1
  <2>1. This = Len(pieces) + 1 /\ Len(pieces) \in Nat
    BY <1>1, PieceIs
  <2>2. Len(pieces) + 1 \in Nat
    BY <2>1
  <2> QED BY <2>1, <2>2
<1>4. /\ Len(pieces) \in Nat /\ Len(pieces') = n /\ pieces'[n] = line
      /\ \A i \in 1..Len(pieces) : pieces'[i] = pieces[i] /\ i \in 1..n
      /\ \A i \in 1..n : i \in 1..Len(pieces) \/ i = n
  BY <1>1, <1>3, PieceIs
<1>5. /\ IsFiniteSet(Fences) /\ Fences \subseteq 1..Len(pieces) /\ n \notin Fences
      /\ line = "fence" => Fences' = Fences \cup {n}
      /\ line # "fence" => Fences' = Fences
      /\ \A f \in 1..n : Fenced(f)' <=> Fenced(f)
  BY <1>1, <1>3, FencesGrow
<1>6. /\ nodes \in Seq(NodeSet) /\ pending \in Seq(Nat) /\ fence \in Seq(Nat)
      /\ fence # <<>> => pending = <<>>
      /\ fence = <<>> <=> ~Odd(Fences)
  BY <1>1, <1>2 DEF Typed, InBlock
<1>7. /\ \A i : Keeps(nodes, i) => Keeps(Flushed, i)
      /\ \E A : Flushed \in Seq(A)
  BY <1>1, <1>2, <1>6, FlushKeeps
<1>8. SUFFICES AtHand' /\ InBlock' /\ Handled(n)' /\ \A i \in 1..Len(pieces) : Handled(i)'
  <2>1. \A i \in 1..Len(pieces') : Handled(i)'
    BY <1>4
  <2>2. KeepsLines'
    BY <1>1, <2>1 DEF KeepsLines
  <2> QED BY <1>1, <2>2 DEF Accounted
<1>9. Words(Joined(1)) # 0 /\ {This} = {n}
  BY <1>3, JoinedWords
<1>10. CASE ReadHeadingLine(line)
  <2> DEFINE level == LevelOf(line)
             r == HeadingNode(Popped(level), Len(Flushed) + 1, "heading", level, {This},
                              Joined(1), 0)
  <2>1. /\ nodes' = Append(Flushed, r) /\ fence = <<>> /\ line \in {"h1", "h2"}
        /\ pending' = <<>> /\ fence' = fence
    BY <1>10, Zenon DEF ReadHeadingLine, HeadingNode
  <2>2. r.holds = {This} /\ Worthy(r)
    <3> HIDE DEF level
    <3> QED BY <1>9, HeadingHolds
  <2> HIDE DEF r
  <2>3. n \in r.holds
    BY <1>9, <2>2
  <2>4. Ends(line) /\ Fences' = Fences
    BY <1>5, <2>1 DEF Ends
  <2>5. \A i : Keeps(Flushed, i) => Keeps(nodes', i)
    BY <1>7, <2>1, KeepsMore
  <2>6. \A i \in 1..Len(pieces) : Handled(i)'
    BY <1>1, <1>2, <2>1, <2>4, <2>5, EndHandles
  <2>7. Handled(n)'
    <3>1. Keeps(nodes', n)
      BY <1>7, <2>1, <2>2, <2>3, KeepsMore
    <3> QED BY <3>1 DEF Handled
  <2>8. InBlock'
    BY <1>6, <2>1, <2>4 DEF InBlock, Odd
  <2>9. AtHand'
    BY <1>1, <1>6, <2>1, <2>4, FreshBegins
  <2> QED BY <2>6, <2>7, <2>8, <2>9
<1>11. CASE ReadBlankLine(line)
  <2>1. /\ nodes' = Flushed /\ fence = <<>> /\ line = "blank"
        /\ pending' = <<>> /\ fence' = fence
    BY <1>11 DEF ReadBlankLine
  <2>2. Ends(line) /\ Fences' = Fences
    BY <1>5, <2>1 DEF Ends
  <2>3. \A i \in 1..Len(pieces) : Handled(i)'
    BY <1>1, <1>2, <2>1, <2>2, EndHandles
  <2>4. Handled(n)'
    BY <1>4, <2>1 DEF Handled
  <2>5. InBlock'
    BY <1>6, <2>1, <2>2 DEF InBlock, Odd
  <2>6. AtHand'
    BY <1>1, <1>6, <2>1, <2>2, FreshBegins
  <2> QED BY <2>3, <2>4, <2>5, <2>6
<1>12. CASE ReadOtherLine(line)
  <2>1. /\ nodes' = nodes /\ fence = <<>> /\ line \in {"text", "pipe", "image"}
        /\ pending' = Append(pending, n) /\ fence' = fence
    BY <1>3, <1>12 DEF ReadOtherLine
  <2>2. Fences' = Fences
    BY <1>5, <2>1
  <2>3. InBlock'
    BY <1>6, <2>1, <2>2 DEF InBlock, Odd
  <2> DEFINE k == Len(pending)
  <2>4. /\ k \in Nat /\ DOMAIN pending = 1..k /\ Len(pending') = k + 1
        /\ DOMAIN pending' = 1..(k + 1) /\ pending'[k + 1] = n
        /\ \A j \in 1..k : pending'[j] = pending[j] /\ j \in 1..(k + 1)
    BY <1>6, <2>1
  <2>5. /\ k <= Len(pieces) /\ Begins((Len(pieces) - k) + 1)
        /\ \A j \in 1..k : /\ pending[j] = (Len(pieces) - k) + j
                           /\ pieces[pending[j]] \in {"text", "pipe", "image"}
    BY <1>2, <2>1 DEF AtHand
  <2> HIDE DEF k
  <2>6. (\A i \in ToSet(pending) : i \in ToSet(pending')) /\ n \in ToSet(pending')
    <3>1. k + 1 \in 1..(k + 1)
      BY <2>4
    <3> QED BY <2>4, <3>1 DEF ToSet
  <2>7. \A i \in 1..Len(pieces) : Handled(i)'
    <3>1. \A i : ClosedImage(i) => ClosedImage(i)'
      BY <1>1, ClosedStays
    <3> QED BY <1>2, <1>4, <2>1, <2>6, <3>1 DEF Handled
  <2>8. Handled(n)'
    BY <2>6 DEF Handled
  <2>9. AtHand'
    <3>1. PICK f \in Nat : f = (Len(pieces) - k) + 1
      <4>1. k <= Len(pieces) /\ k \in Nat /\ Len(pieces) \in Nat
        BY <1>4, <2>4, <2>5
      <4>2. (Len(pieces) - k) + 1 \in Nat
        BY <4>1
      <4> QED BY <4>2
    <3>2. /\ f \in 1..n /\ (Len(pieces') - Len(pending')) + 1 = f
          /\ Len(pending') <= Len(pieces')
      BY <1>3, <1>4, <2>4, <2>5, <3>1
    <3>3. ~Fenced(f)' /\ (f = 1 \/ Ends(pieces'[f - 1]))
      <4>1. ~Fenced(f) /\ (f = 1 \/ Ends(pieces[f - 1]))
        BY <2>5, <3>1 DEF Begins
      <4>2. f # 1 => f - 1 \in 1..Len(pieces)
        BY <1>3, <3>2
      <4> QED BY <1>4, <1>5, <3>2, <4>1, <4>2
    <3>4. Begins((Len(pieces) - Len(pending)) + 1)'
      BY <3>2, <3>3 DEF Begins, Fenced
    <3>5. ASSUME NEW j \in 1..Len(pending')
          PROVE  /\ pending'[j] = (Len(pieces') - Len(pending')) + j
                 /\ pieces'[pending'[j]] \in {"text", "pipe", "image"}
      <4>1. CASE j = k + 1
        BY <1>3, <1>4, <2>1, <2>4, <4>1
      <4>2. CASE j # k + 1
        <5>1. j \in 1..k
          BY <2>4, <4>2
        <5>2. /\ pending'[j] = pending[j] /\ pending[j] = (Len(pieces) - k) + j
              /\ pieces[pending[j]] \in {"text", "pipe", "image"}
          BY <2>4, <2>5, <5>1
        <5>3. pending[j] \in 1..Len(pieces)
          BY <1>4, <2>4, <2>5, <5>1, <5>2
        <5>4. (Len(pieces') - Len(pending')) + j = (Len(pieces) - k) + j
          BY <1>3, <1>4, <2>4
        <5> QED BY <1>4, <5>2, <5>3, <5>4
      <4> QED BY <4>1, <4>2
    <3> QED BY <3>2, <3>4, <3>5 DEF AtHand
  <2> QED BY <2>3, <2>7, <2>8, <2>9
<1>13. CASE OpenFence(line)
  <2>1. /\ nodes' = Flushed /\ fence = <<>> /\ line = "fence"
        /\ pending' = <<>> /\ fence' = <<n>>
    BY <1>3, <1>13 DEF OpenFence
  <2>2. Ends(line) /\ Fences' = Fences \cup {n}
    BY <1>5, <2>1 DEF Ends
  <2>3. \A i \in 1..Len(pieces) : Handled(i)'
    BY <1>1, <1>2, <2>1, <2>2, EndHandles
  <2>4. ToSet(fence') = {n} /\ fence'[1] = n /\ fence' # <<>>
    BY <2>1 DEF ToSet
  <2>5. Handled(n)'
    BY <2>4 DEF Handled
  <2>6. Odd(Fences')
    BY <1>5, <1>6, <2>1, <2>2, OddIs
  <2>7. InBlock'
    <3>1. \A i \in Fences' : i <= n
      BY <1>3, <1>4, <1>5, <2>2
    <3>2. n >= n
      BY <1>3
    <3> QED BY <2>1, <2>2, <2>4, <2>6, <3>1, <3>2 DEF InBlock, Odd
  <2>8. AtHand'
    <3>1. Len(pending') = 0
      BY <2>1
    <3> QED BY <1>4, <2>4, <3>1 DEF AtHand
  <2> QED BY <2>3, <2>5, <2>7, <2>8
<1>14. CASE CloseFence(line)
  <2> DEFINE r == Node("code", ToSet(fence) \cup {This}, Joined(Len(fence) + 1), 0)
  <2>1. /\ nodes' = Append(nodes, r) /\ fence # <<>> /\ line = "fence"
        /\ pending' = pending /\ fence' = <<>> /\ pending = <<>>
    BY <1>6, <1>14 DEF CloseFence
  <2>2. r.holds = ToSet(fence) \cup {This} /\ Worthy(r)
    <3>1. Len(fence) + 1 \in Nat /\ Len(fence) + 1 # 0
      BY <1>6
    <3>2. Words(Joined(Len(fence) + 1)) # 0
      BY <3>1, JoinedWords
    <3> QED BY <3>2, NodeHolds
  <2> HIDE DEF r
  <2>3. Ends(line) /\ Fences' = Fences \cup {n}
    BY <1>5, <2>1 DEF Ends
  <2>4. \A i : Keeps(nodes, i) \/ i \in ToSet(fence) \/ i = n => Keeps(nodes', i)
    BY <1>6, <1>9, <2>1, <2>2, KeepsMore
  <2>5. \A i \in 1..Len(pieces) : Handled(i)'
    <3>1. \A i : ClosedImage(i) => ClosedImage(i)'
      BY <1>1, ClosedStays
    <3> QED BY <1>2, <1>4, <2>1, <2>4, <3>1 DEF Handled
  <2>6. Handled(n)'
    BY <2>4 DEF Handled
  <2>7. ~Odd(Fences')
    BY <1>5, <1>6, <2>1, <2>3, OddIs
  <2>8. InBlock'
    BY <2>1, <2>7 DEF InBlock, Odd
  <2>9. AtHand'
    BY <1>1, <2>1, <2>3, <2>7, FreshBegins
  <2> QED BY <2>5, <2>6, <2>8, <2>9
<1>15. CASE ReadFencedLine(line)
  <2>1. /\ nodes' = nodes /\ fence # <<>> /\ line # "fence"
        /\ pending' = pending /\ fence' = Append(fence, n) /\ pending = <<>>
    BY <1>3, <1>6, <1>15 DEF ReadFencedLine
  <2>2. Fences' = Fences
    BY <1>5, <2>1
  <2>3. /\ ToSet(fence') = ToSet(fence) \cup {n} /\ fence' # <<>> /\ fence'[1] = fence[1]
    <3>1. IsSeq(fence)
      BY <1>6 DEF IsSeq, ToSet
    <3>2. ToSet(fence') = ToSet(fence) \cup {n}
      BY <2>1, <3>1, AppendIs
    <3>3. fence' # <<>> /\ fence'[1] = fence[1]
      BY <1>6, <2>1
    <3> QED BY <3>2, <3>3
  <2>4. \A i \in 1..Len(pieces) : Handled(i)'
    <3>1. \A i : ClosedImage(i) => ClosedImage(i)'
      BY <1>1, ClosedStays
    <3> QED BY <1>2, <1>4, <2>1, <2>3, <3>1 DEF Handled
  <2>5. Handled(n)'
    BY <2>3 DEF Handled
  <2>6. InBlock'
    <3>1. /\ fence[1] \in Fences /\ \A i \in Fences : i <= fence[1]
          /\ \A i \in ToSet(fence) : i >= fence[1]
      BY <1>2, <2>1 DEF InBlock
    <3>2. n >= fence[1]
      <4>1. fence[1] \in 1..Len(pieces)
        BY <1>5, <3>1
      <4>2. n = Len(pieces) + 1 /\ Len(pieces) \in Nat
        BY <1>3, <1>4
      <4>3. \A q \in 1..Len(pieces) : n >= q
        BY <4>2
      <4> QED BY <4>1, <4>3
    <3>3. \A i \in ToSet(fence') : i >= fence[1]
      BY <2>3, <3>1, <3>2
    <3>4. Odd(Fences)
      BY <1>6, <2>1
    <3> QED BY <2>1, <2>2, <2>3, <3>1, <3>3, <3>4 DEF InBlock, Odd
  <2>7. AtHand'
    <3>1. Len(pending') = 0
      BY <2>1
    <3> QED BY <1>4, <2>3, <3>1 DEF AtHand
  <2> QED BY <2>4, <2>5, <2>6, <2>7
<1> QED BY <1>10, <1>11, <1>12, <1>13, <1>14, <1>15 DEF ReadLine

\* The end of a markdown document.
LEMMA FinishMarkdownAccounts ==
    ASSUME PInv, Accounted, FinishMarkdown
    PROVE  Accounted'
<1>1. /\ Typed /\ reader = "markdown" /\ pieces' = pieces /\ reader' = reader /\ ~parsed
      /\ parsed' = TRUE /\ nodes' = Flushed /\ pending' = <<>> /\ fence' = fence
  BY DEF FinishMarkdown, Return, Reading, PInv
<1>2. AtHand /\ InBlock /\ \A i \in 1..Len(pieces) : Handled(i)
  BY <1>1 DEF Accounted, KeepsLines
<1>3. SUFFICES ASSUME NEW i \in 1..Len(pieces) PROVE Dropped(i)'
  <2>1. KeepsLines'
    BY <1>1, <1>3 DEF KeepsLines
  <2> QED BY <1>1, <2>1 DEF Accounted
<1>4. pieces \in Seq(Piece) /\ Len(pieces) \in Nat /\ DOMAIN pieces = 1..Len(pieces)
  BY <1>1 DEF Typed
<1>5. (UnderImage(i)' <=> UnderImage(i)) /\ (InOpenFence(i)' <=> InOpenFence(i))
  BY <1>1 DEF UnderImage, InOpenFence, Fenced, Fences
<1>6. pending = <<>> \/ fence = <<>>
  BY <1>2 DEF InBlock
<1>7. ASSUME NEW f \in 1..Len(pieces), NEW l \in 1..Len(pieces), BelowImage(i, f, l),
             l = Len(pieces) \/ Ends(pieces[l + 1])
      PROVE  UnderImage(i)
  <2>1. f \in 1..i-1 /\ l \in i..Len(pieces)
    <3>1. f < i /\ i <= l
      BY <1>7 DEF BelowImage
    <3>2. f \in 1..Len(pieces) /\ l \in 1..Len(pieces) /\ i \in 1..Len(pieces)
      BY <1>3, <1>7
    <3> QED BY <1>4, <3>1, <3>2
  <2>2. pieces[f] = "image" /\ ~Fenced(f) /\ \A j \in f..l : pieces[j] \in {"text", "image"}
    BY <1>7 DEF BelowImage, Begins
  <2>3. f = 1 \/ pieces[f - 1] \in {"blank", "h1", "h2", "fence"}
    BY <1>7 DEF BelowImage, Begins, Ends
  <2>4. l = Len(pieces) \/ pieces[l + 1] \in {"blank", "h1", "h2", "fence"}
    BY <1>7 DEF Ends
  <2> QED BY <2>1, <2>2, <2>3, <2>4 DEF UnderImage
<1>8. CASE pieces[i] = "blank"
  BY <1>1, <1>8 DEF Dropped
<1>9. CASE Keeps(nodes, i)
  BY <1>1, <1>2, <1>6, <1>9, FlushKeeps DEF Dropped
<1>10. CASE ClosedImage(i)
  <2>1. UnderImage(i)
    BY <1>7, <1>10 DEF ClosedImage
  <2> QED BY <1>5, <2>1 DEF Dropped
<1>11. CASE i \in ToSet(pending)
  <2>1. CASE Keeps(Flushed, i)
    BY <1>1, <2>1 DEF Dropped
  <2>2. CASE \E f \in 1..Len(pieces) : BelowImage(i, f, Len(pieces))
    <3>1. Len(pieces) \in 1..Len(pieces)
      BY <1>4
    <3>2. UnderImage(i)
      BY <1>7, <2>2, <3>1
    <3> QED BY <1>5, <3>2 DEF Dropped
  <2> QED BY <1>1, <1>2, <1>6, <1>11, <2>1, <2>2, FlushKeeps
<1>12. CASE i \in ToSet(fence)
  <2>1. fence # <<>>
    BY <1>12 DEF ToSet
  <2>2. /\ Odd(Fences) /\ fence[1] \in Fences /\ (\A j \in Fences : j <= fence[1])
        /\ i >= fence[1]
    BY <1>2, <1>12, <2>1 DEF InBlock
  <2>3. Max(Fences) \in Fences
    <3>1. Fences \in SUBSET (1..Len(pieces)) /\ Fences # {}
      BY <1>4, <2>2 DEF Fences
    <3> QED BY <1>4, <3>1, TopIn
  <2>4. Max(Fences) <= fence[1] /\ Max(Fences) \in Nat /\ fence[1] \in Nat
    BY <1>4, <2>2, <2>3 DEF Fences
  <2>5. i >= Max(Fences)
    BY <2>2, <2>4
  <2>6. InOpenFence(i)
    BY <2>2, <2>5 DEF InOpenFence, Odd
  <2> QED BY <1>5, <2>6 DEF Dropped
<1> QED BY <1>2, <1>8, <1>9, <1>10, <1>11, <1>12 DEF Handled

\* The chunker changes nothing of what the reader has built.
LEMMA AccountedStays ==
    ASSUME Accounted, UNCHANGED parserVars
    PROVE  Accounted'
<1>1. /\ reader' = reader /\ parsed' = parsed /\ pieces' = pieces /\ pending' = pending
      /\ fence' = fence /\ nodes' = nodes
  BY DEF parserVars
<1>2. Fences' = Fences
  BY <1>1 DEF Fences
<1>3. \A f : Begins(f)' <=> Begins(f)
  BY <1>1, <1>2 DEF Begins, Fenced, Ends
<1>4. \A i, f, l : BelowImage(i, f, l)' <=> BelowImage(i, f, l)
  BY <1>1, <1>3 DEF BelowImage
<1>5. \A i : ClosedImage(i)' <=> ClosedImage(i)
  BY <1>1, <1>4 DEF ClosedImage
<1>6. \A i : UnderImage(i)' <=> UnderImage(i)
  BY <1>1, <1>2 DEF UnderImage, Fenced
<1>7. \A i : InOpenFence(i)' <=> InOpenFence(i)
  BY <1>1, <1>2 DEF InOpenFence
<1>8. \A i : (Handled(i)' <=> Handled(i)) /\ (Dropped(i)' <=> Dropped(i))
  BY <1>1, <1>5, <1>6, <1>7 DEF Handled, Dropped
<1>9. AtHand => AtHand'
  BY <1>1, <1>3 DEF AtHand
<1>10. InBlock => InBlock'
  BY <1>1, <1>2 DEF InBlock, Odd
<1>11. KeepsLines => KeepsLines'
  BY <1>1, <1>8, <1>9, <1>10 DEF KeepsLines
<1>12. KeepsItems => KeepsItems'
  BY <1>1 DEF KeepsItems
<1>13. KeepsAll => KeepsAll'
  BY <1>1 DEF KeepsAll
<1>14. KeepsCode => KeepsCode'
  BY <1>1, <1>13 DEF KeepsCode, HasDefinition, KeepsAll
<1>15. KeepsPages => KeepsPages'
  BY <1>1 DEF KeepsPages, KeepsPage
<1> QED BY <1>1, <1>11, <1>12, <1>13, <1>14, <1>15, Zenon DEF Accounted

\* Before a reader begins there is nothing to account for.
LEMMA AccountsBegin ==
    ASSUME Init
    PROVE  Accounted
BY DEF Init, ParserInit, Accounted

\* Every step keeps the account.
LEMMA AccountsKeep ==
    ASSUME PInv, Accounted, [Next]_vars
    PROVE  Accounted'
<1>1. CASE UNCHANGED vars
  BY <1>1, AccountedStays DEF vars
<1>2. CASE Chunk
  BY <1>2, AccountedStays DEF Chunk
<1>3. CASE ParserNext
  <2>1. CASE FallBack \/ \E t \in DocTypes : ParseTree(t)
    BY <2>1, BeginningsAccount
  <2>2. CASE \E item \in Items : ReadItem(item)
    BY <2>2, ReadItemAccounts
  <2>3. CASE \E line \in Lines : ReadLine(line)
    BY <2>3, ReadLineAccounts
  <2>4. CASE \E s \in Statements : ReadStatement(s)
    BY <2>4, ReadStatementAccounts
  <2>5. CASE FinishBlocks \/ \E s \in Statements : ReadBlockLine(s)
    BY <2>5, BlocksAccount
  <2>6. CASE FinishPages \/ PdfFails \/ \E page \in Pages : ReadPage(page)
    BY <2>6, PdfAccounts
  <2>7. CASE ReadParagraph \/ FinishText
    BY <2>7, TextAccounts
  <2>8. CASE BuildPage \/ FinishPdf
    BY <2>8, BuildPageAccounts, FinishPdfAccounts
  <2>9. CASE FinishDocling \/ FinishMarkdown \/ FinishCode
    BY <2>9, FinishDoclingAccounts, FinishMarkdownAccounts, FinishCodeAccounts
  <2> QED BY <1>3, <2>1, <2>2, <2>3, <2>4, <2>5, <2>6, <2>7, <2>8, <2>9, Zenon DEF ParserNext
<1> QED BY <1>1, <1>2, <1>3, Zenon DEF Next, Parse

\* Whatever a document holds and whichever reader takes over, each piece read
\* so far is in a node that has content, still waits for one, or is of a kind
\* that its reader drops.
THEOREM PiecesAccounted == Spec => [](PInv /\ Accounted)
<1>1. Init => PInv /\ Accounted
  BY ParserBegins, AccountsBegin
<1>2. PInv /\ Accounted /\ [Next]_vars => PInv' /\ Accounted'
  BY ParserKeeps, AccountsKeep
<1> QED BY <1>1, <1>2, PTL DEF Spec

\* A piece in a node that is chunked is found.
LEMMA KeptIsFound ==
    ASSUME PInv, ReadingOrder, stage = "done", NEW i, Keeps(nodes, i)
    PROVE  i \in Found
<1>1. PICK n \in DOMAIN nodes : i \in nodes[n].holds /\ Worthy(nodes[n])
  BY DEF Keeps
<1>2. nodes # <<>>
  BY <1>1
<1>3. Chunkable(n)
  BY <1>1 DEF Chunkable, Blank, Worthy
<1>4. n \in ToSet(ChunkedNodes)
  BY <1>1, <1>2, <1>3, Zenon DEF ReadingOrder
<1> QED BY <1>1, <1>4 DEF Found

\* What the document shows to be kept is in a node.
LEMMA ShownIsKept ==
    ASSUME PInv, Accounted, parsed, NEW id \in ToBeFound
    PROVE  Keeps(nodes, id)
<1>1. /\ pieces \in Seq(Piece) /\ DOMAIN pieces = 1..Len(pieces)
      /\ reader \in Readers /\ reader \notin {"none", "pdf", "failed"}
  BY DEF PInv, Typed, Accounted
<1>2. CASE reader = "pages"
  <2>1. id \in {p \in (DOMAIN pieces) \X (1..MaxPieces) :
                  p[2] \in DOMAIN pieces[p[1]] /\ ~IsRunning(p)}
    BY <1>2 DEF ToBeFound
  <2>2. PICK k \in DOMAIN pieces, j \in 1..MaxPieces : id = <<k, j>>
    BY <2>1
  <2>3. j \in DOMAIN pieces[k] /\ pieces[k][j] # "running"
    BY <2>1, <2>2 DEF IsRunning
  <2>4. k \in 1..Len(pieces) /\ k \notin ToSet(pending) /\ KeepsPages
    <3>1. pending = <<>> /\ KeepsPages
      BY <1>2 DEF Accounted, KeepsPages
    <3> QED BY <1>1, <3>1 DEF ToSet
  <2>5. KeepsPage(nodes, k)
    BY <2>4 DEF KeepsPages
  <2>6. j \in 1..Len(pieces[k])
    <3>1. pieces \in Seq(Pages)
      BY <1>2 DEF PInv, Built
    <3>2. pieces[k] \in Seq({"text", "pipe", "running"})
      BY <2>4, <3>1, ParserAssumption
    <3> QED BY <2>3, <3>2
  <2> QED BY <2>2, <2>3, <2>5, <2>6 DEF KeepsPage
<1>3. CASE reader # "pages"
  <2>1. /\ id \in 1..Len(pieces) /\ HasContent(id)
        /\ reader = "markdown" => ~InOpenFence(id) /\ ~UnderImage(id)
        /\ reader = "code" /\ HasDefinition => pieces[id] \notin {"statement", "decorator"}
    BY <1>1, <1>3 DEF ToBeFound
  <2>2. CASE reader = "docling"
    <3>1. HasSentence(pieces[id])
      BY <2>1, <2>2, Zenon DEF HasContent, HasSentence
    <3> QED BY <2>1, <2>2, <3>1 DEF Accounted, KeepsItems
  <2>3. CASE reader = "markdown"
    <3>1. pieces[id] # "blank"
      BY <2>1, <2>3, Zenon DEF HasContent
    <3>2. Dropped(id)
      BY <2>1, <2>3 DEF Accounted, KeepsLines
    <3> QED BY <2>1, <2>3, <3>1, <3>2 DEF Dropped
  <2>4. CASE reader = "code"
    BY <2>1, <2>4 DEF Accounted, KeepsCode, KeepsAll
  <2>5. CASE reader \in {"text", "blocks"}
    BY <2>1, <2>5 DEF Accounted, KeepsAll
  <2> QED BY <1>1, <1>3, <2>2, <2>3, <2>4, <2>5 DEF Readers
<1> QED BY <1>2, <1>3

\* Whatever the reader and the limits, every piece of the document is in a
\* chunk but for the four kinds that NothingElseLost names.
THEOREM NothingElseLostHolds == Spec => []NothingElseLost
<1>1. ASSUME PInv, CInv, Accounted, ReadingOrder PROVE NothingElseLost
  <2> SUFFICES ASSUME stage = "done", NEW id \in ToBeFound PROVE id \in Found
    BY DEF NothingElseLost
  <2>1. parsed
    BY <1>1 DEF CInv, Staged
  <2>2. Keeps(nodes, id)
    BY <1>1, <2>1, ShownIsKept
  <2> QED BY <1>1, <2>2, KeptIsFound
<1> QED BY <1>1, PiecesAccounted, ChunksInvariant, ReadingOrderHolds, PTL
==============================================================================
