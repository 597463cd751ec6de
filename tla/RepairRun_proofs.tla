-------------------------- MODULE RepairRun_proofs --------------------------
(***************************************************************************)
(* Theorems about RepairRun, for all requests, workspaces and limits, any  *)
(* number of runs and of changes made by others.                           *)
(*                                                                         *)
(* The model folds over sequences: what changes make of a file (MadeOf),   *)
(* what is parsed (Parsed) and what has been attempted (FlattenSeq).  The  *)
(* first part says what these folds are, by induction on the length, and   *)
(* the rest cites nothing else of them.                                    *)
(***************************************************************************)
EXTENDS RepairRun, SequenceTheorems, FiniteSetTheorems, TLAPS

-----------------------------------------------------------------------------
(***************************************************************************)
(* Induction and recursion over the naturals, with sets in place of        *)
(* predicates and functions in place of operators.                         *)
(***************************************************************************)

\* A set of naturals that is not empty has a least element.
LEMMA LeastNat ==
  ASSUME NEW T \in SUBSET Nat, T # {}
  PROVE  \E n \in T : \A m \in T : n <= m
<1> DEFINE R == {ss \in Nat \X Nat : ss[1] < ss[2]}
<1>1. IsWellFoundedOn(R, Nat)
  BY NatLessThanWellFounded, Zenon DEF OpToRel
<1>2. \A m, n \in Nat : m < n => <<m, n>> \in R
  OBVIOUS
<1> HIDE DEF R
<1>3. PICK x \in T : \A y \in T : <<y, x>> \notin R
  BY <1>1, WFMin
<1>4. ASSUME NEW y \in T PROVE x <= y
  <2>1. ~(y < x)
    BY <1>2, <1>3
  <2>2. QED
    BY <2>1
<1>5. QED
  BY <1>4

\* Induction.
LEMMA SetInduction ==
  ASSUME NEW S \in SUBSET Nat, 0 \in S, \A n \in S : n + 1 \in S
  PROVE  S = Nat
<1> SUFFICES ASSUME Nat \ S # {} PROVE FALSE
  OBVIOUS
<1>1. PICK n \in Nat \ S : \A m \in Nat \ S : n <= m
  BY LeastNat
<1>2. n # 0 /\ n - 1 \in Nat
  BY <1>1
<1>3. n - 1 \in S
  BY <1>1, <1>2
<1>4. QED
  BY <1>1, <1>2, <1>3

\* g[n] is what the first n steps make of base.
Iterates(g, N, V, base, step) ==
  /\ g \in [0..N -> V]
  /\ g[0] = base
  /\ \A i \in 1..N : g[i] = step[i][g[i - 1]]

\* Recursion.
LEMMA Recursion ==
  ASSUME NEW N \in Nat, NEW V, NEW base \in V, NEW step \in [1..N -> [V -> V]]
  PROVE  \E g : Iterates(g, N, V, base, step)
<1> DEFINE S == {n \in Nat : n <= N => \E g : Iterates(g, n, V, base, step)}
<1>1. 0 \in S
  <2>1. Iterates([i \in 0..0 |-> base], 0, V, base, step)
    BY DEF Iterates
  <2>2. QED
    BY <2>1
<1>2. ASSUME NEW n \in S PROVE n + 1 \in S
  <2> SUFFICES ASSUME n + 1 <= N PROVE \E g : Iterates(g, n + 1, V, base, step)
    OBVIOUS
  <2>1. PICK g : Iterates(g, n, V, base, step)
    OBVIOUS
  <2> DEFINE h == [i \in 0..(n + 1) |-> IF i = n + 1 THEN step[n + 1][g[n]] ELSE g[i]]
  <2>2. step[n + 1] \in [V -> V] /\ g[n] \in V
    BY <2>1 DEF Iterates
  <2>3. step[n + 1][g[n]] \in V
    BY <2>2
  <2>4. h \in [0..(n + 1) -> V] /\ h[0] = base
    BY <2>1, <2>3 DEF Iterates
  <2>5. ASSUME NEW i \in 1..(n + 1) PROVE h[i] = step[i][h[i - 1]]
    BY <2>1 DEF Iterates
  <2>6. Iterates(h, n + 1, V, base, step)
    BY <2>4, <2>5 DEF Iterates
  <2>7. QED
    BY <2>6
<1>3. S = Nat
  <2> HIDE DEF S
  <2>1. S \in SUBSET Nat
    BY DEF S
  <2>2. QED
    BY <1>1, <1>2, <2>1, SetInduction
<1>4. N \in S
  BY <1>3
<1>5. QED
  BY <1>4

-----------------------------------------------------------------------------
(***************************************************************************)
(* The folds of the library.                                               *)
(***************************************************************************)
\* What FoldFunctionOnSet computes for every set of indices, the greatest first.
Folding(iter, N, V, base, step) ==
  \A s \in SUBSET (1..N) :
    IF s = {} THEN iter[s] = base
    ELSE iter[s \ {Max(s)}] \in V => iter[s] = step[Max(s)][iter[s \ {Max(s)}]]

\* There is such a function, so the library's CHOOSE finds one.
FoldDefined(N, V, base, step) ==
  \E iter \in [SUBSET (1..N) -> V] : Folding(iter, N, V, base, step)

\* Max is the greatest element, where there is one.
LEMMA MaxIs ==
  ASSUME NEW n \in Nat, NEW s \in SUBSET (1..n), n \in s
  PROVE  Max(s) = n
<1>1. \A y \in s : n >= y
  OBVIOUS
<1>2. ASSUME NEW x \in s, \A y \in s : x >= y PROVE x = n
  BY <1>2
<1>3. QED
  BY <1>1, <1>2 DEF Max

\* A set of indices that is not empty has one.
LEMMA MaxExists ==
  ASSUME NEW N \in Nat, NEW s \in SUBSET (1..N), s # {}
  PROVE  Max(s) \in s
<1> DEFINE T == {N - x : x \in s}
<1>1. ASSUME NEW x \in s PROVE x \in Nat /\ N - x \in Nat /\ N - x \in T
  BY <1>1
<1>a. T \in SUBSET Nat
  BY <1>1
<1>b. T # {}
  BY <1>1
<1> HIDE DEF T
<1>2. PICK n \in T : \A m \in T : n <= m
  BY <1>a, <1>b, LeastNat
<1>3. PICK x \in s : n = N - x
  BY DEF T
<1>4. ASSUME NEW y \in s PROVE x >= y
  <2>1. N - y \in T /\ y \in Nat /\ x \in Nat
    BY <1>1
  <2>2. QED
    BY <1>2, <1>3, <2>1
<1>5. QED
  BY <1>4 DEF Max

\* A fold over the sets of indices is well defined.
LEMMA FoldExists ==
  ASSUME NEW N \in Nat, NEW V, NEW base \in V, NEW step \in [1..N -> [V -> V]]
  PROVE  FoldDefined(N, V, base, step)
<1> DEFINE S == {n \in Nat : n <= N => FoldDefined(n, V, base, step)}
<1>1. 0 \in S
  <2> DEFINE iter == [s \in SUBSET (1..0) |-> base]
  <2>a. 1..0 = {}
    OBVIOUS
  <2>1. iter \in [SUBSET (1..0) -> V] /\ Folding(iter, 0, V, base, step)
    BY <2>a DEF Folding
  <2>2. QED
    BY <2>1 DEF FoldDefined
<1>2. ASSUME NEW n \in S PROVE n + 1 \in S
  <2> SUFFICES ASSUME n + 1 <= N PROVE FoldDefined(n + 1, V, base, step)
    OBVIOUS
  <2>0. FoldDefined(n, V, base, step)
    OBVIOUS
  <2>1. PICK old \in [SUBSET (1..n) -> V] : Folding(old, n, V, base, step)
    BY <2>0 DEF FoldDefined
  <2> DEFINE iter == [s \in SUBSET (1..(n + 1)) |->
                        IF n + 1 \in s THEN step[n + 1][old[s \ {n + 1}]] ELSE old[s]]
  <2>2. ASSUME NEW s \in SUBSET (1..(n + 1))
        PROVE  /\ s \ {n + 1} \in SUBSET (1..n)
               /\ n + 1 \notin s => s \in SUBSET (1..n)
    BY <2>2
  <2>3. step[n + 1] \in [V -> V]
    OBVIOUS
  <2>4. iter \in [SUBSET (1..(n + 1)) -> V]
    BY <2>2, <2>3
  <2>5. ASSUME NEW s \in SUBSET (1..(n + 1))
        PROVE  iter[s] = IF s = {} THEN base ELSE step[Max(s)][iter[s \ {Max(s)}]]
    <3>1. CASE n + 1 \in s
      <4>1. Max(s) = n + 1
        BY <3>1, MaxIs
      <4>2. iter[s \ {n + 1}] = old[s \ {n + 1}]
        BY <2>2
      <4>3. iter[s] = step[n + 1][old[s \ {n + 1}]]
        BY <3>1
      <4> HIDE DEF iter
      <4>4. QED
        BY <3>1, <4>1, <4>2, <4>3
    <3>2. CASE n + 1 \notin s
      <4>1. s \in SUBSET (1..n)
        BY <2>2, <3>2
      <4>2. iter[s] = old[s]
        BY <3>2
      <4>3. iter[s \ {Max(s)}] = old[s \ {Max(s)}]
        BY <3>2
      <4>4. old[s] = IF s = {} THEN base ELSE step[Max(s)][old[s \ {Max(s)}]]
        <5>1. s \ {Max(s)} \in SUBSET (1..n)
          BY <4>1
        <5>2. old[s \ {Max(s)}] \in V
          BY <5>1
        <5>3. QED
          BY <2>1, <4>1, <5>2 DEF Folding
      <4> HIDE DEF iter
      <4>5. QED
        BY <4>2, <4>3, <4>4
    <3>3. QED
      BY <3>1, <3>2
  <2>6. QED
    BY <2>4, <2>5 DEF Folding, FoldDefined
<1>3. S = Nat
  <2> HIDE DEF S
  <2>1. S \in SUBSET Nat
    BY DEF S
  <2>2. QED
    BY <1>1, <1>2, <2>1, SetInduction
<1>4. N \in S
  BY <1>3
<1>5. QED
  BY <1>4

\* Over all the indices up to k it is the k-th iterate.
LEMMA FoldIsIterate ==
  ASSUME NEW N \in Nat, NEW V, NEW base \in V, NEW step \in [1..N -> [V -> V]],
         NEW iter, Folding(iter, N, V, base, step),
         NEW g, Iterates(g, N, V, base, step)
  PROVE  iter[1..N] = g[N]
<1> DEFINE S == {n \in Nat : n <= N => iter[1..n] = g[n]}
<1>1. 0 \in S
  <2>1. 1..0 = {} /\ {} \in SUBSET (1..N)
    OBVIOUS
  <2>2. iter[1..0] = base /\ g[0] = base
    BY <2>1 DEF Folding, Iterates
  <2>3. QED
    BY <2>2
<1>2. ASSUME NEW n \in S PROVE n + 1 \in S
  <2> SUFFICES ASSUME n + 1 <= N PROVE iter[1..(n + 1)] = g[n + 1]
    OBVIOUS
  <2>1. /\ 1..(n + 1) \in SUBSET (1..N) /\ 1..(n + 1) # {}
        /\ n + 1 \in 1..N
    OBVIOUS
  <2>a. (1..(n + 1)) \ {n + 1} = 1..n
    OBVIOUS
  <2>2. Max(1..(n + 1)) = n + 1
    BY MaxIs
  <2>b. iter[1..n] = g[n] /\ g[n] \in V
    BY DEF Iterates
  <2>3. iter[1..(n + 1)] = step[n + 1][iter[1..n]]
    BY <2>1, <2>a, <2>b, <2>2 DEF Folding
  <2>4. g[n + 1] = step[n + 1][g[n]]
    BY <2>1 DEF Iterates
  <2>5. QED
    BY <2>3, <2>4
<1>3. S = Nat
  <2> HIDE DEF S
  <2>1. S \in SUBSET Nat
    BY DEF S
  <2>2. QED
    BY <1>1, <1>2, <2>1, SetInduction
<1>4. QED
  BY <1>3

-----------------------------------------------------------------------------
(***************************************************************************)
(* What changes may make of a file: MadeOf.                                *)
(***************************************************************************)
\* Snippets are replaced by snippets.
LEMMA ReplacedType ==
  ASSUME NEW text \in Contents, NEW old, NEW new \in Snippets \union {Fragment}
  PROVE  Replaced(text, old, new) \in Contents
<1>1. /\ Len(text) \in Nat /\ DOMAIN text = 1..Len(text)
      /\ \A i \in 1..Len(text) : text[i] \in Snippets \union {Fragment}
  BY DEF Contents
<1>2. Replaced(text, old, new) \in [1..Len(text) -> Snippets \union {Fragment}]
  BY <1>1 DEF Replaced
<1>3. QED
  BY <1>1, <1>2 DEF Contents

\* What a change makes of a text is a text.
LEMMA PatchedType ==
  ASSUME NEW change \in Changes, NEW text \in Contents
  PROVE  Patched(change, text) \in Contents
<1>1. CASE change.mode = "part"
  <2> DEFINE new == change.after[1]
  <2>1. change.after \in Contents /\ Len(change.after) = 1
    BY <1>1 DEF Changes
  <2>2. new \in Snippets \union {Fragment}
    <3>1. 1 \in 1..Len(change.after)
      BY <2>1
    <3>2. QED
      BY <2>1, <3>1, ElementOfSeq DEF Contents
  <2> HIDE DEF new
  <2>3. QED
    BY <1>1, <2>2, ReplacedType DEF Patched, new
<1>2. CASE change.mode # "part"
  BY <1>2 DEF Patched, Changes
<1>3. QED
  BY <1>1, <1>2

\* What a change makes of some texts.
MadeBy(change, texts) == {Patched(change, t) : t \in {u \in texts : Matches(change, u)}}

\* They are texts too.
LEMMA MadeByFact ==
  ASSUME NEW change \in Changes, NEW texts \in SUBSET Contents
  PROVE  /\ MadeBy(change, texts) \in SUBSET Contents
         /\ \A t \in texts : Matches(change, t) => Patched(change, t) \in MadeBy(change, texts)
<1>1. ASSUME NEW t \in texts PROVE Patched(change, t) \in Contents
  BY PatchedType
<1>2. QED
  BY <1>1 DEF MadeBy

\* What one change may make of a file, as a step of a fold.
MadeStep(f, changes) ==
  [i \in 1..Len(changes) |-> [made \in SUBSET Contents |->
     IF Resolves[changes[i].path] = f THEN made \union MadeBy(changes[i], made) ELSE made]]

\* It takes texts to texts.
LEMMA MadeStepType ==
  ASSUME NEW f, NEW changes \in Seq(Changes)
  PROVE  MadeStep(f, changes) \in [1..Len(changes) -> [SUBSET Contents -> SUBSET Contents]]
<1>1. ASSUME NEW i \in 1..Len(changes), NEW made \in SUBSET Contents
      PROVE  MadeBy(changes[i], made) \in SUBSET Contents
  <2>1. changes[i] \in Changes
    OBVIOUS
  <2>2. QED
    BY <2>1, MadeByFact
<1>2. QED
  BY <1>1 DEF MadeStep

\* The fold is the last iterate.
LEMMA MadeOfIs ==
  ASSUME NEW f, NEW texts \in SUBSET Contents, NEW changes \in Seq(Changes), NEW g,
         Iterates(g, Len(changes), SUBSET Contents, texts, MadeStep(f, changes))
  PROVE  MadeOf(f, texts, changes) = g[Len(changes)]
<1> DEFINE N == Len(changes)
           V == SUBSET Contents
           step == MadeStep(f, changes)
           Next1(iter, s) ==
             IF s = {} THEN texts
             ELSE IF Resolves[changes[Max(s)].path] = f
                  THEN iter[s \ {Max(s)}] \union MadeBy(changes[Max(s)], iter[s \ {Max(s)}])
                  ELSE iter[s \ {Max(s)}]
           fold == CHOOSE iter : iter = [s \in SUBSET DOMAIN changes |-> Next1(iter, s)]
<1>1. N \in Nat /\ DOMAIN changes = 1..N
  OBVIOUS
<1>2. MadeOf(f, texts, changes) = fold[1..N]
  BY <1>1 DEF MadeOf, FoldLeft, MapThenFoldSet, MadeBy
<1>3. ASSUME NEW s \in SUBSET (1..N), s # {} PROVE Max(s) \in 1..N
  BY <1>1, <1>3, MaxExists
<1>4. ASSUME NEW iter, NEW s \in SUBSET (1..N), s # {}, iter[s \ {Max(s)}] \in V
      PROVE  Next1(iter, s) = step[Max(s)][iter[s \ {Max(s)}]]
  BY <1>3, <1>4 DEF MadeStep
<1>5. PICK some \in [SUBSET (1..N) -> V] : Folding(some, N, V, texts, step)
  BY <1>1, FoldExists, MadeStepType DEF FoldDefined
<1>6. some = [s \in SUBSET DOMAIN changes |-> Next1(some, s)]
  <2>1. ASSUME NEW s \in SUBSET (1..N) PROVE some[s] = Next1(some, s)
    <3>1. CASE s = {}
      BY <1>5, <3>1 DEF Folding
    <3>2. CASE s # {}
      <4>1. some[s \ {Max(s)}] \in V
        BY <1>5
      <4>2. some[s] = step[Max(s)][some[s \ {Max(s)}]]
        BY <1>5, <3>2, <4>1 DEF Folding
      <4>3. QED
        BY <1>4, <3>2, <4>1, <4>2
    <3>3. QED
      BY <3>1, <3>2
  <2> HIDE DEF Next1
  <2>2. QED
    BY <1>1, <1>5, <2>1
<1>7. fold = [s \in SUBSET DOMAIN changes |-> Next1(fold, s)]
  BY <1>6
<1>8. Folding(fold, N, V, texts, step)
  BY <1>1, <1>4, <1>7 DEF Folding
<1>9. /\ step \in [1..N -> [V -> V]] /\ texts \in V
      /\ Iterates(g, N, V, texts, step)
  BY MadeStepType
<1>10. N \in Nat /\ MadeOf(f, texts, changes) = fold[1..N]
  BY <1>1, <1>2
<1> HIDE DEF step, V, fold, N
<1>11. fold[1..N] = g[N]
  BY <1>8, <1>9, <1>10, FoldIsIterate
<1>12. QED
  BY <1>10, <1>11 DEF N

\* And over the first k changes it is the k-th.
LEMMA MadeOfRun ==
  ASSUME NEW f, NEW texts \in SUBSET Contents, NEW changes \in Seq(Changes)
  PROVE  \E g : /\ Iterates(g, Len(changes), SUBSET Contents, texts, MadeStep(f, changes))
                /\ \A k \in 0..Len(changes) : MadeOf(f, texts, SubSeq(changes, 1, k)) = g[k]
<1> DEFINE N == Len(changes)
           V == SUBSET Contents
<1>a. N \in Nat /\ texts \in V
  OBVIOUS
<1>b. MadeStep(f, changes) \in [1..N -> [V -> V]]
  BY MadeStepType
<1> HIDE DEF V
<1>1. PICK g : Iterates(g, N, V, texts, MadeStep(f, changes))
  BY <1>a, <1>b, Recursion
<1>2. ASSUME NEW k \in 0..N PROVE MadeOf(f, texts, SubSeq(changes, 1, k)) = g[k]
  <2> DEFINE c == SubSeq(changes, 1, k)
             h == [i \in 0..k |-> g[i]]
  <2>1. c \in Seq(Changes) /\ Len(c) = k /\ \A i \in 1..k : c[i] = changes[i]
    OBVIOUS
  <2> HIDE DEF c
  <2>2. ASSUME NEW i \in 1..k PROVE MadeStep(f, c)[i] = MadeStep(f, changes)[i]
    <3>1. i \in 1..Len(c) /\ i \in 1..Len(changes) /\ c[i] = changes[i]
      BY <2>1
    <3>2. QED
      BY <3>1 DEF MadeStep
  <2>3. h \in [0..k -> V] /\ h[0] = texts
    BY <1>1 DEF Iterates
  <2>4. \A i \in 1..k : h[i] = MadeStep(f, c)[i][h[i - 1]]
    BY <1>1, <2>2 DEF Iterates
  <2>5. Iterates(h, Len(c), V, texts, MadeStep(f, c))
    BY <2>1, <2>3, <2>4 DEF Iterates
  <2> HIDE DEF h
  <2>6. MadeOf(f, texts, c) = h[k]
    <3>1. Iterates(h, Len(c), SUBSET Contents, texts, MadeStep(f, c)) /\ texts \in SUBSET Contents
      BY <1>a, <2>5 DEF V
    <3>2. MadeOf(f, texts, c) = h[Len(c)]
      BY <2>1, <3>1, MadeOfIs
    <3>3. QED
      BY <2>1, <3>2
  <2>7. QED
    BY <2>6 DEF c, h
<1>3. QED
  BY <1>1, <1>2 DEF V

\* More changes make no less of a file, and one that applies makes one more text.
LEMMA MadeOfGrows ==
  ASSUME NEW f, NEW texts \in SUBSET Contents, NEW changes \in Seq(Changes),
         NEW k \in 0..Len(changes)
  PROVE  /\ texts \subseteq MadeOf(f, texts, SubSeq(changes, 1, k))
         /\ \A j \in 0..k : MadeOf(f, texts, SubSeq(changes, 1, j))
                              \subseteq MadeOf(f, texts, SubSeq(changes, 1, k))
         /\ k < Len(changes) /\ Resolves[changes[k + 1].path] = f =>
              \A t \in MadeOf(f, texts, SubSeq(changes, 1, k)) : Matches(changes[k + 1], t) =>
                Patched(changes[k + 1], t) \in MadeOf(f, texts, SubSeq(changes, 1, k + 1))
<1> DEFINE N == Len(changes)
           V == SUBSET Contents
           made(n) == MadeOf(f, texts, SubSeq(changes, 1, n))
           Advanced(n, now, next) ==
             \A t \in now : Matches(changes[n + 1], t) => Patched(changes[n + 1], t) \in next
<1>1. PICK g : Iterates(g, N, V, texts, MadeStep(f, changes)) /\ \A n \in 0..N : made(n) = g[n]
  BY MadeOfRun
<1>2. ASSUME NEW n \in 0..N, n + 1 <= N
      PROVE  /\ g[n] \subseteq g[n + 1]
             /\ Resolves[changes[n + 1].path] = f => Advanced(n, g[n], g[n + 1])
  <2>1. n + 1 \in 1..N /\ g[n] \in V /\ changes[n + 1] \in Changes
    BY <1>1, <1>2 DEF Iterates
  <2>a. \A t \in g[n] : Matches(changes[n + 1], t)
                         => Patched(changes[n + 1], t) \in MadeBy(changes[n + 1], g[n])
    BY <2>1, MadeByFact
  <2>2. g[n + 1] = MadeStep(f, changes)[n + 1][g[n]]
    BY <1>1, <2>1 DEF Iterates
  <2>3. QED
    BY <2>1, <2>a, <2>2 DEF MadeStep
<1> DEFINE S(j) == {n \in Nat : j + n <= N => g[j] \subseteq g[j + n]}
<1>3. ASSUME NEW j \in 0..N PROVE S(j) = Nat
  <2>1. 0 \in S(j)
    OBVIOUS
  <2>2. ASSUME NEW n \in S(j) PROVE n + 1 \in S(j)
    <3> SUFFICES ASSUME j + n + 1 <= N PROVE g[j] \subseteq g[j + (n + 1)]
      OBVIOUS
    <3>1. j + n \in 0..N /\ (j + n) + 1 = j + (n + 1)
      OBVIOUS
    <3>2. g[j] \subseteq g[j + n]
      OBVIOUS
    <3>3. g[j + n] \subseteq g[(j + n) + 1]
      BY <1>2, <3>1
    <3>4. QED
      BY <3>1, <3>2, <3>3
  <2>3. S(j) \in SUBSET Nat
    OBVIOUS
  <2> HIDE DEF S
  <2>4. QED
    BY <2>1, <2>2, <2>3, SetInduction
<1>4. ASSUME NEW j \in 0..k PROVE made(j) \subseteq made(k)
  <2>1. k - j \in Nat /\ j + (k - j) = k /\ j \in 0..N
    OBVIOUS
  <2>2. k - j \in S(j)
    BY <1>3, <2>1
  <2>3. g[j] \subseteq g[k]
    BY <2>1, <2>2
  <2>4. QED
    BY <1>1, <2>1, <2>3
<1>5. made(0) = texts
  BY <1>1 DEF Iterates
<1>6. k < N => k + 1 \in 0..N
  OBVIOUS
<1> HIDE DEF made
<1>7. k < N /\ Resolves[changes[k + 1].path] = f => Advanced(k, made(k), made(k + 1))
  BY <1>1, <1>2, <1>6
<1>8. texts \subseteq made(k)
  BY <1>4, <1>5
<1>9. QED
  BY <1>4, <1>7, <1>8 DEF made

-----------------------------------------------------------------------------
(***************************************************************************)
(* The responses that are parsed: Parsed.                                  *)
(***************************************************************************)
\* What the parser does with one response, as a step of a fold.
ParsedStep(responses) ==
  [i \in 1..Len(responses) |-> [parsed \in Seq(Proposals) |->
     IF ParserRejects(responses[i]) THEN parsed ELSE Append(parsed, responses[i])]]

\* What is parsed is a sequence of proposals.
LEMMA ParsedType ==
  ASSUME NEW responses \in Seq(Proposals)
  PROVE  Parsed(responses) \in Seq(Proposals)
<1> DEFINE N == Len(responses)
           V == Seq(Proposals)
           step == ParsedStep(responses)
           Further(iter, s) ==
             IF s = {} THEN <<>>
             ELSE IF ParserRejects(responses[Max(s)]) THEN iter[s \ {Max(s)}]
                  ELSE Append(iter[s \ {Max(s)}], responses[Max(s)])
           fold == CHOOSE iter : iter = [s \in SUBSET DOMAIN responses |-> Further(iter, s)]
<1>1. N \in Nat /\ DOMAIN responses = 1..N /\ <<>> \in V
  OBVIOUS
<1>2. Parsed(responses) = fold[1..N]
  BY <1>1 DEF Parsed, FoldLeft, MapThenFoldSet
<1>3. ASSUME NEW s \in SUBSET (1..N), s # {} PROVE Max(s) \in 1..N
  BY <1>1, <1>3, MaxExists
<1>4. ASSUME NEW iter, NEW s \in SUBSET (1..N), s # {}, iter[s \ {Max(s)}] \in V
      PROVE  Further(iter, s) = step[Max(s)][iter[s \ {Max(s)}]]
  BY <1>3, <1>4 DEF ParsedStep
<1>5. step \in [1..N -> [V -> V]]
  <2>1. ASSUME NEW i \in 1..N, NEW parsed \in V PROVE Append(parsed, responses[i]) \in V
    OBVIOUS
  <2>2. QED
    BY <2>1 DEF ParsedStep
<1>6. PICK some \in [SUBSET (1..N) -> V] : Folding(some, N, V, <<>>, step)
  <2> HIDE DEF V, step
  <2>1. QED
    BY <1>1, <1>5, FoldExists DEF FoldDefined
<1>7. some = [s \in SUBSET DOMAIN responses |-> Further(some, s)]
  <2>1. ASSUME NEW s \in SUBSET (1..N) PROVE some[s] = Further(some, s)
    <3>1. CASE s = {}
      BY <1>6, <3>1 DEF Folding
    <3>2. CASE s # {}
      <4>1. some[s \ {Max(s)}] \in V
        BY <1>6
      <4>2. some[s] = step[Max(s)][some[s \ {Max(s)}]]
        BY <1>6, <3>2, <4>1 DEF Folding
      <4>3. QED
        BY <1>4, <3>2, <4>1, <4>2
    <3>3. QED
      BY <3>1, <3>2
  <2> HIDE DEF Further
  <2>2. QED
    BY <1>1, <1>6, <2>1
<1>8. fold = [s \in SUBSET DOMAIN responses |-> Further(fold, s)]
  BY <1>7
<1>9. Folding(fold, N, V, <<>>, step)
  <2> HIDE DEF fold, V, step
  <2>1. ASSUME NEW s \in SUBSET (1..N) PROVE fold[s] = Further(fold, s)
    BY <1>1, <1>8
  <2>2. fold[{}] = <<>>
    BY <2>1
  <2>3. QED
    BY <1>4, <2>1, <2>2 DEF Folding
<1> HIDE DEF step, V, fold
<1>10. PICK g : Iterates(g, N, V, <<>>, step)
  BY <1>1, <1>5, Recursion
<1>a. N \in Nat
  BY <1>1
<1>b. <<>> \in V
  BY <1>1
<1> HIDE DEF N
<1>11. fold[1..N] = g[N]
  BY <1>a, <1>b, <1>5, <1>9, <1>10, FoldIsIterate
<1>12. g[N] \in V
  BY <1>a, <1>10 DEF Iterates
<1>13. QED
  BY <1>2, <1>11, <1>12 DEF V

-----------------------------------------------------------------------------
(***************************************************************************)
(* The changes attempted: FlattenSeq.                                      *)
(***************************************************************************)
\* One more sequence, as a step of a fold.
FlattenStep(seqs) ==
  [i \in 1..Len(seqs) |-> [flat \in Seq(Changes) |-> flat \o seqs[i]]]

\* A sequence of sequences is flattened one after the other.
LEMMA FlattenIs ==
  ASSUME NEW seqs \in Seq(Seq(Changes)), NEW g,
         Iterates(g, Len(seqs), Seq(Changes), <<>>, FlattenStep(seqs))
  PROVE  FlattenSeq(seqs) = g[Len(seqs)]
<1> DEFINE N == Len(seqs)
           Further(flatten, i) == IF i = 1 THEN seqs[i] ELSE flatten[i - 1] \o seqs[i]
           flat == CHOOSE flatten : flatten = [i \in 1..N |-> Further(flatten, i)]
<1>1. CASE N = 0
  <2>1. seqs = <<>> /\ FlattenSeq(seqs) = seqs
    BY <1>1 DEF FlattenSeq
  <2>2. g[0] = <<>>
    BY DEF Iterates
  <2>3. QED
    BY <1>1, <2>1, <2>2
<1>2. CASE N # 0
  <2>1. FlattenSeq(seqs) = flat[N]
    BY <1>2 DEF FlattenSeq
  <2>2. ASSUME NEW i \in 1..N
        PROVE  g[i] = g[i - 1] \o seqs[i] /\ g[i - 1] \in Seq(Changes) /\ seqs[i] \in Seq(Changes)
    <3>a. i - 1 \in 0..N
      OBVIOUS
    <3>b. g[i - 1] \in Seq(Changes)
      BY <3>a DEF Iterates
    <3>c. seqs[i] \in Seq(Changes)
      BY ElementOfSeq
    <3>1. g[i - 1] \in Seq(Changes) /\ seqs[i] \in Seq(Changes)
      BY <3>b, <3>c
    <3>2. g[i] = FlattenStep(seqs)[i][g[i - 1]]
      BY DEF Iterates
    <3>3. QED
      BY <3>1, <3>2 DEF FlattenStep
  <2>3. g[0] = <<>>
    BY DEF Iterates
  <2> DEFINE h == [i \in 1..N |-> g[i]]
  <2>4. ASSUME NEW i \in 1..N PROVE h[i] = Further(h, i)
    <3>1. CASE i = 1
      <4>1. i - 1 = 0 /\ seqs[i] \in Seq(Changes)
        BY <2>2, <3>1
      <4>2. g[i] = <<>> \o seqs[i]
        BY <2>2, <2>3, <4>1
      <4>3. <<>> \o seqs[i] = seqs[i]
        BY <4>1
      <4>4. QED
        BY <3>1, <4>2, <4>3
    <3>2. CASE i # 1
      <4>1. i - 1 \in 1..N
        BY <3>2
      <4>2. QED
        BY <2>2, <3>2, <4>1
    <3>3. QED
      BY <3>1, <3>2
  <2>5. h = [i \in 1..N |-> Further(h, i)]
    <3> HIDE DEF Further
    <3>1. QED
      BY <2>4
  <2>6. flat = [i \in 1..N |-> Further(flat, i)]
    BY <2>5
  <2> HIDE DEF flat
  <2> DEFINE S == {n \in Nat : n + 1 <= N => flat[n + 1] = g[n + 1]}
  <2>7. 0 \in S
    <3>1. 1 \in 1..N /\ h[1] = g[1]
      BY <1>2
    <3>2. flat[1] = seqs[1]
      BY <2>6, <3>1
    <3>3. h[1] = seqs[1]
      BY <2>4, <3>1
    <3>4. QED
      BY <3>1, <3>2, <3>3
  <2>8. ASSUME NEW n \in S PROVE n + 1 \in S
    <3> SUFFICES ASSUME n + 2 <= N PROVE flat[n + 2] = g[n + 2]
      OBVIOUS
    <3>1. n + 2 \in 1..N /\ n + 2 # 1 /\ (n + 2) - 1 = n + 1 /\ flat[n + 1] = g[n + 1]
      OBVIOUS
    <3>2. flat[n + 2] = flat[n + 1] \o seqs[n + 2]
      BY <2>6, <3>1
    <3>3. g[n + 2] = g[n + 1] \o seqs[n + 2]
      BY <2>2, <3>1
    <3>4. QED
      BY <3>1, <3>2, <3>3
  <2>9. N - 1 \in S
    <3> HIDE DEF S
    <3>1. S \in SUBSET Nat
      BY DEF S
    <3>2. S = Nat
      BY <2>7, <2>8, <3>1, SetInduction
    <3>3. QED
      BY <1>2, <3>2
  <2>10. flat[N] = g[N]
    BY <1>2, <2>9
  <2>11. QED
    BY <2>1, <2>10
<1>3. QED
  BY <1>1, <1>2

\* One more sequence is put at the end.
LEMMA FlattenGrows ==
  ASSUME NEW seqs \in Seq(Seq(Changes)), NEW k \in 0..Len(seqs)
  PROVE  /\ FlattenSeq(SubSeq(seqs, 1, k)) \in Seq(Changes)
         /\ k = 0 => FlattenSeq(SubSeq(seqs, 1, k)) = <<>>
         /\ k > 0 => FlattenSeq(SubSeq(seqs, 1, k)) = FlattenSeq(SubSeq(seqs, 1, k - 1)) \o seqs[k]
<1> DEFINE N == Len(seqs)
           V == Seq(Changes)
<1>1. N \in Nat /\ <<>> \in V
  OBVIOUS
<1>2. FlattenStep(seqs) \in [1..N -> [V -> V]]
  BY DEF FlattenStep
<1>3. PICK g : Iterates(g, N, V, <<>>, FlattenStep(seqs))
  <2> HIDE DEF V
  <2>1. QED
    BY <1>1, <1>2, Recursion
<1>4. ASSUME NEW n \in 0..N PROVE FlattenSeq(SubSeq(seqs, 1, n)) = g[n]
  <2> DEFINE c == SubSeq(seqs, 1, n)
             h == [i \in 0..n |-> g[i]]
  <2>1. c \in Seq(Seq(Changes)) /\ Len(c) = n /\ \A i \in 1..n : c[i] = seqs[i]
    OBVIOUS
  <2> HIDE DEF c
  <2>2. ASSUME NEW i \in 1..n PROVE FlattenStep(c)[i] = FlattenStep(seqs)[i]
    <3>1. i \in 1..Len(c) /\ i \in 1..Len(seqs) /\ c[i] = seqs[i]
      BY <2>1
    <3>2. QED
      BY <3>1 DEF FlattenStep
  <2>3. h \in [0..n -> V] /\ h[0] = <<>>
    BY <1>3 DEF Iterates
  <2>4. ASSUME NEW i \in 1..n PROVE h[i] = FlattenStep(c)[i][h[i - 1]]
    <3>1. i \in 1..N /\ i \in 0..n /\ i - 1 \in 0..n
      OBVIOUS
    <3>2. h[i] = g[i] /\ h[i - 1] = g[i - 1]
      BY <3>1
    <3>3. g[i] = FlattenStep(seqs)[i][g[i - 1]]
      BY <1>3, <3>1 DEF Iterates
    <3>4. QED
      BY <2>2, <3>2, <3>3
  <2>5. Iterates(h, Len(c), V, <<>>, FlattenStep(c))
    BY <2>1, <2>3, <2>4 DEF Iterates
  <2>6. FlattenSeq(c) = h[n]
    BY <2>1, <2>5, FlattenIs
  <2>7. QED
    BY <2>6 DEF c, h
<1>5. g[k] \in V
  BY <1>3 DEF Iterates
<1>6. k = 0 => g[k] = <<>>
  BY <1>3 DEF Iterates
<1>7. k > 0 => g[k] = g[k - 1] \o seqs[k]
  <2> SUFFICES ASSUME k > 0 PROVE g[k] = g[k - 1] \o seqs[k]
    OBVIOUS
  <2>1. k \in 1..N /\ g[k - 1] \in V
    BY <1>3 DEF Iterates
  <2>2. g[k] = FlattenStep(seqs)[k][g[k - 1]]
    BY <1>3, <2>1 DEF Iterates
  <2>3. QED
    BY <2>1, <2>2 DEF FlattenStep
<1>8. k \in 0..N /\ (k > 0 => k - 1 \in 0..N)
  OBVIOUS
<1>9. QED
  <2>1. FlattenSeq(SubSeq(seqs, 1, k)) = g[k]
    BY <1>4
  <2>2. k > 0 => FlattenSeq(SubSeq(seqs, 1, k - 1)) = g[k - 1]
    BY <1>4, <1>8
  <2>3. QED
    BY <1>5, <1>6, <1>7, <2>1, <2>2

-----------------------------------------------------------------------------
(***************************************************************************)
(* The invariant.                                                          *)
(***************************************************************************)
\* A run is being authored.
AuthoringStages == {"context", "parse", "compile"}
\* The repair loop is at work.
LoopStages == {"attempt", "apply", "write", "test"}

\* What the receipts of the repair loop say.
Entries == {"started", "attempt_started", "patch", "test", "terminated"}
Results == Loops \union PatchResults \union TestResults
Receipts == [run : Nat, kind : Entries, result : Results]

\* What the type invariant of the model leaves open.
Shapes ==
  /\ ledger \in Seq(Receipts)
  /\ bundle = [k \in ToSet(Kinds) |-> bundle[k]]
  /\ DOMAIN job.outcomes = DOMAIN Responses(job.request)
  /\ Len(job.outcomes) <= MaxResponses

\* The responses compiled among the first j, and so the place of the last of them.
CompiledIn(outcomes, j) == {k \in 1..j : outcomes[k] = "compiled"}
Place(outcomes, j) == Cardinality(CompiledIn(outcomes, j))

\* The responses before job.next are compiled or rejected, those compiled are the
\* candidates, in their order, and a candidate changes files of the workspace.
Compiling ==
  job.stage \in AuthoringStages =>
    /\ job.request.authored
    /\ job.status = "none"
    /\ job.next \in 1..(Len(job.outcomes) + 1)
    /\ \A j \in DOMAIN job.outcomes :
         job.outcomes[j] \in (IF j >= job.next THEN {"open", "rejected"} ELSE {"compiled", "rejected"})
    /\ Place(job.outcomes, job.next - 1) = Len(job.candidates)
    /\ Len(job.candidates) < job.next
    /\ \A j \in CompiledIn(job.outcomes, job.next - 1) :
         job.candidates[Place(job.outcomes, j)].proposal = Responses(job.request)[j]
    /\ \A i \in DOMAIN job.candidates :
         /\ \E j \in CompiledIn(job.outcomes, job.next - 1) : Place(job.outcomes, j) = i
         /\ ChangedPaths(job.candidates[i].changes) \subseteq Files
    /\ job.stage # "compile" => job.next = 1

\* No label of the file wants a review, or refuses it.
Clean(f) == Labels[f] \intersect (ReviewedLabels \union RefusedLabels) = {}

\* What an authored run tries to write wants no review.
Reviewing ==
  /\ job.request.authored /\ job.stage \in LoopStages =>
       \A a \in DOMAIN job.patches : \A c \in ToSet(job.patches[a]) : c.path \in Files /\ Clean(c.path)
  /\ ReviewedFilesUntouched

\* How many of the changes attempted have been made, or given up.
Reached ==
  IF job.stage \in {"apply", "write"} THEN Len(Attempted) - Len(patch) + job.at - 1
  ELSE Len(Attempted)

\* Where the loop is, and what it has written.
Trying ==
  /\ job.attempt <= Len(job.patches) /\ job.attempt <= MaxAttempts
  /\ job.stage \in AuthoringStages => job.attempt = 0
  /\ job.stage \in AuthoringStages \union {"attempt"} =>
       job.attempt < MaxAttempts /\ Len(job.tests) = job.attempt
  /\ job.stage \in {"apply", "write", "test"} =>
       job.attempt >= 1 /\ Len(job.tests) = job.attempt - 1
  /\ job.stage = "apply" => job.at \in 1..(Len(patch) + 1)
  /\ job.stage = "write" => job.at \in 1..Len(patch) /\ target \in Files /\ target # Outside
  /\ job.stage \in AuthoringStages \union LoopStages =>
       /\ job.loop = "running"
       /\ Len(written) = Reached
       /\ \A i \in 1..Reached : written[i].change = Attempted[i]

\* What is about to be written is made of what the file still holds; and a file
\* that others have not touched since holds what was last written to it.
Keeping ==
  /\ \A f \in Files \ torn : files[f] \in MadeOf(f, {theirs[f]}, SubSeq(Attempted, 1, Reached))
  /\ job.stage = "write" /\ target \notin torn =>
       Matches(patch[job.at], files[target]) /\ job.text = Patched(patch[job.at], files[target])
  /\ job.stage \in AuthoringStages \union LoopStages =>
       \A i \in LastWrites : files[WrittenTo(i)] = written[i].text \/ WrittenTo(i) \in edited

\* The receipts of a run from the first to the last, and what they say of its end.
Begun(run, receipts) ==
  \E first \in DOMAIN receipts : OwnReceipts(run, receipts, first) /\ receipts[first].kind = "started"

\* The receipt of a run of the tests that passed.
TestPassed(receipt) == receipt.kind = "test" /\ receipt.result = "passed"

\* From the receipt of the start to that of the end, and the verdict is theirs.
Whole(run, receipts, result, status) ==
  /\ \E first \in 1..(Len(receipts) - 1) :
       OwnReceipts(run, receipts, first) /\ receipts[first].kind = "started"
  /\ Last(receipts).kind = "terminated"
  /\ Last(receipts).result = result
  /\ status = "verified" <=> TestPassed(receipts[Len(receipts) - 1])

\* What this process has on record of the run.
Recording ==
  /\ job.stage # "idle" => runs >= 1
  /\ job.stage \in AuthoringStages => \A i \in DOMAIN ledger : ledger[i].run # runs
  /\ job.stage \in LoopStages => Begun(runs, ledger)
  /\ job.stage = "attempt" => ~TestPassed(Last(ledger))
  /\ job.stage = "bundle" => job.at >= 1 /\ Whole(runs, ledger, job.loop, VerificationStatus)

\* A manifest, once written, tells of one run.
Telling ==
  manifest # NoManifest =>
    /\ \A k \in ToSet(Kinds) : manifest[k].run = manifest["report"].run
    /\ Whole(manifest["report"].run, manifest["repair_receipts"].body, manifest["report"].body[1],
             manifest["verification"].body[1])

\* With the type invariant, it is inductive.
RepairInvariant ==
  /\ Shapes /\ Compiling /\ Reviewing /\ Trying /\ Keeping /\ Recording /\ Telling
  /\ EveryResponseIsAccounted /\ VerifiedMeansTested

-----------------------------------------------------------------------------
(***************************************************************************)
(* What the steps of the authoring do to the job.                          *)
(***************************************************************************)
\* The run is the same, and what was authored stands.
AuthoringStands ==
  /\ job'.request = job.request /\ job'.next = job.next /\ job'.targets = job.targets
  /\ job'.proposals = job.proposals /\ job'.candidates = job.candidates
  /\ job'.outcomes = job.outcomes /\ job'.status = job.status /\ job'.patches = job.patches

\* The loop is where it was.
LoopStands ==
  /\ job'.request = job.request
  /\ job'.attempt = job.attempt /\ job'.loop = job.loop /\ job'.tests = job.tests

\* A request is read up to the limit.
LEMMA ResponsesType ==
  ASSUME NEW request \in Requests
  PROVE  /\ Responses(request) \in Seq(Proposals)
         /\ Len(Responses(request)) <= MaxResponses
         /\ \A i \in DOMAIN Responses(request) :
              i \in DOMAIN request.responses /\ Responses(request)[i] = request.responses[i]
<1>1. request.responses \in Seq(Proposals) /\ MaxResponses \in Nat
  BY RequestsAssumption, BoundsAssumption
<1>2. CASE Len(request.responses) > MaxResponses
  <2>1. Responses(request) = SubSeq(request.responses, 1, MaxResponses)
    BY <1>2 DEF Responses
  <2>2. QED
    BY <1>1, <1>2, <2>1
<1>3. CASE ~(Len(request.responses) > MaxResponses)
  <2>1. Responses(request) = request.responses
    BY <1>3 DEF Responses
  <2>2. QED
    BY <1>1, <1>3, <2>1
<1>4. QED
  BY <1>2, <1>3

\* The context is collected, or authoring fails.
LEMMA CollectFields ==
  ASSUME TypeOK, CollectContext
  PROVE  /\ job.stage = "context" /\ job' \in Jobs
         /\ \/ job'.stage = "parse" /\ job'.status = "none"
            \/ job'.stage = "idle" /\ job'.status = "no_candidate" /\ job.outcomes = <<>>
            \/ job'.stage = "idle" /\ job'.status = "failed"
         /\ LoopStands /\ job'.next = job.next /\ job'.patches = job.patches
         /\ job'.at = job.at /\ job'.candidates = job.candidates /\ job'.outcomes = job.outcomes
<1>1. job \in Jobs /\ job.stage = "context"
  BY DEF TypeOK, CollectContext
<1> DEFINE targets == {f \in Files : files[f] # Absent /\ Labels[f] \intersect RefusedLabels = {}}
<1>2. targets \in SUBSET Files
  OBVIOUS
<1>3. \/ job' = [job EXCEPT !.stage = "idle", !.status = "no_candidate", !.targets = targets] /\ job.outcomes = <<>>
      \/ job' = [job EXCEPT !.stage = "parse", !.status = "none", !.targets = targets]
      \/ job' = [job EXCEPT !.stage = "idle", !.status = "failed"]
  BY DEF CollectContext, AuthoringFails
<1> HIDE DEF targets
<1>4. job' \in Jobs
  <2>1. CASE job' = [job EXCEPT !.stage = "idle", !.status = "no_candidate", !.targets = targets]
    BY <1>1, <1>2, <2>1 DEF Jobs, Stages, AuthoredStatuses
  <2>2. CASE job' = [job EXCEPT !.stage = "parse", !.status = "none", !.targets = targets]
    BY <1>1, <1>2, <2>2 DEF Jobs, Stages, AuthoredStatuses
  <2>3. CASE job' = [job EXCEPT !.stage = "idle", !.status = "failed"]
    BY <1>1, <1>2, <2>3 DEF Jobs, Stages, AuthoredStatuses
  <2>4. QED
    BY <1>3, <2>1, <2>2, <2>3
<1>5. LoopStands /\ job'.next = job.next /\ job'.patches = job.patches
         /\ job'.at = job.at /\ job'.candidates = job.candidates /\ job'.outcomes = job.outcomes
  BY <1>1, <1>2, <1>3 DEF Jobs, LoopStands
<1>6. \/ job'.stage = "parse" /\ job'.status = "none"
      \/ job'.stage = "idle" /\ job'.status = "no_candidate" /\ job.outcomes = <<>>
      \/ job'.stage = "idle" /\ job'.status = "failed"
  BY <1>1, <1>2, <1>3 DEF Jobs
<1>7. QED
  BY <1>1, <1>4, <1>5, <1>6

\* The responses are parsed, or authoring fails.
LEMMA ParseFields ==
  ASSUME TypeOK, ParseProposals
  PROVE  /\ job.stage = "parse" /\ job' \in Jobs
         /\ \/ job'.stage = "compile" /\ job'.status = "none"
            \/ job'.stage = "idle" /\ job'.status = "failed"
         /\ LoopStands /\ job'.next = job.next /\ job'.patches = job.patches
         /\ job'.at = job.at /\ job'.candidates = job.candidates
         /\ DOMAIN job'.outcomes = DOMAIN Responses(job.request)
         /\ \A i \in DOMAIN job'.outcomes : job'.outcomes[i] \in {"open", "rejected"}
<1> DEFINE responses == Responses(job.request)
           raises == \E i \in DOMAIN responses : ParserRaises(responses[i])
           outcomes == [i \in DOMAIN responses |->
                          IF ParserRejects(responses[i]) /\ \A j \in 1..i : ~ParserRaises(responses[j])
                          THEN "rejected" ELSE "open"]
           stage == IF raises THEN "idle" ELSE "compile"
           status == IF raises THEN "failed" ELSE "none"
           proposals == IF raises THEN <<>> ELSE Parsed(responses)
<1>1. job \in Jobs /\ job.stage = "parse" /\ job.request \in Requests
  BY DEF TypeOK, ParseProposals, Jobs
<1>2. responses \in Seq(Proposals)
  BY <1>1, ResponsesType
<1>3. /\ job' = [job EXCEPT !.stage = stage, !.status = status, !.proposals = proposals,
                            !.outcomes = outcomes]
  BY DEF ParseProposals
<1>4. outcomes \in Seq({"open", "rejected"}) /\ DOMAIN outcomes = DOMAIN responses
  <2>1. DOMAIN responses = 1..Len(responses) /\ Len(responses) \in Nat
    BY <1>2
  <2> HIDE DEF responses
  <2>2. QED
    BY <2>1
<1>5. proposals \in Seq(Proposals)
  BY <1>2, ParsedType
<1>6. stage \in {"idle", "compile"} /\ (stage = "compile" => status = "none")
      /\ (stage = "idle" => status = "failed") /\ status \in {"none", "failed"}
  OBVIOUS
<1> HIDE DEF outcomes, stage, status, proposals, raises
<1>7. outcomes \in Seq({"open", "compiled", "rejected", "selected"})
  BY <1>4
<1>8. job' \in Jobs
  BY <1>1, <1>3, <1>5, <1>6, <1>7 DEF Jobs, Stages, AuthoredStatuses
<1>9. /\ LoopStands /\ job'.next = job.next /\ job'.patches = job.patches
      /\ job'.at = job.at /\ job'.candidates = job.candidates
      /\ job'.outcomes = outcomes /\ job'.stage = stage /\ job'.status = status
  BY <1>1, <1>3 DEF Jobs, LoopStands
<1>10. \A i \in DOMAIN outcomes : outcomes[i] \in {"open", "rejected"}
  BY <1>4
<1>11. QED
  BY <1>1, <1>4, <1>6, <1>8, <1>9, <1>10

\* What is compiled changes files of the workspace.
LEMMA CandidateType ==
  ASSUME TypeOK, NEW p \in Proposals, ~CompilerRejects(p, files)
  PROVE  /\ Candidate(p, files) \in [proposal : Proposals, changes : Seq(Changes)]
         /\ Candidate(p, files).proposal = p
         /\ ChangedPaths(Candidate(p, files).changes) \subseteq Files
<1>1. p.mutations \in Seq(Mutations) /\ files \in [Files -> Contents]
  BY DEF Proposals, TypeOK
<1>2. ASSUME NEW i \in DOMAIN p.mutations
      PROVE  /\ CompiledChange(p.mutations[i], files) \in Changes
             /\ CompiledChange(p.mutations[i], files).path \in Files
  <2> DEFINE m == p.mutations[i]
             file == Resolves[m.path]
             text == files[file]
             after == IF m.create THEN <<m.after>> ELSE Replaced(text, m.before, m.after)
  <2>1. m \in Mutations
    BY <1>1
  <2>2. m.path \in Names /\ m.after \in Snippets /\ m.before \in Snippets
    BY <2>1 DEF Mutations
  <2>3. ~CannotCompile(m, files)
    BY <1>1 DEF CompilerRejects, ToSet
  <2>4. file \in Files /\ file \in Names
    BY <2>2, <2>3, ResolvesAssumption, NamesAssumption DEF CannotCompile
  <2>5. text \in Contents
    BY <1>1, <2>4
  <2>6. CompiledChange(m, files) = [mode |-> "exact", path |-> file, before |-> text, after |-> after]
    BY DEF CompiledChange
  <2> HIDE DEF m, text, file
  <2>7. after \in Contents
    <3>1. <<m.after>> \in Contents
      BY <2>2 DEF Contents
    <3>2. Replaced(text, m.before, m.after) \in Contents
      BY <2>2, <2>5, ReplacedType
    <3>3. QED
      BY <3>1, <3>2
  <2> HIDE DEF after
  <2>8. CompiledChange(m, files) \in Changes /\ CompiledChange(m, files).path \in Files
    BY <2>4, <2>5, <2>6, <2>7 DEF Changes
  <2>9. QED
    BY <2>8 DEF m
<1> DEFINE changes == [i \in DOMAIN p.mutations |-> CompiledChange(p.mutations[i], files)]
<1>3. Candidate(p, files) = [proposal |-> p, changes |-> changes]
  BY DEF Candidate
<1>4. changes \in Seq(Changes)
  <2>1. DOMAIN p.mutations = 1..Len(p.mutations) /\ Len(p.mutations) \in Nat
    BY <1>1
  <2>2. changes \in [1..Len(p.mutations) -> Changes]
    BY <1>2, <2>1
  <2> HIDE DEF changes
  <2>3. QED
    BY <2>1, <2>2
<1>5. ChangedPaths(changes) \subseteq Files
  BY <1>2 DEF ChangedPaths, ToSet
<1> HIDE DEF changes
<1>6. QED
  BY <1>3, <1>4, <1>5

\* The four things that may become of a response.
CompileNext(p) ==
  LET done == [job EXCEPT !.next = job.next + 1]
  IN  \/ AuthoringFails
      \/ job.outcomes[job.next] = "rejected" /\ job' = done
      \/ job' = [done EXCEPT !.outcomes[job.next] = "rejected"]
      \/ /\ ~CompilerRejects(p, files)
         /\ job' = [done EXCEPT !.outcomes[job.next] = "compiled",
                                !.candidates = Append(job.candidates, Candidate(p, files))]

\* CompileProposal does one of them.
LEMMA CompileCases ==
  ASSUME TypeOK, Shapes, Compiling, CompileProposal
  PROVE  /\ job.stage = "compile" /\ job.next \in DOMAIN job.outcomes
         /\ Responses(job.request)[job.next] \in Proposals
         /\ CompileNext(Responses(job.request)[job.next])
<1> DEFINE p == Responses(job.request)[job.next]
           n == job.next
           done == [job EXCEPT !.next = job.next + 1]
<1>1. job \in Jobs /\ job.stage = "compile" /\ n \in DOMAIN job.outcomes
  BY DEF TypeOK, CompileProposal
<1>a. p \in Proposals
  <2>1. Responses(job.request) \in Seq(Proposals) /\ n \in DOMAIN Responses(job.request)
    BY <1>1, ResponsesType DEF Jobs, Shapes
  <2>2. QED
    BY <2>1
<1>2. job.outcomes[n] \in {"open", "rejected"}
  BY <1>1 DEF Compiling, AuthoringStages, Jobs
<1>3. LET p0 == Responses(job.request)[job.next]
      IN  CASE job.outcomes[job.next] = "rejected" -> job' = done
           [] job.outcomes[job.next] = "open" /\ CompilerRejects(p, files) ->
                job' = [done EXCEPT !.outcomes[job.next] = "rejected"]
           [] job.outcomes[job.next] = "open" /\ CompilerRaises(p, files) -> AuthoringFails
           [] OTHER -> \/ job' = [done EXCEPT !.outcomes[job.next] = "compiled",
                                    !.candidates = Append(job.candidates, Candidate(p, files))]
                       \/ AuthoringFails
  BY DEF CompileProposal
<1>4. CompileNext(p)
  <2> HIDE DEF p
  <2>1. QED
    BY <1>2, <1>3 DEF CompileNext
<1>5. QED
  BY <1>1, <1>a, <1>4

\* What each leaves as it was.
LEMMA CompileFields ==
  ASSUME TypeOK, Shapes, Compiling, CompileProposal
  PROVE  /\ LoopStands /\ job'.patches = job.patches /\ job'.at = job.at
         /\ \/ job'.stage = "idle" /\ job'.status = "failed" /\ job'.candidates = job.candidates
                 /\ job'.outcomes = job.outcomes
            \/ /\ job'.stage = "compile" /\ job'.status = job.status /\ job'.next = job.next + 1
               /\ job'.candidates = job.candidates
               /\ job'.outcomes = [job.outcomes EXCEPT ![job.next] = "rejected"]
            \/ /\ job'.stage = "compile" /\ job'.status = job.status /\ job'.next = job.next + 1
               /\ ~CompilerRejects(Responses(job.request)[job.next], files)
               /\ job'.candidates = Append(job.candidates,
                                           Candidate(Responses(job.request)[job.next], files))
               /\ job'.outcomes = [job.outcomes EXCEPT ![job.next] = "compiled"]
<1> DEFINE p == Responses(job.request)[job.next]
           n == job.next
           done == [job EXCEPT !.next = job.next + 1]
<1>1. job \in Jobs /\ job.stage = "compile" /\ n \in DOMAIN job.outcomes /\ CompileNext(p)
  BY CompileCases DEF TypeOK
<1> HIDE DEF p
<1>2. CASE AuthoringFails
  BY <1>1, <1>2 DEF Jobs, LoopStands, AuthoringFails
<1>3. CASE job.outcomes[n] = "rejected" /\ job' = done
  <2>1. [job.outcomes EXCEPT ![n] = "rejected"] = job.outcomes
    BY <1>1, <1>3 DEF Jobs
  <2>2. QED
    BY <1>1, <1>3, <2>1 DEF Jobs, LoopStands
<1>4. CASE job' = [done EXCEPT !.outcomes[job.next] = "rejected"]
  BY <1>1, <1>4 DEF Jobs, LoopStands
<1>5. CASE /\ ~CompilerRejects(p, files)
           /\ job' = [done EXCEPT !.outcomes[job.next] = "compiled",
                                  !.candidates = Append(job.candidates, Candidate(p, files))]
  BY <1>1, <1>5 DEF Jobs, LoopStands, p
<1>6. QED
  BY <1>1, <1>2, <1>3, <1>4, <1>5 DEF CompileNext

\* A job in which one more response is compiled is a job.
LEMMA CompileType ==
  ASSUME TypeOK, Shapes, Compiling, CompileProposal
  PROVE  job' \in Jobs
<1> DEFINE p == Responses(job.request)[job.next]
           n == job.next
           done == [job EXCEPT !.next = job.next + 1]
<1>1. /\ job \in Jobs /\ job.stage = "compile" /\ n \in DOMAIN job.outcomes /\ CompileNext(p)
      /\ p \in Proposals
  BY CompileCases DEF TypeOK
<1>a. job \in Jobs /\ job.next + 1 \in Nat
  BY <1>1 DEF Jobs
<1>2. done \in Jobs
  BY <1>a DEF Jobs
<1>3. ASSUME NEW outcome \in {"compiled", "rejected"}
      PROVE  [job.outcomes EXCEPT ![n] = outcome]
               \in Seq({"open", "compiled", "rejected", "selected"})
  BY <1>1 DEF Jobs
<1>4. CASE AuthoringFails
  BY <1>1, <1>4 DEF Jobs, Stages, AuthoredStatuses, AuthoringFails
<1>5. CASE job' = [done EXCEPT !.outcomes[job.next] = "rejected"]
  <2>1. job' = [job EXCEPT !.next = job.next + 1, !.outcomes = [job.outcomes EXCEPT ![n] = "rejected"]]
    BY <1>a, <1>5 DEF Jobs
  <2>2. [job.outcomes EXCEPT ![n] = "rejected"] \in Seq({"open", "compiled", "rejected", "selected"})
    BY <1>3
  <2>3. QED
    BY <1>a, <2>1, <2>2 DEF Jobs
<1>6. CASE /\ ~CompilerRejects(p, files)
           /\ job' = [done EXCEPT !.outcomes[job.next] = "compiled",
                                  !.candidates = Append(job.candidates, Candidate(p, files))]
  <2>1. Append(job.candidates, Candidate(p, files))
          \in Seq([proposal : Proposals, changes : Seq(Changes)])
    BY <1>1, <1>6, CandidateType DEF Jobs
  <2>2. [job.outcomes EXCEPT ![n] = "compiled"] \in Seq({"open", "compiled", "rejected", "selected"})
    BY <1>3
  <2> HIDE DEF p
  <2>3. job' = [job EXCEPT !.next = job.next + 1, !.outcomes = [job.outcomes EXCEPT ![n] = "compiled"],
                           !.candidates = Append(job.candidates, Candidate(p, files))]
    BY <1>1, <1>6 DEF Jobs
  <2>4. QED
    BY <1>a, <2>1, <2>2, <2>3 DEF Jobs
<1>7. QED
  BY <1>1, <1>2, <1>4, <1>5, <1>6 DEF CompileNext

\* A candidate is available when the gate allows it: it is the proposal that was
\* found by its id, it changes the files that one names, and none wants a review.
LEMMA AvailableFacts ==
  ASSUME NEW p, NEW candidate, NEW strength, NEW score, NEW hypotheses,
         Disposition(candidate, p, PolicyDecision(p, candidate, strength), score, hypotheses)
           = "available"
  PROVE  /\ candidate.proposal = p
         /\ ChangedPaths(candidate.changes) = AffectedNames(p)
         /\ PathLabels(p) \intersect (ReviewedLabels \union RefusedLabels) = {}
<1> DEFINE decision == PolicyDecision(p, candidate, strength)
<1>1. decision \in {"block", "require_review", "allow"}
  BY DEF PolicyDecision
<1>2. decision # "block" /\ decision # "require_review"
  BY <1>1 DEF Disposition
<1>3. decision = "allow"
  BY <1>1, <1>2
<1>4. Consistent(p, candidate) /\ PathLabels(p) \intersect RefusedLabels = {}
  BY <1>2 DEF PolicyDecision
<1>5. PathLabels(p) \intersect ReviewedLabels = {}
  BY <1>2 DEF PolicyDecision
<1>6. QED
  BY <1>4, <1>5 DEF Consistent

\* So are those that may be selected.
LEMMA BestFacts ==
  ASSUME NEW best \in Best(ranked)
  PROVE  /\ best \in DOMAIN job.candidates
         /\ ChangedPaths(job.candidates[best].changes) = AffectedNames(job.candidates[best].proposal)
         /\ PathLabels(job.candidates[best].proposal)
              \intersect (ReviewedLabels \union RefusedLabels) = {}
<1> DEFINE candidate == job.candidates[best]
           strength == job.request.evidence.strength
           hypotheses == Hypotheses(job.request.objective, job.request.evidence, job.targets)
           p == ProposalById(job.proposals, candidate.proposal.id)
           decision == PolicyDecision(p, candidate, strength)
           score == Score(candidate, p, decision, strength, hypotheses)
<1>1. best \in DOMAIN ranked /\ ranked[best].disposition = "available"
  BY DEF Best
<1>2. best \in DOMAIN job.candidates
  BY <1>1 DEF ranked, Ranked
<1>3. ranked[best].disposition = Disposition(candidate, p, decision, score, hypotheses)
  BY <1>2 DEF ranked, Ranked
<1>4. Disposition(candidate, p, decision, score, hypotheses) = "available"
  BY <1>1, <1>3
<1> HIDE DEF hypotheses, score, candidate, p, strength
<1>5. /\ candidate.proposal = p
      /\ ChangedPaths(candidate.changes) = AffectedNames(p)
      /\ PathLabels(p) \intersect (ReviewedLabels \union RefusedLabels) = {}
  BY <1>4, AvailableFacts
<1>6. QED
  BY <1>2, <1>5 DEF candidate

\* What the runtime makes of the ranking.
LEMMA StatusType ==
  ASSUME NEW entries
  PROVE  AuthoredStatus(entries) \in {"authored", "blocked", "requires_review", "no_candidate"}
<1> DEFINE dispositions == {entries[i].disposition : i \in DOMAIN entries}
<1>1. AuthoredStatus(entries) =
        CASE "available" \in dispositions -> "authored"
          [] dispositions = {"blocked"} -> "blocked"
          [] "available" \notin dispositions /\ "requires_review" \in dispositions -> "requires_review"
          [] OTHER -> "no_candidate"
  BY DEF AuthoredStatus
<1> HIDE DEF dispositions
<1>2. QED
  BY <1>1

\* Once all responses are compiled or rejected, all but the selected are rejected.
LEMMA SettledType ==
  ASSUME TypeOK, Compiling, job.stage = "compile", job.next > Len(job.outcomes), NEW best
  PROVE  /\ Settled(best) \in Seq({"selected", "rejected"})
         /\ DOMAIN Settled(best) = DOMAIN job.outcomes
         /\ \A j \in DOMAIN job.outcomes :
              Settled(best)[j] = "selected"
                <=> job.outcomes[j] = "compiled" /\ CandidateOf(j) \in best
<1>1. /\ DOMAIN job.outcomes = 1..Len(job.outcomes) /\ Len(job.outcomes) \in Nat
      /\ job.next \in Nat
  BY DEF TypeOK, Jobs
<1>2. \A j \in DOMAIN job.outcomes : job.outcomes[j] \in {"compiled", "rejected"}
  BY <1>1 DEF Compiling, AuthoringStages
<1>3. \A j \in DOMAIN job.outcomes : Settled(best)[j] \in {"selected", "rejected"}
  BY <1>2 DEF Settled
<1>4. Settled(best) \in [1..Len(job.outcomes) -> {"selected", "rejected"}]
  <2>1. Settled(best) = [j \in 1..Len(job.outcomes) |-> Settled(best)[j]]
    BY <1>1 DEF Settled
  <2>2. QED
    BY <1>1, <1>3, <2>1
<1>5. \A j \in DOMAIN job.outcomes :
         Settled(best)[j] = "selected" <=> job.outcomes[j] = "compiled" /\ CandidateOf(j) \in best
  BY <1>2 DEF Settled
<1>6. Settled(best) \in Seq({"selected", "rejected"})
  BY <1>1, <1>4
<1>7. QED
  BY <1>1, <1>4, <1>5, <1>6

\* Nothing is selected, and every response is settled.
LEMMA NoneFields ==
  ASSUME TypeOK, Compiling, DecideNone
  PROVE  /\ job.stage = "compile" /\ job.next > Len(job.outcomes) /\ job' \in Jobs
         /\ job'.stage = "idle" /\ job'.status \in {"blocked", "requires_review", "no_candidate"}
         /\ job'.outcomes = Settled({}) /\ LoopStands /\ job'.patches = job.patches
         /\ job'.at = job.at
<1> DEFINE status == AuthoredStatus(ranked)
           outcomes == Settled({})
<1>1. job \in Jobs /\ job.stage = "compile" /\ job.next > Len(job.outcomes) /\ status # "authored"
      /\ job' = [job EXCEPT !.stage = "idle", !.status = status, !.outcomes = outcomes]
  BY DEF TypeOK, DecideNone
<1>2. status \in {"blocked", "requires_review", "no_candidate"}
  BY <1>1, StatusType
<1>3. outcomes \in Seq({"selected", "rejected"})
  BY <1>1, SettledType
<1> HIDE DEF status, outcomes
<1>4. outcomes \in Seq({"open", "compiled", "rejected", "selected"})
  BY <1>3
<1>5. job' \in Jobs
  BY <1>1, <1>2, <1>4 DEF Jobs, Stages, AuthoredStatuses
<1>6. job'.stage = "idle" /\ job'.status = status /\ job'.outcomes = outcomes
      /\ LoopStands /\ job'.patches = job.patches /\ job'.at = job.at
  BY <1>1 DEF Jobs, LoopStands
<1>7. QED
  BY <1>1, <1>2, <1>5, <1>6 DEF outcomes

\* One candidate is selected, and its changes are the one patch to try.
LEMMA AuthoredFields ==
  ASSUME TypeOK, Compiling, DecideAuthored
  PROVE  /\ job.stage = "compile" /\ job.next > Len(job.outcomes) /\ job' \in Jobs
         /\ job'.status = "authored" /\ LoopStands /\ job'.at = job.at
         /\ \E best \in Best(ranked) :
              job'.outcomes = Settled({best}) /\ job'.patches = <<job.candidates[best].changes>>
         /\ \/ job'.stage = "attempt" /\ ledger' = Append(ledger, Receipt("started", "running"))
            \/ job'.stage = "idle" /\ ledger' = ledger
         /\ UNCHANGED <<workspace, bundle, manifest, written, tested, runs>>
<1>1. PICK best \in Best(ranked) :
        job' = [job EXCEPT !.stage = IF marker THEN "attempt" ELSE "idle", !.status = "authored",
                 !.outcomes = Settled({best}), !.patches = <<job.candidates[best].changes>>]
  BY DEF DecideAuthored
<1> DEFINE stage == IF marker THEN "attempt" ELSE "idle"
           outcomes == Settled({best})
           patches == <<job.candidates[best].changes>>
<1>2. job \in Jobs /\ job.stage = "compile" /\ job.next > Len(job.outcomes)
      /\ ledger' = (IF marker THEN Append(ledger, Receipt("started", "running")) ELSE ledger)
      /\ UNCHANGED <<workspace, bundle, manifest, written, tested, runs>>
  BY DEF TypeOK, DecideAuthored
<1>3. outcomes \in Seq({"selected", "rejected"})
  BY <1>2, SettledType
<1>4. patches \in Seq(Seq(Changes))
  <2>1. best \in DOMAIN job.candidates
    BY BestFacts
  <2>2. job.candidates \in Seq([proposal : Proposals, changes : Seq(Changes)])
    BY <1>2 DEF Jobs
  <2>3. job.candidates[best] \in [proposal : Proposals, changes : Seq(Changes)]
    <3>1. best \in 1..Len(job.candidates)
      BY <2>1, <2>2
    <3> HIDE DEF patches
    <3>2. QED
      BY <2>2, <3>1, ElementOfSeq
  <2>4. QED
    BY <2>3
<1>5. stage \in {"attempt", "idle"} /\ (stage = "attempt" <=> marker)
  OBVIOUS
<1>6. job' = [job EXCEPT !.stage = stage, !.status = "authored", !.outcomes = outcomes,
                         !.patches = patches]
  BY <1>1
<1> HIDE DEF stage, outcomes, patches
<1>7. outcomes \in Seq({"open", "compiled", "rejected", "selected"})
  BY <1>3
<1>8. job' \in Jobs
  BY <1>2, <1>4, <1>5, <1>6, <1>7 DEF Jobs, Stages, AuthoredStatuses
<1>9. job'.stage = stage /\ job'.status = "authored" /\ job'.outcomes = outcomes
      /\ job'.patches = patches /\ LoopStands /\ job'.at = job.at
  BY <1>2, <1>6 DEF Jobs, LoopStands
<1>10. QED
  BY <1>2, <1>5, <1>8, <1>9 DEF outcomes, patches

-----------------------------------------------------------------------------
(***************************************************************************)
(* What the steps of the repair loop and of the bundle do to the job.      *)
(***************************************************************************)
\* The loop, and the bundle, go on from one stage to another.
LEMMA StartFields ==
  ASSUME TypeOK, StartAttempt
  PROVE  /\ job.stage = "attempt" /\ job.attempt < Len(job.patches) /\ job' \in Jobs
         /\ AuthoringStands /\ job'.loop = job.loop /\ job'.tests = job.tests
         /\ job'.stage = "apply" /\ job'.attempt = job.attempt + 1 /\ job'.at = 1
         /\ ledger' = Append(ledger, Receipt("attempt_started", "running"))
         /\ UNCHANGED <<files, edited, torn, written, tested>> /\ Looping
<1>1. job \in Jobs /\ job.attempt + 1 \in Nat
  BY DEF TypeOK, Jobs
<1>2. job' = [job EXCEPT !.stage = "apply", !.attempt = job.attempt + 1, !.at = 1, !.patch = "none"]
  BY DEF StartAttempt
<1>3. job' \in Jobs
  BY <1>1, <1>2 DEF Jobs, Stages, PatchResults
<1>4. /\ AuthoringStands /\ job'.loop = job.loop /\ job'.tests = job.tests
      /\ job'.stage = "apply" /\ job'.attempt = job.attempt + 1 /\ job'.at = 1
  BY <1>1, <1>2 DEF Jobs, AuthoringStands
<1>5. QED
  BY <1>3, <1>4 DEF StartAttempt

\* The patch that is tried.
LEMMA PatchType ==
  ASSUME TypeOK, Trying, job.stage \in {"apply", "write", "test"}
  PROVE  /\ patch \in Seq(Changes) /\ job.attempt \in 1..Len(job.patches)
         /\ \A i \in DOMAIN patch : patch[i] \in Changes
<1>1. job.patches \in Seq(Seq(Changes)) /\ job.attempt \in Nat
  BY DEF TypeOK, Jobs
<1>2. job.attempt \in 1..Len(job.patches)
  BY <1>1 DEF Trying
<1>3. patch \in Seq(Changes)
  BY <1>1, <1>2, ElementOfSeq DEF patch
<1>4. QED
  BY <1>2, <1>3

\* A change that applies is made to a file of the workspace, and of its text.
LEMMA ChangeType ==
  ASSUME TypeOK, NEW change \in Changes, Applies(change)
  PROVE  /\ Resolves[change.path] \in Files /\ Resolves[change.path] # Outside
         /\ Matches(change, files[Resolves[change.path]])
         /\ Patched(change, files[Resolves[change.path]]) \in Contents
<1>1. /\ Resolves[change.path] \in Files /\ Resolves[change.path] # Outside
      /\ Matches(change, files[Resolves[change.path]])
  BY ResolvesAssumption, NamesAssumption DEF Changes, Applies
<1>2. files[Resolves[change.path]] \in Contents
  BY <1>1 DEF TypeOK
<1>3. QED
  BY <1>1, <1>2, PatchedType

\* A comparison that holds; nothing is written yet,
LEMMA CompareStands ==
  ASSUME TypeOK, CompareChange
  PROVE  /\ job.stage = "apply" /\ job.at \in DOMAIN patch
         /\ AuthoringStands /\ LoopStands /\ job'.stage = "write" /\ job'.at = job.at
         /\ UNCHANGED <<files, edited, torn, ledger, written, tested>> /\ Looping
<1> DEFINE text == Patched(patch[job.at], files[target])
<1>1. /\ job \in Jobs /\ job.stage = "apply" /\ job.at \in DOMAIN patch
      /\ UNCHANGED <<files, edited, torn, ledger, written, tested>> /\ Looping
      /\ job' = [job EXCEPT !.stage = "write", !.text = text]
  BY DEF TypeOK, CompareChange, target
<1> HIDE DEF text
<1>2. AuthoringStands /\ LoopStands /\ job'.stage = "write" /\ job'.at = job.at
  BY <1>1 DEF Jobs, AuthoringStands, LoopStands
<1>3. QED
  BY <1>1, <1>2

\* and the text that will be is made of what the file holds.
LEMMA CompareFields ==
  ASSUME TypeOK, Trying, CompareChange
  PROVE  /\ job.stage = "apply" /\ job.at \in DOMAIN patch /\ job' \in Jobs
         /\ AuthoringStands /\ LoopStands /\ job'.stage = "write" /\ job'.at = job.at
         /\ patch[job.at] \in Changes /\ target \in Files /\ target # Outside
         /\ Matches(patch[job.at], files[target])
         /\ job'.text = Patched(patch[job.at], files[target])
         /\ UNCHANGED <<files, edited, torn, ledger, written, tested>> /\ Looping
<1> DEFINE text == Patched(patch[job.at], files[target])
<1>1. /\ job \in Jobs /\ job.stage = "apply" /\ job.at \in DOMAIN patch /\ Applies(patch[job.at])
      /\ UNCHANGED <<files, edited, torn, ledger, written, tested>> /\ Looping
      /\ job' = [job EXCEPT !.stage = "write", !.text = text]
  BY DEF TypeOK, CompareChange, target
<1>2. patch[job.at] \in Changes
  BY <1>1, PatchType
<1>3. /\ target \in Files /\ target # Outside
      /\ Matches(patch[job.at], files[target]) /\ text \in Contents
  BY <1>1, <1>2, ChangeType DEF target
<1> HIDE DEF text
<1>4. job' \in Jobs
  BY <1>1, <1>3 DEF Jobs, Stages
<1>5. AuthoringStands /\ LoopStands /\ job'.stage = "write" /\ job'.at = job.at /\ job'.text = text
  BY <1>1, CompareStands DEF Jobs
<1>6. QED
  BY <1>1, <1>2, <1>3, <1>4, <1>5 DEF text

\* One file is written.
LEMMA ChangeFields ==
  ASSUME TypeOK, WriteChange
  PROVE  /\ job.stage = "write" /\ job' \in Jobs /\ job.text \in Contents
         /\ AuthoringStands /\ LoopStands /\ job'.stage = "apply" /\ job'.at = job.at + 1
         /\ files' = [files EXCEPT ![target] = job.text]
         /\ written' = Append(written, [change |-> patch[job.at], text |-> job.text])
         /\ edited' = edited \ {target}
         /\ UNCHANGED <<torn, ledger, tested>> /\ Looping
<1>1. job \in Jobs /\ job.at + 1 \in Nat /\ job.text \in Contents
  BY DEF TypeOK, Jobs
<1>2. job' = [job EXCEPT !.stage = "apply", !.at = job.at + 1] /\ job.stage = "write"
  BY DEF WriteChange
<1>3. job' \in Jobs
  BY <1>1, <1>2 DEF Jobs, Stages
<1>4. AuthoringStands /\ LoopStands /\ job'.stage = "apply" /\ job'.at = job.at + 1
  BY <1>1, <1>2 DEF Jobs, AuthoringStands, LoopStands
<1>5. QED
  BY <1>1, <1>2, <1>3, <1>4 DEF WriteChange

\* Only a write that is cut short touches a file.
MayTear == UNCHANGED <<files, torn>> \/ (job.stage = "write" /\ LeaveTorn)

\* The file that was about to be written, and no other, may be left torn.
LEMMA TearFacts ==
  ASSUME TypeOK, Trying, MayTear
  PROVE  /\ files' \in [Files -> Contents] /\ torn' \subseteq Files /\ torn \subseteq torn'
         /\ \A f \in Files : files'[f] = files[f] \/ (job.stage = "write" /\ f = target /\ f \in torn')
<1>1. files \in [Files -> Contents] /\ torn \subseteq Files /\ job.text \in Contents
  BY DEF TypeOK, Jobs
<1>2. CASE UNCHANGED <<files, torn>>
  BY <1>1, <1>2
<1>3. CASE job.stage = "write" /\ LeaveTorn
  <2>1. target \in Files
    BY <1>3 DEF Trying
  <2>2. PICK text \in {files[target]} \union CutShort(job.text) :
          files' = [files EXCEPT ![target] = text] /\ torn' = torn \union {target}
    BY <1>3 DEF LeaveTorn
  <2>3. ASSUME NEW k \in 0..(Len(job.text) - 1)
        PROVE  SubSeq(job.text, 1, k) \o <<Fragment>> \in Contents
    BY <1>1, <2>3 DEF Contents
  <2>4. text \in Contents
    BY <1>1, <2>1, <2>2, <2>3 DEF CutShort
  <2>5. QED
    BY <1>1, <1>3, <2>1, <2>2, <2>4
<1>4. QED
  BY <1>2, <1>3 DEF MayTear

\* A patch that is not applied ends the loop.
Unapplied ==
  /\ job.stage \in {"apply", "write"} /\ job' \in Jobs /\ AuthoringStands
  /\ job'.attempt = job.attempt /\ job'.tests = job.tests
  /\ job'.stage = "bundle" /\ job'.at = 1 /\ job'.loop \in {"blocked", "failed"}
  /\ \E result \in PatchResults :
       ledger' = ledger \o <<Receipt("patch", result), Receipt("terminated", job'.loop)>>
  /\ MayTear /\ UNCHANGED <<edited, written, tested>> /\ Looping

\* A patch that is refused, or that fails, is not applied.
LEMMA UnappliedFields ==
  ASSUME TypeOK, RefuseChange \/ PatchToolFails \/ WriteFails
  PROVE  Unapplied
<1>1. PICK result \in {"blocked", "invalid", "error"} : AttachPatchResult(result)
  BY DEF RefuseChange, PatchToolFails, WriteFails
<1>a. job \in Jobs /\ job.stage \in {"apply", "write"}
  BY DEF TypeOK, RefuseChange, PatchToolFails, WriteFails
<1>b. UNCHANGED <<edited, written, tested>> /\ Looping
  BY DEF RefuseChange, PatchToolFails, WriteFails
<1>c. UNCHANGED <<files, torn>> \/ (job.stage = "write" /\ LeaveTorn)
  BY DEF RefuseChange, PatchToolFails, WriteFails
<1>2. /\ job \in Jobs /\ job.stage \in {"apply", "write"}
      /\ MayTear /\ UNCHANGED <<edited, written, tested>> /\ Looping
  BY <1>a, <1>b, <1>c DEF MayTear
<1> DEFINE loop == IF result = "blocked" THEN "blocked" ELSE "failed"
<1>3. /\ job' = Ended([job EXCEPT !.patch = result], loop)
      /\ ledger' = ledger \o <<Receipt("patch", result), Receipt("terminated", loop)>>
  BY <1>1 DEF AttachPatchResult
<1>4. loop \in {"blocked", "failed"} /\ result \in PatchResults
  BY DEF PatchResults
<1> HIDE DEF loop
<1>5. job' = [job EXCEPT !.patch = result, !.stage = "bundle", !.at = 1, !.loop = loop]
  BY <1>2, <1>3 DEF Ended, Jobs
<1>6. job' \in Jobs
  BY <1>2, <1>4, <1>5 DEF Jobs, Stages, Loops
<1>7. /\ AuthoringStands /\ job'.attempt = job.attempt /\ job'.tests = job.tests
      /\ job'.stage = "bundle" /\ job'.at = 1 /\ job'.loop = loop
  BY <1>2, <1>5 DEF Jobs, AuthoringStands
<1>8. QED
  BY <1>2, <1>3, <1>4, <1>6, <1>7 DEF Unapplied

\* The patch has been applied, and the tests are next.
LEMMA PersistFields ==
  ASSUME TypeOK, PersistPatchReport
  PROVE  /\ job.stage = "apply" /\ job.at = Len(patch) + 1 /\ job' \in Jobs
         /\ AuthoringStands /\ LoopStands /\ job'.stage = "test"
         /\ ledger' = Append(ledger, Receipt("patch", "succeeded"))
         /\ UNCHANGED <<files, edited, torn, written, tested>> /\ Looping
<1>1. job \in Jobs /\ job' = [job EXCEPT !.patch = "succeeded", !.stage = "test"]
      /\ ledger' = Append(ledger, Receipt("patch", "succeeded"))
  BY DEF TypeOK, PersistPatchReport, AttachPatchResult, Jobs
<1>2. job' \in Jobs
  BY <1>1 DEF Jobs, Stages, PatchResults
<1>3. AuthoringStands /\ LoopStands /\ job'.stage = "test"
  BY <1>1 DEF Jobs, AuthoringStands, LoopStands
<1>4. QED
  BY <1>1, <1>2, <1>3 DEF PersistPatchReport

\* The tests are run, and the loop goes on or ends.
LEMMA TestFields ==
  ASSUME TypeOK, NEW result \in TestResults, RunTests(result)
  PROVE  /\ job.stage = "test" /\ job' \in Jobs /\ AuthoringStands
         /\ job'.attempt = job.attempt /\ job'.tests = Append(job.tests, result)
         /\ \/ /\ LoopAfter(result) = "running"
               /\ job'.stage = "attempt" /\ job'.loop = job.loop
               /\ ledger' = Append(ledger, Receipt("test", result))
            \/ /\ LoopAfter(result) # "running"
               /\ job'.stage = "bundle" /\ job'.at = 1 /\ job'.loop = LoopAfter(result)
               /\ ledger' = ledger \o <<Receipt("test", result),
                                        Receipt("terminated", LoopAfter(result))>>
         /\ tested' = [files |-> files, edited |-> edited]
         /\ UNCHANGED <<files, edited, torn, written>> /\ Looping
<1> DEFINE loop == LoopAfter(result)
           tests == Append(job.tests, result)
<1>1. job \in Jobs /\ job.stage = "test"
      /\ tested' = [files |-> files, edited |-> edited]
      /\ UNCHANGED <<files, edited, torn, written>> /\ Looping
  BY DEF TypeOK, RunTests
<1>2. tests \in Seq(TestResults) /\ loop \in Loops
  BY <1>1 DEF Jobs, LoopAfter, Loops
<1>3. \/ /\ loop = "running" /\ job' = [job EXCEPT !.tests = tests, !.stage = "attempt"]
         /\ ledger' = Append(ledger, Receipt("test", result))
      \/ /\ loop # "running"
         /\ job' = [job EXCEPT !.tests = tests, !.stage = "bundle", !.at = 1, !.loop = loop]
         /\ ledger' = ledger \o <<Receipt("test", result), Receipt("terminated", loop)>>
  <2>1. IF loop = "running"
        THEN /\ job' = [[job EXCEPT !.tests = tests] EXCEPT !.stage = "attempt"]
             /\ ledger' = Append(ledger, Receipt("test", result))
        ELSE /\ job' = Ended([job EXCEPT !.tests = tests], loop)
             /\ ledger' = ledger \o <<Receipt("test", result), Receipt("terminated", loop)>>
    BY DEF RunTests
  <2> HIDE DEF loop, tests
  <2>2. /\ [[job EXCEPT !.tests = tests] EXCEPT !.stage = "attempt"]
             = [job EXCEPT !.tests = tests, !.stage = "attempt"]
        /\ Ended([job EXCEPT !.tests = tests], loop)
             = [job EXCEPT !.tests = tests, !.stage = "bundle", !.at = 1, !.loop = loop]
    BY <1>1 DEF Ended, Jobs
  <2>3. QED
    BY <2>1, <2>2
<1> HIDE DEF loop, tests
<1>4. CASE loop = "running" /\ job' = [job EXCEPT !.tests = tests, !.stage = "attempt"]
  <2>1. job' \in Jobs
    BY <1>1, <1>2, <1>4 DEF Jobs, Stages
  <2>2. /\ AuthoringStands /\ job'.attempt = job.attempt /\ job'.tests = tests
        /\ job'.stage = "attempt" /\ job'.loop = job.loop
    BY <1>1, <1>4 DEF Jobs, AuthoringStands
  <2>3. QED
    BY <1>1, <1>3, <1>4, <2>1, <2>2 DEF loop, tests
<1>5. CASE loop # "running" /\ job' = [job EXCEPT !.tests = tests, !.stage = "bundle", !.at = 1, !.loop = loop]
  <2>1. job' \in Jobs
    BY <1>1, <1>2, <1>5 DEF Jobs, Stages
  <2>2. /\ AuthoringStands /\ job'.attempt = job.attempt /\ job'.tests = tests
        /\ job'.stage = "bundle" /\ job'.at = 1 /\ job'.loop = loop
    BY <1>1, <1>5 DEF Jobs, AuthoringStands
  <2>3. QED
    BY <1>1, <1>3, <1>5, <2>1, <2>2 DEF loop, tests
<1>6. QED
  BY <1>3, <1>4, <1>5

\* No patch is left.
LEMMA StopFields ==
  ASSUME TypeOK, StopWithoutPatches
  PROVE  /\ job.stage = "attempt" /\ job' \in Jobs /\ AuthoringStands
         /\ job'.attempt = job.attempt /\ job'.tests = job.tests
         /\ job'.stage = "bundle" /\ job'.at = 1 /\ job'.loop = "failed"
         /\ ledger' = Append(ledger, Receipt("terminated", "failed"))
         /\ UNCHANGED <<files, edited, torn, written, tested>> /\ Looping
<1>1. job \in Jobs /\ job.stage = "attempt"
      /\ job' = [job EXCEPT !.stage = "bundle", !.at = 1, !.loop = "failed"]
  BY DEF TypeOK, StopWithoutPatches, Ended
<1>2. job' \in Jobs
  BY <1>1 DEF Jobs, Stages, Loops
<1>3. /\ AuthoringStands /\ job'.attempt = job.attempt /\ job'.tests = job.tests
      /\ job'.stage = "bundle" /\ job'.at = 1 /\ job'.loop = "failed"
  BY <1>1 DEF Jobs, AuthoringStands
<1>4. QED
  BY <1>1, <1>2, <1>3 DEF StopWithoutPatches

\* One artifact is written.
LEMMA WriteFields ==
  ASSUME TypeOK, WriteArtifact
  PROVE  /\ job.stage = "bundle" /\ job' \in Jobs /\ AuthoringStands /\ LoopStands
         /\ job'.stage = "bundle" /\ job'.at = job.at + 1
         /\ bundle' = [bundle EXCEPT ![Kinds[job.at]] = Artifact(Kinds[job.at])]
         /\ UNCHANGED <<workspace, ledger, manifest, written, tested, runs>>
<1>1. job \in Jobs /\ job.stage = "bundle" /\ job' = [job EXCEPT !.at = job.at + 1]
      /\ job.at + 1 \in Nat
  BY DEF TypeOK, WriteArtifact, Jobs
<1>2. job' \in Jobs
  BY <1>1 DEF Jobs
<1>3. AuthoringStands /\ LoopStands /\ job'.stage = "bundle" /\ job'.at = job.at + 1
  BY <1>1 DEF Jobs, AuthoringStands, LoopStands
<1>4. QED
  BY <1>1, <1>2, <1>3 DEF WriteArtifact

\* The run ends, and is told of or not.
LEMMA EndFields ==
  ASSUME TypeOK, PersistManifest \/ Raise \/ Crash
  PROVE  /\ job.stage # "idle" /\ job' \in Jobs /\ AuthoringStands /\ LoopStands
         /\ job'.stage = "idle" /\ ledger' \in {ledger, <<>>}
         /\ MayTear /\ UNCHANGED <<marker, theirs, edited, edits, bundle, written, tested, runs>>
<1>1. job \in Jobs /\ job.stage # "idle" /\ job' = [job EXCEPT !.stage = "idle"]
      /\ ledger' \in {ledger, <<>>}
  BY DEF TypeOK, PersistManifest, Raise, Crash
<1>2. job' \in Jobs
  BY <1>1 DEF Jobs, Stages
<1>3. AuthoringStands /\ LoopStands /\ job'.stage = "idle"
  BY <1>1 DEF Jobs, AuthoringStands, LoopStands
<1>4. UNCHANGED <<marker, theirs, edited, edits, bundle, written, tested, runs>>
  BY DEF PersistManifest, Raise, Crash, workspace
<1>5. UNCHANGED <<files, torn>> \/ (job.stage = "write" /\ LeaveTorn)
  BY DEF PersistManifest, Raise, Crash, workspace
<1>6. QED
  BY <1>1, <1>2, <1>3, <1>4, <1>5 DEF MayTear

\* A run begins.
LEMMA JobFields ==
  ASSUME NEW r \in Requests, NEW stage \in Stages
  PROVE  LET begun == Job(r, stage)
         IN  /\ begun \in Jobs /\ begun.request = r /\ begun.stage = stage
             /\ begun.next = 1 /\ begun.candidates = <<>> /\ begun.status = "none"
             /\ begun.outcomes = [i \in DOMAIN Responses(r) |-> "open"]
             /\ begun.attempt = 0 /\ begun.loop = "running" /\ begun.tests = <<>>
             /\ begun.patches \in Seq(Seq(Changes))
<1> DEFINE outcomes == [i \in DOMAIN Responses(r) |-> "open"]
           begun == Job(r, stage)
<1>1. begun = [request |-> r, stage |-> stage, next |-> 1, targets |-> {}, proposals |-> <<>>,
               candidates |-> <<>>, outcomes |-> outcomes,
               status |-> "none", patches |-> r.patches, attempt |-> 0, at |-> 1,
               text |-> Absent, loop |-> "running", patch |-> "none", tests |-> <<>>]
  BY DEF Job
<1>2. outcomes \in Seq({"open", "compiled", "rejected", "selected"})
  <2>1. DOMAIN Responses(r) = 1..Len(Responses(r)) /\ Len(Responses(r)) \in Nat
    BY ResponsesType
  <2>2. QED
    BY <2>1
<1>3. r.patches \in Seq(Seq(Changes))
  BY RequestsAssumption
<1>a. Absent \in Contents
  BY DEF Absent, Contents
<1> HIDE DEF begun, outcomes
<1>4. begun \in Jobs
  BY <1>1, <1>2, <1>3, <1>a DEF Jobs, AuthoredStatuses, Loops, PatchResults
<1>5. /\ begun.request = r /\ begun.stage = stage
      /\ begun.next = 1 /\ begun.candidates = <<>> /\ begun.status = "none"
      /\ begun.outcomes = outcomes
      /\ begun.attempt = 0 /\ begun.loop = "running" /\ begun.tests = <<>>
      /\ begun.patches \in Seq(Seq(Changes))
  BY <1>1, <1>3
<1>6. QED
  BY <1>4, <1>5 DEF begun, outcomes

\* A request is begun from the beginning.
LEMMA SubmitFields ==
  ASSUME NEW r \in Requests, Submit(r)
  PROVE  /\ job' \in Jobs /\ job'.request = r
         /\ job'.stage = IF r.authored THEN "context" ELSE "attempt"
         /\ job'.next = 1 /\ job'.candidates = <<>> /\ job'.status = "none"
         /\ job'.outcomes = [i \in DOMAIN Responses(r) |-> "open"]
         /\ job'.attempt = 0 /\ job'.loop = "running" /\ job'.tests = <<>>
         /\ job'.patches \in Seq(Seq(Changes))
<1> DEFINE stage == IF r.authored THEN "context" ELSE "attempt"
<1>1. job' = Job(r, stage)
  BY DEF Submit
<1>2. stage \in Stages
  BY DEF Stages
<1> HIDE DEF stage
<1>3. QED
  BY <1>1, <1>2, JobFields DEF stage

-----------------------------------------------------------------------------
(***************************************************************************)
(* Every step keeps the types.                                             *)
(***************************************************************************)
\* The type invariant and Shapes, in three parts: the job,
TypedJob ==
  /\ job \in Jobs
  /\ Len(job.tests) <= MaxAttempts /\ Len(job.candidates) <= MaxResponses
  /\ DOMAIN job.outcomes = DOMAIN Responses(job.request)
  /\ Len(job.outcomes) <= MaxResponses

\* the workspace and what has been written to it,
TypedWorkspace ==
  /\ files \in [Files -> Contents] /\ theirs \in [Files -> Contents]
  /\ marker \in BOOLEAN
  /\ edited \subseteq Files /\ torn \subseteq Files
  /\ written \in Seq([change : Changes, text : Contents])
  /\ tested.files \in [Files -> Contents] /\ tested.edited \subseteq Files
  /\ edits \in 0..MaxEdits /\ runs \in 0..MaxRuns

\* and the records.
TypedRecords ==
  /\ ledger \in Seq(Receipts)
  /\ \A i \in DOMAIN ledger : ledger[i].run \in 1..runs
  /\ bundle = [k \in ToSet(Kinds) |-> bundle[k]]
  /\ \A k \in ToSet(Kinds) : bundle[k].run \in 0..runs

\* The parts are the whole,
LEMMA TypeParts == TypeOK /\ Shapes <=> TypedJob /\ TypedWorkspace /\ TypedRecords
  BY DEF TypeOK, Shapes, TypedJob, TypedWorkspace, TypedRecords

\* after a step too.
LEMMA TypePartsNext == TypedJob' /\ TypedWorkspace' /\ TypedRecords' => TypeOK' /\ Shapes'
  BY DEF TypeOK, Shapes, TypedJob, TypedWorkspace, TypedRecords

\* A run that is compiled has as many candidates as responses at the most.
LEMMA JobTyped ==
  ASSUME TypeOK, Shapes, Compiling, Trying, Next
  PROVE  TypedJob'
<1>0. TypedJob /\ MaxResponses \in Nat /\ MaxAttempts \in Nat \ {0}
  BY TypeParts, BoundsAssumption
<1> DEFINE Same == /\ job'.request = job.request /\ job'.tests = job.tests
                   /\ job'.candidates = job.candidates /\ job'.outcomes = job.outcomes
<1>a. ASSUME job' \in Jobs, Same PROVE TypedJob'
  BY <1>0, <1>a DEF TypedJob
<1>1. ASSUME NEW r \in Requests, Submit(r) PROVE TypedJob'
  <2>1. job' \in Jobs /\ job'.request = r /\ job'.candidates = <<>> /\ job'.tests = <<>>
        /\ job'.outcomes = [i \in DOMAIN Responses(r) |-> "open"]
    BY <1>1, SubmitFields
  <2>2. Responses(r) \in Seq(Proposals) /\ Len(Responses(r)) <= MaxResponses
    BY ResponsesType
  <2>3. DOMAIN job'.outcomes = DOMAIN Responses(r) /\ Len(job'.outcomes) = Len(Responses(r))
    BY <2>1, <2>2
  <2>4. QED
    BY <1>0, <2>1, <2>2, <2>3 DEF TypedJob
<1>2. CASE CollectContext
  BY <1>2, <1>a, CollectFields DEF LoopStands
<1>3. CASE ParseProposals
  <2>1. /\ job' \in Jobs /\ job'.request = job.request /\ job'.tests = job.tests
        /\ job'.candidates = job.candidates
        /\ DOMAIN job'.outcomes = DOMAIN Responses(job.request)
    BY <1>3, ParseFields DEF LoopStands
  <2>2. Len(job'.outcomes) = Len(job.outcomes)
    BY <1>0, <2>1 DEF TypedJob, Jobs
  <2>3. QED
    BY <1>0, <2>1, <2>2 DEF TypedJob
<1>4. CASE CompileProposal
  <2>1. job' \in Jobs
    BY <1>4, CompileType
  <2>2. job'.request = job.request /\ job'.tests = job.tests
    BY <1>4, CompileFields DEF LoopStands
  <2>3. /\ DOMAIN job'.outcomes = DOMAIN job.outcomes /\ Len(job'.outcomes) = Len(job.outcomes)
    BY <1>0, <1>4, CompileFields, CompileCases DEF TypedJob, Jobs
  <2>4. job.stage = "compile" /\ job.next \in DOMAIN job.outcomes
    BY <1>4, CompileCases
  <2>5. Len(job.candidates) + 1 <= MaxResponses
    BY <1>0, <2>4 DEF Compiling, AuthoringStages, TypedJob, Jobs
  <2>6. Len(job'.candidates) <= MaxResponses
    BY <1>0, <1>4, <2>5, CompileFields DEF TypedJob, Jobs
  <2>7. QED
    BY <1>0, <2>1, <2>2, <2>3, <2>6 DEF TypedJob
<1>5. CASE DecideNone
  <2>1. /\ job' \in Jobs /\ LoopStands /\ job'.outcomes = Settled({})
        /\ job.stage = "compile" /\ job.next > Len(job.outcomes)
    BY <1>5, NoneFields
  <2>2. DOMAIN job'.outcomes = DOMAIN job.outcomes
    BY <2>1, SettledType
  <2>3. Len(job'.outcomes) = Len(job.outcomes)
    BY <1>0, <2>1, <2>2 DEF TypedJob, Jobs
  <2>4. job'.candidates = job.candidates
    BY <1>0, <1>5 DEF DecideNone, TypedJob, Jobs
  <2>5. QED
    BY <1>0, <2>1, <2>2, <2>3, <2>4 DEF TypedJob, LoopStands
<1>6. CASE DecideAuthored
  <2>1. PICK best \in Best(ranked) :
          /\ job' \in Jobs /\ LoopStands /\ job'.outcomes = Settled({best})
          /\ job.stage = "compile" /\ job.next > Len(job.outcomes)
    BY <1>6, AuthoredFields
  <2>2. DOMAIN job'.outcomes = DOMAIN job.outcomes
    BY <2>1, SettledType
  <2>3. Len(job'.outcomes) = Len(job.outcomes)
    BY <1>0, <2>1, <2>2 DEF TypedJob, Jobs
  <2>4. job'.candidates = job.candidates
    BY <1>0, <1>6 DEF DecideAuthored, TypedJob, Jobs
  <2>5. QED
    BY <1>0, <2>1, <2>2, <2>3, <2>4 DEF TypedJob, LoopStands
<1>7. CASE StartAttempt
  BY <1>7, <1>a, StartFields DEF AuthoringStands
<1>8. CASE CompareChange \/ WriteChange
  BY <1>8, <1>a, CompareFields, ChangeFields DEF AuthoringStands, LoopStands
<1>9. CASE RefuseChange \/ PatchToolFails \/ WriteFails
  BY <1>9, <1>a, UnappliedFields DEF AuthoringStands, Unapplied
<1>10. CASE PersistPatchReport
  BY <1>10, <1>a, PersistFields DEF AuthoringStands, LoopStands
<1>11. ASSUME NEW result \in TestResults, RunTests(result) PROVE TypedJob'
  <2>1. /\ job' \in Jobs /\ AuthoringStands /\ job.stage = "test"
        /\ job'.tests = Append(job.tests, result)
    BY <1>11, TestFields
  <2>2. Len(job'.tests) = Len(job.tests) + 1
    BY <1>0, <2>1 DEF TypedJob, Jobs
  <2>3. Len(job.tests) = job.attempt - 1 /\ job.attempt <= MaxAttempts /\ job.attempt \in Nat
    BY <1>0, <2>1 DEF Trying, TypedJob, Jobs
  <2>4. Len(job'.tests) <= MaxAttempts
    BY <1>0, <2>2, <2>3
  <2>5. QED
    BY <1>0, <2>1, <2>4 DEF TypedJob, AuthoringStands
<1>12. CASE StopWithoutPatches
  BY <1>12, <1>a, StopFields DEF AuthoringStands
<1>13. CASE WriteArtifact
  BY <1>13, <1>a, WriteFields DEF AuthoringStands, LoopStands
<1>14. CASE PersistManifest \/ Raise \/ Crash
  BY <1>14, <1>a, EndFields DEF AuthoringStands, LoopStands
<1>15. CASE Others
  BY <1>0, <1>15 DEF Others, TypedJob
<1>16. QED
  BY <1>1, <1>2, <1>3, <1>4, <1>5, <1>6, <1>7, <1>8, <1>9, <1>10, <1>11, <1>12, <1>13, <1>14, <1>15
     DEF Next, Edit, MoveMarker

\* Only changes whose files are in the workspace are made.
LEMMA WorkspaceTyped ==
  ASSUME TypeOK, Trying, Next
  PROVE  TypedWorkspace'
<1>0. TypedWorkspace /\ MaxEdits \in Nat /\ MaxRuns \in Nat
  BY BoundsAssumption DEF TypeOK, TypedWorkspace
<1>1. ASSUME NEW r \in Requests, Submit(r) PROVE TypedWorkspace'
  <2>1. /\ runs < MaxRuns /\ runs' = runs + 1 /\ theirs' = files /\ edited' = {} /\ torn' = {}
        /\ written' = <<>> /\ tested' = [files |-> files, edited |-> {}]
        /\ UNCHANGED <<files, marker, edits>>
    BY <1>1 DEF Submit
  <2>2. QED
    BY <1>0, <2>1 DEF TypedWorkspace
<1>2. CASE UNCHANGED <<files, marker, theirs, edited, torn, edits, written, tested, runs>>
  BY <1>0, <1>2 DEF TypedWorkspace
<1>3. CASE Authoring
  BY <1>2, <1>3 DEF Authoring, workspace
<1>4. CASE DecideAuthored
  BY <1>2, <1>4 DEF DecideAuthored, workspace
<1>5. CASE Looping /\ UNCHANGED <<files, edited, torn, written, tested>>
  BY <1>2, <1>5 DEF Looping
<1>6. CASE WriteChange
  <2> DEFINE record == [change |-> patch[job.at], text |-> job.text]
  <2>1. /\ job.stage = "write" /\ job.text \in Contents
        /\ files' = [files EXCEPT ![target] = job.text]
        /\ written' = Append(written, record)
        /\ edited' = edited \ {target}
        /\ UNCHANGED <<torn, tested>> /\ Looping
    BY <1>6, ChangeFields
  <2>2. job.at \in DOMAIN patch
    BY <2>1, PatchType DEF Trying
  <2>3. record \in [change : Changes, text : Contents]
    BY <2>1, <2>2, PatchType
  <2> HIDE DEF record
  <2>4. files' \in [Files -> Contents] /\ edited' \subseteq Files
    BY <1>0, <2>1 DEF TypedWorkspace
  <2>5. written' \in Seq([change : Changes, text : Contents])
    BY <1>0, <2>1, <2>3 DEF TypedWorkspace
  <2>6. QED
    BY <1>0, <2>1, <2>4, <2>5 DEF TypedWorkspace, Looping
<1>7. ASSUME NEW result \in TestResults, RunTests(result) PROVE TypedWorkspace'
  <2>1. /\ tested' = [files |-> files, edited |-> edited]
        /\ UNCHANGED <<files, edited, torn, written>> /\ Looping
    BY <1>7, TestFields
  <2>2. QED
    BY <1>0, <2>1 DEF TypedWorkspace, Looping
<1>8. CASE UNCHANGED <<workspace, ledger, manifest, written, tested, runs>>
  BY <1>2, <1>8 DEF workspace
<1>9. CASE PersistManifest \/ Raise \/ Crash \/ RefuseChange \/ PatchToolFails \/ WriteFails
  <2>1. MayTear /\ UNCHANGED <<marker, theirs, edited, edits, written, tested, runs>>
    BY <1>9, EndFields, UnappliedFields DEF Unapplied, Looping
  <2>2. files' \in [Files -> Contents] /\ torn' \subseteq Files
    BY <2>1, TearFacts
  <2>3. QED
    BY <1>0, <2>1, <2>2 DEF TypedWorkspace
<1>10. ASSUME NEW f \in Files, NEW text \in TheirTexts, Edit(f, text) PROVE TypedWorkspace'
  <2>1. text \in Contents
    BY FilesAssumption
  <2>2. /\ files' = [files EXCEPT ![f] = text] /\ theirs' = [theirs EXCEPT ![f] = text]
        /\ edited' = edited \union {f} /\ edits < MaxEdits /\ edits' = edits + 1
        /\ torn' \in {torn \union {f}, torn \ {f}}
        /\ UNCHANGED <<marker, written, tested, runs>>
    BY <1>10 DEF Edit, Others
  <2>3. QED
    BY <1>0, <2>1, <2>2 DEF TypedWorkspace
<1>11. CASE MoveMarker
  <2>1. /\ marker' = ~marker /\ edits < MaxEdits /\ edits' = edits + 1
        /\ UNCHANGED <<files, theirs, edited, torn, written, tested, runs>>
    BY <1>11 DEF MoveMarker, Others
  <2>2. QED
    BY <1>0, <2>1 DEF TypedWorkspace
<1>12. CollectContext \/ ParseProposals \/ CompileProposal \/ DecideNone => Authoring
  BY DEF CollectContext, ParseProposals, CompileProposal, DecideNone
<1>13. StartAttempt \/ CompareChange \/ PersistPatchReport \/ StopWithoutPatches
         => Looping /\ UNCHANGED <<files, edited, torn, written, tested>>
  BY DEF StartAttempt, CompareChange, PersistPatchReport, StopWithoutPatches
<1>14. WriteArtifact => UNCHANGED <<workspace, ledger, manifest, written, tested, runs>>
  BY DEF WriteArtifact
<1>15. QED
  BY <1>1, <1>3, <1>4, <1>5, <1>6, <1>7, <1>8, <1>9, <1>10, <1>11, <1>12, <1>13, <1>14 DEF Next

\* One receipt more, and two.
LEMMA MoreReceipts ==
  ASSUME NEW l \in Seq(Receipts), NEW a \in Receipts, NEW b \in Receipts
  PROVE  /\ Append(l, a) \in Seq(Receipts) /\ Len(Append(l, a)) = Len(l) + 1
         /\ \A i \in DOMAIN l : Append(l, a)[i] = l[i]
         /\ Append(l, a)[Len(l) + 1] = a
         /\ DOMAIN Append(l, a) = 1..(Len(l) + 1)
         /\ l \o <<a, b>> \in Seq(Receipts) /\ Len(l \o <<a, b>>) = Len(l) + 2
         /\ \A i \in DOMAIN l : (l \o <<a, b>>)[i] = l[i]
         /\ (l \o <<a, b>>)[Len(l) + 1] = a /\ (l \o <<a, b>>)[Len(l) + 2] = b
         /\ DOMAIN (l \o <<a, b>>) = 1..(Len(l) + 2)
         /\ DOMAIN l = 1..Len(l) /\ Len(l) \in Nat
  OBVIOUS

\* What a run in progress writes down.
LEMMA ReceiptType ==
  ASSUME TypeOK, NEW kind \in Entries, NEW result \in Results
  PROVE  /\ Receipt(kind, result) \in Receipts /\ Receipt(kind, result).run = runs
         /\ Receipt(kind, result).kind = kind /\ Receipt(kind, result).result = result
<1>1. runs \in Nat
  BY BoundsAssumption DEF TypeOK
<1>2. QED
  BY <1>1 DEF Receipt, Receipts

\* The ledger is kept, forgotten, or grows by one receipt of the run or by two.
Own(a) == a \in Receipts /\ a.run = runs /\ runs >= 1

\* A run adds its own receipts, at most two at a time.
LEMMA LedgerStep ==
  ASSUME TypeOK, Shapes, Recording, Next, ~\E r \in Requests : Submit(r)
  PROVE  /\ runs' = runs
         /\ \/ ledger' = ledger \/ ledger' = <<>>
            \/ \E a \in Receipts : Own(a) /\ ledger' = Append(ledger, a)
            \/ \E a, b \in Receipts : Own(a) /\ Own(b) /\ ledger' = ledger \o <<a, b>>
<1>0. runs \in Nat
  BY BoundsAssumption DEF TypeOK
<1>1. CASE UNCHANGED <<ledger, runs>>
  BY <1>1
<1>2. Authoring \/ WriteArtifact \/ CompareChange \/ WriteChange \/ Others => UNCHANGED <<ledger, runs>>
  BY DEF Authoring, WriteArtifact, CompareChange, WriteChange, Others, Looping
<1>3. ASSUME NEW kind \in Entries, NEW result \in Results, job.stage # "idle"
      PROVE  Receipt(kind, result) \in Receipts /\ Own(Receipt(kind, result))
  BY <1>0, <1>3, ReceiptType DEF Own, Recording
<1>4. CASE DecideAuthored
  <2>1. job.stage = "compile" /\ ledger' \in {ledger, Append(ledger, Receipt("started", "running"))}
        /\ runs' = runs
    BY <1>4 DEF DecideAuthored
  <2>2. "started" \in Entries /\ "running" \in Results
    BY DEF Entries, Results, Loops
  <2>3. QED
    BY <1>3, <2>1, <2>2
<1>5. CASE StartAttempt \/ PersistPatchReport \/ StopWithoutPatches
  <2>1. /\ job.stage # "idle" /\ runs' = runs
        /\ \E kind \in Entries, result \in Results : ledger' = Append(ledger, Receipt(kind, result))
    BY <1>5, StartFields, PersistFields, StopFields
       DEF Looping, Entries, Results, Loops, PatchResults
  <2>2. QED
    BY <1>3, <2>1
<1>6. CASE RefuseChange \/ PatchToolFails \/ WriteFails
  <2>1. PICK result \in PatchResults :
          /\ job.stage # "idle" /\ runs' = runs /\ job'.loop \in {"blocked", "failed"}
          /\ ledger' = ledger \o <<Receipt("patch", result), Receipt("terminated", job'.loop)>>
    BY <1>6, UnappliedFields DEF Unapplied, Looping
  <2>2. result \in Results /\ job'.loop \in Results /\ {"patch", "terminated"} \subseteq Entries
    BY <2>1 DEF Results, Loops, Entries
  <2>3. Own(Receipt("patch", result)) /\ Receipt("patch", result) \in Receipts
    BY <1>3, <2>1, <2>2
  <2>4. Own(Receipt("terminated", job'.loop)) /\ Receipt("terminated", job'.loop) \in Receipts
    BY <1>3, <2>1, <2>2
  <2>5. QED
    BY <2>1, <2>3, <2>4
<1>7. ASSUME NEW result \in TestResults, RunTests(result)
      PROVE  /\ runs' = runs
             /\ \/ \E a \in Receipts : Own(a) /\ ledger' = Append(ledger, a)
                \/ \E a, b \in Receipts : Own(a) /\ Own(b) /\ ledger' = ledger \o <<a, b>>
  <2>1. /\ job.stage # "idle" /\ runs' = runs
        /\ \/ ledger' = Append(ledger, Receipt("test", result))
           \/ ledger' = ledger \o <<Receipt("test", result), Receipt("terminated", LoopAfter(result))>>
    BY <1>7, TestFields DEF Looping
  <2>2. result \in Results /\ LoopAfter(result) \in Results /\ {"test", "terminated"} \subseteq Entries
    BY DEF Results, Loops, LoopAfter, Entries
  <2>3. Own(Receipt("test", result)) /\ Receipt("test", result) \in Receipts
    BY <1>3, <2>1, <2>2
  <2>4. Own(Receipt("terminated", LoopAfter(result)))
        /\ Receipt("terminated", LoopAfter(result)) \in Receipts
    BY <1>3, <2>1, <2>2
  <2>5. QED
    BY <2>1, <2>3, <2>4
<1>8. CASE PersistManifest \/ Raise \/ Crash
  BY <1>8, EndFields
<1>9. CollectContext \/ ParseProposals \/ CompileProposal \/ DecideNone => Authoring
  BY DEF CollectContext, ParseProposals, CompileProposal, DecideNone
<1>10. MoveMarker \/ (\E f \in Files, text \in TheirTexts : Edit(f, text)) => Others
  BY DEF MoveMarker, Edit
<1>11. QED
  BY <1>1, <1>2, <1>4, <1>5, <1>6, <1>7, <1>8, <1>9, <1>10 DEF Next

\* No receipt is of a run that has not begun.
LEMMA LedgerTyped ==
  ASSUME TypeOK, Shapes, Recording, Next
  PROVE  ledger' \in Seq(Receipts) /\ \A i \in DOMAIN ledger' : ledger'[i].run \in 1..(runs')
<1>0. ledger \in Seq(Receipts) /\ runs \in Nat /\ \A i \in DOMAIN ledger : ledger[i].run \in 1..runs
  BY BoundsAssumption DEF TypeOK, Shapes
<1>1. ASSUME NEW r \in Requests, Submit(r)
      PROVE  ledger' \in Seq(Receipts) /\ \A i \in DOMAIN ledger' : ledger'[i].run \in 1..(runs')
  <2> DEFINE a == [Receipt("started", "running") EXCEPT !.run = runs + 1]
  <2>1. runs' = runs + 1 /\ ledger' \in {ledger, Append(ledger, a)}
    BY <1>1 DEF Submit
  <2>2. a \in Receipts /\ a.run = runs + 1
    BY <1>0 DEF Receipt, Receipts, Entries, Results, Loops
  <2> HIDE DEF a
  <2>3. CASE ledger' = ledger
    BY <1>0, <2>1, <2>3
  <2>4. CASE ledger' = Append(ledger, a)
    <3>1. ledger' \in Seq(Receipts) /\ DOMAIN ledger' = 1..(Len(ledger) + 1)
      BY <1>0, <2>2, <2>4, MoreReceipts
    <3>2. ASSUME NEW i \in 1..(Len(ledger) + 1) PROVE ledger'[i].run \in 1..(runs')
      BY <1>0, <2>1, <2>2, <2>4, MoreReceipts
    <3>3. QED
      BY <3>1, <3>2
  <2>5. QED
    BY <2>1, <2>3, <2>4
<1>2. CASE ~\E r \in Requests : Submit(r)
  <2>1. runs' = runs
    BY <1>2, LedgerStep
  <2>2. CASE ledger' = ledger
    BY <1>0, <2>1, <2>2
  <2>a. CASE ledger' = <<>>
    <3>1. <<>> \in Seq(Receipts) /\ DOMAIN <<>> = {}
      OBVIOUS
    <3>2. QED
      BY <2>a, <3>1
  <2>3. ASSUME NEW a \in Receipts, Own(a), ledger' = Append(ledger, a)
        PROVE  ledger' \in Seq(Receipts) /\ \A i \in DOMAIN ledger' : ledger'[i].run \in 1..(runs')
    BY <1>0, <2>1, <2>3, MoreReceipts DEF Own
  <2>4. ASSUME NEW a \in Receipts, NEW b \in Receipts, Own(a), Own(b), ledger' = ledger \o <<a, b>>
        PROVE  ledger' \in Seq(Receipts) /\ \A i \in DOMAIN ledger' : ledger'[i].run \in 1..(runs')
    <3>1. ledger' \in Seq(Receipts) /\ DOMAIN ledger' = 1..(Len(ledger) + 2)
      BY <1>0, <2>4, MoreReceipts
    <3>2. ASSUME NEW i \in 1..(Len(ledger) + 2) PROVE ledger'[i].run \in 1..(runs')
      BY <1>0, <2>1, <2>4, MoreReceipts DEF Own
    <3>3. QED
      BY <3>1, <3>2
  <2>5. QED
    BY <1>2, <2>2, <2>a, <2>3, <2>4, LedgerStep
<1>3. QED
  BY <1>1, <1>2

\* Neither is an artifact.
LEMMA RecordsTyped ==
  ASSUME TypeOK, Shapes, Recording, Next
  PROVE  TypedRecords'
<1>0. /\ ledger' \in Seq(Receipts) /\ \A i \in DOMAIN ledger' : ledger'[i].run \in 1..(runs')
      /\ runs \in Nat /\ TypedRecords
  BY LedgerTyped, TypeParts, BoundsAssumption DEF TypeOK
<1>1. CASE bundle' = bundle /\ runs' \in {runs, runs + 1}
  BY <1>0, <1>1 DEF TypedRecords
<1>2. CASE WriteArtifact
  <2>1. bundle' = [bundle EXCEPT ![Kinds[job.at]] = Artifact(Kinds[job.at])] /\ runs' = runs
    BY <1>2, WriteFields
  <2>2. Artifact(Kinds[job.at]).run = runs
    BY DEF Artifact
  <2>3. QED
    BY <1>0, <2>1, <2>2 DEF TypedRecords
<1>3. Next /\ ~WriteArtifact => bundle' = bundle /\ runs' \in {runs, runs + 1}
  BY DEF Next, Submit, CollectContext, ParseProposals, CompileProposal, DecideNone, DecideAuthored,
         Authoring, StartAttempt, CompareChange, WriteChange, RefuseChange, PatchToolFails,
         WriteFails, PersistPatchReport, RunTests, StopWithoutPatches, Looping, PersistManifest, Raise,
         Crash, Edit, MoveMarker, Others
<1>4. QED
  BY <1>1, <1>2, <1>3

-----------------------------------------------------------------------------
(***************************************************************************)
(* The changes attempted, and how many of them have been made.             *)
(***************************************************************************)
\* The patches before the one that is tried.
Before == FlattenSeq(SubSeq(job.patches, 1, job.attempt - 1))

\* What has been attempted is a sequence of changes, empty at first.
LEMMA AttemptedFacts ==
  ASSUME TypeOK, job.attempt <= Len(job.patches)
  PROVE  /\ Attempted \in Seq(Changes)
         /\ job.attempt = 0 => Attempted = <<>>
<1>1. job.patches \in Seq(Seq(Changes)) /\ job.attempt \in 0..Len(job.patches)
  BY DEF TypeOK, Jobs
<1>2. QED
  BY <1>1, FlattenGrows DEF Attempted

\* The patch that is tried comes last of what was attempted.
LEMMA AttemptedEnds ==
  ASSUME TypeOK, Trying, job.stage \in {"apply", "write", "test"}
  PROVE  /\ Before \in Seq(Changes) /\ patch \in Seq(Changes)
         /\ Attempted = Before \o patch /\ Attempted \in Seq(Changes)
         /\ Len(Attempted) = Len(Before) + Len(patch)
         /\ Len(Before) \in Nat /\ Len(patch) \in Nat
         /\ \A i \in 1..Len(patch) : Attempted[Len(Before) + i] = patch[i]
<1>1. /\ job.patches \in Seq(Seq(Changes)) /\ job.attempt \in 0..Len(job.patches) /\ job.attempt > 0
      /\ job.attempt - 1 \in 0..Len(job.patches)
  <2>1. job.patches \in Seq(Seq(Changes)) /\ Len(job.patches) \in Nat
    BY DEF TypeOK, Jobs
  <2>2. job.attempt \in 1..Len(job.patches)
    BY PatchType
  <2>3. QED
    BY <2>1, <2>2
<1>2. patch \in Seq(Changes)
  BY PatchType
<1>3. Before \in Seq(Changes)
  BY <1>1, FlattenGrows DEF Before
<1>4. Attempted = Before \o patch
  BY <1>1, FlattenGrows DEF Before, Attempted, patch
<1> HIDE DEF Before, patch, Attempted
<1>5. QED
  BY <1>2, <1>3, <1>4, ConcatProperties

\* How far the changes have come.
LEMMA ReachedFacts ==
  ASSUME TypeOK, Trying
  PROVE  /\ Reached \in 0..Len(Attempted) /\ Attempted \in Seq(Changes)
         /\ job.stage \notin {"apply", "write"} => Reached = Len(Attempted)
         /\ job.stage \in {"apply", "write"} /\ job.at \in DOMAIN patch =>
              Reached + 1 <= Len(Attempted) /\ Attempted[Reached + 1] = patch[job.at]
         /\ job.stage = "apply" /\ job.at = Len(patch) + 1 => Reached = Len(Attempted)
<1>1. CASE job.stage \notin {"apply", "write"}
  <2>1. Attempted \in Seq(Changes)
    BY AttemptedFacts DEF Trying
  <2> HIDE DEF Attempted
  <2>2. QED
    BY <1>1, <2>1 DEF Reached
<1>2. CASE job.stage \in {"apply", "write"}
  <2>1. /\ patch \in Seq(Changes) /\ Attempted \in Seq(Changes)
        /\ Len(Attempted) = Len(Before) + Len(patch)
        /\ Len(Before) \in Nat /\ Len(patch) \in Nat
        /\ \A i \in 1..Len(patch) : Attempted[Len(Before) + i] = patch[i]
    BY <1>2, AttemptedEnds
  <2>2. job.at \in 1..(Len(patch) + 1)
    <3> HIDE DEF patch
    <3>1. QED
      BY <1>2, <2>1 DEF Trying
  <2>3. Reached = Len(Before) + job.at - 1
    BY <1>2, <2>1, <2>2 DEF Reached
  <2> HIDE DEF Before, patch, Attempted
  <2>4. job.at \in DOMAIN patch => Reached + 1 = Len(Before) + job.at /\ job.at \in 1..Len(patch)
    BY <2>1, <2>2, <2>3
  <2>5. job.at \in DOMAIN patch => Attempted[Reached + 1] = patch[job.at]
    BY <2>1, <2>4
  <2>6. Reached \in 0..Len(Attempted)
    BY <2>1, <2>2, <2>3
  <2>7. job.at \in DOMAIN patch => Reached + 1 <= Len(Attempted)
    BY <2>1, <2>3, <2>4
  <2>8. job.at = Len(patch) + 1 => Reached = Len(Attempted)
    BY <2>1, <2>3
  <2>9. QED
    BY <1>2, <2>1, <2>5, <2>6, <2>7, <2>8
<1>3. QED
  BY <1>1, <1>2

-----------------------------------------------------------------------------
(***************************************************************************)
(* Trying is kept.                                                         *)
(***************************************************************************)
\* The loop is told what it was told.
LEMMA SameAttempted ==
  ASSUME job'.patches = job.patches, job'.attempt = job.attempt
  PROVE  /\ Attempted' = Attempted /\ patch' = patch
         /\ job'.at = job.at => target' = target
  BY DEF Attempted, patch, target

\* A start adds the next patch to what was attempted.
LEMMA StartAttempted ==
  ASSUME TypeOK, Trying, StartAttempt
  PROVE  /\ Attempted' = Attempted \o patch' /\ Attempted \in Seq(Changes) /\ patch' \in Seq(Changes)
         /\ Len(Attempted') = Len(Attempted) + Len(patch')
         /\ Len(Attempted) \in Nat /\ Len(patch') \in Nat
         /\ \A i \in 1..Len(Attempted) : Attempted'[i] = Attempted[i]
         /\ Reached = Len(Attempted) /\ Reached' = Len(Attempted)
<1>1. /\ job.stage = "attempt" /\ job.attempt < Len(job.patches) /\ job'.patches = job.patches
      /\ job'.stage = "apply" /\ job'.attempt = job.attempt + 1 /\ job'.at = 1
  BY StartFields DEF AuthoringStands
<1> DEFINE k == job.attempt + 1
<1>2. /\ job.patches \in Seq(Seq(Changes)) /\ job.attempt \in Nat
      /\ job.attempt <= Len(job.patches) /\ Len(job.patches) \in Nat
  BY DEF TypeOK, Jobs, Trying
<1>3. /\ k \in 1..Len(job.patches) /\ k \in 0..Len(job.patches) /\ k > 0 /\ k - 1 = job.attempt
  <2>1. job.attempt < Len(job.patches)
    BY <1>1
  <2>2. k \in 1..Len(job.patches)
    BY <1>2, <2>1
  <2>3. k \in 0..Len(job.patches) /\ k > 0
    BY <1>2, <2>1
  <2>4. k - 1 = job.attempt
    BY <1>2
  <2>5. QED
    BY <2>2, <2>3, <2>4
<1>4. patch' = job.patches[k]
  BY <1>1 DEF patch
<1>5. patch' \in Seq(Changes)
  BY <1>2, <1>3, <1>4, ElementOfSeq
<1>6. Attempted \in Seq(Changes)
  BY <1>2, AttemptedFacts
<1>7. Attempted' = FlattenSeq(SubSeq(job.patches, 1, k))
  BY <1>1 DEF Attempted
<1> HIDE DEF k
<1>8. FlattenSeq(SubSeq(job.patches, 1, k)) = FlattenSeq(SubSeq(job.patches, 1, k - 1)) \o job.patches[k]
  BY <1>2, <1>3, FlattenGrows
<1>9. Attempted' = Attempted \o patch'
  BY <1>3, <1>4, <1>7, <1>8 DEF Attempted
<1>10. /\ Len(Attempted') = Len(Attempted) + Len(patch') /\ Len(Attempted) \in Nat /\ Len(patch') \in Nat
       /\ \A i \in 1..Len(Attempted) : Attempted'[i] = Attempted[i]
  BY <1>5, <1>6, <1>9, ConcatProperties
<1>11. Reached' = Len(Attempted) /\ Reached = Len(Attempted)
  BY <1>1, <1>10 DEF Reached
<1>12. QED
  BY <1>5, <1>6, <1>9, <1>10, <1>11

\* A comparison makes none.
LEMMA CompareReached ==
  ASSUME TypeOK, Trying, CompareChange
  PROVE  Attempted' = Attempted /\ patch' = patch /\ target' = target /\ Reached' = Reached
<1>1. /\ job.stage = "apply" /\ AuthoringStands /\ LoopStands
      /\ job'.stage = "write" /\ job'.at = job.at
  BY CompareFields
<1>2. Attempted' = Attempted /\ patch' = patch /\ target' = target
  BY <1>1, SameAttempted DEF AuthoringStands, LoopStands
<1>3. QED
  BY <1>1, <1>2 DEF Reached

\* A change that is made is one more.
LEMMA ChangeReached ==
  ASSUME TypeOK, Trying, WriteChange
  PROVE  /\ Attempted' = Attempted /\ patch' = patch /\ patch \in Seq(Changes)
         /\ Reached' = Reached + 1 /\ Reached \in Nat /\ Reached + 1 <= Len(Attempted)
         /\ Attempted[Reached + 1] = patch[job.at]
         /\ job.at \in DOMAIN patch /\ patch[job.at] \in Changes
<1>1. /\ job.stage = "write"
      /\ AuthoringStands /\ LoopStands /\ job'.stage = "apply" /\ job'.at = job.at + 1
  BY ChangeFields
<1>2. Attempted' = Attempted /\ patch' = patch /\ patch \in Seq(Changes)
  BY <1>1, SameAttempted, PatchType DEF AuthoringStands, LoopStands
<1>a. job.at \in DOMAIN patch
  BY <1>1, <1>2 DEF Trying
<1>3. Reached \in 0..Len(Attempted) /\ Reached + 1 <= Len(Attempted)
      /\ Attempted[Reached + 1] = patch[job.at] /\ Attempted \in Seq(Changes)
  BY <1>1, <1>a, ReachedFacts
<1>4. Reached = Len(Attempted) - Len(patch) + job.at - 1
  BY <1>1 DEF Reached
<1>5. Reached' = Len(Attempted) - Len(patch) + (job.at + 1) - 1
  BY <1>1, <1>2 DEF Reached
<1>6. Len(Attempted) \in Nat /\ Len(patch) \in Nat /\ job.at \in Nat
  <2>1. job.at \in Nat
    BY DEF TypeOK, Jobs
  <2>2. Len(Attempted) \in Nat /\ Len(patch) \in Nat
    BY <1>2, <1>3, LenProperties
  <2>3. QED
    BY <2>1, <2>2
<1>7. patch[job.at] \in Changes
  BY <1>1, <1>a, PatchType
<1>8. QED
  BY <1>2, <1>a, <1>3, <1>4, <1>5, <1>6, <1>7

\* Every step keeps track of the attempt, and of what it has written.
LEMMA TryingStep ==
  ASSUME TypeOK, Shapes, Compiling, Trying, Next, TypeOK'
  PROVE  Trying'
<1>0. /\ MaxAttempts \in Nat \ {0} /\ job.attempt \in Nat /\ job'.attempt \in Nat
      /\ job.patches \in Seq(Seq(Changes)) /\ job'.patches \in Seq(Seq(Changes))
      /\ Len(job.patches) \in Nat /\ Len(job'.patches) \in Nat
      /\ job.attempt <= Len(job.patches) /\ job.attempt <= MaxAttempts
  <2>1. MaxAttempts \in Nat \ {0} /\ job.attempt <= Len(job.patches) /\ job.attempt <= MaxAttempts
    BY BoundsAssumption DEF Trying
  <2>2. job.attempt \in Nat /\ job.patches \in Seq(Seq(Changes))
    BY DEF TypeOK, Jobs
  <2>3. job'.attempt \in Nat /\ job'.patches \in Seq(Seq(Changes))
    BY DEF TypeOK, Jobs
  <2>4. QED
    BY <2>1, <2>2, <2>3
\* The loop is over.
<1>a. ASSUME job'.patches = job.patches, job'.attempt = job.attempt, job'.stage \in {"idle", "bundle"}
      PROVE  Trying'
  BY <1>0, <1>a DEF Trying, AuthoringStages, LoopStages
\* Nothing was attempted.
<1>b. ASSUME job'.attempt = 0, job'.loop = "running", job'.tests = <<>>, written' = <<>>,
             job'.stage \notin {"apply", "write", "test"}
      PROVE  Trying'
  <2>1. Attempted' = <<>>
    <3>1. FlattenSeq(SubSeq(job'.patches, 1, 0)) = <<>>
      <4> DEFINE k == 0
      <4>1. k \in 0..Len(job'.patches) /\ k = 0
        BY <1>0
      <4> HIDE DEF k
      <4>2. FlattenSeq(SubSeq(job'.patches, 1, k)) = <<>>
        BY <1>0, <4>1, FlattenGrows
      <4>3. QED
        BY <4>1, <4>2
    <3>2. QED
      BY <1>b, <3>1 DEF Attempted
  <2>2. Reached' = 0
    BY <1>b, <2>1 DEF Reached
  <2>3. QED
    BY <1>0, <1>b, <2>1, <2>2 DEF Trying, AuthoringStages, LoopStages
<1>c. ASSUME job.stage \in AuthoringStages
      PROVE  job.attempt = 0 /\ job.loop = "running" /\ job.tests = <<>> /\ written = <<>>
  <2>1. job.attempt = 0 /\ job.loop = "running" /\ Len(job.tests) = 0 /\ Len(written) = Reached
    BY <1>c DEF Trying
  <2>2. Attempted = <<>>
    BY <1>0, <2>1, AttemptedFacts
  <2>3. Reached = 0
    BY <1>c, <2>2 DEF Reached, AuthoringStages
  <2>4. written \in Seq([change : Changes, text : Contents]) /\ job.tests \in Seq(TestResults)
    BY DEF TypeOK, Jobs
  <2>5. QED
    BY <2>1, <2>3, <2>4, EmptySeq
<1>1. ASSUME NEW r \in Requests, Submit(r) PROVE Trying'
  <2>1. written' = <<>>
    BY <1>1 DEF Submit
  <2>2. job'.stage \in {"context", "attempt"}
    BY <1>1, SubmitFields
  <2>3. QED
    BY <1>1, <1>b, <2>1, <2>2, SubmitFields
<1>2. CASE CollectContext \/ ParseProposals \/ CompileProposal \/ DecideNone
  <2>1. /\ job.stage \in AuthoringStages /\ LoopStands
        /\ job'.stage \in {"idle", "parse", "compile"}
    BY <1>2, CollectFields, ParseFields, CompileFields, CompileCases, NoneFields DEF AuthoringStages
  <2>2. written' = written
    BY <1>2 DEF CollectContext, ParseProposals, CompileProposal, DecideNone, Authoring
  <2>3. QED
    BY <1>b, <1>c, <2>1, <2>2 DEF LoopStands
<1>3. CASE DecideAuthored
  <2>1. /\ job.stage \in AuthoringStages /\ LoopStands /\ written' = written
        /\ job'.stage \in {"idle", "attempt"}
    BY <1>3, AuthoredFields DEF AuthoringStages
  <2>2. QED
    BY <1>b, <1>c, <2>1 DEF LoopStands
<1>4. CASE StartAttempt
  <2>1. /\ job.stage = "attempt" /\ job.attempt < Len(job.patches)
        /\ AuthoringStands /\ job'.loop = job.loop /\ job'.tests = job.tests /\ written' = written
        /\ job'.stage = "apply" /\ job'.attempt = job.attempt + 1 /\ job'.at = 1
    BY <1>4, StartFields
  <2>2. /\ job.attempt < MaxAttempts /\ Len(job.tests) = job.attempt /\ job.loop = "running"
        /\ Len(written) = Len(Attempted)
        /\ \A i \in 1..Len(Attempted) : written[i].change = Attempted[i]
    BY <2>1 DEF Trying, LoopStages, Reached
  <2>3. job'.patches = job.patches
    BY <2>1 DEF AuthoringStands
  <2>4. /\ job.attempt + 1 \in 1..Len(job.patches)
    BY <1>0, <2>1
  <2>7. /\ Len(Attempted') = Len(Attempted) + Len(patch') /\ Len(Attempted) \in Nat /\ Len(patch') \in Nat
        /\ \A i \in 1..Len(Attempted) : Attempted'[i] = Attempted[i]
    BY <1>4, StartAttempted
  <2>8. Reached' = Len(Attempted)
    BY <1>4, StartAttempted
  <2>9. /\ job'.attempt <= Len(job'.patches) /\ job'.attempt <= MaxAttempts
        /\ job'.attempt >= 1 /\ Len(job'.tests) = job'.attempt - 1
        /\ job'.at \in 1..(Len(patch') + 1)
    <3>1. job'.at \in 1..(Len(patch') + 1)
      BY <2>1, <2>7
    <3>2. job'.attempt <= Len(job'.patches) /\ job'.attempt <= MaxAttempts
      BY <1>0, <2>1, <2>2, <2>3, <2>4
    <3>3. job'.attempt >= 1 /\ Len(job'.tests) = job'.attempt - 1
      BY <1>0, <2>1, <2>2
    <3>4. QED
      BY <3>1, <3>2, <3>3
  <2>10. /\ job'.loop = "running" /\ Len(written') = Reached'
         /\ \A i \in 1..Reached' : written'[i].change = Attempted'[i]
    BY <2>1, <2>2, <2>7, <2>8
  <2>11. QED
    BY <2>1, <2>9, <2>10 DEF Trying, AuthoringStages, LoopStages
<1>5. CASE CompareChange
  <2>1. /\ job.stage = "apply" /\ job.at \in DOMAIN patch /\ target \in Files /\ target # Outside
        /\ AuthoringStands /\ LoopStands /\ job'.stage = "write" /\ job'.at = job.at
        /\ written' = written
    BY <1>5, CompareFields
  <2>2. /\ job.attempt >= 1 /\ Len(job.tests) = job.attempt - 1 /\ job.loop = "running"
        /\ Len(written) = Reached
        /\ \A i \in 1..Reached : written[i].change = Attempted[i]
    BY <2>1 DEF Trying, LoopStages
  <2>3. Attempted' = Attempted /\ patch' = patch /\ target' = target /\ Reached' = Reached
    BY <1>5, CompareReached
  <2>4. job'.at \in 1..Len(patch') /\ target' \in Files /\ target' # Outside
    BY <2>1, <2>3, PatchType
  <2>5. /\ job'.loop = "running" /\ Len(written') = Reached'
        /\ \A i \in 1..Reached' : written'[i].change = Attempted'[i]
    BY <2>1, <2>2, <2>3 DEF LoopStands
  <2>6. QED
    BY <1>0, <2>1, <2>2, <2>4, <2>5 DEF Trying, AuthoringStages, LoopStages, AuthoringStands, LoopStands
<1>w. CASE WriteChange
  <2> DEFINE record == [change |-> patch[job.at], text |-> job.text]
  <2>1. /\ job.stage = "write"
        /\ AuthoringStands /\ LoopStands /\ job'.stage = "apply" /\ job'.at = job.at + 1
        /\ written' = Append(written, record) /\ job.text \in Contents
    BY <1>w, ChangeFields
  <2>2. /\ job.attempt >= 1 /\ Len(job.tests) = job.attempt - 1 /\ job.loop = "running"
        /\ job.at \in 1..Len(patch) /\ Len(written) = Reached
        /\ \A i \in 1..Reached : written[i].change = Attempted[i]
    BY <2>1 DEF Trying, LoopStages
  <2>3. Attempted' = Attempted /\ patch' = patch /\ patch \in Seq(Changes) /\ patch[job.at] \in Changes
    BY <1>w, ChangeReached
  <2>4. /\ Reached \in Nat /\ Attempted[Reached + 1] = patch[job.at]
    BY <1>w, ChangeReached
  <2>5. Reached' = Reached + 1
    BY <1>w, ChangeReached
  <2>6. written \in Seq([change : Changes, text : Contents]) /\ record.change = patch[job.at]
        /\ record \in [change : Changes, text : Contents]
    BY <2>1, <2>3 DEF TypeOK
  <2> HIDE DEF record
  <2>7. /\ Len(written') = Reached + 1 /\ written'[Reached + 1] = record
        /\ \A i \in 1..Reached : written'[i] = written[i]
    BY <2>1, <2>2, <2>4, <2>6
  <2>8. ASSUME NEW i \in 1..(Reached + 1) PROVE written'[i].change = Attempted[i]
    BY <2>2, <2>4, <2>6, <2>7
  <2>9. job'.at \in 1..(Len(patch') + 1)
    BY <2>1, <2>2, <2>3
  <2>10. /\ job'.loop = "running" /\ Len(written') = Reached'
         /\ \A i \in 1..Reached' : written'[i].change = Attempted'[i]
    BY <2>1, <2>2, <2>3, <2>5, <2>7, <2>8 DEF LoopStands
  <2>11. QED
    BY <1>0, <2>1, <2>2, <2>9, <2>10 DEF Trying, AuthoringStages, LoopStages, AuthoringStands, LoopStands
<1>6. CASE PersistPatchReport
  <2>1. /\ job.stage = "apply" /\ job.at = Len(patch) + 1
        /\ AuthoringStands /\ LoopStands /\ job'.stage = "test" /\ written' = written
    BY <1>6, PersistFields
  <2>2. /\ job.attempt >= 1 /\ Len(job.tests) = job.attempt - 1 /\ job.loop = "running"
        /\ Len(written) = Reached
        /\ \A i \in 1..Reached : written[i].change = Attempted[i]
    BY <2>1 DEF Trying, LoopStages
  <2>3. Attempted' = Attempted
    BY <2>1, SameAttempted DEF AuthoringStands, LoopStands
  <2>4. Reached' = Reached
    BY <2>1, <2>3, ReachedFacts DEF Reached
  <2>5. /\ job'.loop = "running" /\ Len(written') = Reached'
        /\ \A i \in 1..Reached' : written'[i].change = Attempted'[i]
    BY <2>1, <2>2, <2>3, <2>4 DEF LoopStands
  <2>6. QED
    BY <1>0, <2>1, <2>2, <2>5 DEF Trying, AuthoringStages, LoopStages, AuthoringStands, LoopStands
<1>7. ASSUME NEW result \in TestResults, RunTests(result) PROVE Trying'
  <2>1. /\ job.stage = "test" /\ AuthoringStands
        /\ job'.attempt = job.attempt /\ job'.tests = Append(job.tests, result)
        /\ \/ LoopAfter(result) = "running" /\ job'.stage = "attempt" /\ job'.loop = job.loop
           \/ job'.stage = "bundle"
        /\ written' = written
    BY <1>7, TestFields
  <2>2. /\ job.attempt >= 1 /\ Len(job.tests) = job.attempt - 1 /\ job.loop = "running"
        /\ Len(written) = Reached
        /\ \A i \in 1..Reached : written[i].change = Attempted[i]
    BY <2>1 DEF Trying, LoopStages
  <2>3. job'.patches = job.patches /\ Attempted' = Attempted
    BY <2>1, SameAttempted DEF AuthoringStands
  <2>4. Len(job'.tests) = job.attempt
    <3>1. job.tests \in Seq(TestResults)
      BY DEF TypeOK, Jobs
    <3>2. Len(job'.tests) = Len(job.tests) + 1
      BY <2>1, <3>1
    <3>3. QED
      BY <1>0, <2>2, <3>2
  <2>5. CASE job'.stage = "attempt"
    <3>1. job.attempt < MaxAttempts
      BY <1>0, <2>1, <2>5 DEF LoopAfter
    <3>2. Reached' = Reached
      BY <2>1, <2>3, <2>5 DEF Reached
    <3>3. /\ job'.loop = "running" /\ Len(written') = Reached'
          /\ \A i \in 1..Reached' : written'[i].change = Attempted'[i]
      BY <2>1, <2>2, <2>3, <2>5, <3>2
    <3>4. QED
      BY <1>0, <2>1, <2>3, <2>4, <2>5, <3>1, <3>3 DEF Trying, AuthoringStages, LoopStages
  <2>6. QED
    BY <1>a, <2>1, <2>3, <2>5
<1>8. CASE RefuseChange \/ PatchToolFails \/ WriteFails
  BY <1>8, <1>a, UnappliedFields DEF Unapplied, AuthoringStands
<1>9. CASE StopWithoutPatches
  BY <1>9, <1>a, StopFields DEF AuthoringStands
<1>10. CASE WriteArtifact
  BY <1>10, <1>a, WriteFields DEF AuthoringStands, LoopStands
<1>11. CASE PersistManifest \/ Raise \/ Crash
  BY <1>11, <1>a, EndFields DEF AuthoringStands, LoopStands
<1>12. CASE Others
  <2>1. job' = job /\ written' = written
    BY <1>12 DEF Others
  <2>2. QED
    BY <2>1 DEF Trying, Reached, Attempted, patch, target
<1>13. MoveMarker \/ (\E f \in Files, text \in TheirTexts : Edit(f, text)) => Others
  BY DEF MoveMarker, Edit
<1>14. QED
  BY <1>1, <1>2, <1>3, <1>4, <1>5, <1>6, <1>7, <1>8, <1>9, <1>10, <1>11, <1>12, <1>13, <1>w DEF Next

-----------------------------------------------------------------------------
(***************************************************************************)
(* The responses that have been compiled: Compiling is kept.               *)
(***************************************************************************)
\* The candidates are counted.
LEMMA CompiledFacts ==
  ASSUME NEW outcomes, NEW j \in Nat
  PROVE  /\ IsFiniteSet(CompiledIn(outcomes, j)) /\ Place(outcomes, j) \in Nat
         /\ j = 0 => CompiledIn(outcomes, j) = {} /\ Place(outcomes, j) = 0
<1>1. IsFiniteSet(1..j)
  BY FS_Interval
<1>2. CompiledIn(outcomes, j) \subseteq 1..j
  BY DEF CompiledIn
<1>3. IsFiniteSet(CompiledIn(outcomes, j))
  BY <1>1, <1>2, FS_Subset
<1>4. j = 0 => CompiledIn(outcomes, j) = {}
  BY <1>2
<1>5. QED
  BY <1>3, <1>4, FS_CardinalityType, FS_EmptySet DEF Place

\* No two of them have one place.
LEMMA PlaceGrows ==
  ASSUME NEW outcomes, NEW j \in Nat, NEW k \in Nat, j < k, outcomes[k] = "compiled"
  PROVE  Place(outcomes, j) < Place(outcomes, k)
<1> DEFINE J == CompiledIn(outcomes, j)
           K == CompiledIn(outcomes, k)
<1>1. IsFiniteSet(J) /\ IsFiniteSet(K) /\ Cardinality(J) \in Nat /\ Cardinality(K) \in Nat
  BY CompiledFacts DEF Place
<1>2. k \notin J /\ J \union {k} \subseteq K
  BY DEF CompiledIn
<1> HIDE DEF J, K
<1>3. IsFiniteSet(J \union {k}) /\ Cardinality(J \union {k}) = Cardinality(J) + 1
  BY <1>1, <1>2, FS_AddElement
<1>4. Cardinality(J \union {k}) <= Cardinality(K)
  BY <1>1, <1>2, FS_Subset
<1>5. QED
  BY <1>1, <1>3, <1>4 DEF Place, J, K

\* Up to j nothing but what is known of the first j matters.
LEMMA PlaceSame ==
  ASSUME NEW old, NEW new, NEW j \in Nat, \A k \in 1..j : old[k] = new[k]
  PROVE  CompiledIn(old, j) = CompiledIn(new, j) /\ Place(old, j) = Place(new, j)
  BY DEF CompiledIn, Place

\* One more response.
LEMMA PlaceNext ==
  ASSUME NEW outcomes, NEW n \in Nat, n >= 1
  PROVE  /\ outcomes[n] = "compiled" =>
              /\ CompiledIn(outcomes, n) = CompiledIn(outcomes, n - 1) \union {n}
              /\ Place(outcomes, n) = Place(outcomes, n - 1) + 1
         /\ outcomes[n] # "compiled" =>
              /\ CompiledIn(outcomes, n) = CompiledIn(outcomes, n - 1)
              /\ Place(outcomes, n) = Place(outcomes, n - 1)
         /\ n \notin CompiledIn(outcomes, n - 1)
<1>1. n - 1 \in Nat /\ 1..n = (1..(n - 1)) \union {n} /\ n \notin 1..(n - 1)
  OBVIOUS
<1>2. outcomes[n] = "compiled" => CompiledIn(outcomes, n) = CompiledIn(outcomes, n - 1) \union {n}
  BY <1>1 DEF CompiledIn
<1>3. outcomes[n] # "compiled" => CompiledIn(outcomes, n) = CompiledIn(outcomes, n - 1)
  BY <1>1 DEF CompiledIn
<1>4. n \notin CompiledIn(outcomes, n - 1)
  BY <1>1 DEF CompiledIn
<1>5. IsFiniteSet(CompiledIn(outcomes, n - 1))
  BY <1>1, CompiledFacts
<1>6. Cardinality(CompiledIn(outcomes, n - 1) \union {n}) = Cardinality(CompiledIn(outcomes, n - 1)) + 1
  BY <1>4, <1>5, FS_AddElement
<1>7. QED
  BY <1>2, <1>3, <1>4, <1>6 DEF Place

\* What compiling one response keeps true.
Counted(outcomes, candidates, next, responses) ==
  /\ next \in 1..(Len(outcomes) + 1)
  /\ \A j \in DOMAIN outcomes :
       outcomes[j] \in (IF j >= next THEN {"open", "rejected"} ELSE {"compiled", "rejected"})
  /\ Place(outcomes, next - 1) = Len(candidates)
  /\ Len(candidates) < next
  /\ \A j \in CompiledIn(outcomes, next - 1) : candidates[Place(outcomes, j)].proposal = responses[j]
  /\ \A i \in DOMAIN candidates :
       /\ \E j \in CompiledIn(outcomes, next - 1) : Place(outcomes, j) = i
       /\ ChangedPaths(candidates[i].changes) \subseteq Files

\* The part of the invariant that a step of the compiler has to keep.
LEMMA CompilingIs ==
  Compiling <=>
    (job.stage \in AuthoringStages =>
       /\ job.request.authored /\ job.status = "none"
       /\ Counted(job.outcomes, job.candidates, job.next, Responses(job.request))
       /\ job.stage # "compile" => job.next = 1)
  BY DEF Compiling, Counted

\* No response has been compiled.
LEMMA CountedFirst ==
  ASSUME NEW outcomes, Len(outcomes) \in Nat, DOMAIN outcomes = 1..Len(outcomes),
         \A j \in DOMAIN outcomes : outcomes[j] \in {"open", "rejected"}, NEW responses
  PROVE  Counted(outcomes, <<>>, 1, responses)
<1>1. CompiledIn(outcomes, 1 - 1) = {} /\ Place(outcomes, 1 - 1) = 0
  BY CompiledFacts
<1>2. Len(<<>>) = 0 /\ DOMAIN <<>> = {}
  OBVIOUS
<1>3. QED
  BY <1>1, <1>2 DEF Counted

\* One more response is rejected, or compiled to the next candidate.
LEMMA CountedNext ==
  ASSUME NEW old \in Seq({"open", "compiled", "rejected", "selected"}), NEW n \in DOMAIN old,
         NEW candidates \in Seq([proposal : Proposals, changes : Seq(Changes)]), NEW responses,
         Counted(old, candidates, n, responses),
         NEW new, NEW more,
         \/ new = [old EXCEPT ![n] = "rejected"] /\ more = candidates
         \/ /\ new = [old EXCEPT ![n] = "compiled"]
            /\ \E c \in [proposal : Proposals, changes : Seq(Changes)] :
                 /\ more = Append(candidates, c) /\ c.proposal = responses[n]
                 /\ ChangedPaths(c.changes) \subseteq Files
  PROVE  Counted(new, more, n + 1, responses)
<1>1. /\ Len(old) \in Nat /\ DOMAIN old = 1..Len(old) /\ n \in Nat /\ n >= 1 /\ n - 1 \in Nat
      /\ (n + 1) - 1 = n /\ n <= Len(old)
  OBVIOUS
<1>2. /\ DOMAIN new = DOMAIN old /\ new[n] \in {"compiled", "rejected"}
      /\ \A j \in DOMAIN old : j # n => new[j] = old[j]
  OBVIOUS
<1>3. Len(new) = Len(old)
  OBVIOUS
<1>4. \A j \in 0..(n - 1) : CompiledIn(new, j) = CompiledIn(old, j) /\ Place(new, j) = Place(old, j)
  <2>1. ASSUME NEW j \in 0..(n - 1) PROVE \A k \in 1..j : new[k] = old[k]
    BY <1>1, <1>2
  <2>2. QED
    BY <1>1, <2>1, PlaceSame
<1>5. /\ \A j \in DOMAIN old :
            old[j] \in (IF j >= n THEN {"open", "rejected"} ELSE {"compiled", "rejected"})
      /\ Place(old, n - 1) = Len(candidates) /\ Len(candidates) < n
      /\ \A j \in CompiledIn(old, n - 1) : candidates[Place(old, j)].proposal = responses[j]
      /\ \A i \in DOMAIN candidates :
           /\ \E j \in CompiledIn(old, n - 1) : Place(old, j) = i
           /\ ChangedPaths(candidates[i].changes) \subseteq Files
  BY DEF Counted
<1>6. ASSUME NEW j \in DOMAIN new
      PROVE  new[j] \in (IF j >= n + 1 THEN {"open", "rejected"} ELSE {"compiled", "rejected"})
  <2>1. CASE j = n
    BY <1>1, <1>2, <2>1
  <2>2. CASE j # n
    <3>1. j \in DOMAIN old /\ new[j] = old[j] /\ (j >= n + 1 <=> j >= n)
      BY <1>1, <1>2, <2>2
    <3>2. QED
      BY <1>5, <3>1
  <2>3. QED
    BY <2>1, <2>2
<1>7. n + 1 \in 1..(Len(new) + 1)
  BY <1>1, <1>3
<1>8. CompiledIn(old, n - 1) \subseteq 1..(n - 1)
  BY DEF CompiledIn
<1>9. CompiledIn(new, n - 1) = CompiledIn(old, n - 1) /\ Place(new, n - 1) = Place(old, n - 1)
  BY <1>1, <1>4
<1> DEFINE Rest ==
      /\ Place(new, n) = Len(more)
      /\ Len(more) < n + 1
      /\ \A j \in CompiledIn(new, n) : more[Place(new, j)].proposal = responses[j]
      /\ \A i \in DOMAIN more :
           /\ \E j \in CompiledIn(new, n) : Place(new, j) = i
           /\ ChangedPaths(more[i].changes) \subseteq Files
<1>10. CASE new = [old EXCEPT ![n] = "rejected"] /\ more = candidates
  <2>1. CompiledIn(new, n) = CompiledIn(old, n - 1) /\ Place(new, n) = Place(old, n - 1)
    <3>1. new[n] # "compiled"
      BY <1>10
    <3>2. QED
      BY <1>1, <1>9, <3>1, PlaceNext
  <2>2. \A j \in CompiledIn(new, n) : j \in 0..(n - 1) /\ Place(new, j) = Place(old, j)
    BY <1>1, <1>4, <1>8, <2>1
  <2>3. Len(candidates) \in Nat
    OBVIOUS
  <2>4. Rest
    <3>1. Place(new, n) = Len(candidates) /\ Len(candidates) < n + 1
      BY <1>1, <1>5, <2>1, <2>3
    <3>2. \A j \in CompiledIn(new, n) : candidates[Place(new, j)].proposal = responses[j]
      BY <1>5, <2>1, <2>2
    <3>3. ASSUME NEW i \in DOMAIN candidates
          PROVE  /\ \E j \in CompiledIn(new, n) : Place(new, j) = i
                 /\ ChangedPaths(candidates[i].changes) \subseteq Files
      <4>1. PICK j \in CompiledIn(old, n - 1) : Place(old, j) = i
        BY <1>5
      <4>2. j \in CompiledIn(new, n) /\ Place(new, j) = i
        BY <2>1, <2>2, <4>1
      <4>3. QED
        BY <1>5, <4>2
    <3>4. QED
      BY <1>10, <3>1, <3>2, <3>3
  <2>5. QED
    BY <1>1, <1>6, <1>7, <2>4 DEF Counted
<1>11. ASSUME NEW c \in [proposal : Proposals, changes : Seq(Changes)],
              new = [old EXCEPT ![n] = "compiled"],
              more = Append(candidates, c), c.proposal = responses[n],
              ChangedPaths(c.changes) \subseteq Files
       PROVE  Counted(new, more, n + 1, responses)
  <2> DEFINE m == Len(candidates)
  <2>1. /\ CompiledIn(new, n) = CompiledIn(old, n - 1) \union {n}
        /\ Place(new, n) = Place(old, n - 1) + 1
    <3>1. new[n] = "compiled"
      BY <1>11
    <3>2. QED
      BY <1>1, <1>9, <3>1, PlaceNext
  <2>2. /\ m \in Nat /\ Len(more) = m + 1 /\ DOMAIN more = 1..(m + 1)
        /\ more[m + 1] = c /\ \A i \in 1..m : more[i] = candidates[i]
        /\ DOMAIN candidates = 1..m
    BY <1>11
  <2>3. Place(new, n) = m + 1
    BY <1>5, <2>1
  <2>4. ASSUME NEW j \in CompiledIn(old, n - 1) PROVE Place(old, j) \in 1..m
    <3>1. j \in 1..(n - 1) /\ old[j] = "compiled" /\ j \in Nat /\ j - 1 \in Nat /\ j - 1 < j
      BY <1>1 DEF CompiledIn
    <3>2. CompiledIn(old, j) \subseteq CompiledIn(old, n - 1)
      BY <1>1, <3>1 DEF CompiledIn
    <3>3. Place(old, j) \in Nat /\ Place(old, j - 1) \in Nat
      BY <3>1, CompiledFacts
    <3>4. Place(old, j) <= m
      <4>1. IsFiniteSet(CompiledIn(old, n - 1))
        BY <1>1, CompiledFacts
      <4>2. QED
        BY <1>5, <3>2, <4>1, FS_Subset DEF Place
    <3>5. Place(old, j - 1) < Place(old, j)
      BY <3>1, PlaceGrows
    <3>6. QED
      BY <2>2, <3>3, <3>4, <3>5
  <2>5. ASSUME NEW j \in CompiledIn(new, n) PROVE more[Place(new, j)].proposal = responses[j]
    <3>1. CASE j = n
      BY <1>11, <2>2, <2>3, <3>1
    <3>2. CASE j # n
      <4>1. j \in CompiledIn(old, n - 1) /\ j \in 0..(n - 1)
        BY <1>1, <1>8, <2>1, <3>2
      <4>2. Place(new, j) = Place(old, j) /\ Place(old, j) \in 1..m
        BY <1>4, <2>4, <4>1
      <4>3. QED
        BY <1>5, <2>2, <4>1, <4>2
    <3>3. QED
      BY <3>1, <3>2
  <2>6. ASSUME NEW i \in DOMAIN more
        PROVE  /\ \E j \in CompiledIn(new, n) : Place(new, j) = i
               /\ ChangedPaths(more[i].changes) \subseteq Files
    <3>1. CASE i = m + 1
      <4>1. n \in CompiledIn(new, n)
        BY <2>1
      <4>2. QED
        BY <1>11, <2>2, <2>3, <3>1, <4>1
    <3>2. CASE i # m + 1
      <4>1. i \in 1..m /\ i \in DOMAIN candidates
        BY <2>2, <3>2
      <4>2. PICK j \in CompiledIn(old, n - 1) : Place(old, j) = i
        BY <1>5, <4>1
      <4>3. j \in CompiledIn(new, n) /\ Place(new, j) = i
        BY <1>1, <1>4, <1>8, <2>1, <4>2
      <4>4. ChangedPaths(more[i].changes) \subseteq Files
        BY <1>5, <2>2, <4>1
      <4>5. QED
        BY <4>3, <4>4
    <3>3. QED
      BY <3>1, <3>2
  <2>7. Len(more) < n + 1
    BY <1>1, <1>5, <2>2
  <2>8. Rest
    BY <2>2, <2>3, <2>5, <2>6, <2>7
  <2>9. QED
    BY <1>1, <1>6, <1>7, <2>8 DEF Counted
<1>12. QED
  BY <1>10, <1>11

\* Every step keeps the candidates those of the responses compiled.
LEMMA CompilingStep ==
  ASSUME TypeOK, Shapes, Compiling, Next, TypeOK'
  PROVE  Compiling'
<1>a. ASSUME job'.stage \notin AuthoringStages PROVE Compiling'
  BY <1>a DEF Compiling
<1>b. ASSUME job'.request.authored, job'.status = "none",
             Counted(job'.outcomes, job'.candidates, job'.next, Responses(job'.request)),
             job'.stage # "compile" => job'.next = 1
      PROVE  Compiling'
  BY <1>b DEF Compiling, Counted
<1>c. ASSUME job.stage \in AuthoringStages
      PROVE  /\ job.request.authored /\ job.status = "none"
             /\ Counted(job.outcomes, job.candidates, job.next, Responses(job.request))
             /\ job.stage # "compile" => job.next = 1
  BY <1>c, CompilingIs
<1>d. Len(job'.outcomes) \in Nat /\ DOMAIN job'.outcomes = 1..Len(job'.outcomes)
  BY DEF TypeOK, Jobs
<1>1. ASSUME NEW r \in Requests, Submit(r) PROVE Compiling'
  <2> SUFFICES ASSUME job'.stage \in AuthoringStages PROVE Compiling'
    BY <1>a
  <2>1. /\ job'.request = r /\ job'.stage = "context" /\ r.authored
        /\ job'.next = 1 /\ job'.candidates = <<>> /\ job'.status = "none"
        /\ job'.outcomes = [i \in DOMAIN Responses(r) |-> "open"]
    BY <1>1, SubmitFields DEF AuthoringStages
  <2>2. \A j \in DOMAIN job'.outcomes : job'.outcomes[j] \in {"open", "rejected"}
    BY <2>1
  <2>3. Counted(job'.outcomes, <<>>, 1, Responses(r))
    BY <1>d, <2>2, CountedFirst
  <2>4. QED
    BY <1>b, <2>1, <2>3
<1>2. CASE CollectContext
  <2> SUFFICES ASSUME job'.stage \in AuthoringStages PROVE Compiling'
    BY <1>a
  <2>1. /\ job.stage = "context" /\ job'.stage = "parse" /\ job'.status = "none"
        /\ LoopStands /\ job'.next = job.next
        /\ job'.candidates = job.candidates /\ job'.outcomes = job.outcomes
    BY <1>2, CollectFields DEF AuthoringStages
  <2>2. QED
    BY <1>b, <1>c, <2>1 DEF LoopStands, AuthoringStages
<1>3. CASE ParseProposals
  <2> SUFFICES ASSUME job'.stage \in AuthoringStages PROVE Compiling'
    BY <1>a
  <2>1. /\ job.stage = "parse" /\ job'.stage = "compile" /\ job'.status = "none"
        /\ LoopStands /\ job'.next = job.next /\ job'.candidates = job.candidates
        /\ \A i \in DOMAIN job'.outcomes : job'.outcomes[i] \in {"open", "rejected"}
    BY <1>3, ParseFields DEF AuthoringStages
  <2>2. job.request.authored /\ job.next = 1 /\ Len(job.candidates) < 1
    BY <2>1 DEF Compiling, AuthoringStages
  <2>3. job.candidates = <<>>
    <3>1. Len(job.candidates) = 0 /\ job.candidates \in Seq([proposal : Proposals, changes : Seq(Changes)])
      BY <2>2 DEF TypeOK, Jobs
    <3>2. QED
      BY <3>1, EmptySeq
  <2>4. Counted(job'.outcomes, <<>>, 1, Responses(job.request))
    BY <1>d, <2>1, CountedFirst
  <2>5. QED
    BY <1>b, <2>1, <2>2, <2>3, <2>4 DEF LoopStands
<1>4. CASE CompileProposal
  <2> SUFFICES ASSUME job'.stage \in AuthoringStages PROVE Compiling'
    BY <1>a
  <2> DEFINE n == job.next
             p == Responses(job.request)[n]
  <2>1. job.stage = "compile" /\ n \in DOMAIN job.outcomes /\ p \in Proposals
    BY <1>4, CompileCases
  <2>2. /\ job'.request = job.request /\ job'.stage = "compile" /\ job'.status = job.status
        /\ job'.next = n + 1
        /\ \/ /\ job'.candidates = job.candidates
              /\ job'.outcomes = [job.outcomes EXCEPT ![n] = "rejected"]
           \/ /\ ~CompilerRejects(p, files)
              /\ job'.candidates = Append(job.candidates, Candidate(p, files))
              /\ job'.outcomes = [job.outcomes EXCEPT ![n] = "compiled"]
    BY <1>4, CompileFields DEF LoopStands, AuthoringStages
  <2> HIDE DEF p
  <2>3. \/ job'.outcomes = [job.outcomes EXCEPT ![n] = "rejected"] /\ job'.candidates = job.candidates
        \/ /\ job'.outcomes = [job.outcomes EXCEPT ![n] = "compiled"]
           /\ \E c \in [proposal : Proposals, changes : Seq(Changes)] :
                /\ job'.candidates = Append(job.candidates, c) /\ c.proposal = p
                /\ ChangedPaths(c.changes) \subseteq Files
    BY <2>1, <2>2, CandidateType
  <2>4. /\ job.request.authored /\ job.status = "none"
        /\ Counted(job.outcomes, job.candidates, n, Responses(job.request))
    BY <1>c, <2>1 DEF AuthoringStages
  <2>5. /\ job.outcomes \in Seq({"open", "compiled", "rejected", "selected"})
        /\ job.candidates \in Seq([proposal : Proposals, changes : Seq(Changes)])
    BY DEF TypeOK, Jobs
  <2>6. Counted(job'.outcomes, job'.candidates, n + 1, Responses(job.request))
    BY <2>1, <2>3, <2>4, <2>5, CountedNext DEF p
  <2>7. QED
    BY <1>b, <2>2, <2>4, <2>6
<1>5. CASE DecideNone
  BY <1>5, <1>a, NoneFields DEF AuthoringStages
<1>6. CASE DecideAuthored
  BY <1>6, <1>a, AuthoredFields DEF AuthoringStages
<1>7. CASE \/ StartAttempt \/ CompareChange \/ WriteChange \/ RefuseChange \/ PatchToolFails
           \/ WriteFails \/ PersistPatchReport \/ StopWithoutPatches \/ WriteArtifact \/ PersistManifest \/ Raise \/ Crash
  <2>1. job'.stage \notin AuthoringStages
    BY <1>7, StartFields, CompareStands, ChangeFields, UnappliedFields, PersistFields, StopFields,
       WriteFields, EndFields DEF Unapplied, AuthoringStages
  <2>2. QED
    BY <1>a, <2>1
<1>8. ASSUME NEW result \in TestResults, RunTests(result) PROVE Compiling'
  BY <1>8, <1>a, TestFields DEF AuthoringStages
<1>9. CASE Others
  <2>1. job' = job
    BY <1>9 DEF Others
  <2>2. QED
    BY <2>1 DEF Compiling
<1>10. MoveMarker \/ (\E f \in Files, text \in TheirTexts : Edit(f, text)) => Others
  BY DEF MoveMarker, Edit
<1>11. QED
  BY <1>1, <1>2, <1>3, <1>4, <1>5, <1>6, <1>7, <1>8, <1>9, <1>10 DEF Next

-----------------------------------------------------------------------------
(***************************************************************************)
(* The responses that have been read: EveryResponseIsAccounted is kept.    *)
(***************************************************************************)
\* The model counts the compiled responses in the same way.
LEMMA CandidateIs == \A j : CandidateOf(j) = Place(job.outcomes, j)
  BY DEF CandidateOf, Compiled, Place, CompiledIn

\* What has been compiled when the last response has been read.
LEMMA Decided ==
  ASSUME TypeOK, Shapes, Compiling, job.stage = "compile", job.next > Len(job.outcomes)
  PROVE  /\ Len(job.outcomes) \in Nat /\ DOMAIN job.outcomes = 1..Len(job.outcomes)
         /\ \A i \in DOMAIN job.candidates :
              \E j \in DOMAIN job.outcomes :
                /\ job.outcomes[j] = "compiled"
                /\ \A k \in DOMAIN job.outcomes :
                     job.outcomes[k] = "compiled" /\ CandidateOf(k) = i <=> k = j
                /\ job.candidates[i].proposal = job.request.responses[j]
         /\ \A i \in DOMAIN job.candidates : ChangedPaths(job.candidates[i].changes) \subseteq Files
<1> DEFINE n == Len(job.outcomes)
<1>1. n \in Nat /\ DOMAIN job.outcomes = 1..n
  BY DEF TypeOK, Jobs
<1>2. Counted(job.outcomes, job.candidates, job.next, Responses(job.request))
  BY CompilingIs DEF AuthoringStages
<1>3. job.next - 1 = n
  BY <1>1, <1>2 DEF Counted
<1>4. /\ \A j \in CompiledIn(job.outcomes, n) :
           job.candidates[Place(job.outcomes, j)].proposal = Responses(job.request)[j]
      /\ \A i \in DOMAIN job.candidates :
           /\ \E j \in CompiledIn(job.outcomes, n) : Place(job.outcomes, j) = i
           /\ ChangedPaths(job.candidates[i].changes) \subseteq Files
  BY <1>2, <1>3 DEF Counted
<1>5. ASSUME NEW i \in DOMAIN job.candidates
      PROVE  \E j \in DOMAIN job.outcomes :
                /\ job.outcomes[j] = "compiled"
                /\ \A k \in DOMAIN job.outcomes :
                     job.outcomes[k] = "compiled" /\ CandidateOf(k) = i <=> k = j
                /\ job.candidates[i].proposal = job.request.responses[j]
  <2>1. PICK j \in CompiledIn(job.outcomes, n) : Place(job.outcomes, j) = i
    BY <1>4
  <2>2. j \in 1..n /\ job.outcomes[j] = "compiled"
    BY DEF CompiledIn
  <2>3. ASSUME NEW k \in DOMAIN job.outcomes, job.outcomes[k] = "compiled", CandidateOf(k) = i
        PROVE  k = j
    <3>1. j \in Nat /\ k \in Nat /\ Place(job.outcomes, k) = Place(job.outcomes, j)
      BY <1>1, <2>1, <2>2, <2>3, CandidateIs
    <3>2. Place(job.outcomes, k) \in Nat /\ Place(job.outcomes, j) \in Nat
      BY <3>1, CompiledFacts
    <3>3. ~(j < k) /\ ~(k < j)
      BY <2>2, <2>3, <3>1, <3>2, PlaceGrows
    <3>4. QED
      BY <3>1, <3>3
  <2>4. CandidateOf(j) = i
    BY <2>1, CandidateIs
  <2>5. job.candidates[i].proposal = Responses(job.request)[j]
    BY <1>4, <2>1
  <2>6. Responses(job.request)[j] = job.request.responses[j]
    <3>1. job.request \in Requests /\ j \in DOMAIN Responses(job.request)
      BY <1>1, <2>2 DEF TypeOK, Jobs, Shapes
    <3>2. QED
      BY <3>1, ResponsesType
  <2>7. QED
    BY <1>1, <2>2, <2>3, <2>4, <2>5, <2>6
<1>6. QED
  BY <1>1, <1>4, <1>5

\* Every step accounts for the responses.
LEMMA AccountedStep ==
  ASSUME TypeOK, Shapes, Compiling, EveryResponseIsAccounted, Next
  PROVE  EveryResponseIsAccounted'
<1>a. ASSUME job'.status \in {"none", "failed"} PROVE EveryResponseIsAccounted'
  BY <1>a DEF EveryResponseIsAccounted
<1>b. ASSUME job'.request = job.request, job'.status = job.status, job'.outcomes = job.outcomes,
             job'.patches = job.patches
      PROVE  EveryResponseIsAccounted'
  BY <1>b DEF EveryResponseIsAccounted
<1>1. ASSUME NEW r \in Requests, Submit(r) PROVE EveryResponseIsAccounted'
  BY <1>1, <1>a, SubmitFields
<1>2. CASE CollectContext
  <2>1. CASE job'.status = "no_candidate" /\ job.outcomes = <<>> /\ job'.outcomes = job.outcomes
    <3>1. ToSet(job'.outcomes) = {}
      BY <2>1 DEF ToSet
    <3>2. QED
      BY <2>1, <3>1 DEF EveryResponseIsAccounted
  <2>2. QED
    BY <1>2, <1>a, <2>1, CollectFields
<1>3. CASE ParseProposals
  BY <1>3, <1>a, ParseFields
<1>4. CASE CompileProposal
  <2>1. job.status = "none"
    BY <1>4, CompileCases DEF Compiling, AuthoringStages
  <2>2. QED
    BY <1>4, <1>a, <2>1, CompileFields
<1>5. CASE DecideNone
  <2>1. /\ job.stage = "compile" /\ job.next > Len(job.outcomes)
        /\ job'.status \in {"blocked", "requires_review", "no_candidate"}
        /\ job'.outcomes = Settled({})
    BY <1>5, NoneFields
  <2>2. /\ Settled({}) \in Seq({"selected", "rejected"})
        /\ \A j \in DOMAIN Settled({}) : Settled({})[j] # "selected"
    BY <2>1, SettledType
  <2>3. ToSet(Settled({})) \subseteq {"rejected", "selected"} /\ "selected" \notin ToSet(Settled({}))
    BY <2>2 DEF ToSet
  <2>4. QED
    BY <2>1, <2>3 DEF EveryResponseIsAccounted
<1>6. CASE DecideAuthored
  <2>1. PICK best \in Best(ranked) :
          /\ job.stage = "compile" /\ job.next > Len(job.outcomes)
          /\ job'.status = "authored" /\ job'.request = job.request
          /\ job'.outcomes = Settled({best}) /\ job'.patches = <<job.candidates[best].changes>>
    BY <1>6, AuthoredFields DEF LoopStands
  <2>2. /\ best \in DOMAIN job.candidates
        /\ ChangedPaths(job.candidates[best].changes) = AffectedNames(job.candidates[best].proposal)
    BY BestFacts
  <2>3. /\ Settled({best}) \in Seq({"selected", "rejected"})
        /\ DOMAIN Settled({best}) = DOMAIN job.outcomes
        /\ \A j \in DOMAIN job.outcomes :
             Settled({best})[j] = "selected" <=> job.outcomes[j] = "compiled" /\ CandidateOf(j) = best
    BY <2>1, SettledType
  <2>4. PICK i \in DOMAIN job.outcomes :
          /\ \A k \in DOMAIN job.outcomes :
               job.outcomes[k] = "compiled" /\ CandidateOf(k) = best <=> k = i
          /\ job.candidates[best].proposal = job.request.responses[i]
    BY <2>1, <2>2, Decided
  <2>5. ToSet(Settled({best})) \subseteq {"rejected", "selected"}
    BY <2>3 DEF ToSet
  <2>6. \A j \in DOMAIN job'.outcomes : job'.outcomes[j] = "selected" <=> i = j
    BY <2>1, <2>3, <2>4
  <2>7. job'.patches[1] = job.candidates[best].changes
    BY <2>1
  <2>8. ChangedPaths(job'.patches[1]) = AffectedNames(job'.request.responses[i])
    BY <2>1, <2>2, <2>4, <2>7
  <2>9. i \in DOMAIN job'.outcomes
    BY <2>1, <2>3
  <2>10. QED
    BY <2>1, <2>5, <2>6, <2>8, <2>9 DEF EveryResponseIsAccounted
<1>7. CASE \/ StartAttempt \/ CompareChange \/ WriteChange \/ RefuseChange \/ PatchToolFails
           \/ WriteFails \/ PersistPatchReport \/ StopWithoutPatches \/ WriteArtifact \/ PersistManifest \/ Raise \/ Crash
  <2>1. AuthoringStands
    BY <1>7, StartFields, CompareStands, ChangeFields, UnappliedFields, PersistFields, StopFields,
       WriteFields, EndFields DEF Unapplied
  <2>2. QED
    BY <1>b, <2>1 DEF AuthoringStands
<1>8. ASSUME NEW result \in TestResults, RunTests(result) PROVE EveryResponseIsAccounted'
  BY <1>8, <1>b, TestFields DEF AuthoringStands
<1>9. CASE Others
  BY <1>9, <1>b DEF Others
<1>10. MoveMarker \/ (\E f \in Files, text \in TheirTexts : Edit(f, text)) => Others
  BY DEF MoveMarker, Edit
<1>11. QED
  BY <1>1, <1>2, <1>3, <1>4, <1>5, <1>6, <1>7, <1>8, <1>9, <1>10 DEF Next

-----------------------------------------------------------------------------
(***************************************************************************)
(* The files that want a review: Reviewing is kept.                        *)
(***************************************************************************)
\* A file of the workspace stands for itself.
LEMMA FileIs ==
  ASSUME NEW f \in Files, Resolves[f] # Outside
  PROVE  Resolves[f] = f
  BY ResolvesAssumption

\* No step of an authored run writes a file that wants a review.
LEMMA ReviewingStep ==
  ASSUME TypeOK, Shapes, Compiling, Trying, Reviewing, Next
  PROVE  Reviewing'
<1>a. ASSUME job'.stage \notin LoopStages, job'.request = job.request, files' = files, theirs' = theirs
      PROVE  Reviewing'
  BY <1>a DEF Reviewing, ReviewedFilesUntouched
<1>b. ASSUME job.stage \in LoopStages, job'.request = job.request, job'.patches = job.patches,
             files' = files, theirs' = theirs
      PROVE  Reviewing'
  BY <1>b DEF Reviewing, ReviewedFilesUntouched, Clean
<1>1. ASSUME NEW r \in Requests, Submit(r) PROVE Reviewing'
  <2>1. /\ job'.request = r /\ theirs' = files /\ files' = files
        /\ r.authored => job'.stage = "context"
    BY <1>1, SubmitFields DEF Submit
  <2>2. QED
    BY <2>1 DEF Reviewing, ReviewedFilesUntouched, LoopStages
<1>2. CASE CollectContext \/ ParseProposals \/ CompileProposal \/ DecideNone
  <2>1. job'.stage \in {"idle", "parse", "compile"} /\ LoopStands
    BY <1>2, CollectFields, ParseFields, CompileFields, NoneFields
  <2>2. files' = files /\ theirs' = theirs
    BY <1>2 DEF CollectContext, ParseProposals, CompileProposal, DecideNone, Authoring, workspace
  <2>3. QED
    BY <1>a, <2>1, <2>2 DEF LoopStages, LoopStands
<1>3. CASE DecideAuthored
  <2>1. PICK best \in Best(ranked) :
          /\ job.stage = "compile" /\ job.next > Len(job.outcomes)
          /\ job'.request = job.request /\ files' = files /\ theirs' = theirs
          /\ job'.patches = <<job.candidates[best].changes>>
    BY <1>3, AuthoredFields DEF LoopStands, workspace
  <2>2. /\ best \in DOMAIN job.candidates
        /\ ChangedPaths(job.candidates[best].changes) = AffectedNames(job.candidates[best].proposal)
        /\ PathLabels(job.candidates[best].proposal)
             \intersect (ReviewedLabels \union RefusedLabels) = {}
    BY BestFacts
  <2>3. ChangedPaths(job.candidates[best].changes) \subseteq Files
    BY <2>1, <2>2, Decided
  <2>4. ASSUME NEW c \in ToSet(job.candidates[best].changes)
        PROVE  c.path \in Files /\ Clean(c.path)
    <3>1. c.path \in ChangedPaths(job.candidates[best].changes)
      BY DEF ChangedPaths
    <3>2. Labels[c.path] \subseteq PathLabels(job.candidates[best].proposal)
      BY <2>2, <3>1 DEF PathLabels
    <3>3. QED
      BY <2>2, <2>3, <3>1, <3>2 DEF Clean
  <2>5. \A a \in DOMAIN job'.patches : job'.patches[a] = job.candidates[best].changes
    BY <2>1
  <2>6. \A a \in DOMAIN job'.patches : \A c \in ToSet(job'.patches[a]) : c.path \in Files /\ Clean(c.path)
    BY <2>4, <2>5
  <2>7. ReviewedFilesUntouched'
    BY <2>1 DEF Reviewing, ReviewedFilesUntouched
  <2>8. QED
    BY <2>6, <2>7 DEF Reviewing, Clean
\* The file about to be written, or left torn, wants no review.
<1>c. ASSUME job.stage = "write", job.request.authored PROVE target \in Files /\ Clean(target)
  <2>1. /\ target \in Files /\ target # Outside /\ job.at \in DOMAIN patch
        /\ job.attempt \in 1..Len(job.patches) /\ job.patches \in Seq(Seq(Changes))
    <3>1. patch \in Seq(Changes) /\ job.attempt \in 1..Len(job.patches)
      BY <1>c, PatchType
    <3>2. target \in Files /\ target # Outside /\ job.at \in 1..Len(patch)
      BY <1>c DEF Trying
    <3>3. job.at \in DOMAIN patch
      BY <3>1, <3>2
    <3>4. job.patches \in Seq(Seq(Changes))
      BY DEF TypeOK, Jobs
    <3>5. QED
      BY <3>1, <3>2, <3>3, <3>4
  <2>2. patch[job.at] \in ToSet(patch) /\ job.attempt \in DOMAIN job.patches
    BY <2>1 DEF ToSet
  <2>3. patch[job.at].path \in Files /\ Clean(patch[job.at].path)
    BY <1>c, <2>2 DEF Reviewing, LoopStages, patch
  <2>4. QED
    BY <2>1, <2>3, FileIs DEF target
<1>d. ASSUME NEW f \in Files, job.request.authored, job'.request = job.request, theirs' = theirs,
             ~Clean(f), files'[f] = files[f] \/ (job.stage = "write" /\ f = target)
      PROVE  files'[f] = theirs'[f]
  BY <1>c, <1>d DEF Reviewing, ReviewedFilesUntouched, Clean
<1>e. ASSUME job'.request = job.request, theirs' = theirs,
             \A f \in Files : files'[f] = files[f] \/ (job.stage = "write" /\ f = target)
      PROVE  ReviewedFilesUntouched'
  BY <1>d, <1>e DEF ReviewedFilesUntouched, Clean
<1>4. CASE WriteChange
  <2>1. /\ job.stage = "write" /\ files' = [files EXCEPT ![target] = job.text] /\ theirs' = theirs
        /\ AuthoringStands /\ files \in [Files -> Contents]
    BY <1>4, ChangeFields DEF Looping, TypeOK
  <2>2. ReviewedFilesUntouched'
    BY <1>e, <2>1 DEF AuthoringStands
  <2>3. QED
    BY <2>1, <2>2 DEF Reviewing, AuthoringStands, LoopStages, Clean
<1>5. CASE StartAttempt \/ CompareChange \/ PersistPatchReport
  <2>1. job.stage \in LoopStages /\ AuthoringStands /\ files' = files /\ theirs' = theirs
    BY <1>5, StartFields, CompareFields, PersistFields DEF LoopStages, Looping
  <2>2. QED
    BY <1>b, <2>1 DEF AuthoringStands
<1>6. ASSUME NEW result \in TestResults, RunTests(result) PROVE Reviewing'
  <2>1. job.stage \in LoopStages /\ AuthoringStands /\ files' = files /\ theirs' = theirs
    BY <1>6, TestFields DEF LoopStages, Looping
  <2>2. QED
    BY <1>b, <2>1 DEF AuthoringStands
<1>7. CASE StopWithoutPatches \/ WriteArtifact
  <2>1. /\ job'.stage = "bundle" /\ AuthoringStands /\ files' = files /\ theirs' = theirs
    BY <1>7, StopFields, WriteFields DEF Looping, workspace
  <2>2. QED
    BY <1>a, <2>1 DEF AuthoringStands, LoopStages
<1>f. CASE \/ RefuseChange \/ PatchToolFails \/ WriteFails
           \/ PersistManifest \/ Raise \/ Crash
  <2>1. /\ job'.stage \in {"idle", "bundle"} /\ AuthoringStands /\ theirs' = theirs /\ MayTear
    BY <1>f, UnappliedFields, EndFields DEF Unapplied, Looping
  <2>2. \A f \in Files : files'[f] = files[f] \/ (job.stage = "write" /\ f = target)
    BY <2>1, TearFacts
  <2>3. ReviewedFilesUntouched'
    BY <1>e, <2>1, <2>2 DEF AuthoringStands
  <2>4. QED
    BY <2>1, <2>3 DEF Reviewing, LoopStages
<1>8. ASSUME NEW f \in Files, NEW text \in TheirTexts, Edit(f, text) PROVE Reviewing'
  <2>1. /\ job' = job /\ files' = [files EXCEPT ![f] = text] /\ theirs' = [theirs EXCEPT ![f] = text]
        /\ files \in [Files -> Contents] /\ theirs \in [Files -> Contents]
    BY <1>8 DEF Edit, Others, TypeOK
  <2>2. QED
    BY <2>1 DEF Reviewing, ReviewedFilesUntouched, Clean
<1>9. CASE MoveMarker
  BY <1>9 DEF MoveMarker, Others, Reviewing, ReviewedFilesUntouched, Clean
<1>10. QED
  BY <1>1, <1>2, <1>3, <1>4, <1>5, <1>6, <1>7, <1>f, <1>8, <1>9 DEF Next

-----------------------------------------------------------------------------
(***************************************************************************)
(* The edits of others: Keeping is kept.                                   *)
(***************************************************************************)
\* Nothing is written, and no fewer of the changes attempted are made or given up.
LEMMA KeptStep ==
  ASSUME TypeOK, Trying, Keeping, UNCHANGED <<theirs, edited, written>>, Attempted' = Attempted,
         Reached' \in {Reached, Len(Attempted)},
         \A f \in Files \ torn' : f \notin torn /\ files'[f] = files[f],
         job'.stage # "write",
         job'.stage \in AuthoringStages \union LoopStages =>
           job.stage \in AuthoringStages \union LoopStages /\ files' = files
  PROVE  Keeping'
<1>1. Attempted \in Seq(Changes) /\ Reached \in 0..Len(Attempted) /\ Len(Attempted) \in Nat
  BY ReachedFacts
<1>2. theirs \in [Files -> Contents]
  BY DEF TypeOK
<1>3. ASSUME NEW f \in Files \ torn'
      PROVE  files[f] \in MadeOf(f, {theirs[f]}, SubSeq(Attempted, 1, Reached'))
  <2>1. files[f] \in MadeOf(f, {theirs[f]}, SubSeq(Attempted, 1, Reached))
    BY DEF Keeping
  <2>2. {theirs[f]} \in SUBSET Contents
    BY <1>2
  <2>3. Len(Attempted) \in 0..Len(Attempted) /\ Reached \in 0..Len(Attempted)
    BY <1>1
  <2>4. MadeOf(f, {theirs[f]}, SubSeq(Attempted, 1, Reached))
          \subseteq MadeOf(f, {theirs[f]}, SubSeq(Attempted, 1, Len(Attempted)))
    BY <1>1, <2>2, <2>3, MadeOfGrows
  <2>5. QED
    BY <2>1, <2>4
<1>4. LastWrites' = LastWrites
  BY DEF LastWrites, WrittenTo
<1>5. \A f \in Files \ torn' : files'[f] \in MadeOf(f, {theirs'[f]}, SubSeq(Attempted', 1, Reached'))
  BY <1>3
<1>6. job'.stage \in AuthoringStages \union LoopStages =>
        \A i \in LastWrites' : files'[WrittenTo(i)'] = written'[i].text \/ WrittenTo(i)' \in edited'
  BY <1>4 DEF Keeping, WrittenTo
<1>7. QED
  BY <1>5, <1>6 DEF Keeping

\* No step loses an edit of others.
LEMMA KeepingStep ==
  ASSUME TypeOK, Shapes, Compiling, Trying, Keeping, Next, TypeOK', Trying'
  PROVE  Keeping'
<1>a. ASSUME UNCHANGED <<theirs, edited, written, files, torn>>, Attempted' = Attempted,
             job'.stage \notin {"apply", "write"}, job.stage \in AuthoringStages \union LoopStages
      PROVE  Keeping'
  <2>1. Reached' \in {Reached, Len(Attempted)}
    BY <1>a DEF Reached
  <2>2. QED
    BY <1>a, <2>1, KeptStep
\* The loop is over, and a file may be left torn.
<1>b. ASSUME UNCHANGED <<theirs, edited, written>>, AuthoringStands, job'.attempt = job.attempt,
             job'.stage \in {"idle", "bundle"}, MayTear
      PROVE  Keeping'
  <2>1. Attempted' = Attempted
    BY <1>b, SameAttempted DEF AuthoringStands
  <2>2. Reached' = Len(Attempted)
    BY <1>b, <2>1 DEF Reached
  <2>3. \A f \in Files \ torn' : f \notin torn /\ files'[f] = files[f]
    BY <1>b, TearFacts
  <2>4. QED
    BY <1>b, <2>1, <2>2, <2>3, KeptStep DEF AuthoringStages, LoopStages
<1>1. ASSUME NEW r \in Requests, Submit(r) PROVE Keeping'
  <2>1. /\ theirs' = files /\ files' = files /\ written' = <<>> /\ job'.attempt = 0
        /\ job'.stage \notin {"apply", "write"}
    BY <1>1, SubmitFields DEF Submit
  <2>2. Attempted' = <<>>
    <3>1. job'.attempt <= Len(job'.patches)
      BY DEF Trying
    <3>2. (TypeOK /\ job.attempt <= Len(job.patches) /\ job.attempt = 0 => Attempted = <<>>)'
      BY AttemptedFacts, PTL
    <3>3. QED
      BY <2>1, <3>1, <3>2
  <2>3. Reached' = 0
    BY <2>1, <2>2 DEF Reached
  <2>4. LastWrites' = {}
    BY <2>1 DEF LastWrites
  <2>5. ASSUME NEW f \in Files PROVE files[f] \in MadeOf(f, {files[f]}, SubSeq(<<>>, 1, 0))
    <3> DEFINE none == <<>>
               k == 0
    <3>1. none \in Seq(Changes) /\ k \in 0..Len(none) /\ {files[f]} \in SUBSET Contents
      BY DEF TypeOK
    <3> HIDE DEF none, k
    <3>2. {files[f]} \subseteq MadeOf(f, {files[f]}, SubSeq(none, 1, k))
      BY <3>1, MadeOfGrows
    <3>3. QED
      BY <3>2 DEF none, k
  <2>6. QED
    BY <2>1, <2>2, <2>3, <2>4, <2>5 DEF Keeping
<1>2. CASE CollectContext \/ ParseProposals \/ CompileProposal \/ DecideNone
  <2>1. /\ job'.stage \in {"idle", "parse", "compile"} /\ LoopStands /\ job'.patches = job.patches
    BY <1>2, CollectFields, ParseFields, CompileFields, NoneFields
  <2>2. Attempted' = Attempted
    BY <2>1, SameAttempted DEF LoopStands
  <2>3. UNCHANGED <<files, theirs, edited, torn, written>>
    BY <1>2 DEF CollectContext, ParseProposals, CompileProposal, DecideNone, Authoring, workspace
  <2>4. job.stage \in AuthoringStages
    BY <1>2, CollectFields, ParseFields, CompileCases, NoneFields DEF AuthoringStages
  <2>5. QED
    BY <1>a, <2>1, <2>2, <2>3, <2>4
<1>3. CASE DecideAuthored
  <2>1. /\ job.stage \in AuthoringStages /\ job'.stage \in {"idle", "attempt"} /\ LoopStands
        /\ UNCHANGED <<files, theirs, edited, torn, written>>
    BY <1>3, AuthoredFields DEF AuthoringStages, workspace
  <2>2. job.attempt = 0 /\ job'.attempt = 0
    BY <2>1 DEF Trying, LoopStands
  <2>3. Attempted = <<>>
    BY <2>2, AttemptedFacts DEF Trying
  <2>4. Attempted' = <<>>
    <3>1. job'.attempt <= Len(job'.patches)
      BY DEF Trying
    <3>2. (TypeOK /\ job.attempt <= Len(job.patches) /\ job.attempt = 0 => Attempted = <<>>)'
      BY AttemptedFacts, PTL
    <3>3. QED
      BY <2>2, <3>1, <3>2
  <2>5. QED
    BY <1>a, <2>1, <2>3, <2>4
<1>4. CASE StartAttempt
  <2>1. /\ UNCHANGED <<files, theirs, edited, torn, written>>
        /\ job.stage = "attempt" /\ job'.stage = "apply"
    BY <1>4, StartFields DEF Looping
  <2>2. /\ Attempted' = Attempted \o patch' /\ Attempted \in Seq(Changes) /\ patch' \in Seq(Changes)
        /\ Reached = Len(Attempted) /\ Reached' = Len(Attempted)
    BY <1>4, StartAttempted
  <2>3. SubSeq(Attempted', 1, Reached') = SubSeq(Attempted, 1, Reached)
    <3>1. SubSeq(Attempted \o patch', 1, Len(Attempted)) = Attempted
      BY <2>2, SubSeqOfConcat1
    <3>2. SubSeq(Attempted, 1, Len(Attempted)) = Attempted
      BY <2>2, SubSeqFull
    <3>3. QED
      BY <2>2, <3>1, <3>2
  <2>4. LastWrites' = LastWrites
    BY <2>1 DEF LastWrites, WrittenTo
  <2>5. QED
    BY <2>1, <2>3, <2>4 DEF Keeping, WrittenTo, LoopStages
<1>c. CASE CompareChange
  <2>1. /\ UNCHANGED <<files, theirs, edited, torn, written>>
        /\ job.stage = "apply" /\ job'.stage = "write" /\ job'.at = job.at
        /\ Matches(patch[job.at], files[target])
        /\ job'.text = Patched(patch[job.at], files[target])
    BY <1>c, CompareFields DEF Looping
  <2>2. Attempted' = Attempted /\ patch' = patch /\ target' = target /\ Reached' = Reached
    BY <1>c, CompareReached
  <2>3. LastWrites' = LastWrites
    BY <2>1 DEF LastWrites, WrittenTo
  <2>4. Matches(patch'[job'.at], files'[target']) /\ job'.text = Patched(patch'[job'.at], files'[target'])
    BY <2>1, <2>2
  <2>5. \A f \in Files \ torn' :
          files'[f] \in MadeOf(f, {theirs'[f]}, SubSeq(Attempted', 1, Reached'))
    BY <2>1, <2>2 DEF Keeping
  <2>6. \A i \in LastWrites' : files'[WrittenTo(i)'] = written'[i].text \/ WrittenTo(i)' \in edited'
    BY <2>1, <2>3 DEF Keeping, WrittenTo, LoopStages
  <2>7. QED
    BY <2>4, <2>5, <2>6 DEF Keeping
<1>5. CASE WriteChange
  <2> DEFINE change == patch[job.at]
             text == job.text
             file == target
             record == [change |-> change, text |-> text]
             k == Reached
             made(f, n) == MadeOf(f, {theirs[f]}, SubSeq(Attempted, 1, n))
  <2>1. /\ job.stage = "write" /\ job'.stage = "apply" /\ text \in Contents
        /\ files' = [files EXCEPT ![file] = text]
        /\ written' = Append(written, record)
        /\ edited' = edited \ {file} /\ theirs' = theirs /\ torn' = torn
    BY <1>5, ChangeFields DEF Looping
  <2>2. /\ Attempted' = Attempted /\ Reached' = k + 1 /\ k \in Nat /\ k + 1 <= Len(Attempted)
        /\ Attempted[k + 1] = change /\ change \in Changes
    BY <1>5, ChangeReached
  <2>3. Attempted \in Seq(Changes) /\ k \in 0..Len(Attempted) /\ Len(Attempted) \in Nat
    BY ReachedFacts
  <2>4. file \in Files /\ file = Resolves[change.path]
    BY <2>1 DEF Trying, target
  <2>5. /\ files \in [Files -> Contents] /\ theirs \in [Files -> Contents]
        /\ written \in Seq([change : Changes, text : Contents])
        /\ \A f \in Files \ torn : files[f] \in made(f, k)
        /\ \A i \in LastWrites : files[WrittenTo(i)] = written[i].text \/ WrittenTo(i) \in edited
        /\ file \notin torn => Matches(change, files[file]) /\ text = Patched(change, files[file])
    BY <2>1 DEF TypeOK, Keeping, LoopStages
  <2>6. record \in [change : Changes, text : Contents] /\ record.change = change /\ record.text = text
    BY <2>1, <2>2
  <2> HIDE DEF change, k, text, record, file
  <2>7. ASSUME NEW f \in Files \ torn
        PROVE  files'[f] \in made(f, k + 1)
    <3>1. {theirs[f]} \in SUBSET Contents
      BY <2>5
    <3>2. k + 1 \in 0..Len(Attempted) /\ k \in 0..(k + 1) /\ k < Len(Attempted)
      BY <2>2, <2>3
    <3>3. made(f, k) \subseteq made(f, k + 1)
      BY <2>3, <3>1, <3>2, MadeOfGrows
    <3>4. \A t \in made(f, k) :
            Resolves[change.path] = f /\ Matches(change, t) => Patched(change, t) \in made(f, k + 1)
      BY <2>2, <2>3, <3>1, <3>2, MadeOfGrows
    <3> HIDE DEF made
    <3>5. CASE f = file
      BY <2>1, <2>4, <2>5, <3>4, <3>5
    <3>6. CASE f # file
      BY <2>1, <2>5, <3>3, <3>6
    <3>7. QED
      BY <3>5, <3>6
  <2>8. /\ Len(written') = Len(written) + 1 /\ Len(written) \in Nat
        /\ DOMAIN written' = 1..(Len(written) + 1) /\ DOMAIN written = 1..Len(written)
        /\ written'[Len(written) + 1] = record
        /\ \A i \in 1..Len(written) : written'[i] = written[i]
    BY <2>1, <2>5, <2>6
  <2>10. ASSUME NEW i \in LastWrites'
         PROVE  files'[WrittenTo(i)'] = written'[i].text \/ WrittenTo(i)' \in edited'
    <3>1. i \in DOMAIN written' /\ \A j \in DOMAIN written' : WrittenTo(j)' = WrittenTo(i)' => j <= i
      BY DEF LastWrites, WrittenTo
    <3>2. CASE i = Len(written) + 1
      <4>1. WrittenTo(i)' = file
        BY <2>4, <2>6, <2>8, <3>2 DEF WrittenTo
      <4>2. QED
        BY <2>1, <2>4, <2>5, <2>6, <2>8, <3>2, <4>1
    <3>3. CASE i # Len(written) + 1
      <4>1. i \in 1..Len(written) /\ written'[i] = written[i]
        BY <2>8, <3>1, <3>3
      <4>a. WrittenTo(i)' = WrittenTo(i)
        BY <4>1 DEF WrittenTo
      <4>2. WrittenTo(i) # file
        <5>1. Len(written) + 1 \in DOMAIN written' /\ ~(Len(written) + 1 <= i)
          BY <2>8, <4>1
        <5>2. Resolves[written'[Len(written) + 1].change.path] = file
          BY <2>4, <2>6, <2>8
        <5>3. QED
          BY <3>1, <4>a, <5>1, <5>2 DEF WrittenTo
      <4>3. i \in LastWrites
        <5>1. ASSUME NEW j \in DOMAIN written, WrittenTo(j) = WrittenTo(i) PROVE j <= i
          <6>1. j \in DOMAIN written' /\ written'[j] = written[j]
            BY <2>8
          <6>2. QED
            BY <3>1, <4>1, <5>1, <6>1 DEF WrittenTo
        <5>2. QED
          BY <2>8, <4>1, <5>1 DEF LastWrites
      <4>4. files'[WrittenTo(i)] = files[WrittenTo(i)]
        BY <2>1, <2>5, <4>2
      <4>5. QED
        BY <2>1, <2>5, <4>1, <4>a, <4>2, <4>3, <4>4
    <3>4. QED
      BY <3>2, <3>3
  <2>11. \A f \in Files \ torn' :
           files'[f] \in MadeOf(f, {theirs'[f]}, SubSeq(Attempted', 1, Reached'))
    BY <2>1, <2>2, <2>7
  <2>12. QED
    BY <2>1, <2>10, <2>11 DEF Keeping
<1>6. CASE PersistPatchReport
  <2>1. /\ job.stage = "apply" /\ job'.stage = "test" /\ AuthoringStands /\ LoopStands
        /\ UNCHANGED <<files, theirs, edited, torn, written>>
    BY <1>6, PersistFields DEF Looping
  <2>2. QED
    BY <1>a, <2>1, SameAttempted DEF AuthoringStands, LoopStands, LoopStages
<1>7. ASSUME NEW result \in TestResults, RunTests(result) PROVE Keeping'
  <2>1. /\ job.stage = "test" /\ job'.stage \in {"attempt", "bundle"}
        /\ AuthoringStands /\ job'.attempt = job.attempt
        /\ UNCHANGED <<files, theirs, edited, torn, written>>
    BY <1>7, TestFields DEF Looping
  <2>2. QED
    BY <1>a, <2>1, SameAttempted DEF AuthoringStands, LoopStages
<1>8. CASE RefuseChange \/ PatchToolFails \/ WriteFails
  BY <1>8, <1>b, UnappliedFields DEF Looping, Unapplied
<1>s. CASE StopWithoutPatches
  BY <1>s, <1>b, StopFields DEF Looping, MayTear
<1>9. CASE WriteArtifact
  BY <1>9, <1>b, WriteFields DEF workspace, MayTear, LoopStands
<1>e. CASE PersistManifest \/ Raise \/ Crash
  BY <1>e, <1>b, EndFields DEF LoopStands
<1>10. ASSUME NEW f \in Files, NEW text \in TheirTexts, Edit(f, text) PROVE Keeping'
  <2>1. /\ job' = job /\ files' = [files EXCEPT ![f] = text] /\ theirs' = [theirs EXCEPT ![f] = text]
        /\ edited' = edited \union {f} /\ written' = written
        /\ torn' = IF job.stage = "write" /\ target = f THEN torn \union {f} ELSE torn \ {f}
        /\ files \in [Files -> Contents] /\ theirs \in [Files -> Contents]
    BY <1>10 DEF Edit, Others, TypeOK
  <2>2. /\ Attempted' = Attempted /\ patch' = patch /\ target' = target
        /\ Reached' = Reached /\ LastWrites' = LastWrites
    <3>1. Attempted' = Attempted /\ patch' = patch /\ target' = target
      BY <2>1, SameAttempted
    <3>2. QED
      BY <2>1, <3>1 DEF Reached, LastWrites, WrittenTo
  <2>3. Attempted \in Seq(Changes) /\ Reached \in 0..Len(Attempted)
    BY ReachedFacts
  <2>4. ASSUME NEW g \in Files \ torn'
        PROVE  files'[g] \in MadeOf(g, {theirs'[g]}, SubSeq(Attempted, 1, Reached))
    <3>1. CASE g = f
      <4>1. files'[g] = text /\ theirs'[g] = text /\ {text} \in SUBSET Contents
        BY <2>1, <3>1, FilesAssumption
      <4>2. {text} \subseteq MadeOf(g, {text}, SubSeq(Attempted, 1, Reached))
        BY <2>3, <4>1, MadeOfGrows
      <4>3. QED
        BY <4>1, <4>2
    <3>2. CASE g # f
      BY <2>1, <3>2 DEF Keeping
    <3>3. QED
      BY <3>1, <3>2
  <2>5. ASSUME job.stage \in AuthoringStages \union LoopStages, NEW i \in LastWrites
        PROVE  files'[WrittenTo(i)] = written[i].text \/ WrittenTo(i) \in edited'
    <3>1. CASE WrittenTo(i) = f
      BY <2>1, <3>1
    <3>2. CASE WrittenTo(i) # f
      <4>1. files'[WrittenTo(i)] = files[WrittenTo(i)]
        BY <2>1, <3>2
      <4>2. QED
        BY <2>1, <2>5, <4>1 DEF Keeping
    <3>3. QED
      BY <3>1, <3>2
  <2>6. ASSUME job.stage = "write", target \notin torn'
        PROVE  Matches(patch[job.at], files'[target]) /\ job.text = Patched(patch[job.at], files'[target])
    <3>1. target # f /\ target \notin torn
      BY <2>1, <2>6
    <3>2. files'[target] = files[target]
      BY <2>1, <3>1
    <3>3. QED
      BY <2>6, <3>1, <3>2 DEF Keeping
  <2>7. job'.stage = "write" /\ target' \notin torn' =>
          Matches(patch'[job'.at], files'[target']) /\ job'.text = Patched(patch'[job'.at], files'[target'])
    BY <2>1, <2>2, <2>6
  <2>8. job'.stage \in AuthoringStages \union LoopStages =>
          \A i \in LastWrites' : files'[WrittenTo(i)'] = written'[i].text \/ WrittenTo(i)' \in edited'
    BY <2>1, <2>2, <2>5 DEF WrittenTo
  <2>9. QED
    BY <2>2, <2>4, <2>7, <2>8 DEF Keeping
<1>11. CASE MoveMarker
  <2>1. job' = job /\ UNCHANGED <<files, theirs, edited, torn, written>>
    BY <1>11 DEF MoveMarker, Others
  <2>2. Attempted' = Attempted /\ patch' = patch /\ target' = target
    BY <2>1, SameAttempted
  <2>3. Reached' = Reached /\ LastWrites' = LastWrites
    BY <2>1, <2>2 DEF Reached, LastWrites, WrittenTo
  <2>4. QED
    BY <2>1, <2>2, <2>3 DEF Keeping, WrittenTo
<1>12. QED
  BY <1>1, <1>2, <1>3, <1>4, <1>c, <1>5, <1>6, <1>7, <1>8, <1>s, <1>9, <1>e, <1>10, <1>11 DEF Next

-----------------------------------------------------------------------------
(***************************************************************************)
(* What is verified: VerifiedMeansTested is kept.                          *)
(***************************************************************************)
\* What the verification says.
LEMMA VerificationIs ==
  /\ VerificationStatus = "verified" => job.loop = "succeeded" /\ Last(job.tests) = "passed"
  /\ job.loop = "succeeded" /\ job.tests # <<>> /\ Last(job.tests) = "passed"
       => VerificationStatus = "verified"
  BY DEF VerificationStatus

\* No step verifies what was not tested.
LEMMA VerifiedStep ==
  ASSUME TypeOK, Shapes, Compiling, Trying, Keeping, VerifiedMeansTested, Next
  PROVE  VerifiedMeansTested'
<1>a. ASSUME job'.patches = job.patches, job'.attempt = job.attempt, job'.loop = job.loop,
             job'.tests = job.tests, written' = written, tested' = tested
      PROVE  VerifiedMeansTested'
  BY <1>a DEF VerifiedMeansTested, VerificationStatus, Attempted, LastWrites, WrittenTo
<1>b. ASSUME job'.loop \in {"running", "blocked", "failed"} PROVE VerifiedMeansTested'
  BY <1>b DEF VerifiedMeansTested, VerificationStatus
<1>c. job.stage \in AuthoringStages \union LoopStages => job.loop = "running"
  BY DEF Trying
<1>1. ASSUME NEW r \in Requests, Submit(r) PROVE VerifiedMeansTested'
  BY <1>1, <1>b, SubmitFields
<1>2. CASE CollectContext \/ ParseProposals \/ CompileProposal \/ DecideNone \/ DecideAuthored
  <2>1. job.stage \in AuthoringStages /\ LoopStands
    BY <1>2, CollectFields, ParseFields, CompileFields, CompileCases, NoneFields, AuthoredFields
       DEF AuthoringStages
  <2>2. QED
    BY <1>b, <1>c, <2>1 DEF LoopStands
<1>3. CASE StartAttempt \/ CompareChange \/ WriteChange \/ PersistPatchReport
  <2>1. job.stage \in LoopStages /\ job'.loop = job.loop
    BY <1>3, StartFields, CompareStands, ChangeFields, PersistFields DEF LoopStages, LoopStands
  <2>2. QED
    BY <1>b, <1>c, <2>1
<1>4. CASE RefuseChange \/ PatchToolFails \/ WriteFails \/ StopWithoutPatches
  BY <1>4, <1>b, UnappliedFields, StopFields DEF Unapplied
<1>5. ASSUME NEW result \in TestResults, RunTests(result) PROVE VerifiedMeansTested'
  <2>1. /\ job.stage = "test" /\ AuthoringStands
        /\ job'.attempt = job.attempt /\ job'.tests = Append(job.tests, result)
        /\ \/ job'.loop = job.loop
           \/ job'.loop = LoopAfter(result)
        /\ tested' = [files |-> files, edited |-> edited] /\ written' = written
    BY <1>5, TestFields
  <2>2. /\ job.attempt >= 1 /\ Len(job.tests) = job.attempt - 1 /\ job.loop = "running"
        /\ Len(written) = Reached
        /\ \A i \in 1..Reached : written[i].change = Attempted[i]
    BY <2>1 DEF Trying, LoopStages
  <2>3. Attempted' = Attempted /\ LastWrites' = LastWrites
    BY <2>1, SameAttempted DEF AuthoringStands, LastWrites, WrittenTo
  <2>4. Reached = Len(Attempted) /\ Attempted \in Seq(Changes)
    BY <2>1, ReachedFacts
  <2>5. Len(job'.tests) = job'.attempt
    <3>1. job.tests \in Seq(TestResults) /\ job.attempt \in Nat
      BY DEF TypeOK, Jobs
    <3>2. Len(job'.tests) = Len(job.tests) + 1
      BY <2>1, <3>1
    <3>3. QED
      BY <2>1, <2>2, <3>1, <3>2
  <2>6. [i \in DOMAIN written |-> written[i].change] = Attempted
    <3>1. written \in Seq([change : Changes, text : Contents])
      BY DEF TypeOK
    <3>2. DOMAIN written = 1..Reached /\ Attempted = [i \in 1..Reached |-> Attempted[i]]
      BY <2>2, <2>4, <3>1
    <3>3. QED
      BY <2>2, <3>2
  <2>7. \A i \in LastWrites :
          tested'.files[WrittenTo(i)] = written[i].text \/ WrittenTo(i) \in tested'.edited
    BY <2>1 DEF Keeping, LoopStages
  <2>8. QED
    BY <2>1, <2>3, <2>5, <2>6, <2>7 DEF VerifiedMeansTested, WrittenTo
<1>6. CASE WriteArtifact \/ PersistManifest \/ Raise \/ Crash
  <2>1. AuthoringStands /\ LoopStands /\ written' = written /\ tested' = tested
    BY <1>6, WriteFields, EndFields
  <2>2. QED
    BY <1>a, <2>1 DEF AuthoringStands, LoopStands
<1>7. CASE Others
  BY <1>7, <1>a DEF Others
<1>8. MoveMarker \/ (\E f \in Files, text \in TheirTexts : Edit(f, text)) => Others
  BY DEF MoveMarker, Edit
<1>9. QED
  BY <1>1, <1>2, <1>3, <1>4, <1>5, <1>6, <1>7, <1>8 DEF Next

-----------------------------------------------------------------------------
(***************************************************************************)
(* The receipts and the manifest: Recording and Telling are kept.          *)
(***************************************************************************)
\* The first receipt of a run is its start.
LEMMA BegunFirst ==
  ASSUME NEW l \in Seq(Receipts), NEW run, \A i \in DOMAIN l : l[i].run # run,
         NEW a \in Receipts, a.run = run, a.kind = "started"
  PROVE  Begun(run, Append(l, a))
<1>1. /\ Len(l) \in Nat /\ DOMAIN l = 1..Len(l) /\ DOMAIN Append(l, a) = 1..(Len(l) + 1)
      /\ Append(l, a)[Len(l) + 1] = a /\ \A i \in 1..Len(l) : Append(l, a)[i] = l[i]
  OBVIOUS
<1>2. OwnReceipts(run, Append(l, a), Len(l) + 1)
  BY <1>1 DEF OwnReceipts
<1>3. QED
  BY <1>1, <1>2 DEF Begun

\* The next ones are its own.
LEMMA BegunMore ==
  ASSUME NEW l \in Seq(Receipts), NEW run, NEW first \in DOMAIN l,
         OwnReceipts(run, l, first), l[first].kind = "started",
         NEW a \in Receipts, a.run = run, NEW b \in Receipts, b.run = run
  PROVE  /\ first \in DOMAIN Append(l, a) /\ OwnReceipts(run, Append(l, a), first)
         /\ Append(l, a)[first].kind = "started" /\ first \in 1..(Len(Append(l, a)) - 1)
         /\ OwnReceipts(run, l \o <<a, b>>, first)
         /\ (l \o <<a, b>>)[first].kind = "started" /\ first \in 1..(Len(l \o <<a, b>>) - 1)
<1>1. /\ Len(l) \in Nat /\ DOMAIN l = 1..Len(l) /\ first \in 1..Len(l)
  OBVIOUS
<1>2. /\ DOMAIN Append(l, a) = 1..(Len(l) + 1) /\ Len(Append(l, a)) = Len(l) + 1
      /\ Append(l, a)[Len(l) + 1] = a /\ \A i \in 1..Len(l) : Append(l, a)[i] = l[i]
  OBVIOUS
<1>3. /\ DOMAIN (l \o <<a, b>>) = 1..(Len(l) + 2) /\ Len(l \o <<a, b>>) = Len(l) + 2
      /\ (l \o <<a, b>>)[Len(l) + 1] = a /\ (l \o <<a, b>>)[Len(l) + 2] = b
      /\ \A i \in 1..Len(l) : (l \o <<a, b>>)[i] = l[i]
  BY MoreReceipts
<1> DEFINE one == Append(l, a)
           two == l \o <<a, b>>
<1>4. \A i \in 1..(Len(l) + 1) : i \in 1..Len(l) \/ i = Len(l) + 1
  BY <1>1
<1>5. \A i \in 1..(Len(l) + 2) : i \in 1..Len(l) \/ i = Len(l) + 1 \/ i = Len(l) + 2
  BY <1>1
<1> HIDE DEF one, two
<1>6. OwnReceipts(run, one, first)
  <2>1. ASSUME NEW i \in 1..(Len(l) + 1) PROVE one[i].run = run <=> i >= first
    BY <1>1, <1>2, <1>4 DEF OwnReceipts, one
  <2>2. QED
    BY <1>2, <2>1 DEF OwnReceipts, one
<1>7. OwnReceipts(run, two, first)
  <2>1. ASSUME NEW i \in 1..(Len(l) + 2) PROVE two[i].run = run <=> i >= first
    BY <1>1, <1>3, <1>5 DEF OwnReceipts, two
  <2>2. QED
    BY <1>3, <2>1 DEF OwnReceipts, two
<1>8. first \in 1..(Len(l) + 1) /\ first \in 1..((Len(l) + 1) - 1) /\ first \in 1..((Len(l) + 2) - 1)
  BY <1>1
<1>9. QED
  BY <1>1, <1>2, <1>3, <1>6, <1>7, <1>8 DEF one, two

\* A run that has begun has begun, with one more receipt of its own.
LEMMA BegunOne ==
  ASSUME NEW l \in Seq(Receipts), NEW run, Begun(run, l), NEW a \in Receipts, a.run = run
  PROVE  Begun(run, Append(l, a))
  BY BegunMore DEF Begun

\* The last two, or the last after one that was there.
LEMMA WholeTwo ==
  ASSUME NEW l \in Seq(Receipts), NEW run, Begun(run, l),
         NEW a \in Receipts, a.run = run, NEW b \in Receipts, b.run = run,
         b.kind = "terminated", NEW status, status = "verified" <=> TestPassed(a)
  PROVE  Whole(run, l \o <<a, b>>, b.result, status)
<1> DEFINE two == l \o <<a, b>>
<1>1. /\ Len(l) \in Nat /\ Len(two) = Len(l) + 2
      /\ two[Len(l) + 1] = a /\ two[Len(l) + 2] = b
  BY MoreReceipts
<1>2. PICK first \in DOMAIN l : OwnReceipts(run, l, first) /\ l[first].kind = "started"
  BY DEF Begun
<1>3. /\ OwnReceipts(run, two, first) /\ two[first].kind = "started" /\ first \in 1..(Len(two) - 1)
  BY <1>2, BegunMore
<1> HIDE DEF two
<1>4. Last(two) = b /\ two[Len(two) - 1] = a
  <2>1. Len(two) - 1 = Len(l) + 1
    BY <1>1
  <2>2. QED
    BY <1>1, <2>1 DEF Last
<1>5. Whole(run, two, b.result, status)
  BY <1>3, <1>4 DEF Whole
<1>6. QED
  BY <1>5 DEF two

\* A run ends with the receipt of the end alone, and is not verified.
LEMMA WholeOne ==
  ASSUME NEW l \in Seq(Receipts), NEW run, Begun(run, l), ~TestPassed(Last(l)),
         NEW b \in Receipts, b.run = run, b.kind = "terminated", NEW status, status # "verified"
  PROVE  Whole(run, Append(l, b), b.result, status)
<1> DEFINE one == Append(l, b)
<1>1. PICK first \in DOMAIN l : OwnReceipts(run, l, first) /\ l[first].kind = "started"
  BY DEF Begun
<1>2. /\ Len(l) \in Nat /\ Len(l) \in 1..Len(l) /\ Len(one) = Len(l) + 1 /\ one[Len(l) + 1] = b
      /\ one[Len(l)] = l[Len(l)] /\ Len(one) - 1 = Len(l)
  BY <1>1
<1>3. /\ OwnReceipts(run, one, first) /\ one[first].kind = "started" /\ first \in 1..(Len(one) - 1)
  BY <1>1, BegunMore
<1> HIDE DEF one
<1>4. Last(one) = b /\ one[Len(one) - 1] = Last(l)
  BY <1>2 DEF Last
<1>5. Whole(run, one, b.result, status)
  BY <1>3, <1>4 DEF Whole
<1>6. QED
  BY <1>5 DEF one

\* Every step leaves the receipts of a run together, from its start on.
LEMMA RecordingStep ==
  ASSUME TypeOK, Shapes, Compiling, Trying, Recording, Next, TypeOK'
  PROVE  Recording'
<1>0. /\ runs \in Nat /\ ledger \in Seq(Receipts)
      /\ \A i \in DOMAIN ledger : ledger[i].run \in 1..runs
  BY BoundsAssumption DEF TypeOK, Shapes
<1>a. ASSUME job'.stage = "idle" PROVE Recording'
  BY <1>a DEF Recording, AuthoringStages, LoopStages
<1>b. ASSUME job.stage # "idle", runs' = runs PROVE runs' >= 1
  BY <1>b DEF Recording
<1>c. ASSUME job'.stage = "bundle", runs' = runs, job.stage # "idle", job'.at >= 1,
             Whole(runs, ledger', job'.loop, VerificationStatus')
      PROVE  Recording'
  BY <1>b, <1>c DEF Recording, AuthoringStages, LoopStages
<1>d. ASSUME job'.stage \in LoopStages, runs' = runs, job.stage # "idle", Begun(runs, ledger'),
             job'.stage = "attempt" => ~TestPassed(Last(ledger'))
      PROVE  Recording'
  BY <1>b, <1>d DEF Recording, AuthoringStages, LoopStages
<1>e. ASSUME NEW kind \in Entries, NEW result \in Results
      PROVE  /\ Receipt(kind, result) \in Receipts /\ Receipt(kind, result).run = runs
             /\ Receipt(kind, result).kind = kind /\ Receipt(kind, result).result = result
             /\ Append(ledger, Receipt(kind, result)) \in Seq(Receipts)
             /\ Last(Append(ledger, Receipt(kind, result))) = Receipt(kind, result)
  <2>1. /\ Receipt(kind, result) \in Receipts /\ Receipt(kind, result).run = runs
        /\ Receipt(kind, result).kind = kind /\ Receipt(kind, result).result = result
    BY ReceiptType
  <2>2. QED
    BY <1>0, <2>1 DEF Last
<1>1. ASSUME NEW r \in Requests, Submit(r) PROVE Recording'
  <2>1. /\ runs' = runs + 1 /\ job'.stage = IF r.authored THEN "context" ELSE "attempt"
        /\ ledger' = IF r.authored THEN ledger
                     ELSE Append(ledger, [Receipt("started", "running") EXCEPT !.run = runs + 1])
    BY <1>1, SubmitFields DEF Submit
  <2>2. \A i \in DOMAIN ledger : ledger[i].run # runs + 1
    BY <1>0
  <2>3. CASE r.authored
    BY <1>0, <2>1, <2>2, <2>3 DEF Recording, AuthoringStages, LoopStages
  <2>4. CASE ~r.authored
    <3> DEFINE a == [Receipt("started", "running") EXCEPT !.run = runs + 1]
    <3>1. a \in Receipts /\ a.run = runs + 1 /\ a.kind = "started"
      BY <1>0 DEF Receipt, Receipts, Entries, Results, Loops
    <3> HIDE DEF a
    <3>2. Begun(runs + 1, Append(ledger, a))
      BY <1>0, <2>2, <3>1, BegunFirst
    <3>3. Last(Append(ledger, a)) = a
      BY <1>0, <3>1 DEF Last
    <3>4. ledger' = Append(ledger, a) /\ job'.stage = "attempt"
      BY <2>1, <2>4 DEF a
    <3>5. QED
      BY <1>0, <2>1, <3>1, <3>2, <3>3, <3>4 DEF Recording, AuthoringStages, LoopStages, TestPassed
  <2>5. QED
    BY <2>3, <2>4
<1>2. CASE CollectContext \/ ParseProposals \/ CompileProposal \/ DecideNone
  <2>1. job.stage \in AuthoringStages /\ job'.stage \in {"idle", "parse", "compile"}
    BY <1>2, CollectFields, ParseFields, CompileFields, CompileCases, NoneFields DEF AuthoringStages
  <2>2. ledger' = ledger /\ runs' = runs
    BY <1>2 DEF CollectContext, ParseProposals, CompileProposal, DecideNone, Authoring
  <2>3. QED
    BY <2>1, <2>2 DEF Recording, AuthoringStages, LoopStages
<1>3. CASE DecideAuthored
  <2> DEFINE a == Receipt("started", "running")
  <2>1. /\ job.stage = "compile" /\ runs' = runs
        /\ \/ job'.stage = "attempt" /\ ledger' = Append(ledger, a)
           \/ job'.stage = "idle"
    BY <1>3, AuthoredFields
  <2>2. "started" \in Entries /\ "running" \in Results
    BY DEF Entries, Results, Loops
  <2>3. a \in Receipts /\ a.run = runs /\ a.kind = "started" /\ Last(Append(ledger, a)) = a
    BY <1>e, <2>2
  <2> HIDE DEF a
  <2>4. \A i \in DOMAIN ledger : ledger[i].run # runs
    BY <2>1 DEF Recording, AuthoringStages
  <2>5. Begun(runs, Append(ledger, a))
    BY <1>0, <2>3, <2>4, BegunFirst
  <2>6. ~TestPassed(a)
    BY <2>3 DEF TestPassed
  <2>7. QED
    BY <1>a, <1>d, <2>1, <2>3, <2>5, <2>6 DEF LoopStages
<1>4. CASE StartAttempt \/ PersistPatchReport
  <2>1. PICK kind \in Entries, result \in Results :
          /\ job.stage \in LoopStages /\ runs' = runs /\ job'.stage \in {"apply", "test"}
          /\ ledger' = Append(ledger, Receipt(kind, result))
    BY <1>4, StartFields, PersistFields
       DEF Looping, LoopStages, Entries, Results, Loops, PatchResults
  <2>2. Begun(runs, ledger)
    BY <2>1 DEF Recording
  <2>3. Begun(runs, ledger')
    BY <1>0, <1>e, <2>1, <2>2, BegunOne
  <2>4. QED
    BY <1>d, <2>1, <2>3 DEF LoopStages
<1>5. CASE CompareChange \/ WriteChange
  <2>1. /\ job.stage \in {"apply", "write"} /\ job'.stage \in {"apply", "write"}
        /\ runs' = runs /\ ledger' = ledger
    BY <1>5, CompareStands, ChangeFields DEF Looping
  <2>2. QED
    BY <1>d, <2>1 DEF LoopStages, Recording
<1>6. CASE RefuseChange \/ PatchToolFails \/ WriteFails
  <2>1. PICK result \in PatchResults :
          /\ job.stage \in {"apply", "write"} /\ runs' = runs /\ job'.loop \in {"blocked", "failed"}
          /\ job'.stage = "bundle" /\ job'.at = 1
          /\ ledger' = ledger \o <<Receipt("patch", result), Receipt("terminated", job'.loop)>>
    BY <1>6, UnappliedFields DEF Unapplied, Looping
  <2> DEFINE a == Receipt("patch", result)
  <2>2. result \in Results /\ job'.loop \in Results /\ {"patch", "terminated"} \subseteq Entries
    BY <2>1 DEF Results, Loops, Entries
  <2>3. a \in Receipts /\ a.run = runs /\ a.kind = "patch"
    BY <1>e, <2>2
  <2>4. PICK b \in Receipts : /\ b = Receipt("terminated", job'.loop)
                              /\ b.run = runs /\ b.kind = "terminated" /\ b.result = job'.loop
    BY <1>e, <2>2
  <2> HIDE DEF a
  <2>5. ~TestPassed(a)
    BY <2>3 DEF TestPassed
  <2>6. VerificationStatus' # "verified"
    BY <2>1 DEF VerificationStatus
  <2>7. Begun(runs, ledger)
    BY <2>1 DEF Recording, LoopStages
  <2> DEFINE status == VerificationStatus'
  <2>8. status = "verified" <=> TestPassed(a)
    BY <2>5, <2>6
  <2> HIDE DEF status
  <2>9. Whole(runs, ledger \o <<a, b>>, b.result, status)
    BY <1>0, <2>3, <2>4, <2>7, <2>8, WholeTwo
  <2>10. QED
    BY <1>c, <2>1, <2>4, <2>9 DEF a, status
<1>7. ASSUME NEW result \in TestResults, RunTests(result) PROVE Recording'
  <2> DEFINE a == Receipt("test", result)
             loop == LoopAfter(result)
  <2>1. /\ job.stage = "test" /\ runs' = runs /\ job'.tests = Append(job.tests, result)
        /\ \/ /\ loop = "running" /\ job'.stage = "attempt"
              /\ ledger' = Append(ledger, a)
           \/ /\ job'.stage = "bundle" /\ job'.at = 1 /\ job'.loop = loop
              /\ ledger' = ledger \o <<a, Receipt("terminated", loop)>>
    BY <1>7, TestFields DEF Looping
  <2>2. result \in Results /\ loop \in Results /\ {"test", "terminated"} \subseteq Entries
    BY DEF Results, Loops, LoopAfter, Entries
  <2>3. /\ a \in Receipts /\ a.run = runs /\ a.kind = "test" /\ a.result = result
        /\ Last(Append(ledger, a)) = a
    BY <1>e, <2>2
  <2>4. Begun(runs, ledger)
    BY <2>1 DEF Recording, LoopStages
  <2>5. loop = "succeeded" <=> result = "passed"
    BY DEF LoopAfter, TestResults
  <2> HIDE DEF a
  <2>6. CASE loop = "running" /\ job'.stage = "attempt" /\ ledger' = Append(ledger, a)
    <3>1. Begun(runs, Append(ledger, a))
      BY <1>0, <2>3, <2>4, BegunOne
    <3>2. result # "passed"
      BY <2>5, <2>6
    <3>3. ~TestPassed(a)
      BY <2>3, <3>2 DEF TestPassed
    <3>4. QED
      BY <1>d, <2>1, <2>3, <2>6, <3>1, <3>3 DEF LoopStages
  <2>7. CASE /\ job'.stage = "bundle" /\ job'.at = 1 /\ job'.loop = loop
             /\ ledger' = ledger \o <<a, Receipt("terminated", loop)>>
    <3>1. PICK b \in Receipts : /\ b = Receipt("terminated", loop)
                                /\ b.run = runs /\ b.kind = "terminated" /\ b.result = loop
      BY <1>e, <2>2
    <3>2. job'.tests # <<>> /\ Last(job'.tests) = result
      <4>1. job.tests \in Seq(TestResults)
        BY DEF TypeOK, Jobs
      <4>2. QED
        BY <2>1, <4>1 DEF Last
    <3>3. (VerificationStatus = "verified") ' <=> result = "passed"
      <4>1. /\ VerificationStatus' = "verified" => job'.loop = "succeeded" /\ Last(job'.tests) = "passed"
            /\ job'.loop = "succeeded" /\ job'.tests # <<>> /\ Last(job'.tests) = "passed"
                 => VerificationStatus' = "verified"
        BY DEF VerificationStatus
      <4>2. QED
        BY <2>5, <2>7, <3>2, <4>1
    <3> DEFINE status == VerificationStatus'
    <3>4. status = "verified" <=> TestPassed(a)
      BY <2>3, <3>3 DEF TestPassed
    <3> HIDE DEF status
    <3>5. Whole(runs, ledger \o <<a, b>>, b.result, status)
      BY <1>0, <2>3, <2>4, <3>1, <3>4, WholeTwo
    <3>6. QED
      BY <1>c, <2>1, <2>7, <3>1, <3>5 DEF status
  <2>8. QED
    BY <2>1, <2>6, <2>7
<1>8. CASE StopWithoutPatches
  <2>1. /\ job.stage = "attempt" /\ runs' = runs
        /\ job'.stage = "bundle" /\ job'.at = 1 /\ job'.loop = "failed"
        /\ ledger' = Append(ledger, Receipt("terminated", "failed"))
    BY <1>8, StopFields DEF Looping
  <2>2. "failed" \in Results /\ "terminated" \in Entries
    BY DEF Results, Loops, Entries
  <2>3. PICK b \in Receipts : /\ b = Receipt("terminated", "failed")
                              /\ b.run = runs /\ b.kind = "terminated" /\ b.result = "failed"
    BY <1>e, <2>2
  <2>4. VerificationStatus' # "verified"
    BY <2>1 DEF VerificationStatus
  <2>5. Begun(runs, ledger) /\ ~TestPassed(Last(ledger))
    BY <2>1 DEF Recording, LoopStages
  <2> DEFINE status == VerificationStatus'
  <2>6. status # "verified"
    BY <2>4
  <2> HIDE DEF status
  <2>7. Whole(runs, Append(ledger, b), b.result, status)
    BY <1>0, <2>3, <2>5, <2>6, WholeOne
  <2>8. QED
    BY <1>c, <2>1, <2>3, <2>7 DEF status
<1>9. CASE WriteArtifact
  <2>1. /\ job.stage = "bundle" /\ AuthoringStands /\ LoopStands
        /\ job'.stage = "bundle" /\ job'.at = job.at + 1 /\ ledger' = ledger /\ runs' = runs
    BY <1>9, WriteFields
  <2>2. job.at >= 1 /\ job.at \in Nat /\ Whole(runs, ledger, job.loop, VerificationStatus)
    BY <2>1 DEF Recording, TypeOK, Jobs
  <2>3. VerificationStatus' = VerificationStatus
    BY <2>1 DEF VerificationStatus, LoopStands
  <2>4. QED
    BY <1>c, <2>1, <2>2, <2>3 DEF LoopStands
<1>10. CASE PersistManifest \/ Raise \/ Crash
  BY <1>10, <1>a, EndFields
<1>11. CASE Others
  BY <1>11 DEF Others, Recording, VerificationStatus
<1>12. MoveMarker \/ (\E f \in Files, text \in TheirTexts : Edit(f, text)) => Others
  BY DEF MoveMarker, Edit
<1>13. QED
  BY <1>1, <1>2, <1>3, <1>4, <1>5, <1>6, <1>7, <1>8, <1>9, <1>10, <1>11, <1>12 DEF Next

\* The kinds of artifact.
LEMMA KindsAre ==
  /\ ToSet(Kinds) = {"report", "operator_summary", "verification", "tool_receipts",
                     "repair_receipts", "trace"}
  BY DEF Kinds, ToSet

\* A manifest is only ever written of a run that is whole.
LEMMA TellingStep ==
  ASSUME TypeOK, Recording, Telling, Next
  PROVE  Telling'
<1>1. CASE manifest' = manifest
  BY <1>1 DEF Telling
<1>2. CASE PersistManifest
  <2>1. job.stage = "bundle" /\ manifest' = [k \in ToSet(Kinds) |-> Artifact(k)]
    BY <1>2 DEF PersistManifest
  <2>2. Whole(runs, ledger, job.loop, VerificationStatus)
    BY <2>1 DEF Recording
  <2>3. \A k \in ToSet(Kinds) : manifest'[k] = Artifact(k)
    BY <2>1
  <2>4. \A k : Artifact(k).run = runs
    BY DEF Artifact
  <2>5. /\ manifest'["report"].body[1] = job.loop
        /\ manifest'["verification"].body[1] = VerificationStatus
        /\ manifest'["repair_receipts"].body = ledger
        /\ manifest'["report"].run = runs
    BY <2>3, <2>4, KindsAre DEF Artifact
  <2>6. \A k \in ToSet(Kinds) : manifest'[k].run = manifest'["report"].run
    BY <2>3, <2>4, <2>5
  <2>7. QED
    BY <2>2, <2>5, <2>6 DEF Telling
<1>3. Next /\ ~PersistManifest => manifest' = manifest
  BY DEF Next, Submit, CollectContext, ParseProposals, CompileProposal, DecideNone, DecideAuthored,
         Authoring, StartAttempt, CompareChange, WriteChange, RefuseChange, PatchToolFails, WriteFails,
         PersistPatchReport, RunTests, StopWithoutPatches, Looping, WriteArtifact, Raise, Crash, Edit, MoveMarker, Others
<1>4. QED
  BY <1>1, <1>2, <1>3

-----------------------------------------------------------------------------
(***************************************************************************)
(* The theorems.                                                           *)
(***************************************************************************)
\* Before the first run nothing has been tried, written or recorded.
LEMMA InitTyped == Init => TypeOK /\ Shapes
<1> SUFFICES ASSUME Init PROVE TypeOK /\ Shapes
  OBVIOUS
<1>1. PICK r \in Requests : job = Job(r, "idle")
  BY DEF Init
<1>2. "idle" \in Stages
  BY DEF Stages
<1>3. /\ job \in Jobs /\ job.request = r /\ job.candidates = <<>> /\ job.tests = <<>>
      /\ job.outcomes = [i \in DOMAIN Responses(r) |-> "open"]
  BY <1>1, <1>2, JobFields
<1>4. /\ DOMAIN job.outcomes = DOMAIN Responses(r) /\ Len(job.outcomes) = Len(Responses(r))
      /\ Len(Responses(r)) <= MaxResponses
  <2>1. Responses(r) \in Seq(Proposals) /\ Len(Responses(r)) <= MaxResponses
    BY ResponsesType
  <2>2. DOMAIN Responses(r) = 1..Len(Responses(r)) /\ Len(Responses(r)) \in Nat
    BY <2>1
  <2> DEFINE n == Len(Responses(r))
  <2>3. job.outcomes = [i \in 1..n |-> "open"]
    BY <1>3, <2>2
  <2>4. n \in Nat
    BY <2>2
  <2> HIDE DEF n
  <2>5. DOMAIN job.outcomes = 1..n /\ Len(job.outcomes) = n
    BY <2>3, <2>4
  <2>6. QED
    BY <2>1, <2>2, <2>5 DEF n
<1>5. TypedJob
  BY <1>3, <1>4, BoundsAssumption DEF TypedJob
<1>6. TypedWorkspace
  <2>1. files \in [Files -> Contents]
    BY FilesAssumption DEF Init
  <2>2. written \in Seq([change : Changes, text : Contents]) /\ torn = {}
    BY DEF Init
  <2>3. tested.files = files /\ tested.edited = {}
    BY DEF Init
  <2>4. QED
    BY <2>1, <2>2, <2>3, BoundsAssumption DEF Init, TypedWorkspace
<1>7. TypedRecords
  <2>1. ledger = <<>> /\ bundle = [k \in ToSet(Kinds) |-> NoArtifact] /\ runs = 0
    BY DEF Init
  <2>2. \A k \in ToSet(Kinds) : bundle[k].run = 0
    BY <2>1 DEF NoArtifact
  <2>3. bundle = [k \in ToSet(Kinds) |-> bundle[k]]
    BY <2>1
  <2>4. ledger \in Seq(Receipts) /\ DOMAIN ledger = {}
    BY <2>1
  <2>5. QED
    BY <2>1, <2>2, <2>3, <2>4 DEF TypedRecords
<1>8. QED
  BY <1>5, <1>6, <1>7, TypeParts

\* The invariant holds before the first run.
LEMMA InitCorrect == Init => TypeOK /\ RepairInvariant
<1> SUFFICES ASSUME Init PROVE TypeOK /\ RepairInvariant
  OBVIOUS
<1>1. TypeOK /\ Shapes
  BY InitTyped
<1>2. PICK r \in Requests : job = Job(r, "idle")
  BY DEF Init
<1>3. /\ job.stage = "idle" /\ job.status = "none" /\ job.attempt = 0 /\ job.loop = "running"
      /\ job.tests = <<>>
  BY <1>2 DEF Job
<1>4. files = theirs /\ written = <<>> /\ ledger = <<>> /\ manifest = NoManifest
  BY DEF Init
<1>5. Compiling /\ EveryResponseIsAccounted /\ Recording /\ Telling
  BY <1>3, <1>4 DEF Compiling, EveryResponseIsAccounted, Recording, Telling, AuthoringStages, LoopStages
<1>6. Reviewing
  BY <1>3, <1>4 DEF Reviewing, ReviewedFilesUntouched, LoopStages
<1>7. Trying
  BY <1>3, BoundsAssumption DEF Trying, AuthoringStages, LoopStages
<1>8. VerifiedMeansTested
  BY <1>3 DEF VerifiedMeansTested
<1>9. Keeping
  <2>1. Reached \in 0..Len(Attempted) /\ Attempted \in Seq(Changes)
    BY <1>1, <1>7, ReachedFacts
  <2>2. ASSUME NEW f \in Files
        PROVE  files[f] \in MadeOf(f, {theirs[f]}, SubSeq(Attempted, 1, Reached))
    <3>1. {theirs[f]} \in SUBSET Contents
      BY <1>1 DEF TypeOK
    <3>2. {theirs[f]} \subseteq MadeOf(f, {theirs[f]}, SubSeq(Attempted, 1, Reached))
      BY <2>1, <3>1, MadeOfGrows
    <3>3. QED
      BY <1>4, <3>2
  <2>3. LastWrites = {}
    BY <1>4 DEF LastWrites
  <2>4. QED
    BY <1>3, <2>2, <2>3 DEF Keeping
<1>10. QED
  BY <1>1, <1>5, <1>6, <1>7, <1>8, <1>9 DEF RepairInvariant

\* A step of nobody.
LEMMA NothingHappens ==
  TypeOK /\ RepairInvariant /\ UNCHANGED vars => TypeOK' /\ RepairInvariant'
<1> SUFFICES ASSUME TypeOK, RepairInvariant, UNCHANGED vars PROVE TypeOK' /\ RepairInvariant'
  OBVIOUS
<1>1. UNCHANGED <<files, marker, theirs, edited, torn, edits>>
      /\ UNCHANGED <<job, ledger, bundle, manifest, written, tested, runs>>
  BY DEF vars, workspace
<1>2. TypeOK' /\ Shapes'
  BY <1>1 DEF TypeOK, RepairInvariant, Shapes
<1>3. /\ Attempted' = Attempted /\ patch' = patch /\ target' = target
      /\ VerificationStatus' = VerificationStatus
  BY <1>1 DEF Attempted, patch, target, VerificationStatus
<1>4. Reached' = Reached /\ LastWrites' = LastWrites
  BY <1>1, <1>3 DEF Reached, LastWrites, WrittenTo
<1>5. Compiling' /\ EveryResponseIsAccounted'
  BY <1>1 DEF RepairInvariant, Compiling, EveryResponseIsAccounted
<1>6. Reviewing'
  BY <1>1 DEF RepairInvariant, Reviewing, ReviewedFilesUntouched
<1>7. Trying'
  BY <1>1, <1>3, <1>4 DEF RepairInvariant, Trying
<1>8. Keeping'
  BY <1>1, <1>3, <1>4 DEF RepairInvariant, Keeping, WrittenTo
<1>9. Recording'
  BY <1>1, <1>3 DEF RepairInvariant, Recording
<1>10. Telling'
  BY <1>1 DEF RepairInvariant, Telling
<1>11. VerifiedMeansTested'
  BY <1>1, <1>3, <1>4 DEF RepairInvariant, VerifiedMeansTested, WrittenTo
<1>12. QED
  BY <1>2, <1>5, <1>6, <1>7, <1>8, <1>9, <1>10, <1>11 DEF RepairInvariant

\* A step of a run, or of others.
LEMMA SomethingHappens ==
  TypeOK /\ RepairInvariant /\ Next => TypeOK' /\ RepairInvariant'
<1> SUFFICES ASSUME TypeOK, RepairInvariant, Next PROVE TypeOK' /\ RepairInvariant'
  OBVIOUS
<1>1. /\ Shapes /\ Compiling /\ Reviewing /\ Trying /\ Keeping /\ Recording /\ Telling
      /\ EveryResponseIsAccounted /\ VerifiedMeansTested
  BY DEF RepairInvariant
<1>2. TypeOK' /\ Shapes'
  BY <1>1, JobTyped, WorkspaceTyped, RecordsTyped, TypePartsNext
<1>3. Compiling' /\ EveryResponseIsAccounted' /\ Reviewing'
  BY <1>1, <1>2, CompilingStep, AccountedStep, ReviewingStep
<1>4. Trying'
  BY <1>1, <1>2, TryingStep
<1>5. Keeping' /\ VerifiedMeansTested'
  BY <1>1, <1>2, <1>4, KeepingStep, VerifiedStep
<1>6. Recording' /\ Telling'
  BY <1>1, <1>2, RecordingStep, TellingStep
<1>7. QED
  BY <1>2, <1>3, <1>4, <1>5, <1>6 DEF RepairInvariant

\* runtime/control_plane.py: the type invariant and the inductive invariant of
\* the repair runs, whatever they are asked to do, however many there are, and
\* whatever others do to the workspace meanwhile.
THEOREM RepairCorrect == Spec => [](TypeOK /\ RepairInvariant)
<1>1. Init => TypeOK /\ RepairInvariant
  BY InitCorrect
<1>2. TypeOK /\ RepairInvariant /\ [Next]_vars => TypeOK' /\ RepairInvariant'
  BY NothingHappens, SomethingHappens
<1>3. QED
  BY <1>1, <1>2, PTL DEF Spec

\* The variables keep their types: in particular no run has more tests than
\* RepairLoopConfig.max_attempts, and none more candidates than the limit on raw
\* proposals.
THEOREM TypeCorrect == Spec => []TypeOK
  BY RepairCorrect, PTL

\* AuthoringPolicyGate and RepairCandidateRanker: an authored run writes no file
\* that wants a review or is refused.
THEOREM ReviewedFilesKept == Spec => []ReviewedFilesUntouched
<1>1. RepairInvariant => ReviewedFilesUntouched
  BY DEF RepairInvariant, Reviewing
<1>2. QED
  BY <1>1, RepairCorrect, PTL

\* PatchApplyTool: a file holds what others left there, or what the patches tried
\* so far, in their order, make of it; but for the files that others wrote between
\* a comparison and the write after it, and those whose write was cut short.
THEOREM EditsKept == Spec => []NoLostEdit
<1>1. TypeOK /\ RepairInvariant => NoLostEdit
  <2> SUFFICES ASSUME TypeOK, RepairInvariant, NEW f \in Files \ torn
               PROVE  files[f] \in MadeOf(f, {theirs[f]}, Attempted)
    BY DEF NoLostEdit
  <2>1. Trying /\ files[f] \in MadeOf(f, {theirs[f]}, SubSeq(Attempted, 1, Reached))
    BY DEF RepairInvariant, Keeping
  <2>2. Reached \in 0..Len(Attempted) /\ Attempted \in Seq(Changes) /\ Len(Attempted) \in Nat
    BY <2>1, ReachedFacts
  <2>3. {theirs[f]} \in SUBSET Contents /\ Len(Attempted) \in 0..Len(Attempted)
    BY <2>2 DEF TypeOK
  <2>4. MadeOf(f, {theirs[f]}, SubSeq(Attempted, 1, Reached))
          \subseteq MadeOf(f, {theirs[f]}, SubSeq(Attempted, 1, Len(Attempted)))
    BY <2>2, <2>3, MadeOfGrows
  <2>5. SubSeq(Attempted, 1, Len(Attempted)) = Attempted
    BY <2>2, SubSeqFull
  <2>6. QED
    BY <2>1, <2>4, <2>5
<1>2. QED
  BY <1>1, RepairCorrect, PTL

\* ProgrammingRepairRuntime.run and verification_summary: what is verified was
\* tested as it stands.
THEOREM VerifiedTested == Spec => []VerifiedMeansTested
<1>1. RepairInvariant => VerifiedMeansTested
  BY DEF RepairInvariant
<1>2. QED
  BY <1>1, RepairCorrect, PTL

\* RunBundleWriter: a manifest that agrees with the artifacts beside it tells of
\* one run, and its verdict is the one the receipts of that run end with.
THEOREM BundlesTellOneRun == Spec => []BundleTellsOneRun
<1>1. RepairInvariant => BundleTellsOneRun
  <2> SUFFICES ASSUME Telling, manifest # NoManifest, manifest = bundle PROVE BundleTellsOneRun
    BY DEF RepairInvariant, BundleTellsOneRun
  <2>1. /\ \A k \in ToSet(Kinds) : bundle[k].run = bundle["report"].run
        /\ Whole(bundle["report"].run, bundle["repair_receipts"].body, bundle["report"].body[1],
                 bundle["verification"].body[1])
    BY DEF Telling
  <2>2. QED
    BY <2>1 DEF BundleTellsOneRun, Whole, TestPassed
<1>2. QED
  BY <1>1, RepairCorrect, PTL

\* AuthoredRepairRuntime._report: every response read is on record as rejected,
\* but the one that was selected.
THEOREM ResponsesAccounted == Spec => []EveryResponseIsAccounted
<1>1. RepairInvariant => EveryResponseIsAccounted
  BY DEF RepairInvariant
<1>2. QED
  BY <1>1, RepairCorrect, PTL
=============================================================================
