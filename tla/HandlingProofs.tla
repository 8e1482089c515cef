---------------------------- MODULE HandlingProofs ----------------------------
(***************************************************************************)
(* Proofs about the routers, the filters and the workers that use them,    *)
(* for any tree of routers, filters, handlers and events.                  *)
(*                                                                         *)
(* Collect, HasSoftEventHandlers, Evaluate and RegexesOf are recursive     *)
(* functions.  The first part gives induction and recursion over the       *)
(* naturals in terms of sets and functions; the second says what Collect   *)
(* and HasSoftEventHandlers find (CollectFinds, SoftFinds), from the       *)
(* layers of routers at each distance above a router; the third what       *)
(* filters evaluate to (EvaluateComputes, MatchIsOwn).  Then come the      *)
(* program's statements (RouterInvKept), one worker (WorkerInv), and the   *)
(* whole (HandlingInv), from which the theorems follow.                    *)
(***************************************************************************)
EXTENDS Handling, FiniteSetTheorems, SequenceTheorems, TLAPS

-----------------------------------------------------------------------------
(* Induction and recursion over the naturals, in a form that speaks of     *)
(* sets and functions only.                                                *)

(* A set of naturals with 0 and the successors of its members has them     *)
(* all: the interval up to a least missing one would be minimal among      *)
(* those, but the one below it is missing as well.                         *)
LEMMA Induction ==
  ASSUME NEW S \in SUBSET Nat, 0 \in S, \A n \in S : n + 1 \in S
  PROVE  S = Nat
<1> SUFFICES ASSUME NEW n \in Nat, n \notin S PROVE FALSE
  OBVIOUS
<1> DEFINE T == {0..m : m \in (0..n) \ S}
<1>1. PICK D \in T : \A E \in T : <<E, D>> \notin StrictSubsetOrdering(0..n)
  <2>1. IsWellFoundedOn(StrictSubsetOrdering(0..n), FiniteSubsetsOf(0..n))
    BY FS_StrictSubsetOrderingWellFounded
  <2>2. T \subseteq FiniteSubsetsOf(0..n)
    <3> SUFFICES ASSUME NEW m \in (0..n) \ S PROVE 0..m \in FiniteSubsetsOf(0..n)
      OBVIOUS
    <3>1. IsFiniteSet(0..m)
      BY FS_Interval
    <3>2. 0..m \subseteq 0..n
      OBVIOUS
    <3> QED BY <3>1, <3>2 DEF FiniteSubsetsOf
  <2>3. T # {}
    OBVIOUS
  <2> HIDE DEF T
  <2> QED BY <2>1, <2>2, <2>3, WFMin
<1>2. PICK m \in (0..n) \ S : D = 0..m
  BY <1>1
<1>3. m - 1 \in (0..n) \ S
  OBVIOUS
<1>4. 0..(m - 1) \subseteq 0..m /\ m \in 0..m /\ m \notin 0..(m - 1)
  BY <1>3
<1>5. 0..(m - 1) \in T
  BY <1>3
<1>6. D \in SUBSET (0..n) /\ 0..(m - 1) \in SUBSET (0..n)
  BY <1>2, <1>3
<1>7. <<0..(m - 1), D>> \in StrictSubsetOrdering(0..n)
  <2> DEFINE A == 0..(m - 1)
  <2>1. A \in SUBSET (0..n) /\ D \in SUBSET (0..n) /\ A \subseteq D /\ A # D
    BY <1>2, <1>4, <1>6
  <2> HIDE DEF A
  <2>2. <<A, D>> \in StrictSubsetOrdering(0..n)
    BY <2>1 DEF StrictSubsetOrdering
  <2> QED BY <2>2 DEF A
<1> QED BY <1>1, <1>5, <1>7

(* The same up to a bound. *)
LEMMA InductionUpTo ==
  ASSUME NEW N \in Nat, NEW S, 0 \in S,
         \A n \in 0..N : n \in S /\ n < N => n + 1 \in S
  PROVE  0..N \subseteq S
<1> DEFINE T == {n \in Nat : n <= N => n \in S}
<1>1. 0 \in T
  OBVIOUS
<1>2. ASSUME NEW n \in T PROVE n + 1 \in T
  OBVIOUS
<1>3. T = Nat
  <2>1. T \in SUBSET Nat
    OBVIOUS
  <2> HIDE DEF T
  <2> QED BY <1>1, <1>2, <2>1, Induction
<1> QED BY <1>3

(* f begins with a and goes on by the step of each number.                 *)
Iterates(f, a, step, N) ==
  \A n \in 0..N : f[n] = IF n = 0 THEN a ELSE step[n][f[n - 1]]

(* There is such a function, as far as one likes.                          *)
LEMMA Recursion ==
  ASSUME NEW A, NEW a \in A, NEW step \in [Nat -> [A -> A]], NEW N \in Nat
  PROVE  \E f \in [0..N -> A] : Iterates(f, a, step, N)
<1> DEFINE P(n, f) == \A k \in 0..n : f[k] = IF k = 0 THEN a ELSE step[k][f[k - 1]]
           S == {n \in Nat : \E f \in [0..n -> A] : P(n, f)}
<1>1. 0 \in S
  <2> DEFINE f == [k \in 0..0 |-> a]
  <2>1. f \in [0..0 -> A] /\ P(0, f)
    OBVIOUS
  <2> QED BY <2>1
<1>2. ASSUME NEW n \in S PROVE n + 1 \in S
  <2>1. PICK f \in [0..n -> A] : P(n, f)
    OBVIOUS
  <2> DEFINE g == [k \in 0..(n + 1) |-> IF k = n + 1 THEN step[k][f[n]] ELSE f[k]]
  <2>2. g \in [0..(n + 1) -> A]
    OBVIOUS
  <2>3. ASSUME NEW k \in 0..(n + 1)
        PROVE  g[k] = IF k = 0 THEN a ELSE step[k][g[k - 1]]
    <3>1. \A i \in 0..n : f[i] = IF i = 0 THEN a ELSE step[i][f[i - 1]]
      BY <2>1
    <3>2. CASE k = n + 1
      BY <3>2
    <3>3. CASE k \in 0..n
      BY <3>1, <3>3
    <3> QED BY <3>2, <3>3
  <2>4. P(n + 1, g)
    BY <2>2, <2>3
  <2>5. n + 1 \in Nat
    OBVIOUS
  <2>6. \E h \in [0..(n + 1) -> A] : P(n + 1, h)
    <3> HIDE DEF P, g
    <3> QED BY <2>2, <2>4
  <2> HIDE DEF P
  <2> QED BY <2>5, <2>6
<1>3. S = Nat
  <2>1. S \in SUBSET Nat
    OBVIOUS
  <2> HIDE DEF S
  <2> QED BY <1>1, <1>2, <2>1, Induction
<1> QED BY <1>3 DEF Iterates

(* Appending a sub-router adds it to the sub-routers, and nothing else. *)
LEMMA RangeOfAppend ==
  ASSUME NEW S, NEW q \in Seq(S), NEW e \in S
  PROVE  /\ Append(q, e) \in Seq(S)
         /\ Range(Append(q, e)) = Range(q) \cup {e}
<1>1. /\ Append(q, e) \in Seq(S)
      /\ DOMAIN q = 1..Len(q) /\ Len(q) \in Nat
      /\ DOMAIN Append(q, e) = 1..(Len(q) + 1)
      /\ \A i \in 1..Len(q) : Append(q, e)[i] = q[i]
      /\ Append(q, e)[Len(q) + 1] = e
  OBVIOUS
<1>2. 1..(Len(q) + 1) = (1..Len(q)) \cup {Len(q) + 1}
  BY <1>1
<1>3. Range(Append(q, e)) \subseteq Range(q) \cup {e}
  BY <1>1, <1>2 DEF Range
<1>4. Range(q) \cup {e} \subseteq Range(Append(q, e))
  BY <1>1, <1>2 DEF Range
<1> QED BY <1>1, <1>3, <1>4

(* A concatenation has the elements of both, those of the first first. *)
LEMMA RangeOfConcat ==
  ASSUME NEW S, NEW p \in Seq(S), NEW q \in Seq(S)
  PROVE  /\ p \o q \in Seq(S)
         /\ Range(p \o q) = Range(p) \cup Range(q)
<1>1. /\ p \o q \in Seq(S) /\ Len(p) \in Nat /\ Len(q) \in Nat
      /\ DOMAIN p = 1..Len(p) /\ DOMAIN q = 1..Len(q)
      /\ DOMAIN (p \o q) = 1..(Len(p) + Len(q))
  OBVIOUS
<1>2. \A i \in 1..Len(p) : i \in 1..(Len(p) + Len(q)) /\ (p \o q)[i] = p[i]
  BY <1>1
<1>3. \A i \in 1..Len(q) : /\ Len(p) + i \in 1..(Len(p) + Len(q))
                           /\ (p \o q)[Len(p) + i] = q[i]
  BY <1>1
<1>4. \A i \in 1..(Len(p) + Len(q)) :
         \/ i \in 1..Len(p) /\ (p \o q)[i] = p[i]
         \/ i - Len(p) \in 1..Len(q) /\ (p \o q)[i] = q[i - Len(p)]
  BY <1>1
<1>5. Range(p \o q) \subseteq Range(p) \cup Range(q)
  BY <1>1, <1>4 DEF Range
<1>6. Range(p) \subseteq Range(p \o q)
  BY <1>1, <1>2 DEF Range
<1>7. Range(q) \subseteq Range(p \o q)
  BY <1>1, <1>3 DEF Range
<1> QED BY <1>1, <1>5, <1>6, <1>7

(* A function on 1..n that begins with the first of seqs and appends each  *)
(* of the others.                                                          *)
IsFlattening(f, seqs) ==
  f = [i \in 1..Len(seqs) |-> IF i = 1 THEN seqs[i] ELSE f[i - 1] \o seqs[i]]

Elements(seqs, k) == UNION {Range(seqs[i]) : i \in 1..k}

(* The partial concatenations of a sequence of sequences exist.            *)
LEMMA FlatteningExists ==
  ASSUME NEW S, NEW seqs \in Seq(Seq(S)), seqs # <<>>
  PROVE  \E f : IsFlattening(f, seqs)
<1> DEFINE n == Len(seqs)
           step == [k \in Nat |-> [x \in Seq(S) |->
                      IF k \in 2..n THEN x \o seqs[k] ELSE seqs[1]]]
<1>1. n \in Nat /\ n # 0 /\ \A i \in 1..n : seqs[i] \in Seq(S)
  OBVIOUS
<1>2. step \in [Nat -> [Seq(S) -> Seq(S)]]
  BY <1>1
<1>3. <<>> \in Seq(S)
  OBVIOUS
<1>5. PICK g \in [0..n -> Seq(S)] :
          \A k \in 0..n : g[k] = IF k = 0 THEN <<>> ELSE step[k][g[k - 1]]
  <2> DEFINE A == Seq(S)
  <2>1. step \in [Nat -> [A -> A]] /\ <<>> \in A /\ n \in Nat
    BY <1>1, <1>2, <1>3
  <2>2. \E g \in [0..n -> A] : Iterates(g, <<>>, step, n)
    <3> HIDE DEF step, n, A
    <3> QED BY <2>1, Recursion
  <2> HIDE DEF step, n
  <2> QED BY <2>2 DEF Iterates
<1>6. ASSUME NEW i \in 2..n
      PROVE  g[i] = g[i - 1] \o seqs[i]
  <2>1. i \in 0..n /\ i # 0 /\ i \in Nat /\ i - 1 \in 0..n
    BY <1>1
  <2>2. g[i] = step[i][g[i - 1]]
    <3> HIDE DEF step, n
    <3> QED BY <1>5, <2>1
  <2>3. g[i - 1] \in Seq(S)
    <3> HIDE DEF step, n
    <3> QED BY <1>5, <2>1
  <2> QED BY <2>1, <2>2, <2>3
<1>7. g[1] = seqs[1]
  <2>1. g[1] = step[1][g[0]] /\ g[0] \in Seq(S)
    <3> HIDE DEF step
    <3> QED BY <1>1, <1>5
  <2> QED BY <2>1
<1> DEFINE f == [i \in 1..n |-> g[i]]
<1>8. ASSUME NEW i \in 1..n
      PROVE  f[i] = IF i = 1 THEN seqs[i] ELSE f[i - 1] \o seqs[i]
  <2>1. CASE i = 1
    BY <2>1, <1>1, <1>7
  <2>2. CASE i # 1
    <3>1. i \in 2..n /\ i - 1 \in 1..n
      BY <2>2, <1>1
    <3>2. f[i] = g[i] /\ f[i - 1] = g[i - 1]
      BY <3>1
    <3> HIDE DEF f, n
    <3> QED BY <2>2, <3>1, <3>2, <1>6
  <2> QED BY <2>1, <2>2
<1>9. f = [i \in 1..n |-> IF i = 1 THEN seqs[i] ELSE f[i - 1] \o seqs[i]]
  <2>1. f = [i \in 1..n |-> f[i]]
    OBVIOUS
  <2> HIDE DEF f, n
  <2> QED BY <1>8, <2>1
<1> QED BY <1>9 DEF IsFlattening

(* The last of them has the elements of all.                               *)
LEMMA FlatteningIs ==
  ASSUME NEW S, NEW seqs \in Seq(Seq(S)), seqs # <<>>,
         NEW f, IsFlattening(f, seqs)
  PROVE  /\ f[Len(seqs)] \in Seq(S)
         /\ Range(f[Len(seqs)]) = Elements(seqs, Len(seqs))
<1>1. PICK n \in Nat : n = Len(seqs) /\ n # 0 /\ \A i \in 1..n : seqs[i] \in Seq(S)
  OBVIOUS
<1>2. \A i \in 1..n : f[i] = IF i = 1 THEN seqs[i] ELSE f[i - 1] \o seqs[i]
  BY <1>1 DEF IsFlattening
<1> DEFINE Right(k) == f[k] \in Seq(S) /\ Range(f[k]) = Elements(seqs, k)
           Good == {k \in Nat : k + 1 \in 1..n => Right(k + 1)}
<1>3. Right(1)
  <2>1. Elements(seqs, 1) = Range(seqs[1])
    BY DEF Elements
  <2>2. f[1] = seqs[1] /\ seqs[1] \in Seq(S)
    BY <1>1, <1>2
  <2> QED BY <2>1, <2>2
<1>4. ASSUME NEW k \in 1..n, k + 1 \in 1..n, Right(k)
      PROVE  Right(k + 1)
  <2> HIDE DEF Right, Good
  <2>0. k + 1 # 1 /\ (k + 1) - 1 = k
    OBVIOUS
  <2>1. f[k + 1] = f[k] \o seqs[k + 1] /\ seqs[k + 1] \in Seq(S)
    BY <1>1, <1>2, <1>4, <2>0
  <2>2. 1..(k + 1) = 1..k \cup {k + 1}
    OBVIOUS
  <2>3. Elements(seqs, k + 1) = Elements(seqs, k) \cup Range(seqs[k + 1])
    BY <2>2 DEF Elements
  <2>4. f[k] \in Seq(S) /\ Range(f[k]) = Elements(seqs, k)
    BY <1>4 DEF Right
  <2>5. /\ f[k] \o seqs[k + 1] \in Seq(S)
        /\ Range(f[k] \o seqs[k + 1]) = Range(f[k]) \cup Range(seqs[k + 1])
    BY <2>1, <2>4, RangeOfConcat
  <2> QED BY <2>1, <2>3, <2>4, <2>5 DEF Right
<1>5. 0 \in Good
  BY <1>3
<1>6. ASSUME NEW k \in Good PROVE k + 1 \in Good
  <2> HIDE DEF Right
  <2> SUFFICES ASSUME (k + 1) + 1 \in 1..n PROVE Right((k + 1) + 1)
    OBVIOUS
  <2>1. k + 1 \in 1..n /\ Right(k + 1)
    BY <1>1
  <2> HIDE DEF Good
  <2> QED BY <1>4, <2>1
<1>7. Good = Nat
  <2>1. Good \in SUBSET Nat
    OBVIOUS
  <2> HIDE DEF Good
  <2> QED BY <1>5, <1>6, <2>1, Induction
<1>8. Right(n)
  <2> HIDE DEF Right
  <2>1. n - 1 \in Nat /\ (n - 1) + 1 = n /\ n \in 1..n
    BY <1>1
  <2> QED BY <2>1, <1>7
<1> QED BY <1>1, <1>8

(* FlattenSeq concatenates sequences: the elements are those of each.      *)
LEMMA RangeOfFlatten ==
  ASSUME NEW S, NEW seqs \in Seq(Seq(S))
  PROVE  /\ FlattenSeq(seqs) \in Seq(S)
         /\ Range(FlattenSeq(seqs)) = UNION {Range(seqs[i]) : i \in DOMAIN seqs}
<1>1. DOMAIN seqs = 1..Len(seqs)
  OBVIOUS
<1>2. CASE Len(seqs) = 0
  <2>1. FlattenSeq(seqs) = seqs /\ seqs = <<>>
    BY <1>2 DEF FlattenSeq
  <2>2. Range(seqs) = {} /\ {Range(seqs[i]) : i \in DOMAIN seqs} = {}
    BY <2>1 DEF Range
  <2>3. seqs \in Seq(S)
    BY <2>1
  <2> QED BY <2>1, <2>2, <2>3
<1>3. CASE Len(seqs) # 0
  <2> DEFINE Is(f) == f = [i \in 1..Len(seqs) |-> IF i = 1 THEN seqs[i] ELSE f[i - 1] \o seqs[i]]
             flatten == CHOOSE f : Is(f)
  <2>1. FlattenSeq(seqs) = flatten[Len(seqs)]
    BY <1>3 DEF FlattenSeq
  <2>2. Is(flatten)
    <3>1. seqs # <<>>
      BY <1>3
    <3>2. PICK f : IsFlattening(f, seqs)
      BY <3>1, FlatteningExists
    <3>3. Is(f)
      BY <3>2 DEF IsFlattening
    <3> HIDE DEF Is
    <3> QED BY <3>3
  <2>3. IsFlattening(flatten, seqs)
    BY <2>2 DEF IsFlattening
  <2>4. seqs # <<>>
    BY <1>3
  <2> HIDE DEF flatten
  <2>5. /\ flatten[Len(seqs)] \in Seq(S)
        /\ Range(flatten[Len(seqs)]) = Elements(seqs, Len(seqs))
    BY <2>3, <2>4, FlatteningIs
  <2> QED BY <1>1, <2>1, <2>5 DEF Elements
<1> QED BY <1>2, <1>3

-----------------------------------------------------------------------------
(* What a traversal of the routers finds.                                  *)

N == Cardinality(Routers)

(* There are finitely many routers, and at least the root.                 *)
LEMMA NumberOfRouters == N \in Nat /\ N # 0
<1>1. IsFiniteSet(Routers) /\ Root \in Routers
  BY RouterAssumption
<1> QED BY <1>1, FS_CardinalityType, FS_EmptySet DEF N

(* A traversal meets its start and is closed under sub-routers. *)
LEMMA ReachableIsClosed ==
  ASSUME RouterTypeOK, NEW r \in Routers
  PROVE  /\ r \in Reachable(r)
         /\ ClosedUnderSubs(Reachable(r))
<1>1. r \in Reachable(r)
  BY DEF Reachable
<1>2. ASSUME NEW s \in Reachable(r), NEW t \in Range(subs[s])
      PROVE  t \in Reachable(r)
  <2>1. t \in Routers
    BY <1>2 DEF RouterTypeOK, Range, Reachable
  <2>2. ASSUME NEW S \in SUBSET Routers, r \in S, ClosedUnderSubs(S)
        PROVE  t \in S
    <3>1. s \in S
      BY <1>2, <2>2 DEF Reachable
    <3> QED BY <3>1, <1>2, <2>2 DEF ClosedUnderSubs
  <2> QED BY <2>1, <2>2 DEF Reachable
<1> QED BY <1>1, <1>2 DEF ClosedUnderSubs

(* What is found below a router is what is found for its sub-routers. *)
LEMMA BelowHas ==
  ASSUME RouterTypeOK, NEW S, NEW found \in [Routers -> Seq(S)], NEW s \in Routers
  PROVE  /\ BelowOf(s, found) \in Seq(S)
         /\ \A x : x \in Range(BelowOf(s, found)) <=>
                     \E t \in Range(subs[s]) : x \in Range(found[t])
<1> DEFINE seqs == [i \in DOMAIN subs[s] |-> found[subs[s][i]]]
<1>1. subs[s] \in Seq(Routers)
  BY DEF RouterTypeOK
<1>2. seqs \in Seq(Seq(S)) /\ DOMAIN seqs = DOMAIN subs[s]
  <2> DEFINE A == Seq(S)
  <2>1. found \in [Routers -> A]
    OBVIOUS
  <2> HIDE DEF A
  <2>2. DOMAIN subs[s] = 1..Len(subs[s]) /\ Len(subs[s]) \in Nat
    BY <1>1
  <2>3. \A i \in 1..Len(subs[s]) : found[subs[s][i]] \in A
    BY <1>1, <2>1
  <2>4. seqs \in [1..Len(subs[s]) -> A] /\ DOMAIN seqs = DOMAIN subs[s]
    BY <2>2, <2>3
  <2>5. seqs \in Seq(A)
    <3> DEFINE n == Len(subs[s])
    <3>1. n \in Nat /\ seqs \in [1..n -> A]
      BY <2>2, <2>4
    <3> HIDE DEF seqs, n
    <3>2. Seq(A) = UNION {[1..k -> A] : k \in Nat}
      BY SeqDef
    <3> QED BY <3>1, <3>2
  <2> QED BY <2>4, <2>5 DEF A
<1>3. /\ FlattenSeq(seqs) \in Seq(S)
      /\ Range(FlattenSeq(seqs)) = UNION {Range(seqs[i]) : i \in DOMAIN seqs}
  <2> HIDE DEF seqs
  <2> QED BY <1>2, RangeOfFlatten
<1>4. BelowOf(s, found) = FlattenSeq(seqs)
  BY DEF BelowOf
<1>5. \A i \in DOMAIN seqs : seqs[i] = found[subs[s][i]]
  OBVIOUS
<1>6. \A x : x \in UNION {Range(seqs[i]) : i \in DOMAIN seqs} <=>
              \E t \in Range(subs[s]) : x \in Range(found[t])
  <2> HIDE DEF seqs
  <2>1. ASSUME NEW x, NEW i \in DOMAIN seqs, x \in Range(seqs[i])
        PROVE  \E t \in Range(subs[s]) : x \in Range(found[t])
    <3>1. subs[s][i] \in Range(subs[s]) /\ seqs[i] = found[subs[s][i]]
      BY <1>2, <1>5 DEF Range
    <3> QED BY <2>1, <3>1
  <2>2. ASSUME NEW x, NEW t \in Range(subs[s]), x \in Range(found[t])
        PROVE  \E i \in DOMAIN seqs : x \in Range(seqs[i])
    <3>1. PICK i \in DOMAIN seqs : t = subs[s][i]
      BY <1>2 DEF Range
    <3> QED BY <1>5, <2>2, <3>1
  <2> QED BY <2>1, <2>2
<1> QED BY <1>3, <1>4, <1>6

(* The function that Collect computes with. *)
Collected(c, class) ==
  \A d \in 0..N : c[d] = [s \in Routers |->
     IF d = 0 THEN sets[s][class] ELSE sets[s][class] \o BelowOf(s, c[d - 1])]

(* Collect reads the last of the tables that Collected describes.          *)
LEMMA CollectComputes ==
  ASSUME RouterTypeOK, NEW class \in Event
  PROVE  \E c \in [0..N -> [Routers -> Seq(Handlers)]] :
            /\ Collected(c, class)
            /\ \A r \in Routers : Collect(r, class) = c[N][r]
<1> DEFINE A == [Routers -> Seq(Handlers)]
           Is(f) == f = [depth \in 0..Cardinality(Routers) |->
                           [s \in Routers |->
                              IF depth = 0 THEN sets[s][class]
                              ELSE sets[s][class] \o BelowOf(s, f[depth - 1])]]
           collect == CHOOSE f : Is(f)
           a == [s \in Routers |-> sets[s][class]]
           next(g) == [s \in Routers |-> sets[s][class] \o BelowOf(s, g)]
           step == [n \in Nat |-> [g \in A |-> next(g)]]
<1>1. a \in A
  BY DEF RouterTypeOK
<1>2. \A g \in A : next(g) \in A
  <2> SUFFICES ASSUME NEW g \in A, NEW s \in Routers
               PROVE  sets[s][class] \o BelowOf(s, g) \in Seq(Handlers)
    OBVIOUS
  <2>1. BelowOf(s, g) \in Seq(Handlers)
    BY BelowHas
  <2>2. sets[s][class] \in Seq(Handlers)
    BY DEF RouterTypeOK
  <2> QED BY <2>1, <2>2
<1>3. step \in [Nat -> [A -> A]]
  <2> HIDE DEF A, next
  <2> QED BY <1>2
<1>4. PICK f \in [0..N -> A] : Iterates(f, a, step, N)
  <2> HIDE DEF A, a, step
  <2> QED BY <1>1, <1>3, NumberOfRouters, Recursion
<1>5. ASSUME NEW d \in 0..N
      PROVE  f[d] = IF d = 0 THEN a ELSE next(f[d - 1])
  <2>1. d \in Nat /\ (d = 0 \/ d - 1 \in 0..N)
    BY NumberOfRouters
  <2>2. f[d] = IF d = 0 THEN a ELSE step[d][f[d - 1]]
    <3> HIDE DEF a, step, A
    <3> QED BY <1>4 DEF Iterates
  <2>3. d # 0 => f[d - 1] \in A
    <3> HIDE DEF A
    <3> QED BY <2>1
  <2> HIDE DEF A, a, next
  <2> QED BY <2>1, <2>2, <2>3
<1>6. Is(f)
  <2> DEFINE body(d, g) == [s \in Routers |-> IF d = 0 THEN sets[s][class]
                                           ELSE sets[s][class] \o BelowOf(s, g)]
  <2>1. \A d \in 0..N : f[d] = body(d, f[d - 1])
    BY <1>5
  <2>2. f = [d \in 0..N |-> f[d]]
    <3> HIDE DEF A
    <3> QED OBVIOUS
  <2>3. f = [d \in 0..N |-> body(d, f[d - 1])]
    <3> HIDE DEF body, A
    <3> QED BY <2>1, <2>2
  <2> QED BY <2>3 DEF N
<1>7. Is(collect)
  <2> HIDE DEF Is
  <2> QED BY <1>6
<1>8. \A r \in Routers : Collect(r, class) = collect[N][r]
  BY DEF Collect, N
<1>9. Collected(collect, class)
  <2> HIDE DEF collect
  <2> QED BY <1>7 DEF Collected, N
<1>10. collect \in [0..N -> A]
  <2> DEFINE S == {d \in 0..N : collect[d] \in A}
  <2> HIDE DEF collect
  <2>1. 0 \in S
    <3>0. 0 \in 0..N
      BY NumberOfRouters
    <3>1. collect[0] = a
      BY <1>9, <3>0 DEF Collected
    <3> HIDE DEF A, a
    <3> QED BY <1>1, <3>1, NumberOfRouters
  <2>2. ASSUME NEW d \in 0..N, d \in S, d < N
        PROVE  d + 1 \in S
    <3>1. d + 1 \in 0..N /\ d + 1 # 0 /\ (d + 1) - 1 = d
      BY <2>2, NumberOfRouters
    <3>2. collect[d + 1] = next(collect[d])
      BY <1>9, <3>1 DEF Collected
    <3> HIDE DEF A, next
    <3> QED BY <1>2, <2>2, <3>1, <3>2
  <2>3. 0..N \subseteq S
    <3> HIDE DEF S
    <3> QED BY <2>1, <2>2, NumberOfRouters, InductionUpTo
  <2>4. collect = [d \in 0..N |-> collect[d]]
    BY <1>7 DEF N
  <2> HIDE DEF A
  <2> QED BY <2>3, <2>4
<1> HIDE DEF collect
<1> QED BY <1>8, <1>9, <1>10

(* The function that HasSoftEventHandlers computes with. *)
Softened(c) ==
  \A d \in 0..N : c[d] = [s \in Routers |->
     \/ HasSoftItself(s)
     \/ d > 0 /\ \E i \in DOMAIN subs[s] : c[d - 1][subs[s][i]]]

(* The same for HasSoftEventHandlers.                                      *)
LEMMA SoftComputes ==
  ASSUME RouterTypeOK
  PROVE  \E c : /\ Softened(c)
                /\ \A r \in Routers : HasSoftEventHandlers(r) = c[N][r]
<1> DEFINE body(d, g) == [s \in Routers |->
                            \/ HasSoftItself(s)
                            \/ d > 0 /\ \E i \in DOMAIN subs[s] : g[subs[s][i]]]
           A == [Routers -> BOOLEAN]
           Is(f) == f = [depth \in 0..Cardinality(Routers) |->
                           [s \in Routers |->
                              \/ HasSoftItself(s)
                              \/ depth > 0 /\ \E i \in DOMAIN subs[s] : f[depth - 1][subs[s][i]]]]
           soft == CHOOSE f : Is(f)
           a == [s \in Routers |-> HasSoftItself(s)]
           step == [n \in Nat |-> [g \in A |-> body(n, g)]]
<1>1. a \in A
  BY DEF HasSoftItself
<1>2. \A n \in Nat, g \in A : body(n, g) \in A
  OBVIOUS
<1>3. step \in [Nat -> [A -> A]]
  <2> HIDE DEF A, body
  <2> QED BY <1>2
<1>4. PICK f \in [0..N -> A] : Iterates(f, a, step, N)
  <2> HIDE DEF A, a, step
  <2> QED BY <1>1, <1>3, NumberOfRouters, Recursion
<1>5. ASSUME NEW d \in 0..N
      PROVE  f[d] = body(d, f[d - 1])
  <2>1. d \in Nat /\ (d = 0 \/ (d # 0 /\ d - 1 \in 0..N))
    BY NumberOfRouters
  <2>2. f[d] = IF d = 0 THEN a ELSE step[d][f[d - 1]]
    <3> HIDE DEF a, step, A
    <3> QED BY <1>4 DEF Iterates
  <2>3. d # 0 => f[d - 1] \in A
    <3> HIDE DEF A
    <3> QED BY <2>1
  <2>4. d # 0 => step[d][f[d - 1]] = body(d, f[d - 1])
    <3> HIDE DEF A, body
    <3> QED BY <2>1, <2>3
  <2>5. ASSUME NEW g PROVE body(0, g) = a
    <3>1. \A s \in Routers : HasSoftItself(s) \in BOOLEAN
      BY DEF HasSoftItself
    <3>2. ~(0 > 0)
      OBVIOUS
    <3> QED BY <3>1, <3>2
  <2> HIDE DEF a, body, step
  <2> QED BY <2>1, <2>2, <2>4, <2>5
<1>6. Is(f)
  <2>1. f = [d \in 0..N |-> f[d]]
    <3> HIDE DEF A
    <3> QED OBVIOUS
  <2>2. f = [d \in 0..N |-> body(d, f[d - 1])]
    <3> HIDE DEF body, A
    <3> QED BY <1>5, <2>1
  <2> QED BY <2>2 DEF N
<1>7. Is(soft)
  <2> HIDE DEF Is
  <2> QED BY <1>6
<1>8. \A r \in Routers : HasSoftEventHandlers(r) = soft[N][r]
  BY DEF HasSoftEventHandlers, N
<1>9. Softened(soft)
  <2> HIDE DEF soft
  <2> QED BY <1>7 DEF Softened, N
<1> HIDE DEF soft
<1> QED BY <1>8, <1>9

(* The routers from which t is met in a descent of at most so many steps:  *)
(* t, and those with a sub-router from which it is met in one step less.   *)
Above(t, w) == {r \in Routers : r = t \/ Range(subs[r]) \cap w # {}}

IsLayering(W, t) ==
  \A d \in 0..N : W[d] = IF d = 0 THEN {t} ELSE Above(t, W[d - 1])

(* There are such layers for every router.                                 *)
LEMMA LayersExist ==
  ASSUME NEW t \in Routers
  PROVE  \E W \in [0..N -> SUBSET Routers] : IsLayering(W, t)
<1> DEFINE A == SUBSET Routers
           a == {t}
           above(w) == Above(t, w)
           step == [n \in Nat |-> [w \in A |-> above(w)]]
<1>1. a \in A /\ \A w \in A : above(w) \in A
  BY DEF Above
<1>2. step \in [Nat -> [A -> A]]
  <2> HIDE DEF A, above
  <2> QED BY <1>1
<1>3. PICK W \in [0..N -> A] : Iterates(W, a, step, N)
  <2> HIDE DEF A, a, step
  <2> QED BY <1>1, <1>2, NumberOfRouters, Recursion
<1>4. ASSUME NEW d \in 0..N
      PROVE  W[d] = IF d = 0 THEN a ELSE above(W[d - 1])
  <2>1. d \in Nat /\ (d = 0 \/ (d # 0 /\ d - 1 \in 0..N))
    BY NumberOfRouters
  <2>2. W[d] = IF d = 0 THEN a ELSE step[d][W[d - 1]]
    <3> HIDE DEF a, step, A
    <3> QED BY <1>3 DEF Iterates
  <2>3. d # 0 => W[d - 1] \in A
    <3> HIDE DEF A
    <3> QED BY <2>1
  <2> HIDE DEF A, a, above
  <2> QED BY <2>1, <2>2, <2>3
<1> QED BY <1>4 DEF IsLayering

(* The layers grow, and stop growing before there are more of them than    *)
(* routers.                                                                *)
LEMMA LayersGrow ==
  ASSUME NEW t \in Routers, NEW W \in [0..N -> SUBSET Routers], IsLayering(W, t)
  PROVE  \A d \in 0..N : t \in W[d] /\ W[d] \subseteq Above(t, W[d])
<1>1. /\ W[0] = {t} /\ 0 \in 0..N
      /\ \A d \in 0..N : d < N => d + 1 \in 0..N /\ W[d + 1] = Above(t, W[d])
  <2>1. 0 \in 0..N
    BY NumberOfRouters
  <2>2. ASSUME NEW d \in 0..N, d < N
        PROVE  d + 1 \in 0..N /\ W[d + 1] = Above(t, W[d])
    <3>1. d + 1 \in 0..N /\ d + 1 # 0 /\ (d + 1) - 1 = d
      BY <2>2, NumberOfRouters
    <3> QED BY <3>1 DEF IsLayering
  <2> QED BY <2>1, <2>2 DEF IsLayering
<1> DEFINE S == {d \in 0..N : t \in W[d] /\ W[d] \subseteq Above(t, W[d])}
<1>2. 0 \in S
  BY <1>1 DEF Above
<1>3. ASSUME NEW d \in 0..N, d \in S, d < N
      PROVE  d + 1 \in S
  <2>1. d + 1 \in 0..N /\ W[d + 1] = Above(t, W[d]) /\ W[d] \subseteq Above(t, W[d])
    BY <1>1, <1>3
  <2>2. W[d] \subseteq W[d + 1]
    BY <2>1
  <2>3. Above(t, W[d]) \subseteq Above(t, W[d + 1])
    BY <2>2 DEF Above
  <2>4. t \in W[d + 1]
    BY <2>2, <1>3
  <2> QED BY <2>1, <2>3, <2>4
<1>4. 0..N \subseteq S
  <2> HIDE DEF S
  <2> QED BY <1>2, <1>3, NumberOfRouters, InductionUpTo
<1> QED BY <1>4

(* With as many layers as routers, the last has nothing to add: a layer    *)
(* that grew each time would hold more routers than there are.             *)
LEMMA LayersEnd ==
  ASSUME NEW t \in Routers, NEW W \in [0..N -> SUBSET Routers], IsLayering(W, t)
  PROVE  W[N] = Above(t, W[N])
<1> DEFINE Done(d) == W[d] = Above(t, W[d])
           S == {d \in 0..N : Done(d) \/ Cardinality(W[d]) >= d + 1}
<1>1. /\ W[0] = {t} /\ 0 \in 0..N
      /\ \A d \in 0..N : d < N => d + 1 \in 0..N /\ W[d + 1] = Above(t, W[d])
  <2>1. 0 \in 0..N
    BY NumberOfRouters
  <2>2. ASSUME NEW d \in 0..N, d < N
        PROVE  d + 1 \in 0..N /\ W[d + 1] = Above(t, W[d])
    <3>1. d + 1 \in 0..N /\ d + 1 # 0 /\ (d + 1) - 1 = d
      BY <2>2, NumberOfRouters
    <3> QED BY <3>1 DEF IsLayering
  <2> QED BY <2>1, <2>2 DEF IsLayering
<1>2. \A d \in 0..N : IsFiniteSet(W[d]) /\ Cardinality(W[d]) \in Nat /\ Cardinality(W[d]) <= N
  <2>1. IsFiniteSet(Routers)
    BY RouterAssumption
  <2> QED BY <2>1, FS_Subset, FS_CardinalityType DEF N
<1>3. 0 \in S
  <2>1. Cardinality({t}) = 1
    BY FS_Singleton
  <2>2. Cardinality(W[0]) >= 0 + 1
    BY <1>1, <2>1
  <2> HIDE DEF Done
  <2> QED BY <1>1, <2>2
<1>4. ASSUME NEW d \in 0..N, d \in S, d < N
      PROVE  d + 1 \in S
  <2>1. d + 1 \in 0..N /\ W[d + 1] = Above(t, W[d])
    BY <1>1, <1>4
  <2>2. CASE Done(d)
    BY <2>1, <2>2
  <2>3. CASE ~Done(d)
    <3>0. W[d] \subseteq Above(t, W[d])
      BY LayersGrow
    <3>1. W[d] \subseteq W[d + 1] /\ W[d] # W[d + 1]
      BY <2>1, <2>3, <3>0
    <3>2. Cardinality(W[d]) < Cardinality(W[d + 1])
      BY <3>1, <2>1, <1>2, FS_Subset
    <3>3. Cardinality(W[d]) >= d + 1
      BY <1>4, <2>3
    <3>4. Cardinality(W[d + 1]) >= (d + 1) + 1
      BY <1>2, <2>1, <3>2, <3>3
    <3> QED BY <2>1, <3>4
  <2> QED BY <2>2, <2>3
<1>5. 0..N \subseteq S
  <2> HIDE DEF S
  <2> QED BY <1>3, <1>4, NumberOfRouters, InductionUpTo
<1>6. N \in 0..N /\ ~(Cardinality(W[N]) >= N + 1)
  BY <1>2, NumberOfRouters
<1> QED BY <1>5, <1>6

(* So the last layer has the routers that reach t, neither more nor less.  *)
LEMMA LastLayer ==
  ASSUME RouterTypeOK, NEW t \in Routers,
         NEW W \in [0..N -> SUBSET Routers], IsLayering(W, t)
  PROVE  \A r \in Routers : r \in W[N] <=> t \in Reachable(r)
<1>0. N \in 0..N
  BY NumberOfRouters
<1>1. ASSUME NEW r \in Routers, t \in Reachable(r)
      PROVE  r \in W[N]
  <2> SUFFICES ASSUME r \notin W[N] PROVE FALSE
    OBVIOUS
  <2> DEFINE S == Routers \ W[N]
  <2>1. ASSUME NEW s \in S PROVE Range(subs[s]) \subseteq S
    <3>1. Range(subs[s]) \subseteq Routers
      BY DEF RouterTypeOK, Range
    <3>2. W[N] = Above(t, W[N])
      BY LayersEnd
    <3>3. s \in Routers /\ s \notin Above(t, W[N])
      BY <3>2
    <3>4. Range(subs[s]) \cap W[N] = {}
      BY <3>3 DEF Above
    <3> QED BY <3>1, <3>4
  <2>2. ClosedUnderSubs(S)
    BY <2>1 DEF ClosedUnderSubs
  <2>3. t \in S
    BY <1>1, <2>2 DEF Reachable
  <2>4. t \in W[N]
    BY <1>0, LayersGrow
  <2> QED BY <2>3, <2>4
<1>2. ASSUME NEW r \in W[N]
      PROVE  t \in Reachable(r)
  <2> DEFINE S == {d \in 0..N : \A s \in W[d] : t \in Reachable(s)}
  <2>1. 0 \in S
    BY NumberOfRouters, ReachableIsClosed DEF IsLayering
  <2>2. ASSUME NEW d \in 0..N, d \in S, d < N
        PROVE  d + 1 \in S
    <3>1. d + 1 \in 0..N /\ d + 1 # 0 /\ (d + 1) - 1 = d
      BY <2>2, NumberOfRouters
    <3>2. W[d + 1] = Above(t, W[d])
      BY <3>1 DEF IsLayering
    <3>3. ASSUME NEW s \in W[d + 1] PROVE t \in Reachable(s)
      <4>1. s \in Routers /\ (s = t \/ \E q \in Range(subs[s]) : q \in W[d])
        BY <3>2 DEF Above
      <4>2. CASE s = t
        BY <4>2, ReachableIsClosed
      <4>3. ASSUME NEW q \in Range(subs[s]), q \in W[d]
            PROVE  t \in Reachable(s)
        <5>1. t \in Reachable(q)
          BY <2>2, <4>3
        <5>2. q \in Reachable(s) /\ ClosedUnderSubs(Reachable(s))
          BY <4>1, <4>3, ReachableIsClosed DEF ClosedUnderSubs
        <5>3. Reachable(s) \in SUBSET Routers
          BY DEF Reachable
        <5> QED BY <5>1, <5>2, <5>3 DEF Reachable
      <4> QED BY <4>1, <4>2, <4>3
    <3> QED BY <3>1, <3>3
  <2>3. 0..N \subseteq S
    <3> HIDE DEF S
    <3> QED BY <2>1, <2>2, NumberOfRouters, InductionUpTo
  <2> QED BY <1>0, <2>3
<1> QED BY <1>1, <1>2

(* One layering for every router. *)
Layers == [t \in Routers |-> CHOOSE W \in [0..N -> SUBSET Routers] : IsLayering(W, t)]

(* Layers picks them.                                                      *)
LEMMA LayersAreLayers ==
  ASSUME NEW t \in Routers
  PROVE  Layers[t] \in [0..N -> SUBSET Routers] /\ IsLayering(Layers[t], t)
BY LayersExist DEF Layers

(* A layer above the first has t and the routers with a sub-router in the  *)
(* one before.                                                             *)
LEMMA LayerStep ==
  ASSUME NEW t \in Routers, NEW r \in Routers
  PROVE  /\ r \in Layers[t][0] <=> r = t
         /\ \A d \in 0..N : d < N =>
              /\ d + 1 \in 0..N
              /\ r \in Layers[t][d + 1] <=> r = t \/ \E q \in Range(subs[r]) : q \in Layers[t][d]
<1>1. IsLayering(Layers[t], t)
  BY LayersAreLayers
<1>2. r \in Layers[t][0] <=> r = t
  <2>1. 0 \in 0..N
    BY NumberOfRouters
  <2> QED BY <1>1, <2>1 DEF IsLayering
<1>3. ASSUME NEW d \in 0..N, d < N
      PROVE  /\ d + 1 \in 0..N
             /\ r \in Layers[t][d + 1] <=> r = t \/ \E q \in Range(subs[r]) : q \in Layers[t][d]
  <2>1. d + 1 \in 0..N /\ d + 1 # 0 /\ (d + 1) - 1 = d
    BY <1>3, NumberOfRouters
  <2>2. Layers[t][d + 1] = Above(t, Layers[t][d])
    BY <1>1, <2>1 DEF IsLayering
  <2>3. r \in Above(t, Layers[t][d]) <=> r = t \/ \E q \in Range(subs[r]) : q \in Layers[t][d]
    BY DEF Above
  <2> QED BY <2>1, <2>2, <2>3
<1> QED BY <1>2, <1>3

(* What Collect has found at a depth is registered on a router so far down. *)
FoundAt(c, class, d) ==
  \A r \in Routers : \A h :
    h \in Range(c[d][r]) <=> \E t \in Routers : r \in Layers[t][d] /\ h \in Range(sets[t][class])

(* What is found at a depth comes from the layers of that depth.           *)
LEMMA CollectedInLayers ==
  ASSUME RouterTypeOK, NEW class \in Event,
         NEW c \in [0..N -> [Routers -> Seq(Handlers)]], Collected(c, class)
  PROVE  \A d \in 0..N : FoundAt(c, class, d)
<1> DEFINE Right(d) == FoundAt(c, class, d)
           S == {d \in 0..N : Right(d)}
<1>1. 0 \in 0..N /\ \A d \in 0..N : d < N => d + 1 \in 0..N /\ d + 1 # 0 /\ (d + 1) - 1 = d
  BY NumberOfRouters
<1>2. Right(0)
  <2>1. \A r \in Routers : c[0][r] = sets[r][class]
    BY <1>1 DEF Collected
  <2>2. \A r, t \in Routers : r \in Layers[t][0] <=> r = t
    BY LayerStep
  <2> QED BY <2>1, <2>2 DEF FoundAt
<1>3. ASSUME NEW d \in 0..N, Right(d), d < N
      PROVE  Right(d + 1)
  <2> SUFFICES ASSUME NEW r \in Routers, NEW h
               PROVE  h \in Range(c[d + 1][r]) <=>
                         \E t \in Routers : r \in Layers[t][d + 1] /\ h \in Range(sets[t][class])
    BY DEF FoundAt
  <2>1. c[d + 1][r] = sets[r][class] \o BelowOf(r, c[d])
    <3>1. d + 1 \in 0..N /\ d + 1 # 0 /\ (d + 1) - 1 = d
      BY <1>1, <1>3
    <3>2. c[d + 1] = [s \in Routers |-> sets[s][class] \o BelowOf(s, c[d])]
      BY <3>1 DEF Collected
    <3> QED BY <3>2
  <2>2. /\ BelowOf(r, c[d]) \in Seq(Handlers)
        /\ h \in Range(BelowOf(r, c[d])) <=> \E q \in Range(subs[r]) : h \in Range(c[d][q])
    <3>1. c[d] \in [Routers -> Seq(Handlers)]
      OBVIOUS
    <3> QED BY <3>1, BelowHas
  <2>3. Range(c[d + 1][r]) = Range(sets[r][class]) \cup Range(BelowOf(r, c[d]))
    <3>1. sets[r][class] \in Seq(Handlers)
      BY DEF RouterTypeOK
    <3> QED BY <2>1, <2>2, <3>1, RangeOfConcat
  <2>4. Range(subs[r]) \subseteq Routers
    BY DEF RouterTypeOK, Range
  <2>5. h \in Range(c[d + 1][r]) <=>
           \/ h \in Range(sets[r][class])
           \/ \E q \in Range(subs[r]) : \E t \in Routers :
                 q \in Layers[t][d] /\ h \in Range(sets[t][class])
    BY <1>3, <2>2, <2>3, <2>4 DEF FoundAt
  <2>6. \A t \in Routers : r \in Layers[t][d + 1] <=>
                             r = t \/ \E q \in Range(subs[r]) : q \in Layers[t][d]
    BY <1>3, LayerStep
  <2> HIDE DEF Right
  <2> QED BY <2>5, <2>6
<1>4. 0 \in S
  BY <1>1, <1>2
<1>5. ASSUME NEW d \in 0..N, d \in S, d < N
      PROVE  d + 1 \in S
  <2> HIDE DEF Right
  <2> QED BY <1>1, <1>3, <1>5
<1>6. 0..N \subseteq S
  <2> HIDE DEF S
  <2> QED BY <1>4, <1>5, NumberOfRouters, InductionUpTo
<1> QED BY <1>6

(* The handlers Collect returns are those registered for the class on the  *)
(* routers that a traversal meets.                                         *)
LEMMA CollectFinds ==
  ASSUME RouterTypeOK, NEW class \in Event, NEW r \in Routers
  PROVE  /\ Collect(r, class) \in Seq(Handlers)
         /\ \A h : h \in Range(Collect(r, class)) <=>
                      \E t \in Reachable(r) : h \in Range(sets[t][class])
<1>1. PICK c \in [0..N -> [Routers -> Seq(Handlers)]] :
          Collected(c, class) /\ Collect(r, class) = c[N][r]
  BY CollectComputes
<1>2. N \in 0..N
  BY NumberOfRouters
<1>3. \A h : h \in Range(c[N][r]) <=>
               \E t \in Routers : r \in Layers[t][N] /\ h \in Range(sets[t][class])
  <2>1. FoundAt(c, class, N)
    BY <1>1, <1>2, CollectedInLayers
  <2> QED BY <2>1 DEF FoundAt
<1>4. \A t \in Routers : r \in Layers[t][N] <=> t \in Reachable(r)
  BY LayersAreLayers, LastLayer
<1>5. Reachable(r) \subseteq Routers
  BY DEF Reachable
<1> QED BY <1>1, <1>2, <1>3, <1>4, <1>5

(* HasSoftEventHandlers says whether there is such a router with a handler *)
(* for a soft event.                                                       *)
LEMMA SoftFinds ==
  ASSUME RouterTypeOK, NEW r \in Routers
  PROVE  /\ HasSoftEventHandlers(r) \in BOOLEAN
         /\ HasSoftEventHandlers(r) <=> \E t \in Reachable(r) : HasSoftItself(t)
<1>1. PICK c : Softened(c) /\ HasSoftEventHandlers(r) = c[N][r]
  BY SoftComputes
<1> DEFINE Right(d) == \A s \in Routers : c[d][s] <=> \E t \in Routers : s \in Layers[t][d] /\ HasSoftItself(t)
           S == {d \in 0..N : Right(d)}
<1>2. /\ 0 \in 0..N /\ N \in 0..N
      /\ \A d \in 0..N : d < N => d + 1 \in 0..N /\ d + 1 > 0 /\ (d + 1) - 1 = d
  BY NumberOfRouters
<1>3. ASSUME NEW d \in 0..N, NEW s \in Routers
      PROVE  /\ c[d][s] \in BOOLEAN
             /\ c[d][s] <=> \/ HasSoftItself(s)
                            \/ d > 0 /\ \E i \in DOMAIN subs[s] : c[d - 1][subs[s][i]]
  <2>1. c[d][s] = (\/ HasSoftItself(s)
                   \/ d > 0 /\ \E i \in DOMAIN subs[s] : c[d - 1][subs[s][i]])
    BY <1>1 DEF Softened
  <2>2. HasSoftItself(s) \in BOOLEAN
    BY DEF HasSoftItself
  <2> QED BY <2>1, <2>2
<1>4. Right(0)
  <2>1. ASSUME NEW s \in Routers PROVE c[0][s] <=> HasSoftItself(s)
    <3>1. ~(0 > 0)
      OBVIOUS
    <3> QED BY <1>2, <1>3, <3>1
  <2>2. \A s, t \in Routers : s \in Layers[t][0] <=> s = t
    BY LayerStep
  <2> QED BY <2>1, <2>2
<1>5. ASSUME NEW d \in 0..N, Right(d), d < N
      PROVE  Right(d + 1)
  <2> SUFFICES ASSUME NEW s \in Routers
               PROVE  c[d + 1][s] <=> \E t \in Routers : s \in Layers[t][d + 1] /\ HasSoftItself(t)
    OBVIOUS
  <2>1. Range(subs[s]) \subseteq Routers
    BY DEF RouterTypeOK, Range
  <2>2. c[d + 1][s] <=> HasSoftItself(s) \/ \E q \in Range(subs[s]) : c[d][q]
    <3>1. d + 1 \in 0..N /\ d + 1 > 0 /\ (d + 1) - 1 = d
      BY <1>2, <1>5
    <3>2. c[d + 1][s] <=> HasSoftItself(s) \/ \E i \in DOMAIN subs[s] : c[d][subs[s][i]]
      BY <1>3, <3>1
    <3>3. Range(subs[s]) = {subs[s][i] : i \in DOMAIN subs[s]}
      BY DEF Range
    <3> QED BY <3>2, <3>3
  <2>3. \A t \in Routers : s \in Layers[t][d + 1] <=>
                             s = t \/ \E q \in Range(subs[s]) : q \in Layers[t][d]
    BY <1>5, LayerStep
  <2>4. \A q \in Range(subs[s]) :
           c[d][q] <=> \E t \in Routers : q \in Layers[t][d] /\ HasSoftItself(t)
    BY <1>5, <2>1
  <2> HIDE DEF Right
  <2> QED BY <2>2, <2>3, <2>4
<1>6. 0 \in S
  BY <1>2, <1>4
<1>7. ASSUME NEW d \in 0..N, d \in S, d < N
      PROVE  d + 1 \in S
  <2> HIDE DEF Right
  <2> QED BY <1>2, <1>5, <1>7
<1>8. 0..N \subseteq S
  <2> HIDE DEF S
  <2> QED BY <1>6, <1>7, NumberOfRouters, InductionUpTo
<1>9. c[N][r] <=> \E t \in Routers : r \in Layers[t][N] /\ HasSoftItself(t)
  BY <1>2, <1>8
<1>10. \A t \in Routers : r \in Layers[t][N] <=> t \in Reachable(r)
  BY LayersAreLayers, LastLayer
<1>11. Reachable(r) \subseteq Routers
  BY DEF Reachable
<1>12. HasSoftEventHandlers(r) \in BOOLEAN
  <2>1. c[N][r] \in BOOLEAN
    BY <1>2, <1>3
  <2> QED BY <1>1, <2>1
<1> QED BY <1>1, <1>9, <1>10, <1>11, <1>12

(* Without a cycle, no router is met from its sub-routers. *)
LEMMA NoWayBack ==
  ASSUME RouterTypeOK, Acyclic, NEW r \in Routers, NEW q \in Range(subs[r])
  PROVE  r \notin Reachable(q)
<1> SUFFICES ASSUME r \in Reachable(q) PROVE FALSE
  OBVIOUS
<1> DEFINE S == Layers[r][N]
<1>1. q \in Routers
  BY DEF RouterTypeOK, Range
<1>2. S \in SUBSET Routers /\ S = Above(r, S) /\ q \in S /\ r \in S
  <2>1. Layers[r] \in [0..N -> SUBSET Routers] /\ IsLayering(Layers[r], r) /\ N \in 0..N
    BY LayersAreLayers, NumberOfRouters
  <2>2. S = Above(r, S) /\ r \in S
    BY <2>1, LayersEnd, LayersGrow
  <2>3. q \in S
    BY <1>1, <2>1, LastLayer
  <2> QED BY <2>1, <2>2, <2>3
<1>3. ASSUME NEW s \in S PROVE Range(subs[s]) \cap S # {}
  <2> HIDE DEF S
  <2> QED BY <1>2, <1>3 DEF Above
<1> QED BY <1>2, <1>3 DEF Acyclic

(* The candidates of a router's own come first in what Collect returns:    *)
(* what is found below it was registered elsewhere.                        *)
SetsMatch ==
  \A r \in Routers : \A class \in Event : \A h \in Range(sets[r][class]) :
    decl[h].router = r /\ decl[h].class = class

(* The handlers of the router itself come first, for the sub-routers do    *)
(* not lead back to it.                                                    *)
LEMMA OwnHandlersFirst ==
  ASSUME RouterTypeOK, Acyclic, SetsMatch, NEW r \in Routers, NEW class \in Event,
         NEW k \in DOMAIN Collect(r, class), NEW l \in DOMAIN Collect(r, class),
         k < l, decl[Collect(r, class)[l]].router = r
  PROVE  decl[Collect(r, class)[k]].router = r
<1>1. PICK c \in [0..N -> [Routers -> Seq(Handlers)]] :
          Collected(c, class) /\ Collect(r, class) = c[N][r]
  BY CollectComputes
<1>2. PICK M \in 0..N : M < N /\ M + 1 = N /\ N - 1 = M /\ N # 0 /\ N \in 0..N
  <2>1. N - 1 \in 0..N /\ N - 1 < N /\ (N - 1) + 1 = N /\ N # 0 /\ N \in 0..N
    BY NumberOfRouters
  <2> QED BY <2>1
<1> DEFINE own == sets[r][class]
           below == BelowOf(r, c[M])
<1>3. Collect(r, class) = own \o below
  <2>1. c[N] = [s \in Routers |-> sets[s][class] \o BelowOf(s, c[M])]
    BY <1>1, <1>2 DEF Collected
  <2> QED BY <1>1, <2>1
<1>4. c[M] \in [Routers -> Seq(Handlers)]
  BY <1>2
<1>5. own \in Seq(Handlers) /\ below \in Seq(Handlers)
  BY <1>4, BelowHas DEF RouterTypeOK
<1>6. ASSUME NEW h \in Range(below) PROVE decl[h].router # r
  <2>1. PICK q \in Range(subs[r]) : h \in Range(c[M][q])
    BY <1>4, BelowHas
  <2>2. q \in Routers
    BY DEF RouterTypeOK, Range
  <2>3. PICK t \in Routers : q \in Layers[t][M] /\ h \in Range(sets[t][class])
    <3>1. FoundAt(c, class, M)
      BY <1>1, CollectedInLayers
    <3> QED BY <2>1, <2>2, <3>1 DEF FoundAt
  <2>4. decl[h].router = t
    BY <2>3 DEF SetsMatch
  <2>5. t # r
    <3> SUFFICES ASSUME t = r PROVE FALSE
      OBVIOUS
    <3>1. r \in Layers[r][N]
      BY <1>2, LayerStep
    <3>2. q \in Above(r, Layers[r][M])
      BY <1>2, <2>3, LayersAreLayers, LayersGrow
    <3>3. Layers[r][N] = Above(r, Layers[r][M])
      BY <1>2, LayersAreLayers DEF IsLayering
    <3>4. r \in Reachable(q)
      BY <2>2, <3>2, <3>3, LayersAreLayers, LastLayer
    <3> QED BY <3>4, NoWayBack
  <2> QED BY <2>4, <2>5
<1>7. /\ Len(own) \in Nat /\ Len(below) \in Nat
      /\ DOMAIN (own \o below) = 1..(Len(own) + Len(below))
      /\ DOMAIN own = 1..Len(own) /\ DOMAIN below = 1..Len(below)
      /\ \A i \in 1..Len(own) : (own \o below)[i] = own[i]
      /\ \A i \in 1..(Len(own) + Len(below)) : i > Len(own) => (own \o below)[i] = below[i - Len(own)]
  <2> HIDE DEF own, below
  <2> QED BY <1>5
<1> HIDE DEF own, below
<1>8. k \in 1..(Len(own) + Len(below)) /\ l \in 1..(Len(own) + Len(below))
  BY <1>3, <1>7
<1>9. l \in 1..Len(own)
  <2> SUFFICES ASSUME l \notin 1..Len(own) PROVE FALSE
    OBVIOUS
  <2>1. l > Len(own) /\ l - Len(own) \in 1..Len(below)
    BY <1>7, <1>8
  <2>2. Collect(r, class)[l] = below[l - Len(own)]
    BY <1>3, <1>7, <1>8, <2>1
  <2>3. Collect(r, class)[l] \in Range(below)
    BY <1>7, <2>1, <2>2 DEF Range
  <2> QED BY <1>6, <2>3
<1>10. k \in 1..Len(own)
  BY <1>7, <1>8, <1>9
<1>11. Collect(r, class)[k] \in Range(sets[r][class])
  BY <1>3, <1>7, <1>10 DEF Range, own
<1> QED BY <1>11 DEF SetsMatch

-----------------------------------------------------------------------------
(* What a filter expression evaluates to.                                  *)

(* A property of a node that follows from its children's holds for all. *)
LEMMA ExprInduction ==
  ASSUME NEW S, \A e \in Exprs : Children(node[e]) \subseteq S => e \in S
  PROVE  Exprs \subseteq S
<1>1. PICK height \in [Exprs -> 0..Cardinality(Exprs)] :
          \A e \in Exprs : \A c \in Children(node[e]) : height[c] < height[e]
  BY ExprsAssumption
<1>2. PICK M \in Nat : M = Cardinality(Exprs) + 1 /\ \A e \in Exprs : height[e] \in Nat /\ height[e] < M
  <2>1. Cardinality(Exprs) \in Nat
    BY ExprsAssumption, FS_CardinalityType
  <2>2. Cardinality(Exprs) + 1 \in Nat
    BY <2>1
  <2>3. \A e \in Exprs : height[e] \in Nat /\ height[e] < Cardinality(Exprs) + 1
    BY <2>1
  <2> QED BY <2>2, <2>3
<1>3. \A e \in Exprs : Children(node[e]) \subseteq Exprs
  <2> SUFFICES ASSUME NEW e \in Exprs PROVE Children(node[e]) \subseteq Exprs
    OBVIOUS
  <2>1. IsNode(node[e])
    BY ExprsAssumption
  <2> QED BY <2>1 DEF IsNode, Children
<1> DEFINE T == {d \in 0..M : \A e \in Exprs : height[e] < d => e \in S}
<1>4. 0 \in T
  BY <1>2
<1>5. ASSUME NEW d \in 0..M, d \in T, d < M
      PROVE  d + 1 \in T
  <2>1. ASSUME NEW e \in Exprs, height[e] < d + 1 PROVE e \in S
    <3>1. ASSUME NEW c \in Children(node[e]) PROVE c \in S
      <4>1. c \in Exprs /\ height[c] < height[e]
        BY <1>1, <1>3
      <4>2. height[c] < d
        BY <1>2, <2>1, <4>1
      <4> QED BY <1>5, <4>1, <4>2
    <3> QED BY <3>1
  <2>2. d + 1 \in 0..M
    BY <1>5
  <2> QED BY <2>1, <2>2
<1>6. 0..M \subseteq T
  <2> HIDE DEF T
  <2> QED BY <1>4, <1>5, InductionUpTo
<1>7. M \in T
  BY <1>6
<1> QED BY <1>2, <1>7

(* A function on the nodes whose value at each rests on its children's     *)
(* exists: by as many rounds as there are nodes.                           *)
RestsOnChildren(body, F) ==
  \A e \in Exprs : \A f, g \in F :
    (\A c \in Children(node[e]) : f[c] = g[c]) => body[e][f] = body[e][g]

Solves(f, body) == \A e \in Exprs : f[e] = body[e][f]

(* A recursion over the nodes of filters, each of which rests on its       *)
(* children, has a solution.                                               *)
LEMMA TreeRecursion ==
  ASSUME NEW A, NEW a \in A, NEW body \in [Exprs -> [[Exprs -> A] -> A]],
         RestsOnChildren(body, [Exprs -> A])
  PROVE  \E f \in [Exprs -> A] : Solves(f, body)
<1>1. PICK height \in [Exprs -> 0..Cardinality(Exprs)] :
          \A e \in Exprs : \A c \in Children(node[e]) : height[c] < height[e]
  BY ExprsAssumption
<1>2. PICK M \in Nat : M = Cardinality(Exprs) + 1 /\ \A e \in Exprs : height[e] \in Nat /\ height[e] < M
  <2>1. Cardinality(Exprs) \in Nat
    BY ExprsAssumption, FS_CardinalityType
  <2>2. Cardinality(Exprs) + 1 \in Nat
    BY <2>1
  <2>3. \A e \in Exprs : height[e] \in Nat /\ height[e] < Cardinality(Exprs) + 1
    BY <2>1
  <2> QED BY <2>2, <2>3
<1>3. \A e \in Exprs : Children(node[e]) \subseteq Exprs
  <2> SUFFICES ASSUME NEW e \in Exprs PROVE Children(node[e]) \subseteq Exprs
    OBVIOUS
  <2>1. IsNode(node[e])
    BY ExprsAssumption
  <2> QED BY <2>1 DEF IsNode, Children
<1> DEFINE F == [Exprs -> A]
           next(f) == [e \in Exprs |-> body[e][f]]
           start == [e \in Exprs |-> a]
           step == [n \in Nat |-> [f \in F |-> next(f)]]
<1>4. start \in F /\ \A f \in F : next(f) \in F
  OBVIOUS
<1>5. step \in [Nat -> [F -> F]]
  <2> HIDE DEF F, next
  <2> QED BY <1>4
<1>6. PICK round \in [0..(M + 1) -> F] : Iterates(round, start, step, M + 1)
  <2>1. M + 1 \in Nat
    OBVIOUS
  <2> HIDE DEF F, start, step
  <2> QED BY <1>4, <1>5, <2>1, Recursion
<1>7. ASSUME NEW d \in 0..M
      PROVE  /\ round[d] \in F /\ round[d + 1] \in F
             /\ \A e \in Exprs : round[d + 1][e] = body[e][round[d]]
  <2>1. d \in 0..(M + 1) /\ d + 1 \in 0..(M + 1) /\ d + 1 \in Nat /\ d + 1 # 0 /\ (d + 1) - 1 = d
    OBVIOUS
  <2>2. round[d] \in F /\ round[d + 1] \in F
    <3> HIDE DEF F
    <3> QED BY <2>1
  <2>3. round[d + 1] = step[d + 1][round[d]]
    <3> HIDE DEF step, start, F
    <3> QED BY <1>6, <2>1 DEF Iterates
  <2>4. step[d + 1][round[d]] = next(round[d])
    <3> HIDE DEF F, next
    <3> QED BY <2>1, <2>2
  <2>5. \A e \in Exprs : round[d + 1][e] = body[e][round[d]]
    <3> HIDE DEF F, step
    <3> QED BY <2>3, <2>4
  <2> QED BY <2>2, <2>5
<1> DEFINE T == {d \in 0..M : \A e \in Exprs : height[e] < d => round[d + 1][e] = round[d][e]}
<1>8. 0 \in T
  BY <1>2
<1>9. ASSUME NEW d \in 0..M, d \in T, d < M
      PROVE  d + 1 \in T
  <2>1. d + 1 \in 0..M
    BY <1>9
  <2>2. ASSUME NEW e \in Exprs, height[e] < d + 1
        PROVE  round[(d + 1) + 1][e] = round[d + 1][e]
    <3>1. ASSUME NEW c \in Children(node[e]) PROVE round[d + 1][c] = round[d][c]
      <4>1. c \in Exprs /\ height[c] < height[e]
        BY <1>1, <1>3
      <4>2. height[c] < d
        BY <1>2, <2>2, <4>1
      <4> QED BY <1>9, <4>1, <4>2
    <3>2. body[e][round[d + 1]] = body[e][round[d]]
      BY <1>7, <3>1 DEF RestsOnChildren
    <3> QED BY <1>7, <2>1, <3>2
  <2> QED BY <2>1, <2>2
<1>10. 0..M \subseteq T
  <2> HIDE DEF T
  <2> QED BY <1>8, <1>9, InductionUpTo
<1>11. M \in 0..M /\ M \in T
  BY <1>10
<1>12. \A e \in Exprs : round[M][e] = body[e][round[M]]
  BY <1>2, <1>7, <1>11
<1> QED BY <1>7, <1>11, <1>12 DEF Solves

Results == [passed : BOOLEAN, match : Exprs \cup {NoMatch}]

(* A node's result is one, and rests on those of its children only. *)
LEMMA NodeHasResult ==
  ASSUME NEW e \in Exprs, NEW ev, NEW f \in [Exprs -> Results]
  PROVE  EvaluateNode(e, ev, f) \in Results
<1> DEFINE n == node[e]
<1>1. IsNode(n) /\ NoMatch \in Exprs \cup {NoMatch}
  BY ExprsAssumption
<1>2. CASE n.op = "const" /\ n.value \in BOOLEAN
  BY <1>2 DEF EvaluateNode, Result, Results
<1>3. CASE n.op \in {"test", "regex"}
  BY <1>3 DEF EvaluateNode, Leaf, Result, Results
<1>4. CASE n.op = "and" /\ {n.left, n.right} \subseteq Exprs
  <2>1. f[n.left] \in Results /\ f[n.right] \in Results
    BY <1>4
  <2> QED BY <1>4, <2>1 DEF EvaluateNode, Both, Refused, Either, Result, Results
<1>5. CASE n.op = "or" /\ {n.left, n.right} \subseteq Exprs
  <2>1. f[n.left] \in Results /\ f[n.right] \in Results
    BY <1>5
  <2> QED BY <1>5, <2>1 DEF EvaluateNode, OneOf
<1>6. CASE n.op = "not" /\ n.inner \in Exprs
  BY <1>6 DEF EvaluateNode, Result, Results
<1> QED BY <1>1, <1>2, <1>3, <1>4, <1>5, <1>6 DEF IsNode

(* A node has the same result wherever its children have.                  *)
LEMMA NodeNeedsChildren ==
  ASSUME NEW e \in Exprs, NEW ev, NEW f, NEW g,
         \A c \in Children(node[e]) : f[c] = g[c]
  PROVE  EvaluateNode(e, ev, f) = EvaluateNode(e, ev, g)
<1> DEFINE n == node[e]
<1>1. IsNode(n)
  BY ExprsAssumption
<1>2. CASE n.op = "const"
  BY <1>2 DEF EvaluateNode
<1>3. CASE n.op \in {"test", "regex"}
  BY <1>3 DEF EvaluateNode
<1>4. CASE n.op \in {"and", "or"}
  <2>1. f[n.left] = g[n.left] /\ f[n.right] = g[n.right]
    BY <1>4 DEF Children
  <2> QED BY <1>4, <2>1 DEF EvaluateNode
<1>5. CASE n.op = "not"
  <2>1. f[n.inner] = g[n.inner]
    BY <1>5 DEF Children
  <2> QED BY <1>5, <2>1 DEF EvaluateNode
<1> QED BY <1>1, <1>2, <1>3, <1>4, <1>5 DEF IsNode

(* Evaluate is what it is at each node. *)
LEMMA EvaluateComputes ==
  ASSUME NEW ev
  PROVE  \E f \in [Exprs -> Results] :
            /\ \A e \in Exprs : f[e] = EvaluateNode(e, ev, f)
            /\ \A e \in Exprs : Evaluate(e, ev) = f[e]
<1> DEFINE F == [Exprs -> Results]
           Is(f) == f = [e \in Exprs |-> EvaluateNode(e, ev, f)]
           eval == CHOOSE f : Is(f)
           body == [e \in Exprs |-> [f \in F |-> EvaluateNode(e, ev, f)]]
<1>1. body \in [Exprs -> [F -> Results]]
  BY NodeHasResult
<1>2. RestsOnChildren(body, F)
  BY NodeNeedsChildren DEF RestsOnChildren
<1>3. Refused \in Results
  BY ExprsAssumption DEF Refused, Result, Results
<1>4. PICK g \in F : \A e \in Exprs : g[e] = body[e][g]
  <2> DEFINE A == Results
  <2>1. body \in [Exprs -> [[Exprs -> A] -> A]] /\ Refused \in A
    BY <1>1, <1>3
  <2>2. RestsOnChildren(body, [Exprs -> A])
    BY <1>2
  <2>3. \E g \in [Exprs -> A] : Solves(g, body)
    <3> HIDE DEF A, body
    <3> QED BY <2>1, <2>2, TreeRecursion
  <2> QED BY <2>3 DEF Solves
<1>5. \A e \in Exprs : g[e] = EvaluateNode(e, ev, g)
  BY <1>4
<1>6. Is(g)
  <2> DEFINE val(e) == EvaluateNode(e, ev, g)
  <2>1. g = [e \in Exprs |-> g[e]]
    OBVIOUS
  <2>2. g = [e \in Exprs |-> val(e)]
    <3> HIDE DEF val
    <3>1. \A e \in Exprs : g[e] = val(e)
      BY <1>5 DEF val
    <3> QED BY <2>1, <3>1
  <2> QED BY <2>2 DEF EvaluateNode
<1>7. Is(eval)
  <2> HIDE DEF Is
  <2> QED BY <1>6
<1>8. eval = [e \in Exprs |-> EvaluateNode(e, ev, eval)]
  <2> HIDE DEF eval
  <2> QED BY <1>7 DEF EvaluateNode
<1>9. \A x \in Exprs : Evaluate(x, ev) = eval[x]
  BY DEF Evaluate
<1> HIDE DEF eval
<1> DEFINE S == {e \in Exprs : eval[e] = g[e]}
<1>10. ASSUME NEW e \in Exprs, Children(node[e]) \subseteq S
       PROVE  e \in S
  <2>1. \A c \in Children(node[e]) : eval[c] = g[c]
    BY <1>10
  <2>2. EvaluateNode(e, ev, eval) = EvaluateNode(e, ev, g)
    BY <2>1, NodeNeedsChildren
  <2>3. eval[e] = EvaluateNode(e, ev, eval)
    BY <1>8
  <2> QED BY <1>5, <2>2, <2>3
<1>11. Exprs \subseteq S
  <2> HIDE DEF S
  <2> QED BY <1>10, ExprInduction
<1>12. \A e \in Exprs : Evaluate(e, ev) = g[e]
  BY <1>9, <1>11
<1> QED BY <1>5, <1>12

(* A result is a Boolean and a match or none.                              *)
LEMMA EvaluateHasType ==
  ASSUME NEW e \in Exprs, NEW ev
  PROVE  Evaluate(e, ev) \in Results
BY EvaluateComputes

(* The same for the regular expressions of a filter. *)
LEMMA RegexesOfComputes ==
  \A e \in Exprs : RegexesOf(e) = RegexesOfNode(e, [c \in Exprs |-> RegexesOf(c)])
<1> DEFINE A == SUBSET Exprs
           F == [Exprs -> A]
           Is(f) == f = [e \in Exprs |-> RegexesOfNode(e, f)]
           at == CHOOSE f : Is(f)
           body == [e \in Exprs |-> [f \in F |-> RegexesOfNode(e, f)]]
<1>1. ASSUME NEW e \in Exprs, NEW f \in F PROVE RegexesOfNode(e, f) \in A
  <2>1. IsNode(node[e])
    BY ExprsAssumption
  <2> QED BY <2>1 DEF IsNode, RegexesOfNode
<1>2. body \in [Exprs -> [F -> A]]
  <2> HIDE DEF A, F
  <2> QED BY <1>1
<1>3. ASSUME NEW e \in Exprs, NEW f \in F, NEW g \in F,
             \A c \in Children(node[e]) : f[c] = g[c]
      PROVE  body[e][f] = body[e][g]
  <2>1. RegexesOfNode(e, f) = RegexesOfNode(e, g)
    BY <1>3 DEF RegexesOfNode, Children
  <2> HIDE DEF F
  <2> QED BY <2>1
<1>4. RestsOnChildren(body, F)
  <2> HIDE DEF F, body
  <2> QED BY <1>3 DEF RestsOnChildren
<1>5. PICK g \in F : \A e \in Exprs : g[e] = RegexesOfNode(e, g)
  <2>1. {} \in A
    OBVIOUS
  <2>2. PICK g \in F : Solves(g, body)
    <3> HIDE DEF A, body
    <3> QED BY <1>2, <1>4, <2>1, TreeRecursion
  <2> HIDE DEF F
  <2> QED BY <2>2 DEF Solves
<1>6. Is(g)
  <2> DEFINE val(e) == RegexesOfNode(e, g)
  <2>1. g = [e \in Exprs |-> g[e]]
    OBVIOUS
  <2>2. g = [e \in Exprs |-> val(e)]
    <3> HIDE DEF val
    <3>1. \A e \in Exprs : g[e] = val(e)
      BY <1>5 DEF val
    <3> QED BY <2>1, <3>1
  <2> QED BY <2>2 DEF RegexesOfNode
<1>7. Is(at)
  <2> HIDE DEF Is
  <2> QED BY <1>6
<1>8. at = [e \in Exprs |-> RegexesOfNode(e, at)]
  <2> HIDE DEF at
  <2> QED BY <1>7 DEF RegexesOfNode
<1>9. \A x \in Exprs : RegexesOf(x) = at[x]
  BY DEF RegexesOf
<1> HIDE DEF at
<1>10. [c \in Exprs |-> RegexesOf(c)] = at
  <2>1. at = [c \in Exprs |-> at[c]]
    BY <1>8
  <2> QED BY <1>9, <2>1
<1> QED BY <1>8, <1>9, <1>10

(* The match an expression offers is that of one of its own regular        *)
(* expressions, and the event matches that one.                            *)
LEMMA MatchIsOwn ==
  ASSUME NEW ev
  PROVE  \A e \in Exprs :
           LET m == Evaluate(e, ev).match IN
           m # NoMatch => /\ m \in Exprs /\ m \in RegexesOf(e)
                          /\ Leaf(m, node[m], ev).passed
<1>1. PICK f \in [Exprs -> Results] :
         /\ \A e \in Exprs : f[e] = EvaluateNode(e, ev, f)
         /\ \A e \in Exprs : Evaluate(e, ev) = f[e]
  BY EvaluateComputes
<1> DEFINE Own(e) == f[e].match # NoMatch =>
                       /\ f[e].match \in Exprs /\ f[e].match \in RegexesOf(e)
                       /\ Leaf(f[e].match, node[f[e].match], ev).passed
           S == {e \in Exprs : Own(e)}
<1>2. ASSUME NEW e \in Exprs, Children(node[e]) \subseteq S
      PROVE  Own(e)
  <2> DEFINE n == node[e]
             R == [c \in Exprs |-> RegexesOf(c)]
  <2>1. IsNode(n) /\ f[e] = EvaluateNode(e, ev, f) /\ RegexesOf(e) = RegexesOfNode(e, R)
    BY <1>1, ExprsAssumption, RegexesOfComputes
  <2>2. CASE n.op = "const"
    BY <2>1, <2>2 DEF EvaluateNode, Result
  <2>3. CASE n.op = "test"
    <3>1. f[e] = Leaf(e, n, ev)
      BY <2>1, <2>3 DEF EvaluateNode
    <3> QED BY <2>3, <3>1 DEF Leaf, Result
  <2>4. CASE n.op = "regex"
    <3>1. f[e] = Leaf(e, n, ev)
      BY <2>1, <2>4 DEF EvaluateNode
    <3>2. RegexesOf(e) = {e}
      BY <2>1, <2>4 DEF RegexesOfNode
    <3>3. Leaf(e, n, ev).match # NoMatch => Leaf(e, n, ev).match = e /\ Leaf(e, n, ev).passed
      BY DEF Leaf, Result
    <3> QED BY <3>1, <3>2, <3>3
  <2>5. CASE n.op \in {"and", "or"}
    <3>1. {n.left, n.right} \subseteq Exprs /\ Own(n.left) /\ Own(n.right)
      BY <1>2, <2>1, <2>5 DEF IsNode, Children
    <3>2. RegexesOf(e) = RegexesOf(n.left) \cup RegexesOf(n.right)
      BY <2>1, <2>5, <3>1 DEF RegexesOfNode
    <3>3. f[e].match \in {NoMatch, f[n.left].match, f[n.right].match}
      BY <2>1, <2>5 DEF EvaluateNode, Both, OneOf, Refused, Either, Result
    <3> QED BY <3>1, <3>2, <3>3
  <2>6. CASE n.op = "not"
    BY <2>1, <2>6 DEF EvaluateNode, Result
  <2> QED BY <2>1, <2>2, <2>3, <2>4, <2>5, <2>6 DEF IsNode
<1>3. Exprs \subseteq S
  <2>1. ASSUME NEW e \in Exprs, Children(node[e]) \subseteq S PROVE e \in S
    <3> HIDE DEF Own
    <3> QED BY <1>2, <2>1
  <2> HIDE DEF S
  <2> QED BY <2>1, ExprInduction
<1> QED BY <1>1, <1>3

-----------------------------------------------------------------------------
(* The program's statements. *)

(* An accepted include_router leaves the routers without a cycle: a cycle  *)
(* through the new edge would contain routers that other reaches, and      *)
(* those are the old ones.                                                 *)
LEMMA IncludeKeepsAcyclic ==
  ASSUME RouterTypeOK, Acyclic, NEW r \in Routers, NEW other \in Routers,
         ~WouldCreateCycle(r, other),
         subs' = [subs EXCEPT ![r] = Append(@, other)]
  PROVE  Acyclic'
<1> SUFFICES ASSUME NEW S \in SUBSET Routers, S # {}
             PROVE  \E s \in S : Range(subs'[s]) \cap S = {}
  BY DEF Acyclic
<1> DEFINE R == Reachable(other)
           T == S \cap R
<1>1. other \in R /\ ClosedUnderSubs(R) /\ r \notin R
  BY ReachableIsClosed DEF WouldCreateCycle
<1>2. ASSUME NEW s \in Routers, s # r
      PROVE  subs'[s] = subs[s]
  BY <1>2 DEF RouterTypeOK
<1>3. Range(subs'[r]) = Range(subs[r]) \cup {other}
  <2>1. subs'[r] = Append(subs[r], other) /\ subs[r] \in Seq(Routers)
    BY DEF RouterTypeOK
  <2> QED BY <2>1, RangeOfAppend
<1>4. CASE T # {}
  <2>1. PICK t \in T : Range(subs[t]) \cap T = {}
    BY <1>4 DEF Acyclic
  <2>2. Range(subs[t]) \subseteq R /\ t # r
    BY <1>1, <2>1 DEF ClosedUnderSubs
  <2>3. Range(subs'[t]) \cap S = {}
    BY <1>2, <2>1, <2>2
  <2> QED BY <2>1, <2>3
<1>5. CASE T = {}
  <2>1. PICK s \in S : Range(subs[s]) \cap S = {}
    BY DEF Acyclic
  <2>2. other \notin S
    BY <1>1, <1>5
  <2>3. Range(subs'[s]) \subseteq Range(subs[s]) \cup {other}
    BY <1>2, <1>3
  <2> QED BY <2>1, <2>2, <2>3
<1> QED BY <1>4, <1>5

(* A registration adds one handler to the set of its own router and class. *)
LEMMA RegisterAdds ==
  ASSUME RouterTypeOK, NEW h \in Handlers, Register(h)
  PROVE  /\ sets' \in [Routers -> [Event -> Seq(Handlers)]]
         /\ \A r \in Routers : \A class \in Event :
              \/ Range(sets'[r][class]) = Range(sets[r][class])
              \/ /\ r = decl[h].router /\ class = decl[h].class
                 /\ Range(sets'[r][class]) = Range(sets[r][class]) \cup {h}
<1>1. decl[h].router \in Routers /\ decl[h].class \in Event
  BY RouterAssumption DEF IsDeclaration
<1>2. CASE UNCHANGED sets
  BY <1>2 DEF RouterTypeOK
<1>3. CASE sets' = [sets EXCEPT ![decl[h].router][decl[h].class] = Append(@, h)]
  <2> DEFINE R == decl[h].router
             C == decl[h].class
  <2>1. sets[R][C] \in Seq(Handlers)
    BY <1>1 DEF RouterTypeOK
  <2>2. /\ Append(sets[R][C], h) \in Seq(Handlers)
        /\ Range(Append(sets[R][C], h)) = Range(sets[R][C]) \cup {h}
    BY <2>1, RangeOfAppend
  <2>3. /\ sets' \in [Routers -> [Event -> Seq(Handlers)]]
        /\ \A r \in Routers : \A class \in Event :
             sets'[r][class] = IF r = R /\ class = C THEN Append(sets[R][C], h) ELSE sets[r][class]
    <3> HIDE DEF R, C
    <3> QED BY <1>1, <1>3, <2>2 DEF RouterTypeOK, R, C
  <2> QED BY <2>2, <2>3
<1> QED BY <1>2, <1>3 DEF Register

(* The routers hold routers and handlers of the program, each handler on   *)
(* the router and for the class of its declaration, and form no cycle.     *)
RouterInv == RouterTypeOK /\ Acyclic /\ SetsMatch

(* At the start nothing is mounted and nothing registered.                 *)
LEMMA RouterInvHolds == RouterInit => RouterInv
<1> SUFFICES ASSUME RouterInit PROVE RouterInv
  OBVIOUS
<1>1. RouterTypeOK
  BY DEF RouterInit, RouterTypeOK
<1>2. \A s \in Routers : Range(subs[s]) = {} /\ \A class \in Event : Range(sets[s][class]) = {}
  BY DEF RouterInit, Range
<1> QED BY <1>1, <1>2 DEF Acyclic, SetsMatch, RouterInv

(* Every statement of the program keeps it.                                *)
LEMMA RouterInvKept == RouterInv /\ [RouterNext]_routerVars => RouterInv'
<1> SUFFICES ASSUME RouterInv, [RouterNext]_routerVars PROVE RouterInv'
  OBVIOUS
<1> USE DEF RouterInv
<1>1. ASSUME NEW r \in Routers, NEW other \in Routers, IncludeRouter(r, other)
      PROVE  RouterInv'
  <2>1. CASE UNCHANGED subs
    BY <1>1, <2>1 DEF IncludeRouter, RouterTypeOK, Acyclic, SetsMatch
  <2>2. CASE ~WouldCreateCycle(r, other) /\ subs' = [subs EXCEPT ![r] = Append(@, other)]
    <3>1. Acyclic'
      BY <2>2, IncludeKeepsAcyclic
    <3>2. Append(subs[r], other) \in Seq(Routers)
      BY RangeOfAppend DEF RouterTypeOK
    <3>3. RouterTypeOK' /\ SetsMatch'
      BY <1>1, <2>2, <3>2 DEF RouterTypeOK, SetsMatch, IncludeRouter
    <3> QED BY <3>1, <3>3
  <2> QED BY <1>1, <2>1, <2>2 DEF IncludeRouter
<1>2. ASSUME NEW h \in Handlers, Register(h)
      PROVE  RouterInv'
  <2>1. UNCHANGED subs
    BY <1>2 DEF Register
  <2>2. RouterTypeOK'
    BY <1>2, <2>1, RegisterAdds DEF RouterTypeOK
  <2>3. SetsMatch'
    <3> SUFFICES ASSUME NEW r \in Routers, NEW class \in Event, NEW g \in Range(sets'[r][class])
                 PROVE  decl[g].router = r /\ decl[g].class = class
      BY DEF SetsMatch
    <3>1. \/ Range(sets'[r][class]) = Range(sets[r][class])
          \/ /\ r = decl[h].router /\ class = decl[h].class
             /\ Range(sets'[r][class]) = Range(sets[r][class]) \cup {h}
      BY <1>2, RegisterAdds
    <3> QED BY <3>1 DEF SetsMatch
  <2> QED BY <2>1, <2>2, <2>3 DEF Acyclic
<1>3. CASE UNCHANGED routerVars
  BY <1>3 DEF routerVars, RouterTypeOK, Acyclic, SetsMatch
<1> QED BY <1>1, <1>2, <1>3 DEF RouterNext

(* For the program's statements alone: whatever is mounted and registered, *)
(* in whatever order, no cycle arises (router.py 174-198).                 *)
THEOREM RoutersAcyclic == RouterSpec => []RouterInv
BY RouterInvHolds, RouterInvKept, PTL DEF RouterSpec

(* Nothing is ever unmounted or unregistered. *)
LEMMA OnlyMore ==
  ASSUME RouterTypeOK, [RouterNext]_routerVars, NEW r \in Routers
  PROVE  /\ Range(subs[r]) \subseteq Range(subs'[r])
         /\ \A class \in Event : Range(sets[r][class]) \subseteq Range(sets'[r][class])
<1>1. ASSUME NEW q \in Routers, NEW other \in Routers, IncludeRouter(q, other)
      PROVE  /\ sets' = sets
             /\ Range(subs[r]) \subseteq Range(subs'[r])
  <2>1. CASE UNCHANGED subs
    BY <1>1, <2>1 DEF IncludeRouter
  <2>2. CASE subs' = [subs EXCEPT ![q] = Append(@, other)]
    <3>1. Range(Append(subs[r], other)) = Range(subs[r]) \cup {other}
      BY RangeOfAppend DEF RouterTypeOK
    <3>2. subs'[r] = IF r = q THEN Append(subs[r], other) ELSE subs[r]
      BY <2>2 DEF RouterTypeOK
    <3>3. sets' = sets
      BY <1>1 DEF IncludeRouter
    <3> QED BY <3>1, <3>2, <3>3
  <2> QED BY <1>1, <2>1, <2>2 DEF IncludeRouter
<1>2. ASSUME NEW h \in Handlers, Register(h)
      PROVE  /\ subs' = subs
             /\ \A class \in Event : Range(sets[r][class]) \subseteq Range(sets'[r][class])
  <2>1. subs' = subs
    BY <1>2 DEF Register
  <2> QED BY <1>2, <2>1, RegisterAdds
<1>3. CASE UNCHANGED routerVars
  BY <1>3 DEF routerVars
<1> QED BY <1>1, <1>2, <1>3 DEF RouterNext

(* So what a traversal meets, and what is registered there, only grows. *)
LEMMA ReachableGrows ==
  ASSUME RouterTypeOK, RouterTypeOK', [RouterNext]_routerVars, NEW r \in Routers
  PROVE  Reachable(r) \subseteq Reachable(r)'
<1> SUFFICES ASSUME NEW s \in Reachable(r), NEW S \in SUBSET Routers,
                    r \in S, \A q \in S : Range(subs'[q]) \subseteq S
             PROVE  s \in S
  BY DEF Reachable, ClosedUnderSubs
<1>1. \A q \in S : Range(subs[q]) \subseteq S
  BY OnlyMore
<1> QED BY <1>1 DEF Reachable, ClosedUnderSubs

-----------------------------------------------------------------------------
(* The events that reach a worker. *)

(* The soft events are among the classes.                                  *)
LEMMA SoftClasses == SoftEvents \subseteq Event
BY DEF Event, SoftEvents, SoftFields

(* event_from_proto makes one of them. *)
LEMMA EventHasClass ==
  ASSUME NEW m \in DOMAIN event
  PROVE  m \in Msgs /\ Recognised(wire[m]) /\ event[m].class \in Event
<1>1. m \in Msgs /\ Recognised(wire[m]) /\ event[m] = EventFromProto(wire[m])
  BY DEF event
<1>2. event[m].class = ClassOf[wire[m].kind]
  BY <1>1 DEF EventFromProto
<1>3. \A kind \in DOMAIN ClassOf : ClassOf[kind] \in Event
  BY DEF Event, ClassOf, StatusFields, GroupFields, SoftFields
<1> QED BY <1>1, <1>2, <1>3 DEF Recognised

(* With every handler in its own set, dispatch collects exactly the        *)
(* handlers for the class on the routers under the root.                   *)
LEMMA CollectIsSnapshot ==
  ASSUME RouterInv, NEW class \in Event
  PROVE  /\ Collect(Root, class) \in Seq(Handlers)
         /\ IsSnapshot(Collect(Root, class), class)
<1> DEFINE snap == Collect(Root, class)
           all == {h \in UNION {Registered(r) : r \in Reached} : decl[h].class = class}
<1>1. Root \in Routers
  BY RouterAssumption
<1>2. /\ snap \in Seq(Handlers)
      /\ \A h : h \in Range(snap) <=> \E t \in Reached : h \in Range(sets[t][class])
  BY <1>1, CollectFinds DEF RouterInv, Reached
<1>3. Reached \subseteq Routers
  BY DEF Reached, Reachable
<1>4. ASSUME NEW h, NEW t \in Reached, h \in Range(sets[t][class])
      PROVE  h \in all
  BY <1>3, <1>4 DEF Registered, RouterInv, SetsMatch
<1>5. ASSUME NEW h \in all
      PROVE  \E t \in Reached : h \in Range(sets[t][class])
  <2>1. PICK t \in Reached : h \in Registered(t)
    OBVIOUS
  <2>2. PICK c \in Event : h \in Range(sets[t][c])
    BY <2>1 DEF Registered
  <2>3. decl[h].class = c
    BY <1>3, <2>2 DEF RouterInv, SetsMatch
  <2> QED BY <2>2, <2>3
<1>6. Range(snap) = all
  <2> HIDE DEF snap, all
  <2> QED BY <1>2, <1>4, <1>5
<1>7. \A k, l \in DOMAIN snap : k < l /\ decl[snap[l]].router = Root => decl[snap[k]].router = Root
  BY <1>1, OwnHandlersFirst DEF RouterInv
<1> QED BY <1>2, <1>6, <1>7 DEF IsSnapshot

-----------------------------------------------------------------------------
(* The subscription. *)

(* A router has a soft handler itself when one of its handlers is for a    *)
(* soft event.                                                             *)
LEMMA SoftHandlersAre ==
  ASSUME RouterInv
  PROVE  (\E t \in Reached : HasSoftItself(t)) <=> SoftHandlers # {}
<1>1. Reached \subseteq Routers
  BY DEF Reached, Reachable
<1>2. ASSUME NEW t \in Routers, NEW class \in Event
      PROVE  sets[t][class] # <<>> <=> \E h : h \in Range(sets[t][class])
  <2> DEFINE q == sets[t][class]
  <2>1. q \in Seq(Handlers)
    BY DEF RouterInv, RouterTypeOK
  <2> SUFFICES q # <<>> <=> \E h : h \in Range(q)
    OBVIOUS
  <2> HIDE DEF q
  <2>2. CASE q = <<>>
    BY <2>2 DEF Range
  <2>3. CASE q # <<>>
    <3>1. 1 \in DOMAIN q
      BY <2>1, <2>3
    <3> QED BY <2>3, <3>1 DEF Range
  <2> QED BY <2>2, <2>3
<1>3. ASSUME NEW t \in Reached, HasSoftItself(t)
      PROVE  SoftHandlers # {}
  <2>1. PICK class \in SoftEvents : sets[t][class] # <<>>
    BY <1>3 DEF HasSoftItself
  <2>2. class \in Event
    BY SoftClasses
  <2>3. PICK h : h \in Range(sets[t][class])
    BY <1>1, <1>2, <2>1, <2>2
  <2>4. decl[h].class = class /\ h \in Registered(t)
    BY <1>1, <2>2, <2>3 DEF RouterInv, SetsMatch, Registered
  <2> QED BY <2>4 DEF SoftHandlers
<1>4. ASSUME SoftHandlers # {}
      PROVE  \E t \in Reached : HasSoftItself(t)
  <2>1. PICK h \in SoftHandlers : TRUE
    BY <1>4
  <2>2. PICK t \in Reached : h \in Registered(t)
    BY DEF SoftHandlers
  <2>3. PICK class \in Event : h \in Range(sets[t][class])
    BY <2>2 DEF Registered
  <2>4. decl[h].class = class /\ class \in SoftEvents
    BY <1>1, <2>3 DEF RouterInv, SetsMatch, SoftHandlers
  <2>5. sets[t][class] # <<>>
    BY <1>1, <1>2, <2>3
  <2> QED BY <2>4, <2>5 DEF HasSoftItself
<1> QED BY <1>3, <1>4

(* HasSoftEventHandlers of the root is what SoftOnDemand says.             *)
LEMMA SoftIsAsked ==
  ASSUME RouterInv
  PROVE  HasSoftEventHandlers(Root) = (SoftHandlers # {})
<1>1. Root \in Routers
  BY RouterAssumption
<1>2. /\ HasSoftEventHandlers(Root) \in BOOLEAN
      /\ HasSoftEventHandlers(Root) <=> \E t \in Reached : HasSoftItself(t)
  BY <1>1, SoftFinds DEF RouterInv, Reached
<1>3. (\E t \in Reached : HasSoftItself(t)) <=> SoftHandlers # {}
  BY SoftHandlersAre
<1> QED BY <1>2, <1>3

(* A soft handler stays one. *)
LEMMA SoftHandlersGrow ==
  ASSUME RouterInv, RouterInv', [RouterNext]_routerVars
  PROVE  SoftHandlers \subseteq SoftHandlers'
<1>1. RouterTypeOK /\ RouterTypeOK' /\ Root \in Routers
  BY RouterAssumption DEF RouterInv
<1>2. Reached \subseteq Reached'
  BY <1>1, ReachableGrows DEF Reached
<1>3. Reached \subseteq Routers
  BY DEF Reached, Reachable
<1>4. ASSUME NEW h \in SoftHandlers
      PROVE  h \in SoftHandlers'
  <2>1. PICK t \in Reached : h \in Registered(t)
    BY DEF SoftHandlers
  <2>2. PICK class \in Event : h \in Range(sets[t][class])
    BY <2>1 DEF Registered
  <2>3. h \in Range(sets'[t][class])
    BY <1>1, <1>3, <2>2, OnlyMore
  <2>4. h \in Registered(t)'
    BY <2>3 DEF Registered
  <2>5. t \in Reached'
    BY <1>2
  <2>6. decl[h].class \in SoftEvents
    BY DEF SoftHandlers
  <2> QED BY <2>4, <2>5, <2>6 DEF SoftHandlers
<1> QED BY <1>4

-----------------------------------------------------------------------------
(* One worker. *)

(* What is known of the filters of the candidate a worker has come to:     *)
(* those before the one to be asked have passed, and the match is that of  *)
(* the first among them with one to offer.                                 *)
ChainOf(w) == decl[w.snap[w.i]].filters
Offering(w, l) == /\ ChainOf(w)[l] \in Exprs
                  /\ Evaluate(ChainOf(w)[l], event[w.msg]).match # NoMatch
PassedSoFar(w) ==
  /\ 1..(w.j - 1) \subseteq DOMAIN ChainOf(w)
  /\ \A l \in 1..(w.j - 1) :
       ChainOf(w)[l] \in Exprs => Evaluate(ChainOf(w)[l], event[w.msg]).passed
OfferedBy(w, l) ==
  /\ Offering(w, l)
  /\ \A k \in 1..(l - 1) : ~Offering(w, k)
  /\ w.match = Evaluate(ChainOf(w)[l], event[w.msg]).match
MatchSoFar(w) ==
  \/ w.match = NoMatch /\ \A l \in 1..(w.j - 1) : ~Offering(w, l)
  \/ \E l \in 1..(w.j - 1) : OfferedBy(w, l)

(* All candidates before that one have declined. *)
DeclinedSoFar(w) ==
  /\ w.refused \cup w.skipped \subseteq 1..(w.i - 1)
  /\ \A k \in 1..(w.i - 1) : Declined(w, k)

(* Nothing has been asked yet. *)
Fresh(w) == w.i = 1 /\ w.j = 1 /\ w.match = NoMatch /\ w.refused = {} /\ w.skipped = {}

(* The invariant of a worker. *)
WorkerInv(w) ==
  /\ w \in Workers
  /\ w.pc \in {"idle", "dead"} \/ w.msg \in DOMAIN event
  /\ w.pc = "hook" => Fresh(w)
  /\ w.pc \in {"match", "handler"} => DeclinedSoFar(w)
  /\ w.pc = "match" => PassedSoFar(w) /\ MatchSoFar(w)

(* What FirstMatchWins says of one step of one worker. *)
StepIsRight(w, v) ==
  /\ w.pc = "hook" /\ v.pc = "match" => IsSnapshot(v.snap, event[w.msg].class)
  /\ w.pc = "match" /\ v.pc = "handler" =>
       /\ \A k \in 1..(w.i - 1) : Declined(w, k)
       /\ ~Declined(w, w.i)
       /\ MatchIsFirst(w)
  /\ w.pc = "match" /\ v.pc = "idle" => \A k \in DOMAIN w.snap : Declined(w, k)

(* A worker between two events, a dead one, and one that has just taken an *)
(* event.                                                                  *)
LEMMA WaitingIsRight ==
  /\ WorkerInv(Waiting) /\ WorkerInv([Waiting EXCEPT !.pc = "dead"])
  /\ \A m \in DOMAIN event : WorkerInv([Waiting EXCEPT !.pc = "hook", !.msg = m])
<1>1. Waiting \in Workers /\ Waiting.pc = "idle"
  BY DEF Waiting, Workers
<1>2. WorkerInv(Waiting)
  BY <1>1 DEF WorkerInv
<1>3. WorkerInv([Waiting EXCEPT !.pc = "dead"])
  <2> DEFINE w == [Waiting EXCEPT !.pc = "dead"]
  <2>1. w \in Workers
    BY <1>1 DEF Workers
  <2>2. w.pc = "dead"
    BY <1>1 DEF Workers
  <2> QED BY <2>1, <2>2 DEF WorkerInv
<1>4. ASSUME NEW m \in DOMAIN event
      PROVE  WorkerInv([Waiting EXCEPT !.pc = "hook", !.msg = m])
  <2> DEFINE w == [Waiting EXCEPT !.pc = "hook", !.msg = m]
  <2>1. m \in Msgs
    BY EventHasClass
  <2>2. w \in Workers
    BY <1>1, <2>1 DEF Workers
  <2>3. w.pc = "hook" /\ w.msg = m
    BY <1>1 DEF Workers
  <2>4. Fresh(w)
    BY DEF Waiting, Fresh
  <2> HIDE DEF w
  <2>5. WorkerInv(w)
    BY <2>2, <2>3, <2>4 DEF WorkerInv
  <2> QED BY <2>5 DEF w
<1> QED BY <1>2, <1>3, <1>4

(* The fields of a worker's record. *)
LEMMA WorkerFields ==
  ASSUME NEW w \in Workers
  PROVE  /\ w.pc \in {"idle", "hook", "match", "handler", "report", "dead"}
         /\ w.msg \in Msgs \cup {None} /\ w.snap \in Seq(Handlers)
         /\ w.i \in Nat \ {0} /\ w.j \in Nat \ {0}
         /\ w.match \in Exprs \cup {NoMatch}
         /\ w.refused \in SUBSET Nat /\ w.skipped \in SUBSET Nat
BY DEF Workers

(* The chain of a candidate is a sequence of filters. *)
LEMMA CandidateHasChain ==
  ASSUME NEW w \in Workers, NEW k \in DOMAIN w.snap
  PROVE  decl[w.snap[k]].filters \in Seq(Exprs \cup Callables)
<1>1. w.snap[k] \in Handlers
  BY WorkerFields
<1> QED BY <1>1, RouterAssumption DEF IsDeclaration

(* A worker goes on to the next candidate when this one has declined. *)
LEMMA NextCandidate ==
  ASSUME NEW w \in Workers, w.msg \in DOMAIN event,
         w.refused \cup w.skipped \subseteq 1..w.i,
         \A k \in 1..w.i : Declined(w, k)
  PROVE  WorkerInv(NextHandler(w)) /\ NextHandler(w).pc = "match"
<1> DEFINE v == NextHandler(w)
<1>1. /\ w.i \in Nat \ {0} /\ w.i + 1 \in Nat \ {0} /\ (w.i + 1) - 1 = w.i
      /\ 1 \in Nat \ {0} /\ NoMatch \in Exprs \cup {NoMatch}
  BY WorkerFields
<1>2. v \in Workers
  BY <1>1 DEF NextHandler, Workers
<1>3. /\ v.pc = "match" /\ v.msg = w.msg /\ v.snap = w.snap /\ v.i = w.i + 1 /\ v.j = 1
      /\ v.match = NoMatch /\ v.refused = w.refused /\ v.skipped = w.skipped
  BY <1>1 DEF NextHandler, Workers
<1> HIDE DEF v
<1>4. \A k : Declined(v, k) <=> Declined(w, k)
  BY <1>3 DEF Declined
<1>5. DeclinedSoFar(v)
  BY <1>1, <1>3, <1>4 DEF DeclinedSoFar
<1>6. 1..(v.j - 1) = {}
  BY <1>3
<1>7. PassedSoFar(v) /\ MatchSoFar(v)
  BY <1>3, <1>6 DEF PassedSoFar, MatchSoFar
<1>8. WorkerInv(v) /\ v.pc = "match"
  BY <1>2, <1>3, <1>5, <1>7 DEF WorkerInv
<1> QED BY <1>8 DEF v

(* A filter has passed; r is what it offers. *)
LEMMA FilterPasses ==
  ASSUME NEW w, WorkerInv(w), w.pc = "match", w.j \in DOMAIN ChainOf(w),
         NEW r \in Exprs \cup {NoMatch},
         \/ ChainOf(w)[w.j] \notin Exprs /\ r = NoMatch
         \/ /\ ChainOf(w)[w.j] \in Exprs
            /\ Evaluate(ChainOf(w)[w.j], event[w.msg]).passed
            /\ r = Evaluate(ChainOf(w)[w.j], event[w.msg]).match
  PROVE  WorkerInv([w EXCEPT !.j = @ + 1, !.match = Either(@, r)])
<1> DEFINE v == [w EXCEPT !.j = @ + 1, !.match = Either(@, r)]
           J == w.j
<1>1. /\ w \in Workers /\ J \in Nat \ {0} /\ w.match \in Exprs \cup {NoMatch}
      /\ w.msg \in DOMAIN event /\ DeclinedSoFar(w) /\ PassedSoFar(w) /\ MatchSoFar(w)
  BY WorkerFields DEF WorkerInv
<1>0. J + 1 \in Nat \ {0} /\ Either(w.match, r) \in Exprs \cup {NoMatch}
  BY <1>1 DEF Either
<1>9. v \in Workers
  BY <1>0, <1>1 DEF Workers
<1>2. /\ v.pc = "match" /\ v.msg = w.msg /\ v.snap = w.snap /\ v.i = w.i /\ v.j = J + 1
      /\ v.match = Either(w.match, r) /\ v.refused = w.refused /\ v.skipped = w.skipped
  BY <1>0, <1>1 DEF Workers
<1> HIDE DEF v, J
<1>3. /\ ChainOf(v) = ChainOf(w)
      /\ \A l : Offering(v, l) <=> Offering(w, l)
      /\ \A k : Declined(v, k) <=> Declined(w, k)
  BY <1>2 DEF ChainOf, Offering, Declined
<1>4. DeclinedSoFar(v)
  BY <1>1, <1>2, <1>3 DEF DeclinedSoFar
<1>5. (J + 1) - 1 = J /\ 1..J = (1..(J - 1)) \cup {J} /\ J \in 1..J
  BY <1>1
<1>6. PassedSoFar(v)
  BY <1>1, <1>2, <1>3, <1>5 DEF PassedSoFar, J
<1>7. MatchSoFar(v)
  <2>1. CASE w.match = NoMatch /\ \A l \in 1..(J - 1) : ~Offering(w, l)
    <3>1. v.match = r
      BY <1>2, <2>1 DEF Either
    <3>2. CASE r = NoMatch
      <4>1. ~Offering(w, J)
        BY <3>2 DEF Offering, J
      <4> QED BY <1>2, <1>3, <1>5, <2>1, <3>1, <3>2, <4>1 DEF MatchSoFar
    <3>3. CASE r # NoMatch
      <4>1. Offering(v, J) /\ v.match = Evaluate(ChainOf(v)[J], event[v.msg]).match
        BY <1>2, <1>3, <3>1, <3>3 DEF Offering, J
      <4>2. OfferedBy(v, J)
        BY <1>3, <2>1, <4>1 DEF OfferedBy
      <4> QED BY <1>2, <1>5, <4>2 DEF MatchSoFar
    <3> QED BY <3>2, <3>3
  <2>2. ASSUME NEW l \in 1..(J - 1), OfferedBy(w, l)
        PROVE  MatchSoFar(v)
    <3>1. v.match = w.match
      BY <1>2, <2>2 DEF Either, OfferedBy, Offering
    <3>2. OfferedBy(v, l)
      BY <1>2, <1>3, <2>2, <3>1 DEF OfferedBy
    <3> QED BY <1>2, <1>5, <3>2 DEF MatchSoFar
  <2> QED BY <1>1, <2>1, <2>2 DEF MatchSoFar, J
<1> QED BY <1>9, <1>1, <1>2, <1>4, <1>6, <1>7 DEF WorkerInv, v

(* The chain has been passed whole. *)
LEMMA ChainPassed ==
  ASSUME NEW w, WorkerInv(w), w.pc = "match",
         w.i \in DOMAIN w.snap, w.j > Len(ChainOf(w))
  PROVE  ~Declined(w, w.i) /\ MatchIsFirst(w)
<1> DEFINE chain == ChainOf(w)
           ev == event[w.msg]
           offers == {l \in DOMAIN chain : Offering(w, l)}
<1>1. /\ w \in Workers /\ w.i \in Nat \ {0} /\ w.j \in Nat \ {0}
      /\ DeclinedSoFar(w) /\ PassedSoFar(w) /\ MatchSoFar(w)
  BY WorkerFields DEF WorkerInv
<1>2. chain \in Seq(Exprs \cup Callables)
  BY <1>1, CandidateHasChain DEF ChainOf
<1> HIDE DEF chain
<1>3. DOMAIN chain = 1..(w.j - 1)
  BY <1>1, <1>2 DEF PassedSoFar, chain
<1>4. ~Declined(w, w.i)
  <2>1. w.i \notin w.refused \cup w.skipped
    BY <1>1 DEF DeclinedSoFar
  <2>2. ASSUME NEW f \in Range(chain) \cap Exprs PROVE Evaluate(f, ev).passed
    <3>1. PICK l \in DOMAIN chain : chain[l] = f
      BY DEF Range
    <3> QED BY <1>1, <1>3, <3>1 DEF PassedSoFar, chain
  <2> QED BY <2>1, <2>2 DEF Declined, ChainOf, chain
<1>5. CASE w.match = NoMatch /\ \A l \in 1..(w.j - 1) : ~Offering(w, l)
  <2>1. offers = {}
    BY <1>3, <1>5
  <2> QED BY <1>4, <1>5, <2>1 DEF MatchIsFirst, Offering, ChainOf, chain
<1>6. ASSUME NEW l \in 1..(w.j - 1), OfferedBy(w, l)
      PROVE  MatchIsFirst(w)
  <2> DEFINE least(x) == x \in offers /\ \A k \in offers : x <= k
             first == CHOOSE x : least(x)
  <2>1. l \in offers /\ l \in Nat
    BY <1>3, <1>6 DEF OfferedBy
  <2>2. \A k \in offers : k \in Nat \ {0} /\ ~(k \in 1..(l - 1))
    BY <1>1, <1>3, <1>6 DEF OfferedBy
  <2>3. least(l)
    BY <2>1, <2>2
  <2>4. least(first)
    <3> HIDE DEF least
    <3> QED BY <2>3
  <2>5. first = l
    <3> HIDE DEF first, offers
    <3> QED BY <2>1, <2>2, <2>3, <2>4
  <2>6. (CHOOSE x \in offers : \A k \in offers : x <= k) = first
    OBVIOUS
  <2> HIDE DEF first
  <2>7. /\ chain[l] \in Exprs
        /\ w.match = Evaluate(chain[l], ev).match
        /\ w.match # NoMatch
    BY <1>6 DEF OfferedBy, Offering, chain
  <2>8. w.match \in RegexesOf(chain[l]) /\ Leaf(w.match, node[w.match], ev).passed
    BY <2>7, MatchIsOwn
  <2>9. MatchIsFirst(w) =
          (IF offers = {} THEN w.match = NoMatch
           ELSE LET f == CHOOSE x \in offers : \A k \in offers : x <= k IN
                /\ w.match \in RegexesOf(chain[f])
                /\ Leaf(w.match, node[w.match], ev).passed)
    BY DEF MatchIsFirst, Offering, ChainOf, chain
  <2> QED BY <2>1, <2>5, <2>6, <2>8, <2>9
<1> QED BY <1>1, <1>4, <1>5, <1>6 DEF MatchSoFar

(* A step of a worker: what it becomes is right, and so is the step. *)
Right(a, v) == Goes(a, v) /\ WorkerInv(v) /\ StepIsRight(worker[a], v)

(* A worker takes an event.                                                *)
LEMMA ReceiveIsRight ==
  ASSUME NEW a \in Accounts, WorkerInv(worker[a]), NEW m \in Msgs, Receive(a, m)
  PROVE  \E v : Right(a, v)
<1> DEFINE v == [Waiting EXCEPT !.pc = "hook", !.msg = m]
<1>1. m \in DOMAIN event
  BY DEF Receive, Streamed, event
<1>2. WorkerInv(v)
  BY <1>1, WaitingIsRight
<1>3. Goes(a, v) /\ worker[a].pc = "idle"
  BY DEF Receive, At
<1>4. StepIsRight(worker[a], v)
  BY <1>3 DEF StepIsRight
<1> QED BY <1>2, <1>3, <1>4 DEF Right

(* The hook ends, and dispatch collects.                                   *)
LEMMA HookIsRight ==
  ASSUME RouterInv, NEW a \in Accounts, WorkerInv(worker[a]), HookEnds(a)
  PROVE  \E v : Right(a, v)
<1> DEFINE w == worker[a]
           class == event[w.msg].class
           snap == Collect(Root, class)
           v == [w EXCEPT !.pc = "match", !.snap = snap]
<1>1. w \in Workers /\ w.pc = "hook" /\ w.msg \in DOMAIN event
  BY DEF HookEnds, At, WorkerInv
<1>2. snap \in Seq(Handlers) /\ IsSnapshot(snap, class)
  BY <1>1, EventHasClass, CollectIsSnapshot
<1> HIDE DEF snap
<1>3. v \in Workers
  BY <1>1, <1>2 DEF Workers
<1>4. /\ v.pc = "match" /\ v.snap = snap /\ v.msg = w.msg /\ v.i = w.i /\ v.j = w.j
      /\ v.match = w.match /\ v.refused = w.refused /\ v.skipped = w.skipped
  BY <1>1 DEF Workers
<1>5. Goes(a, v)
  BY DEF HookEnds, snap
<1> HIDE DEF v
<1>6. StepIsRight(w, v)
  BY <1>1, <1>2, <1>4 DEF StepIsRight
<1>7. Fresh(w)
  BY <1>1 DEF WorkerInv
<1>8. DeclinedSoFar(v) /\ PassedSoFar(v) /\ MatchSoFar(v)
  <2>1. 1..(v.i - 1) = {} /\ 1..(v.j - 1) = {} /\ v.match = NoMatch
    BY <1>4, <1>7 DEF Fresh
  <2>2. v.refused \cup v.skipped = {}
    BY <1>4, <1>7 DEF Fresh
  <2> QED BY <2>1, <2>2 DEF DeclinedSoFar, PassedSoFar, MatchSoFar
<1>9. WorkerInv(v)
  BY <1>1, <1>3, <1>4, <1>8 DEF WorkerInv
<1> QED BY <1>5, <1>6, <1>9 DEF Right

(* A step that comes to the next candidate, because the one at hand has    *)
(* declined.                                                               *)
LEMMA DeclineIsRight ==
  ASSUME NEW a \in Accounts, WorkerInv(worker[a]),
         worker[a].pc \in {"match", "handler"},
         NEW w \in Workers, Goes(a, NextHandler(w)),
         w.msg = worker[a].msg, w.snap = worker[a].snap, w.i = worker[a].i,
         worker[a].refused \subseteq w.refused, worker[a].skipped \subseteq w.skipped,
         w.refused \cup w.skipped \subseteq worker[a].refused \cup worker[a].skipped \cup {w.i},
         Declined(w, w.i)
  PROVE  \E v : Right(a, v)
<1> DEFINE u == worker[a]
<1>1. u \in Workers /\ u.msg \in DOMAIN event /\ DeclinedSoFar(u)
  BY DEF WorkerInv
<1>2. w.i \in Nat \ {0} /\ 1..w.i = (1..(w.i - 1)) \cup {w.i} /\ w.i \in 1..w.i
  BY WorkerFields
<1>3. w.refused \cup w.skipped \subseteq 1..w.i
  BY <1>1, <1>2 DEF DeclinedSoFar
<1>4. ASSUME NEW k \in 1..(w.i - 1) PROVE Declined(w, k)
  BY <1>1 DEF DeclinedSoFar, Declined
<1>5. \A k \in 1..w.i : Declined(w, k)
  BY <1>2, <1>4
<1>6. WorkerInv(NextHandler(w)) /\ NextHandler(w).pc = "match"
  BY <1>1, <1>3, <1>5, NextCandidate
<1>7. StepIsRight(u, NextHandler(w))
  BY <1>6 DEF StepIsRight
<1> QED BY <1>6, <1>7 DEF Right

(* A step that ends with on_error. *)
LEMMA ReportIsRight ==
  ASSUME NEW a \in Accounts, WorkerInv(worker[a]), worker[a].pc \in {"match", "handler"},
         Goes(a, [worker[a] EXCEPT !.pc = "report"])
  PROVE  \E v : Right(a, v)
<1> DEFINE w == worker[a]
           v == [w EXCEPT !.pc = "report"]
<1>1. w \in Workers /\ w.msg \in DOMAIN event
  BY DEF WorkerInv
<1>2. v \in Workers
  BY <1>1 DEF Workers
<1>3. v.pc = "report" /\ v.msg = w.msg
  BY <1>1 DEF Workers
<1>4. WorkerInv(v) /\ StepIsRight(w, v)
  <2> HIDE DEF v
  <2> QED BY <1>1, <1>2, <1>3 DEF WorkerInv, StepIsRight
<1> QED BY <1>4 DEF Right

(* The filters. *)
LEMMA FilterAt ==
  ASSUME NEW a \in Accounts, WorkerInv(worker[a]), MoreHandlers(a), MoreFilters(a)
  PROVE  /\ worker[a].i \in DOMAIN worker[a].snap
         /\ worker[a].j \in DOMAIN ChainOf(worker[a])
         /\ Filter(a) = ChainOf(worker[a])[worker[a].j]
         /\ Filter(a) \in Range(ChainOf(worker[a]))
<1> DEFINE w == worker[a]
<1>1. w \in Workers /\ w.snap \in Seq(Handlers) /\ w.i \in Nat \ {0} /\ w.j \in Nat \ {0}
  BY WorkerFields DEF WorkerInv
<1> HIDE DEF w
<1>2. w.i \in DOMAIN w.snap
  BY <1>1 DEF MoreHandlers, w
<1>3. ChainOf(w) \in Seq(Exprs \cup Callables)
  BY <1>1, <1>2, CandidateHasChain DEF ChainOf
<1>4. w.j <= Len(ChainOf(w))
  BY DEF MoreFilters, Chain, Current, ChainOf, w
<1>5. w.j \in DOMAIN ChainOf(w)
  BY <1>1, <1>3, <1>4
<1>6. Filter(a) = ChainOf(w)[w.j]
  BY DEF Filter, Chain, Current, ChainOf, w
<1> QED BY <1>2, <1>5, <1>6 DEF w, Range

(* An expression passes, or the candidate declines.                        *)
LEMMA ApplyExprIsRight ==
  ASSUME NEW a \in Accounts, WorkerInv(worker[a]), ApplyExpr(a)
  PROVE  \E v : Right(a, v)
<1> DEFINE w == worker[a]
           r == Evaluate(Filter(a), event[w.msg])
<1>1. /\ w.pc = "match" /\ MoreHandlers(a) /\ MoreFilters(a) /\ Filter(a) \in Exprs
      /\ w \in Workers
  BY DEF ApplyExpr, At, WorkerInv
<1>2. /\ w.i \in DOMAIN w.snap /\ w.j \in DOMAIN ChainOf(w)
      /\ Filter(a) = ChainOf(w)[w.j] /\ Filter(a) \in Range(ChainOf(w))
  BY <1>1, FilterAt
<1>3. r \in Results
  BY <1>1, EvaluateHasType
<1>4. CASE r.passed
  <2> DEFINE v == [w EXCEPT !.j = @ + 1, !.match = Either(@, r.match)]
  <2>1. Goes(a, v)
    BY <1>4 DEF ApplyExpr
  <2>2. r.match \in Exprs \cup {NoMatch}
    BY <1>3 DEF Results
  <2>3. WorkerInv(v)
    BY <1>1, <1>2, <1>4, <2>2, FilterPasses
  <2>4. v.pc = "match"
    BY <1>1 DEF Workers
  <2>5. StepIsRight(w, v)
    <3> HIDE DEF v
    <3> QED BY <1>1, <2>4 DEF StepIsRight
  <2> QED BY <2>1, <2>3, <2>5 DEF Right
<1>5. CASE ~r.passed
  <2>1. Goes(a, NextHandler(w))
    BY <1>5 DEF ApplyExpr
  <2>2. Declined(w, w.i)
    BY <1>1, <1>2, <1>5 DEF Declined, ChainOf
  <2> QED BY <1>1, <2>1, <2>2, DeclineIsRight
<1> QED BY <1>4, <1>5

(* A callable accepts, refuses or raises.                                  *)
LEMMA AskedIsRight ==
  ASSUME NEW a \in Accounts, WorkerInv(worker[a]),
         CallableAccepts(a) \/ CallableRefuses(a) \/ CallableRaises(a)
  PROVE  \E v : Right(a, v)
<1> DEFINE w == worker[a]
<1>1. /\ w.pc = "match" /\ MoreHandlers(a) /\ MoreFilters(a) /\ Filter(a) \notin Exprs
      /\ w \in Workers
  BY RouterAssumption DEF CallableAccepts, CallableRefuses, CallableRaises, AsksCallable, At, WorkerInv
<1>2. /\ w.j \in DOMAIN ChainOf(w) /\ Filter(a) = ChainOf(w)[w.j]
      /\ w.i \in Nat \ {0} /\ w.refused \in SUBSET Nat /\ w.match \in Exprs \cup {NoMatch}
  BY <1>1, FilterAt, WorkerFields
<1>3. CASE CallableAccepts(a)
  <2> DEFINE v == [w EXCEPT !.j = @ + 1, !.match = Either(@, NoMatch)]
             u == [w EXCEPT !.j = @ + 1]
  <2>1. WorkerInv(v)
    BY <1>1, <1>2, FilterPasses
  <2>2. u = v
    <3>1. Either(w.match, NoMatch) = w.match
      BY DEF Either
    <3> QED BY <1>1, <3>1 DEF Workers
  <2>3. Goes(a, u)
    BY <1>3 DEF CallableAccepts
  <2>4. u.pc = "match"
    BY <1>1 DEF Workers
  <2>5. StepIsRight(w, u)
    <3> HIDE DEF u
    <3> QED BY <1>1, <2>4 DEF StepIsRight
  <2> QED BY <2>1, <2>2, <2>3, <2>5 DEF Right
<1>4. CASE CallableRefuses(a)
  <2> DEFINE u == [w EXCEPT !.refused = @ \cup {w.i}]
  <2>1. Goes(a, NextHandler(u))
    BY <1>4 DEF CallableRefuses
  <2>2. w.refused \cup {w.i} \in SUBSET Nat
    BY <1>2
  <2>3. u \in Workers
    BY <1>1, <2>2 DEF Workers
  <2>4. /\ u.refused = w.refused \cup {w.i} /\ u.skipped = w.skipped
        /\ u.msg = w.msg /\ u.snap = w.snap /\ u.i = w.i
    BY <1>1 DEF Workers
  <2> HIDE DEF u
  <2>5. Declined(u, u.i)
    BY <2>4 DEF Declined
  <2> QED BY <1>1, <2>1, <2>3, <2>4, <2>5, DeclineIsRight
<1>5. CASE CallableRaises(a)
  BY <1>1, <1>5, ReportIsRight DEF CallableRaises
<1> QED BY <1>3, <1>4, <1>5

(* The handlers. *)
LEMMA InvokeIsRight ==
  ASSUME NEW a \in Accounts, WorkerInv(worker[a]), Invoke(a)
  PROVE  \E v : Right(a, v)
<1> DEFINE w == worker[a]
           v == [w EXCEPT !.pc = "handler"]
<1>1. w.pc = "match" /\ MoreHandlers(a) /\ ~MoreFilters(a)
  BY DEF Invoke, At
<1>2. /\ w \in Workers /\ w.msg \in DOMAIN event /\ DeclinedSoFar(w)
      /\ w.snap \in Seq(Handlers) /\ w.i \in Nat \ {0} /\ w.j \in Nat \ {0}
  BY <1>1, WorkerFields DEF WorkerInv
<1>3. w.i \in DOMAIN w.snap
  BY <1>1, <1>2 DEF MoreHandlers
<1>4. ChainOf(w) \in Seq(Exprs \cup Callables)
  BY <1>2, <1>3, CandidateHasChain DEF ChainOf
<1>5. ~(w.j <= Len(ChainOf(w)))
  BY <1>1 DEF MoreFilters, Chain, Current, ChainOf
<1>6. w.j > Len(ChainOf(w))
  BY <1>2, <1>4, <1>5
<1>7. ~Declined(w, w.i) /\ MatchIsFirst(w)
  BY <1>1, <1>3, <1>6, ChainPassed
<1>8. CASE Bindable(Current(a))
  <2>1. Goes(a, v)
    BY <1>8 DEF Invoke
  <2>2. v \in Workers
    BY <1>2 DEF Workers
  <2>3. /\ v.pc = "handler" /\ v.msg = w.msg /\ v.snap = w.snap /\ v.i = w.i
        /\ v.refused = w.refused /\ v.skipped = w.skipped
    BY <1>2 DEF Workers
  <2> HIDE DEF v
  <2>4. \A k : Declined(v, k) <=> Declined(w, k)
    BY <2>3 DEF Declined
  <2>5. DeclinedSoFar(v)
    BY <1>2, <2>3, <2>4 DEF DeclinedSoFar
  <2>6. WorkerInv(v)
    BY <1>2, <2>2, <2>3, <2>5 DEF WorkerInv
  <2>7. StepIsRight(w, v)
    BY <1>1, <1>2, <1>7, <2>3 DEF StepIsRight, DeclinedSoFar
  <2> QED BY <2>1, <2>6, <2>7 DEF Right
<1>9. CASE ~Bindable(Current(a))
  BY <1>1, <1>9, ReportIsRight DEF Invoke
<1> QED BY <1>8, <1>9

(* The handler raises SkipHandler.                                         *)
LEMMA SkipIsRight ==
  ASSUME NEW a \in Accounts, WorkerInv(worker[a]), HandlerSkips(a)
  PROVE  \E v : Right(a, v)
<1> DEFINE w == worker[a]
           u == [w EXCEPT !.skipped = @ \cup {w.i}]
<1>1. w.pc = "handler" /\ w \in Workers /\ w.i \in Nat \ {0} /\ w.skipped \in SUBSET Nat
  BY WorkerFields DEF HandlerSkips, At, WorkerInv
<1>2. Goes(a, NextHandler(u))
  BY DEF HandlerSkips
<1>3. w.skipped \cup {w.i} \in SUBSET Nat
  BY <1>1
<1>4. u \in Workers
  BY <1>1, <1>3 DEF Workers
<1>5. /\ u.skipped = w.skipped \cup {w.i} /\ u.refused = w.refused
      /\ u.msg = w.msg /\ u.snap = w.snap /\ u.i = w.i
  BY <1>1 DEF Workers
<1> HIDE DEF u
<1>6. Declined(u, u.i)
  BY <1>5 DEF Declined
<1> QED BY <1>1, <1>2, <1>4, <1>5, <1>6, DeclineIsRight

(* The ends of an event. *)
LEMMA EndIsRight ==
  ASSUME NEW a \in Accounts, WorkerInv(worker[a]),
         HandlerReturns(a) \/ NoneLeft(a) \/ ErrorReported(a) \/ StrayCancel(a)
  PROVE  \E v : Right(a, v)
<1> DEFINE w == worker[a]
           dead == [Waiting EXCEPT !.pc = "dead"]
<1>1. CASE NoneLeft(a)
  <2>1. w.pc = "match" /\ ~MoreHandlers(a) /\ Goes(a, Waiting)
    BY <1>1 DEF NoneLeft, At
  <2>2. w.snap \in Seq(Handlers) /\ w.i \in Nat \ {0} /\ DeclinedSoFar(w)
    BY <2>1, WorkerFields DEF WorkerInv
  <2>3. DOMAIN w.snap \subseteq 1..(w.i - 1)
    BY <2>1, <2>2 DEF MoreHandlers
  <2>4. \A k \in DOMAIN w.snap : Declined(w, k)
    BY <2>2, <2>3 DEF DeclinedSoFar
  <2>5. StepIsRight(w, Waiting)
    BY <2>1, <2>4 DEF StepIsRight, Waiting
  <2> QED BY <2>1, <2>5, WaitingIsRight DEF Right
<1>2. CASE HandlerReturns(a) \/ ErrorReported(a)
  <2>1. w.pc # "match" /\ Goes(a, Waiting)
    BY <1>2 DEF HandlerReturns, ErrorReported, At
  <2>2. StepIsRight(w, Waiting)
    BY <2>1 DEF StepIsRight, Waiting
  <2> QED BY <2>1, <2>2, WaitingIsRight DEF Right
<1>3. CASE StrayCancel(a)
  <2>1. Goes(a, dead)
    BY <1>3 DEF StrayCancel
  <2>2. dead.pc = "dead"
    BY DEF Waiting
  <2>3. StepIsRight(w, dead)
    BY <2>2 DEF StepIsRight
  <2> QED BY <2>1, <2>3, WaitingIsRight DEF Right
<1> QED BY <1>1, <1>2, <1>3

-----------------------------------------------------------------------------
(* The whole. *)

(* The stream was opened with soft events only if a handler wants them. *)
SoftWanted == subscribed = TRUE => SoftHandlers # {}

(* The inductive invariant: the routers', and that of each worker. *)
HandlingInv ==
  /\ RouterInv
  /\ subscribed \in BOOLEAN \cup {None}
  /\ SoftWanted
  /\ DOMAIN worker = Accounts /\ worker = [a \in Accounts |-> worker[a]]
  /\ \A a \in Accounts : WorkerInv(worker[a])

(* What SoftOnDemand says of one step. *)
SoftStepIsRight ==
  /\ subscribed' # subscribed => subscribed' = (SoftHandlers # {})
  /\ \A a \in Accounts :
       worker[a].pc = "idle" /\ worker'[a].pc = "hook" /\ IsSoft(worker'[a].msg)
         => SoftHandlers # {}

(* Every step keeps the invariant, and does what the two properties say. *)
StepsAreRight == \A a \in Accounts : StepIsRight(worker[a], worker'[a])
Kept == HandlingInv' /\ StepsAreRight /\ SoftStepIsRight

(* At the start no stream is open and every worker waits.                  *)
LEMMA InitIsRight == Init => HandlingInv
<1> SUFFICES ASSUME Init PROVE HandlingInv
  OBVIOUS
<1>1. RouterInv
  BY RouterInvHolds DEF Init
<1>2. subscribed = None /\ worker = [a \in Accounts |-> Waiting]
  BY DEF Init
<1>3. None # TRUE
  BY HandlingAssumption
<1> QED BY <1>1, <1>2, <1>3, WaitingIsRight DEF HandlingInv, SoftWanted

(* A worker that stays where it is does nothing wrong. *)
LEMMA StayingIsRight == \A w : StepIsRight(w, w)
BY DEF StepIsRight

(* A statement of the program leaves workers and reader alone.             *)
LEMMA ProgramIsRight == HandlingInv /\ ProgramStep => Kept
<1> SUFFICES ASSUME HandlingInv, ProgramStep PROVE Kept
  OBVIOUS
<1>1. RouterInv /\ RouterNext /\ subscribed' = subscribed /\ worker' = worker
  BY DEF HandlingInv, ProgramStep
<1>2. RouterInv'
  BY <1>1, RouterInvKept
<1>3. SoftHandlers \subseteq SoftHandlers'
  BY <1>1, <1>2, SoftHandlersGrow
<1>4. SoftWanted'
  BY <1>1, <1>3 DEF HandlingInv, SoftWanted
<1>5. \A a \in Accounts : WorkerInv(worker'[a])
  BY <1>1 DEF HandlingInv
<1>6. HandlingInv'
  BY <1>1, <1>2, <1>4, <1>5 DEF HandlingInv
<1>7. StepsAreRight /\ SoftStepIsRight
  BY <1>1, StayingIsRight DEF StepsAreRight, SoftStepIsRight
<1> QED BY <1>6, <1>7 DEF Kept

(* The reader opens the stream.                                            *)
LEMMA SubscribeIsRight == HandlingInv /\ Subscribe => Kept
<1> SUFFICES ASSUME HandlingInv, Subscribe PROVE Kept
  OBVIOUS
<1>1. /\ RouterInv /\ UNCHANGED routerVars /\ worker' = worker
      /\ subscribed' = HasSoftEventHandlers(Root)
  BY DEF HandlingInv, Subscribe
<1>2. subscribed' = (SoftHandlers # {})
  BY <1>1, SoftIsAsked
<1>3. RouterInv' /\ SoftHandlers' = SoftHandlers
  <2>1. subs' = subs /\ sets' = sets
    BY <1>1 DEF routerVars
  <2>2. RouterInv'
    BY <1>1, <2>1 DEF RouterInv, RouterTypeOK, Acyclic, SetsMatch
  <2>3. SoftHandlers' = SoftHandlers
    BY <2>1 DEF SoftHandlers, Reached, Registered, Reachable, ClosedUnderSubs
  <2> QED BY <2>2, <2>3
<1>4. SoftWanted' /\ subscribed' \in BOOLEAN \cup {None}
  BY <1>2, <1>3 DEF SoftWanted
<1>5. \A a \in Accounts : WorkerInv(worker'[a])
  BY <1>1 DEF HandlingInv
<1>6. HandlingInv'
  BY <1>1, <1>3, <1>4, <1>5 DEF HandlingInv
<1>7. StepsAreRight /\ SoftStepIsRight
  BY <1>1, <1>2, StayingIsRight DEF StepsAreRight, SoftStepIsRight
<1> QED BY <1>6, <1>7 DEF Kept

(* The step of one worker leaves everything else alone. *)
LEMMA RightIsKept ==
  ASSUME HandlingInv, NEW a \in Accounts, NEW v, Right(a, v),
         worker[a].pc = "idle" /\ v.pc = "hook" /\ IsSoft(v.msg) => SoftHandlers # {}
  PROVE  Kept
<1>1. /\ worker' = [worker EXCEPT ![a] = v]
      /\ subs' = subs /\ sets' = sets /\ subscribed' = subscribed
      /\ WorkerInv(v) /\ StepIsRight(worker[a], v)
  BY DEF Right, Goes, routerVars
<1>2. RouterInv' /\ SoftHandlers' = SoftHandlers
  <2>1. RouterInv'
    BY <1>1 DEF HandlingInv, RouterInv, RouterTypeOK, Acyclic, SetsMatch
  <2>2. SoftHandlers' = SoftHandlers
    BY <1>1 DEF SoftHandlers, Reached, Registered, Reachable, ClosedUnderSubs
  <2> QED BY <2>1, <2>2
<1>3. \A b \in Accounts : worker'[b] = IF b = a THEN v ELSE worker[b]
  BY <1>1 DEF HandlingInv
<1>4. \A b \in Accounts : WorkerInv(worker'[b])
  BY <1>1, <1>3 DEF HandlingInv
<1>5. DOMAIN worker' = Accounts /\ worker' = [b \in Accounts |-> worker'[b]]
  BY <1>1 DEF HandlingInv
<1>6. HandlingInv'
  BY <1>1, <1>2, <1>4, <1>5 DEF HandlingInv, SoftWanted
<1>7. StepsAreRight
  BY <1>1, <1>3, StayingIsRight DEF StepsAreRight
<1>8. SoftStepIsRight
  BY <1>1, <1>3 DEF SoftStepIsRight
<1> QED BY <1>6, <1>7, <1>8 DEF Kept

(* Any step of a worker.                                                   *)
LEMMA WorkerIsRight ==
  ASSUME HandlingInv, NEW a \in Accounts,
         (\E m \in Msgs : Receive(a, m)) \/ OwnStep(a) \/ UserStep(a)
  PROVE  Kept
<1>1. WorkerInv(worker[a]) /\ RouterInv
  BY DEF HandlingInv
<1>2. ASSUME NEW m \in Msgs, Receive(a, m)
      PROVE  Kept
  <2>1. PICK v : Right(a, v)
    BY <1>1, <1>2, ReceiveIsRight
  <2>2. IsSoft(m) => SoftHandlers # {}
    <3>1. IsSoft(m) => subscribed /\ subscribed # None
      BY <1>2 DEF Receive, Streamed
    <3>2. IsSoft(m) => subscribed = TRUE
      BY <3>1 DEF HandlingInv
    <3> QED BY <3>2 DEF HandlingInv, SoftWanted
  <2>3. worker'[a] = [Waiting EXCEPT !.pc = "hook", !.msg = m] /\ worker'[a] = v
    BY <1>2, <2>1 DEF Receive, Right, Goes, HandlingInv
  <2>4. v.msg = m
    BY <2>3 DEF Waiting
  <2> QED BY <2>1, <2>2, <2>4, RightIsKept
<1>3. ASSUME OwnStep(a) \/ UserStep(a)
      PROVE  Kept
  <2>1. worker[a].pc # "idle"
    BY <1>3 DEF OwnStep, UserStep, ApplyExpr, Invoke, NoneLeft, HookEnds, CallableAccepts,
                CallableRefuses, CallableRaises, AsksCallable, HandlerReturns, HandlerSkips,
                HandlerRaises, ErrorReported, StrayCancel, InUserCode, At
  <2>2. \E v : Right(a, v)
    <3>1. CASE ApplyExpr(a)
      BY <1>1, <3>1, ApplyExprIsRight
    <3>2. CASE Invoke(a)
      BY <1>1, <3>2, InvokeIsRight
    <3>3. CASE HookEnds(a)
      BY <1>1, <3>3, HookIsRight
    <3>4. CASE CallableAccepts(a) \/ CallableRefuses(a) \/ CallableRaises(a)
      BY <1>1, <3>4, AskedIsRight
    <3>5. CASE HandlerSkips(a)
      BY <1>1, <3>5, SkipIsRight
    <3>6. CASE HandlerRaises(a)
      BY <1>1, <3>6, ReportIsRight DEF HandlerRaises, At
    <3>7. CASE HandlerReturns(a) \/ NoneLeft(a) \/ ErrorReported(a) \/ StrayCancel(a)
      BY <1>1, <3>7, EndIsRight
    <3> QED BY <1>3, <3>1, <3>2, <3>3, <3>4, <3>5, <3>6, <3>7 DEF OwnStep, UserStep
  <2> QED BY <2>1, <2>2, RightIsKept
<1> QED BY <1>2, <1>3

(* No step at all.                                                         *)
LEMMA StutterIsRight == HandlingInv /\ UNCHANGED vars => Kept
<1> SUFFICES ASSUME HandlingInv, UNCHANGED vars PROVE Kept
  OBVIOUS
<1>1. subs' = subs /\ sets' = sets /\ subscribed' = subscribed /\ worker' = worker
  BY DEF vars
<1>2. RouterInv'
  BY <1>1 DEF HandlingInv, RouterInv, RouterTypeOK, Acyclic, SetsMatch
<1>3. SoftHandlers' = SoftHandlers
  BY <1>1 DEF SoftHandlers, Reached, Registered, Reachable, ClosedUnderSubs
<1>4. \A a \in Accounts : WorkerInv(worker'[a])
  BY <1>1 DEF HandlingInv
<1>5. HandlingInv'
  BY <1>1, <1>2, <1>3, <1>4 DEF HandlingInv, SoftWanted
<1>6. StepsAreRight /\ SoftStepIsRight
  BY <1>1, StayingIsRight DEF StepsAreRight, SoftStepIsRight
<1> QED BY <1>5, <1>6 DEF Kept

(* Any step.                                                               *)
LEMMA NextIsRight == HandlingInv /\ [Next]_vars => Kept
BY ProgramIsRight, SubscribeIsRight, WorkerIsRight, StutterIsRight DEF Next

(* So the invariant holds throughout.                                      *)
LEMMA HandlingInvHolds == Spec => []HandlingInv
<1>1. HandlingInv /\ [Next]_vars => HandlingInv'
  BY NextIsRight DEF Kept
<1> QED BY InitIsRight, <1>1, PTL DEF Spec

(* Routers, workers and the subscription have their types: in particular   *)
(* what filters evaluate to, and what dispatch collects.                   *)
THEOREM HandlingTypeOK == Spec => []TypeOK
<1>1. HandlingInv => TypeOK
  <2> SUFFICES ASSUME HandlingInv PROVE TypeOK
    OBVIOUS
  <2>1. ASSUME NEW a \in Accounts
        PROVE  worker[a] \in Workers /\ (worker[a].pc \in {"idle", "dead"} \/ worker[a].msg # None)
    <3>1. WorkerInv(worker[a])
      BY DEF HandlingInv
    <3>2. worker[a].msg \in DOMAIN event => worker[a].msg # None
      BY EventHasClass, HandlingAssumption
    <3> QED BY <3>1, <3>2 DEF WorkerInv
  <2>2. worker \in [Accounts -> Workers]
    BY <2>1 DEF HandlingInv
  <2> QED BY <2>1, <2>2 DEF HandlingInv, RouterInv, TypeOK
<1> QED BY <1>1, HandlingInvHolds, PTL

(* The workers and the reader never touch the routers: with them the       *)
(* program's statements are still a behaviour of RouterSpec.               *)
THEOREM RoutersUndisturbed == Spec => RouterSpec
<1>1. Init => RouterInit
  BY DEF Init
<1>2. [Next]_vars => [RouterNext]_routerVars
  <2> SUFFICES ASSUME [Next]_vars PROVE [RouterNext]_routerVars
    OBVIOUS
  <2>1. CASE ProgramStep
    BY <2>1 DEF ProgramStep
  <2>2. CASE Subscribe
    BY <2>2 DEF Subscribe
  <2>3. ASSUME NEW a \in Accounts, NEW m \in Msgs, Receive(a, m)
        PROVE  UNCHANGED routerVars
    BY <2>3 DEF Receive, Goes
  <2>4. ASSUME NEW a \in Accounts, OwnStep(a)
        PROVE  UNCHANGED routerVars
    BY <2>4 DEF OwnStep, ApplyExpr, Invoke, NoneLeft, Goes
  <2>5. ASSUME NEW a \in Accounts, UserStep(a)
        PROVE  UNCHANGED routerVars
    BY <2>5 DEF UserStep, HookEnds, CallableAccepts, CallableRefuses,
                CallableRaises, HandlerReturns, HandlerSkips, HandlerRaises,
                ErrorReported, StrayCancel, Goes
  <2>6. CASE UNCHANGED vars
    BY <2>6 DEF vars, routerVars
  <2> QED BY <2>1, <2>2, <2>3, <2>4, <2>5, <2>6 DEF Next
<1> QED BY <1>1, <1>2, PTL DEF Spec, RouterSpec

(* Dispatch and subscription therefore always traverse a tree or a         *)
(* diamond, never a cycle.                                                 *)
THEOREM NoCycle == Spec => []Acyclic
<1>1. RouterInv => Acyclic
  BY DEF RouterInv
<1> QED BY <1>1, RoutersUndisturbed, RoutersAcyclic, PTL

(* At most one handler takes an event: the first of the snapshot whose     *)
(* filters pass and that does not skip, with its first match; and a        *)
(* dispatch without one ends only when all have declined.                  *)
THEOREM TheFirstMatchWins == Spec => FirstMatchWins
<1>1. HandlingInv /\ [Next]_vars => StepsAreRight
  BY NextIsRight DEF Kept
<1>2. StepsAreRight =>
        \A a \in Accounts :
          LET w == worker[a] v == worker'[a] IN
          /\ w.pc = "hook" /\ v.pc = "match" => IsSnapshot(v.snap, event[w.msg].class)
          /\ w.pc = "match" /\ v.pc = "handler" =>
               /\ \A k \in 1..(w.i - 1) : Declined(w, k)
               /\ ~Declined(w, w.i)
               /\ MatchIsFirst(w)
          /\ w.pc = "match" /\ v.pc = "idle" => \A k \in DOMAIN w.snap : Declined(w, k)
  BY DEF StepsAreRight, StepIsRight
<1> QED BY <1>1, <1>2, HandlingInvHolds, PTL DEF Spec, FirstMatchWins

(* The stream asks for soft events exactly when a router below the root    *)
(* has a handler for them, and none comes to a worker otherwise.           *)
THEOREM SoftComesOnDemand == Spec => SoftOnDemand
<1>1. HandlingInv /\ [Next]_vars => SoftStepIsRight
  BY NextIsRight DEF Kept
<1> QED BY <1>1, HandlingInvHolds, PTL DEF Spec, SoftOnDemand, SoftStepIsRight
=============================================================================
