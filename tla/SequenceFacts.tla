----------------------------- MODULE SequenceFacts -----------------------------
(***************************************************************************)
(* Induction over the natural numbers, what FoldLeft of the community      *)
(* modules computes (it is defined by a recursive function on the sets of  *)
(* indices, that is, by a CHOOSE, so that there is such a function has to  *)
(* be proved), and what is left in a sub-sequence.  The operator of the    *)
(* fold is a constant: a module takes these facts by INSTANCE, with an     *)
(* operator of its own.                                                    *)
(***************************************************************************)
EXTENDS Integers, Sequences, SequencesExt, Subsequences, SequenceTheorems,
        FiniteSetTheorems, WellFoundedInduction, TLAPS

\* What the steps of a fold have in common is p.
CONSTANT Op(_, _, _)

Fold(p, base, seq) == FoldLeft(LAMBDA v, e : Op(p, v, e), base, seq)

\* Induction, for a set in the place of a predicate.
LEMMA SetInduction ==
  ASSUME NEW S, 0 \in S, \A n \in Nat : n \in S => n + 1 \in S
  PROVE  Nat \subseteq S
<1> DEFINE R == OpToRel(<, Nat)
           T == Nat \ S
<1>1. IsWellFoundedOn(R, Nat)
  BY NatLessThanWellFounded, Zenon DEF OpToRel
<1>2. CASE T # {}
  <2> HIDE DEF R, T
  <2>1. T \subseteq Nat
    BY DEF T
  <2>2. \E x \in T : \A y \in T : ~ (<< y, x >> \in R)
    BY ONLY <1>1, <1>2, <2>1, WFMin
  <2>3. PICK x \in T : \A y \in T : ~ (<< y, x >> \in R)
    BY <2>2
  <2>4. x \in Nat /\ x \notin S /\ x # 0
    BY <2>3 DEF T
  <2>5. x - 1 \in Nat /\ x - 1 < x
    BY <2>4
  <2>6. << x - 1, x >> \in R
    BY <2>4, <2>5 DEF R, OpToRel
  <2>7. x - 1 \in S
    BY <2>3, <2>5, <2>6 DEF T
  <2> QED
    BY <2>4, <2>5, <2>7
<1> QED
  BY <1>2

LEMMA MaxOf ==
  ASSUME NEW n \in Nat, NEW s \in SUBSET (1 .. n), s # {}
  PROVE  Max(s) \in s /\ \A y \in s : y <= Max(s)
<1> DEFINE S == { k \in Nat : \A t \in SUBSET (1 .. k) :
                     t # {} => \E x \in t : \A y \in t : x >= y }
<1>1. 0 \in S
  <2>1. 1 .. 0 = {}
    OBVIOUS
  <2> QED
    BY <2>1
<1>2. ASSUME NEW k \in Nat, k \in S PROVE k + 1 \in S
  <2> SUFFICES ASSUME NEW t \in SUBSET (1 .. k + 1), t # {}
               PROVE  \E x \in t : \A y \in t : x >= y
    OBVIOUS
  <2>1. CASE k + 1 \in t
    BY <2>1
  <2>2. CASE k + 1 \notin t
    <3>1. t \in SUBSET (1 .. k)
      BY <2>2
    <3> QED
      BY <1>2, <3>1
  <2> QED
    BY <2>1, <2>2
<1>3. Nat \subseteq S
  <2> HIDE DEF S
  <2> QED
    BY <1>1, <1>2, SetInduction
<1>4. \E x \in s : \A y \in s : x >= y
  BY <1>3
<1>5. /\ Max(s) \in s
      /\ \A y \in s : Max(s) >= y
  BY <1>4 DEF Max
<1> QED
  BY <1>5

LEMMA LeastOf ==
  ASSUME NEW n \in Nat, NEW s \in SUBSET (1 .. n), s # {}
  PROVE  \E x \in s : \A y \in s : x <= y
<1> DEFINE t == { k \in 1 .. n : n + 1 - k \in s }
<1>1. PICK x \in s : TRUE
  OBVIOUS
<1>2. n + 1 - x \in t
  OBVIOUS
<1>3. Max(t) \in t /\ \A k \in t : k <= Max(t)
  <2> HIDE DEF t
  <2>1. t \in SUBSET (1 .. n) /\ t # {}
    BY <1>2 DEF t
  <2> QED
    BY <2>1, MaxOf
<1> DEFINE m == Max(t)
<1> HIDE DEF m
<1>4. m \in t /\ \A k \in t : k <= m
  BY <1>3 DEF m
<1>5. n + 1 - m \in s
  BY <1>4
<1>6. ASSUME NEW y \in s PROVE n + 1 - m <= y
  <2>1. n + 1 - y \in t
    OBVIOUS
  <2> QED
    BY <1>4, <2>1
<1> QED
  BY <1>5, <1>6

-----------------------------------------------------------------------------

\* The recursive function by which FoldLeft is defined.
Iterates(p, f, base, seq, D) ==
    f = [ s \in SUBSET D |-> IF s = {} THEN base
                             ELSE LET x == Max(s) IN Op(p, f[s \ {x}], seq[x]) ]

LEMMA IterateExists ==
  ASSUME NEW p, NEW base, NEW seq, NEW n \in Nat
  PROVE  \E f : Iterates(p, f, base, seq, 1 .. n)
<1> DEFINE S == { k \in Nat : \E f : Iterates(p, f, base, seq, 1 .. k) }
<1>1. 0 \in S
  <2> DEFINE f == [ s \in {{}} |-> base ]
  <2>1. SUBSET (1 .. 0) = {{}}
    OBVIOUS
  <2>2. Iterates(p, f, base, seq, 1 .. 0)
    BY <2>1 DEF Iterates
  <2> QED
    BY <2>2
<1>2. ASSUME NEW k \in Nat, k \in S PROVE k + 1 \in S
  <2>1. PICK f : Iterates(p, f, base, seq, 1 .. k)
    BY <1>2
  <2> DEFINE g == [ s \in SUBSET (1 .. k + 1) |->
                      IF k + 1 \in s THEN Op(p, f[s \ {k + 1}], seq[k + 1]) ELSE f[s] ]
  <2>2. ASSUME NEW s \in SUBSET (1 .. k + 1)
        PROVE  g[s] = IF s = {} THEN base ELSE LET x == Max(s) IN Op(p, g[s \ {x}], seq[x])
    <3>1. CASE k + 1 \in s
      <4>1. Max(s) = k + 1
        <5>1. k + 1 \in Nat /\ s # {}
          BY <3>1
        <5>2. Max(s) \in s /\ \A y \in s : y <= Max(s)
          BY <5>1, MaxOf
        <5>3. Max(s) \in 1 .. k + 1 /\ k + 1 <= Max(s)
          BY <5>2, <3>1
        <5> QED
          BY <5>3
      <4>2. s \ {k + 1} \in SUBSET (1 .. k + 1) /\ k + 1 \notin s \ {k + 1}
        OBVIOUS
      <4>3. g[s \ {k + 1}] = f[s \ {k + 1}]
        BY <4>2
      <4>4. g[s] = Op(p, f[s \ {k + 1}], seq[k + 1])
        BY <3>1
      <4> QED
        BY <3>1, <4>1, <4>3, <4>4
    <3>2. CASE k + 1 \notin s
      <4>1. s \in SUBSET (1 .. k)
        BY <3>2
      <4>2. g[s] = f[s]
        BY <3>2
      <4>3. f[s] = IF s = {} THEN base ELSE LET x == Max(s) IN Op(p, f[s \ {x}], seq[x])
        BY <2>1, <4>1 DEF Iterates
      <4>4. s # {} => s \ {Max(s)} \in SUBSET (1 .. k + 1) /\ k + 1 \notin s \ {Max(s)}
        BY <3>2
      <4>5. s # {} => g[s \ {Max(s)}] = f[s \ {Max(s)}]
        BY <4>4
      <4> QED
        BY <4>2, <4>3, <4>5
    <3> QED
      BY <3>1, <3>2
  <2>3. Iterates(p, g, base, seq, 1 .. k + 1)
    <3> DEFINE h == [ s \in SUBSET (1 .. k + 1) |->
                        IF s = {} THEN base ELSE LET x == Max(s) IN Op(p, g[s \ {x}], seq[x]) ]
    <3>1. ASSUME NEW s \in SUBSET (1 .. k + 1) PROVE g[s] = h[s]
      BY <2>2
    <3>2. g = h
      BY ONLY <3>1
    <3> QED
      BY <3>2 DEF Iterates
  <2> QED
    BY <2>3
<1>3. Nat \subseteq S
  <2> HIDE DEF S
  <2> QED
    BY <1>1, <1>2, SetInduction
<1> QED
  BY <1>3

\* A fold goes through its values one after the other.
LEMMA FoldSteps ==
  ASSUME NEW p, NEW base, NEW seq, NEW n \in Nat, DOMAIN seq = 1 .. n
  PROVE  \E f : /\ f[0] = base
                /\ \A i \in 1 .. n : f[i] = Op(p, f[i - 1], seq[i])
                /\ Fold(p, base, seq) = f[n]
<1> DEFINE iter == CHOOSE f : Iterates(p, f, base, seq, 1 .. n)
           f == [ i \in 0 .. n |-> iter[1 .. i] ]
<1>1. Iterates(p, iter, base, seq, 1 .. n)
  BY IterateExists
<1>2. Fold(p, base, seq) = iter[1 .. n]
  BY DEF Fold, FoldLeft, MapThenFoldSet, Iterates
<1> HIDE DEF iter
<1>3. f[0] = base
  <2>1. 1 .. 0 = {} /\ {} \in SUBSET (1 .. n)
    OBVIOUS
  <2>2. iter[{}] = base
    BY <1>1, <2>1 DEF Iterates
  <2> QED
    BY <2>1, <2>2
<1>4. ASSUME NEW i \in 1 .. n PROVE f[i] = Op(p, f[i - 1], seq[i])
  <2>1. 1 .. i \in SUBSET (1 .. n) /\ 1 .. i # {} /\ i \in 1 .. i /\ i \in Nat /\ i - 1 \in 0 .. n
    OBVIOUS
  <2>2. Max(1 .. i) = i
    <3>1. Max(1 .. i) \in 1 .. i /\ \A y \in 1 .. i : y <= Max(1 .. i)
      BY <2>1, MaxOf
    <3> QED
      BY <3>1, <2>1
  <2>3. (1 .. i) \ {i} = 1 .. i - 1
    OBVIOUS
  <2>4. iter[1 .. i] = Op(p, iter[(1 .. i) \ {Max(1 .. i)}], seq[Max(1 .. i)])
    BY <1>1, <2>1 DEF Iterates
  <2>5. f[i] = iter[1 .. i] /\ f[i - 1] = iter[1 .. i - 1]
    BY <2>1
  <2> QED
    BY <2>2, <2>3, <2>4, <2>5
<1> QED
  <2>1. f[n] = Fold(p, base, seq)
    BY <1>2
  <2> HIDE DEF f
  <2> QED
    BY <1>3, <1>4, <2>1

\* What holds of the first value and is kept by every step holds of the fold.
LEMMA FoldKeeps ==
  ASSUME NEW p, NEW V, NEW E, NEW base \in V, NEW seq \in Seq(E),
         \A v \in V, e \in E : Op(p, v, e) \in V
  PROVE  Fold(p, base, seq) \in V
<1> DEFINE n == Len(seq)
<1>1. n \in Nat /\ DOMAIN seq = 1 .. n
  OBVIOUS
<1> HIDE DEF n
<1>2. PICK f : /\ f[0] = base
               /\ \A i \in 1 .. n : f[i] = Op(p, f[i - 1], seq[i])
               /\ Fold(p, base, seq) = f[n]
  BY <1>1, FoldSteps
<1> DEFINE S == { k \in Nat : k <= n => f[k] \in V }
<1>3. 0 \in S
  BY <1>2
<1>4. ASSUME NEW k \in Nat, k \in S PROVE k + 1 \in S
  <2> SUFFICES ASSUME k + 1 <= n PROVE f[k + 1] \in V
    OBVIOUS
  <2>1. f[k] \in V /\ k + 1 \in 1 .. n
    BY <1>1, <1>4
  <2>2. seq[k + 1] \in E
    BY <2>1, <1>1
  <2>3. f[k + 1] = Op(p, f[k], seq[k + 1])
    BY <1>2, <2>1
  <2> QED
    BY <2>1, <2>2, <2>3
<1>5. Nat \subseteq S
  <2> HIDE DEF S
  <2> QED
    BY <1>3, <1>4, SetInduction
<1> QED
  BY <1>1, <1>2, <1>5

\* The same where what holds depends on how many have been folded.
LEMMA FoldThrough ==
  ASSUME NEW p, NEW base, NEW seq, NEW n \in Nat, DOMAIN seq = 1 .. n, NEW V, base \in V[0],
         \A i \in 1 .. n : \A v \in V[i - 1] : Op(p, v, seq[i]) \in V[i]
  PROVE  Fold(p, base, seq) \in V[n]
<1>1. PICK f : /\ f[0] = base
               /\ \A i \in 1 .. n : f[i] = Op(p, f[i - 1], seq[i])
               /\ Fold(p, base, seq) = f[n]
  BY ONLY n \in Nat, DOMAIN seq = 1 .. n, FoldSteps
<1> DEFINE S == { k \in Nat : k <= n => f[k] \in V[k] }
<1>2. 0 \in S
  BY <1>1
<1>3. ASSUME NEW k \in Nat, k \in S PROVE k + 1 \in S
  <2> SUFFICES ASSUME k + 1 <= n PROVE f[k + 1] \in V[k + 1]
    OBVIOUS
  <2>1. f[k] \in V[k] /\ k + 1 \in 1 .. n /\ (k + 1) - 1 = k
    BY <1>3
  <2>2. f[k + 1] = Op(p, f[k], seq[k + 1])
    BY <1>1, <2>1
  <2>3. Op(p, f[k], seq[k + 1]) \in V[k + 1]
    BY <2>1
  <2> QED
    BY <2>2, <2>3
<1>4. Nat \subseteq S
  <2> HIDE DEF S
  <2> QED
    BY <1>2, <1>3, SetInduction
<1> QED
  BY <1>1, <1>4

\* The same for a relation between the value and what is still to be folded.
LEMMA FoldConsumes ==
  ASSUME NEW p, NEW V, NEW E, NEW I \in SUBSET (V \X Seq(E)),
         NEW base, NEW seq \in Seq(E), << base, seq >> \in I,
         \A v \in V, s \in Seq(E) :
             << v, s >> \in I /\ s # << >> => << Op(p, v, Head(s)), Tail(s) >> \in I
  PROVE  << Fold(p, base, seq), << >> >> \in I
<1> DEFINE n == Len(seq)
           rest(k) == SubSeq(seq, k + 1, n)
<1>1. n \in Nat /\ DOMAIN seq = 1 .. n
  OBVIOUS
<1>2. rest(0) = seq /\ rest(n) = << >>
  OBVIOUS
<1>3. ASSUME NEW k \in Nat, k + 1 <= n
      PROVE  /\ rest(k) \in Seq(E) /\ rest(k) # << >>
             /\ Head(rest(k)) = seq[k + 1] /\ Tail(rest(k)) = rest(k + 1)
  <2>1. k + 1 \in 1 .. Len(seq) /\ n \in k + 1 .. Len(seq)
    BY <1>3
  <2>2. Head(rest(k)) = seq[k + 1] /\ Tail(rest(k)) = SubSeq(seq, (k + 1) + 1, n)
    BY <2>1, HeadTailOfSubSeq
  <2>3. rest(k) \in Seq(E) /\ Len(rest(k)) = n - k
    BY <1>3
  <2>4. n - k # 0
    <3>1. n \in Nat
      OBVIOUS
    <3> HIDE DEF n
    <3> QED
      BY <1>3, <3>1
  <2>5. rest(k) # << >>
    BY <2>3, <2>4, EmptySeq
  <2>6. Tail(rest(k)) = rest(k + 1)
    BY <2>2
  <2> QED
    BY <2>2, <2>3, <2>5, <2>6
<1> HIDE DEF n, rest
<1>4. PICK f : /\ f[0] = base
               /\ \A i \in 1 .. n : f[i] = Op(p, f[i - 1], seq[i])
               /\ Fold(p, base, seq) = f[n]
  BY ONLY <1>1, FoldSteps
<1> DEFINE S == { k \in Nat : k <= n => << f[k], rest(k) >> \in I }
<1>5. 0 \in S
  BY <1>2, <1>4
<1>6. ASSUME NEW k \in Nat, k \in S PROVE k + 1 \in S
  <2> SUFFICES ASSUME k + 1 <= n PROVE << f[k + 1], rest(k + 1) >> \in I
    OBVIOUS
  <2>1. << f[k], rest(k) >> \in I /\ k + 1 \in 1 .. n
    BY <1>1, <1>6
  <2>2. f[k] \in V /\ rest(k) \in Seq(E)
    BY <2>1
  <2>3. f[k + 1] = Op(p, f[k], seq[k + 1])
    BY <1>4, <2>1
  <2> QED
    BY <1>3, <2>1, <2>2, <2>3
<1>7. Nat \subseteq S
  <2> HIDE DEF S
  <2> QED
    BY <1>5, <1>6, SetInduction
<1> QED
  BY <1>1, <1>2, <1>4, <1>7

-----------------------------------------------------------------------------

\* The recursive function by which FlattenSeq is defined.
Joins(f, seqs, n) == f = [ i \in 1 .. n |-> IF i = 1 THEN seqs[i] ELSE f[i - 1] \o seqs[i] ]

LEMMA JoinExists ==
  ASSUME NEW seqs, NEW n \in Nat
  PROVE  \E f : Joins(f, seqs, n)
<1> DEFINE S == { k \in Nat : \E f : Joins(f, seqs, k) }
<1>1. 0 \in S
  <2>1. 1 .. 0 = {}
    OBVIOUS
  <2>2. Joins([ i \in 1 .. 0 |-> 0 ], seqs, 0)
    BY <2>1 DEF Joins
  <2> QED
    BY <2>2
<1>2. ASSUME NEW k \in Nat, k \in S PROVE k + 1 \in S
  <2>1. PICK f : Joins(f, seqs, k)
    BY <1>2
  <2> DEFINE g == [ i \in 1 .. k + 1 |->
                      IF i = k + 1 THEN IF i = 1 THEN seqs[i] ELSE f[i - 1] \o seqs[i]
                      ELSE f[i] ]
             h == [ i \in 1 .. k + 1 |-> IF i = 1 THEN seqs[i] ELSE g[i - 1] \o seqs[i] ]
  <2>2. ASSUME NEW i \in 1 .. k + 1 PROVE g[i] = h[i]
    <3>1. i # 1 => i - 1 \in 1 .. k + 1 /\ i - 1 # k + 1
      OBVIOUS
    <3>2. i # 1 => g[i - 1] = f[i - 1]
      BY <3>1
    <3>3. CASE i = k + 1
      BY <3>2, <3>3
    <3>4. CASE i # k + 1
      <4>1. i \in 1 .. k
        BY <3>4
      <4>2. f[i] = IF i = 1 THEN seqs[i] ELSE f[i - 1] \o seqs[i]
        BY <2>1, <4>1 DEF Joins
      <4> QED
        BY <3>2, <3>4, <4>2
    <3> QED
      BY <3>3, <3>4
  <2>3. g = h
    BY ONLY <2>2
  <2>4. Joins(g, seqs, k + 1)
    BY <2>3 DEF Joins
  <2> QED
    BY <2>4
<1>3. Nat \subseteq S
  <2> HIDE DEF S
  <2> QED
    BY <1>1, <1>2, SetInduction
<1> QED
  BY <1>3

\* FlattenSeq joins one sequence after the other.
LEMMA FlattenSteps ==
  ASSUME NEW S, NEW seqs \in Seq(Seq(S)), Len(seqs) # 0
  PROVE  \E f : /\ FlattenSeq(seqs) = f[Len(seqs)]
                /\ f[1] = seqs[1]
                /\ \A i \in 1 .. Len(seqs) : i # 1 => f[i] = f[i - 1] \o seqs[i]
<1> DEFINE n == Len(seqs)
           f == CHOOSE f : Joins(f, seqs, n)
<1>1. n \in Nat /\ 1 \in 1 .. n
  OBVIOUS
<1>2. Joins(f, seqs, n)
  BY <1>1, JoinExists
<1>3. FlattenSeq(seqs) = f[n]
  BY DEF FlattenSeq, Joins
<1> HIDE DEF f, n
<1>4. \A i \in 1 .. n : f[i] = IF i = 1 THEN seqs[i] ELSE f[i - 1] \o seqs[i]
  BY <1>2 DEF Joins
<1> QED
  BY <1>1, <1>3, <1>4 DEF n

\* Induction along the first n numbers, for a set in the place of a predicate.
LEMMA CountedInduction ==
  ASSUME NEW n \in Nat, NEW T, 1 \in T, \A k \in 1 .. n : k \in T /\ k + 1 <= n => k + 1 \in T
  PROVE  1 .. n \subseteq T
<1> DEFINE R == { k \in Nat : k + 1 <= n => k + 1 \in T }
<1>1. 0 \in R
  OBVIOUS
<1>2. ASSUME NEW k \in Nat, k \in R PROVE k + 1 \in R
  <2> SUFFICES ASSUME (k + 1) + 1 <= n PROVE (k + 1) + 1 \in T
    OBVIOUS
  <2>1. k + 1 \in 1 .. n /\ k + 1 \in T
    BY <1>2
  <2> QED
    BY <2>1
<1>3. Nat \subseteq R
  <2> HIDE DEF R
  <2> QED
    BY <1>1, <1>2, SetInduction
<1>4. ASSUME NEW k \in 1 .. n PROVE k \in T
  <2>1. k - 1 \in Nat /\ (k - 1) + 1 = k
    OBVIOUS
  <2> QED
    BY <1>3, <2>1
<1> QED
  BY <1>4

\* Sequences of S, one after the other, are a sequence of S.
LEMMA FlattenTyped ==
  ASSUME NEW S, NEW seqs \in Seq(Seq(S))
  PROVE  FlattenSeq(seqs) \in Seq(S)
<1> DEFINE n == Len(seqs)
<1>1. n \in Nat /\ \A i \in 1 .. n : seqs[i] \in Seq(S)
  OBVIOUS
<1>2. CASE n = 0
  <2>1. seqs \in Seq(S)
    BY <1>2, EmptySeq
  <2> QED
    BY <1>2, <2>1 DEF FlattenSeq
<1>3. CASE n # 0
  <2>1. PICK f : /\ FlattenSeq(seqs) = f[n] /\ f[1] = seqs[1]
                 /\ \A i \in 1 .. n : i # 1 => f[i] = f[i - 1] \o seqs[i]
    BY <1>3, FlattenSteps
  <2> HIDE DEF n
  <2> DEFINE T == { k \in 1 .. n : f[k] \in Seq(S) }
  <2>2. 1 \in T
    BY <1>1, <1>3, <2>1
  <2>3. ASSUME NEW k \in 1 .. n, k \in T, k + 1 <= n PROVE k + 1 \in T
    <3>1. k + 1 \in 1 .. n /\ k + 1 # 1 /\ (k + 1) - 1 = k
      BY <1>1, <2>3
    <3>2. f[k + 1] = f[k] \o seqs[k + 1]
      <4>1. f[k + 1] = f[(k + 1) - 1] \o seqs[k + 1]
        BY <2>1, <3>1
      <4> QED
        BY <3>1, <4>1
    <3>3. f[k] \in Seq(S) /\ seqs[k + 1] \in Seq(S)
      BY <1>1, <2>3, <3>1
    <3>4. f[k] \o seqs[k + 1] \in Seq(S)
      BY <3>3
    <3> QED
      BY <3>1, <3>2, <3>4
  <2>4. 1 .. n \subseteq T
    <3> HIDE DEF T
    <3> QED
      BY <1>1, <2>2, <2>3, CountedInduction
  <2>5. n \in 1 .. n
    BY <1>1, <1>3
  <2> QED
    BY <2>1, <2>4, <2>5
<1> QED
  BY <1>2, <1>3

\* s has the elements of the first n of seqs: its k-th is the g[k]-th of the
\* f[k]-th, and none is left out.
Indexed(s, seqs, n, f, g) ==
    /\ \A k \in 1 .. Len(s) :
          f[k] \in 1 .. n /\ g[k] \in 1 .. Len(seqs[f[k]]) /\ s[k] = seqs[f[k]][g[k]]
    /\ \A k, l \in 1 .. Len(s) : k < l => f[k] < f[l] \/ (f[k] = f[l] /\ g[k] < g[l])
    /\ \A i \in 1 .. n : \A j \in 1 .. Len(seqs[i]) :
          \E k \in 1 .. Len(s) : f[k] = i /\ g[k] = j

LEMMA IndexedOne ==
  ASSUME NEW S, NEW seqs \in Seq(Seq(S)), Len(seqs) # 0
  PROVE  \E f, g : Indexed(seqs[1], seqs, 1, f, g)
<1> DEFINE t == seqs[1]
           f == [ k \in 1 .. Len(t) |-> 1 ]
           g == [ k \in 1 .. Len(t) |-> k ]
<1>1. t \in Seq(S) /\ Len(t) \in Nat
  OBVIOUS
<1>2. \A k \in 1 .. Len(t) : f[k] = 1 /\ g[k] = k
  OBVIOUS
<1> HIDE DEF f, g
<1>3. Indexed(t, seqs, 1, f, g)
  BY <1>1, <1>2 DEF Indexed
<1> QED
  BY <1>3

LEMMA IndexedStep ==
  ASSUME NEW S, NEW seqs \in Seq(Seq(S)), NEW n \in Nat, n + 1 <= Len(seqs),
         NEW s \in Seq(S), NEW f, NEW g, Indexed(s, seqs, n, f, g)
  PROVE  \E f1, g1 : Indexed(s \o seqs[n + 1], seqs, n + 1, f1, g1)
<1> DEFINE t == seqs[n + 1]
           u == s \o t
           L == Len(s)
           M == Len(u)
           f1 == [ k \in 1 .. M |-> IF k <= L THEN f[k] ELSE n + 1 ]
           g1 == [ k \in 1 .. M |-> IF k <= L THEN g[k] ELSE k - L ]
<1>1. n + 1 \in 1 .. Len(seqs) /\ t \in Seq(S)
  OBVIOUS
<1> HIDE DEF t
<1>2. /\ L \in Nat /\ Len(t) \in Nat /\ M = L + Len(t)
      /\ \A k \in 1 .. L : u[k] = s[k]
      /\ \A k \in 1 .. Len(t) : u[L + k] = t[k]
  BY <1>1
<1> HIDE DEF u, L, M
<1>3. /\ \A k \in 1 .. L : k \in 1 .. M /\ f1[k] = f[k] /\ g1[k] = g[k]
      /\ \A k \in 1 .. M : k \notin 1 .. L =>
            f1[k] = n + 1 /\ g1[k] = k - L /\ k - L \in 1 .. Len(t) /\ L + (k - L) = k
  BY <1>2
<1> HIDE DEF f1, g1
<1>4. /\ \A k \in 1 .. L :
            f[k] \in 1 .. n /\ g[k] \in 1 .. Len(seqs[f[k]]) /\ s[k] = seqs[f[k]][g[k]]
      /\ \A k, l \in 1 .. L : k < l => f[k] < f[l] \/ (f[k] = f[l] /\ g[k] < g[l])
      /\ \A i \in 1 .. n : \A j \in 1 .. Len(seqs[i]) : \E k \in 1 .. L : f[k] = i /\ g[k] = j
  BY DEF Indexed, L
<1>5. ASSUME NEW k \in 1 .. M
      PROVE  /\ f1[k] \in 1 .. n + 1 /\ g1[k] \in 1 .. Len(seqs[f1[k]])
             /\ u[k] = seqs[f1[k]][g1[k]]
  <2>1. CASE k \in 1 .. L
    <3>1. f1[k] = f[k] /\ g1[k] = g[k] /\ u[k] = s[k]
      BY <1>2, <1>3, <2>1
    <3>2. f[k] \in 1 .. n /\ g[k] \in 1 .. Len(seqs[f[k]]) /\ s[k] = seqs[f[k]][g[k]]
      BY <1>4, <2>1
    <3>3. f[k] \in 1 .. n + 1
      BY <3>2
    <3> QED
      BY <3>1, <3>2, <3>3
  <2>2. CASE k \notin 1 .. L
    <3>1. f1[k] = n + 1 /\ g1[k] = k - L /\ k - L \in 1 .. Len(t) /\ L + (k - L) = k
      BY <1>3, <2>2
    <3>2. u[L + (k - L)] = t[k - L]
      BY <1>2, <3>1
    <3>3. u[k] = t[k - L]
      BY <3>1, <3>2
    <3> QED
      BY <3>1, <3>3 DEF t
  <2> QED
    BY <2>1, <2>2
<1>6. ASSUME NEW k \in 1 .. M, NEW l \in 1 .. M, k < l
      PROVE  f1[k] < f1[l] \/ (f1[k] = f1[l] /\ g1[k] < g1[l])
  <2>1. CASE l \in 1 .. L
    <3>1. k \in 1 .. L
      BY <1>2, <1>6, <2>1
    <3> QED
      BY <1>3, <1>4, <1>6, <2>1, <3>1
  <2>2. CASE l \notin 1 .. L
    <3>1. CASE k \in 1 .. L
      <4>1. f1[k] = f[k] /\ f[k] \in 1 .. n /\ f1[l] = n + 1
        BY <1>3, <1>4, <2>2, <3>1
      <4> QED
        BY <4>1
    <3>2. CASE k \notin 1 .. L
      <4>1. k \in Nat /\ l \in Nat /\ L \in Nat /\ k - L < l - L
        BY <1>2, <1>6
      <4> QED
        BY <1>3, <2>2, <3>2, <4>1
    <3> QED
      BY <3>1, <3>2
  <2> QED
    BY <2>1, <2>2
<1>7. ASSUME NEW i \in 1 .. n + 1, NEW j \in 1 .. Len(seqs[i])
      PROVE  \E k \in 1 .. M : f1[k] = i /\ g1[k] = j
  <2>1. CASE i = n + 1
    <3>1. j \in 1 .. Len(t)
      BY <2>1 DEF t
    <3>2. L + j \in 1 .. M /\ L + j \notin 1 .. L /\ (L + j) - L = j
      BY <1>2, <3>1
    <3> QED
      BY <1>3, <2>1, <3>2
  <2>2. CASE i # n + 1
    <3>1. i \in 1 .. n
      BY <2>2
    <3>2. PICK k \in 1 .. L : f[k] = i /\ g[k] = j
      BY <1>4, <3>1
    <3> QED
      BY <1>3, <3>2
  <2> QED
    BY <2>1, <2>2
<1>8. Indexed(u, seqs, n + 1, f1, g1)
  BY <1>5, <1>6, <1>7 DEF Indexed, M
<1> QED
  BY <1>8 DEF u, t

\* FlattenSeq has the elements of the sequences, each once and in their order.
LEMMA FlattenIndexed ==
  ASSUME NEW S, NEW seqs \in Seq(Seq(S))
  PROVE  \E f, g : Indexed(FlattenSeq(seqs), seqs, Len(seqs), f, g)
<1> DEFINE n == Len(seqs)
<1>1. n \in Nat /\ \A i \in 1 .. n : seqs[i] \in Seq(S)
  OBVIOUS
<1>2. CASE n = 0
  <2>1. FlattenSeq(seqs) = seqs /\ Len(FlattenSeq(seqs)) = 0
    BY <1>2 DEF FlattenSeq
  <2>2. 1 .. 0 = {}
    OBVIOUS
  <2>3. Indexed(FlattenSeq(seqs), seqs, n, 0, 0)
    BY <1>2, <2>1, <2>2 DEF Indexed
  <2> QED
    BY <2>3
<1>3. CASE n # 0
  <2>1. PICK f : /\ FlattenSeq(seqs) = f[n] /\ f[1] = seqs[1]
                 /\ \A i \in 1 .. n : i # 1 => f[i] = f[i - 1] \o seqs[i]
    BY <1>3, FlattenSteps
  <2> HIDE DEF n
  <2> DEFINE T == { k \in 1 .. n : f[k] \in Seq(S) /\ \E p, q : Indexed(f[k], seqs, k, p, q) }
  <2>2. 1 \in T
    BY <1>1, <1>3, <2>1, IndexedOne DEF n
  <2>3. ASSUME NEW k \in 1 .. n, k \in T, k + 1 <= n PROVE k + 1 \in T
    <3>1. k \in Nat /\ k + 1 \in 1 .. n /\ k + 1 # 1 /\ (k + 1) - 1 = k
      BY <1>1, <2>3
    <3>2. f[k + 1] = f[k] \o seqs[k + 1]
      <4>1. f[k + 1] = f[(k + 1) - 1] \o seqs[k + 1]
        BY <2>1, <3>1
      <4> QED
        BY <3>1, <4>1
    <3>3. f[k] \in Seq(S) /\ seqs[k + 1] \in Seq(S)
      BY <1>1, <2>3, <3>1
    <3>4. \E p, q : Indexed(f[k] \o seqs[k + 1], seqs, k + 1, p, q)
      BY <2>3, <3>1, <3>3, IndexedStep DEF n
    <3>5. f[k] \o seqs[k + 1] \in Seq(S)
      BY <3>3
    <3>6. f[k + 1] \in Seq(S) /\ \E p, q : Indexed(f[k + 1], seqs, k + 1, p, q)
      BY <3>2, <3>4, <3>5
    <3> QED
      BY <3>1, <3>6
  <2>4. 1 .. n \subseteq T
    <3> HIDE DEF T
    <3> QED
      BY <1>1, <2>2, <2>3, CountedInduction
  <2>5. n \in 1 .. n
    BY <1>1, <1>3
  <2> QED
    BY <2>1, <2>4, <2>5 DEF n
<1> QED
  BY <1>2, <1>3

\* One more sequence is joined at the end.
LEMMA FlattenOneMore ==
  ASSUME NEW S, NEW seqs \in Seq(Seq(S)), NEW t \in Seq(S)
  PROVE  FlattenSeq(Append(seqs, t)) = FlattenSeq(seqs) \o t
<1> DEFINE n == Len(seqs)
           more == Append(seqs, t)
<1>1. /\ n \in Nat /\ more \in Seq(Seq(S)) /\ Len(more) = n + 1 /\ more[n + 1] = t
      /\ \A i \in 1 .. n : more[i] = seqs[i]
  OBVIOUS
<1> HIDE DEF more
<1>2. PICK h : /\ FlattenSeq(more) = h[n + 1] /\ h[1] = more[1]
               /\ \A i \in 1 .. n + 1 : i # 1 => h[i] = h[i - 1] \o more[i]
  <2> HIDE DEF n
  <2>1. more \in Seq(Seq(S)) /\ Len(more) # 0
    BY <1>1
  <2>2. \E h : /\ FlattenSeq(more) = h[Len(more)] /\ h[1] = more[1]
               /\ \A i \in 1 .. Len(more) : i # 1 => h[i] = h[i - 1] \o more[i]
    BY ONLY <2>1, FlattenSteps
  <2> QED
    BY <1>1, <2>2
<1>3. CASE n = 0
  <2>1. FlattenSeq(seqs) = << >>
    BY <1>3 DEF FlattenSeq
  <2>2. FlattenSeq(more) = t
    BY <1>1, <1>2, <1>3
  <2>3. << >> \o t = t
    OBVIOUS
  <2> QED
    BY <2>1, <2>2, <2>3 DEF more
<1>4. CASE n # 0
  <2>1. PICK f : /\ FlattenSeq(seqs) = f[n] /\ f[1] = seqs[1]
                 /\ \A i \in 1 .. n : i # 1 => f[i] = f[i - 1] \o seqs[i]
    BY <1>4, FlattenSteps
  <2> HIDE DEF n
  <2> DEFINE T == { k \in 1 .. n : f[k] = h[k] }
  <2>2. 1 \in T
    BY <1>1, <1>2, <1>4, <2>1
  <2>3. ASSUME NEW k \in 1 .. n, k \in T, k + 1 <= n PROVE k + 1 \in T
    <3>1. k + 1 \in 1 .. n /\ k + 1 \in 1 .. n + 1 /\ k + 1 # 1 /\ (k + 1) - 1 = k
      BY <1>1, <2>3
    <3>2. f[k + 1] = f[k] \o seqs[k + 1] /\ h[k + 1] = h[k] \o more[k + 1]
      <4>1. f[k + 1] = f[(k + 1) - 1] \o seqs[k + 1]
        BY <2>1, <3>1
      <4>2. h[k + 1] = h[(k + 1) - 1] \o more[k + 1]
        BY <1>2, <3>1
      <4> QED
        BY <3>1, <4>1, <4>2
    <3> QED
      BY <1>1, <2>3, <3>1, <3>2
  <2>4. 1 .. n \subseteq T
    <3> HIDE DEF T
    <3> QED
      BY <1>1, <2>2, <2>3, CountedInduction
  <2>5. f[n] = h[n]
    <3>1. n \in 1 .. n
      BY <1>1, <1>4
    <3>2. n \in T
      BY <2>4, <3>1
    <3> QED
      BY <3>2
  <2>6. n + 1 \in 1 .. n + 1 /\ n + 1 # 1 /\ (n + 1) - 1 = n
    BY <1>1, <1>4
  <2>7. h[n + 1] = h[n] \o more[n + 1]
    <3>1. h[n + 1] = h[(n + 1) - 1] \o more[n + 1]
      BY <1>2, <2>6
    <3> QED
      BY <2>6, <3>1
  <2> QED
    BY <1>1, <1>2, <2>1, <2>5, <2>7 DEF more
<1> QED
  BY <1>3, <1>4

-----------------------------------------------------------------------------

\* Where the sets below[i] grow one by one, their sizes number the elements.
Layered(K, below) ==
    /\ below \in [K -> SUBSET K]
    /\ \A i \in K : i \in below[i]
    /\ \A i, j \in K : i # j =>
          \/ below[i] \subseteq below[j] /\ j \notin below[i]
          \/ below[j] \subseteq below[i] /\ i \notin below[j]

LEMMA RankedProperties ==
  ASSUME NEW K, IsFiniteSet(K), NEW below, Layered(K, below)
  PROVE  /\ Cardinality(K) \in Nat
         /\ Ranked(K, below) \in [1 .. Cardinality(K) -> K]
         /\ \A i \in K : \E n \in 1 .. Cardinality(K) : Ranked(K, below)[n] = i
         /\ \A m, n \in 1 .. Cardinality(K) : m < n =>
               /\ below[Ranked(K, below)[m]] \subseteq below[Ranked(K, below)[n]]
               /\ Ranked(K, below)[n] \notin below[Ranked(K, below)[m]]
<1> DEFINE N == Cardinality(K)
           f == Ranked(K, below)
           rank == [ i \in K |-> Cardinality(below[i]) ]
<1> USE DEF Layered
<1>1. N \in Nat
  BY FS_CardinalityType
<1>2. ASSUME NEW i \in K
      PROVE  IsFiniteSet(below[i]) /\ Cardinality(below[i]) \in 1 .. N
  <2>1. below[i] \in SUBSET K /\ i \in below[i]
    OBVIOUS
  <2>2. IsFiniteSet(below[i]) /\ Cardinality(below[i]) <= N
    BY <2>1, FS_Subset
  <2>3. Cardinality(below[i]) \in Nat /\ Cardinality(below[i]) # 0
    BY <2>1, <2>2, FS_CardinalityType, FS_EmptySet
  <2> QED
    BY <1>1, <2>2, <2>3
<1>3. ASSUME NEW i \in K, NEW j \in K, below[i] \subseteq below[j], j \notin below[i]
      PROVE  Cardinality(below[i]) < Cardinality(below[j])
  <2>1. below[i] \in SUBSET below[j] /\ below[i] # below[j]
    BY <1>3
  <2>2. IsFiniteSet(below[j]) /\ Cardinality(below[i]) \in Nat /\ Cardinality(below[j]) \in Nat
    BY <1>2, FS_CardinalityType
  <2> QED
    BY <2>1, <2>2, FS_Subset
<1>4. ASSUME NEW i \in K, NEW j \in K, Cardinality(below[i]) = Cardinality(below[j])
      PROVE  i = j
  <2>1. Cardinality(below[i]) \in Nat /\ Cardinality(below[j]) \in Nat
    BY <1>2, <1>1
  <2>2. below[i] \subseteq below[j] /\ j \notin below[i]
          => Cardinality(below[i]) < Cardinality(below[j])
    BY <1>3
  <2>3. below[j] \subseteq below[i] /\ i \notin below[j]
          => Cardinality(below[j]) < Cardinality(below[i])
    BY <1>3
  <2>4. ~ (Cardinality(below[i]) < Cardinality(below[j]))
        /\ ~ (Cardinality(below[j]) < Cardinality(below[i]))
    BY <1>4, <2>1
  <2> QED
    BY <2>2, <2>3, <2>4
<1>5. \A n \in 1 .. N : \E i \in K : Cardinality(below[i]) = n
  <2>1. rank \in Injection(K, 1 .. N)
    BY <1>2, <1>4 DEF Injection, IsInjective
  <2>2. IsFiniteSet(1 .. N) /\ Cardinality(1 .. N) = N
    BY <1>1, FS_Interval
  <2>3. rank \in Surjection(K, 1 .. N)
    <3> HIDE DEF rank
    <3> QED
      BY <2>1, <2>2, FS_Injection
  <2>4. \A n \in 1 .. N : \E i \in K : rank[i] = n
    BY <2>3 DEF Surjection
  <2> QED
    BY <2>4
<1>6. f = [ n \in 1 .. N |-> CHOOSE i \in K : Cardinality(below[i]) = n ]
  BY DEF Ranked
<1>7. \A n \in 1 .. N : f[n] \in K /\ Cardinality(below[f[n]]) = n
  BY <1>5, <1>6
<1>8. DOMAIN f = 1 .. N
  BY <1>6
<1>9. f \in [1 .. N -> K]
  <2> HIDE DEF f
  <2> QED
    BY <1>6, <1>7
<1> HIDE DEF f, N
<1>10. \A i \in K : \E n \in 1 .. N : f[n] = i
  <2> SUFFICES ASSUME NEW i \in K PROVE \E n \in 1 .. N : f[n] = i
    OBVIOUS
  <2>1. Cardinality(below[i]) \in 1 .. N
    BY <1>2
  <2>2. f[Cardinality(below[i])] = i
    BY <1>4, <1>7, <2>1
  <2> QED
    BY <2>1, <2>2
<1>11. ASSUME NEW m \in 1 .. N, NEW n \in 1 .. N, m < n
       PROVE  below[f[m]] \subseteq below[f[n]] /\ f[n] \notin below[f[m]]
  <2>1. /\ f[m] \in K /\ Cardinality(below[f[m]]) = m
        /\ f[n] \in K /\ Cardinality(below[f[n]]) = n
    BY <1>7
  <2>2. m \in Nat /\ n \in Nat /\ ~ (n < m) /\ m # n
    BY <1>1, <1>11
  <2>3. ~ (below[f[n]] \subseteq below[f[m]] /\ f[m] \notin below[f[n]])
    BY <1>3, <2>1, <2>2
  <2>4. f[m] # f[n]
    BY <2>1, <2>2
  <2> QED
    BY <2>1, <2>3, <2>4
<1> QED
  BY <1>1, <1>9, <1>10, <1>11 DEF f, N

\* A finite set of numbers is gone through from the least on, and as a whole.
LEMMA AscendingProperties ==
  ASSUME NEW K \in SUBSET Nat, IsFiniteSet(K)
  PROVE  /\ Cardinality(K) \in Nat
         /\ Ascending(K) \in [1 .. Cardinality(K) -> K]
         /\ \A i \in K : \E n \in 1 .. Cardinality(K) : Ascending(K)[n] = i
         /\ \A m, n \in 1 .. Cardinality(K) : m < n => Ascending(K)[m] < Ascending(K)[n]
<1> DEFINE below == [ i \in K |-> { j \in K : j <= i } ]
           N == Cardinality(K)
<1>1. Ascending(K) = Ranked(K, below)
  BY DEF Ascending
<1>2. below \in [K -> SUBSET K] /\ \A i \in K : i \in below[i]
  OBVIOUS
<1>3. ASSUME NEW i \in K, NEW j \in K, i # j
      PROVE  \/ below[i] \subseteq below[j] /\ j \notin below[i]
             \/ below[j] \subseteq below[i] /\ i \notin below[j]
  <2>1. K \subseteq Nat /\ i \in Nat /\ j \in Nat
    OBVIOUS
  <2>2. CASE i < j
    <3>1. \A k \in K : k <= i => k <= j
      BY <2>1, <2>2
    <3>2. ~ (j <= i)
      BY <2>1, <2>2
    <3> QED
      BY <3>1, <3>2
  <2>3. CASE j < i
    <3>1. \A k \in K : k <= j => k <= i
      BY <2>1, <2>3
    <3>2. ~ (i <= j)
      BY <2>1, <2>3
    <3> QED
      BY <3>1, <3>2
  <2> QED
    BY <1>3, <2>1, <2>2, <2>3
<1>4. \A i, j \in K : j \notin below[i] => i < j
  OBVIOUS
<1> HIDE DEF below
<1>5. Layered(K, below)
  BY <1>2, <1>3 DEF Layered
<1>6. /\ N \in Nat /\ Ranked(K, below) \in [1 .. N -> K]
      /\ \A i \in K : \E n \in 1 .. N : Ranked(K, below)[n] = i
      /\ \A m, n \in 1 .. N : m < n => Ranked(K, below)[n] \notin below[Ranked(K, below)[m]]
  BY <1>5, RankedProperties
<1>7. \A m, n \in 1 .. N : m < n => Ranked(K, below)[m] < Ranked(K, below)[n]
  BY <1>4, <1>6
<1> QED
  BY <1>1, <1>6, <1>7

\* The numbers of an interval, one after the other.
LEMMA AscendingInterval ==
  ASSUME NEW f \in Nat, NEW n \in Nat
  PROVE  LET at == Ascending(f + 1 .. f + n)
         IN DOMAIN at = 1 .. n /\ \A k \in 1 .. n : at[k] = f + k
<1> DEFINE K == f + 1 .. f + n
           below == [ i \in K |-> { j \in K : j <= i } ]
           at == Ascending(K)
           size(i) == Cardinality(below[i])
<1>1. Cardinality(K) = n
  <2>1. f + 1 \in Int /\ f + n \in Int
    OBVIOUS
  <2>2. Cardinality(K) = IF f + 1 > f + n THEN 0 ELSE (f + n) - (f + 1) + 1
    BY <2>1, FS_Interval
  <2> HIDE DEF K
  <2> QED
    BY <2>2
<1>2. at = [ k \in 1 .. n |-> CHOOSE i \in K : size(i) = k ]
  BY <1>1 DEF Ascending, Ranked
<1>3. ASSUME NEW i \in K PROVE size(i) = i - f
  <2>1. below[i] = f + 1 .. i
    OBVIOUS
  <2>2. f + 1 \in Int /\ i \in Int /\ ~ (f + 1 > i)
    OBVIOUS
  <2>3. Cardinality(f + 1 .. i) = i - (f + 1) + 1
    BY <2>2, FS_Interval
  <2> HIDE DEF below
  <2> QED
    BY <2>1, <2>2, <2>3
<1> HIDE DEF size
<1>4. ASSUME NEW k \in 1 .. n PROVE at[k] = f + k
  <2>1. f + k \in K /\ \A i \in K : i - f = k => i = f + k
    OBVIOUS
  <2>2. (f + k) - f = k
    OBVIOUS
  <2> DEFINE c == CHOOSE i \in K : size(i) = k
  <2>3. at[k] = c
    BY <1>2
  <2> HIDE DEF at, K
  <2>4. size(f + k) = k /\ \A i \in K : size(i) = k => i = f + k
    BY <1>3, <2>1, <2>2
  <2>5. c \in K /\ size(c) = k
    BY <2>1, <2>4
  <2> HIDE DEF c
  <2> QED
    BY <2>3, <2>4, <2>5
<1>5. DOMAIN at = 1 .. n
  BY <1>2
<1> QED
  BY <1>4, <1>5

\* Sorting puts every element somewhere, once, and what comes first is smaller.
LEMMA OrderProperties ==
  ASSUME NEW n \in Nat, NEW t \in [1 .. n -> Nat]
  PROVE  /\ Order(t) \in [1 .. n -> 1 .. n]
         /\ \A i \in 1 .. n : \E k \in 1 .. n : Order(t)[k] = i
         /\ \A k, l \in 1 .. n : k < l =>
              \/ t[Order(t)[k]] < t[Order(t)[l]]
              \/ t[Order(t)[k]] = t[Order(t)[l]] /\ Order(t)[k] < Order(t)[l]
<1> DEFINE K == 1 .. n
           before(j, i) == t[j] < t[i] \/ (t[j] = t[i] /\ j < i)
           below == [ i \in K |-> { j \in K : t[j] < t[i] \/ (t[j] = t[i] /\ j <= i) } ]
<1>1. IsFiniteSet(K) /\ Cardinality(K) = n /\ DOMAIN t = K
  BY FS_Interval
<1>2. Order(t) = Ranked(K, below)
  BY <1>1 DEF Order
<1>3. below \in [K -> SUBSET K] /\ \A i \in K : i \in below[i]
  OBVIOUS
<1>4. \A i, j \in K : j \notin below[i] => before(i, j)
  OBVIOUS
<1>5. ASSUME NEW i \in K, NEW j \in K, before(i, j)
      PROVE  below[i] \subseteq below[j] /\ j \notin below[i]
  <2>1. \A k \in K : t[k] \in Nat
    OBVIOUS
  <2>2. t[i] \in Nat /\ t[j] \in Nat
    OBVIOUS
  <2>3. \A k \in below[i] : k \in below[j]
    BY <1>5, <2>1, <2>2
  <2>4. j \notin below[i]
    BY <1>5, <2>2
  <2> QED
    BY <2>3, <2>4
<1>6. \A i, j \in K : i # j => before(i, j) \/ before(j, i)
  OBVIOUS
<1> HIDE DEF below, before
<1>7. Layered(K, below)
  BY <1>3, <1>5, <1>6 DEF Layered
<1> DEFINE g == Ranked(K, below)
<1>8. /\ g \in [1 .. n -> K]
      /\ \A i \in K : \E k \in 1 .. n : g[k] = i
      /\ \A k, l \in 1 .. n : k < l => g[l] \notin below[g[k]]
  <2> HIDE DEF K
  <2>1. /\ g \in [1 .. Cardinality(K) -> K]
        /\ \A i \in K : \E k \in 1 .. Cardinality(K) : g[k] = i
        /\ \A k, l \in 1 .. Cardinality(K) : k < l => g[l] \notin below[g[k]]
    BY <1>1, <1>7, RankedProperties
  <2> HIDE DEF g
  <2> QED
    BY <1>1, <2>1
<1>9. \A k, l \in 1 .. n : k < l => before(Ranked(K, below)[k], Ranked(K, below)[l])
  BY <1>4, <1>8
<1> QED
  BY <1>2, <1>8, <1>9 DEF before

\* A sub-sequence has the elements at the positions K and no others, in their
\* order: f gives the position from which each of its elements comes.
LEMMA PickedProperties ==
  ASSUME NEW S, NEW s \in Seq(S), NEW K \in SUBSET DOMAIN s
  PROVE  /\ Picked(s, K) \in Seq(S)
         /\ \E f \in [DOMAIN Picked(s, K) -> K] :
              /\ \A n \in DOMAIN Picked(s, K) : Picked(s, K)[n] = s[f[n]]
              /\ \A i \in K : \E n \in DOMAIN Picked(s, K) : f[n] = i
              /\ \A m, n \in DOMAIN Picked(s, K) : m < n => f[m] < f[n]
<1> DEFINE f == Ascending(K)
           N == Cardinality(K)
<1>1. K \in SUBSET Nat /\ IsFiniteSet(K)
  <2>1. DOMAIN s = 1 .. Len(s) /\ Len(s) \in Nat
    OBVIOUS
  <2>2. IsFiniteSet(1 .. Len(s))
    BY <2>1, FS_Interval
  <2> QED
    BY <2>1, <2>2, FS_Subset
<1>2. /\ N \in Nat /\ f \in [1 .. N -> K]
      /\ \A i \in K : \E n \in 1 .. N : f[n] = i
      /\ \A m, n \in 1 .. N : m < n => f[m] < f[n]
  BY <1>1, AscendingProperties
<1>3. Picked(s, K) = [ n \in 1 .. N |-> s[f[n]] ]
  BY DEF Picked
<1> HIDE DEF f, N
<1>4. DOMAIN Picked(s, K) = 1 .. N /\ \A n \in 1 .. N : Picked(s, K)[n] = s[f[n]]
  BY <1>3
<1>5. Picked(s, K) \in Seq(S)
  <2>1. \A n \in 1 .. N : s[f[n]] \in S
    <3>1. \A i \in K : s[i] \in S
      OBVIOUS
    <3> QED
      BY <1>2, <3>1
  <2> QED
    BY <1>2, <1>3, <2>1
<1> QED
  BY <1>2, <1>4, <1>5
================================================================================
