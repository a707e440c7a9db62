------------------------- MODULE BotChannelsProofs --------------------------
(***************************************************************************)
(* What message_bot leaves in a channel, for any number of threads, calls, *)
(* channels and attempts: how often and in which order the chunks of a     *)
(* request appear, whatever errors came before or after a post; that the   *)
(* chunks are the request, and that the history made of a channel is of    *)
(* its messages, for texts and channels of any length.                     *)
(***************************************************************************)
EXTENDS BotChannels, SequenceTheorems, FiniteSetTheorems, WellFoundedInduction, TLAPS

-----------------------------------------------------------------------------
(* Induction, on a set of numbers: its least counterexample has none.      *)
LEMMA LeastNatural ==
  ASSUME NEW T \in SUBSET Nat, T # {}
  PROVE  \E m \in T : \A k \in T : m <= k
<1>1. PICK R : R = OpToRel(<, Nat)
  OBVIOUS
<1>2. IsWellFoundedOn(R, Nat)
  BY <1>1, NatLessThanWellFounded
<1>3. PICK m \in T : \A k \in T : <<k, m>> \notin R
  BY <1>2, WFMin
<1>4. \A k \in T : ~(k < m)
  BY <1>1, <1>3 DEF OpToRel
<1>. QED
  BY <1>4

LEMMA Induction ==
  ASSUME NEW S, 0 \in S, \A n \in Nat : n \in S => n + 1 \in S
  PROVE  \A n \in Nat : n \in S
<1>1. SUFFICES ASSUME Nat \ S # {} PROVE FALSE
  OBVIOUS
<1>2. PICK m \in Nat \ S : \A k \in Nat \ S : m <= k
  BY <1>1, LeastNatural
<1>3. m # 0 /\ m - 1 \in Nat /\ m - 1 \in S
  BY <1>2
<1>. QED
  BY <1>2, <1>3

(* FlattenSeq is the last of the concatenations of its first sequences.    *)
Upto(f, n, V, s) ==
  /\ f \in [0..n -> Seq(V)]
  /\ f[0] = <<>>
  /\ \A i \in 1..n : f[i] = f[i - 1] \o s[i]

Joins(f, V, s) == Upto(f, Len(s), V, s)

LEMMA JoinsExist ==
  ASSUME NEW V, NEW s \in Seq(Seq(V))
  PROVE  \E f : Joins(f, V, s)
<1>. DEFINE P(n) == n <= Len(s) => \E f : Upto(f, n, V, s)
            S    == {n \in Nat : P(n)}
<1>1. Len(s) \in Nat /\ \A i \in 1..Len(s) : s[i] \in Seq(V)
  BY ElementOfSeq
<1>2. P(0)
  <2>1. [i \in 0..0 |-> <<>>] \in [0..0 -> Seq(V)]
    BY EmptySeq
  <2>2. Upto([i \in 0..0 |-> <<>>], 0, V, s)
    BY <2>1 DEF Upto
  <2>. QED
    BY <2>2
<1>3. ASSUME NEW n \in Nat, P(n)
      PROVE  P(n + 1)
  <2>1. SUFFICES ASSUME n + 1 <= Len(s) PROVE \E f : Upto(f, n + 1, V, s)
    OBVIOUS
  <2>2. PICK f : Upto(f, n, V, s)
    BY <1>1, <1>3, <2>1
  <2>3. PICK v : v = f[n] \o s[n + 1]
    OBVIOUS
  <2>4. v \in Seq(V)
    <3>1. f[n] \in Seq(V) /\ s[n + 1] \in Seq(V)
      BY <1>1, <2>1, <2>2 DEF Upto
    <3>. QED
      BY <2>3, <3>1, ConcatProperties
  <2>5. PICK g : g = [i \in 0..(n + 1) |-> IF i = n + 1 THEN v ELSE f[i]]
    OBVIOUS
  <2>6. \A i \in 0..n : f[i] \in Seq(V)
    BY <2>2 DEF Upto
  <2>7. /\ g \in [0..(n + 1) -> Seq(V)]
        /\ g[0] = f[0] /\ g[n + 1] = v
        /\ \A i \in 0..n : g[i] = f[i]
    BY <2>4, <2>5, <2>6
  <2>8. ASSUME NEW i \in 1..(n + 1)
        PROVE  g[i] = g[i - 1] \o s[i]
    <3>1. CASE i = n + 1
      <4>1. i - 1 = n /\ n \in 0..n
        BY <3>1
      <4>. QED
        BY <2>3, <2>7, <3>1, <4>1
    <3>2. CASE i # n + 1
      <4>1. i \in 1..n /\ i \in 0..n /\ i - 1 \in 0..n
        BY <3>2
      <4>2. f[i] = f[i - 1] \o s[i]
        BY <2>2, <4>1 DEF Upto
      <4>. QED
        BY <2>7, <4>1, <4>2
    <3>. QED
      BY <3>1, <3>2
  <2>9. g[0] = <<>>
    BY <2>2, <2>7 DEF Upto
  <2>10. Upto(g, n + 1, V, s)
    BY <2>7, <2>8, <2>9 DEF Upto
  <2>. QED
    BY <2>10
<1>. HIDE DEF P
<1>4. 0 \in S /\ \A n \in Nat : n \in S => n + 1 \in S
  BY <1>2, <1>3
<1>5. Len(s) \in S
  <2>. HIDE DEF S
  <2>. QED
    BY <1>1, <1>4, Induction
<1>. QED
  BY <1>5 DEF P, Joins

LEMMA FlattenJoins ==
  ASSUME NEW V, NEW s \in Seq(Seq(V)), NEW f, Joins(f, V, s)
  PROVE  FlattenSeq(s) = f[Len(s)]
<1>1. Len(s) \in Nat /\ \A i \in 1..Len(s) : s[i] \in Seq(V)
  BY ElementOfSeq
<1>2. CASE Len(s) = 0
  <2>1. s = <<>>
    BY <1>2
  <2>. QED
    BY <1>2, <2>1 DEF FlattenSeq, Joins, Upto
<1>3. CASE Len(s) # 0
  <2>. DEFINE Solves(g) == g = [i \in 1..Len(s) |-> IF i = 1 THEN s[i] ELSE g[i - 1] \o s[i]]
  <2>1. f[0] = <<>> /\ \A i \in 1..Len(s) : f[i] = f[i - 1] \o s[i]
    BY DEF Joins, Upto
  <2>2. f[1] = s[1]
    <3>1. 1 \in 1..Len(s) /\ 1 - 1 = 0
      BY <1>1, <1>3
    <3>2. f[1] = <<>> \o s[1] /\ s[1] \in Seq(V)
      BY <1>1, <2>1, <3>1
    <3>. QED
      BY <3>2, ConcatEmptySeq
  <2>3. \E g : Solves(g)
    <3>1. PICK g : g = [i \in 1..Len(s) |-> f[i]]
      OBVIOUS
    <3>2. ASSUME NEW i \in 1..Len(s)
          PROVE  f[i] = IF i = 1 THEN s[i] ELSE g[i - 1] \o s[i]
      <4>1. CASE i = 1
        BY <2>2, <4>1
      <4>2. CASE i # 1
        <5>1. i - 1 \in 1..Len(s)
          BY <1>1, <4>2
        <5>. QED
          BY <2>1, <3>1, <4>2, <5>1
      <4>. QED
        BY <4>1, <4>2
    <3>3. [i \in 1..Len(s) |-> f[i]] = [i \in 1..Len(s) |-> IF i = 1 THEN s[i] ELSE g[i - 1] \o s[i]]
      BY <3>2
    <3>. QED
      BY <3>1, <3>3
  <2>4. PICK g : Solves(g) /\ FlattenSeq(s) = g[Len(s)]
    BY <1>3, <2>3 DEF FlattenSeq
  <2>. DEFINE P(n) == n + 1 <= Len(s) => g[n + 1] = f[n + 1]
              S    == {n \in Nat : P(n)}
  <2>5. P(0)
    <3>1. 1 \in 1..Len(s)
      BY <1>1, <1>3
    <3>2. g[1] = s[1]
      BY <2>4, <3>1
    <3>. QED
      BY <2>2, <3>2
  <2>6. ASSUME NEW n \in Nat, P(n)
        PROVE  P(n + 1)
    <3>1. SUFFICES ASSUME n + 2 <= Len(s) PROVE g[n + 2] = f[n + 2]
      OBVIOUS
    <3>2. n + 2 \in 1..Len(s) /\ n + 2 # 1 /\ (n + 2) - 1 = n + 1 /\ n + 1 <= Len(s)
      BY <1>1, <3>1
    <3>3. g[n + 2] = g[n + 1] \o s[n + 2]
      BY <2>4, <3>2
    <3>4. f[n + 2] = f[n + 1] \o s[n + 2]
      BY <2>1, <3>2
    <3>. QED
      BY <2>6, <3>2, <3>3, <3>4
  <2>. HIDE DEF P
  <2>7. 0 \in S /\ \A n \in Nat : n \in S => n + 1 \in S
    BY <2>5, <2>6
  <2>8. Len(s) - 1 \in S
    <3>1. Len(s) - 1 \in Nat
      BY <1>1, <1>3
    <3>. HIDE DEF S
    <3>. QED
      BY <2>7, <3>1, Induction
  <2>9. g[Len(s)] = f[Len(s)]
    BY <1>1, <1>3, <2>8 DEF P
  <2>. QED
    BY <2>4, <2>9
<1>. QED
  BY <1>2, <1>3

-----------------------------------------------------------------------------
(* FoldLeft.  A fold over a sequence is a recursive function on the sets   *)
(* of its indices; on the set of the first n it is the fold of the first n.*)
LEMMA MaxOf ==
  ASSUME NEW n \in Nat, NEW T \in SUBSET (1..(n + 1)), n + 1 \in T
  PROVE  Max(T) = n + 1
<1>1. \A x \in T : x \in Int /\ n + 1 >= x
  OBVIOUS
<1>2. Max(T) \in T /\ \A y \in T : Max(T) >= y
  <2>1. \E x \in T : \A y \in T : x >= y
    BY <1>1
  <2>. QED
    BY <2>1 DEF Max
<1>3. Max(T) >= n + 1 /\ n + 1 >= Max(T) /\ Max(T) \in Int
  BY <1>1, <1>2
<1>. QED
  BY <1>3

LEMMA MaxIn ==
  ASSUME NEW n \in Nat, NEW T \in SUBSET (1..n), T # {}
  PROVE  Max(T) \in T
<1>. DEFINE S == {k \in Nat : \E x \in T : k + x = n}
<1>1. \A x \in T : x \in Nat /\ x <= n /\ n - x \in S
  <2>1. \A x \in T : x \in Nat /\ x <= n /\ n - x \in Nat /\ (n - x) + x = n
    OBVIOUS
  <2>. QED
    BY <2>1
<1>2. S \in SUBSET Nat /\ S # {}
  BY <1>1
<1>3. \A k \in S : \E x \in T : k + x = n
  OBVIOUS
<1>. HIDE DEF S
<1>4. PICK k \in S : \A j \in S : k <= j
  BY <1>2, LeastNatural
<1>5. PICK x \in T : k + x = n
  BY <1>3
<1>6. \A y \in T : x >= y
  BY <1>1, <1>2, <1>4, <1>5
<1>. QED
  BY <1>6 DEF Max

LEMMA MaxOfFirst ==
  ASSUME NEW n \in Nat \ {0}
  PROVE  Max(1..n) = n /\ (1..n) \ {n} = 1..(n - 1)
<1>1. n - 1 \in Nat /\ (n - 1) + 1 = n /\ n \in 1..n /\ 1..n \in SUBSET (1..((n - 1) + 1))
  OBVIOUS
<1>2. Max(1..n) = n
  BY <1>1, MaxOf
<1>. QED
  BY <1>2

Iterates(it, n, V, base, step, s) ==
  /\ it \in [SUBSET (1..n) -> V]
  /\ \A T \in SUBSET (1..n) :
       it[T] = IF T = {} THEN base ELSE step[<<it[T \ {Max(T)}], s[Max(T)]>>]

LEMMA IteratesExist ==
  ASSUME NEW V, NEW X, NEW base \in V, NEW step \in [V \X X -> V], NEW s \in Seq(X)
  PROVE  \E it : Iterates(it, Len(s), V, base, step, s)
<1>. DEFINE P(n) == n <= Len(s) => \E it : Iterates(it, n, V, base, step, s)
            S    == {n \in Nat : P(n)}
<1>1. Len(s) \in Nat /\ \A i \in 1..Len(s) : s[i] \in X
  BY ElementOfSeq
<1>2. P(0)
  <2>1. PICK it : it = [T \in SUBSET (1..0) |-> base]
    OBVIOUS
  <2>2. it \in [SUBSET (1..0) -> V] /\ \A T \in SUBSET (1..0) : it[T] = base /\ T = {}
    BY <2>1
  <2>3. Iterates(it, 0, V, base, step, s)
    BY <2>2 DEF Iterates
  <2>. QED
    BY <2>2, <2>3
<1>3. ASSUME NEW n \in Nat, P(n)
      PROVE  P(n + 1)
  <2>1. SUFFICES ASSUME n + 1 <= Len(s)
                 PROVE  \E it : Iterates(it, n + 1, V, base, step, s)
    OBVIOUS
  <2>2. PICK it : Iterates(it, n, V, base, step, s)
    BY <1>1, <1>3, <2>1
  <2>3. PICK x \in X : x = s[n + 1]
    BY <1>1, <2>1
  <2>4. PICK jt : jt = [T \in SUBSET (1..(n + 1)) |->
                          IF n + 1 \in T THEN step[<<it[T \ {n + 1}], x>>] ELSE it[T]]
    OBVIOUS
  <2>5. ASSUME NEW T \in SUBSET (1..(n + 1))
        PROVE  /\ T \ {n + 1} \in SUBSET (1..n)
               /\ n + 1 \notin T => T \in SUBSET (1..n)
    <3>1. ASSUME NEW y \in T, y # n + 1
          PROVE  y \in 1..n
      <4>1. y \in 1..(n + 1)
        OBVIOUS
      <4>. QED
        BY <3>1, <4>1
    <3>. QED
      BY <3>1
  <2>6. jt \in [SUBSET (1..(n + 1)) -> V]
    <3>1. ASSUME NEW T \in SUBSET (1..(n + 1))
          PROVE  (IF n + 1 \in T THEN step[<<it[T \ {n + 1}], x>>] ELSE it[T]) \in V
      <4>1. CASE n + 1 \in T
        <5>1. it[T \ {n + 1}] \in V
          BY <2>2, <2>5 DEF Iterates
        <5>. QED
          BY <4>1, <5>1
      <4>2. CASE n + 1 \notin T
        BY <2>2, <2>5, <4>2 DEF Iterates
      <4>. QED
        BY <4>1, <4>2
    <3>. QED
      BY <2>4, <3>1
  <2>7. \A T \in SUBSET (1..n) : T \in SUBSET (1..(n + 1)) /\ jt[T] = it[T]
    <3>1. SUFFICES ASSUME NEW T \in SUBSET (1..n)
                   PROVE  T \in SUBSET (1..(n + 1)) /\ jt[T] = it[T]
      OBVIOUS
    <3>2. T \in SUBSET (1..(n + 1)) /\ n + 1 \notin T
      OBVIOUS
    <3>. QED
      BY <2>4, <3>2
  <2>8. ASSUME NEW T \in SUBSET (1..(n + 1))
        PROVE  jt[T] = IF T = {} THEN base ELSE step[<<jt[T \ {Max(T)}], s[Max(T)]>>]
    <3>1. CASE n + 1 \in T
      <4>1. Max(T) = n + 1 /\ T # {}
        BY <3>1, MaxOf
      <4>2. jt[T] = step[<<it[T \ {n + 1}], x>>]
        BY <2>4, <3>1
      <4>3. jt[T \ {n + 1}] = it[T \ {n + 1}]
        BY <2>5, <2>7
      <4>. QED
        BY <2>3, <4>1, <4>2, <4>3
    <3>2. CASE n + 1 \notin T
      <4>1. T \in SUBSET (1..n) /\ T \ {Max(T)} \in SUBSET (1..n)
        BY <2>5, <3>2
      <4>2. jt[T] = it[T] /\ jt[T \ {Max(T)}] = it[T \ {Max(T)}]
        BY <2>7, <4>1
      <4>3. it[T] = IF T = {} THEN base ELSE step[<<it[T \ {Max(T)}], s[Max(T)]>>]
        BY <2>2, <4>1 DEF Iterates
      <4>. QED
        BY <4>2, <4>3
    <3>. QED
      BY <3>1, <3>2
  <2>9. Iterates(jt, n + 1, V, base, step, s)
    BY <2>6, <2>8 DEF Iterates
  <2>. QED
    BY <2>6, <2>9
<1>. HIDE DEF P
<1>4. 0 \in S /\ \A n \in Nat : n \in S => n + 1 \in S
  BY <1>2, <1>3
<1>5. Len(s) \in S
  <2>. HIDE DEF S
  <2>. QED
    BY <1>1, <1>4, Induction
<1>. QED
  BY <1>5 DEF P

(* The fold of the first i elements, for every i.                          *)
Steps(it, V, X, base, step, s) ==
  /\ base \in V /\ step \in [V \X X -> V] /\ s \in Seq(X)
  /\ it[{}] = base
  /\ \A T \in SUBSET (1..Len(s)) : T # {} /\ it[T \ {Max(T)}] \in V =>
       it[T] = step[<<it[T \ {Max(T)}], s[Max(T)]>>]

Folds(f, V, base, step, s) ==
  /\ f \in [0..Len(s) -> V]
  /\ f[0] = base
  /\ \A i \in 1..Len(s) : f[i] = step[<<f[i - 1], s[i]>>]

LEMMA FoldOfFirst ==
  ASSUME NEW V, NEW X, NEW base, NEW step, NEW s, NEW it, Steps(it, V, X, base, step, s)
  PROVE  \E f : Folds(f, V, base, step, s) /\ f[Len(s)] = it[1..Len(s)]
<1>. base \in V /\ step \in [V \X X -> V] /\ s \in Seq(X)
  BY DEF Steps
<1>1. Len(s) \in Nat /\ \A i \in 1..Len(s) : s[i] \in X
  BY ElementOfSeq
<1>2. ASSUME NEW i \in 1..Len(s), it[1..(i - 1)] \in V
      PROVE  it[1..i] = step[<<it[1..(i - 1)], s[i]>>] /\ it[1..i] \in V
  <2>1. i \in Nat \ {0} /\ i \in 1..i
    BY <1>1
  <2>2. Max(1..i) = i /\ (1..i) \ {i} = 1..(i - 1)
    BY <2>1, MaxOfFirst
  <2>3. 1..i \in SUBSET (1..Len(s)) /\ 1..i # {}
    <3>1. PICK l \in Nat : l = Len(s)
      BY <1>1
    <3>2. \A k \in 1..i : k \in 1..l
      BY <2>1, <3>1
    <3>. QED
      BY <2>1, <3>1, <3>2
  <2>4. it[1..i] = step[<<it[1..(i - 1)], s[i]>>]
    BY <1>2, <2>2, <2>3 DEF Steps
  <2>. QED
    BY <1>1, <1>2, <2>4
<1>. DEFINE P(n) == n <= Len(s) => it[1..n] \in V
            S    == {n \in Nat : P(n)}
<1>3. P(0)
  <2>1. 1..0 = {}
    OBVIOUS
  <2>. QED
    BY <2>1 DEF Steps
<1>4. ASSUME NEW n \in Nat, P(n)
      PROVE  P(n + 1)
  <2>1. SUFFICES ASSUME n + 1 <= Len(s) PROVE it[1..(n + 1)] \in V
    OBVIOUS
  <2>2. n + 1 \in 1..Len(s) /\ (n + 1) - 1 = n /\ n <= Len(s)
    BY <1>1, <2>1
  <2>. QED
    BY <1>2, <1>4, <2>2
<1>. HIDE DEF P
<1>5. 0 \in S /\ \A n \in Nat : n \in S => n + 1 \in S
  BY <1>3, <1>4
<1>6. \A n \in Nat : n \in S
  <2>. HIDE DEF S
  <2>. QED
    BY <1>5, Induction
<1>7. \A n \in 0..Len(s) : it[1..n] \in V
  BY <1>1, <1>6 DEF P
<1>8. PICK f : f = [i \in 0..Len(s) |-> it[1..i]]
  OBVIOUS
<1>9. f \in [0..Len(s) -> V] /\ \A i \in 0..Len(s) : f[i] = it[1..i]
  BY <1>7, <1>8
<1>10. f[0] = base
  <2>1. 1..0 = {} /\ 0 \in 0..Len(s)
    BY <1>1
  <2>. QED
    BY <1>9, <2>1 DEF Steps
<1>11. ASSUME NEW i \in 1..Len(s)
       PROVE  f[i] = step[<<f[i - 1], s[i]>>]
  <2>1. i \in 0..Len(s) /\ i - 1 \in 0..Len(s)
    BY <1>1
  <2>. QED
    BY <1>2, <1>7, <1>9, <2>1
<1>12. Folds(f, V, base, step, s)
  BY <1>9, <1>10, <1>11 DEF Folds
<1>13. f[Len(s)] = it[1..Len(s)]
  BY <1>1, <1>9
<1>. QED
  BY <1>12, <1>13

(* The folds of the model: of the lengths of lines, ...                    *)
LEMMA LengthFolds ==
  ASSUME NEW s \in Seq(Line)
  PROVE  \E f : /\ f \in [0..Len(s) -> Nat]
                /\ f[0] = 0
                /\ \A i \in 1..Len(s) : f[i] = f[i - 1] + s[i].length
                /\ Length(s) = f[Len(s)]
<1>1. /\ Len(s) \in Nat /\ DOMAIN s = 1..Len(s) /\ \A i \in 1..Len(s) : s[i] \in Line
      /\ 0 \in Nat
  BY LenProperties, ElementOfSeq
<1>2. \A v \in Nat, x \in Line : v + x.length \in Nat
  BY DEF Line
<1>3. PICK step : step = [p \in Nat \X Line |-> p[1] + p[2].length]
  OBVIOUS
<1>4. step \in [Nat \X Line -> Nat] /\ \A v \in Nat, x \in Line : step[<<v, x>>] = v + x.length
  BY <1>2, <1>3
<1>. DEFINE It(it) == it = [T \in SUBSET (DOMAIN s) |->
                             IF T = {} THEN 0 ELSE it[T \ {Max(T)}] + s[Max(T)].length]
<1>5. \E it : It(it)
  <2>1. PICK it : Iterates(it, Len(s), Nat, 0, step, s)
    BY <1>1, <1>4, IteratesExist
  <2>2. ASSUME NEW T \in SUBSET (DOMAIN s), T # {}
        PROVE  it[T] = it[T \ {Max(T)}] + s[Max(T)].length
    <3>1. Max(T) \in T /\ T \ {Max(T)} \in SUBSET (1..Len(s))
      BY <1>1, <2>2, MaxIn
    <3>2. it[T \ {Max(T)}] \in Nat /\ s[Max(T)] \in Line
      BY <1>1, <2>1, <3>1 DEF Iterates
    <3>3. it[T] = step[<<it[T \ {Max(T)}], s[Max(T)]>>]
      BY <1>1, <2>1, <2>2 DEF Iterates
    <3>. QED
      BY <1>4, <3>2, <3>3
  <2>3. it \in [SUBSET (DOMAIN s) -> Nat] /\ it[{}] = 0
    BY <1>1, <2>1 DEF Iterates
  <2>4. It(it)
    BY <2>2, <2>3
  <2>. QED
    BY <2>4
<1>6. PICK it : It(it) /\ Length(s) = it[DOMAIN s]
  BY <1>5 DEF Length, FoldLeft, MapThenFoldSet
<1>7. Steps(it, Nat, Line, 0, step, s)
  <2>1. ASSUME NEW T \in SUBSET (1..Len(s)), T # {}, it[T \ {Max(T)}] \in Nat
        PROVE  it[T] = step[<<it[T \ {Max(T)}], s[Max(T)]>>]
    <3>1. Max(T) \in T
      BY <1>1, <2>1, MaxIn
    <3>2. it[T] = it[T \ {Max(T)}] + s[Max(T)].length /\ s[Max(T)] \in Line
      BY <1>1, <1>6, <2>1, <3>1
    <3>. QED
      BY <1>4, <2>1, <3>2
  <2>2. it[{}] = 0
    BY <1>6
  <2>. QED
    BY <1>1, <1>4, <2>1, <2>2 DEF Steps
<1>8. PICK f : Folds(f, Nat, 0, step, s) /\ f[Len(s)] = it[1..Len(s)]
  BY <1>7, FoldOfFirst
<1>9. /\ f \in [0..Len(s) -> Nat] /\ f[0] = 0
      /\ \A i \in 1..Len(s) : f[i] = step[<<f[i - 1], s[i]>>]
  BY <1>8 DEF Folds
<1>10. ASSUME NEW i \in 1..Len(s)
       PROVE  f[i] = f[i - 1] + s[i].length
  <2>1. f[i - 1] \in Nat /\ s[i] \in Line
    BY <1>1, <1>9
  <2>. QED
    BY <1>4, <1>9, <2>1
<1>. QED
  BY <1>1, <1>6, <1>8, <1>9, <1>10

(* ... of the lines that are put into chunks, ...                          *)
Cut    == [chunks : Seq(Seq(Line)), current : Seq(Line)]
NoCut  == [chunks |-> <<>>, current |-> <<>>]

LEMMA CutFolds ==
  ASSUME NEW s \in Seq(Line)
  PROVE  \E f : /\ f \in [0..Len(s) -> Cut]
                /\ f[0] = NoCut
                /\ \A i \in 1..Len(s) : f[i] = AddLine(f[i - 1], s[i])
                /\ FoldLeft(AddLine, [chunks |-> <<>>, current |-> <<>>], s) = f[Len(s)]
<1>1. /\ Len(s) \in Nat /\ DOMAIN s = 1..Len(s) /\ \A i \in 1..Len(s) : s[i] \in Line
      /\ NoCut \in Cut
  BY LenProperties, ElementOfSeq DEF NoCut, Cut
<1>2. \A v \in Cut, x \in Line : AddLine(v, x) \in Cut
  <2>. SUFFICES ASSUME NEW v \in Cut, NEW x \in Line PROVE AddLine(v, x) \in Cut
    OBVIOUS
  <2>1. v.chunks \in Seq(Seq(Line)) /\ v.current \in Seq(Line) /\ <<x>> \in Seq(Line)
    BY DEF Cut
  <2>2. Append(v.current, x) \in Seq(Line) /\ Append(v.chunks, v.current) \in Seq(Seq(Line))
    BY <2>1
  <2>3. [v EXCEPT !.current = Append(@, x)] \in Cut
    BY <2>1, <2>2 DEF Cut
  <2>4. [chunks |-> Append(v.chunks, v.current), current |-> <<x>>] \in Cut
    BY <2>1, <2>2 DEF Cut
  <2>. QED
    BY <2>3, <2>4 DEF AddLine
<1>3. PICK step : step = [p \in Cut \X Line |-> AddLine(p[1], p[2])]
  OBVIOUS
<1>4. step \in [Cut \X Line -> Cut] /\ \A v \in Cut, x \in Line : step[<<v, x>>] = AddLine(v, x)
  BY <1>2, <1>3
<1>. DEFINE It(it) == it = [T \in SUBSET (DOMAIN s) |->
                             IF T = {} THEN NoCut ELSE AddLine(it[T \ {Max(T)}], s[Max(T)])]
<1>5. \E it : It(it)
  <2>1. PICK it : Iterates(it, Len(s), Cut, NoCut, step, s)
    BY <1>1, <1>4, IteratesExist
  <2>2. ASSUME NEW T \in SUBSET (DOMAIN s), T # {}
        PROVE  it[T] = AddLine(it[T \ {Max(T)}], s[Max(T)])
    <3>1. Max(T) \in T /\ T \ {Max(T)} \in SUBSET (1..Len(s))
      BY <1>1, <2>2, MaxIn
    <3>2. it[T \ {Max(T)}] \in Cut /\ s[Max(T)] \in Line
      BY <1>1, <2>1, <3>1 DEF Iterates
    <3>3. it[T] = step[<<it[T \ {Max(T)}], s[Max(T)]>>]
      BY <1>1, <2>1, <2>2 DEF Iterates
    <3>. QED
      BY <1>4, <3>2, <3>3
  <2>3. it \in [SUBSET (DOMAIN s) -> Cut] /\ it[{}] = NoCut
    BY <1>1, <2>1 DEF Iterates
  <2>4. It(it)
    BY <2>2, <2>3
  <2>. QED
    BY <2>4
<1>6. PICK it : It(it) /\ FoldLeft(AddLine, [chunks |-> <<>>, current |-> <<>>], s) = it[DOMAIN s]
  BY <1>5 DEF NoCut, FoldLeft, MapThenFoldSet
<1>7. Steps(it, Cut, Line, NoCut, step, s)
  <2>1. ASSUME NEW T \in SUBSET (1..Len(s)), T # {}, it[T \ {Max(T)}] \in Cut
        PROVE  it[T] = step[<<it[T \ {Max(T)}], s[Max(T)]>>]
    <3>1. Max(T) \in T
      BY <1>1, <2>1, MaxIn
    <3>2. it[T] = AddLine(it[T \ {Max(T)}], s[Max(T)]) /\ s[Max(T)] \in Line
      BY <1>1, <1>6, <2>1, <3>1
    <3>. QED
      BY <1>4, <2>1, <3>2
  <2>2. it[{}] = NoCut
    BY <1>6
  <2>. QED
    BY <1>1, <1>4, <2>1, <2>2 DEF Steps
<1>8. PICK f : Folds(f, Cut, NoCut, step, s) /\ f[Len(s)] = it[1..Len(s)]
  BY <1>7, FoldOfFirst
<1>9. /\ f \in [0..Len(s) -> Cut] /\ f[0] = NoCut
      /\ \A i \in 1..Len(s) : f[i] = step[<<f[i - 1], s[i]>>]
  BY <1>8 DEF Folds
<1>10. ASSUME NEW i \in 1..Len(s)
       PROVE  f[i] = AddLine(f[i - 1], s[i])
  <2>1. f[i - 1] \in Cut /\ s[i] \in Line
    BY <1>1, <1>9
  <2>. QED
    BY <1>4, <1>9, <2>1
<1>. QED
  BY <1>1, <1>6, <1>8, <1>9, <1>10

(* ... of the chunks that are not blank, ...                                *)
UnlessBlank(kept, c) == IF Blank(c) THEN kept ELSE Append(kept, c)

LEMMA SpokenFolds ==
  ASSUME NEW s \in Seq(Seq(Line))
  PROVE  \E f : /\ f \in [0..Len(s) -> Seq(Seq(Line))]
                /\ f[0] = <<>>
                /\ \A i \in 1..Len(s) : f[i] = UnlessBlank(f[i - 1], s[i])
                /\ Spoken(s) = f[Len(s)]
<1>1. /\ Len(s) \in Nat /\ DOMAIN s = 1..Len(s) /\ \A i \in 1..Len(s) : s[i] \in Seq(Line)
      /\ <<>> \in Seq(Seq(Line))
  BY LenProperties, ElementOfSeq
<1>2. \A v \in Seq(Seq(Line)), x \in Seq(Line) : UnlessBlank(v, x) \in Seq(Seq(Line))
  BY DEF UnlessBlank
<1>3. PICK step : step = [p \in Seq(Seq(Line)) \X Seq(Line) |-> UnlessBlank(p[1], p[2])]
  OBVIOUS
<1>4. step \in [Seq(Seq(Line)) \X Seq(Line) -> Seq(Seq(Line))] /\ \A v \in Seq(Seq(Line)), x \in Seq(Line) : step[<<v, x>>] = UnlessBlank(v, x)
  BY <1>2, <1>3
<1>. DEFINE It(it) == it = [T \in SUBSET (DOMAIN s) |->
                             IF T = {} THEN <<>> ELSE UnlessBlank(it[T \ {Max(T)}], s[Max(T)])]
<1>5. \E it : It(it)
  <2>1. PICK it : Iterates(it, Len(s), Seq(Seq(Line)), <<>>, step, s)
    BY <1>1, <1>4, IteratesExist
  <2>2. ASSUME NEW T \in SUBSET (DOMAIN s), T # {}
        PROVE  it[T] = UnlessBlank(it[T \ {Max(T)}], s[Max(T)])
    <3>1. Max(T) \in T /\ T \ {Max(T)} \in SUBSET (1..Len(s))
      BY <1>1, <2>2, MaxIn
    <3>2. it[T \ {Max(T)}] \in Seq(Seq(Line)) /\ s[Max(T)] \in Seq(Line)
      BY <1>1, <2>1, <3>1 DEF Iterates
    <3>3. it[T] = step[<<it[T \ {Max(T)}], s[Max(T)]>>]
      BY <1>1, <2>1, <2>2 DEF Iterates
    <3>. QED
      BY <1>4, <3>2, <3>3
  <2>3. it \in [SUBSET (DOMAIN s) -> Seq(Seq(Line))] /\ it[{}] = <<>>
    BY <1>1, <2>1 DEF Iterates
  <2>4. It(it)
    BY <2>2, <2>3
  <2>. QED
    BY <2>4
<1>6. PICK it : It(it) /\ Spoken(s) = it[DOMAIN s]
  BY <1>5 DEF UnlessBlank, Spoken, FoldLeft, MapThenFoldSet
<1>7. Steps(it, Seq(Seq(Line)), Seq(Line), <<>>, step, s)
  <2>1. ASSUME NEW T \in SUBSET (1..Len(s)), T # {}, it[T \ {Max(T)}] \in Seq(Seq(Line))
        PROVE  it[T] = step[<<it[T \ {Max(T)}], s[Max(T)]>>]
    <3>1. Max(T) \in T
      BY <1>1, <2>1, MaxIn
    <3>2. it[T] = UnlessBlank(it[T \ {Max(T)}], s[Max(T)]) /\ s[Max(T)] \in Seq(Line)
      BY <1>1, <1>6, <2>1, <3>1
    <3>. QED
      BY <1>4, <2>1, <3>2
  <2>2. it[{}] = <<>>
    BY <1>6
  <2>. QED
    BY <1>1, <1>4, <2>1, <2>2 DEF Steps
<1>8. PICK f : Folds(f, Seq(Seq(Line)), <<>>, step, s) /\ f[Len(s)] = it[1..Len(s)]
  BY <1>7, FoldOfFirst
<1>9. /\ f \in [0..Len(s) -> Seq(Seq(Line))] /\ f[0] = <<>>
      /\ \A i \in 1..Len(s) : f[i] = step[<<f[i - 1], s[i]>>]
  BY <1>8 DEF Folds
<1>10. ASSUME NEW i \in 1..Len(s)
       PROVE  f[i] = UnlessBlank(f[i - 1], s[i])
  <2>1. f[i - 1] \in Seq(Seq(Line)) /\ s[i] \in Seq(Line)
    BY <1>1, <1>9
  <2>. QED
    BY <1>4, <1>9, <2>1
<1>. QED
  BY <1>1, <1>6, <1>8, <1>9, <1>10

(* ... of the messages with text, ...                                       *)
IfText(kept, p) == IF p.text THEN Append(kept, p) ELSE kept

LEMMA TextFolds ==
  ASSUME NEW s \in Seq(Post)
  PROVE  \E f : /\ f \in [0..Len(s) -> Seq(Post)]
                /\ f[0] = <<>>
                /\ \A i \in 1..Len(s) : f[i] = IfText(f[i - 1], s[i])
                /\ WithText(s) = f[Len(s)]
<1>1. /\ Len(s) \in Nat /\ DOMAIN s = 1..Len(s) /\ \A i \in 1..Len(s) : s[i] \in Post
      /\ <<>> \in Seq(Post)
  BY LenProperties, ElementOfSeq
<1>2. \A v \in Seq(Post), x \in Post : IfText(v, x) \in Seq(Post)
  BY DEF IfText
<1>3. PICK step : step = [p \in Seq(Post) \X Post |-> IfText(p[1], p[2])]
  OBVIOUS
<1>4. step \in [Seq(Post) \X Post -> Seq(Post)] /\ \A v \in Seq(Post), x \in Post : step[<<v, x>>] = IfText(v, x)
  BY <1>2, <1>3
<1>. DEFINE It(it) == it = [T \in SUBSET (DOMAIN s) |->
                             IF T = {} THEN <<>> ELSE IfText(it[T \ {Max(T)}], s[Max(T)])]
<1>5. \E it : It(it)
  <2>1. PICK it : Iterates(it, Len(s), Seq(Post), <<>>, step, s)
    BY <1>1, <1>4, IteratesExist
  <2>2. ASSUME NEW T \in SUBSET (DOMAIN s), T # {}
        PROVE  it[T] = IfText(it[T \ {Max(T)}], s[Max(T)])
    <3>1. Max(T) \in T /\ T \ {Max(T)} \in SUBSET (1..Len(s))
      BY <1>1, <2>2, MaxIn
    <3>2. it[T \ {Max(T)}] \in Seq(Post) /\ s[Max(T)] \in Post
      BY <1>1, <2>1, <3>1 DEF Iterates
    <3>3. it[T] = step[<<it[T \ {Max(T)}], s[Max(T)]>>]
      BY <1>1, <2>1, <2>2 DEF Iterates
    <3>. QED
      BY <1>4, <3>2, <3>3
  <2>3. it \in [SUBSET (DOMAIN s) -> Seq(Post)] /\ it[{}] = <<>>
    BY <1>1, <2>1 DEF Iterates
  <2>4. It(it)
    BY <2>2, <2>3
  <2>. QED
    BY <2>4
<1>6. PICK it : It(it) /\ WithText(s) = it[DOMAIN s]
  BY <1>5 DEF IfText, WithText, FoldLeft, MapThenFoldSet
<1>7. Steps(it, Seq(Post), Post, <<>>, step, s)
  <2>1. ASSUME NEW T \in SUBSET (1..Len(s)), T # {}, it[T \ {Max(T)}] \in Seq(Post)
        PROVE  it[T] = step[<<it[T \ {Max(T)}], s[Max(T)]>>]
    <3>1. Max(T) \in T
      BY <1>1, <2>1, MaxIn
    <3>2. it[T] = IfText(it[T \ {Max(T)}], s[Max(T)]) /\ s[Max(T)] \in Post
      BY <1>1, <1>6, <2>1, <3>1
    <3>. QED
      BY <1>4, <2>1, <3>2
  <2>2. it[{}] = <<>>
    BY <1>6
  <2>. QED
    BY <1>1, <1>4, <2>1, <2>2 DEF Steps
<1>8. PICK f : Folds(f, Seq(Post), <<>>, step, s) /\ f[Len(s)] = it[1..Len(s)]
  BY <1>7, FoldOfFirst
<1>9. /\ f \in [0..Len(s) -> Seq(Post)] /\ f[0] = <<>>
      /\ \A i \in 1..Len(s) : f[i] = step[<<f[i - 1], s[i]>>]
  BY <1>8 DEF Folds
<1>10. ASSUME NEW i \in 1..Len(s)
       PROVE  f[i] = IfText(f[i - 1], s[i])
  <2>1. f[i - 1] \in Seq(Post) /\ s[i] \in Post
    BY <1>1, <1>9
  <2>. QED
    BY <1>4, <1>9, <2>1
<1>. QED
  BY <1>1, <1>6, <1>8, <1>9, <1>10

(* ... and of the messages that are merged into turns.                      *)
HistoryTurn == [role : {"user", "assistant"}, content : Seq(Post)]
Merged(by, posts) == FoldLeft(LAMBDA turns, p : Merge(by, turns, p), <<>>, posts)

LEMMA MergeTyped ==
  \A by : \A turns \in Seq(HistoryTurn), p \in Post : Merge(by, turns, p) \in Seq(HistoryTurn)
<1>. SUFFICES ASSUME NEW by, NEW turns \in Seq(HistoryTurn), NEW p \in Post
              PROVE  Merge(by, turns, p) \in Seq(HistoryTurn)
  OBVIOUS
<1>1. PICK new : new = [role |-> Role(by, p), content |-> <<p>>]
  OBVIOUS
<1>2. new \in HistoryTurn
  BY <1>1 DEF HistoryTurn, Role
<1>3. Append(turns, new) \in Seq(HistoryTurn)
  BY <1>2
<1>4. CASE turns # <<>>
  <2>1. Len(turns) \in 1..Len(turns)
    BY <1>4
  <2>2. PICK t \in HistoryTurn : t = turns[Len(turns)]
    BY <2>1, ElementOfSeq
  <2>3. PICK last : last = [t EXCEPT !.content = Append(@, p)]
    OBVIOUS
  <2>4. last \in HistoryTurn
    <3>1. t.content \in Seq(Post)
      BY DEF HistoryTurn
    <3>2. Append(t.content, p) \in Seq(Post)
      BY <3>1
    <3>. QED
      BY <2>3, <3>2 DEF HistoryTurn
  <2>5. [turns EXCEPT ![Len(turns)] = last] \in Seq(HistoryTurn)
    BY <2>1, <2>4, ExceptSeq
  <2>6. [turns EXCEPT ![Len(turns)].content = Append(@, p)] = [turns EXCEPT ![Len(turns)] = last]
    BY <2>2, <2>3
  <2>. QED
    BY <1>1, <1>3, <2>5, <2>6 DEF Merge
<1>5. CASE turns = <<>>
  BY <1>1, <1>3, <1>5 DEF Merge
<1>. QED
  BY <1>4, <1>5

LEMMA MergeFolds ==
  ASSUME NEW s \in Seq(Post), NEW by
  PROVE  \E f : /\ f \in [0..Len(s) -> Seq(HistoryTurn)]
                /\ f[0] = <<>>
                /\ \A i \in 1..Len(s) : f[i] = Merge(by, f[i - 1], s[i])
                /\ Merged(by, s) = f[Len(s)]
<1>1. /\ Len(s) \in Nat /\ DOMAIN s = 1..Len(s) /\ \A i \in 1..Len(s) : s[i] \in Post
      /\ <<>> \in Seq(HistoryTurn)
  BY LenProperties, ElementOfSeq
<1>2. \A v \in Seq(HistoryTurn), x \in Post : Merge(by, v, x) \in Seq(HistoryTurn)
  BY MergeTyped
<1>3. PICK step : step = [p \in Seq(HistoryTurn) \X Post |-> Merge(by, p[1], p[2])]
  OBVIOUS
<1>4. step \in [Seq(HistoryTurn) \X Post -> Seq(HistoryTurn)] /\ \A v \in Seq(HistoryTurn), x \in Post : step[<<v, x>>] = Merge(by, v, x)
  BY <1>2, <1>3
<1>. DEFINE It(it) == it = [T \in SUBSET (DOMAIN s) |->
                             IF T = {} THEN <<>> ELSE Merge(by, it[T \ {Max(T)}], s[Max(T)])]
<1>5. \E it : It(it)
  <2>1. PICK it : Iterates(it, Len(s), Seq(HistoryTurn), <<>>, step, s)
    BY <1>1, <1>4, IteratesExist
  <2>2. ASSUME NEW T \in SUBSET (DOMAIN s), T # {}
        PROVE  it[T] = Merge(by, it[T \ {Max(T)}], s[Max(T)])
    <3>1. Max(T) \in T /\ T \ {Max(T)} \in SUBSET (1..Len(s))
      BY <1>1, <2>2, MaxIn
    <3>2. it[T \ {Max(T)}] \in Seq(HistoryTurn) /\ s[Max(T)] \in Post
      BY <1>1, <2>1, <3>1 DEF Iterates
    <3>3. it[T] = step[<<it[T \ {Max(T)}], s[Max(T)]>>]
      BY <1>1, <2>1, <2>2 DEF Iterates
    <3>. QED
      BY <1>4, <3>2, <3>3
  <2>3. it \in [SUBSET (DOMAIN s) -> Seq(HistoryTurn)] /\ it[{}] = <<>>
    BY <1>1, <2>1 DEF Iterates
  <2>4. It(it)
    BY <2>2, <2>3
  <2>. QED
    BY <2>4
<1>6. PICK it : It(it) /\ Merged(by, s) = it[DOMAIN s]
  BY <1>5 DEF Merged, FoldLeft, MapThenFoldSet
<1>7. Steps(it, Seq(HistoryTurn), Post, <<>>, step, s)
  <2>1. ASSUME NEW T \in SUBSET (1..Len(s)), T # {}, it[T \ {Max(T)}] \in Seq(HistoryTurn)
        PROVE  it[T] = step[<<it[T \ {Max(T)}], s[Max(T)]>>]
    <3>1. Max(T) \in T
      BY <1>1, <2>1, MaxIn
    <3>2. it[T] = Merge(by, it[T \ {Max(T)}], s[Max(T)]) /\ s[Max(T)] \in Post
      BY <1>1, <1>6, <2>1, <3>1
    <3>. QED
      BY <1>4, <2>1, <3>2
  <2>2. it[{}] = <<>>
    BY <1>6
  <2>. QED
    BY <1>1, <1>4, <2>1, <2>2 DEF Steps
<1>8. PICK f : Folds(f, Seq(HistoryTurn), <<>>, step, s) /\ f[Len(s)] = it[1..Len(s)]
  BY <1>7, FoldOfFirst
<1>9. /\ f \in [0..Len(s) -> Seq(HistoryTurn)] /\ f[0] = <<>>
      /\ \A i \in 1..Len(s) : f[i] = step[<<f[i - 1], s[i]>>]
  BY <1>8 DEF Folds
<1>10. ASSUME NEW i \in 1..Len(s)
       PROVE  f[i] = Merge(by, f[i - 1], s[i])
  <2>1. f[i - 1] \in Seq(HistoryTurn) /\ s[i] \in Post
    BY <1>1, <1>9
  <2>. QED
    BY <1>4, <1>9, <2>1
<1>. QED
  BY <1>1, <1>6, <1>8, <1>9, <1>10

-----------------------------------------------------------------------------
(* Sequences of sequences that grow, at their end or at their front.       *)
LEMMA ConcatThree ==
  \A V : \A a, b, c \in Seq(V) : (a \o b) \o c = a \o (b \o c)
OBVIOUS

LEMMA FlattenEmpty == FlattenSeq(<<>>) = <<>>
BY DEF FlattenSeq

LEMMA FlattenTyped ==
  ASSUME NEW V, NEW s \in Seq(Seq(V))
  PROVE  FlattenSeq(s) \in Seq(V)
<1>1. PICK f : Joins(f, V, s)
  BY JoinsExist
<1>2. FlattenSeq(s) = f[Len(s)]
  BY <1>1, FlattenJoins
<1>3. Len(s) \in 0..Len(s)
  <2>1. Len(s) \in Nat
    OBVIOUS
  <2>. QED
    BY <2>1
<1>. QED
  BY <1>1, <1>2, <1>3 DEF Joins, Upto

LEMMA FlattenAppend ==
  ASSUME NEW V, NEW s \in Seq(Seq(V)), NEW c \in Seq(V)
  PROVE  FlattenSeq(Append(s, c)) = FlattenSeq(s) \o c
<1>1. PICK t : t = Append(s, c)
  OBVIOUS
<1>2. /\ t \in Seq(Seq(V)) /\ Len(t) = Len(s) + 1 /\ t[Len(s) + 1] = c
      /\ \A i \in 1..Len(s) : t[i] = s[i]
      /\ Len(s) \in Nat
  BY <1>1, AppendProperties, LenProperties
<1>3. PICK f : Joins(f, V, t)
  BY <1>2, JoinsExist
<1>4. /\ \A i \in 0..(Len(s) + 1) : f[i] \in Seq(V)
      /\ f[0] = <<>>
      /\ \A i \in 1..(Len(s) + 1) : f[i] = f[i - 1] \o t[i]
  BY <1>2, <1>3 DEF Joins, Upto
<1>5. PICK g : g = [i \in 0..Len(s) |-> f[i]]
  OBVIOUS
<1>6. Joins(g, V, s)
  <2>1. \A i \in 0..Len(s) : g[i] = f[i] /\ i \in 0..(Len(s) + 1)
    BY <1>2, <1>5
  <2>2. g \in [0..Len(s) -> Seq(V)] /\ g[0] = <<>>
    BY <1>2, <1>4, <1>5, <2>1
  <2>3. ASSUME NEW i \in 1..Len(s)
        PROVE  g[i] = g[i - 1] \o s[i]
    <3>1. i \in 0..Len(s) /\ i - 1 \in 0..Len(s) /\ i \in 1..(Len(s) + 1)
      BY <1>2
    <3>. QED
      BY <1>2, <1>4, <2>1, <3>1
  <2>. QED
    BY <2>2, <2>3 DEF Joins, Upto
<1>7. FlattenSeq(t) = f[Len(s) + 1] /\ FlattenSeq(s) = g[Len(s)]
  BY <1>2, <1>3, <1>6, FlattenJoins
<1>8. f[Len(s) + 1] = f[Len(s)] \o c /\ g[Len(s)] = f[Len(s)]
  <2>1. Len(s) + 1 \in 1..(Len(s) + 1) /\ (Len(s) + 1) - 1 = Len(s) /\ Len(s) \in 0..Len(s)
    BY <1>2
  <2>. QED
    BY <1>2, <1>4, <1>5, <2>1
<1>. QED
  BY <1>1, <1>7, <1>8

LEMMA FlattenFirst ==
  ASSUME NEW V, NEW s \in Seq(Seq(V)), s # <<>>
  PROVE  FlattenSeq(s) = Head(s) \o FlattenSeq(Tail(s))
<1>0. \A x, y, z \in Seq(V) : (x \o y) \o z = x \o (y \o z)
  BY ConcatThree
<1>1. PICK c \in Seq(V), t \in Seq(Seq(V)), l \in Nat :
        /\ c = Head(s) /\ t = Tail(s) /\ l = Len(t) /\ Len(s) = l + 1
        /\ s[1] = c /\ \A i \in 1..l : t[i] = s[i + 1] /\ t[i] \in Seq(V)
  <2>1. /\ Head(s) \in Seq(V) /\ Tail(s) \in Seq(Seq(V)) /\ Len(Tail(s)) = Len(s) - 1
        /\ \A i \in 1..Len(Tail(s)) : Tail(s)[i] = s[i + 1]
    BY HeadTailProperties
  <2>2. s[1] = Head(s) /\ Len(Tail(s)) \in Nat /\ Len(s) = Len(Tail(s)) + 1
    BY <2>1
  <2>3. \A i \in 1..Len(Tail(s)) : Tail(s)[i] \in Seq(V)
    BY <2>1, ElementOfSeq
  <2>. QED
    BY <2>1, <2>2, <2>3
<1>2. PICK f : Joins(f, V, t)
  BY JoinsExist
<1>3. /\ \A i \in 0..l : f[i] \in Seq(V)
      /\ f[0] = <<>>
      /\ \A i \in 1..l : f[i] = f[i - 1] \o t[i]
      /\ FlattenSeq(t) = f[l]
  BY <1>1, <1>2, FlattenJoins DEF Joins, Upto
<1>4. PICK g : g = [i \in 0..(l + 1) |-> IF i = 0 THEN <<>> ELSE c \o f[i - 1]]
  OBVIOUS
<1>5. g[0] = <<>> /\ \A i \in 1..(l + 1) : g[i] = c \o f[i - 1] /\ i - 1 \in 0..l
  BY <1>4
<1>6. g \in [0..(l + 1) -> Seq(V)]
  <2>1. \A i \in 1..(l + 1) : c \o f[i - 1] \in Seq(V)
    BY <1>3, <1>5, ConcatProperties
  <2>2. \A i \in 0..(l + 1) : (IF i = 0 THEN <<>> ELSE c \o f[i - 1]) \in Seq(V)
    BY <2>1, EmptySeq
  <2>. QED
    BY <1>4, <2>2
<1>7. ASSUME NEW i \in 1..(l + 1)
      PROVE  g[i] = g[i - 1] \o s[i]
  <2>1. CASE i = 1
    <3>1. 1 \in 1..(l + 1) /\ 1 - 1 = 0
      OBVIOUS
    <3>2. g[1] = c \o f[0]
      BY <1>5, <3>1
    <3>3. c \o <<>> = c /\ <<>> \o c = c
      BY ConcatEmptySeq
    <3>4. g[1] = <<>> \o c
      BY <1>3, <3>2, <3>3
    <3>. QED
      BY <1>1, <1>5, <2>1, <3>1, <3>4
  <2>2. CASE i # 1
    <3>1. PICK j \in 1..l : i = j + 1 /\ j \in 0..l /\ j - 1 \in 0..l /\ j \in 1..(l + 1)
      <4>1. i - 1 \in 1..l /\ i = (i - 1) + 1 /\ i - 1 \in 0..l /\ (i - 1) - 1 \in 0..l
            /\ i - 1 \in 1..(l + 1)
        BY <2>2
      <4>. QED
        BY <4>1
    <3>2. i - 1 = j /\ f[j] = f[j - 1] \o t[j] /\ s[i] = t[j]
      <4>1. t[j] = s[j + 1] /\ f[j] = f[j - 1] \o t[j]
        BY <1>1, <1>3
      <4>2. i - 1 = j
        BY <3>1
      <4>. QED
        BY <3>1, <4>1, <4>2
    <3>3. g[i] = c \o f[j] /\ g[j] = c \o f[j - 1]
      BY <1>5, <3>1, <3>2
    <3>4. (c \o f[j - 1]) \o t[j] = c \o (f[j - 1] \o t[j])
      <4>1. PICK x \in Seq(V), y \in Seq(V) : x = f[j - 1] /\ y = t[j]
        BY <1>1, <1>3, <3>1
      <4>2. (c \o x) \o y = c \o (x \o y)
        BY <1>0
      <4>. QED
        BY <4>1, <4>2
    <3>. QED
      BY <3>2, <3>3, <3>4
  <2>. QED
    BY <2>1, <2>2
<1>8. Joins(g, V, s)
  BY <1>1, <1>5, <1>6, <1>7 DEF Joins, Upto
<1>9. FlattenSeq(s) = g[l + 1]
  BY <1>1, <1>8, FlattenJoins
<1>10. g[l + 1] = c \o f[l]
  <2>1. l + 1 \in 1..(l + 1) /\ (l + 1) - 1 = l
    OBVIOUS
  <2>. QED
    BY <1>5, <2>1
<1>. QED
  BY <1>1, <1>3, <1>9, <1>10

-----------------------------------------------------------------------------
USE BotChannelsAssumption, MessagesAssumption

(* Where the posts of a request are in a sequence of messages.             *)
SentIn(q, n)     == {i \in DOMAIN q : q[i].send = n}
ChunkIn(q, n, k) == {i \in SentIn(q, n) : q[i].chunk = k}

(* The posts of a send that is at a chunk it has posted at most a times.   *)
UpTo(next, q, n, a) ==
  /\ \A i, j \in SentIn(q, n) : i < j => q[i].chunk <= q[j].chunk
  /\ \A i \in SentIn(q, n) : q[i].chunk <= next
  /\ \A k \in Nat \ {next} : Cardinality(ChunkIn(q, n, k)) <= Retries
  /\ Cardinality(ChunkIn(q, n, next)) <= a
  /\ \A k \in 1..(next - 1) : ChunkIn(q, n, k) # {}

PostInv(s, q, n) ==
  /\ s.state = "created" => SentIn(q, n) = {}
  /\ UpTo(s.next, q, n, IF s.state \in {"created", "posting"} THEN s.attempt ELSE Retries)
  /\ s.state = "delivered" => \A k \in 1..Len(Chunks[s.text]) : ChunkIn(q, n, k) # {}

Channel(s) == ChannelOf(s.target)

SendInv(s, n, box) ==
  /\ s.told \in Results => s.told = s.state
  /\ s.state \in {"posting", "delivered"} => Channel(s) # NoChannel
  /\ Channel(s) # NoChannel => PostInv(s, box[Channel(s)], n)

(* No message names a coroutine that does not exist yet.                   *)
SentBefore(box, l) == \A c \in Channels : \A i \in DOMAIN box[c] : box[c][i].send <= l

IInv ==
  /\ TypeOK
  /\ \A n \in DOMAIN sends : SendInv(sends[n], n, inbox)
  /\ SentBefore(inbox, Len(sends))

-----------------------------------------------------------------------------
(* Posts in a sequence of messages.                                        *)

LEMMA FewPosts ==
  ASSUME NEW q \in Seq(Post), NEW n, NEW k
  PROVE  /\ IsFiniteSet(SentIn(q, n)) /\ IsFiniteSet(ChunkIn(q, n, k))
         /\ Cardinality(ChunkIn(q, n, k)) \in Nat
         /\ SentIn(q, n) \subseteq 1..Len(q) /\ Len(q) \in Nat
         /\ \A i \in SentIn(q, n) : q[i] \in Post /\ q[i].chunk \in Nat
<1>1. Len(q) \in Nat /\ DOMAIN q = 1..Len(q) /\ \A i \in DOMAIN q : q[i] \in Post
  OBVIOUS
<1>2. IsFiniteSet(1..Len(q))
  BY <1>1, FS_Interval
<1>3. SentIn(q, n) \subseteq 1..Len(q) /\ ChunkIn(q, n, k) \subseteq 1..Len(q)
  BY <1>1 DEF SentIn, ChunkIn
<1>4. IsFiniteSet(SentIn(q, n)) /\ IsFiniteSet(ChunkIn(q, n, k))
  BY <1>2, <1>3, FS_Subset
<1>5. \A i \in SentIn(q, n) : q[i] \in Post /\ q[i].chunk \in Nat
  BY <1>1 DEF SentIn, Post
<1> QED BY <1>1, <1>3, <1>4, <1>5, FS_CardinalityType

(* A message of somebody else leaves the posts of a request where they are.*)
LEMMA OtherPost ==
  ASSUME NEW q \in Seq(Post), NEW p \in Post, NEW n, p.send # n
  PROVE  /\ SentIn(Append(q, p), n) = SentIn(q, n)
         /\ \A k : ChunkIn(Append(q, p), n, k) = ChunkIn(q, n, k)
         /\ \A i \in SentIn(q, n) : Append(q, p)[i] = q[i]
<1>1. /\ DOMAIN Append(q, p) = DOMAIN q \cup {Len(q) + 1}
      /\ Append(q, p)[Len(q) + 1] = p
      /\ \A i \in DOMAIN q : Append(q, p)[i] = q[i]
  OBVIOUS
<1>2. SentIn(Append(q, p), n) = SentIn(q, n)
  BY <1>1 DEF SentIn
<1>3. \A i \in SentIn(q, n) : Append(q, p)[i] = q[i]
  BY <1>1 DEF SentIn
<1> QED BY <1>2, <1>3 DEF ChunkIn

LEMMA OtherPostKeeps ==
  ASSUME NEW q \in Seq(Post), NEW p \in Post, NEW n, p.send # n, NEW s, PostInv(s, q, n)
  PROVE  PostInv(s, Append(q, p), n)
<1>1. ASSUME NEW next, NEW a, UpTo(next, q, n, a)
      PROVE  UpTo(next, Append(q, p), n, a)
  <2>. DEFINE r == Append(q, p)
  <2>1. SentIn(r, n) = SentIn(q, n) /\ \A i \in SentIn(q, n) : r[i] = q[i]
    BY OtherPost
  <2>2. \A k : ChunkIn(r, n, k) = ChunkIn(q, n, k)
    BY OtherPost
  <2>. HIDE DEF r
  <2>3. UpTo(next, r, n, a)
    BY <1>1, <2>1, <2>2 DEF UpTo
  <2> QED BY <2>3 DEF r
<1>2. SentIn(Append(q, p), n) = SentIn(q, n) /\ \A k : ChunkIn(Append(q, p), n, k) = ChunkIn(q, n, k)
  BY OtherPost
<1> QED BY <1>1, <1>2 DEF PostInv

(* A chunk that is posted once more comes last.                            *)
LEMMA OwnPost ==
  ASSUME NEW q \in Seq(Post), NEW p \in Post, NEW n, p.send = n, NEW next \in Nat \ {0},
         p.chunk = next, NEW a \in Nat, UpTo(next, q, n, a)
  PROVE  /\ UpTo(next, Append(q, p), n, a + 1)
         /\ ChunkIn(Append(q, p), n, next) # {}
<1>. DEFINE r == Append(q, p)
            l == Len(q) + 1
<1>1. /\ DOMAIN r = DOMAIN q \cup {l} /\ r[l] = p /\ l \in Nat /\ l \notin DOMAIN q
      /\ \A i \in DOMAIN q : r[i] = q[i] /\ i < l /\ i \in Nat
  OBVIOUS
<1>. HIDE DEF r, l
<1>2. SentIn(r, n) = SentIn(q, n) \cup {l} /\ \A i \in SentIn(q, n) : r[i] = q[i] /\ i < l /\ i \in Nat
  BY <1>1 DEF SentIn
<1>3. \A k : ChunkIn(r, n, k) = IF k = next THEN ChunkIn(q, n, k) \cup {l} ELSE ChunkIn(q, n, k)
  BY <1>1, <1>2 DEF ChunkIn
<1>4. \A i, j \in SentIn(r, n) : i < j => r[i].chunk <= r[j].chunk
  <2>1. \A i \in SentIn(q, n) : q[i].chunk <= next
    BY DEF UpTo
  <2> QED BY <1>1, <1>2, <2>1 DEF UpTo
<1>5. \A i \in SentIn(r, n) : r[i].chunk <= next
  BY <1>1, <1>2 DEF UpTo
<1>6. Cardinality(ChunkIn(r, n, next)) <= a + 1
  <2>1. IsFiniteSet(ChunkIn(q, n, next)) /\ Cardinality(ChunkIn(q, n, next)) \in Nat
        /\ Cardinality(ChunkIn(q, n, next)) <= a
    BY FewPosts DEF UpTo
  <2>2. PICK S : S = ChunkIn(q, n, next)
    OBVIOUS
  <2>3. ChunkIn(r, n, next) = S \cup {l}
    BY <1>3, <2>2
  <2>4. Cardinality(S \cup {l}) \in {Cardinality(S), Cardinality(S) + 1}
    <3>1. CASE l \in S
      <4>1. S \cup {l} = S
        BY <3>1
      <4> QED BY <4>1
    <3>2. CASE l \notin S
      BY <2>1, <2>2, <3>2, FS_AddElement
    <3> QED BY <3>1, <3>2
  <2> QED BY <2>1, <2>2, <2>3, <2>4
<1>7. UpTo(next, r, n, a + 1)
  BY <1>3, <1>4, <1>5, <1>6 DEF UpTo
<1> QED BY <1>3, <1>7 DEF r

(* Then the next chunk has not been posted.                                *)
LEMMA NextIsNew ==
  ASSUME NEW q \in Seq(Post), NEW n, NEW next \in Nat \ {0}, NEW a \in 0..Retries,
         UpTo(next, q, n, a), ChunkIn(q, n, next) # {}
  PROVE  UpTo(next + 1, q, n, 0)
<1>1. ChunkIn(q, n, next + 1) = {}
  <2>1. \A i \in SentIn(q, n) : q[i].chunk \in Nat /\ q[i].chunk <= next
    BY FewPosts DEF UpTo
  <2>2. \A i \in SentIn(q, n) : q[i].chunk # next + 1
    BY <2>1
  <2> QED BY <2>2 DEF ChunkIn
<1>2. Cardinality(ChunkIn(q, n, next + 1)) <= 0
  <2>1. Cardinality({}) = 0
    BY FS_EmptySet
  <2>2. Cardinality(ChunkIn(q, n, next + 1)) = 0
    BY <1>1, <2>1, Zenon
  <2> QED BY <2>2
<1>3. \A k \in Nat : Cardinality(ChunkIn(q, n, k)) <= Retries
  <2>1. Cardinality(ChunkIn(q, n, next)) <= Retries
    BY FewPosts DEF UpTo
  <2> QED BY <2>1 DEF UpTo
<1>4. \A k \in 1..next : ChunkIn(q, n, k) # {}
  BY DEF UpTo
<1>5. \A i \in SentIn(q, n) : q[i].chunk <= next + 1
  BY FewPosts DEF UpTo
<1> QED BY <1>2, <1>3, <1>4, <1>5 DEF UpTo

LEMMA MoreAllowed ==
  ASSUME NEW q \in Seq(Post), NEW n, NEW next, NEW a \in Nat, NEW b \in Nat, a <= b,
         UpTo(next, q, n, a)
  PROVE  UpTo(next, q, n, b)
<1>1. Cardinality(ChunkIn(q, n, next)) \in Nat
  BY FewPosts
<1> QED BY <1>1 DEF UpTo

LEMMA NothingSent ==
  ASSUME NEW q \in Seq(Post), NEW n \in Nat, \A i \in DOMAIN q : q[i].send < n, NEW s \in Send,
         s.next = 1, s.state = "created"
  PROVE  PostInv(s, q, n)
<1>1. SentIn(q, n) = {}
  <2>1. \A i \in DOMAIN q : q[i].send \in Nat
    <3>1. \A i \in DOMAIN q : q[i] \in Post
      OBVIOUS
    <3> QED BY <3>1 DEF Post
  <2> QED BY <2>1 DEF SentIn
<1>2. \A k : ChunkIn(q, n, k) = {}
  BY <1>1 DEF ChunkIn
<1>3. Cardinality({}) = 0
  BY FS_EmptySet
<1>4. s.attempt \in Nat
  BY DEF Send
<1>5. \A k : Cardinality(ChunkIn(q, n, k)) = 0
  BY <1>2, <1>3, Zenon
<1>6. UpTo(1, q, n, s.attempt)
  BY <1>1, <1>4, <1>5 DEF UpTo
<1> QED BY <1>1, <1>6 DEF PostInv

-----------------------------------------------------------------------------
(* What a step does to the channels and to the coroutines.                 *)

Grows(c, p) == inbox' = [inbox EXCEPT ![c] = Append(@, p)]

LEMMA BoxGrows ==
  ASSUME inbox \in [Channels -> Seq(Post)], NEW c \in Channels, NEW p \in Post, Grows(c, p)
  PROVE  /\ inbox' \in [Channels -> Seq(Post)]
         /\ inbox'[c] = Append(inbox[c], p)
         /\ \A d \in Channels \ {c} : inbox'[d] = inbox[d]
<1>1. inbox[c] \in Seq(Post)
  OBVIOUS
<1>2. Append(inbox[c], p) \in Seq(Post)
  BY <1>1
<1> QED BY <1>2 DEF Grows

LEMMA BoxGrowsBounded ==
  ASSUME inbox \in [Channels -> Seq(Post)], NEW c \in Channels, NEW p \in Post, Grows(c, p),
         NEW l \in Nat, p.send <= l, SentBefore(inbox, l)
  PROVE  SentBefore(inbox', l)
<1>1. /\ inbox'[c] = Append(inbox[c], p)
      /\ \A d \in Channels \ {c} : inbox'[d] = inbox[d]
  BY BoxGrows
<1>2. PICK q \in Seq(Post) : q = inbox[c]
  OBVIOUS
<1>3. /\ DOMAIN Append(q, p) = DOMAIN q \cup {Len(q) + 1}
      /\ Append(q, p)[Len(q) + 1] = p
      /\ \A i \in DOMAIN q : Append(q, p)[i] = q[i]
  OBVIOUS
<1>4. \A i \in DOMAIN Append(q, p) : Append(q, p)[i].send <= l
  BY <1>2, <1>3 DEF SentBefore
<1> QED BY <1>1, <1>2, <1>4 DEF SentBefore

LEMMA OthersKeep ==
  ASSUME inbox \in [Channels -> Seq(Post)], NEW c \in Channels, NEW p \in Post, Grows(c, p),
         NEW s \in Send, NEW m, p.send # m, SendInv(s, m, inbox)
  PROVE  SendInv(s, m, inbox')
<1>1. SUFFICES ASSUME Channel(s) # NoChannel
               PROVE  PostInv(s, inbox'[Channel(s)], m)
  BY DEF SendInv
<1>2. Channel(s) \in Channels
  BY <1>1 DEF Channel, Channels, Send
<1>3. PostInv(s, inbox[Channel(s)], m)
  BY <1>1 DEF SendInv
<1>4. CASE Channel(s) = c
  <2>1. inbox'[c] = Append(inbox[c], p) /\ inbox[c] \in Seq(Post)
    BY BoxGrows
  <2> QED BY <1>3, <1>4, <2>1, OtherPostKeeps
<1>5. CASE Channel(s) # c
  BY <1>2, <1>3, <1>5, BoxGrows
<1> QED BY <1>4, <1>5

LEMMA SetSend ==
  ASSUME sends \in Seq(Send), NEW n \in DOMAIN sends, NEW s \in Send,
         sends' = [sends EXCEPT ![n] = s]
  PROVE  /\ sends' \in Seq(Send) /\ Len(sends') = Len(sends) /\ DOMAIN sends' = DOMAIN sends
         /\ sends'[n] = s /\ \A m \in DOMAIN sends \ {n} : sends'[m] = sends[m]
  OBVIOUS

(* A step of one coroutine or of the thread that waits for it.             *)
LEMMA OneSendMoves ==
  ASSUME IInv, NEW n \in DOMAIN sends, NEW s \in Send, sends' = [sends EXCEPT ![n] = s],
         thread' \in [Threads -> 0..Len(sends)],
         \/ inbox' = inbox
         \/ \E c \in Channels, p \in Post : Grows(c, p) /\ p.send = n,
         SendInv(s, n, inbox')
  PROVE  IInv'
<1>1. /\ sends \in Seq(Send) /\ inbox \in [Channels -> Seq(Post)]
      /\ SentBefore(inbox, Len(sends)) /\ Len(sends) \in Nat /\ n \in 1..Len(sends)
      /\ \A m \in DOMAIN sends : SendInv(sends[m], m, inbox) /\ sends[m] \in Send
  BY DEF IInv, TypeOK
<1>2. /\ sends' \in Seq(Send) /\ Len(sends') = Len(sends) /\ DOMAIN sends' = DOMAIN sends
      /\ sends'[n] = s /\ \A m \in DOMAIN sends \ {n} : sends'[m] = sends[m]
  BY <1>1, SetSend
<1>3. inbox' \in [Channels -> Seq(Post)] /\ SentBefore(inbox', Len(sends))
  BY <1>1, BoxGrows, BoxGrowsBounded
<1>4. \A m \in DOMAIN sends \ {n} : SendInv(sends[m], m, inbox')
  BY <1>1, OthersKeep
<1>5. \A m \in DOMAIN sends' : SendInv(sends'[m], m, inbox')
  BY <1>2, <1>4
<1>6. TypeOK'
  BY <1>2, <1>3 DEF TypeOK
<1> QED BY <1>2, <1>3, <1>5, <1>6 DEF IInv

-----------------------------------------------------------------------------

(* The actions.                                                            *)

LEMMA InitHolds == Init => IInv
<1>. SUFFICES ASSUME Init PROVE IInv
  OBVIOUS
<1>1. sends = <<>> /\ inbox = [c \in Channels |-> <<>>] /\ thread = [t \in Threads |-> 0]
  BY DEF Init
<1>2. sends \in Seq(Send) /\ Len(sends) = 0 /\ DOMAIN sends = {}
  BY <1>1
<1>3. \A c \in Channels : inbox[c] = <<>> /\ DOMAIN inbox[c] = {}
  BY <1>1
<1>4. <<>> \in Seq(Post)
  OBVIOUS
<1>5. inbox \in [Channels -> Seq(Post)]
  BY <1>1, <1>4
<1>6. TypeOK
  BY <1>1, <1>2, <1>5 DEF TypeOK
<1> QED BY <1>2, <1>3, <1>6 DEF IInv, SentBefore

LEMMA ExecuteKeeps ==
  ASSUME IInv, NEW t \in Threads, Execute(t)
  PROVE  IInv'
<1>1. /\ sends \in Seq(Send) /\ inbox \in [Channels -> Seq(Post)] /\ SentBefore(inbox, Len(sends))
      /\ Len(sends) \in Nat /\ DOMAIN sends = 1..Len(sends) /\ thread \in [Threads -> 0..Len(sends)]
      /\ \A m \in DOMAIN sends : SendInv(sends[m], m, inbox)
  BY DEF IInv, TypeOK
<1>2. PICK s \in Send : /\ sends' = Append(sends, s)
                        /\ s.state = "created" /\ s.next = 1 /\ s.told = "nothing"
  <2>1. \A to \in Targets, text \in Texts :
          [target |-> to, text |-> text, state |-> "created", next |-> 1, attempt |-> 0, told |-> "nothing"] \in Send
    BY DEF Send
  <2> QED BY <2>1 DEF Execute
<1>3. /\ sends' \in Seq(Send) /\ Len(sends') = Len(sends) + 1
      /\ DOMAIN sends' = DOMAIN sends \cup {Len(sends) + 1}
      /\ sends'[Len(sends) + 1] = s /\ \A m \in DOMAIN sends : sends'[m] = sends[m]
  BY <1>1, <1>2
<1>4. inbox' = inbox /\ thread' \in [Threads -> 0..Len(sends')]
  BY <1>1, <1>3 DEF Execute
<1>5. ASSUME NEW c \in Channels, NEW i \in DOMAIN inbox[c]
      PROVE  inbox[c][i].send <= Len(sends) /\ inbox[c][i].send \in Nat
  <2>1. inbox[c][i] \in Post
    BY <1>1
  <2> QED BY <1>1, <2>1 DEF SentBefore, Post
<1>6. SentBefore(inbox, Len(sends'))
  BY <1>1, <1>3, <1>5 DEF SentBefore
<1>7. SendInv(s, Len(sends) + 1, inbox)
  <2>1. ASSUME Channel(s) # NoChannel
        PROVE  PostInv(s, inbox[Channel(s)], Len(sends) + 1)
    <3>1. Channel(s) \in Channels
      BY <2>1 DEF Channel, Channels, Send
    <3>2. \A i \in DOMAIN inbox[Channel(s)] : inbox[Channel(s)][i].send < Len(sends) + 1
      BY <1>1, <1>5, <3>1
    <3>3. inbox[Channel(s)] \in Seq(Post)
      BY <1>1, <3>1
    <3>4. Len(sends) + 1 \in Nat
      BY <1>1
    <3>5. ASSUME NEW q \in Seq(Post), q = inbox[Channel(s)]
          PROVE  PostInv(s, q, Len(sends) + 1)
      BY <1>2, <3>2, <3>4, <3>5, NothingSent
    <3> QED BY <3>3, <3>5
  <2> QED BY <1>2, <2>1 DEF SendInv, Results
<1>8. \A m \in DOMAIN sends' : SendInv(sends'[m], m, inbox')
  BY <1>1, <1>3, <1>4, <1>7
<1>9. TypeOK'
  BY <1>1, <1>3, <1>4 DEF TypeOK
<1> QED BY <1>4, <1>6, <1>8, <1>9 DEF IInv

LEMMA ChatKeeps ==
  ASSUME IInv, NEW c \in Channels, Chat(c)
  PROVE  /\ IInv'
         /\ \E p \in Post : Grows(c, p) /\ p.send = 0
<1>1. /\ sends \in Seq(Send) /\ inbox \in [Channels -> Seq(Post)] /\ SentBefore(inbox, Len(sends))
      /\ Len(sends) \in Nat /\ DOMAIN sends = 1..Len(sends)
      /\ \A m \in DOMAIN sends : SendInv(sends[m], m, inbox) /\ sends[m] \in Send
  BY DEF IInv, TypeOK
<1>2. PICK p \in Post : Grows(c, p) /\ p.send = 0
  <2>1. \A a \in {"target", "human"}, text \in BOOLEAN :
          [author |-> a, text |-> text, send |-> 0, chunk |-> 0] \in Post
    BY DEF Post, Authors
  <2> QED BY <2>1 DEF Chat, Grows
<1>3. thread' = thread /\ sends' = sends
  BY DEF Chat
<1>4. inbox' \in [Channels -> Seq(Post)] /\ SentBefore(inbox', Len(sends))
  BY <1>1, <1>2, BoxGrows, BoxGrowsBounded
<1>5. \A m \in DOMAIN sends : p.send # m
  BY <1>1, <1>2
<1>6. \A m \in DOMAIN sends : SendInv(sends[m], m, inbox')
  BY <1>1, <1>2, <1>5, OthersKeep
<1>7. TypeOK'
  BY <1>3, <1>4 DEF TypeOK, IInv
<1> QED BY <1>2, <1>3, <1>4, <1>6, <1>7 DEF IInv

(* What the tool says is what the coroutine returned, or that it waited in *)
(* vain.                                                                   *)
LEMMA TellsKeeps ==
  ASSUME IInv, NEW t \in Threads, thread[t] # 0, NEW what, Tells(t, what),
         what = "timed_out" \/ (what \in Results /\ what = sends[thread[t]].state)
  PROVE  IInv'
<1>1. /\ sends \in Seq(Send) /\ thread \in [Threads -> 0..Len(sends)] /\ Len(sends) \in Nat
      /\ DOMAIN sends = 1..Len(sends)
      /\ \A m \in DOMAIN sends : SendInv(sends[m], m, inbox) /\ sends[m] \in Send
  BY DEF IInv, TypeOK
<1>2. PICK n \in DOMAIN sends : n = thread[t]
  BY <1>1
<1>3. sends[n] \in Send /\ SendInv(sends[n], n, inbox)
  BY <1>1
<1>4. PICK s : s = [sends[n] EXCEPT !.told = what]
  OBVIOUS
<1>5. /\ s \in Send /\ s.told = what /\ s.state = sends[n].state /\ s.next = sends[n].next
      /\ s.attempt = sends[n].attempt /\ s.text = sends[n].text /\ s.target = sends[n].target
  BY <1>3, <1>4 DEF Send
<1>6. sends' = [sends EXCEPT ![n] = s] /\ inbox' = inbox
  BY <1>1, <1>2, <1>4 DEF Tells
<1>7. thread' \in [Threads -> 0..Len(sends)]
  BY <1>1 DEF Tells
<1>8. SendInv(s, n, inbox)
  <2>1. s.told \in Results => s.told = s.state
    BY <1>2, <1>5 DEF Results
  <2> QED BY <1>3, <1>5, <2>1 DEF SendInv, PostInv, Channel
<1> QED BY <1>5, <1>6, <1>7, <1>8, OneSendMoves

-----------------------------------------------------------------------------
(* The steps of a coroutine.                                               *)

LEMMA Running ==
  ASSUME IInv, NEW n \in DOMAIN sends
  PROVE  /\ n \in Nat /\ n <= Len(sends) /\ sends[n] \in Send /\ SendInv(sends[n], n, inbox)
         /\ inbox \in [Channels -> Seq(Post)] /\ thread \in [Threads -> 0..Len(sends)]
         /\ sends \in Seq(Send)
         /\ Channel(sends[n]) # NoChannel =>
              Channel(sends[n]) \in Channels /\ inbox[Channel(sends[n])] \in Seq(Post)
         /\ sends[n].attempt \in 0..(Retries - 1) /\ sends[n].next \in Nat \ {0} /\ Retries \in Nat
<1>1. sends \in Seq(Send) /\ SendInv(sends[n], n, inbox)
  BY DEF IInv, TypeOK
<1>2. n \in Nat /\ n <= Len(sends) /\ sends[n] \in Send
  BY <1>1
<1>3. inbox \in [Channels -> Seq(Post)] /\ thread \in [Threads -> 0..Len(sends)]
  BY DEF IInv, TypeOK
<1>4. Channel(sends[n]) # NoChannel => Channel(sends[n]) \in Channels
  BY <1>2 DEF Channel, Channels, Send
<1>5. sends[n].attempt \in 0..(Retries - 1) /\ sends[n].next \in Nat \ {0}
  BY <1>2 DEF Send
<1> QED BY <1>1, <1>2, <1>3, <1>4, <1>5

(* A send that is posting has posted its chunk at most attempt times.      *)
LEMMA Posting ==
  ASSUME IInv, NEW n \in DOMAIN sends, sends[n].state = "posting"
  PROVE  /\ Channel(sends[n]) # NoChannel
         /\ UpTo(sends[n].next, inbox[Channel(sends[n])], n, sends[n].attempt)
<1>1. SendInv(sends[n], n, inbox)
  BY Running
<1> QED BY <1>1 DEF SendInv, PostInv

LEMMA PostsOne ==
  ASSUME IInv, NEW n \in DOMAIN sends, sends[n].state = "posting", Posts(n)
  PROVE  /\ \E p \in Post : Grows(Channel(sends[n]), p) /\ p.send = n
         /\ inbox'[Channel(sends[n])] \in Seq(Post)
         /\ UpTo(sends[n].next, inbox'[Channel(sends[n])], n, sends[n].attempt + 1)
         /\ ChunkIn(inbox'[Channel(sends[n])], n, sends[n].next) # {}
<1>1. PICK c : c = Channel(sends[n])
  OBVIOUS
<1>2. PICK next \in Nat \ {0} : next = sends[n].next
  BY Running
<1>3. PICK a \in Nat : a = sends[n].attempt
  BY Running
<1>4. c \in Channels /\ inbox[c] \in Seq(Post) /\ UpTo(next, inbox[c], n, a) /\ n \in Nat
  BY <1>1, <1>2, <1>3, Running, Posting
<1>5. PICK p : p = [author |-> "requester", text |-> TRUE, send |-> n, chunk |-> next]
  OBVIOUS
<1>6. p \in Post /\ p.send = n /\ p.chunk = next
  BY <1>4, <1>5 DEF Post, Authors
<1>7. Grows(c, p)
  BY <1>1, <1>2, <1>5 DEF Posts, Grows, Channel
<1>8. inbox'[c] = Append(inbox[c], p) /\ inbox'[c] \in Seq(Post)
  BY <1>4, <1>6, <1>7, BoxGrows, Running
<1>9. UpTo(next, Append(inbox[c], p), n, a + 1) /\ ChunkIn(Append(inbox[c], p), n, next) # {}
  BY <1>4, <1>6, OwnPost
<1> QED BY <1>1, <1>2, <1>3, <1>6, <1>7, <1>8, <1>9

LEMMA BeginKeeps ==
  ASSUME IInv, NEW n \in DOMAIN sends, Begin(n)
  PROVE  IInv'
<1>1. PICK v \in {"unknown", "posting", "not_visible"} :
        /\ sends' = [sends EXCEPT ![n].state = v]
        /\ v # "unknown" => Channel(sends[n]) # NoChannel
        /\ v = "unknown" => Channel(sends[n]) = NoChannel
  BY DEF Begin, Returns, Channel
<1>2. sends[n].state = "created" /\ inbox' = inbox /\ thread' = thread
  BY DEF Begin
<1>3. PICK s : s = [sends[n] EXCEPT !.state = v]
  OBVIOUS
<1>4. sends[n] \in Send /\ SendInv(sends[n], n, inbox) /\ thread \in [Threads -> 0..Len(sends)]
      /\ sends[n].attempt \in 0..(Retries - 1) /\ Retries \in Nat
  BY Running
<1>5. /\ s \in Send /\ s.state = v /\ s.told = sends[n].told /\ s.next = sends[n].next
      /\ s.attempt = sends[n].attempt /\ s.text = sends[n].text /\ s.target = sends[n].target
  BY <1>3, <1>4 DEF Send, Results
<1>6. sends' = [sends EXCEPT ![n] = s]
  BY <1>1, <1>3
<1>7. ASSUME Channel(s) # NoChannel
      PROVE  PostInv(s, inbox[Channel(s)], n)
  <2>1. Channel(s) = Channel(sends[n]) /\ v # "unknown" /\ v # "delivered"
    BY <1>1, <1>5, <1>7 DEF Channel
  <2>2. PICK q \in Seq(Post) : q = inbox[Channel(s)]
    BY <1>7, <2>1, Running
  <2>3. UpTo(s.next, q, n, s.attempt)
    BY <1>2, <1>4, <1>5, <1>7, <2>1, <2>2 DEF SendInv, PostInv
  <2>4. UpTo(s.next, q, n, Retries)
    BY <1>4, <1>5, <2>3, MoreAllowed
  <2> QED BY <1>5, <2>1, <2>2, <2>3, <2>4 DEF PostInv
<1>8. SendInv(s, n, inbox)
  <2>1. s.told \notin Results
    BY <1>2, <1>4, <1>5 DEF SendInv, Results
  <2>2. s.state \in {"posting", "delivered"} => Channel(s) # NoChannel
    BY <1>1, <1>5 DEF Channel
  <2> QED BY <1>7, <2>1, <2>2 DEF SendInv
<1> QED BY <1>2, <1>4, <1>5, <1>6, <1>8, OneSendMoves

(* After the step a send that went on posting, or ended, has the posts of  *)
(* its state.                                                              *)
LEMMA MovesOn ==
  ASSUME IInv, NEW n \in DOMAIN sends, sends[n].state = "posting", NEW s \in Send,
         s.target = sends[n].target, s.told = sends[n].told, s.state \in {"posting", "delivered", "failed"},
         sends' = [sends EXCEPT ![n] = s], thread' = thread,
         \/ inbox' = inbox
         \/ \E p \in Post : Grows(Channel(sends[n]), p) /\ p.send = n,
         PostInv(s, inbox'[Channel(sends[n])], n)
  PROVE  IInv'
<1>1. Channel(s) = Channel(sends[n]) /\ Channel(s) # NoChannel /\ Channel(s) \in Channels
  BY Running, Posting DEF Channel
<1>2. sends[n].told \notin Results
  BY Running DEF SendInv, Results
<1>3. SendInv(s, n, inbox')
  BY <1>1, <1>2 DEF SendInv
<1>4. thread' \in [Threads -> 0..Len(sends)]
  BY Running
<1> QED BY <1>1, <1>3, <1>4, OneSendMoves

LEMMA PostSucceedsKeeps ==
  ASSUME IInv, NEW n \in DOMAIN sends, PostSucceeds(n)
  PROVE  IInv'
<1>1. sends[n].state = "posting" /\ Posts(n) /\ NextChunk(n) /\ thread' = thread
  BY DEF PostSucceeds, Postable
<1>2. PICK q \in Seq(Post) : q = inbox'[Channel(sends[n])]
  BY <1>1, PostsOne
<1>3. PICK next \in Nat \ {0} : next = sends[n].next
  BY Running
<1>4. PICK a \in 0..(Retries - 1) : a = sends[n].attempt
  BY Running
<1>5. UpTo(next, q, n, a + 1) /\ ChunkIn(q, n, next) # {}
  BY <1>1, <1>2, <1>3, <1>4, PostsOne
<1>6. /\ Retries \in Nat /\ a + 1 \in Nat /\ a + 1 <= Retries /\ a + 1 \in 0..Retries
      /\ sends[n] \in Send
  BY Running
<1>7. \E p \in Post : Grows(Channel(sends[n]), p) /\ p.send = n
  BY <1>1, PostsOne
<1>8. CASE next = Len(Chunks[sends[n].text])
  <2>1. PICK s : s = [sends[n] EXCEPT !.state = "delivered"]
    OBVIOUS
  <2>2. /\ s \in Send /\ s.state = "delivered" /\ s.told = sends[n].told /\ s.next = next
        /\ s.text = sends[n].text /\ s.target = sends[n].target
    BY <1>3, <1>6, <2>1 DEF Send, Results
  <2>3. sends' = [sends EXCEPT ![n] = s]
    BY <1>1, <1>3, <1>8, <2>1 DEF NextChunk, Returns
  <2>4. UpTo(next, q, n, Retries)
    BY <1>5, <1>6, MoreAllowed
  <2>5. \A k \in 1..next : ChunkIn(q, n, k) # {}
    <3>1. \A k \in 1..(next - 1) : ChunkIn(q, n, k) # {}
      BY <1>5 DEF UpTo
    <3>2. \A k \in 1..next : k = next \/ k \in 1..(next - 1)
      OBVIOUS
    <3> QED BY <1>5, <3>1, <3>2
  <2>6. PostInv(s, q, n)
    BY <1>8, <2>2, <2>4, <2>5 DEF PostInv
  <2> QED BY <1>1, <1>2, <1>7, <2>2, <2>3, <2>6, MovesOn
<1>9. CASE next # Len(Chunks[sends[n].text])
  <2>1. PICK s : s = [sends[n] EXCEPT !.next = next + 1, !.attempt = 0]
    OBVIOUS
  <2>2. /\ s \in Send /\ s.state = "posting" /\ s.told = sends[n].told /\ s.next = next + 1
        /\ s.attempt = 0 /\ s.text = sends[n].text /\ s.target = sends[n].target
    <3>1. next + 1 \in Nat \ {0} /\ 0 \in 0..(Retries - 1)
      BY BotChannelsAssumption
    <3> QED BY <1>1, <1>6, <2>1, <3>1 DEF Send
  <2>3. sends' = [sends EXCEPT ![n] = s]
    BY <1>1, <1>3, <1>9, <2>1 DEF NextChunk
  <2>4. UpTo(next + 1, q, n, 0)
    BY <1>5, <1>6, NextIsNew
  <2>5. PostInv(s, q, n)
    BY <2>2, <2>4 DEF PostInv
  <2> QED BY <1>1, <1>2, <1>7, <2>2, <2>3, <2>5, MovesOn
<1> QED BY <1>8, <1>9

(* An error counts as an attempt whether the message was posted or not.    *)
LEMMA PostErrsKeeps ==
  ASSUME IInv, NEW n \in DOMAIN sends, PostErrs(n)
  PROVE  IInv'
<1>1. sends[n].state = "posting" /\ Retry(n) /\ thread' = thread /\ (inbox' = inbox \/ Posts(n))
  BY DEF PostErrs
<1>2. PICK next \in Nat \ {0} : next = sends[n].next
  BY Running
<1>3. PICK a \in 0..(Retries - 1) : a = sends[n].attempt
  BY Running
<1>4. Retries \in Nat /\ a \in Nat /\ a + 1 \in Nat /\ a <= a + 1 /\ sends[n] \in Send
  BY Running
<1>5. PICK q \in Seq(Post) : q = inbox'[Channel(sends[n])]
  BY <1>1, PostsOne, Posting, Running
<1>6. UpTo(next, q, n, a + 1)
  <2>1. CASE inbox' = inbox
    BY <1>1, <1>2, <1>3, <1>4, <1>5, <2>1, Posting, MoreAllowed
  <2>2. CASE Posts(n)
    BY <1>1, <1>2, <1>3, <1>5, <2>2, PostsOne
  <2> QED BY <1>1, <2>1, <2>2
<1>7. inbox' = inbox \/ \E p \in Post : Grows(Channel(sends[n]), p) /\ p.send = n
  BY <1>1, PostsOne
<1>8. CASE a = Retries - 1
  <2>1. PICK s : s = [sends[n] EXCEPT !.state = "failed"]
    OBVIOUS
  <2>2. /\ s \in Send /\ s.state = "failed" /\ s.told = sends[n].told /\ s.next = next
        /\ s.text = sends[n].text /\ s.target = sends[n].target
    BY <1>2, <1>4, <2>1 DEF Send, Results
  <2>3. sends' = [sends EXCEPT ![n] = s]
    BY <1>1, <1>3, <1>8, <2>1 DEF Retry, Returns
  <2>4. a + 1 = Retries
    BY <1>4, <1>8
  <2>5. PostInv(s, q, n)
    BY <1>6, <2>2, <2>4 DEF PostInv
  <2> QED BY <1>1, <1>5, <1>7, <2>2, <2>3, <2>5, MovesOn
<1>9. CASE a # Retries - 1
  <2>1. PICK s : s = [sends[n] EXCEPT !.attempt = a + 1]
    OBVIOUS
  <2>2. a + 1 \in 0..(Retries - 1)
    BY <1>4, <1>9
  <2>3. /\ s \in Send /\ s.state = "posting" /\ s.told = sends[n].told /\ s.next = next
        /\ s.attempt = a + 1 /\ s.text = sends[n].text /\ s.target = sends[n].target
    BY <1>1, <1>2, <1>4, <2>1, <2>2 DEF Send, Results
  <2>4. sends' = [sends EXCEPT ![n] = s]
    BY <1>1, <1>3, <1>9, <2>1 DEF Retry
  <2>5. PostInv(s, q, n)
    BY <1>6, <2>3 DEF PostInv
  <2> QED BY <1>1, <1>5, <1>7, <2>3, <2>4, <2>5, MovesOn
<1> QED BY <1>8, <1>9

LEMMA PostRefusedKeeps ==
  ASSUME IInv, NEW n \in DOMAIN sends, PostRefused(n)
  PROVE  IInv'
<1>1. sends[n].state = "posting" /\ inbox' = inbox /\ thread' = thread
  BY DEF PostRefused
<1>2. PICK q \in Seq(Post) : q = inbox[Channel(sends[n])]
  BY <1>1, Posting, Running
<1>3. PICK s : s = [sends[n] EXCEPT !.state = "failed"]
  OBVIOUS
<1>4. sends[n] \in Send /\ sends[n].attempt \in 0..(Retries - 1) /\ Retries \in Nat
  BY Running
<1>5. /\ s \in Send /\ s.state = "failed" /\ s.told = sends[n].told /\ s.next = sends[n].next
      /\ s.text = sends[n].text /\ s.target = sends[n].target
  BY <1>3, <1>4 DEF Send, Results
<1>6. sends' = [sends EXCEPT ![n] = s]
  BY <1>3 DEF PostRefused, Returns
<1>7. UpTo(s.next, q, n, sends[n].attempt)
  BY <1>1, <1>2, <1>5, Posting
<1>8. UpTo(s.next, q, n, Retries)
  BY <1>4, <1>7, MoreAllowed
<1>9. PostInv(s, q, n)
  BY <1>5, <1>8 DEF PostInv
<1> QED BY <1>1, <1>2, <1>5, <1>6, <1>9, MovesOn

-----------------------------------------------------------------------------
LEMMA StepKeepsIInv == IInv /\ [Next]_vars => IInv'
<1>. SUFFICES ASSUME IInv, [Next]_vars PROVE IInv'
  OBVIOUS
<1>1. ASSUME NEW t \in Threads, Execute(t) PROVE IInv'
  BY <1>1, ExecuteKeeps
<1>2. ASSUME NEW t \in Threads, Answer(t) PROVE IInv'
  <2>1. PICK what : Tells(t, what) /\ what = sends[thread[t]].state /\ what \in Results /\ thread[t] # 0
    BY <1>2 DEF Answer
  <2> QED BY <2>1, TellsKeeps
<1>3. ASSUME NEW t \in Threads, TimeOut(t) PROVE IInv'
  <2>1. PICK what : Tells(t, what) /\ what = "timed_out" /\ thread[t] # 0
    BY <1>3 DEF TimeOut
  <2>2. what = "timed_out" \/ (what \in Results /\ what = sends[thread[t]].state)
    BY <2>1
  <2>3. Tells(t, what) /\ thread[t] # 0
    BY <2>1
  <2> QED BY <2>2, <2>3, TellsKeeps, Zenon
<1>4. ASSUME NEW n \in DOMAIN sends, SendStep(n) PROVE IInv'
  BY <1>4, BeginKeeps, PostSucceedsKeeps, PostErrsKeeps, PostRefusedKeeps DEF SendStep
<1>5. ASSUME NEW c \in Channels, Chat(c) PROVE IInv'
  BY <1>5, ChatKeeps
<1>6. CASE UNCHANGED vars
  BY <1>6 DEF vars, IInv, TypeOK, SendInv, SentBefore, Channel, PostInv
<1> QED BY <1>1, <1>2, <1>3, <1>4, <1>5, <1>6 DEF Next

THEOREM Invariance == Spec => []IInv
<1> QED BY InitHolds, StepKeepsIInv, PTL DEF Spec

-----------------------------------------------------------------------------
(* The length of a text grows by the lengths of its lines.                 *)
LEMMA LengthAppend ==
  ASSUME NEW lines \in Seq(Line), NEW line \in Line
  PROVE  /\ Length(lines) \in Nat
         /\ Length(Append(lines, line)) = Length(lines) + line.length
<1>1. PICK l \in Nat, t \in Seq(Line) :
        /\ l = Len(lines) /\ t = Append(lines, line) /\ Len(t) = l + 1 /\ t[l + 1] = line
        /\ \A i \in 1..l : t[i] = lines[i]
  <2>1. /\ Append(lines, line) \in Seq(Line) /\ Len(Append(lines, line)) = Len(lines) + 1
        /\ Append(lines, line)[Len(lines) + 1] = line
        /\ \A i \in 1..Len(lines) : Append(lines, line)[i] = lines[i]
    BY AppendProperties
  <2>2. Len(lines) \in Nat
    OBVIOUS
  <2>. QED
    BY <2>1, <2>2
<1>2. PICK f : /\ f \in [0..l -> Nat] /\ f[0] = 0
               /\ \A i \in 1..l : f[i] = f[i - 1] + lines[i].length
               /\ Length(lines) = f[l]
  BY <1>1, LengthFolds
<1>3. PICK g : /\ g \in [0..(l + 1) -> Nat] /\ g[0] = 0
               /\ \A i \in 1..(l + 1) : g[i] = g[i - 1] + t[i].length
               /\ Length(t) = g[l + 1]
  BY <1>1, LengthFolds
<1>. DEFINE P(n) == n <= l => f[n] = g[n]
            S    == {n \in Nat : P(n)}
<1>4. P(0)
  BY <1>2, <1>3
<1>5. ASSUME NEW n \in Nat, P(n)
      PROVE  P(n + 1)
  <2>1. SUFFICES ASSUME n + 1 <= l PROVE f[n + 1] = g[n + 1]
    OBVIOUS
  <2>2. n + 1 \in 1..l /\ n + 1 \in 1..(l + 1) /\ (n + 1) - 1 = n /\ n <= l
    BY <2>1
  <2>. QED
    BY <1>1, <1>2, <1>3, <1>5, <2>2
<1>. HIDE DEF P
<1>6. 0 \in S /\ \A n \in Nat : n \in S => n + 1 \in S
  BY <1>4, <1>5
<1>7. l \in S
  <2>. HIDE DEF S
  <2>. QED
    BY <1>6, Induction
<1>8. l + 1 \in 1..(l + 1) /\ (l + 1) - 1 = l /\ l \in 0..l /\ l <= l
  OBVIOUS
<1>9. f[l] = g[l]
  BY <1>7, <1>8 DEF P
<1>10. g[l + 1] = g[l] + line.length
  BY <1>1, <1>3, <1>8
<1>. QED
  BY <1>1, <1>2, <1>3, <1>8, <1>9, <1>10

LEMMA LengthEmpty == Length(<<>>) = 0
<1>1. <<>> \in Seq(Line) /\ Len(<<>>) = 0
  OBVIOUS
<1>2. PICK f : f[0] = 0 /\ Length(<<>>) = f[Len(<<>>)]
  BY <1>1, LengthFolds
<1>. QED
  BY <1>1, <1>2

-----------------------------------------------------------------------------
(* What is cut is the text so far, in chunks that are short.               *)
Short(c) == Length(c) <= Limit \/ Len(c) = 1

CutOf(v, text, i) ==
  /\ v \in Cut
  /\ FlattenSeq(v.chunks) \o v.current = SubSeq(text, 1, i)
  /\ \A k \in 1..Len(v.chunks) : Short(v.chunks[k])
  /\ Short(v.current)

LEMMA AppendSubSeq ==
  ASSUME NEW V, NEW s \in Seq(V), NEW i \in Nat, i + 1 <= Len(s)
  PROVE  SubSeq(s, 1, i) \o <<s[i + 1]>> = SubSeq(s, 1, i + 1)
<1>1. i + 1 \in 1..Len(s) /\ i + 1 \in 1..Len(s) /\ (i + 1) - 1 = i /\ 1 \in 1..Len(s) /\ i + 1 \in 1..Len(s)
  OBVIOUS
<1>. QED
  BY <1>1, SubSeqRecursiveSecond

LEMMA AddLineKeeps ==
  ASSUME NEW text \in Seq(Line), NEW i \in Nat, i + 1 <= Len(text), NEW v, CutOf(v, text, i)
  PROVE  CutOf(AddLine(v, text[i + 1]), text, i + 1)
<1>0. \A x, y, z \in Seq(Line) : (x \o y) \o z = x \o (y \o z)
  BY ConcatThree, SMTT(40)
<1>1. PICK cs \in Seq(Seq(Line)), cur \in Seq(Line) : v = [chunks |-> cs, current |-> cur]
  BY DEF CutOf, Cut
<1>2. PICK line \in Line : line = text[i + 1]
  <2>1. i + 1 \in 1..Len(text)
    OBVIOUS
  <2>. QED
    BY <2>1, ElementOfSeq
<1>3. SubSeq(text, 1, i) \o <<line>> = SubSeq(text, 1, i + 1)
  BY <1>2, AppendSubSeq
<1>4. PICK flat \in Seq(Line) : flat = FlattenSeq(cs)
  BY FlattenTyped
<1>5. /\ flat \o cur = SubSeq(text, 1, i)
      /\ \A k \in 1..Len(cs) : Short(cs[k])
      /\ Short(cur)
  BY <1>1, <1>4 DEF CutOf
<1>6. flat \o Append(cur, line) = SubSeq(text, 1, i + 1) /\ (flat \o cur) \o <<line>> = SubSeq(text, 1, i + 1)
  <2>1. <<line>> \in Seq(Line)
    OBVIOUS
  <2>2. (flat \o cur) \o <<line>> = flat \o (cur \o <<line>>)
    BY <1>0, <2>1
  <2>3. cur \o <<line>> = Append(cur, line)
    BY AppendIsConcat
  <2>. QED
    BY <1>3, <1>5, <2>2, <2>3
<1>7. CASE cur = <<>> \/ Fits(cur, line)
  <2>1. AddLine(v, line) = [chunks |-> cs, current |-> Append(cur, line)]
    BY <1>1, <1>7 DEF AddLine
  <2>2. Append(cur, line) \in Seq(Line)
    OBVIOUS
  <2>3. Short(Append(cur, line))
    <3>1. CASE cur = <<>>
      BY <3>1 DEF Short
    <3>2. CASE Fits(cur, line)
      BY <3>2, LengthAppend DEF Short, Fits
    <3>. QED
      BY <1>7, <3>1, <3>2
  <2>. QED
    BY <1>2, <1>4, <1>5, <1>6, <2>1, <2>2, <2>3 DEF CutOf, Cut
<1>8. CASE ~(cur = <<>> \/ Fits(cur, line))
  <2>1. AddLine(v, line) = [chunks |-> Append(cs, cur), current |-> <<line>>]
    BY <1>1, <1>8 DEF AddLine
  <2>2. FlattenSeq(Append(cs, cur)) = flat \o cur
    BY <1>4, FlattenAppend
  <2>3. <<line>> \in Seq(Line) /\ Append(cs, cur) \in Seq(Seq(Line))
    OBVIOUS
  <2>4. ASSUME NEW k \in 1..Len(Append(cs, cur))
        PROVE  Short(Append(cs, cur)[k])
    <3>1. PICK l \in Nat : l = Len(cs)
      OBVIOUS
    <3>2. /\ Len(Append(cs, cur)) = l + 1
          /\ \A j \in 1..l : Append(cs, cur)[j] = cs[j]
          /\ Append(cs, cur)[l + 1] = cur
      BY <3>1, AppendProperties
    <3>3. k \in 1..l \/ k = l + 1
      BY <3>2
    <3>. QED
      BY <1>5, <3>1, <3>2, <3>3
  <2>5. Short(<<line>>)
    BY DEF Short
  <2>6. PICK w \in Cut : w = AddLine(v, line) /\ w.chunks = Append(cs, cur) /\ w.current = <<line>>
    <3>1. PICK w : w = [chunks |-> Append(cs, cur), current |-> <<line>>]
      OBVIOUS
    <3>2. w.chunks = Append(cs, cur) /\ w.current = <<line>>
      BY <3>1
    <3>3. w \in Cut
      BY <2>3, <3>1 DEF Cut
    <3>. QED
      BY <2>1, <3>1, <3>2, <3>3
  <2>7. FlattenSeq(w.chunks) \o w.current = SubSeq(text, 1, i + 1)
    BY <1>6, <2>2, <2>6
  <2>8. CutOf(w, text, i + 1)
    BY <2>4, <2>5, <2>6, <2>7 DEF CutOf
  <2>. QED
    BY <1>2, <2>6, <2>8
<1>. QED
  BY <1>7, <1>8

LEMMA CutOfText ==
  ASSUME NEW text \in Seq(Line)
  PROVE  \E v : /\ CutOf(v, text, Len(text))
                /\ v = FoldLeft(AddLine, [chunks |-> <<>>, current |-> <<>>], text)
<1>1. PICK f : /\ f[0] = NoCut
               /\ \A i \in 1..Len(text) : f[i] = AddLine(f[i - 1], text[i])
               /\ FoldLeft(AddLine, [chunks |-> <<>>, current |-> <<>>], text) = f[Len(text)]
  BY CutFolds
<1>. DEFINE P(n) == n <= Len(text) => CutOf(f[n], text, n)
            S    == {n \in Nat : P(n)}
<1>2. P(0)
  <2>1. NoCut \in Cut /\ NoCut.chunks = <<>> /\ NoCut.current = <<>>
    BY DEF NoCut, Cut
  <2>2. SubSeq(text, 1, 0) = <<>>
    BY SubSeqEmpty
  <2>3. <<>> \o <<>> = <<>>
    OBVIOUS
  <2>4. CutOf(NoCut, text, 0)
    <3>1. Short(<<>>)
      BY LengthEmpty DEF Short
    <3>2. FlattenSeq(NoCut.chunks) \o NoCut.current = SubSeq(text, 1, 0)
      BY <2>1, <2>2, <2>3, FlattenEmpty
    <3>3. 1..Len(NoCut.chunks) = {}
      BY <2>1
    <3>. QED
      BY <2>1, <3>1, <3>2, <3>3 DEF CutOf
  <2>. QED
    BY <1>1, <2>4
<1>3. ASSUME NEW n \in Nat, P(n)
      PROVE  P(n + 1)
  <2>1. SUFFICES ASSUME n + 1 <= Len(text) PROVE CutOf(f[n + 1], text, n + 1)
    OBVIOUS
  <2>2. n + 1 \in 1..Len(text) /\ (n + 1) - 1 = n /\ n <= Len(text)
    BY <2>1
  <2>. QED
    BY <1>1, <1>3, <2>1, <2>2, AddLineKeeps
<1>. HIDE DEF P
<1>4. 0 \in S /\ \A n \in Nat : n \in S => n + 1 \in S
  BY <1>2, <1>3
<1>5. Len(text) \in S
  <2>1. Len(text) \in Nat
    OBVIOUS
  <2>. HIDE DEF S
  <2>. QED
    BY <1>4, <2>1, Induction
<1>. QED
  BY <1>1, <1>5 DEF P

(* split_message keeps the text, in chunks that are short.                 *)
LEMMA SplitKeeps ==
  ASSUME NEW text \in Seq(Line)
  PROVE  /\ SplitMessage(text) \in Seq(Seq(Line))
         /\ FlattenSeq(SplitMessage(text)) = text
         /\ \A k \in DOMAIN SplitMessage(text) : Short(SplitMessage(text)[k])
<1>1. CASE Length(text) <= Limit
  <2>1. SplitMessage(text) = <<text>>
    BY <1>1 DEF SplitMessage
  <2>2. /\ <<text>> = Append(<<>>, text) /\ <<>> \in Seq(Seq(Line)) /\ <<text>> \in Seq(Seq(Line))
        /\ DOMAIN <<text>> = 1..1 /\ <<text>>[1] = text
    OBVIOUS
  <2>3. FlattenSeq(<<text>>) = <<>> \o text
    BY <2>2, FlattenEmpty, FlattenAppend
  <2>4. <<>> \o text = text
    BY ConcatEmptySeq
  <2>5. Short(text)
    BY <1>1 DEF Short
  <2>6. \A k \in 1..1 : k = 1
    OBVIOUS
  <2>. QED
    BY <2>1, <2>2, <2>3, <2>4, <2>5, <2>6
<1>2. CASE ~(Length(text) <= Limit)
  <2>1. PICK v : CutOf(v, text, Len(text)) /\ SplitMessage(text) = Flushed(v)
    BY <1>2, CutOfText DEF SplitMessage
  <2>2. PICK cs \in Seq(Seq(Line)), cur \in Seq(Line) : cs = v.chunks /\ cur = v.current
    BY <2>1 DEF CutOf, Cut
  <2>3. SubSeq(text, 1, Len(text)) = text
    BY SubSeqFull
  <2>4. /\ FlattenSeq(cs) \o cur = text
        /\ \A k \in 1..Len(cs) : Short(cs[k])
        /\ Short(cur)
    BY <2>1, <2>2, <2>3 DEF CutOf
  <2>5. CASE cur = <<>>
    <3>1. Flushed(v) = cs
      BY <2>2, <2>5 DEF Flushed
    <3>2. FlattenSeq(cs) \o <<>> = FlattenSeq(cs)
      BY FlattenTyped, ConcatEmptySeq
    <3>3. DOMAIN cs = 1..Len(cs)
      OBVIOUS
    <3>. QED
      BY <2>1, <2>2, <2>4, <2>5, <3>1, <3>2, <3>3
  <2>6. CASE cur # <<>>
    <3>1. PICK t \in Seq(Seq(Line)) : t = Append(cs, cur) /\ Flushed(v) = t
      <4>1. Append(cs, cur) \in Seq(Seq(Line))
        OBVIOUS
      <4>. QED
        BY <2>2, <2>6, <4>1 DEF Flushed
    <3>2. FlattenSeq(t) = text
      BY <2>4, <3>1, FlattenAppend
    <3>3. PICK l \in Nat : l = Len(cs)
      OBVIOUS
    <3>4. DOMAIN t = 1..(l + 1) /\ t[l + 1] = cur /\ \A j \in 1..l : t[j] = cs[j]
      BY <3>1, <3>3, AppendProperties, LenProperties
    <3>5. \A k \in 1..(l + 1) : k \in 1..l \/ k = l + 1
      OBVIOUS
    <3>6. \A k \in DOMAIN t : Short(t[k])
      BY <2>4, <3>3, <3>4, <3>5
    <3>. QED
      BY <2>1, <3>1, <3>2, <3>6
  <2>. QED
    BY <2>5, <2>6
<1>. QED
  BY <1>1, <1>2

-----------------------------------------------------------------------------
(* Every element of a flat sequence is in one of the sequences, and a      *)
(* chunk that is not blank is spoken.                                      *)
LEMMA FlattenFrom ==
  ASSUME NEW V, NEW s \in Seq(Seq(V)), NEW x \in ToSet(FlattenSeq(s))
  PROVE  \E k \in 1..Len(s) : x \in ToSet(s[k])
<1>1. PICK l \in Nat : l = Len(s) /\ \A i \in 1..l : s[i] \in Seq(V)
  <2>1. Len(s) \in Nat /\ \A i \in 1..Len(s) : s[i] \in Seq(V)
    BY ElementOfSeq
  <2>. QED
    BY <2>1
<1>2. PICK f : Joins(f, V, s)
  BY JoinsExist
<1>3. /\ \A i \in 0..l : f[i] \in Seq(V)
      /\ f[0] = <<>>
      /\ \A i \in 1..l : f[i] = f[i - 1] \o s[i]
      /\ FlattenSeq(s) = f[l]
  BY <1>1, <1>2, FlattenJoins DEF Joins, Upto
<1>. DEFINE P(n) == n <= l => \A y \in ToSet(f[n]) : \E k \in 1..l : y \in ToSet(s[k])
            S    == {n \in Nat : P(n)}
<1>4. P(0)
  BY <1>3 DEF ToSet
<1>5. ASSUME NEW n \in Nat, P(n)
      PROVE  P(n + 1)
  <2>1. SUFFICES ASSUME n + 1 <= l, NEW y \in ToSet(f[n + 1])
                 PROVE  \E k \in 1..l : y \in ToSet(s[k])
    OBVIOUS
  <2>2. n + 1 \in 1..l /\ (n + 1) - 1 = n /\ n <= l /\ n \in 0..l
    BY <2>1
  <2>3. PICK a \in Seq(V), b \in Seq(V) : a = f[n] /\ b = s[n + 1] /\ f[n + 1] = a \o b
    BY <1>1, <1>3, <2>2
  <2>4. y \in ToSet(a) \/ y \in ToSet(b)
    <3>1. PICK i \in DOMAIN (a \o b) : y = (a \o b)[i]
      BY <2>3 DEF ToSet
    <3>2. PICK m \in Nat, j \in Nat : m = Len(a) /\ j = Len(b) /\ DOMAIN a = 1..m /\ DOMAIN b = 1..j
      BY LenProperties
    <3>3. /\ DOMAIN (a \o b) = 1..(m + j)
          /\ \A k \in 1..(m + j) : (a \o b)[k] = IF k <= m THEN a[k] ELSE b[k - m]
      BY <3>2, ConcatProperties, LenProperties
    <3>4. CASE i <= m
      BY <3>1, <3>2, <3>3, <3>4 DEF ToSet
    <3>5. CASE ~(i <= m)
      <4>1. i - m \in 1..j
        BY <3>3, <3>5
      <4>. QED
        BY <3>1, <3>2, <3>3, <3>5, <4>1 DEF ToSet
    <3>. QED
      BY <3>4, <3>5
  <2>. QED
    BY <1>5, <2>2, <2>3, <2>4
<1>. HIDE DEF P
<1>6. 0 \in S /\ \A n \in Nat : n \in S => n + 1 \in S
  BY <1>4, <1>5
<1>7. l \in S
  <2>. HIDE DEF S
  <2>. QED
    BY <1>6, Induction
<1>. QED
  BY <1>1, <1>3, <1>7 DEF P

LEMMA SpokenKeeps ==
  ASSUME NEW cut \in Seq(Seq(Line)), NEW k \in 1..Len(cut), ~Blank(cut[k])
  PROVE  \E j \in 1..Len(Spoken(cut)) : Spoken(cut)[j] = cut[k]
<1>1. PICK l \in Nat : l = Len(cut) /\ \A i \in 1..l : cut[i] \in Seq(Line)
  <2>1. Len(cut) \in Nat /\ \A i \in 1..Len(cut) : cut[i] \in Seq(Line)
    BY ElementOfSeq
  <2>. QED
    BY <2>1
<1>2. PICK f : /\ \A i \in 0..l : f[i] \in Seq(Seq(Line))
               /\ \A i \in 1..l : f[i] = UnlessBlank(f[i - 1], cut[i])
               /\ Spoken(cut) = f[l]
  BY <1>1, SpokenFolds
<1>. DEFINE P(n) == k <= n /\ n <= l => \E j \in 1..Len(f[n]) : f[n][j] = cut[k]
            S    == {n \in Nat : P(n)}
<1>3. P(0)
  OBVIOUS
<1>4. ASSUME NEW n \in Nat, P(n)
      PROVE  P(n + 1)
  <2>1. SUFFICES ASSUME k <= n + 1, n + 1 <= l
                 PROVE  \E j \in 1..Len(f[n + 1]) : f[n + 1][j] = cut[k]
    OBVIOUS
  <2>2. n + 1 \in 1..l /\ (n + 1) - 1 = n /\ n <= l /\ n \in 0..l
    BY <2>1
  <2>3. PICK kept \in Seq(Seq(Line)), c \in Seq(Line) :
          kept = f[n] /\ c = cut[n + 1] /\ f[n + 1] = UnlessBlank(kept, c)
    BY <1>1, <1>2, <2>2
  <2>4. PICK m \in Nat : m = Len(kept)
    OBVIOUS
  <2>5. /\ Len(Append(kept, c)) = m + 1
        /\ \A j \in 1..m : Append(kept, c)[j] = kept[j]
        /\ Append(kept, c)[m + 1] = c
    BY <2>4, AppendProperties
  <2>6. CASE k = n + 1
    <3>1. f[n + 1] = Append(kept, c) /\ c = cut[k]
      BY <2>3, <2>6 DEF UnlessBlank
    <3>2. m + 1 \in 1..(m + 1)
      OBVIOUS
    <3>. QED
      BY <2>5, <3>1, <3>2
  <2>7. CASE k # n + 1
    <3>1. PICK j \in 1..m : kept[j] = cut[k]
      BY <1>4, <2>1, <2>2, <2>3, <2>4, <2>7
    <3>2. CASE Blank(c)
      BY <2>3, <2>4, <3>1, <3>2 DEF UnlessBlank
    <3>3. CASE ~Blank(c)
      <4>1. f[n + 1] = Append(kept, c) /\ j \in 1..(m + 1)
        BY <2>3, <3>3 DEF UnlessBlank
      <4>. QED
        BY <2>5, <3>1, <4>1
    <3>. QED
      BY <3>2, <3>3
  <2>. QED
    BY <2>6, <2>7
<1>. HIDE DEF P
<1>5. 0 \in S /\ \A n \in Nat : n \in S => n + 1 \in S
  BY <1>3, <1>4
<1>6. l \in S
  <2>. HIDE DEF S
  <2>. QED
    BY <1>5, Induction
<1>. QED
  BY <1>1, <1>2, <1>6 DEF P

LEMMA BodyTyped ==
  ASSUME NEW text \in Texts
  PROVE  Body(text) \in Seq(Line)
<1>1. text \in Seq(Line) /\ <<Header>> \in Seq(Line)
  OBVIOUS
<1>2. <<Header>> \o text \in Seq(Line)
  BY <1>1, ConcatProperties
<1>. QED
  BY <1>2 DEF Body

LEMMA ChunksCover ==
  ASSUME NEW text \in Texts
  PROVE  CutCovers(text)
<1>1. PICK body \in Seq(Line) : body = Body(text)
  BY BodyTyped
<1>2. PICK cut \in Seq(Seq(Line)) : cut = SplitMessage(body) /\ FlattenSeq(cut) = body
  BY SplitKeeps
<1>3. Chunks[text] = Spoken(cut)
  BY <1>1, <1>2 DEF Chunks
<1>4. ASSUME NEW line \in LinesOf(text)
      PROVE  \E j \in 1..Len(Spoken(cut)) : line \in ToSet(Spoken(cut)[j])
  <2>1. line \in ToSet(FlattenSeq(cut)) /\ ~line.blank
    BY <1>1, <1>2 DEF LinesOf
  <2>2. PICK k \in 1..Len(cut) : line \in ToSet(cut[k])
    BY <2>1, FlattenFrom
  <2>3. ~Blank(cut[k])
    BY <2>1, <2>2 DEF Blank, ToSet
  <2>. QED
    BY <2>2, <2>3, SpokenKeeps
<1>. QED
  BY <1>3, <1>4 DEF CutCovers

-----------------------------------------------------------------------------
LEMMA Extended ==
  ASSUME NEW V, NEW s \in Seq(V), NEW x \in V
  PROVE  \E l \in Nat, t \in Seq(V) :
           /\ l = Len(s) /\ t = Append(s, x) /\ Len(t) = l + 1 /\ t[l + 1] = x
           /\ \A k \in 1..l : t[k] = s[k]
           /\ \A k \in 1..(l + 1) : k \in 1..l \/ k = l + 1
<1>1. PICK l \in Nat : l = Len(s)
  OBVIOUS
<1>2. /\ Append(s, x) \in Seq(V) /\ Len(Append(s, x)) = l + 1 /\ Append(s, x)[l + 1] = x
      /\ \A k \in 1..l : Append(s, x)[k] = s[k]
  BY <1>1, AppendProperties
<1>3. \A k \in 1..(l + 1) : k \in 1..l \/ k = l + 1
  OBVIOUS
<1>. QED
  BY <1>1, <1>2, <1>3

LEMMA PostsConcat ==
  \A x, y, z \in Seq(Post) : (x \o y) \o z = x \o (y \o z)
BY ConcatThree

(* The turns of a history: every one has messages, of its role alone, and  *)
(* no two of one role are next to each other.                              *)
Contents(turns) == [k \in DOMAIN turns |-> turns[k].content]

OfOneRole(by, t) == t.content # <<>> /\ \A j \in 1..Len(t.content) : Role(by, t.content[j]) = t.role

Alternate(by, turns) ==
  /\ \A k \in 1..Len(turns) : OfOneRole(by, turns[k])
  /\ \A k \in 1..Len(turns), j \in 1..Len(turns) : j = k + 1 => turns[k].role # turns[j].role

LEMMA ContentsTyped ==
  ASSUME NEW turns \in Seq(HistoryTurn)
  PROVE  /\ Contents(turns) \in Seq(Seq(Post))
         /\ Len(Contents(turns)) = Len(turns)
         /\ \A k \in 1..Len(turns) : Contents(turns)[k] = turns[k].content
<1>1. DOMAIN turns = 1..Len(turns) /\ Len(turns) \in Nat
  OBVIOUS
<1>2. ASSUME NEW k \in 1..Len(turns)
      PROVE  turns[k].content \in Seq(Post)
  <2>1. turns[k] \in HistoryTurn
    BY ElementOfSeq
  <2>. QED
    BY <2>1 DEF HistoryTurn
<1>3. Contents(turns) = [k \in 1..Len(turns) |-> turns[k].content]
  BY <1>1 DEF Contents
<1>. QED
  BY <1>1, <1>2, <1>3

LEMMA ContentsAppend ==
  ASSUME NEW turns \in Seq(HistoryTurn), NEW t \in HistoryTurn
  PROVE  /\ Append(turns, t) \in Seq(HistoryTurn)
         /\ Contents(Append(turns, t)) = Append(Contents(turns), t.content)
<1>2. PICK l \in Nat, ts \in Seq(HistoryTurn) :
        /\ l = Len(turns) /\ ts = Append(turns, t) /\ Len(ts) = l + 1 /\ ts[l + 1] = t
        /\ \A k \in 1..l : ts[k] = turns[k]
        /\ \A k \in 1..(l + 1) : k \in 1..l \/ k = l + 1
  BY Extended
<1>3. PICK a \in Seq(Seq(Post)) :
        a = Contents(ts) /\ Len(a) = l + 1 /\ \A k \in 1..(l + 1) : a[k] = ts[k].content
  BY <1>2, ContentsTyped
<1>4. PICK b \in Seq(Seq(Post)) :
        b = Contents(turns) /\ Len(b) = l /\ \A k \in 1..l : b[k] = turns[k].content
  BY <1>2, ContentsTyped
<1>5. t.content \in Seq(Post)
  BY DEF HistoryTurn
<1>6. PICK c \in Seq(Seq(Post)) :
        /\ c = Append(b, t.content) /\ Len(c) = l + 1 /\ c[l + 1] = t.content
        /\ \A k \in 1..l : c[k] = b[k]
  <2>1. PICK m \in Nat, c \in Seq(Seq(Post)) :
          /\ m = Len(b) /\ c = Append(b, t.content) /\ Len(c) = m + 1 /\ c[m + 1] = t.content
          /\ \A k \in 1..m : c[k] = b[k]
          /\ \A k \in 1..(m + 1) : k \in 1..m \/ k = m + 1
    BY <1>5, Extended
  <2>. QED
    BY <1>4, <2>1
<1>7. ASSUME NEW k \in 1..(l + 1)
      PROVE  a[k] = c[k]
  <2>1. CASE k = l + 1
    BY <1>2, <1>3, <1>6, <2>1
  <2>2. CASE k \in 1..l
    BY <1>2, <1>3, <1>4, <1>6, <2>2
  <2>. QED
    BY <1>2, <2>1, <2>2
<1>8. a = c
  BY <1>3, <1>6, <1>7, SeqEqual
<1>. QED
  BY <1>2, <1>3, <1>4, <1>6, <1>8

(* A turn at the end, or a turn of the same role instead of the last.      *)
LEMMA AlternateAppend ==
  ASSUME NEW by, NEW turns \in Seq(HistoryTurn), NEW t \in HistoryTurn,
         OfOneRole(by, t), Alternate(by, turns),
         turns # <<>> => turns[Len(turns)].role # t.role
  PROVE  Alternate(by, Append(turns, t))
<1>2. PICK l \in Nat, ts \in Seq(HistoryTurn) :
        /\ l = Len(turns) /\ ts = Append(turns, t) /\ Len(ts) = l + 1 /\ ts[l + 1] = t
        /\ \A k \in 1..l : ts[k] = turns[k]
        /\ \A k \in 1..(l + 1) : k \in 1..l \/ k = l + 1
  BY Extended
<1>1. l = Len(turns)
  BY <1>2
<1>3. l # 0 => turns[l].role # t.role
  BY <1>1
<1>4. ASSUME NEW k \in 1..(l + 1)
      PROVE  OfOneRole(by, ts[k])
  <2>1. k \in 1..l \/ k = l + 1
    OBVIOUS
  <2>. QED
    BY <1>1, <1>2, <2>1 DEF Alternate
<1>5. ASSUME NEW k \in 1..(l + 1), NEW j \in 1..(l + 1), j = k + 1
      PROVE  ts[k].role # ts[j].role
  <2>1. k \in 1..l
    BY <1>5
  <2>2. CASE j \in 1..l
    BY <1>1, <1>2, <1>5, <2>1, <2>2 DEF Alternate
  <2>3. CASE j = l + 1
    <3>1. k = l /\ l # 0
      BY <1>5, <2>3
    <3>. QED
      BY <1>2, <1>3, <2>1, <2>3, <3>1
  <2>. QED
    BY <2>2, <2>3
<1>. QED
  BY <1>2, <1>4, <1>5 DEF Alternate

LEMMA AlternateInstead ==
  ASSUME NEW by, NEW turns \in Seq(HistoryTurn), NEW t \in HistoryTurn, NEW u \in HistoryTurn,
         OfOneRole(by, u), u.role = t.role, Alternate(by, Append(turns, t))
  PROVE  Alternate(by, Append(turns, u))
<1>2. PICK l \in Nat, ts \in Seq(HistoryTurn) :
        /\ l = Len(turns) /\ ts = Append(turns, t) /\ Len(ts) = l + 1 /\ ts[l + 1] = t
        /\ \A k \in 1..l : ts[k] = turns[k]
        /\ \A k \in 1..(l + 1) : k \in 1..l \/ k = l + 1
  BY Extended
<1>1. l = Len(turns)
  BY <1>2
<1>3. PICK us : us = Append(turns, u) /\ Len(us) = l + 1 /\ us[l + 1] = u /\ \A k \in 1..l : us[k] = turns[k]
  <2>1. PICK m \in Nat, us \in Seq(HistoryTurn) :
          /\ m = Len(turns) /\ us = Append(turns, u) /\ Len(us) = m + 1 /\ us[m + 1] = u
          /\ \A k \in 1..m : us[k] = turns[k]
          /\ \A k \in 1..(m + 1) : k \in 1..m \/ k = m + 1
    BY Extended, ZenonT(40)
  <2>. QED
    BY <1>2, <2>1
<1>4. \A k \in 1..(l + 1) : k \in 1..l \/ k = l + 1
  OBVIOUS
<1>5. /\ \A k \in 1..(l + 1) : OfOneRole(by, ts[k])
      /\ \A k \in 1..(l + 1), j \in 1..(l + 1) : j = k + 1 => ts[k].role # ts[j].role
  BY <1>2 DEF Alternate
<1>6. \A k \in 1..(l + 1) : us[k].role = ts[k].role /\ OfOneRole(by, us[k])
  BY <1>2, <1>3, <1>4, <1>5
<1>. QED
  BY <1>3, <1>5, <1>6 DEF Alternate

(* Merge keeps the messages, in their order.                               *)
MergedTo(by, turns, w, i) ==
  /\ turns \in Seq(HistoryTurn)
  /\ Alternate(by, turns)
  /\ FlattenSeq(Contents(turns)) = SubSeq(w, 1, i)

LEMMA MergeKeeps ==
  ASSUME NEW by, NEW w \in Seq(Post), NEW i \in Nat, i + 1 <= Len(w), NEW turns, MergedTo(by, turns, w, i)
  PROVE  MergedTo(by, Merge(by, turns, w[i + 1]), w, i + 1)
<1>1. PICK p \in Post : p = w[i + 1]
  <2>1. i + 1 \in 1..Len(w)
    OBVIOUS
  <2>. QED
    BY <2>1, ElementOfSeq
<1>2. SubSeq(w, 1, i) \o <<p>> = SubSeq(w, 1, i + 1)
  BY <1>1, AppendSubSeq
<1>3. turns \in Seq(HistoryTurn) /\ Alternate(by, turns) /\ FlattenSeq(Contents(turns)) = SubSeq(w, 1, i)
  BY DEF MergedTo
<1>4. CASE turns # <<>> /\ turns[Len(turns)].role = Role(by, p)
  <2>1. PICK front \in Seq(HistoryTurn), t \in HistoryTurn : turns = Append(front, t)
    BY <1>3, <1>4, SequenceEmptyOrAppend
  <2>2. PICK l \in Nat : l = Len(front) /\ Len(turns) = l + 1 /\ turns[l + 1] = t /\ \A k \in 1..l : turns[k] = front[k]
    <3>1. Len(front) \in Nat
      OBVIOUS
    <3>. QED
      BY <2>1, <3>1, AppendProperties
  <2>3. PICK c \in Seq(Post) : c = t.content
    BY DEF HistoryTurn
  <2>4. PICK u \in HistoryTurn : u = [t EXCEPT !.content = Append(@, p)] /\ u.role = t.role /\ u.content = Append(c, p)
    <3>1. PICK u : u = [t EXCEPT !.content = Append(@, p)]
      OBVIOUS
    <3>2. u.role = t.role /\ u.content = Append(c, p)
      BY <2>3, <3>1 DEF HistoryTurn
    <3>3. Append(c, p) \in Seq(Post)
      OBVIOUS
    <3>4. u \in HistoryTurn
      BY <2>3, <3>1, <3>3 DEF HistoryTurn
    <3>. QED
      BY <3>1, <3>2, <3>4
  <2>5. OfOneRole(by, u)
    <3>1. PICK m \in Nat : m = Len(c)
      OBVIOUS
    <3>2. /\ Len(Append(c, p)) = m + 1 /\ Append(c, p) # <<>> /\ Append(c, p)[m + 1] = p
          /\ \A j \in 1..m : Append(c, p)[j] = c[j]
      BY <3>1, AppendProperties
    <3>3. \A j \in 1..m : Role(by, c[j]) = t.role
      <4>1. l + 1 \in 1..(l + 1)
        OBVIOUS
      <4>2. OfOneRole(by, t)
        BY <1>3, <2>2, <4>1 DEF Alternate
      <4>. QED
        BY <2>3, <3>1, <4>2 DEF OfOneRole
    <3>4. Role(by, p) = t.role
      BY <1>4, <2>2
    <3>5. \A j \in 1..(m + 1) : j \in 1..m \/ j = m + 1
      OBVIOUS
    <3>. QED
      BY <2>4, <3>2, <3>3, <3>4, <3>5 DEF OfOneRole
  <2>6. Merge(by, turns, p) = Append(front, u)
    <3>1. Merge(by, turns, p) = [turns EXCEPT ![Len(turns)].content = Append(@, p)]
      BY <1>4 DEF Merge, Last
    <3>2. [turns EXCEPT ![Len(turns)].content = Append(@, p)] = [turns EXCEPT ![l + 1] = u]
      BY <2>2, <2>4
    <3>3. PICK us \in Seq(HistoryTurn) :
            us = Append(front, u) /\ Len(us) = l + 1 /\ us[l + 1] = u /\ \A k \in 1..l : us[k] = front[k]
      <4>1. /\ Append(front, u) \in Seq(HistoryTurn) /\ Len(Append(front, u)) = l + 1
            /\ Append(front, u)[l + 1] = u /\ \A k \in 1..l : Append(front, u)[k] = front[k]
        BY <2>2, AppendProperties
      <4>. QED
        BY <4>1
    <3>4. PICK vs \in Seq(HistoryTurn) :
            vs = [turns EXCEPT ![l + 1] = u] /\ Len(vs) = l + 1
            /\ \A k \in 1..(l + 1) : vs[k] = IF k = l + 1 THEN u ELSE turns[k]
      <4>1. l + 1 \in 1..Len(turns) /\ Len(turns) = l + 1
        BY <2>2
      <4>2. /\ [turns EXCEPT ![l + 1] = u] \in Seq(HistoryTurn)
            /\ Len([turns EXCEPT ![l + 1] = u]) = Len(turns)
            /\ \A k \in 1..Len(turns) : [turns EXCEPT ![l + 1] = u][k] = IF k = l + 1 THEN u ELSE turns[k]
        BY <1>3, <4>1, ExceptSeq
      <4>. QED
        BY <4>1, <4>2
    <3>5. \A k \in 1..(l + 1) : k \in 1..l \/ k = l + 1
      OBVIOUS
    <3>6. \A k \in 1..(l + 1) : us[k] = vs[k]
      BY <2>2, <3>3, <3>4, <3>5
    <3>7. us = vs
      BY <3>3, <3>4, <3>6, SeqEqual
    <3>. QED
      BY <3>1, <3>2, <3>3, <3>4, <3>7
  <2>7. Alternate(by, Append(front, u))
    BY <1>3, <2>1, <2>4, <2>5, AlternateInstead
  <2>8. PICK cs \in Seq(Seq(Post)) : cs = Contents(front)
    BY ContentsTyped
  <2>9. FlattenSeq(cs) \o c = SubSeq(w, 1, i)
    <3>1. Contents(turns) = Append(cs, c)
      BY <2>1, <2>3, <2>8, ContentsAppend
    <3>. QED
      BY <1>3, <3>1, FlattenAppend
  <2>10. FlattenSeq(Contents(Append(front, u))) = FlattenSeq(cs) \o (c \o <<p>>)
    <3>1. Append(c, p) \in Seq(Post) /\ Append(c, p) = c \o <<p>>
      BY AppendIsConcat
    <3>2. Contents(Append(front, u)) = Append(cs, Append(c, p))
      BY <2>4, <2>8, ContentsAppend
    <3>. QED
      BY <3>1, <3>2, FlattenAppend
  <2>11. FlattenSeq(cs) \o (c \o <<p>>) = SubSeq(w, 1, i + 1)
    <3>1. PICK flat \in Seq(Post), q \in Seq(Post) : flat = FlattenSeq(cs) /\ q = <<p>>
      <4>1. FlattenSeq(cs) \in Seq(Post) /\ <<p>> \in Seq(Post)
        BY FlattenTyped
      <4>. QED
        BY <4>1
    <3>2. (flat \o c) \o q = flat \o (c \o q)
      BY PostsConcat
    <3>. QED
      BY <1>2, <2>9, <3>1, <3>2
  <2>12. Append(front, u) \in Seq(HistoryTurn)
    OBVIOUS
  <2>. QED
    BY <1>1, <2>6, <2>7, <2>10, <2>11, <2>12 DEF MergedTo
<1>5. CASE ~(turns # <<>> /\ turns[Len(turns)].role = Role(by, p))
  <2>1. PICK t \in HistoryTurn : t = [role |-> Role(by, p), content |-> <<p>>]
    <3>1. <<p>> \in Seq(Post) /\ Role(by, p) \in {"user", "assistant"}
      BY DEF Role
    <3>. QED
      BY <3>1 DEF HistoryTurn
  <2>2. Merge(by, turns, p) = Append(turns, t)
    BY <1>5, <2>1 DEF Merge, Last
  <2>3. OfOneRole(by, t)
    <3>1. t.content = <<p>> /\ t.role = Role(by, p) /\ Len(<<p>>) = 1 /\ <<p>>[1] = p /\ <<p>> # <<>>
      BY <2>1
    <3>2. \A j \in 1..1 : j = 1
      OBVIOUS
    <3>. QED
      BY <3>1, <3>2 DEF OfOneRole
  <2>4. Alternate(by, Append(turns, t))
    <3>1. turns # <<>> => turns[Len(turns)].role # t.role
      BY <1>5, <2>1
    <3>. QED
      BY <1>3, <2>3, <3>1, AlternateAppend
  <2>5. FlattenSeq(Contents(Append(turns, t))) = SubSeq(w, 1, i + 1)
    <3>1. Contents(turns) \in Seq(Seq(Post)) /\ <<p>> \in Seq(Post)
      BY <1>3, ContentsTyped
    <3>2. Contents(Append(turns, t)) = Append(Contents(turns), <<p>>)
      BY <1>3, <2>1, ContentsAppend
    <3>. QED
      BY <1>2, <1>3, <3>1, <3>2, FlattenAppend
  <2>. QED
    BY <1>1, <1>3, <2>2, <2>4, <2>5, ContentsAppend DEF MergedTo
<1>. QED
  BY <1>4, <1>5

LEMMA MergedTurns ==
  ASSUME NEW by, NEW w \in Seq(Post)
  PROVE  MergedTo(by, Merged(by, w), w, Len(w))
<1>1. PICK f : /\ f[0] = <<>>
               /\ \A i \in 1..Len(w) : f[i] = Merge(by, f[i - 1], w[i])
               /\ Merged(by, w) = f[Len(w)]
  BY MergeFolds
<1>. DEFINE P(n) == n <= Len(w) => MergedTo(by, f[n], w, n)
            S    == {n \in Nat : P(n)}
<1>2. P(0)
  <2>1. <<>> \in Seq(HistoryTurn) /\ SubSeq(w, 1, 0) = <<>> /\ 1..Len(<<>>) = {}
    BY SubSeqEmpty
  <2>2. Contents(<<>>) = <<>>
    <3>1. Contents(<<>>) \in Seq(Seq(Post)) /\ Len(Contents(<<>>)) = Len(<<>>)
      BY <2>1, ContentsTyped
    <3>. QED
      BY <3>1
  <2>3. Alternate(by, <<>>)
    BY <2>1 DEF Alternate
  <2>. QED
    BY <1>1, <2>1, <2>2, <2>3, FlattenEmpty DEF MergedTo
<1>3. ASSUME NEW n \in Nat, P(n)
      PROVE  P(n + 1)
  <2>1. SUFFICES ASSUME n + 1 <= Len(w) PROVE MergedTo(by, f[n + 1], w, n + 1)
    OBVIOUS
  <2>2. n + 1 \in 1..Len(w) /\ (n + 1) - 1 = n /\ n <= Len(w)
    BY <2>1
  <2>. QED
    BY <1>1, <1>3, <2>1, <2>2, MergeKeeps
<1>. HIDE DEF P
<1>4. 0 \in S /\ \A n \in Nat : n \in S => n + 1 \in S
  BY <1>2, <1>3
<1>5. Len(w) \in S
  <2>1. Len(w) \in Nat
    OBVIOUS
  <2>. HIDE DEF S
  <2>. QED
    BY <1>4, <2>1, Induction
<1>. QED
  BY <1>1, <1>5 DEF P

(* The first turn, and what is left without it.                            *)
LEMMA FirstTurn ==
  ASSUME NEW by, NEW turns \in Seq(HistoryTurn), turns # <<>>, Alternate(by, turns)
  PROVE  /\ Head(turns) \in HistoryTurn /\ Tail(turns) \in Seq(HistoryTurn)
         /\ OfOneRole(by, Head(turns)) /\ Alternate(by, Tail(turns))
         /\ Tail(turns) # <<>> => Head(Tail(turns)).role # Head(turns).role
         /\ FlattenSeq(Contents(turns)) = Head(turns).content \o FlattenSeq(Contents(Tail(turns)))
<1>1. PICK t \in HistoryTurn, ts \in Seq(HistoryTurn), l \in Nat :
        /\ t = Head(turns) /\ ts = Tail(turns) /\ l = Len(ts) /\ Len(turns) = l + 1
        /\ turns[1] = t /\ \A k \in 1..l : ts[k] = turns[k + 1]
  <2>1. /\ Head(turns) \in HistoryTurn /\ Tail(turns) \in Seq(HistoryTurn)
        /\ Len(Tail(turns)) = Len(turns) - 1
        /\ \A k \in 1..Len(Tail(turns)) : Tail(turns)[k] = turns[k + 1]
    BY HeadTailProperties
  <2>2. turns[1] = Head(turns) /\ Len(Tail(turns)) \in Nat /\ Len(turns) = Len(Tail(turns)) + 1
    BY <2>1
  <2>. QED
    BY <2>1, <2>2
<1>2. /\ \A k \in 1..(l + 1) : OfOneRole(by, turns[k])
      /\ \A k \in 1..(l + 1), j \in 1..(l + 1) : j = k + 1 => turns[k].role # turns[j].role
  BY <1>1 DEF Alternate
<1>3. 1 \in 1..(l + 1) /\ \A k \in 1..l : k + 1 \in 1..(l + 1)
  OBVIOUS
<1>4. OfOneRole(by, t)
  BY <1>1, <1>2, <1>3
<1>5. Alternate(by, ts)
  <2>1. \A k \in 1..l : OfOneRole(by, ts[k])
    BY <1>1, <1>2, <1>3
  <2>2. ASSUME NEW k \in 1..l, NEW j \in 1..l, j = k + 1
        PROVE  ts[k].role # ts[j].role
    <3>1. j + 1 = (k + 1) + 1
      BY <2>2
    <3>2. turns[k + 1].role # turns[j + 1].role
      BY <1>2, <1>3, <3>1
    <3>. QED
      BY <1>1, <3>2
  <2>. QED
    BY <1>1, <2>1, <2>2 DEF Alternate
<1>6. ASSUME ts # <<>>
      PROVE  Head(ts).role # t.role
  <2>1. 1 \in 1..l /\ 1 + 1 \in 1..(l + 1) /\ Head(ts) = ts[1]
    BY <1>1, <1>6
  <2>2. turns[1].role # turns[1 + 1].role
    BY <1>2, <1>3, <2>1
  <2>3. ts[1] = turns[1 + 1]
    BY <1>1, <2>1
  <2>. QED
    BY <1>1, <2>1, <2>2, <2>3
<1>7. PICK a \in Seq(Seq(Post)) :
        a = Contents(turns) /\ Len(a) = l + 1 /\ \A k \in 1..(l + 1) : a[k] = turns[k].content
  BY <1>1, ContentsTyped
<1>8. PICK b \in Seq(Seq(Post)) :
        b = Contents(ts) /\ Len(b) = l /\ \A k \in 1..l : b[k] = ts[k].content
  BY <1>1, ContentsTyped
<1>9. a # <<>> /\ Head(a) = t.content
  <2>1. a # <<>> /\ Head(a) = a[1]
    BY <1>7
  <2>. QED
    BY <1>1, <1>3, <1>7, <2>1
<1>10. Tail(a) = b
  <2>1. PICK c \in Seq(Seq(Post)) : c = Tail(a) /\ Len(c) = l /\ \A k \in 1..l : c[k] = a[k + 1]
    <3>1. /\ Tail(a) \in Seq(Seq(Post)) /\ Len(Tail(a)) = Len(a) - 1
          /\ \A k \in 1..Len(Tail(a)) : Tail(a)[k] = a[k + 1]
      BY <1>9, HeadTailProperties
    <3>2. Len(Tail(a)) = l
      BY <1>7, <3>1
    <3>. QED
      BY <3>1, <3>2
  <2>2. ASSUME NEW k \in 1..l
        PROVE  c[k] = b[k]
    <3>1. k + 1 \in 1..(l + 1)
      OBVIOUS
    <3>2. c[k] = a[k + 1] /\ a[k + 1] = turns[k + 1].content
      BY <1>7, <2>1, <3>1
    <3>3. b[k] = ts[k].content /\ ts[k] = turns[k + 1]
      BY <1>1, <1>8
    <3>. QED
      BY <3>2, <3>3
  <2>3. c = b
    BY <1>8, <2>1, <2>2, SeqEqual
  <2>. QED
    BY <2>1, <2>3
<1>11. FlattenSeq(a) = Head(a) \o FlattenSeq(Tail(a))
  BY <1>9, FlattenFirst
<1>. QED
  BY <1>1, <1>4, <1>5, <1>6, <1>7, <1>8, <1>9, <1>10, <1>11

(* The roles of turns that alternate.                                      *)
LEMMA RolesAlternate ==
  ASSUME NEW by, NEW turns \in Seq(HistoryTurn), Alternate(by, turns),
         turns # <<>> => Head(turns).role = "user"
  PROVE  \A i \in DOMAIN turns : turns[i].role = IF i % 2 = 1 THEN "user" ELSE "assistant"
<1>1. PICK l \in Nat : l = Len(turns) /\ DOMAIN turns = 1..l
  OBVIOUS
<1>2. \A i \in 1..l : turns[i].role \in {"user", "assistant"}
  <2>1. \A i \in 1..l : turns[i] \in HistoryTurn
    BY <1>1, ElementOfSeq
  <2>. QED
    BY <2>1 DEF HistoryTurn
<1>3. \A k \in 1..l, j \in 1..l : j = k + 1 => turns[k].role # turns[j].role
  BY <1>1 DEF Alternate
<1>. DEFINE P(n) == n + 1 <= l => turns[n + 1].role = IF (n + 1) % 2 = 1 THEN "user" ELSE "assistant"
            S    == {n \in Nat : P(n)}
<1>4. P(0)
  <2>1. SUFFICES ASSUME 1 <= l PROVE turns[1].role = "user"
    OBVIOUS
  <2>2. turns # <<>> /\ Head(turns) = turns[1]
    BY <1>1, <2>1
  <2>. QED
    BY <2>2
<1>5. ASSUME NEW n \in Nat, P(n)
      PROVE  P(n + 1)
  <2>1. SUFFICES ASSUME n + 2 <= l
                 PROVE  turns[n + 2].role = IF (n + 2) % 2 = 1 THEN "user" ELSE "assistant"
    OBVIOUS
  <2>2. n + 1 \in 1..l /\ n + 2 \in 1..l /\ n + 2 = (n + 1) + 1
    BY <2>1
  <2>3. turns[n + 1].role # turns[n + 2].role
    BY <1>3, <2>2
  <2>4. turns[n + 1].role = IF (n + 1) % 2 = 1 THEN "user" ELSE "assistant"
    BY <1>5, <2>2
  <2>5. (n + 1) % 2 = 1 <=> (n + 2) % 2 # 1
    OBVIOUS
  <2>. QED
    BY <1>2, <2>2, <2>3, <2>4, <2>5
<1>. HIDE DEF P
<1>6. 0 \in S /\ \A n \in Nat : n \in S => n + 1 \in S
  BY <1>4, <1>5
<1>7. \A n \in Nat : n \in S
  <2>. HIDE DEF S
  <2>. QED
    BY <1>6, Induction
<1>8. ASSUME NEW i \in 1..l
      PROVE  turns[i].role = IF i % 2 = 1 THEN "user" ELSE "assistant"
  <2>1. i - 1 \in Nat /\ (i - 1) + 1 = i /\ i <= l
    OBVIOUS
  <2>2. P(i - 1)
    BY <1>7, <2>1
  <2>. QED
    BY <2>1, <2>2 DEF P
<1>. QED
  BY <1>1, <1>8

LEMMA MinIs ==
  ASSUME NEW T \in SUBSET Nat, NEW m \in T, \A x \in T : m <= x
  PROVE  Min(T) = m
<1>1. Min(T) \in T /\ \A y \in T : Min(T) <= y
  <2>1. \E x \in T : \A y \in T : x <= y
    OBVIOUS
  <2>. QED
    BY <2>1 DEF Min
<1>2. Min(T) <= m /\ m <= Min(T) /\ Min(T) \in Nat /\ m \in Nat
  BY <1>1
<1>. QED
  BY <1>2

(* The first user message, where a turn begins.                            *)
LEMMA FirstUserIs ==
  ASSUME NEW by, NEW c \in Seq(Post), NEW rest \in Seq(Post),
         \A j \in 1..Len(c) : Role(by, c[j]) # "user",
         rest # <<>> => Role(by, rest[1]) = "user"
  PROVE  FirstUser(by, c \o rest) = Len(c) + 1
<1>1. PICK m \in Nat, n \in Nat, w \in Seq(Post) :
        /\ m = Len(c) /\ n = Len(rest) /\ w = c \o rest /\ Len(w) = m + n /\ DOMAIN w = 1..(m + n)
        /\ \A i \in 1..(m + n) : w[i] = IF i <= m THEN c[i] ELSE rest[i - m]
  <2>1. Len(c) \in Nat /\ Len(rest) \in Nat
    OBVIOUS
  <2>2. /\ c \o rest \in Seq(Post) /\ Len(c \o rest) = Len(c) + Len(rest)
        /\ \A i \in 1..(Len(c) + Len(rest)) : (c \o rest)[i] = IF i <= Len(c) THEN c[i] ELSE rest[i - Len(c)]
    BY ConcatProperties
  <2>3. DOMAIN (c \o rest) = 1..(Len(c) + Len(rest))
    BY <2>2, LenProperties
  <2>. QED
    BY <2>1, <2>2, <2>3
<1>2. PICK us \in SUBSET Nat : us = {i \in DOMAIN w : Role(by, w[i]) = "user"}
  <2>1. {i \in DOMAIN w : Role(by, w[i]) = "user"} \in SUBSET Nat
    BY <1>1
  <2>. QED
    BY <2>1
<1>3. \A i \in us : i \in 1..(m + n) /\ m + 1 <= i
  <2>1. ASSUME NEW i \in us, i <= m PROVE FALSE
    <3>1. i \in 1..(m + n) /\ i \in 1..m /\ Role(by, w[i]) = "user"
      BY <1>1, <1>2, <2>1
    <3>2. w[i] = c[i]
      BY <1>1, <2>1, <3>1
    <3>. QED
      BY <1>1, <3>1, <3>2
  <2>. QED
    BY <1>1, <1>2, <2>1
<1>4. FirstUser(by, w) = IF us = {} THEN Len(w) + 1 ELSE Min(us)
  BY <1>2 DEF FirstUser
<1>5. CASE rest = <<>>
  <2>1. n = 0
    BY <1>1, <1>5
  <2>2. us = {}
    BY <1>3, <2>1
  <2>. QED
    BY <1>1, <1>4, <2>1, <2>2
<1>6. CASE rest # <<>>
  <2>1. m + 1 \in 1..(m + n) /\ ~(m + 1 <= m) /\ (m + 1) - m = 1
    BY <1>1, <1>6
  <2>2. w[m + 1] = rest[1]
    BY <1>1, <2>1
  <2>3. m + 1 \in us
    BY <1>1, <1>2, <1>6, <2>1, <2>2
  <2>4. Min(us) = m + 1
    BY <1>3, <2>3, MinIs
  <2>. QED
    BY <1>1, <1>4, <2>3, <2>4
<1>. QED
  BY <1>5, <1>6

(* What a history of the window w promises.                                *)
LEMMA HistoryOf ==
  ASSUME NEW by, NEW w \in Seq(Post), NEW h, h = DropLeading(Merged(by, w))
  PROVE  /\ \A i \in DOMAIN h : h[i].role = IF i % 2 = 1 THEN "user" ELSE "assistant"
         /\ FlattenSeq(Contents(h)) = SubSeq(w, FirstUser(by, w), Len(w))
<1>1. PICK turns : turns = Merged(by, w)
  OBVIOUS
<1>2. turns \in Seq(HistoryTurn) /\ Alternate(by, turns) /\ FlattenSeq(Contents(turns)) = w
  <2>1. MergedTo(by, turns, w, Len(w)) /\ SubSeq(w, 1, Len(w)) = w
    BY <1>1, MergedTurns, SubSeqFull
  <2>. QED
    BY <2>1 DEF MergedTo
<1>3. h = IF turns # <<>> /\ Head(turns).role = "assistant" THEN Tail(turns) ELSE turns
  BY <1>1 DEF DropLeading
<1>4. ASSUME NEW ts \in Seq(HistoryTurn), Alternate(by, ts), ts # <<>> => Head(ts).role = "user"
      PROVE  /\ FlattenSeq(Contents(ts)) \in Seq(Post)
             /\ FlattenSeq(Contents(ts)) # <<>> => Role(by, FlattenSeq(Contents(ts))[1]) = "user"
             /\ ts = <<>> => FlattenSeq(Contents(ts)) = <<>>
  <2>1. FlattenSeq(Contents(ts)) \in Seq(Post)
    BY ContentsTyped, FlattenTyped
  <2>2. CASE ts = <<>>
    <3>1. Contents(ts) = <<>>
      <4>1. Contents(ts) \in Seq(Seq(Post)) /\ Len(Contents(ts)) = Len(ts) /\ Len(ts) = 0
        BY <2>2, ContentsTyped
      <4>. QED
        BY <4>1
    <3>. QED
      BY <2>1, <3>1, FlattenEmpty
  <2>3. CASE ts # <<>>
    <3>1. /\ Head(ts) \in HistoryTurn /\ Tail(ts) \in Seq(HistoryTurn) /\ OfOneRole(by, Head(ts))
          /\ FlattenSeq(Contents(ts)) = Head(ts).content \o FlattenSeq(Contents(Tail(ts)))
      BY <1>4, <2>3, FirstTurn
    <3>2. PICK c \in Seq(Post), rest \in Seq(Post) : c = Head(ts).content /\ rest = FlattenSeq(Contents(Tail(ts)))
      <4>1. Head(ts).content \in Seq(Post)
        BY <3>1 DEF HistoryTurn
      <4>2. FlattenSeq(Contents(Tail(ts))) \in Seq(Post)
        BY <3>1, ContentsTyped, FlattenTyped
      <4>. QED
        BY <4>1, <4>2
    <3>3. c # <<>> /\ Role(by, c[1]) = "user"
      <4>1. c # <<>> /\ \A j \in 1..Len(c) : Role(by, c[j]) = "user"
        BY <1>4, <2>3, <3>1, <3>2 DEF OfOneRole
      <4>2. 1 \in 1..Len(c)
        BY <4>1
      <4>. QED
        BY <4>1, <4>2
    <3>4. (c \o rest)[1] = c[1]
      BY <3>3
    <3>. QED
      BY <2>1, <2>3, <3>1, <3>2, <3>3, <3>4
  <2>. QED
    BY <2>2, <2>3
<1>5. CASE turns # <<>> /\ Head(turns).role = "assistant"
  <2>1. /\ Head(turns) \in HistoryTurn /\ Tail(turns) \in Seq(HistoryTurn)
        /\ OfOneRole(by, Head(turns)) /\ Alternate(by, Tail(turns))
        /\ Tail(turns) # <<>> => Head(Tail(turns)).role # "assistant"
        /\ w = Head(turns).content \o FlattenSeq(Contents(Tail(turns)))
    BY <1>2, <1>5, FirstTurn
  <2>2. Tail(turns) # <<>> => Head(Tail(turns)).role = "user"
    <3>1. ASSUME Tail(turns) # <<>> PROVE Head(Tail(turns)) \in HistoryTurn
      BY <2>1, <3>1, HeadTailProperties
    <3>. QED
      BY <2>1, <3>1 DEF HistoryTurn
  <2>3. PICK c \in Seq(Post), rest \in Seq(Post) :
          c = Head(turns).content /\ rest = FlattenSeq(Contents(h)) /\ w = c \o rest
    <3>1. Head(turns).content \in Seq(Post)
      BY <2>1 DEF HistoryTurn
    <3>2. FlattenSeq(Contents(Tail(turns))) \in Seq(Post)
      BY <2>1, ContentsTyped, FlattenTyped
    <3>. QED
      BY <1>3, <1>5, <2>1, <3>1, <3>2
  <2>4. \A j \in 1..Len(c) : Role(by, c[j]) # "user"
    BY <1>5, <2>1, <2>3 DEF OfOneRole
  <2>5. rest # <<>> => Role(by, rest[1]) = "user"
    BY <1>3, <1>4, <1>5, <2>1, <2>2, <2>3
  <2>6. FirstUser(by, w) = Len(c) + 1
    BY <2>3, <2>4, <2>5, FirstUserIs
  <2>7. SubSeq(c \o rest, Len(c) + 1, Len(c \o rest)) = rest
    OBVIOUS
  <2>8. \A i \in DOMAIN h : h[i].role = IF i % 2 = 1 THEN "user" ELSE "assistant"
    <3>1. h = Tail(turns)
      BY <1>3, <1>5
    <3>2. \A i \in DOMAIN Tail(turns) :
            Tail(turns)[i].role = IF i % 2 = 1 THEN "user" ELSE "assistant"
      BY <2>1, <2>2, RolesAlternate
    <3>. QED
      BY <3>1, <3>2
  <2>. QED
    BY <2>3, <2>6, <2>7, <2>8
<1>6. CASE ~(turns # <<>> /\ Head(turns).role = "assistant")
  <2>1. h = turns
    BY <1>3, <1>6
  <2>2. turns # <<>> => Head(turns).role = "user"
    <3>1. ASSUME turns # <<>> PROVE Head(turns) \in HistoryTurn
      BY <1>2, <3>1, HeadTailProperties
    <3>. QED
      BY <1>6, <3>1 DEF HistoryTurn
  <2>3. FirstUser(by, w) = 1
    <3>1. PICK c \in Seq(Post) : c = <<>> /\ Len(c) = 0 /\ c \o w = w
      <4>1. <<>> \in Seq(Post) /\ Len(<<>>) = 0 /\ <<>> \o w = w
        BY ConcatEmptySeq
      <4>. QED
        BY <4>1
    <3>2. w # <<>> => Role(by, w[1]) = "user"
      BY <1>2, <1>4, <2>2
    <3>3. 1..Len(c) = {}
      BY <3>1
    <3>4. FirstUser(by, c \o w) = Len(c) + 1
      BY <3>2, <3>3, FirstUserIs
    <3>. QED
      BY <3>1, <3>4
  <2>4. \A i \in DOMAIN h : h[i].role = IF i % 2 = 1 THEN "user" ELSE "assistant"
    BY <1>2, <2>1, <2>2, RolesAlternate
  <2>. QED
    BY <1>2, <2>1, <2>3, <2>4, SubSeqFull
<1>. QED
  BY <1>5, <1>6

LEMMA WindowTyped ==
  ASSUME NEW posts \in Seq(Post)
  PROVE  Window(posts) \in Seq(Post)
<1>1. PICK l \in Nat : l = Len(posts)
  OBVIOUS
<1>2. PICK from \in Nat \ {0} : from = IF Len(posts) > HistoryLimit THEN Len(posts) - HistoryLimit + 1 ELSE 1
  BY <1>1
<1>3. PICK s \in Seq(Post) : s = SubSeq(posts, from, Len(posts))
  <2>1. \A i \in from..l : posts[i] \in Post
    BY <1>1, ElementOfSeq
  <2>2. SubSeq(posts, from, l) \in Seq(Post)
    BY <2>1, SubSeqProperties
  <2>. QED
    BY <1>1, <2>2
<1>4. PICK f : f \in [0..Len(s) -> Seq(Post)] /\ WithText(s) = f[Len(s)]
  BY TextFolds
<1>5. Len(s) \in 0..Len(s)
  OBVIOUS
<1>. QED
  BY <1>2, <1>3, <1>4, <1>5 DEF Window

-----------------------------------------------------------------------------
(* The results.                                                            *)

(* The state of the tool and of its channels is always of its type.        *)
THEOREM SendsAreTyped == Spec => []TypeOK
<1>1. IInv => TypeOK
  BY DEF IInv
<1> QED BY <1>1, Invariance, PTL

(* send_with_retry posts a chunk at most as often as it may try, and       *)
(* send_to_bot posts the chunks of a request in order, whatever errors     *)
(* came before or after a post and whatever else is in the channel.        *)
THEOREM FewCopiesInOrder == Spec => []CopiesAreFewAndInOrder
<1>1. ASSUME IInv PROVE CopiesAreFewAndInOrder
  <2>1. SUFFICES ASSUME NEW n \in DOMAIN sends, ChannelOf(sends[n].target) # NoChannel
                 PROVE  /\ InOrder(n)
                        /\ \A k \in DOMAIN Chunks[sends[n].text] : Cardinality(Copies(n, k)) <= Retries
    BY DEF CopiesAreFewAndInOrder
  <2>2. Channel(sends[n]) # NoChannel
    BY <2>1 DEF Channel
  <2>3. PICK q \in Seq(Post) : q = Inbox(n) /\ q = inbox[Channel(sends[n])]
    BY <1>1, <2>2, Running DEF Inbox, Channel
  <2>4. PostsOf(n) = SentIn(q, n) /\ \A k : Copies(n, k) = ChunkIn(q, n, k)
    BY <2>3 DEF PostsOf, Copies, SentIn, ChunkIn
  <2>5. PICK next \in Nat \ {0}, a \in 0..Retries : UpTo(next, q, n, a)
    <3>1. PICK a : a = IF sends[n].state \in {"created", "posting"} THEN sends[n].attempt ELSE Retries
      OBVIOUS
    <3>2. UpTo(sends[n].next, q, n, a)
      BY <1>1, <2>2, <2>3, <3>1, Running DEF SendInv, PostInv
    <3>3. a \in 0..Retries /\ sends[n].next \in Nat \ {0}
      BY <1>1, <3>1, Running
    <3> QED BY <3>2, <3>3
  <2>6. InOrder(n)
    BY <2>3, <2>4, <2>5 DEF InOrder, UpTo
  <2>7. ASSUME NEW k PROVE Cardinality(ChunkIn(q, n, k)) <= Retries
    <3>1. CASE k = next
      BY <2>5, <3>1, FewPosts DEF UpTo
    <3>2. CASE k # next /\ k \in Nat
      BY <2>5, <3>2 DEF UpTo
    <3>3. CASE k \notin Nat
      <4>1. ChunkIn(q, n, k) = {}
        BY <3>3, FewPosts DEF ChunkIn
      <4>2. Cardinality(ChunkIn(q, n, k)) = 0
        BY <4>1, FS_EmptySet, Zenon
      <4> QED BY <4>2
    <3> QED BY <3>1, <3>2, <3>3
  <2> QED BY <2>4, <2>6, <2>7
<1> QED BY <1>1, Invariance, PTL

(* A request the tool calls delivered is in its channel, every line of it  *)
(* that has text: split_message and send_to_bot drop no such line with the *)
(* blank chunks, and the retries, the errors and the steps of the event    *)
(* loop lose no chunk.                                                     *)
THEOREM DeliveredWhole == Spec => []DeliveredIsWhole
<1>1. ASSUME IInv PROVE DeliveredIsWhole
  <2>1. SUFFICES ASSUME NEW n \in DOMAIN sends, sends[n].told = "delivered"
                 PROVE  LinesOf(sends[n].text) \subseteq LinesPosted(n)
    BY DEF DeliveredIsWhole
  <2>2. sends[n].state = "delivered" /\ Channel(sends[n]) # NoChannel
    BY <1>1, <2>1, Running DEF SendInv, Results
  <2>3. PICK q \in Seq(Post) : q = Inbox(n) /\ q = inbox[Channel(sends[n])]
    BY <1>1, <2>2, Running DEF Inbox, Channel
  <2>4. PICK cut : cut = Chunks[sends[n].text]
    OBVIOUS
  <2>5. \A k \in 1..Len(cut) : ChunkIn(q, n, k) # {}
    BY <1>1, <2>2, <2>3, <2>4, Running DEF SendInv, PostInv
  <2>6. \A k \in 1..Len(cut) : ToSet(cut[k]) \subseteq LinesPosted(n)
    <3>1. SUFFICES ASSUME NEW k \in 1..Len(cut)
                   PROVE  ToSet(cut[k]) \subseteq LinesPosted(n)
      OBVIOUS
    <3>2. PICK i \in PostsOf(n) : Inbox(n)[i].chunk = k
      BY <2>3, <2>5 DEF ChunkIn, SentIn, PostsOf
    <3> QED BY <2>4, <3>2 DEF LinesPosted
  <2>7. LinesOf(sends[n].text) \subseteq UNION {ToSet(cut[k]) : k \in 1..Len(cut)}
    <3>1. sends[n].text \in Texts
      BY <1>1, Running DEF Send
    <3> QED BY <2>4, <3>1, ChunksCover DEF CutCovers
  <2> QED BY <2>6, <2>7
<1> QED BY <1>1, Invariance, PTL

(* split_message cuts no line in two, keeps every line in its place, and   *)
(* makes a chunk longer than its limit only of a single line: for every    *)
(* request, whatever its lines are.                                        *)
THEOREM CutsAreFaithful == Spec => []CutIsFaithful
<1>1. ASSUME TypeOK PROVE CutIsFaithful
  <2>1. SUFFICES ASSUME NEW n \in DOMAIN sends, NEW text, text = Body(sends[n].text)
                 PROVE  /\ FlattenSeq(SplitMessage(text)) = text
                        /\ \A k \in DOMAIN SplitMessage(text) :
                             Length(SplitMessage(text)[k]) <= Limit \/ Len(SplitMessage(text)[k]) = 1
    BY DEF CutIsFaithful
  <2>2. sends[n].text \in Texts
    <3>1. sends \in Seq(Send)
      BY <1>1 DEF TypeOK
    <3>2. sends[n] \in Send
      BY <2>1, <3>1, LenProperties, ElementOfSeq
    <3> QED BY <3>2 DEF Send
  <2>3. text \in Seq(Line)
    BY <2>1, <2>2, BodyTyped
  <2> QED BY <2>3, SplitKeeps DEF Short
<1> QED BY <1>1, SendsAreTyped, PTL

(* build_history of whatever is in a channel begins with a user turn,      *)
(* alternates, and has all the messages with text of the window from the   *)
(* first user message on, in order, whether the bot is known by its id or  *)
(* by author.bot.                                                          *)
THEOREM HistoriesAreFaithful == Spec => []HistoryIsFaithful
<1>1. ASSUME TypeOK PROVE HistoryIsFaithful
  <2>1. SUFFICES ASSUME NEW c \in Channels, NEW by \in ByIds
                 PROVE  LET h == BuildHistory(by, inbox[c])
                            w == Window(inbox[c])
                        IN  /\ \A i \in DOMAIN h : h[i].role = IF i % 2 = 1 THEN "user" ELSE "assistant"
                            /\ FlattenSeq([i \in DOMAIN h |-> h[i].content]) = SubSeq(w, FirstUser(by, w), Len(w))
    BY DEF HistoryIsFaithful
  <2>2. inbox[c] \in Seq(Post)
    BY <1>1, <2>1 DEF TypeOK
  <2>3. PICK w \in Seq(Post) : w = Window(inbox[c])
    BY <2>2, WindowTyped
  <2>4. PICK h : h = DropLeading(Merged(by, w))
    OBVIOUS
  <2>5. h = BuildHistory(by, inbox[c])
    BY <2>3, <2>4 DEF BuildHistory, Merged
  <2>6. /\ \A i \in DOMAIN h : h[i].role = IF i % 2 = 1 THEN "user" ELSE "assistant"
        /\ FlattenSeq(Contents(h)) = SubSeq(w, FirstUser(by, w), Len(w))
    BY <2>4, HistoryOf
  <2> QED BY <2>3, <2>5, <2>6 DEF Contents
<1> QED BY <1>1, SendsAreTyped, PTL

(* Only a coroutine at its posts and the others in a channel post there.   *)
LEMMA WhoPosts ==
  ASSUME IInv, Next
  PROVE  \/ inbox' = inbox
         \/ \E c \in Channels, p \in Post :
              /\ Grows(c, p)
              /\ p.send = 0 \/ (p.send \in DOMAIN sends /\ sends[p.send].state = "posting")
<1>1. ASSUME NEW n \in DOMAIN sends, SendStep(n), inbox' # inbox
      PROVE  \E c \in Channels, p \in Post : Grows(c, p) /\ p.send = n /\ sends[n].state = "posting"
  <2>1. Posts(n) /\ sends[n].state = "posting"
    BY <1>1 DEF SendStep, Begin, PostSucceeds, PostErrs, PostRefused, Postable
  <2>2. Channel(sends[n]) \in Channels
    BY <2>1, Posting, Running
  <2> QED BY <2>1, <2>2, PostsOne
<1>2. ASSUME NEW c \in Channels, Chat(c)
      PROVE  \E p \in Post : Grows(c, p) /\ p.send = 0
  BY <1>2, ChatKeeps
<1>3. ASSUME NEW t \in Threads, Execute(t) \/ Answer(t) \/ TimeOut(t)
      PROVE  inbox' = inbox
  BY <1>3 DEF Execute, Answer, TimeOut, Tells
<1> QED BY <1>1, <1>2, <1>3 DEF Next

(* No step gives a request another target.                                 *)
LEMMA TargetStays ==
  ASSUME IInv, Next, NEW n \in DOMAIN sends
  PROVE  sends'[n].target = sends[n].target
<1>1. sends \in Seq(Send) /\ thread \in [Threads -> 0..Len(sends)]
  BY DEF IInv, TypeOK
<1>2. ASSUME NEW t \in Threads, Execute(t) PROVE sends'[n].target = sends[n].target
  BY <1>1, <1>2 DEF Execute
<1>3. ASSUME NEW m \in DOMAIN sends, NEW s, s.target = sends[m].target, sends' = [sends EXCEPT ![m] = s]
      PROVE  sends'[n].target = sends[n].target
  BY <1>1, <1>3
<1>4. ASSUME NEW t \in Threads, Answer(t) \/ TimeOut(t) PROVE sends'[n].target = sends[n].target
  <2>1. PICK m, what : m = thread[t] /\ m # 0 /\ sends' = [sends EXCEPT ![m].told = what]
    BY <1>4 DEF Answer, TimeOut, Tells
  <2>2. m \in DOMAIN sends /\ sends[m] \in Send
    BY <1>1, <2>1
  <2>3. PICK s : s = [sends[m] EXCEPT !.told = what]
    OBVIOUS
  <2>4. s.target = sends[m].target /\ sends' = [sends EXCEPT ![m] = s]
    BY <2>1, <2>2, <2>3 DEF Send
  <2> QED BY <1>3, <2>2, <2>4
<1>5. ASSUME NEW m \in DOMAIN sends, SendStep(m) PROVE sends'[n].target = sends[n].target
  <2>1. sends[m] \in Send
    BY <1>1
  <2>2. \/ \E v : sends' = [sends EXCEPT ![m].state = v]
        \/ \E v : sends' = [sends EXCEPT ![m].attempt = v]
        \/ \E v : sends' = [sends EXCEPT ![m].next = v, ![m].attempt = 0]
    BY <1>5 DEF SendStep, Begin, PostSucceeds, PostErrs, PostRefused, NextChunk, Retry, Returns
  <2>3. PICK s : s.target = sends[m].target /\ sends' = [sends EXCEPT ![m] = s]
    <3>1. ASSUME NEW v, sends' = [sends EXCEPT ![m].state = v]
          PROVE  sends' = [sends EXCEPT ![m] = [sends[m] EXCEPT !.state = v]]
      BY <1>1, <3>1
    <3>2. ASSUME NEW v, sends' = [sends EXCEPT ![m].attempt = v]
          PROVE  sends' = [sends EXCEPT ![m] = [sends[m] EXCEPT !.attempt = v]]
      BY <1>1, <3>2
    <3>3. ASSUME NEW v, sends' = [sends EXCEPT ![m].next = v, ![m].attempt = 0]
          PROVE  sends' = [sends EXCEPT ![m] = [sends[m] EXCEPT !.next = v, !.attempt = 0]]
      BY <1>1, <3>3
    <3> QED BY <2>1, <2>2, <3>1, <3>2, <3>3 DEF Send
  <2> QED BY <1>3, <2>3
<1>6. ASSUME NEW c \in Channels, Chat(c) PROVE sends'[n].target = sends[n].target
  BY <1>6 DEF Chat
<1> QED BY <1>2, <1>4, <1>5, <1>6 DEF Next

(* After an answer that is not a timeout the coroutine has returned, and   *)
(* nothing of its request is posted any more.                              *)
THEOREM AnswersAreFinal == Spec => AnswerIsFinal
<1>1. ASSUME IInv, [Next]_vars, NEW n \in DOMAIN sends, sends[n].told \in Results,
             ChannelOf(sends[n].target) # NoChannel
      PROVE  PostsOf(n)' = PostsOf(n)
  <2>1. CASE UNCHANGED vars
    BY <2>1 DEF vars, PostsOf, Inbox
  <2>2. CASE Next
    <3>1. PICK d : d = Channel(sends[n])
      OBVIOUS
    <3>2. d \in Channels /\ inbox[d] \in Seq(Post) /\ sends[n].state \in Results /\ n # 0
      BY <1>1, <3>1, Running DEF SendInv, Channel
    <3>3. PostsOf(n) = SentIn(inbox[d], n)
      BY <3>1 DEF PostsOf, Inbox, SentIn, Channel
    <3>4. sends'[n].target = sends[n].target
      BY <1>1, <2>2, TargetStays
    <3>5. PostsOf(n)' = SentIn(inbox'[d], n)
      BY <3>1, <3>4 DEF PostsOf, Inbox, SentIn, Channel
    <3>6. SentIn(inbox'[d], n) = SentIn(inbox[d], n)
      <4>1. SUFFICES ASSUME inbox' # inbox
                     PROVE  SentIn(inbox'[d], n) = SentIn(inbox[d], n)
        OBVIOUS
      <4>2. PICK c \in Channels, p \in Post :
              /\ Grows(c, p)
              /\ p.send = 0 \/ (p.send \in DOMAIN sends /\ sends[p.send].state = "posting")
        BY <1>1, <2>2, <4>1, WhoPosts
      <4>3. p.send # n
        BY <3>2, <4>2 DEF Results
      <4>4. inbox \in [Channels -> Seq(Post)]
        BY <1>1 DEF IInv, TypeOK
      <4>5. CASE c = d
        <5>1. inbox'[d] = Append(inbox[d], p)
          BY <4>2, <4>4, <4>5, BoxGrows
        <5> QED BY <3>2, <4>3, <5>1, OtherPost
      <4>6. CASE c # d
        BY <3>2, <4>2, <4>4, <4>6, BoxGrows
      <4> QED BY <4>5, <4>6
    <3> QED BY <3>3, <3>5, <3>6
  <2> QED BY <1>1, <2>1, <2>2
<1>2. IInv /\ [Next]_vars =>
        [\A n \in DOMAIN sends : sends[n].told \in Results /\ ChannelOf(sends[n].target) # NoChannel =>
           PostsOf(n)' = PostsOf(n)]_vars
  BY <1>1
<1> QED BY <1>2, Invariance, PTL DEF Spec, AnswerIsFinal

=============================================================================
