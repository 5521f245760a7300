----------------------------- MODULE FoldLemmas -----------------------------
(***************************************************************************)
(* What the folds of the community modules compute, for every sequence.    *)
(* FoldLeft and FlattenSeq are CHOOSEs of a recursive function: each is    *)
(* shown to be the end of a run with one step per element, and the number  *)
(* of elements it has gone through is what the other proofs reason about.  *)
(* A text cut into blocks has its places at the end.                       *)
(***************************************************************************)
EXTENDS Integers, FiniteSets, SequencesExt, FiniteSetTheorems, WellFoundedInduction, TLAPS

-----------------------------------------------------------------------------
(* Places of a sequence.                                                   *)

(* Induction over the numbers up to n: a set that has 0, and each number    *)
(* whose predecessor it has, has them all.                                 *)
LEMMA UpTo ==
    ASSUME NEW n \in Nat, NEW S, 0 \in S,
           \A m \in 1..n : m - 1 \in S => m \in S
    PROVE  \A m \in 0..n : m \in S
<1> DEFINE T == {m \in 0..n : m \notin S}
<1> SUFFICES ASSUME T # {} PROVE FALSE
  OBVIOUS
<1>1. T \in SUBSET Nat /\ \A m \in T : m \in 0..n /\ m \notin S
  OBVIOUS
<1> HIDE DEF T
<1>2. PICK m \in T : \A k \in T : ~ (<<k, m>> \in OpToRel(<, Nat))
  BY <1>1, NatLessThanWellFounded, WFMin
<1>3. m \in 1..n /\ m - 1 \in 0..n /\ m - 1 \in Nat /\ m \in Nat /\ m - 1 < m
  <2>1. m \in 0..n /\ m \notin S
    BY <1>1, <1>2
  <2>2. m # 0
    BY <2>1
  <2> QED BY <2>1, <2>2
<1>4. m - 1 \notin T
  BY <1>2, <1>3 DEF OpToRel
<1> QED BY <1>1, <1>2, <1>3, <1>4 DEF T

LEMMA SeqIsFunction ==
    ASSUME NEW V, NEW s \in Seq(V)
    PROVE  Len(s) \in Nat /\ DOMAIN s = 1..Len(s) /\ s \in [1..Len(s) -> V]
OBVIOUS

Alike(s, t) == Len(s) = Len(t) /\ \A i \in 1..Len(s) : s[i] = t[i]

LEMMA AlikeIsSame ==
    ASSUME NEW V, NEW s \in Seq(V), NEW t \in Seq(V), Alike(s, t)
    PROVE  s = t
BY DEF Alike

LEMMA SizeUpTo ==
    ASSUME NEW n \in Nat
    PROVE  IsFiniteSet(1..n) /\ Cardinality(1..n) = n
BY FS_Interval

LEMMA LastOrBefore ==
    ASSUME NEW m \in Nat \ {0}
    PROVE  \A k : k \in 1..m <=> k \in 1..(m - 1) \/ k = m
OBVIOUS

(* A set of places that is not empty has a last one.                       *)
LEMMA LastPlace ==
    ASSUME NEW n \in Nat, NEW s \in SUBSET (1..n), s # {}
    PROVE  Max(s) \in s /\ \A i \in s : i <= Max(s)
<1> DEFINE S == {m \in 0..n : (s \cap (1..m)) # {} =>
                     \E i \in s \cap (1..m) : \A j \in s \cap (1..m) : j <= i}
<1>1. 0 \in S
  OBVIOUS
<1>2. ASSUME NEW m \in 1..n, m - 1 \in S PROVE m \in S
  <2>1. CASE m \in s
    <3>1. m \in s \cap (1..m) /\ \A j \in s \cap (1..m) : j <= m
      BY <2>1
    <3> QED BY <3>1
  <2>2. CASE m \notin s
    <3>1. s \cap (1..m) = s \cap (1..(m - 1))
      BY <2>2
    <3> QED BY <1>2, <3>1
  <2> QED BY <2>1, <2>2
<1> HIDE DEF S
<1>3. n \in S
  BY <1>1, <1>2, UpTo
<1>4. s \cap (1..n) = s
  OBVIOUS
<1>5. PICK i \in s : \A j \in s : j <= i
  BY <1>3, <1>4 DEF S
<1>6. \A j \in s : i >= j
  BY <1>5
<1>7. \E i2 \in s : \A j \in s : i2 >= j
  BY <1>6
<1>8. Max(s) \in s /\ \A j \in s : Max(s) >= j
  BY <1>7 DEF Max
<1> QED BY <1>8

LEMMA LastIsMax ==
    ASSUME NEW n \in Nat, NEW s \in SUBSET (1..n), n \in s
    PROVE  Max(s) = n
<1>1. Max(s) \in s /\ n <= Max(s)
  BY LastPlace
<1>2. Max(s) \in 1..n
  BY <1>1
<1> QED BY <1>1, <1>2

LEMMA LastOfAll ==
    ASSUME NEW k \in Nat \ {0}
    PROVE  Max(1..k) = k /\ (1..k) \ {k} = 1..(k - 1)
<1>1. Max(1..k) = k
  BY LastIsMax
<1> QED BY <1>1

(* And a first one.                                                        *)
LEMMA FirstPlace ==
    ASSUME NEW n \in Nat, NEW s \in SUBSET (1..n), s # {}
    PROVE  Min(s) \in s /\ \A i \in s : Min(s) <= i
<1>1. s \in SUBSET Nat
  OBVIOUS
<1>2. PICK m \in s : \A k \in s : ~ (<<k, m>> \in OpToRel(<, Nat))
  BY <1>1, NatLessThanWellFounded, WFMin
<1>3. \A k \in s : k \in Nat /\ m \in Nat /\ ~ (k < m)
  BY <1>1, <1>2 DEF OpToRel
<1>4. \A k \in s : m <= k
  BY <1>3
<1>5. Min(s) \in s /\ \A k \in s : Min(s) <= k
  BY <1>4 DEF Min
<1> QED BY <1>5

(* A fold over n places, where step says what a place makes of what came   *)
(* before: the function the library's folds choose is there to be chosen.  *)
Folds(f, n, base, step) ==
    \A s \in SUBSET (1..n) :
        f[s] = IF s = {} THEN base ELSE step[Max(s)][f[s \ {Max(s)}]]

LEMMA FoldExists ==
    ASSUME NEW n \in Nat, NEW V, NEW base \in V, NEW step \in [1..n -> [V -> V]]
    PROVE  \E f \in [SUBSET (1..n) -> V] : Folds(f, n, base, step)
<1> DEFINE P(m) == \E f \in [SUBSET (1..m) -> V] : Folds(f, m, base, step)
           S == {m \in 0..n : P(m)}
<1>1. P(0)
  <2> DEFINE f == [s \in SUBSET (1..0) |-> base]
  <2>1. f \in [SUBSET (1..0) -> V]
    OBVIOUS
  <2>2. \A s \in SUBSET (1..0) : s = {} /\ f[s] = base
    OBVIOUS
  <2> HIDE DEF f
  <2>3. Folds(f, 0, base, step)
    BY <2>2 DEF Folds
  <2> QED BY <2>1, <2>3
<1>2. ASSUME NEW m \in 1..n, P(m - 1) PROVE P(m)
  <2>1. PICK f \in [SUBSET (1..(m - 1)) -> V] : Folds(f, m - 1, base, step)
    BY <1>2
  <2> DEFINE g == [s \in SUBSET (1..m) |->
                     IF m \in s THEN step[m][f[s \ {m}]] ELSE f[s]]
  <2>2. ASSUME NEW s \in SUBSET (1..m)
        PROVE  /\ m \in s => s \ {m} \in SUBSET (1..(m - 1))
               /\ m \notin s => s \in SUBSET (1..(m - 1))
    OBVIOUS
  <2>3. g \in [SUBSET (1..m) -> V]
    BY <2>2
  <2>4. ASSUME NEW s \in SUBSET (1..m)
        PROVE  g[s] = IF s = {} THEN base ELSE step[Max(s)][g[s \ {Max(s)}]]
    <3>1. CASE m \in s
      <4>1. Max(s) = m
        BY <3>1, LastIsMax, m \in Nat, Zenon
      <4>2. g[s \ {m}] = f[s \ {m}]
        OBVIOUS
      <4> QED BY <3>1, <4>1, <4>2
    <3>2. CASE m \notin s
      <4>1. s \in SUBSET (1..(m - 1))
        BY <2>2, <3>2
      <4>2. g[s] = f[s]
        BY <3>2
      <4>3. f[s] = IF s = {} THEN base ELSE step[Max(s)][f[s \ {Max(s)}]]
        BY <2>1, <4>1 DEF Folds
      <4>4. g[s \ {Max(s)}] = f[s \ {Max(s)}]
        BY <3>2
      <4> QED BY <4>2, <4>3, <4>4
    <3> QED BY <3>1, <3>2
  <2> HIDE DEF g
  <2>5. Folds(g, m, base, step)
    BY <2>4 DEF Folds
  <2> QED BY <2>3, <2>5
<1> HIDE DEF P
<1>3. 0 \in S /\ \A m \in 1..n : m - 1 \in S => m \in S
  BY <1>1, <1>2
<1> HIDE DEF S
<1>4. \A m \in 0..n : m \in S
  BY <1>3, UpTo, Zenon
<1>5. P(n)
  BY <1>4 DEF S
<1> QED BY <1>5 DEF P
(* Whatever satisfies a fold's equation as long as it stays in V runs from  *)
(* the base through the places in turn, and ends with the fold.            *)
FoldsIn(V, f, n, base, step) ==
    /\ f[{}] = base
    /\ \A s \in SUBSET (1..n) : s # {} /\ f[s \ {Max(s)}] \in V
                                  => f[s] = step[Max(s)][f[s \ {Max(s)}]]

Runs(run, n, base, step) ==
    run[0] = base /\ \A k \in 1..n : run[k] = step[k][run[k - 1]]

RunsThrough(V, f, n, base, step) ==
    \E run \in [0..n -> V] : Runs(run, n, base, step) /\ run[n] = f[1..n]

LEMMA FoldRuns ==
    ASSUME NEW n \in Nat, NEW V, NEW base \in V, NEW step \in [1..n -> [V -> V]],
           NEW f, FoldsIn(V, f, n, base, step)
    PROVE  RunsThrough(V, f, n, base, step)
<1> DEFINE S == {m \in 0..n : f[1..m] \in V}
           run == [m \in 0..n |-> f[1..m]]
<1>1. 1..0 = {}
  OBVIOUS
<1>2. 0 \in S
  BY <1>1 DEF FoldsIn
<1>3. ASSUME NEW k \in 1..n, f[1..(k - 1)] \in V
      PROVE  f[1..k] = step[k][f[1..(k - 1)]] /\ f[1..k] \in V
  <2>1. Max(1..k) = k /\ (1..k) \ {k} = 1..(k - 1)
    BY LastOfAll, k \in Nat \ {0}, Zenon
  <2>2. (1..k) \in SUBSET (1..n) /\ (1..k) # {}
    OBVIOUS
  <2>3. f[1..k] = step[k][f[1..(k - 1)]]
    BY <1>3, <2>1, <2>2 DEF FoldsIn
  <2> QED BY <1>3, <2>3
<1>4. \A m \in 1..n : m - 1 \in S => m \in S
  BY <1>3
<1> HIDE DEF S
<1>5. \A m \in 0..n : m \in S
  BY <1>2, <1>4, UpTo, Zenon
<1>6. \A m \in 0..n : f[1..m] \in V
  BY <1>5 DEF S
<1>7. run \in [0..n -> V]
  BY <1>6
<1>8. run[0] = base /\ run[n] = f[1..n]
  BY <1>1 DEF FoldsIn
<1>9. \A k \in 1..n : run[k] = step[k][run[k - 1]]
  <2>1. \A k \in 1..n : k - 1 \in 0..n /\ k \in 0..n
    OBVIOUS
  <2>2. \A k \in 1..n : f[1..k] = step[k][f[1..(k - 1)]]
    BY <1>3, <1>6, <2>1
  <2> QED BY <2>1, <2>2
<1> HIDE DEF run
<1>10. Runs(run, n, base, step)
  BY <1>8, <1>9 DEF Runs
<1> QED BY <1>7, <1>8, <1>10 DEF RunsThrough

(* Such a run there is, for any step that stays in V.                      *)
LEMMA RunExists ==
    ASSUME NEW n \in Nat, NEW V, NEW base \in V, NEW step \in [1..n -> [V -> V]]
    PROVE  \E run \in [0..n -> V] : Runs(run, n, base, step)
<1>1. PICK f \in [SUBSET (1..n) -> V] : Folds(f, n, base, step)
  BY FoldExists
<1>2. FoldsIn(V, f, n, base, step)
  BY <1>1 DEF Folds, FoldsIn
<1>3. RunsThrough(V, f, n, base, step)
  BY <1>2, FoldRuns
<1> QED BY <1>3 DEF RunsThrough

-----------------------------------------------------------------------------
(* Totals.                                                                 *)

Total(numbers) == FoldLeft(LAMBDA n, x : n + x, 0, numbers)

LEMMA TotalRuns ==
    ASSUME NEW n \in Nat, NEW numbers \in [1..n -> Nat]
    PROVE  \E run \in [0..n -> Nat] : /\ run[0] = 0 /\ run[n] = Total(numbers)
                                      /\ \A k \in 1..n : run[k] = run[k - 1] + numbers[k]
<1> DEFINE body(f) == [s \in SUBSET (1..n) |->
                         IF s = {} THEN 0 ELSE f[s \ {Max(s)}] + numbers[Max(s)]]
           chosen == CHOOSE f : f = body(f)
           step == [k \in 1..n |-> [v \in Nat |-> v + numbers[k]]]
<1>1. step \in [1..n -> [Nat -> Nat]]
  OBVIOUS
<1>2. Total(numbers) = chosen[1..n]
  BY DEF Total, FoldLeft, MapThenFoldSet
<1>3. PICK f \in [SUBSET (1..n) -> Nat] : Folds(f, n, 0, step)
  <2> HIDE DEF step
  <2> QED BY <1>1, FoldExists
<1>4. \A s \in SUBSET (1..n) : s # {} => Max(s) \in 1..n
  BY LastPlace
<1>5. f = body(f)
  <2>1. \A s \in SUBSET (1..n) : f[s] = IF s = {} THEN 0 ELSE f[s \ {Max(s)}] + numbers[Max(s)]
    BY <1>3, <1>4 DEF Folds
  <2> QED BY <1>3, <2>1
<1>6. chosen = body(chosen)
  BY <1>5
<1> HIDE DEF chosen
<1>7. FoldsIn(Nat, chosen, n, 0, step)
  BY <1>4, <1>6 DEF FoldsIn
<1> HIDE DEF step
<1>0. RunsThrough(Nat, chosen, n, 0, step)
  BY <1>1, <1>7, FoldRuns, 0 \in Nat, Zenon
<1>8. PICK run \in [0..n -> Nat] : Runs(run, n, 0, step) /\ run[n] = chosen[1..n]
  BY <1>0 DEF RunsThrough
<1>9. ASSUME NEW k \in 1..n PROVE run[k] = run[k - 1] + numbers[k]
  <2>1. run[k] = step[k][run[k - 1]] /\ run[k - 1] \in Nat
    BY <1>8 DEF Runs
  <2> QED BY <2>1 DEF step
<1> QED BY <1>2, <1>8, <1>9 DEF Runs

(* A total is nothing just if there is nothing to add up.                  *)
LEMMA TotalOfNothing ==
    ASSUME NEW n \in Nat, NEW numbers \in [1..n -> Nat]
    PROVE  /\ Total(numbers) \in Nat
           /\ Total(numbers) = 0 <=> \A k \in 1..n : numbers[k] = 0
<1>1. PICK run \in [0..n -> Nat] : /\ run[0] = 0 /\ run[n] = Total(numbers)
                                   /\ \A k \in 1..n : run[k] = run[k - 1] + numbers[k]
  BY TotalRuns
<1> DEFINE S == {m \in 0..n : run[m] = 0 <=> \A k \in 1..m : numbers[k] = 0}
<1>2. 0 \in S
  BY <1>1
<1>3. ASSUME NEW m \in 1..n, m - 1 \in S PROVE m \in S
  <2>1. run[m] = run[m - 1] + numbers[m] /\ run[m - 1] \in Nat /\ numbers[m] \in Nat
    BY <1>1
  <2>2. run[m - 1] = 0 <=> \A k \in 1..(m - 1) : numbers[k] = 0
    BY <1>3
  <2>3. CASE run[m - 1] = 0 /\ numbers[m] = 0
    <3>1. ASSUME NEW k \in 1..m PROVE numbers[k] = 0
      BY <2>2, <2>3, LastOrBefore, m \in Nat \ {0}
    <3> QED BY <2>1, <2>3, <3>1
  <2>4. CASE numbers[m] # 0
    <3>1. run[m] # 0 /\ m \in 1..m
      BY <2>1, <2>4
    <3> QED BY <2>4, <3>1
  <2>5. CASE run[m - 1] # 0
    <3>1. run[m] # 0
      BY <2>1, <2>5
    <3>2. PICK k \in 1..(m - 1) : numbers[k] # 0
      BY <2>2, <2>5
    <3>3. k \in 1..m
      OBVIOUS
    <3> QED BY <3>1, <3>2, <3>3
  <2> QED BY <2>3, <2>4, <2>5
<1> HIDE DEF S
<1>4. \A m \in 0..n : m \in S
  BY <1>2, <1>3, UpTo, Zenon
<1> QED BY <1>1, <1>4 DEF S

(* Adding up no more of each makes no more in all, and as much in all just *)
(* if it is as much of each.                                               *)
LEMMA TotalGrows ==
    ASSUME NEW n \in Nat, NEW low \in [1..n -> Nat], NEW high \in [1..n -> Nat],
           \A k \in 1..n : low[k] <= high[k]
    PROVE  /\ Total(low) <= Total(high)
           /\ Total(low) = Total(high) => \A k \in 1..n : low[k] = high[k]
<1>1. PICK run \in [0..n -> Nat] : /\ run[0] = 0 /\ run[n] = Total(low)
                                   /\ \A k \in 1..n : run[k] = run[k - 1] + low[k]
  BY TotalRuns
<1>2. PICK above \in [0..n -> Nat] : /\ above[0] = 0 /\ above[n] = Total(high)
                                     /\ \A k \in 1..n : above[k] = above[k - 1] + high[k]
  BY TotalRuns
<1> DEFINE S == {m \in 0..n : /\ run[m] <= above[m]
                              /\ run[m] = above[m] => \A k \in 1..m : low[k] = high[k]}
<1>3. 0 \in S
  BY <1>1, <1>2
<1>4. ASSUME NEW m \in 1..n, m - 1 \in S PROVE m \in S
  <2>1. /\ run[m] = run[m - 1] + low[m] /\ above[m] = above[m - 1] + high[m]
        /\ run[m - 1] \in Nat /\ above[m - 1] \in Nat /\ low[m] \in Nat /\ high[m] \in Nat
        /\ low[m] <= high[m]
    BY <1>1, <1>2
  <2>2. /\ run[m - 1] <= above[m - 1]
        /\ run[m - 1] = above[m - 1] => \A k \in 1..(m - 1) : low[k] = high[k]
    BY <1>4
  <2>3. run[m] <= above[m]
    BY <2>1, <2>2
  <2>4. run[m] = above[m] => run[m - 1] = above[m - 1] /\ low[m] = high[m]
    BY <2>1, <2>2
  <2>5. ASSUME run[m] = above[m] PROVE \A k \in 1..m : low[k] = high[k]
    BY <2>2, <2>4, <2>5
  <2> QED BY <2>3, <2>5
<1> HIDE DEF S
<1>5. \A m \in 0..n : m \in S
  BY <1>3, <1>4, UpTo, Zenon
<1> QED BY <1>1, <1>2, <1>5 DEF S

-----------------------------------------------------------------------------
(* Sequences of sequences, one after the other.                            *)

Flattens(flat, n, V, seqs) ==
    /\ flat \in [0..n -> Seq(V)] /\ flat[0] = <<>> /\ flat[n] = FlattenSeq(seqs)
    /\ \A k \in 1..n : flat[k] = flat[k - 1] \o seqs[k]

LEMMA FlattenRuns ==
    ASSUME NEW n \in Nat \ {0}, NEW V, NEW seqs \in [1..n -> Seq(V)]
    PROVE  \E flat : Flattens(flat, n, V, seqs)
<1> DEFINE body(f) == [i \in 1..n |-> IF i = 1 THEN seqs[i] ELSE f[i - 1] \o seqs[i]]
           chosen == CHOOSE f : f = body(f)
           step == [k \in 1..n |-> [s \in Seq(V) |-> s \o seqs[k]]]
           S(run) == {m \in 0..n : m # 0 => chosen[m] = run[m]}
<1>1. Len(seqs) = n
  OBVIOUS
<1>2. FlattenSeq(seqs) = chosen[n]
  BY <1>1 DEF FlattenSeq
<1>3. step \in [1..n -> [Seq(V) -> Seq(V)]] /\ <<>> \in Seq(V) /\ n \in Nat
  OBVIOUS
<1> HIDE DEF step
<1>4. PICK run \in [0..n -> Seq(V)] : Runs(run, n, <<>>, step)
  BY <1>3, RunExists
<1>5. run[0] = <<>> /\ \A k \in 1..n : k - 1 \in 0..n /\ run[k] = step[k][run[k - 1]]
  BY <1>3, <1>4 DEF Runs
<1>6. \A k \in 1..n : run[k] = run[k - 1] \o seqs[k]
  BY <1>5 DEF step
<1>7. run[1] = seqs[1]
  <2>1. seqs[1] \in Seq(V) /\ 1 \in 1..n /\ 1 - 1 = 0
    BY <1>3
  <2>2. <<>> \o seqs[1] = seqs[1]
    BY <2>1
  <2> QED BY <1>5, <1>6, <2>1, <2>2, Zenon
<1>8. \A i \in 1..n : run[i] = IF i = 1 THEN seqs[i] ELSE run[i - 1] \o seqs[i]
  BY <1>6, <1>7, Zenon
<1>9. \E f : f = body(f)
  <2> DEFINE f == [i \in 1..n |-> run[i]]
  <2>1. \A i \in 1..n : i = 1 \/ i - 1 \in 1..n
    OBVIOUS
  <2>2. \A i \in 1..n : f[i] = run[i] /\ (i # 1 => f[i - 1] = run[i - 1])
    BY <2>1
  <2>3. f = [i \in 1..n |-> f[i]]
    OBVIOUS
  <2>4. \A i \in 1..n : f[i] = IF i = 1 THEN seqs[i] ELSE f[i - 1] \o seqs[i]
    BY <1>8, <2>2, Zenon
  <2> HIDE DEF f
  <2>5. f = body(f)
    BY <2>3, <2>4, Zenon
  <2> QED BY <2>5
<1>10. chosen = body(chosen)
  BY <1>9
<1> HIDE DEF chosen
<1>11. \A i \in 1..n : chosen[i] = IF i = 1 THEN seqs[i] ELSE chosen[i - 1] \o seqs[i]
  BY <1>10, Zenon
<1>12. 0 \in S(run)
  OBVIOUS
<1>13. ASSUME NEW m \in 1..n, m - 1 \in S(run) PROVE m \in S(run)
  <2>1. m \in 0..n
    OBVIOUS
  <2>2. m # 1 => chosen[m - 1] = run[m - 1]
    BY <1>13
  <2> QED BY <1>8, <1>11, <2>1, <2>2, Zenon
<1> HIDE DEF S
<1>14. \A m \in 0..n : m \in S(run)
  BY <1>3, <1>12, <1>13, UpTo, Zenon
<1>15. chosen[n] = run[n]
  BY <1>14 DEF S
<1>16. Flattens(run, n, V, seqs)
  BY <1>2, <1>5, <1>6, <1>15 DEF Flattens
<1> QED BY <1>16

(* What is in a sequence, and what a sequence has from a place on.         *)
Among(v, s) == \E i \in 1..Len(s) : s[i] = v
HasFrom(s, b, t) == /\ b + Len(t) <= Len(s)
                    /\ \A j \in 1..Len(t) : s[b + j] = t[j]

LEMMA JoinedHas ==
    ASSUME NEW V, NEW s \in Seq(V), NEW t \in Seq(V), NEW v
    PROVE  Among(v, s \o t) <=> Among(v, s) \/ Among(v, t)
<1>1. /\ Len(s \o t) = Len(s) + Len(t) /\ Len(s) \in Nat /\ Len(t) \in Nat
      /\ \A i \in 1..Len(s) : (s \o t)[i] = s[i]
      /\ \A i \in 1..Len(t) : (s \o t)[Len(s) + i] = t[i]
  OBVIOUS
<1> DEFINE r == s \o t
<1>2. ASSUME NEW i \in 1..Len(r), r[i] = v PROVE Among(v, s) \/ Among(v, t)
  <2>1. CASE i <= Len(s)
    <3>1. i \in 1..Len(s) /\ s[i] = v
      BY <1>1, <1>2, <2>1
    <3> QED BY <3>1 DEF Among
  <2>2. CASE i > Len(s)
    <3>1. i - Len(s) \in 1..Len(t) /\ i = Len(s) + (i - Len(s))
      BY <1>1, <2>2
    <3>2. t[i - Len(s)] = v
      BY <1>1, <1>2, <3>1
    <3> QED BY <3>1, <3>2 DEF Among
  <2> QED BY <1>1, <2>1, <2>2
<1>3. ASSUME NEW i \in 1..Len(s), s[i] = v PROVE Among(v, r)
  <2>1. i \in 1..Len(r) /\ r[i] = v
    BY <1>1, <1>3
  <2> QED BY <2>1 DEF Among
<1>4. ASSUME NEW i \in 1..Len(t), t[i] = v PROVE Among(v, r)
  <2>1. Len(s) + i \in 1..Len(r) /\ r[Len(s) + i] = v
    BY <1>1, <1>4
  <2> QED BY <2>1 DEF Among
<1> HIDE DEF r
<1>5. Among(v, r) <=> Among(v, s) \/ Among(v, t)
  BY <1>2, <1>3, <1>4 DEF Among
<1> QED BY <1>5 DEF r

LEMMA JoinedFrom ==
    ASSUME NEW V, NEW s \in Seq(V), NEW t \in Seq(V)
    PROVE  /\ s \o t \in Seq(V) /\ Len(s \o t) = Len(s) + Len(t)
           /\ HasFrom(s \o t, Len(s), t)
           /\ \A u \in Seq(V), b \in Nat : HasFrom(s, b, u) => HasFrom(s \o t, b, u)
<1>1. /\ Len(s \o t) = Len(s) + Len(t) /\ Len(s) \in Nat /\ Len(t) \in Nat /\ s \o t \in Seq(V)
      /\ \A i \in 1..Len(s) : (s \o t)[i] = s[i]
      /\ \A i \in 1..Len(t) : (s \o t)[Len(s) + i] = t[i]
  OBVIOUS
<1> DEFINE r == s \o t
<1> HIDE DEF r
<1>2. HasFrom(r, Len(s), t)
  BY <1>1 DEF HasFrom, r
<1>3. ASSUME NEW u \in Seq(V), NEW b \in Nat, HasFrom(s, b, u) PROVE HasFrom(r, b, u)
  <2>1. Len(u) \in Nat /\ b + Len(u) <= Len(s)
    BY <1>3 DEF HasFrom
  <2>2. ASSUME NEW j \in 1..Len(u) PROVE r[b + j] = u[j]
    <3>1. b + j \in 1..Len(s)
      BY <1>1, <2>1
    <3>2. s[b + j] = u[j]
      BY <1>3 DEF HasFrom
    <3> QED BY <1>1, <3>1, <3>2 DEF r
  <2> QED BY <1>1, <2>1, <2>2 DEF HasFrom, r
<1> QED BY <1>1, <1>2, <1>3 DEF r

(* What is in the one sequence is what is in one of them.                  *)
LEMMA FlattenHas ==
    ASSUME NEW n \in Nat, NEW V, NEW seqs \in [1..n -> Seq(V)]
    PROVE  /\ FlattenSeq(seqs) \in Seq(V)
           /\ \A v : Among(v, FlattenSeq(seqs)) <=> \E k \in 1..n : Among(v, seqs[k])
<1>1. CASE n = 0
  <2>1. Len(seqs) = 0 /\ seqs \in Seq(V)
    BY <1>1
  <2>2. FlattenSeq(seqs) = seqs
    BY <2>1 DEF FlattenSeq
  <2> QED BY <1>1, <2>1, <2>2 DEF Among
<1>2. CASE n # 0
  <2>1. n \in Nat \ {0}
    BY <1>2
  <2>2. PICK flat : Flattens(flat, n, V, seqs)
    BY <2>1, FlattenRuns
  <2>3. /\ flat \in [0..n -> Seq(V)] /\ flat[0] = <<>> /\ flat[n] = FlattenSeq(seqs)
        /\ \A k \in 1..n : flat[k] = flat[k - 1] \o seqs[k]
    BY <2>2 DEF Flattens
  <2> DEFINE P(m) == \A v : Among(v, flat[m]) <=> \E k \in 1..m : Among(v, seqs[k])
             S == {m \in 0..n : P(m)}
  <2>4. P(0)
    BY <2>3 DEF Among
  <2>5. ASSUME NEW m \in 1..n, P(m - 1) PROVE P(m)
    <3>1. m - 1 \in 0..n
      OBVIOUS
    <3>2. flat[m - 1] \in Seq(V) /\ seqs[m] \in Seq(V) /\ flat[m] = flat[m - 1] \o seqs[m]
      BY <2>3, <3>1
    <3>3. \A v : Among(v, flat[m]) <=> Among(v, flat[m - 1]) \/ Among(v, seqs[m])
      BY <3>2, JoinedHas
    <3>4. \A k : k \in 1..m <=> k \in 1..(m - 1) \/ k = m
      BY LastOrBefore, m \in Nat \ {0}
    <3> QED BY <2>5, <3>3, <3>4
  <2> HIDE DEF P
  <2>6. 0 \in S /\ \A m \in 1..n : m - 1 \in S => m \in S
    BY <2>4, <2>5
  <2> HIDE DEF S
  <2>7. \A m \in 0..n : m \in S
    BY <2>6, UpTo, Zenon
  <2>8. P(n)
    BY <2>7 DEF S
  <2> QED BY <2>3, <2>8 DEF P
<1> QED BY <1>1, <1>2

(* Where each of them begins, when start counts what comes before.         *)
LEMMA FlattenPlaces ==
    ASSUME NEW n \in Nat \ {0}, NEW V, NEW seqs \in [1..n -> Seq(V)],
           NEW start \in [0..n -> Nat], start[0] = 0,
           \A k \in 1..n : start[k] = start[k - 1] + Len(seqs[k])
    PROVE  /\ FlattenSeq(seqs) \in Seq(V) /\ Len(FlattenSeq(seqs)) = start[n]
           /\ \A k \in 1..n : HasFrom(FlattenSeq(seqs), start[k - 1], seqs[k])
<1>1. PICK flat : Flattens(flat, n, V, seqs)
  BY FlattenRuns
<1>2. /\ flat \in [0..n -> Seq(V)] /\ flat[0] = <<>> /\ flat[n] = FlattenSeq(seqs)
      /\ \A k \in 1..n : flat[k] = flat[k - 1] \o seqs[k]
  BY <1>1 DEF Flattens
<1> DEFINE P(m) == /\ Len(flat[m]) = start[m]
                   /\ \A k \in 1..m : HasFrom(flat[m], start[k - 1], seqs[k])
           S == {m \in 0..n : P(m)}
<1>3. P(0)
  BY <1>2
<1>4. ASSUME NEW m \in 1..n, P(m - 1) PROVE P(m)
  <2>1. m - 1 \in 0..n /\ m \in 0..n
    OBVIOUS
  <2>2. flat[m - 1] \in Seq(V) /\ seqs[m] \in Seq(V) /\ flat[m] = flat[m - 1] \o seqs[m]
    BY <1>2, <2>1
  <2>3. Len(flat[m - 1]) = start[m - 1] /\ start[m] = start[m - 1] + Len(seqs[m])
    BY <1>4
  <2>4. Len(flat[m]) = Len(flat[m - 1]) + Len(seqs[m]) /\ HasFrom(flat[m], Len(flat[m - 1]), seqs[m])
    BY <2>2, JoinedFrom
  <2>5. ASSUME NEW k \in 1..(m - 1) PROVE HasFrom(flat[m], start[k - 1], seqs[k])
    <3>1. k - 1 \in 0..n /\ k \in 1..n
      OBVIOUS
    <3>2. start[k - 1] \in Nat /\ seqs[k] \in Seq(V) /\ HasFrom(flat[m - 1], start[k - 1], seqs[k])
      BY <1>4, <3>1
    <3>3. HasFrom(flat[m - 1] \o seqs[m], start[k - 1], seqs[k])
      BY <2>2, <3>2, JoinedFrom, Zenon
    <3> QED BY <2>2, <3>3, Zenon
  <2>6. \A k : k \in 1..m <=> k \in 1..(m - 1) \/ k = m
    BY LastOrBefore, m \in Nat \ {0}
  <2> QED BY <2>3, <2>4, <2>5, <2>6
<1> HIDE DEF P
<1>5. 0 \in S /\ \A m \in 1..n : m - 1 \in S => m \in S
  BY <1>3, <1>4
<1> HIDE DEF S
<1>6. \A m \in 0..n : m \in S
  BY <1>5, UpTo, n \in Nat, Zenon
<1>7. P(n)
  BY <1>6 DEF S
<1> QED BY <1>2, <1>7 DEF P

-----------------------------------------------------------------------------
(* A text in blocks of 64 as SHA-256 pads it: what is in each block is in  *)
(* its place in the text followed by a mark, zeros and its length.         *)
Filled(f, n, v) == f \o [i \in 1 .. n - Len(f) |-> v]

(* t is s and one more.                                                     *)
Longer(t, s, v) ==
    /\ Len(s) \in Nat /\ Len(t) = Len(s) + 1 /\ t[Len(s) + 1] = v
    /\ \A j \in 1..Len(s) : t[j] = s[j]

LEMMA AppendIsLonger ==
    ASSUME NEW V, NEW s \in Seq(V), NEW v \in V
    PROVE  \E t \in Seq(V) : t = Append(s, v) /\ Longer(t, s, v)
<1>1. PICK t : t = Append(s, v)
  OBVIOUS
<1>2. t \in Seq(V)
  BY <1>1
<1>3. Longer(t, s, v)
  BY <1>1 DEF Longer
<1> QED BY <1>1, <1>2, <1>3

Block(V) == Seq(V)

(* The 64 bytes that follow from; of a text, each byte is its place.        *)
OwnBlock(block, from) == Len(block) = 64 /\ \A i \in 1..64 : block[i] = from + i

(* h is g, with v up to a length of n.                                      *)
Fills(h, g, n, v) ==
    /\ Len(h) = n /\ \A i \in 1..Len(g) : h[i] = g[i]
    /\ \A i \in (Len(g) + 1)..n : h[i] = v

LEMMA FilledIs ==
    ASSUME NEW V, NEW g \in Seq(V), NEW n \in Nat, Len(g) <= n, NEW v \in V
    PROVE  \E h \in Seq(V) : h = Filled(g, n, v) /\ Fills(h, g, n, v)
<1> DEFINE t == [i \in 1 .. n - Len(g) |-> v]
<1>1. PICK m \in Nat : m = Len(g) /\ n - m \in Nat
  OBVIOUS
<1>2. t \in Seq(V) /\ Len(t) = n - m /\ \A i \in 1..(n - m) : t[i] = v
  BY <1>1
<1>3. Filled(g, n, v) = g \o t
  BY DEF Filled
<1> HIDE DEF t
<1>4. PICK h : h = g \o t
  OBVIOUS
<1>5. h \in Seq(V) /\ Len(h) = n /\ HasFrom(h, m, t) /\ HasFrom(h, 0, g)
  <2>1. h \in Seq(V) /\ Len(h) = m + (n - m) /\ HasFrom(h, m, t)
    BY <1>1, <1>2, <1>4, JoinedFrom
  <2>2. HasFrom(g, 0, g)
    BY DEF HasFrom
  <2>3. HasFrom(h, 0, g)
    BY <1>2, <1>4, <2>2, JoinedFrom
  <2> QED BY <1>1, <2>1, <2>3
<1>6. \A i \in 1..m : h[i] = g[i]
  BY <1>1, <1>5 DEF HasFrom
<1>7. \A i \in (m + 1)..n : h[i] = v
  <2> TAKE i \in (m + 1)..n
  <2>1. i - m \in 1..(n - m) /\ m + (i - m) = i
    BY <1>1
  <2>2. h[m + (i - m)] = t[i - m]
    BY <1>2, <1>5, <2>1 DEF HasFrom
  <2> QED BY <1>2, <2>1, <2>2
<1> QED BY <1>1, <1>3, <1>4, <1>5, <1>6, <1>7 DEF Fills

Ends(h, z, bytes) ==
    Len(h) = 64 /\ (\A i \in 1..56 : h[i] = z[i]) /\ \A j \in 1..8 : h[56 + j] = bytes[j]

(* What the standard asks for, place by place.                              *)
Padded(p, n, k, mark, bytes) ==
    /\ Len(p) = n + 1 + k + 8
    /\ \A i \in 1..n : p[i] = i
    /\ p[n + 1] = mark
    /\ \A i \in (n + 2)..(n + 1 + k) : p[i] = 0
    /\ \A j \in 1..8 : p[n + 1 + k + j] = bytes[j]

Counts(f, rest, from) == Len(f) = rest /\ \A i \in 1..rest : f[i] = from + i
Places(h, p, from) == Len(h) = 64 /\ \A i \in 1..64 : h[i] = p[from + i]

LEMMA OwnBlockIsInPlace ==
    ASSUME NEW n \in Nat, NEW k, NEW p, NEW mark, NEW bytes, Padded(p, n, k, mark, bytes),
           NEW from \in Nat, from + 64 <= n, NEW h, OwnBlock(h, from)
    PROVE  Places(h, p, from)
<1>1. \A i \in 1..64 : from + i \in 1..n
  OBVIOUS
<1> QED BY <1>1 DEF Padded, OwnBlock, Places

LEMMA LastBlockIsInPlace ==
    ASSUME NEW full \in Nat, NEW rest \in 0..55, NEW n, n = 64 * full + rest,
           NEW k \in Nat, k = 55 - rest,
           NEW p, NEW mark, NEW bytes, Padded(p, n, k, mark, bytes),
           NEW f, Counts(f, rest, 64 * full),
           NEW g, Longer(g, f, mark), NEW z, Fills(z, g, 56, 0), NEW h, Ends(h, z, bytes)
    PROVE  Places(h, p, 64 * full)
<1>1. /\ Len(g) = rest + 1 /\ g[rest + 1] = mark
      /\ \A i \in 1..rest : g[i] = 64 * full + i
  BY DEF Longer, Counts
<1>2. /\ \A i \in 1..rest : z[i] = 64 * full + i
      /\ z[rest + 1] = mark
      /\ \A i \in (rest + 2)..56 : z[i] = 0
  <2>1. (\A i \in 1..Len(g) : z[i] = g[i]) /\ \A i \in (Len(g) + 1)..56 : z[i] = 0
    BY Zenon DEF Fills
  <2>2. /\ \A i \in 1..rest : i \in 1..Len(g)
        /\ rest + 1 \in 1..Len(g)
        /\ \A i \in (rest + 2)..56 : i \in (Len(g) + 1)..56
    BY <1>1
  <2> QED BY <1>1, <2>1, <2>2, Zenon
<1>3. (\A i \in 1..56 : h[i] = z[i]) /\ \A j \in 1..8 : h[56 + j] = bytes[j]
  BY Zenon DEF Ends
<1>4. ASSUME NEW i \in 1..64 PROVE h[i] = p[64 * full + i]
  <2>1. PICK q : q = 64 * full + i
    OBVIOUS
  <2>2. /\ q \in 1..n => p[q] = q
        /\ q = n + 1 => p[q] = mark
        /\ q \in (n + 2)..(n + 1 + k) => p[q] = 0
        /\ \A j \in 1..8 : q = n + 1 + k + j => p[q] = bytes[j]
    BY Zenon DEF Padded
  <2>3. CASE i \in 1..rest
    <3>1. i \in 1..56 /\ q \in 1..n
      BY <2>1, <2>3
    <3>2. h[i] = q
      BY <1>2, <1>3, <2>1, <2>3, <3>1, Zenon
    <3>3. p[q] = q
      BY <2>2, <3>1, Zenon
    <3> QED BY <2>1, <3>2, <3>3, Zenon
  <2>4. CASE i = rest + 1
    <3>1. i \in 1..56 /\ q = n + 1
      BY <2>1, <2>4
    <3>2. h[i] = mark
      BY <1>2, <1>3, <2>1, <2>4, <3>1, Zenon
    <3>3. p[q] = mark
      BY <2>2, <3>1, Zenon
    <3> QED BY <2>1, <3>2, <3>3, Zenon
  <2>5. CASE i \in (rest + 2)..56
    <3>1. i \in 1..56 /\ q \in (n + 2)..(n + 1 + k)
      BY <2>1, <2>5
    <3>2. h[i] = 0
      BY <1>2, <1>3, <2>1, <2>5, <3>1, Zenon
    <3>3. p[q] = 0
      BY <2>2, <3>1, Zenon
    <3> QED BY <2>1, <3>2, <3>3, Zenon
  <2>6. CASE i \in 57..64
    <3>1. i - 56 \in 1..8 /\ i = 56 + (i - 56) /\ q = n + 1 + k + (i - 56)
      BY <2>1, <2>6
    <3>2. PICK j : j = i - 56
      OBVIOUS
    <3>3. j \in 1..8 /\ i = 56 + j /\ q = n + 1 + k + j
      BY <3>1, <3>2, Zenon
    <3>4. h[i] = bytes[j]
      BY <1>3, <3>3, Zenon
    <3>5. p[q] = bytes[j]
      BY <2>2, <3>3, Zenon
    <3> QED BY <2>1, <3>4, <3>5, Zenon
  <2> QED BY <2>3, <2>4, <2>5, <2>6
<1> QED BY <1>4, Zenon DEF Places, Ends

LEMMA BlockBeforeIsInPlace ==
    ASSUME NEW full \in Nat, NEW rest \in 56..63, NEW n, n = 64 * full + rest,
           NEW k \in Nat, k = 119 - rest,
           NEW p, NEW mark, NEW bytes, Padded(p, n, k, mark, bytes),
           NEW f, Counts(f, rest, 64 * full),
           NEW g, Longer(g, f, mark), NEW h, Fills(h, g, 64, 0)
    PROVE  Places(h, p, 64 * full)
<1>1. /\ Len(g) = rest + 1 /\ g[rest + 1] = mark
      /\ \A i \in 1..rest : g[i] = 64 * full + i
  BY DEF Longer, Counts
<1>2. /\ \A i \in 1..rest : h[i] = 64 * full + i
      /\ h[rest + 1] = mark
      /\ \A i \in (rest + 2)..64 : h[i] = 0
  <2>1. (\A i \in 1..Len(g) : h[i] = g[i]) /\ \A i \in (Len(g) + 1)..64 : h[i] = 0
    BY Zenon DEF Fills
  <2>2. /\ \A i \in 1..rest : i \in 1..Len(g)
        /\ rest + 1 \in 1..Len(g)
        /\ \A i \in (rest + 2)..64 : i \in (Len(g) + 1)..64
    BY <1>1
  <2> QED BY <1>1, <2>1, <2>2, Zenon
<1>3. ASSUME NEW i \in 1..64 PROVE h[i] = p[64 * full + i]
  <2>1. PICK q : q = 64 * full + i
    OBVIOUS
  <2>2. /\ q \in 1..n => p[q] = q
        /\ q = n + 1 => p[q] = mark
        /\ q \in (n + 2)..(n + 1 + k) => p[q] = 0
    BY Zenon DEF Padded
  <2>3. CASE i \in 1..rest
    <3>1. q \in 1..n
      BY <2>1, <2>3
    <3>2. h[i] = q
      BY <1>2, <2>1, <2>3, <3>1, Zenon
    <3>3. p[q] = q
      BY <2>2, <3>1, Zenon
    <3> QED BY <2>1, <3>2, <3>3, Zenon
  <2>4. CASE i = rest + 1
    <3>1. q = n + 1
      BY <2>1, <2>4
    <3>2. h[i] = mark
      BY <1>2, <2>1, <2>4, <3>1, Zenon
    <3>3. p[q] = mark
      BY <2>2, <3>1, Zenon
    <3> QED BY <2>1, <3>2, <3>3, Zenon
  <2>5. CASE i \in (rest + 2)..64
    <3>1. q \in (n + 2)..(n + 1 + k)
      BY <2>1, <2>5
    <3>2. h[i] = 0
      BY <1>2, <2>1, <2>5, <3>1, Zenon
    <3>3. p[q] = 0
      BY <2>2, <3>1, Zenon
    <3> QED BY <2>1, <3>2, <3>3, Zenon
  <2> QED BY <2>3, <2>4, <2>5
<1> QED BY <1>3, Zenon DEF Places, Fills

AllZeros(h, bytes) ==
    Len(h) = 64 /\ (\A i \in 1..56 : h[i] = 0) /\ \A j \in 1..8 : h[56 + j] = bytes[j]

LEMMA EmptyEnds ==
    ASSUME NEW bytes, NEW g, Len(g) = 0, NEW z, Fills(z, g, 56, 0), NEW h, Ends(h, z, bytes)
    PROVE  AllZeros(h, bytes)
<1>1. \A i \in 1..56 : h[i] = 0
  <2>1. \A i \in (Len(g) + 1)..56 : z[i] = 0
    BY Zenon DEF Fills
  <2>2. Len(g) + 1 = 1
    OBVIOUS
  <2>3. \A i \in 1..56 : h[i] = z[i]
    BY Zenon DEF Ends
  <2> QED BY <2>1, <2>2, <2>3, Zenon
<1> QED BY <1>1, Zenon DEF AllZeros, Ends

LEMMA ExtraBlockIsInPlace ==
    ASSUME NEW full \in Nat, NEW rest \in 56..63, NEW n, n = 64 * full + rest,
           NEW k \in Nat, k = 119 - rest,
           NEW p, NEW mark, NEW bytes, Padded(p, n, k, mark, bytes),
           NEW h, AllZeros(h, bytes),
           NEW from, from = 64 * (full + 1)
    PROVE  Places(h, p, from)
<1>1. \A i \in 1..56 : h[i] = 0
  BY Zenon DEF AllZeros
<1>2. \A j \in 1..8 : h[56 + j] = bytes[j]
  BY Zenon DEF AllZeros
<1>3. ASSUME NEW i \in 1..64 PROVE h[i] = p[from + i]
  <2>1. PICK q : q = from + i
    OBVIOUS
  <2>2. /\ q \in (n + 2)..(n + 1 + k) => p[q] = 0
        /\ \A j \in 1..8 : q = n + 1 + k + j => p[q] = bytes[j]
    <3>1. q \in (n + 2)..(n + 1 + k) => p[q] = 0
      BY Zenon DEF Padded
    <3>2. \A j \in 1..8 : p[n + 1 + k + j] = bytes[j]
      BY Zenon DEF Padded
    <3>3. \A j \in 1..8 : q = n + 1 + k + j => p[q] = bytes[j]
      BY <3>2, Zenon
    <3> QED BY <3>1, <3>3
  <2>3. CASE i \in 1..56
    <3>1. q \in (n + 2)..(n + 1 + k)
      BY <2>1, <2>3
    <3> QED BY <1>1, <2>1, <2>2, <2>3, <3>1, Zenon
  <2>4. CASE i \in 57..64
    <3>1. i - 56 \in 1..8 /\ i = 56 + (i - 56) /\ q = n + 1 + k + (i - 56)
      BY <2>1, <2>4
    <3>2. PICK j : j = i - 56
      OBVIOUS
    <3>3. j \in 1..8 /\ i = 56 + j /\ q = n + 1 + k + j
      BY <3>1, <3>2, Zenon
    <3>4. h[i] = bytes[j]
      BY <1>2, <3>3, Zenon
    <3>5. p[q] = bytes[j]
      BY <2>2, <3>3, Zenon
    <3> QED BY <2>1, <3>4, <3>5, Zenon
  <2> QED BY <2>3, <2>4
<1> QED BY <1>3, Zenon DEF Places, AllZeros

LEMMA BlocksAreFlat ==
    ASSUME NEW V, NEW m \in Nat \ {0}, NEW e \in Seq(Block(V)), Len(e) = m,
           NEW p \in Seq(V), Len(p) = 64 * m, \A k \in 1..m : Places(e[k], p, 64 * (k - 1))
    PROVE  FlattenSeq(e) = p
<1> DEFINE start == [k \in 0..m |-> 64 * k]
<1>1. e \in [1..m -> Seq(V)]
  <2>1. e \in [1..m -> Block(V)]
    OBVIOUS
  <2> QED BY <2>1 DEF Block
<1>2. start \in [0..m -> Nat] /\ start[0] = 0 /\ start[m] = 64 * m
  OBVIOUS
<1>3. \A k \in 1..m : start[k - 1] = 64 * (k - 1) /\ start[k] = 64 * (k - 1) + 64
  OBVIOUS
<1>4. \A k \in 1..m : Len(e[k]) = 64
  BY DEF Places
<1>5. \A k \in 1..m : start[k] = start[k - 1] + Len(e[k])
  BY <1>3, <1>4, Zenon
<1> HIDE DEF start
<1>6. PICK flat : flat = FlattenSeq(e)
  OBVIOUS
<1>7. flat \in Seq(V) /\ Len(flat) = 64 * m /\ \A k \in 1..m : HasFrom(flat, start[k - 1], e[k])
  <2>1. /\ FlattenSeq(e) \in Seq(V) /\ Len(FlattenSeq(e)) = start[m]
        /\ \A k \in 1..m : HasFrom(FlattenSeq(e), start[k - 1], e[k])
    BY <1>1, <1>2, <1>5, FlattenPlaces
  <2> QED BY <1>2, <1>6, <2>1, Zenon
<1>8. ASSUME NEW i \in 1..(64 * m) PROVE flat[i] = p[i]
  <2>1. PICK k \in 1..m, j \in 1..64 : i = 64 * (k - 1) + j
    <3>1. ((i - 1) \div 64) + 1 \in 1..m /\ ((i - 1) % 64) + 1 \in 1..64
          /\ i = 64 * ((((i - 1) \div 64) + 1) - 1) + (((i - 1) % 64) + 1)
      OBVIOUS
    <3> QED BY <3>1
  <2>2. flat[64 * (k - 1) + j] = e[k][j]
    <3>1. HasFrom(flat, 64 * (k - 1), e[k]) /\ j \in 1..Len(e[k])
      BY <1>3, <1>4, <1>7, Zenon
    <3> QED BY <3>1, Zenon DEF HasFrom
  <2>3. e[k][j] = p[64 * (k - 1) + j]
    BY DEF Places
  <2> QED BY <2>1, <2>2, <2>3
<1>9. Alike(flat, p)
  BY <1>7, <1>8 DEF Alike
<1> QED BY <1>6, <1>7, <1>9, AlikeIsSame

LEMMA ZerosAre ==
    ASSUME NEW full \in Nat, NEW rest \in 0..63, NEW k \in 0..63
    PROVE  (64 * full + rest + 1 + k) % 64 = 56 <=>
               k = IF rest <= 55 THEN 55 - rest ELSE 119 - rest
<1>1. (64 * full + rest + 1 + k) % 64 = (rest + 1 + k) % 64
  OBVIOUS
<1>2. rest + 1 + k \in 0..127
  OBVIOUS
<1>3. (rest + 1 + k) % 64 = 56 <=> rest + 1 + k \in {56, 120}
  BY <1>2
<1> QED BY <1>1, <1>3

LEMMA ZerosGiven ==
    ASSUME NEW full \in Nat, NEW rest \in 0..63, NEW k \in 0..63,
           NEW m, m = 64 * full + rest + 1 + k, m % 64 = 56
    PROVE  k = IF rest <= 55 THEN 55 - rest ELSE 119 - rest
<1>1. (64 * full + rest + 1 + k) % 64 = 56
  OBVIOUS
<1> QED BY <1>1, ZerosAre

Joined(V, r, s, t) ==
    /\ r \in Seq(V) /\ Len(r) = Len(s) + Len(t) /\ HasFrom(r, Len(s), t) /\ HasFrom(r, 0, s)
    /\ \A u \in Seq(V), m \in Nat : HasFrom(s, m, u) => HasFrom(r, m, u)

LEMMA JoinedIs == ASSUME NEW V, NEW s \in Seq(V), NEW t \in Seq(V) PROVE Joined(V, s \o t, s, t)
<1>1. /\ s \o t \in Seq(V) /\ Len(s \o t) = Len(s) + Len(t) /\ HasFrom(s \o t, Len(s), t)
      /\ \A u \in Seq(V), m \in Nat : HasFrom(s, m, u) => HasFrom(s \o t, m, u)
  BY JoinedFrom
<1>2. HasFrom(s, 0, s)
  BY DEF HasFrom
<1>3. 0 \in Nat
  OBVIOUS
<1> QED BY <1>1, <1>2, <1>3, Zenon DEF Joined

Counting(data, n) == data = [i \in 1..n |-> i]
Zeros(zeros, k) == zeros = [i \in 1..k |-> 0]
PadsTo(V, n, k, data, mark, zeros, bytes) ==
    \E p \in Seq(V) : p = data \o <<mark>> \o zeros \o bytes /\ Padded(p, n, k, mark, bytes)

LEMMA PaddedIs ==
    ASSUME NEW V, NEW n \in Nat, NEW k \in Nat, 0 \in V, NEW mark \in V, 1..n \subseteq V,
           NEW bytes \in Seq(V), Len(bytes) = 8,
           NEW data, Counting(data, n), NEW zeros, Zeros(zeros, k)
    PROVE  PadsTo(V, n, k, data, mark, zeros, bytes)
<1>1. data = [i \in 1..n |-> i] /\ zeros = [i \in 1..k |-> 0]
  BY Zenon DEF Counting, Zeros
<1>2. data \in Seq(V) /\ Len(data) = n /\ zeros \in Seq(V) /\ Len(zeros) = k
  BY <1>1
<1>3. PICK one : one = <<mark>>
  OBVIOUS
<1>4. one \in Seq(V) /\ Len(one) = 1 /\ one[1] = mark
  BY <1>3
<1>5. PICK a : a = data \o one
  OBVIOUS
<1>6. a \in Seq(V) /\ Len(a) = n + 1 /\ HasFrom(a, 0, data) /\ HasFrom(a, n, one)
  <2>1. a \in Seq(V) /\ Len(a) = n + Len(one) /\ HasFrom(a, 0, data) /\ HasFrom(a, n, one)
    <3>1. Joined(V, data \o one, data, one)
      BY <1>2, <1>4, JoinedIs
    <3> QED BY <1>2, <1>5, <3>1, Zenon DEF Joined
  <2> QED BY <1>4, <2>1, Zenon
<1>7. PICK c : c = a \o zeros
  OBVIOUS
<1>8. /\ c \in Seq(V) /\ Len(c) = n + 1 + k /\ HasFrom(c, n + 1, zeros)
      /\ HasFrom(c, 0, data) /\ HasFrom(c, n, one)
  <2>1. PICK na : na = n + 1
    OBVIOUS
  <2>2. /\ c \in Seq(V) /\ Len(c) = na + Len(zeros) /\ HasFrom(c, na, zeros)
        /\ \A u \in Seq(V), m \in Nat : HasFrom(a, m, u) => HasFrom(c, m, u)
    <3>1. Joined(V, a \o zeros, a, zeros)
      BY <1>2, <1>6, JoinedIs
    <3> QED BY <1>6, <1>7, <2>1, <3>1, Zenon DEF Joined
  <2> QED BY <1>2, <1>4, <1>6, <2>1, <2>2, 0 \in Nat, Zenon
<1>9. PICK p : p = c \o bytes
  OBVIOUS
<1>10. /\ p \in Seq(V) /\ Len(p) = n + 1 + k + 8 /\ HasFrom(p, n + 1 + k, bytes)
      /\ HasFrom(p, 0, data) /\ HasFrom(p, n, one) /\ HasFrom(p, n + 1, zeros)
  <2>1. PICK nc : nc = n + 1 + k
    OBVIOUS
  <2>2. /\ p \in Seq(V) /\ Len(p) = nc + Len(bytes) /\ HasFrom(p, nc, bytes)
        /\ \A u \in Seq(V), m \in Nat : HasFrom(c, m, u) => HasFrom(p, m, u)
    <3>1. Joined(V, c \o bytes, c, bytes)
      BY <1>8, JoinedIs
    <3> QED BY <1>8, <1>9, <2>1, <3>1, Zenon DEF Joined
  <2>3. 0 \in Nat /\ n + 1 \in Nat
    OBVIOUS
  <2> QED BY <1>2, <1>4, <1>8, <2>1, <2>2, <2>3, Zenon
<1>11. \A i \in 1..n : p[i] = i
  <2>1. \A i \in 1..n : p[0 + i] = data[i]
    BY <1>2, <1>10, Zenon DEF HasFrom
  <2>2. \A i \in 1..n : 0 + i = i /\ data[i] = i
    BY <1>1
  <2> QED BY <2>1, <2>2, Zenon
<1>12. p[n + 1] = mark
  <2>1. 1 \in 1..1
    OBVIOUS
  <2> QED BY <1>4, <1>10, <2>1, Zenon DEF HasFrom
<1>13. ASSUME NEW i \in (n + 2)..(n + 1 + k) PROVE p[i] = 0
  <2>1. PICK j : j = i - (n + 1)
    OBVIOUS
  <2>2. j \in 1..k /\ (n + 1) + j = i
    BY <2>1
  <2>3. zeros[j] = 0
    BY <1>1, <2>2
  <2>4. p[(n + 1) + j] = zeros[j]
    BY <1>2, <1>10, <2>2, Zenon DEF HasFrom
  <2> QED BY <2>2, <2>3, <2>4, Zenon
<1>14. \A j \in 1..8 : p[n + 1 + k + j] = bytes[j]
  BY <1>10, Zenon DEF HasFrom
<1>15. Padded(p, n, k, mark, bytes)
  BY <1>10, <1>11, <1>12, <1>13, <1>14, Zenon DEF Padded
<1>16. p = data \o <<mark>> \o zeros \o bytes
  BY <1>3, <1>5, <1>7, <1>9, Zenon
<1> QED BY <1>10, <1>15, <1>16 DEF PadsTo

PlacesUpTo(b, full, p) == Len(b) = full /\ \A k \in 1..full : Places(b[k], p, 64 * (k - 1))

LEMMA OneMoreBlock ==
    ASSUME NEW b, NEW full \in Nat, NEW p, PlacesUpTo(b, full, p),
           NEW h, NEW from, from = 64 * full, Places(h, p, from), NEW e, Longer(e, b, h)
    PROVE  PlacesUpTo(e, full + 1, p)
<1>1. /\ Len(e) = full + 1 /\ e[full + 1] = h /\ \A k \in 1..full : e[k] = b[k]
      /\ \A k \in 1..full : Places(b[k], p, 64 * (k - 1))
  BY Zenon DEF Longer, PlacesUpTo
<1>2. \A k \in 1..(full + 1) : k \in 1..full \/ k = full + 1
  OBVIOUS
<1>3. (full + 1) - 1 = full
  OBVIOUS
<1>4. \A k \in 1..(full + 1) : Places(e[k], p, 64 * (k - 1))
  BY <1>1, <1>2, <1>3, Zenon
<1> QED BY <1>1, <1>4, Zenon DEF PlacesUpTo

=============================================================================
