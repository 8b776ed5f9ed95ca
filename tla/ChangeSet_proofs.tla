-------------------------- MODULE ChangeSet_proofs --------------------------
(***************************************************************************)
(* What the service reads of git's output, for any pull request: every     *)
(* change of the pull request is listed once, with its lines counted, and  *)
(* the reader of the patch keeps of each section the lines its hunks add,  *)
(* whatever its other lines look like.                                     *)
(*                                                                         *)
(* The definitions recurse over a sequence by a function of 0..n; the      *)
(* first lemmas say that such a function exists and what it keeps.         *)
(***************************************************************************)
EXTENDS ChangeSet, SequenceTheorems, WellFoundedInduction, TLAPS

LEMMA UpFromZero ==
  ASSUME NEW S, 0 \in S, \A n \in Nat : n \in S => n + 1 \in S
  PROVE  Nat \subseteq S
  <1> DEFINE rest == Nat \ S
  <1> SUFFICES ASSUME rest # {} PROVE FALSE
    OBVIOUS
  <1>1. PICK n \in rest : \A m \in rest : <<m, n>> \notin OpToRel(<, Nat)
    <2>1. rest \subseteq Nat
      OBVIOUS
    <2> HIDE DEF rest
    <2> QED BY <2>1, NatLessThanWellFounded, WFMin
  <1>2. n # 0 /\ n - 1 \in Nat
    OBVIOUS
  <1>3. \A m \in rest : ~(m < n)
    BY <1>1 DEF OpToRel
  <1>4. n - 1 \in S
    BY <1>2, <1>3
  <1> QED BY <1>2, <1>4

LEMMA UpTo ==
  ASSUME NEW N \in Nat, NEW S, 0 \in S, \A n \in 1..N : n - 1 \in S => n \in S
  PROVE  0..N \subseteq S
  <1> DEFINE T == {n \in Nat : n <= N => n \in S}
  <1>1. 0 \in T
    OBVIOUS
  <1>2. ASSUME NEW n \in Nat, n \in T PROVE n + 1 \in T
    <2>1. CASE n + 1 <= N
      <3>1. n + 1 \in 1..N /\ (n + 1) - 1 = n /\ n \in S
        BY <1>2, <2>1
      <3> QED BY <3>1
    <2>2. CASE ~(n + 1 <= N)
      BY <2>2
    <2> QED BY <2>1, <2>2
  <1>3. Nat \subseteq T
    <2> HIDE DEF T
    <2> QED BY <1>1, <1>2, UpFromZero
  <1> QED BY <1>3

\* A function that is given step by step, each step from the one before.
InSteps(N, V, v, h) ==
    \E f \in [0..N -> V] : f[0] = v /\ \A n \in 1..N : f[n] = h[<<n, f[n - 1]>>]

LEMMA StepsExist ==
  ASSUME NEW N \in Nat, NEW V, NEW v \in V, NEW h \in [(1..N) \X V -> V]
  PROVE  InSteps(N, V, v, h)
  <1> DEFINE Given(f, k) == f[0] = v /\ \A n \in 1..k : f[n] = h[<<n, f[n - 1]>>]
             S == {k \in 0..N : \E f \in [0..k -> V] : Given(f, k)}
  <1>1. 0 \in S
    <2>1. [n \in 0..0 |-> v] \in [0..0 -> V] /\ Given([n \in 0..0 |-> v], 0)
      OBVIOUS
    <2>2. 0 \in 0..N
      OBVIOUS
    <2> HIDE DEF Given
    <2> QED BY <2>1, <2>2
  <1>2. ASSUME NEW k \in 1..N, k - 1 \in S PROVE k \in S
    <2>1. PICK f \in [0..(k - 1) -> V] : Given(f, k - 1)
      BY <1>2
    <2> DEFINE g == [n \in 0..k |-> IF n < k THEN f[n] ELSE h[<<k, f[k - 1]>>]]
    <2>2. f[k - 1] \in V
      BY <2>1
    <2>3. h[<<k, f[k - 1]>>] \in V
      BY <2>2
    <2>4. g \in [0..k -> V]
      BY <2>3
    <2>5. \A n \in 0..(k - 1) : g[n] = f[n]
      OBVIOUS
    <2>6. g[k] = h[<<k, f[k - 1]>>]
      OBVIOUS
    <2> HIDE DEF g
    <2>7. g[0] = v
      BY <2>1, <2>5
    <2>8. ASSUME NEW n \in 1..k PROVE g[n] = h[<<n, g[n - 1]>>]
      <3>1. n - 1 \in 0..(k - 1)
        OBVIOUS
      <3>2. g[n - 1] = f[n - 1]
        BY <2>5, <3>1
      <3>3. CASE n = k
        BY <2>6, <3>2, <3>3
      <3>4. CASE n # k
        <4>1. n \in 1..(k - 1) /\ n \in 0..(k - 1)
          BY <3>4
        <4>2. f[n] = h[<<n, f[n - 1]>>]
          BY <2>1, <4>1
        <4> QED BY <2>5, <3>2, <4>1, <4>2
      <3> QED BY <3>3, <3>4
    <2> QED BY <2>4, <2>7, <2>8
  <1>3. 0..N \subseteq S
    <2> HIDE DEF S
    <2> QED BY <1>1, <1>2, UpTo
  <1>4. N \in S
    BY <1>3
  <1> QED BY <1>4 DEF InSteps

\* What each step keeps holds of every step.
LEMMA StepsKeep ==
  ASSUME NEW N \in Nat, NEW V, NEW f, f[0] \in V, \A n \in 1..N : f[n - 1] \in V => f[n] \in V
  PROVE  \A n \in 0..N : f[n] \in V
  <1> DEFINE S == {n \in 0..N : f[n] \in V}
  <1>1. 0 \in S /\ \A n \in 1..N : n - 1 \in S => n \in S
    OBVIOUS
  <1>2. 0..N \subseteq S
    <2> HIDE DEF S
    <2> QED BY <1>1, UpTo
  <1> QED BY <1>2

-----------------------------------------------------------------------------
(* Sums, and sequences put one after another.                              *)

LEMMA SumSteps ==
  ASSUME NEW numbers \in Seq(Int)
  PROVE  \E sum \in [0..Len(numbers) -> Int] :
            /\ sum[0] = 0
            /\ \A n \in 1..Len(numbers) : sum[n] = sum[n - 1] + numbers[n]
            /\ SumOf(numbers) = sum[Len(numbers)]
  <1> DEFINE N == Len(numbers)
             Is(f) == f = [n \in 0..N |-> IF n = 0 THEN 0 ELSE f[n - 1] + numbers[n]]
             h == [p \in (1..N) \X Int |-> p[2] + numbers[p[1]]]
             sum == CHOOSE f : Is(f)
  <1>1. N \in Nat /\ \A n \in 1..N : numbers[n] \in Int
    OBVIOUS
  <1>2. h \in [(1..N) \X Int -> Int] /\ \A n \in 1..N, z \in Int : h[<<n, z>>] = z + numbers[n]
    BY <1>1
  <1>3. PICK f \in [0..N -> Int] : f[0] = 0 /\ \A n \in 1..N : f[n] = h[<<n, f[n - 1]>>]
    <2>1. N \in Nat /\ 0 \in Int
      BY <1>1
    <2> HIDE DEF N, h
    <2>2. InSteps(N, Int, 0, h)
      BY <1>2, <2>1, StepsExist
    <2> QED BY <2>2 DEF InSteps
  <1>4. Is(f)
    <2>1. ASSUME NEW n \in 0..N PROVE f[n] = IF n = 0 THEN 0 ELSE f[n - 1] + numbers[n]
      <3>1. CASE n = 0
        BY <1>3, <3>1
      <3>2. CASE n # 0
        <4>1. n \in 1..N /\ n - 1 \in 0..N
          BY <1>1, <3>2
        <4>2. f[n - 1] \in Int
          BY <4>1
        <4> HIDE DEF h
        <4> QED BY <1>2, <1>3, <3>2, <4>1, <4>2
      <3> QED BY <3>1, <3>2
    <2>2. f = [n \in 0..N |-> f[n]]
      OBVIOUS
    <2> QED BY <2>1, <2>2
  <1>5. Is(sum)
    <2> HIDE DEF Is
    <2> QED BY <1>4
  <1>6. SumOf(numbers) = sum[N]
    BY DEF SumOf
  <1>7. /\ sum = [n \in 0..N |-> IF n = 0 THEN 0 ELSE sum[n - 1] + numbers[n]]
    BY <1>5
  <1> HIDE DEF sum
  <1>8. sum[0] = 0 /\ \A n \in 1..N : sum[n] = sum[n - 1] + numbers[n]
    BY <1>1, <1>7
  <1>9. \A n \in 0..N : sum[n] \in Int
    <2>1. N \in Nat /\ sum[0] \in Int /\ \A n \in 1..N : sum[n - 1] \in Int => sum[n] \in Int
      BY <1>1, <1>8
    <2> HIDE DEF N
    <2> QED BY <2>1, StepsKeep, Zenon
  <1>10. sum \in [0..N -> Int]
    <2>1. sum = [n \in 0..N |-> sum[n]]
      BY <1>7
    <2> QED BY <1>9, <2>1
  <1> QED BY <1>6, <1>8, <1>10

LEMMA SumIsNat ==
  ASSUME NEW numbers \in Seq(Nat)
  PROVE  SumOf(numbers) \in Nat
  <1>1. numbers \in Seq(Int) /\ Len(numbers) \in Nat /\ \A n \in 1..Len(numbers) : numbers[n] \in Nat
    OBVIOUS
  <1>2. PICK sum \in [0..Len(numbers) -> Int] :
            /\ sum[0] = 0
            /\ \A n \in 1..Len(numbers) : sum[n] = sum[n - 1] + numbers[n]
            /\ SumOf(numbers) = sum[Len(numbers)]
    BY <1>1, SumSteps
  <1>3. \A n \in 1..Len(numbers) : sum[n - 1] \in Nat => sum[n] \in Nat
    BY <1>1, <1>2
  <1>4. \A n \in 0..Len(numbers) : sum[n] \in Nat
    <2>1. sum[0] \in Nat /\ Len(numbers) \in Nat
      BY <1>1, <1>2
    <2> QED BY <1>3, <2>1, StepsKeep, Zenon
  <1> QED BY <1>1, <1>2, <1>4

\* The first n parts, put one after another.
AreJoined(joined, parts, N, V) ==
    /\ joined[0] = <<>>
    /\ \A n \in 0..N : joined[n] \in Seq(V)
    /\ \A n \in 1..N : joined[n] = joined[n - 1] \o parts[n]

LEMMA FlattenSteps ==
  ASSUME NEW V, NEW parts \in Seq(Seq(V))
  PROVE  \E joined : AreJoined(joined, parts, Len(parts), V) /\ FlattenSeq(parts) = joined[Len(parts)]
  <1> DEFINE N == Len(parts)
             Is(f) == f = [i \in 1..N |-> IF i = 1 THEN parts[i] ELSE f[i - 1] \o parts[i]]
             h == [p \in (1..N) \X Seq(V) |-> p[2] \o parts[p[1]]]
             flat == CHOOSE f : Is(f)
             joined == [n \in 0..N |-> IF n = 0 THEN <<>> ELSE flat[n]]
  <1>1. N \in Nat /\ \A n \in 1..N : parts[n] \in Seq(V)
    OBVIOUS
  <1>2. h \in [(1..N) \X Seq(V) -> Seq(V)] /\ \A n \in 1..N, s \in Seq(V) : h[<<n, s>>] = s \o parts[n]
    <2>1. \A p \in (1..N) \X Seq(V) : p[2] \o parts[p[1]] \in Seq(V)
      BY <1>1, ConcatProperties
    <2> QED BY <2>1
  <1>3. PICK f \in [0..N -> Seq(V)] : f[0] = <<>> /\ \A n \in 1..N : f[n] = h[<<n, f[n - 1]>>]
    <2>1. N \in Nat /\ <<>> \in Seq(V)
      BY <1>1
    <2> HIDE DEF N, h
    <2>2. InSteps(N, Seq(V), <<>>, h)
      BY <1>2, <2>1, StepsExist
    <2> QED BY <2>2 DEF InSteps
  <1>4. \A n \in 1..N : f[n - 1] \in Seq(V) /\ f[n] = f[n - 1] \o parts[n]
    <2> TAKE n \in 1..N
    <2>1. n - 1 \in 0..N
      BY <1>1
    <2>2. f[n - 1] \in Seq(V)
      BY <2>1
    <2> HIDE DEF h
    <2> QED BY <1>2, <1>3, <2>2
  <1>5. Is([i \in 1..N |-> f[i]])
    <2> DEFINE g == [i \in 1..N |-> f[i]]
    <2>1. ASSUME NEW i \in 1..N PROVE g[i] = IF i = 1 THEN parts[i] ELSE g[i - 1] \o parts[i]
      <3>1. CASE i = 1
        <4>1. f[1] = <<>> \o parts[1] /\ parts[1] \in Seq(V)
          <5>1. 1 \in 1..N /\ 1 - 1 = 0
            BY <3>1
          <5>2. f[1] = f[1 - 1] \o parts[1]
            BY <1>4, <5>1
          <5> QED BY <1>1, <1>3, <5>1, <5>2
        <4> QED BY <3>1, <4>1, ConcatEmptySeq
      <3>2. CASE i # 1
        <4>1. i - 1 \in 1..N
          BY <1>1, <3>2
        <4> QED BY <1>4, <3>2, <4>1
      <3> QED BY <3>1, <3>2
    <2> QED BY <2>1
  <1>6. Is(flat)
    <2> HIDE DEF Is
    <2> QED BY <1>5
  <1>7. flat = [i \in 1..N |-> IF i = 1 THEN parts[i] ELSE flat[i - 1] \o parts[i]]
    BY <1>6
  <1>8. FlattenSeq(parts) = joined[N]
    <2>1. CASE N = 0
      BY <1>1, <2>1 DEF FlattenSeq
    <2>2. CASE N # 0
      BY <1>1, <2>2 DEF FlattenSeq
    <2> QED BY <2>1, <2>2
  <1> HIDE DEF flat
  <1>9. joined[0] = <<>> /\ \A n \in 1..N : joined[n] = joined[n - 1] \o parts[n]
    <2>1. ASSUME NEW n \in 1..N PROVE joined[n] = joined[n - 1] \o parts[n]
      <3>1. CASE n = 1
        <4>1. joined[n] = parts[1] /\ joined[n - 1] = <<>> /\ parts[1] \in Seq(V)
          BY <1>1, <1>7, <3>1
        <4> HIDE DEF joined
        <4> QED BY <3>1, <4>1, ConcatEmptySeq
      <3>2. CASE n # 1
        <4>1. n - 1 \in 1..N /\ n - 1 \in 0..N /\ n \in 0..N /\ n - 1 # 0 /\ n # 0
          BY <1>1, <3>2
        <4> QED BY <1>7, <3>2, <4>1
      <3> QED BY <3>1, <3>2
    <2>2. joined[0] = <<>>
      BY <1>1
    <2> HIDE DEF joined
    <2> QED BY <2>1, <2>2
  <1>10. \A n \in 0..N : joined[n] \in Seq(V)
    <2>1. joined[0] \in Seq(V)
      BY <1>9
    <2>2. \A n \in 1..N : joined[n - 1] \in Seq(V) => joined[n] \in Seq(V)
      <3> HIDE DEF joined
      <3> QED BY <1>1, <1>9, ConcatProperties
    <2> HIDE DEF joined, N
    <2> QED BY <1>1, <2>1, <2>2, StepsKeep
  <1> HIDE DEF joined
  <1> QED BY <1>8, <1>9, <1>10 DEF AreJoined


LEMMA ConcatPlaces ==
  ASSUME NEW V, NEW s \in Seq(V), NEW t \in Seq(V)
  PROVE  /\ s \o t \in Seq(V) /\ Len(s) \in Nat /\ Len(t) \in Nat
         /\ Len(s \o t) = Len(s) + Len(t) /\ Len(s) <= Len(s \o t)
         /\ \A i \in 1..Len(s) : (s \o t)[i] = s[i]
         /\ \A j \in 1..Len(t) : (s \o t)[Len(s) + j] = t[j]
  <1>1. /\ s \o t \in Seq(V) /\ Len(s) \in Nat /\ Len(t) \in Nat
        /\ Len(s \o t) = Len(s) + Len(t)
        /\ \A i \in 1..(Len(s) + Len(t)) : (s \o t)[i] = IF i <= Len(s) THEN s[i] ELSE t[i - Len(s)]
    BY ConcatProperties
  <1>2. ASSUME NEW j \in 1..Len(t) PROVE (s \o t)[Len(s) + j] = t[j]
    <2>1. Len(s) + j \in 1..(Len(s) + Len(t)) /\ ~(Len(s) + j <= Len(s)) /\ (Len(s) + j) - Len(s) = j
      BY <1>1
    <2> QED BY <1>1, <2>1
  <1> QED BY <1>1, <1>2

LEMMA LenOfConcat ==
  ASSUME NEW V, NEW s \in Seq(V), NEW t \in Seq(V)
  PROVE  Len(s \o t) = Len(s) + Len(t)
  BY ConcatPlaces

\* Where each part is in the whole.
PartPlaced(whole, before, upto, part) ==
    /\ Len(upto) <= Len(whole)
    /\ \A j \in 1..Len(part) : whole[Len(before) + j] = part[j]

LEMMA PartIsPlaced ==
  ASSUME NEW V, NEW before \in Seq(V), NEW part \in Seq(V)
  PROVE  PartPlaced(before \o part, before, before \o part, part)
  <1>1. /\ Len(before \o part) = Len(before) + Len(part) /\ Len(before) \in Nat /\ Len(part) \in Nat
        /\ \A j \in 1..Len(part) : (before \o part)[Len(before) + j] = part[j]
    BY ConcatPlaces
  <1>2. Len(before \o part) <= Len(before \o part)
    BY <1>1
  <1> QED BY <1>1, <1>2 DEF PartPlaced

LEMMA PartStaysPlaced ==
  ASSUME NEW V, NEW whole \in Seq(V), NEW before \in Seq(V), NEW part \in Seq(V), NEW more \in Seq(V),
         PartPlaced(whole, before, before \o part, part)
  PROVE  PartPlaced(whole \o more, before, before \o part, part)
  <1>1. /\ Len(before) \in Nat /\ Len(part) \in Nat /\ Len(whole) \in Nat /\ Len(more) \in Nat
        /\ Len(before \o part) = Len(before) + Len(part) /\ Len(whole) <= Len(whole \o more)
        /\ \A i \in 1..Len(whole) : (whole \o more)[i] = whole[i]
        /\ Len(whole \o more) \in Nat
    BY ConcatPlaces
  <1>2. Len(before) + Len(part) <= Len(whole)
        /\ \A j \in 1..Len(part) : whole[Len(before) + j] = part[j]
    BY <1>1 DEF PartPlaced
  <1>3. \A j \in 1..Len(part) : Len(before) + j \in 1..Len(whole)
    BY <1>1, <1>2
  <1>4. \A j \in 1..Len(part) : (whole \o more)[Len(before) + j] = part[j]
    BY <1>1, <1>2, <1>3
  <1> QED BY <1>1, <1>2, <1>4 DEF PartPlaced

LEMMA JoinedPlaces ==
  ASSUME NEW V, NEW N \in Nat, NEW parts, \A n \in 1..N : parts[n] \in Seq(V),
         NEW joined, AreJoined(joined, parts, N, V)
  PROVE  \A n \in 1..N :
            /\ joined[n - 1] \in Seq(V) /\ parts[n] \in Seq(V)
            /\ Len(joined[n]) = Len(joined[n - 1]) + Len(parts[n])
            /\ PartPlaced(joined[N], joined[n - 1], joined[n], parts[n])
  <1> DEFINE Placed(m, n) == PartPlaced(joined[m], joined[n - 1], joined[n], parts[n])
             S == {m \in 0..N : \A n \in 1..m : Placed(m, n)}
  <1>1. N \in Nat
    OBVIOUS
  <1>2. \A n \in 1..N : joined[n - 1] \in Seq(V) /\ joined[n] \in Seq(V) /\ parts[n] \in Seq(V)
    <2> TAKE n \in 1..N
    <2>1. n - 1 \in 0..N /\ n \in 0..N
      OBVIOUS
    <2> QED BY <2>1 DEF AreJoined
  <1>3. \A n \in 1..N : joined[n] = joined[n - 1] \o parts[n]
    BY DEF AreJoined
  <1>4. ASSUME NEW m \in 1..N, m - 1 \in S PROVE m \in S
    <2> SUFFICES ASSUME NEW n \in 1..m PROVE Placed(m, n)
      BY <1>1
    <2>1. n \in 1..N
      BY <1>1
    <2>2. /\ joined[m - 1] \in Seq(V) /\ parts[m] \in Seq(V) /\ joined[m] = joined[m - 1] \o parts[m]
          /\ joined[n - 1] \in Seq(V) /\ parts[n] \in Seq(V) /\ joined[n] = joined[n - 1] \o parts[n]
      BY <1>2, <1>3, <2>1
    <2>3. CASE n = m
      <3>1. PartPlaced(joined[m - 1] \o parts[m], joined[m - 1], joined[m - 1] \o parts[m], parts[m])
        BY <2>2, PartIsPlaced, Zenon
      <3> QED BY <2>2, <2>3, <3>1
    <2>4. CASE n # m
      <3>1. n \in 1..(m - 1)
        BY <2>1, <2>4, <1>1
      <3>2. Placed(m - 1, n)
        BY <1>4, <3>1
      <3>3. PartPlaced(joined[m - 1] \o parts[m], joined[n - 1], joined[n - 1] \o parts[n], parts[n])
        BY <2>2, <3>2, PartStaysPlaced
      <3> QED BY <2>2, <3>3
    <2> QED BY <2>3, <2>4
  <1>5. 0 \in S
    BY <1>1
  <1>6. 0..N \subseteq S
    <2> HIDE DEF S
    <2> QED BY <1>1, <1>4, <1>5, UpTo
  <1>7. \A n \in 1..N : Placed(N, n)
    <2>1. N \in 0..N
      BY <1>1
    <2>2. N \in S
      BY <1>6, <2>1
    <2> HIDE DEF Placed
    <2> QED BY <2>2
  <1>8. \A n \in 1..N : Len(joined[n]) = Len(joined[n - 1]) + Len(parts[n])
    <2> TAKE n \in 1..N
    <2>1. joined[n - 1] \in Seq(V) /\ parts[n] \in Seq(V)
      BY <1>2
    <2>2. Len(joined[n - 1] \o parts[n]) = Len(joined[n - 1]) + Len(parts[n])
      BY <2>1, LenOfConcat, Zenon
    <2> QED BY <1>3, <2>2, Zenon
  <1> QED BY <1>2, <1>7, <1>8

-----------------------------------------------------------------------------
(* The list of files.                                                      *)

LEMMA PullTypes ==
  ASSUME NEW pull, IsPull(pull)
  PROVE  /\ Len(pull) \in Nat /\ DOMAIN pull = 1..Len(pull)
         /\ \A n \in 1..Len(pull) : pull[n] \in ChangeType
  BY DEF IsPull

LEMMA CountsAreNat ==
  ASSUME NEW c \in ChangeType
  PROVE  Counts(c).added \in Nat /\ Counts(c).removed \in Nat
  <1>1. c.hunks \in Seq(HunkType)
    BY DEF ChangeType
  <1>2. Len(c.hunks) \in Nat /\ DOMAIN c.hunks = 1..Len(c.hunks)
        /\ \A i \in 1..Len(c.hunks) : c.hunks[i].count \in Nat /\ c.hunks[i].removed \in Nat
    <2>1. \A i \in 1..Len(c.hunks) : c.hunks[i] \in HunkType
      BY <1>1, ElementOfSeq
    <2> QED BY <1>1, <2>1 DEF HunkType
  <1>3. /\ [i \in DOMAIN c.hunks |-> c.hunks[i].count] \in Seq(Nat)
        /\ [i \in DOMAIN c.hunks |-> c.hunks[i].removed] \in Seq(Nat)
    BY <1>2
  <1>4. /\ SumOf([i \in DOMAIN c.hunks |-> c.hunks[i].count]) \in Nat
        /\ SumOf([i \in DOMAIN c.hunks |-> c.hunks[i].removed]) \in Nat
    BY <1>3, SumIsNat
  <1> QED BY <1>4 DEF Counts

FieldType ==
    [path : Paths \cup {NoPath}, added : Int, removed : Int] \cup [path : Paths \cup {NoPath}]

LEMMA RecordTypes ==
  ASSUME NEW c \in ChangeType, NEW path \in Paths \cup {NoPath}
  PROVE  /\ Record(c, path) \in [path : Paths \cup {NoPath}, added : Int, removed : Int]
         /\ Record(c, path).path = path
         /\ Record(c, path).added = EntryOf(c).added /\ Record(c, path).removed = EntryOf(c).removed
         /\ DOMAIN EntryOf(c) = {"path", "old", "added", "removed"}
  <1>1. Counts(c).added \in Nat /\ Counts(c).removed \in Nat
    BY CountsAreNat
  <1>2. CASE c.binary
    BY <1>2 DEF Record, EntryOf
  <1>3. CASE ~c.binary
    BY <1>1, <1>3 DEF Record, EntryOf
  <1> QED BY <1>2, <1>3

LEMMA NumstatParts ==
  ASSUME NEW c \in ChangeType, c.status = "renamed" <=> c.old # NoPath
  PROVE  /\ NumstatOf(c) \in Seq(FieldType)
         /\ c.old # NoPath => /\ Len(NumstatOf(c)) = 3
                              /\ NumstatOf(c)[1] = Record(c, NoPath)
                              /\ NumstatOf(c)[2].path = c.old /\ NumstatOf(c)[3].path = c.path
         /\ c.old = NoPath => Len(NumstatOf(c)) = 1 /\ NumstatOf(c)[1] = Record(c, c.path)
  <1>1. c.path \in Paths /\ c.old \in Paths \cup {NoPath}
    BY DEF ChangeType
  <1>2. Record(c, NoPath) \in FieldType /\ Record(c, c.path) \in FieldType
    BY <1>1, RecordTypes DEF FieldType
  <1>3. [path |-> c.old] \in FieldType /\ [path |-> c.path] \in FieldType
    BY <1>1 DEF FieldType
  <1>4. CASE c.old # NoPath
    <2>1. NumstatOf(c) = <<Record(c, NoPath), [path |-> c.old], [path |-> c.path]>>
      BY <1>4 DEF NumstatOf
    <2> HIDE DEF FieldType
    <2> QED BY <1>2, <1>3, <1>4, <2>1
  <1>5. CASE c.old = NoPath
    <2>1. NumstatOf(c) = <<Record(c, c.path)>>
      BY <1>5 DEF NumstatOf
    <2> QED BY <1>2, <1>5, <2>1
  <1> QED BY <1>4, <1>5

\* The entry read where the fields of a change begin.
LEMMA EntryIsRead ==
  ASSUME NEW c \in ChangeType, c.status = "renamed" <=> c.old # NoPath,
         NEW fields, NEW i \in Nat,
         \A j \in 1..Len(NumstatOf(c)) : fields[i + j] = NumstatOf(c)[j]
  PROVE  /\ EntryAt(fields, i + 1) = EntryOf(c)
         /\ Len(NumstatOf(c)) = IF fields[i + 1].path = NoPath THEN 3 ELSE 1
  <1>1. c.path \in Paths /\ c.path # NoPath
    BY ChangeSetAssumption DEF ChangeType
  <1>2. CASE c.old # NoPath
    <2>1. /\ fields[i + 1] = Record(c, NoPath) /\ fields[i + 2].path = c.old /\ fields[i + 3].path = c.path
          /\ Len(NumstatOf(c)) = 3
      BY <1>2, NumstatParts
    <2>2. fields[i + 1].path = NoPath /\ fields[i + 1].added = EntryOf(c).added
          /\ fields[i + 1].removed = EntryOf(c).removed
      BY <2>1, RecordTypes
    <2>3. (i + 1) + 1 = i + 2 /\ (i + 1) + 2 = i + 3
      OBVIOUS
    <2> QED BY <2>1, <2>2, <2>3 DEF EntryAt, EntryOf
  <1>3. CASE c.old = NoPath
    <2>1. fields[i + 1] = Record(c, c.path) /\ Len(NumstatOf(c)) = 1
      BY <1>3, NumstatParts
    <2>2. fields[i + 1].path = c.path /\ fields[i + 1].added = EntryOf(c).added
          /\ fields[i + 1].removed = EntryOf(c).removed
      BY <1>1, <2>1, RecordTypes
    <2> QED BY <1>1, <1>3, <2>1, <2>2 DEF EntryAt, EntryOf
  <1> QED BY <1>2, <1>3


\* How far n turns of ParseNumstat come, for n changes and then for ever.
TurnType(fields) == [next : Nat, entries : Seq({EntryAt(fields, i) : i \in Nat})]
TurnOf(fields, t) ==
    IF t.next > Len(fields) THEN t
    ELSE [next |-> t.next + (IF fields[t.next].path = NoPath THEN 3 ELSE 1),
          entries |-> Append(t.entries, EntryAt(fields, t.next))]

LEMMA TurnSteps ==
  ASSUME NEW fields, Len(fields) \in Nat
  PROVE  \E turns : /\ turns[0] = {[next |-> 1, entries |-> <<>>]}
                    /\ \A n \in 1..Len(fields) : turns[n] = {TurnOf(fields, t) : t \in turns[n - 1]}
                    /\ ParseNumstat(fields) = (CHOOSE t \in turns[Len(fields)] : TRUE).entries
  <1> DEFINE N == Len(fields)
             first == {[next |-> 1, entries |-> <<>>]}
             Is(f) == f = [n \in 0..N |-> IF n = 0 THEN first ELSE {TurnOf(fields, t) : t \in f[n - 1]}]
             V == TurnType(fields)
             h == [p \in (1..N) \X SUBSET V |-> {TurnOf(fields, t) : t \in p[2]}]
             turns == CHOOSE f : Is(f)
  <1>1. ASSUME NEW t \in V PROVE TurnOf(fields, t) \in V
    <2>1. t.next \in Nat /\ t.entries \in Seq({EntryAt(fields, i) : i \in Nat})
      BY DEF TurnType
    <2>2. CASE t.next > Len(fields)
      BY <2>2 DEF TurnOf
    <2>3. CASE ~(t.next > Len(fields))
      <3>1. EntryAt(fields, t.next) \in {EntryAt(fields, i) : i \in Nat}
        BY <2>1
      <3> DEFINE U == {EntryAt(fields, i) : i \in Nat}
      <3> HIDE DEF U
      <3>2. Append(t.entries, EntryAt(fields, t.next)) \in Seq(U)
        BY <2>1, <3>1 DEF U
      <3>3. t.next + (IF fields[t.next].path = NoPath THEN 3 ELSE 1) \in Nat
        BY <2>1
      <3> QED BY <2>3, <3>2, <3>3 DEF TurnOf, TurnType, U
    <2> QED BY <2>2, <2>3
  <1>2. h \in [(1..N) \X SUBSET V -> SUBSET V]
    <2> HIDE DEF V
    <2> QED BY <1>1
  <1>3. \A n \in 1..N, T \in SUBSET V : h[<<n, T>>] = {TurnOf(fields, t) : t \in T}
    <2> HIDE DEF V
    <2> QED OBVIOUS
  <1>4. first \in SUBSET V
    <2>1. <<>> \in Seq({EntryAt(fields, i) : i \in Nat})
      OBVIOUS
    <2> QED BY <2>1 DEF TurnType
  <1>5. PICK f \in [0..N -> SUBSET V] : f[0] = first /\ \A n \in 1..N : f[n] = h[<<n, f[n - 1]>>]
    <2>1. InSteps(N, SUBSET V, first, h)
      <3> HIDE DEF h, V, first
      <3> QED BY <1>2, <1>4, StepsExist
    <2> QED BY <2>1 DEF InSteps
  <1>6. Is(f)
    <2>1. ASSUME NEW n \in 0..N
          PROVE  f[n] = IF n = 0 THEN first ELSE {TurnOf(fields, t) : t \in f[n - 1]}
      <3>1. CASE n = 0
        BY <1>5, <3>1
      <3>2. CASE n # 0
        <4>1. n \in 1..N /\ n - 1 \in 0..N
          BY <3>2
        <4>2. f[n - 1] \in SUBSET V
          BY <4>1
        <4> HIDE DEF h, V
        <4> QED BY <1>3, <1>5, <3>2, <4>1, <4>2
      <3> QED BY <3>1, <3>2
    <2>2. f = [n \in 0..N |-> f[n]]
      OBVIOUS
    <2> QED BY <2>1, <2>2
  <1>7. Is(turns)
    <2> HIDE DEF Is
    <2> QED BY <1>6
  <1>8. ParseNumstat(fields) = (CHOOSE t \in turns[N] : TRUE).entries
    BY DEF ParseNumstat, TurnOf
  <1>9. turns = [n \in 0..N |-> IF n = 0 THEN first ELSE {TurnOf(fields, t) : t \in turns[n - 1]}]
    BY <1>7
  <1> HIDE DEF turns
  <1> HIDE DEF first
  <1>10. turns[0] = first
    BY <1>9
  <1>11. ASSUME NEW n \in 1..N PROVE turns[n] = {TurnOf(fields, t) : t \in turns[n - 1]}
    <2>1. n \in 0..N /\ n # 0
      OBVIOUS
    <2>2. turns[n] = IF n = 0 THEN first ELSE {TurnOf(fields, t) : t \in turns[n - 1]}
      BY <1>9, <2>1
    <2> QED BY <2>1, <2>2
  <1>12. turns[0] = {[next |-> 1, entries |-> <<>>]}
    BY <1>10 DEF first
  <1> QED BY <1>8, <1>11, <1>12

\* What the first m changes leave to the next turn.
TurnAfter(joined, pull, m) ==
    [next |-> 1 + Len(joined[m]), entries |-> [i \in 1..m |-> EntryOf(pull[i])]]

LEMMA GitNumstatSteps ==
  ASSUME NEW pull, IsPull(pull)
  PROVE  \E joined : /\ AreJoined(joined, [i \in DOMAIN pull |-> NumstatOf(pull[i])], Len(pull), FieldType)
                     /\ GitNumstat(pull) = joined[Len(pull)]
  <1> DEFINE parts == [i \in DOMAIN pull |-> NumstatOf(pull[i])]
  <1>1. Len(pull) \in Nat /\ DOMAIN pull = 1..Len(pull) /\ \A n \in 1..Len(pull) : pull[n] \in ChangeType
    BY PullTypes
  <1>2. \A n \in 1..Len(pull) : NumstatOf(pull[n]) \in Seq(FieldType)
    BY <1>1, NumstatParts DEF IsPull
  <1>3. parts \in Seq(Seq(FieldType)) /\ Len(parts) = Len(pull)
    <2> HIDE DEF FieldType
    <2> QED BY <1>1, <1>2
  <1> HIDE DEF parts
  <1>4. PICK joined : AreJoined(joined, parts, Len(parts), FieldType) /\ FlattenSeq(parts) = joined[Len(parts)]
    BY <1>3, FlattenSteps
  <1>5. AreJoined(joined, parts, Len(pull), FieldType) /\ GitNumstat(pull) = joined[Len(pull)]
    BY <1>3, <1>4 DEF GitNumstat, parts
  <1> QED BY <1>5 DEF parts

\* Where the fields of the n-th change are, and what is read there.
LEMMA FieldsPlaced ==
  ASSUME NEW pull, IsPull(pull), NEW joined,
         AreJoined(joined, [i \in DOMAIN pull |-> NumstatOf(pull[i])], Len(pull), FieldType),
         NEW n \in 1..Len(pull), NEW fields, fields = joined[Len(pull)]
  PROVE  /\ Len(joined[n - 1]) \in Nat /\ Len(fields) \in Nat
         /\ Len(joined[n - 1]) + 1 <= Len(fields)
         /\ Len(joined[n]) = Len(joined[n - 1])
                             + (IF fields[Len(joined[n - 1]) + 1].path = NoPath THEN 3 ELSE 1)
         /\ EntryAt(fields, Len(joined[n - 1]) + 1) = EntryOf(pull[n])
  <1> DEFINE parts == [i \in DOMAIN pull |-> NumstatOf(pull[i])]
             c == pull[n]
             N == Len(pull)
  <1>1. N \in Nat /\ DOMAIN pull = 1..N /\ \A m \in 1..N : pull[m] \in ChangeType
    BY PullTypes
  <1>2. \A m \in 1..N : parts[m] = NumstatOf(pull[m])
    BY <1>1
  <1>3. \A m \in 1..N : NumstatOf(pull[m]) \in Seq(FieldType)
    BY <1>1, NumstatParts DEF IsPull
  <1>4. \A m \in 1..N : parts[m] \in Seq(FieldType)
    BY <1>2, <1>3
  <1>5. AreJoined(joined, parts, N, FieldType)
    OBVIOUS
  <1> HIDE DEF parts, N
  <1>6. \A m \in 1..N :
            /\ joined[m - 1] \in Seq(FieldType) /\ parts[m] \in Seq(FieldType)
            /\ Len(joined[m]) = Len(joined[m - 1]) + Len(parts[m])
            /\ PartPlaced(joined[N], joined[m - 1], joined[m], parts[m])
    BY <1>1, <1>4, <1>5, JoinedPlaces, Zenon
  <1>7. n \in 1..N /\ fields = joined[N] /\ c \in ChangeType /\ (c.status = "renamed" <=> c.old # NoPath)
    BY <1>1 DEF N, IsPull
  <1>8. joined[N] \in Seq(FieldType)
    <2>1. N \in 0..N
      BY <1>1
    <2> QED BY <1>5, <2>1 DEF AreJoined
  <1>9. /\ Len(joined[n - 1]) \in Nat /\ Len(fields) \in Nat
        /\ Len(joined[n]) = Len(joined[n - 1]) + Len(NumstatOf(c))
        /\ Len(joined[n]) <= Len(fields)
        /\ \A j \in 1..Len(NumstatOf(c)) : fields[Len(joined[n - 1]) + j] = NumstatOf(c)[j]
    <2>1. joined[n - 1] \in Seq(FieldType) /\ Len(joined[n]) = Len(joined[n - 1]) + Len(parts[n])
          /\ PartPlaced(joined[N], joined[n - 1], joined[n], parts[n])
      BY <1>6, <1>7
    <2>2. parts[n] = NumstatOf(c)
      BY <1>2, <1>7
    <2>3. Len(joined[n - 1]) \in Nat /\ Len(fields) \in Nat
      BY <1>7, <1>8, <2>1
    <2>4. /\ Len(joined[n]) <= Len(fields)
          /\ \A j \in 1..Len(parts[n]) : fields[Len(joined[n - 1]) + j] = parts[n][j]
      BY <1>7, <2>1 DEF PartPlaced
    <2> QED BY <2>1, <2>2, <2>3, <2>4, Zenon
  <1> DEFINE i == Len(joined[n - 1])
  <1>10. /\ EntryAt(fields, i + 1) = EntryOf(c)
         /\ Len(NumstatOf(c)) = IF fields[i + 1].path = NoPath THEN 3 ELSE 1
    <2> HIDE DEF c, i
    <2>1. i \in Nat /\ \A j \in 1..Len(NumstatOf(c)) : fields[i + j] = NumstatOf(c)[j]
      BY <1>9 DEF i
    <2> QED BY <1>7, <2>1, EntryIsRead
  <1> HIDE DEF c
  <1>11. Len(NumstatOf(c)) \in {1, 3}
    BY <1>10
  <1>12. Len(joined[n - 1]) + 1 <= Len(fields)
    <2> DEFINE here == Len(joined[n - 1])
               len == Len(NumstatOf(c))
               after == Len(joined[n])
               end == Len(fields)
    <2>1. here \in Nat /\ end \in Nat /\ after = here + len /\ after <= end /\ len \in {1, 3}
      BY <1>9, <1>11
    <2> HIDE DEF here, len, after, end
    <2>2. here + 1 <= end
      BY <2>1
    <2> QED BY <2>2 DEF here, end
  <1> QED BY <1>9, <1>10, <1>12, Zenon DEF c

LEMMA OneMoreTurn ==
  ASSUME NEW pull, IsPull(pull), NEW joined,
         AreJoined(joined, [i \in DOMAIN pull |-> NumstatOf(pull[i])], Len(pull), FieldType),
         NEW n \in 1..Len(pull), NEW fields, fields = joined[Len(pull)]
  PROVE  TurnOf(fields, TurnAfter(joined, pull, n - 1)) = TurnAfter(joined, pull, n)
  <1> DEFINE t == TurnAfter(joined, pull, n - 1)
             i == Len(joined[n - 1])
  <1>1. /\ i \in Nat /\ Len(fields) \in Nat /\ i + 1 <= Len(fields)
        /\ Len(joined[n]) = i + (IF fields[i + 1].path = NoPath THEN 3 ELSE 1)
        /\ EntryAt(fields, i + 1) = EntryOf(pull[n])
    <2>1. /\ Len(joined[n - 1]) \in Nat /\ Len(fields) \in Nat
          /\ Len(joined[n - 1]) + 1 <= Len(fields)
          /\ Len(joined[n]) = Len(joined[n - 1])
                              + (IF fields[Len(joined[n - 1]) + 1].path = NoPath THEN 3 ELSE 1)
          /\ EntryAt(fields, Len(joined[n - 1]) + 1) = EntryOf(pull[n])
      BY FieldsPlaced, Zenon
    <2> QED BY <2>1
  <1>2. t.next = i + 1 /\ t.entries = [k \in 1..(n - 1) |-> EntryOf(pull[k])]
    BY <1>1 DEF TurnAfter
  <1>3. n \in Nat /\ n >= 1
    BY PullTypes
  <1>4. Append([k \in 1..(n - 1) |-> EntryOf(pull[k])], EntryOf(pull[n])) = [k \in 1..n |-> EntryOf(pull[k])]
    <2> DEFINE e(k) == EntryOf(pull[k])
    <2> HIDE DEF e
    <2>1. Append([k \in 1..(n - 1) |-> e(k)], e(n)) = [k \in 1..n |-> e(k)]
      BY <1>3
    <2> QED BY <2>1 DEF e
  <1> HIDE DEF t, i
  <1>5. TurnOf(fields, t) = [next |-> t.next + (IF fields[t.next].path = NoPath THEN 3 ELSE 1),
                             entries |-> Append(t.entries, EntryAt(fields, t.next))]
    BY <1>1, <1>2 DEF TurnOf
  <1>6. t.next + (IF fields[t.next].path = NoPath THEN 3 ELSE 1) = 1 + Len(joined[n])
    BY <1>1, <1>2
  <1>7. Append(t.entries, EntryAt(fields, t.next)) = [k \in 1..n |-> EntryOf(pull[k])]
    BY <1>1, <1>2, <1>4
  <1>8. TurnOf(fields, t) = TurnAfter(joined, pull, n)
    BY <1>5, <1>6, <1>7 DEF TurnAfter
  <1> QED BY <1>8 DEF t

\* The service reads of the numstat output exactly the changes of the pull request, each
\* with both its paths and its counts.
THEOREM NumstatRead ==
  ASSUME NEW pull, IsPull(pull)
  PROVE  ParseNumstat(GitNumstat(pull)) = [i \in DOMAIN pull |-> EntryOf(pull[i])]
  <1> DEFINE fields == GitNumstat(pull)
             N == Len(pull)
             L == Len(fields)
  <1>1. PICK joined : /\ AreJoined(joined, [i \in DOMAIN pull |-> NumstatOf(pull[i])], N, FieldType)
                      /\ fields = joined[N]
    BY GitNumstatSteps
  <1>2. N \in Nat /\ DOMAIN pull = 1..N
    BY PullTypes
  <1>3. L \in Nat /\ joined[0] = <<>>
    <2>1. joined[N] \in Seq(FieldType) /\ joined[0] = <<>>
      BY <1>1, <1>2 DEF AreJoined
    <2> QED BY <1>1, <2>1
  <1>4. PICK turns : /\ turns[0] = {[next |-> 1, entries |-> <<>>]}
                     /\ \A n \in 1..L : turns[n] = {TurnOf(fields, t) : t \in turns[n - 1]}
                     /\ ParseNumstat(fields) = (CHOOSE t \in turns[L] : TRUE).entries
    <2> HIDE DEF fields
    <2> QED BY <1>3, TurnSteps
  <1>5. \A n \in 1..N : TurnOf(fields, TurnAfter(joined, pull, n - 1)) = TurnAfter(joined, pull, n)
    BY <1>1, OneMoreTurn
  <1>6. \A n \in 0..N : Len(joined[n]) \in Nat /\ n <= Len(joined[n])
    <2> DEFINE S == {n \in 0..N : Len(joined[n]) \in Nat /\ n <= Len(joined[n])}
    <2>1. 0 \in S
      BY <1>2, <1>3
    <2>2. ASSUME NEW n \in 1..N, n - 1 \in S PROVE n \in S
      <3>1. Len(joined[n]) = Len(joined[n - 1])
                             + (IF fields[Len(joined[n - 1]) + 1].path = NoPath THEN 3 ELSE 1)
        BY <1>1, FieldsPlaced, Zenon
      <3> DEFINE here == Len(joined[n])
                 before == Len(joined[n - 1])
      <3>2. here \in {before + 1, before + 3}
        <4> HIDE DEF fields, here, before
        <4> QED BY <3>1 DEF here, before
      <3>3. before \in Nat /\ n - 1 <= before
        BY <2>2
      <3> HIDE DEF here, before
      <3>4. here \in Nat /\ n <= here
        BY <3>2, <3>3
      <3> QED BY <3>4 DEF here
    <2>3. 0..N \subseteq S
      <3> HIDE DEF S
      <3> QED BY <1>2, <2>1, <2>2, UpTo
    <2> QED BY <2>3
  <1>7. N <= L
    BY <1>1, <1>2, <1>6
  <1> HIDE DEF fields, N, L
  <1> DEFINE least(n) == IF n <= N THEN n ELSE N
             S == {n \in 0..L : turns[n] = {TurnAfter(joined, pull, least(n))}}
  <1>8. 0 \in S
    <2>1. [i \in 1..0 |-> EntryOf(pull[i])] = <<>>
      OBVIOUS
    <2>2. 1 + Len(joined[0]) = 1
      BY <1>3
    <2>3. TurnAfter(joined, pull, 0) = [next |-> 1, entries |-> <<>>]
      BY <2>1, <2>2 DEF TurnAfter
    <2>4. least(0) = 0 /\ 0 \in 0..L
      BY <1>2, <1>3
    <2> QED BY <1>4, <2>3, <2>4
  <1>9. ASSUME NEW n \in 1..L, n - 1 \in S PROVE n \in S
    <2> DEFINE was == TurnAfter(joined, pull, least(n - 1))
               is == TurnAfter(joined, pull, least(n))
    <2>1. turns[n] = {TurnOf(fields, was)}
      <3>1. turns[n] = {TurnOf(fields, t) : t \in turns[n - 1]} /\ turns[n - 1] = {was}
        BY <1>4, <1>9
      <3> HIDE DEF was
      <3> QED BY <3>1
    <2>2. CASE n <= N
      <3>1. n \in 1..N /\ least(n) = n /\ least(n - 1) = n - 1
        BY <1>2, <1>3, <2>2
      <3>2. TurnOf(fields, was) = is
        BY <1>5, <3>1
      <3> QED BY <2>1, <3>2, <1>3
    <2>3. CASE ~(n <= N)
      <3>1. least(n) = N /\ least(n - 1) = N
        BY <1>2, <1>3, <2>3
      <3>2. was.next > Len(fields) /\ was = is
        <4>1. was = TurnAfter(joined, pull, N) /\ is = TurnAfter(joined, pull, N)
          <5> HIDE DEF least
          <5> QED BY <3>1
        <4>2. TurnAfter(joined, pull, N).next = 1 + L
          BY <1>1 DEF TurnAfter, L
        <4> HIDE DEF was, is
        <4> QED BY <1>3, <4>1, <4>2 DEF L
      <3>3. TurnOf(fields, was) = is
        <4> HIDE DEF was, is
        <4> QED BY <3>2 DEF TurnOf
      <3> QED BY <2>1, <3>3, <1>3
    <2> QED BY <2>2, <2>3
  <1>10. 0..L \subseteq S
    <2> HIDE DEF S
    <2> QED BY <1>3, <1>8, <1>9, UpTo
  <1>11. turns[L] = {TurnAfter(joined, pull, N)}
    <2>1. L \in S
      BY <1>3, <1>10
    <2>2. least(L) = N
      BY <1>2, <1>3, <1>7
    <2> QED BY <2>1, <2>2
  <1>12. (CHOOSE t \in turns[L] : TRUE) = TurnAfter(joined, pull, N)
    BY <1>11
  <1>13. ParseNumstat(fields) = [i \in 1..N |-> EntryOf(pull[i])]
    <2>1. TurnAfter(joined, pull, N).entries = [i \in 1..N |-> EntryOf(pull[i])]
      BY DEF TurnAfter
    <2>2. ParseNumstat(fields) = (CHOOSE t \in turns[L] : TRUE).entries
      BY <1>4
    <2> QED BY <1>12, <2>1, <2>2, Zenon
  <1> QED BY <1>2, <1>13 DEF fields, N

-----------------------------------------------------------------------------
(* The patch, line by line.                                                *)

\* From r, the lines leave the reader at q.
Reads(r, lines, q) ==
    \E f : /\ f[0] = r
           /\ \A n \in 1..Len(lines) : f[n] = ReadLine(f[n - 1], lines[n])
           /\ f[Len(lines)] = q

LEMMA ReadsNothing ==
  ASSUME NEW r
  PROVE  Reads(r, <<>>, r)
  <1> DEFINE f == [n \in 0..0 |-> r]
  <1>1. f[0] = r /\ (\A n \in 1..Len(<<>>) : f[n] = ReadLine(f[n - 1], (<<>>)[n])) /\ f[Len(<<>>)] = r
    OBVIOUS
  <1> HIDE DEF f
  <1> QED BY <1>1 DEF Reads

LEMMA OneLine ==
  ASSUME NEW S, NEW a \in S
  PROVE  <<a>> \in Seq(S)
  OBVIOUS

LEMMA TwoLines ==
  ASSUME NEW S, NEW a \in S, NEW b \in S
  PROVE  <<a, b>> \in Seq(S) /\ <<a, b>> = <<a>> \o <<b>>
  <1>1. /\ <<a>> \in Seq(S) /\ Len(<<a>>) = 1 /\ <<a>>[1] = a
        /\ <<b>> \in Seq(S) /\ Len(<<b>>) = 1 /\ <<b>>[1] = b
    OBVIOUS
  <1>2. <<a, b>> \in Seq(S) /\ Len(<<a, b>>) = 2 /\ <<a, b>>[1] = a /\ <<a, b>>[2] = b
    OBVIOUS
  <1> DEFINE s == <<a, b>>
             t == <<a>> \o <<b>>
  <1>3. t \in Seq(S) /\ Len(t) = 2
    BY <1>1, ConcatProperties
  <1>4. t[1] = a /\ t[2] = b
    BY <1>1, ConcatProperties
  <1>5. s \in Seq(S) /\ Len(s) = 2 /\ s[1] = a /\ s[2] = b
    BY <1>2
  <1> HIDE DEF s, t
  <1>6. \A i \in 1..2 : s[i] = t[i]
    BY <1>4, <1>5
  <1>7. s = t
    BY <1>3, <1>5, <1>6, SeqEqual
  <1> QED BY <1>2, <1>7 DEF s, t

LEMMA ReadsOneLine ==
  ASSUME NEW r, NEW line
  PROVE  Reads(r, <<line>>, ReadLine(r, line))
  <1> DEFINE f == [n \in 0..1 |-> IF n = 0 THEN r ELSE ReadLine(r, line)]
  <1>1. f[0] = r /\ f[1] = ReadLine(r, line) /\ Len(<<line>>) = 1 /\ (<<line>>)[1] = line
    OBVIOUS
  <1> HIDE DEF f
  <1>2. \A n \in 1..1 : f[n] = ReadLine(f[n - 1], (<<line>>)[n])
    BY <1>1
  <1> QED BY <1>1, <1>2 DEF Reads

LEMMA ReadsBoth ==
  ASSUME NEW V, NEW s \in Seq(V), NEW t \in Seq(V), NEW r, NEW p, NEW q, Reads(r, s, p), Reads(p, t, q)
  PROVE  Reads(r, s \o t, q)
  <1> DEFINE M == Len(s)
             N == Len(t)
  <1>1. PICK f : f[0] = r /\ (\A n \in 1..M : f[n] = ReadLine(f[n - 1], s[n])) /\ f[M] = p
    BY DEF Reads
  <1>2. PICK g : g[0] = p /\ (\A n \in 1..N : g[n] = ReadLine(g[n - 1], t[n])) /\ g[N] = q
    BY DEF Reads
  <1>3. /\ M \in Nat /\ N \in Nat /\ Len(s \o t) = M + N
        /\ \A i \in 1..M : (s \o t)[i] = s[i]
        /\ \A j \in 1..N : (s \o t)[M + j] = t[j]
    BY ConcatPlaces
  <1> DEFINE h == [n \in 0..(M + N) |-> IF n <= M THEN f[n] ELSE g[n - M]]
  <1> HIDE DEF M, N
  <1>4. (\A n \in 0..M : h[n] = f[n]) /\ (\A n \in 0..N : h[M + n] = g[n])
    <2>1. \A n \in 0..M : h[n] = f[n]
      BY <1>3
    <2>2. ASSUME NEW n \in 0..N PROVE h[M + n] = g[n]
      <3>1. CASE n = 0
        BY <1>1, <1>2, <1>3, <3>1
      <3>2. CASE n # 0
        <4>1. M + n \in 0..(M + N) /\ ~(M + n <= M) /\ (M + n) - M = n
          BY <1>3, <3>2
        <4> QED BY <4>1
      <3> QED BY <3>1, <3>2
    <2> HIDE DEF h
    <2> QED BY <2>1, <2>2
  <1> HIDE DEF h
  <1>5. ASSUME NEW n \in 1..(M + N) PROVE h[n] = ReadLine(h[n - 1], (s \o t)[n])
    <2>1. CASE n <= M
      <3>1. n \in 1..M /\ n \in 0..M /\ n - 1 \in 0..M
        BY <1>3, <2>1
      <3>2. f[n] = ReadLine(f[n - 1], s[n])
        BY <1>1, <3>1
      <3>3. h[n] = f[n] /\ h[n - 1] = f[n - 1] /\ (s \o t)[n] = s[n]
        BY <1>3, <1>4, <3>1
      <3> QED BY <3>2, <3>3
    <2>2. CASE ~(n <= M)
      <3> DEFINE j == n - M
      <3>1. j \in 1..N /\ j \in 0..N /\ j - 1 \in 0..N /\ n = M + j /\ n - 1 = M + (j - 1)
        BY <1>3, <2>2
      <3> HIDE DEF j
      <3>2. g[j] = ReadLine(g[j - 1], t[j])
        BY <1>2, <3>1
      <3>3. h[n] = g[j] /\ h[n - 1] = g[j - 1] /\ (s \o t)[n] = t[j]
        BY <1>3, <1>4, <3>1
      <3> QED BY <3>2, <3>3
    <2> QED BY <2>1, <2>2
  <1>6. h[0] = r /\ h[M + N] = q
    BY <1>1, <1>2, <1>3, <1>4
  <1> QED BY <1>3, <1>5, <1>6 DEF Reads

\* Lines that change nothing.
LEMMA ReadsIdle ==
  ASSUME NEW V, NEW s \in Seq(V), NEW r, \A n \in 1..Len(s) : ReadLine(r, s[n]) = r
  PROVE  Reads(r, s, r)
  <1> DEFINE f == [n \in 0..Len(s) |-> r]
  <1>1. Len(s) \in Nat
    OBVIOUS
  <1>2. \A n \in 0..Len(s) : f[n] = r
    OBVIOUS
  <1> HIDE DEF f
  <1>3. f[0] = r /\ f[Len(s)] = r
    BY <1>1, <1>2
  <1>4. \A n \in 1..Len(s) : f[n] = ReadLine(f[n - 1], s[n])
    <2> TAKE n \in 1..Len(s)
    <2>1. n \in 0..Len(s) /\ n - 1 \in 0..Len(s)
      BY <1>1
    <2> QED BY <1>2, <2>1
  <1> QED BY <1>3, <1>4 DEF Reads

\* What ReadAll makes of lines the reader is known to read.
LEMMA PatchIsRead ==
  ASSUME NEW V, NEW lines \in Seq(V), NEW q, Reads(Reader, lines, q)
  PROVE  ParsePatch(lines) = q.files
  <1> DEFINE N == Len(lines)
             Is(f) == f = [n \in 0..N |-> IF n = 0 THEN {Reader} ELSE {ReadLine(r, lines[n]) : r \in f[n - 1]}]
             readers == CHOOSE f : Is(f)
  <1>1. N \in Nat
    OBVIOUS
  <1>2. PICK f : f[0] = Reader /\ (\A n \in 1..N : f[n] = ReadLine(f[n - 1], lines[n])) /\ f[N] = q
    BY DEF Reads
  <1> DEFINE g == [n \in 0..N |-> {f[n]}]
  <1>3. Is(g)
    <2>1. ASSUME NEW n \in 0..N
          PROVE  g[n] = IF n = 0 THEN {Reader} ELSE {ReadLine(r, lines[n]) : r \in g[n - 1]}
      <3>1. CASE n = 0
        BY <1>2, <3>1
      <3>2. CASE n # 0
        <4>1. n \in 1..N /\ n - 1 \in 0..N
          BY <1>1, <3>2
        <4>2. g[n] = {f[n]} /\ g[n - 1] = {f[n - 1]} /\ f[n] = ReadLine(f[n - 1], lines[n])
          BY <1>2, <4>1
        <4> HIDE DEF g
        <4>3. {ReadLine(r, lines[n]) : r \in {f[n - 1]}} = {ReadLine(f[n - 1], lines[n])}
          OBVIOUS
        <4> QED BY <3>2, <4>2, <4>3
      <3> QED BY <3>1, <3>2
    <2>2. g = [n \in 0..N |-> g[n]]
      OBVIOUS
    <2> HIDE DEF g
    <2> QED BY <2>1, <2>2
  <1>4. Is(readers)
    <2> HIDE DEF Is, g
    <2> QED BY <1>3
  <1>5. ReadAll(lines) = readers[N]
    BY DEF ReadAll
  <1>6. readers = [n \in 0..N |-> IF n = 0 THEN {Reader} ELSE {ReadLine(r, lines[n]) : r \in readers[n - 1]}]
    BY <1>4
  <1> HIDE DEF readers, g, N
  <1> DEFINE S == {n \in 0..N : readers[n] = {f[n]}}
  <1>7. 0 \in S
    BY <1>1, <1>2, <1>6
  <1>8. ASSUME NEW n \in 1..N, n - 1 \in S PROVE n \in S
    <2>1. n \in 0..N /\ n # 0 /\ readers[n - 1] = {f[n - 1]}
      BY <1>1, <1>8
    <2>2. readers[n] = {ReadLine(r, lines[n]) : r \in readers[n - 1]}
      BY <1>6, <2>1
    <2>3. {ReadLine(r, lines[n]) : r \in {f[n - 1]}} = {ReadLine(f[n - 1], lines[n])}
      OBVIOUS
    <2> QED BY <1>2, <2>1, <2>2, <2>3
  <1>9. 0..N \subseteq S
    <2> HIDE DEF S
    <2> QED BY <1>1, <1>7, <1>8, UpTo
  <1>10. ReadAll(lines) = {q}
    <2>1. N \in S
      BY <1>1, <1>9
    <2> QED BY <1>2, <1>5, <2>1
  <1> QED BY <1>10 DEF ParsePatch

-----------------------------------------------------------------------------
(* One section of the patch.                                               *)

\* The reader and its section, part by part.
ReaderParts == {"files", "current", "minus", "inHunks"}
SectionParts == {"path", "old", "status", "binary", "added", "points"}
IsReader(r, files, section, minus, inHunks) ==
    /\ DOMAIN r = ReaderParts
    /\ r.files = files /\ r.current = section /\ r.minus = minus /\ r.inHunks = inHunks
IsSection(s, path, old, status, binary, added, points) ==
    /\ DOMAIN s = SectionParts
    /\ s.path = path /\ s.old = old /\ s.status = status /\ s.binary = binary
    /\ s.added = added /\ s.points = points

LEMMA FiledTwice ==
  ASSUME NEW s, NEW t, s.path = t.path, NEW files
  PROVE  Filed(Filed(files, t), s) = Filed(files, s)
  BY DEF Filed

LEMMA KeepsParts ==
  ASSUME NEW r, NEW files, NEW current, NEW minus, NEW inHunks, NEW section,
         IsReader(r, files, current, minus, inHunks)
  PROVE  IsReader(Keep(r, section), IF section.path = NoPath THEN files ELSE Filed(files, section),
                  section, minus, inHunks)
  BY DEF Keep, IsReader, ReaderParts

LEMMA DiffLine ==
  ASSUME NEW r, DOMAIN r = ReaderParts, NEW line, line.head = "diff --git"
  PROVE  /\ IsReader(ReadLine(r, line), r.files, NewSection, NoPath, FALSE)
         /\ IsSection(NewSection, NoPath, NoPath, "modified", FALSE, {}, {})
  BY DEF ReadLine, IsReader, ReaderParts, SectionParts, IsSection, NewSection, NoSection

LEMMA StatusLine ==
  ASSUME NEW r, NEW s, NEW files, NEW minus, NEW line, NEW status,
         IsReader(r, files, s, minus, FALSE), IsSection(s, NoPath, NoPath, "modified", FALSE, {}, {}),
         \/ line.head = "new file mode" /\ status = "added"
         \/ line.head = "deleted file mode" /\ status = "deleted"
  PROVE  \E t : /\ IsReader(ReadLine(r, line), files, t, minus, FALSE)
                /\ IsSection(t, NoPath, NoPath, status, FALSE, {}, {})
  <1> DEFINE t == [s EXCEPT !.status = status]
  <1>1. ReadLine(r, line) = Keep(r, t)
    BY DEF ReadLine, ReadHeader, IsReader, IsSection
  <1>2. IsSection(t, NoPath, NoPath, status, FALSE, {}, {})
    BY DEF IsSection, SectionParts
  <1>3. t.path = NoPath
    BY <1>2 DEF IsSection
  <1> HIDE DEF t
  <1>4. IsReader(Keep(r, t), files, t, minus, FALSE)
    BY <1>3, KeepsParts
  <1> QED BY <1>1, <1>2, <1>4

LEMMA RenameLines ==
  ASSUME NEW r, NEW s, NEW files, NEW minus, NEW old, NEW path, path # NoPath,
         IsReader(r, files, s, minus, FALSE), IsSection(s, NoPath, NoPath, "modified", FALSE, {}, {})
  PROVE  \E q, t : /\ Reads(r, <<[head |-> "rename from", path |-> old], [head |-> "rename to", path |-> path]>>, q)
                   /\ IsReader(q, Filed(files, t), t, minus, FALSE)
                   /\ IsSection(t, path, old, "renamed", FALSE, {}, {})
  <1> DEFINE from == [head |-> "rename from", path |-> old]
             to == [head |-> "rename to", path |-> path]
             u == [s EXCEPT !.status = "renamed", !.old = old]
             p == ReadLine(r, from)
             t == [u EXCEPT !.path = path]
             q == ReadLine(p, to)
  <1>1. p = Keep(r, u)
    BY DEF ReadLine, ReadHeader, IsReader, IsSection
  <1>2. IsSection(u, NoPath, old, "renamed", FALSE, {}, {})
    BY DEF IsSection, SectionParts
  <1>3. u.path = NoPath
    BY <1>2 DEF IsSection
  <1>4. to.head = "rename to" /\ to.path = path
    OBVIOUS
  <1>5. Reads(r, <<from>>, p)
    <2> HIDE DEF from
    <2> QED BY ReadsOneLine
  <1>6. Reads(p, <<to>>, q)
    <2> HIDE DEF to, p
    <2> QED BY ReadsOneLine
  <1>7. <<from, to>> = <<from>> \o <<to>> /\ <<from>> \in Seq({from, to}) /\ <<to>> \in Seq({from, to})
    <2> HIDE DEF from, to
    <2>1. from \in {from, to} /\ to \in {from, to}
      OBVIOUS
    <2> QED BY <2>1, OneLine, TwoLines, Zenon
  <1> HIDE DEF u, p, from, to
  <1>8. IsReader(p, files, u, minus, FALSE)
    <2>1. IsReader(Keep(r, u), files, u, minus, FALSE)
      BY <1>3, KeepsParts
    <2> QED BY <1>1, <2>1
  <1>9. q = Keep(p, t)
    BY <1>2, <1>4, <1>8 DEF ReadLine, ReadHeader, IsReader, IsSection
  <1>10. IsSection(t, path, old, "renamed", FALSE, {}, {})
    BY <1>2 DEF IsSection, SectionParts
  <1>11. t.path # NoPath
    BY <1>10 DEF IsSection
  <1> HIDE DEF t, q
  <1>12. IsReader(q, Filed(files, t), t, minus, FALSE)
    <2>1. IsReader(Keep(p, t), Filed(files, t), t, minus, FALSE)
      BY <1>8, <1>11, KeepsParts
    <2> QED BY <1>9, <2>1
  <1>13. Reads(r, <<from, to>>, q)
    BY <1>5, <1>6, <1>7, ReadsBoth
  <1> QED BY <1>10, <1>12, <1>13 DEF from, to

LEMMA BinaryLine ==
  ASSUME NEW r, NEW s, NEW files, NEW minus, NEW line, NEW was, NEW old, NEW status, NEW path,
         IsReader(r, files, s, minus, FALSE), IsSection(s, was, old, status, FALSE, {}, {}),
         status # "none", line.head = "Binary files", path # NoPath,
         path = IF line.path # NoPath THEN line.path ELSE line.old
  PROVE  \E t : /\ IsReader(ReadLine(r, line), Filed(files, t), t, minus, FALSE)
                /\ IsSection(t, path, old, status, TRUE, {}, {})
  <1> DEFINE t == [s EXCEPT !.binary = TRUE, !.path = path]
  <1>1. ReadLine(r, line) = Keep(r, t)
    BY DEF ReadLine, ReadHeader, IsReader, IsSection
  <1>2. IsSection(t, path, old, status, TRUE, {}, {})
    BY DEF IsSection, SectionParts
  <1>3. t.path # NoPath
    BY <1>2 DEF IsSection
  <1> HIDE DEF t
  <1>4. IsReader(Keep(r, t), Filed(files, t), t, minus, FALSE)
    BY <1>3, KeepsParts
  <1> QED BY <1>1, <1>2, <1>4

LEMMA SideLines ==
  ASSUME NEW r, NEW s, NEW files, NEW minus, NEW from, NEW to, NEW was, NEW old, NEW status, NEW path,
         IsReader(r, files, s, minus, FALSE), IsSection(s, was, old, status, FALSE, {}, {}),
         status # "none", path # NoPath, path = IF to = NoPath THEN from ELSE to
  PROVE  \E q, t : /\ Reads(r, <<[head |-> "---", path |-> from], [head |-> "+++", path |-> to]>>, q)
                   /\ IsReader(q, Filed(files, t), t, from, FALSE)
                   /\ IsSection(t, path, old, status, FALSE, {}, {})
  <1> DEFINE a == [head |-> "---", path |-> from]
             b == [head |-> "+++", path |-> to]
             p == ReadLine(r, a)
             t == [s EXCEPT !.path = path]
             q == ReadLine(p, b)
  <1>1. p = [r EXCEPT !.minus = from]
    BY DEF ReadLine, ReadHeader, IsReader, IsSection
  <1>2. IsReader(p, files, s, from, FALSE)
    BY <1>1 DEF IsReader, ReaderParts
  <1>3. b.head = "+++" /\ b.path = to
    OBVIOUS
  <1>4. Reads(r, <<a>>, p)
    <2> HIDE DEF a
    <2> QED BY ReadsOneLine
  <1>5. Reads(p, <<b>>, q)
    <2> HIDE DEF b, p
    <2> QED BY ReadsOneLine
  <1>6. <<a, b>> = <<a>> \o <<b>> /\ <<a>> \in Seq({a, b}) /\ <<b>> \in Seq({a, b})
    <2> HIDE DEF a, b
    <2>1. a \in {a, b} /\ b \in {a, b}
      OBVIOUS
    <2> QED BY <2>1, OneLine, TwoLines, Zenon
  <1> HIDE DEF p, a, b
  <1>7. q = Keep(p, t)
    BY <1>2, <1>3 DEF ReadLine, ReadHeader, IsReader, IsSection
  <1>8. IsSection(t, path, old, status, FALSE, {}, {})
    BY DEF IsSection, SectionParts
  <1>9. t.path # NoPath
    BY <1>8 DEF IsSection
  <1> HIDE DEF t, q
  <1>10. IsReader(q, Filed(files, t), t, from, FALSE)
    <2>1. IsReader(Keep(p, t), Filed(files, t), t, from, FALSE)
      BY <1>2, <1>9, KeepsParts
    <2> QED BY <1>7, <2>1
  <1>11. Reads(r, <<a, b>>, q)
    BY <1>4, <1>5, <1>6, ReadsBoth
  <1> QED BY <1>8, <1>10, <1>11 DEF a, b

\* What one hunk adds to the section.
PointOf(h) == IF h.start > 1 THEN h.start ELSE 1
HunkAdds(h) == IF h.count > 0 THEN LinesOfHunk(h) ELSE {}
HunkPoints(h) == IF h.count > 0 THEN {} ELSE {PointOf(h)}

\* Whatever the removed and added lines of a hunk look like, its header alone is read.
LEMMA HunkIsRead ==
  ASSUME NEW h \in HunkType,
         NEW r, NEW s, NEW files, NEW minus, NEW path, NEW old, NEW status, NEW added, NEW points,
         NEW inHunks,
         IsReader(r, Filed(files, s), s, minus, inHunks),
         IsSection(s, path, old, status, FALSE, added, points), status # "none", path # NoPath
  PROVE  \E q, t : /\ Reads(r, HunkLines(h), q)
                   /\ IsReader(q, Filed(files, t), t, minus, TRUE)
                   /\ IsSection(t, path, old, status, FALSE, added \cup HunkAdds(h), points \cup HunkPoints(h))
  <1> DEFINE header == [head |-> "@@", start |-> h.start, count |-> h.count]
             minuses == [i \in 1..h.removed |-> IF h.disguised THEN [head |-> "---", path |-> NoPath]
                                                ELSE [head |-> "-"]]
             pluses == [i \in 1..h.count |-> IF h.disguised THEN [head |-> "+++", path |-> NoPath]
                                             ELSE [head |-> "+"]]
             t == ApplyHunk(s, header)
             q == ReadLine(r, header)
             W == {header} \cup {minuses[i] : i \in 1..h.removed} \cup {pluses[i] : i \in 1..h.count}
  <1>1. h.start \in Nat /\ h.count \in Nat /\ h.removed \in Nat /\ h.disguised \in BOOLEAN
    BY DEF HunkType
  <1>2. HunkLines(h) = <<header>> \o minuses \o pluses
    BY DEF HunkLines
  <1>3. IsSection(t, path, old, status, FALSE, added \cup HunkAdds(h), points \cup HunkPoints(h))
    <2>1. header.start = h.start /\ header.count = h.count
      OBVIOUS
    <2> HIDE DEF header
    <2>2. CASE h.count > 0
      <3>1. t = [s EXCEPT !.added = @ \cup LinesOfHunk(h)]
        BY <2>1, <2>2 DEF ApplyHunk, LinesOfHunk
      <3> QED BY <2>2, <3>1 DEF IsSection, SectionParts, HunkAdds, HunkPoints
    <2>3. CASE ~(h.count > 0)
      <3>1. t = [s EXCEPT !.points = @ \cup {PointOf(h)}]
        BY <2>1, <2>3 DEF ApplyHunk, PointOf
      <3> QED BY <2>3, <3>1 DEF IsSection, SectionParts, HunkAdds, HunkPoints
    <2> QED BY <2>2, <2>3
  <1>4. q = [Keep(r, t) EXCEPT !.inHunks = TRUE]
    BY DEF ReadLine, IsReader, IsSection
  <1>5. t.path = path /\ t.status = status /\ s.path = path
    BY <1>3 DEF IsSection
  <1>6. Reads(r, <<header>>, q)
    <2> HIDE DEF header
    <2> QED BY ReadsOneLine
  <1>7. \A i \in 1..h.removed : minuses[i].head \in {"-", "---"}
    BY <1>1
  <1>8. \A i \in 1..h.count : pluses[i].head \in {"+", "+++"}
    BY <1>1
  <1>9. /\ <<header>> \in Seq(W) /\ minuses \in Seq(W) /\ pluses \in Seq(W)
        /\ Len(minuses) = h.removed /\ Len(pluses) = h.count
    <2> DEFINE m(i) == minuses[i]
               p(i) == pluses[i]
    <2>1. minuses = [i \in 1..h.removed |-> m(i)] /\ pluses = [i \in 1..h.count |-> p(i)]
      OBVIOUS
    <2>2. W = {header} \cup {m(i) : i \in 1..h.removed} \cup {p(i) : i \in 1..h.count}
      OBVIOUS
    <2> HIDE DEF header, m, p, minuses, pluses, W
    <2>3. header \in W /\ (\A i \in 1..h.removed : m(i) \in W) /\ (\A i \in 1..h.count : p(i) \in W)
      BY <2>2
    <2>4. minuses \in Seq(W) /\ Len(minuses) = h.removed
      BY <1>1, <2>1, <2>3
    <2>5. pluses \in Seq(W) /\ Len(pluses) = h.count
      BY <1>1, <2>1, <2>3
    <2> QED BY <2>3, <2>4, <2>5, OneLine
  <1> HIDE DEF t, q, header, minuses, pluses, W
  <1>10. IsReader(q, Filed(files, t), t, minus, TRUE)
    <2>1. IsReader(Keep(r, t), Filed(Filed(files, s), t), t, minus, inHunks)
      BY <1>5, KeepsParts
    <2>2. Filed(Filed(files, s), t) = Filed(files, t)
      BY <1>5, FiledTwice
    <2> QED BY <1>4, <2>1, <2>2 DEF IsReader, ReaderParts
  <1>11. \A line : line.head \in {"-", "---", "+", "+++"} => ReadLine(q, line) = q
    BY <1>5, <1>10 DEF ReadLine, IsReader
  <1>12. Reads(q, minuses, q) /\ Reads(q, pluses, q)
    BY <1>7, <1>8, <1>9, <1>11, ReadsIdle
  <1>13. Reads(r, <<header>> \o minuses, q) /\ <<header>> \o minuses \in Seq(W)
    BY <1>6, <1>9, <1>12, ReadsBoth, ConcatProperties
  <1>14. Reads(r, (<<header>> \o minuses) \o pluses, q)
    BY <1>9, <1>12, <1>13, ReadsBoth
  <1> QED BY <1>2, <1>3, <1>10, <1>14

LineHeads ==
    {"@@", "---", "+++", "-", "+", "diff --git", "new file mode", "deleted file mode",
     "rename from", "rename to", "Binary files"}
LineType ==
    [head : LineHeads] \cup [head : LineHeads, start : Nat, count : Nat]
    \cup [head : LineHeads, path : Paths \cup {NoPath}]
    \cup [head : LineHeads, old : Paths \cup {NoPath}, path : Paths \cup {NoPath}]

LEMMA LineOfType ==
  ASSUME NEW s \in LineHeads
  PROVE  /\ [head |-> s] \in LineType
         /\ \A p \in Paths \cup {NoPath} : [head |-> s, path |-> p] \in LineType
         /\ \A o, p \in Paths \cup {NoPath} : [head |-> s, old |-> o, path |-> p] \in LineType
         /\ \A i, n \in Nat : [head |-> s, start |-> i, count |-> n] \in LineType
  BY DEF LineType

LEMMA HunkLinesType ==
  ASSUME NEW h \in HunkType
  PROVE  HunkLines(h) \in Seq(LineType)
  <1> DEFINE header == [head |-> "@@", start |-> h.start, count |-> h.count]
             m == IF h.disguised THEN [head |-> "---", path |-> NoPath] ELSE [head |-> "-"]
             p == IF h.disguised THEN [head |-> "+++", path |-> NoPath] ELSE [head |-> "+"]
  <1>1. h.start \in Nat /\ h.count \in Nat /\ h.removed \in Nat /\ h.disguised \in BOOLEAN
    BY DEF HunkType
  <1>2. header \in LineType
    BY <1>1, LineOfType DEF LineHeads
  <1>3. m \in LineType
    BY <1>1, LineOfType DEF LineHeads
  <1>4. p \in LineType
    BY <1>1, LineOfType DEF LineHeads
  <1>5. HunkLines(h) = <<header>> \o [i \in 1..h.removed |-> m] \o [i \in 1..h.count |-> p]
    BY DEF HunkLines
  <1> HIDE DEF header, m, p
  <1>6. /\ <<header>> \in Seq(LineType) /\ [i \in 1..h.removed |-> m] \in Seq(LineType)
        /\ [i \in 1..h.count |-> p] \in Seq(LineType)
    BY <1>1, <1>2, <1>3, <1>4
  <1> QED BY <1>5, <1>6, ConcatProperties

AddsUpTo(hunks, n) == UNION {HunkAdds(hunks[i]) : i \in 1..n}
PointsUpTo(hunks, n) == UNION {HunkPoints(hunks[i]) : i \in 1..n}

LEMMA HunksAddAll ==
  ASSUME NEW hunks \in Seq(HunkType)
  PROVE  /\ AddsUpTo(hunks, Len(hunks)) = UNION {LinesOfHunk(h) : h \in ToSet(hunks)}
         /\ PointsUpTo(hunks, Len(hunks)) =
               {IF h.start > 1 THEN h.start ELSE 1 : h \in {g \in ToSet(hunks) : g.count = 0}}
  <1>1. Len(hunks) \in Nat /\ DOMAIN hunks = 1..Len(hunks) /\ \A i \in 1..Len(hunks) : hunks[i] \in HunkType
    BY ElementOfSeq
  <1>2. ToSet(hunks) = {hunks[i] : i \in 1..Len(hunks)}
    BY <1>1 DEF ToSet
  <1>3. \A h \in HunkType : h.start \in Nat /\ h.count \in Nat
    BY DEF HunkType
  <1>4. \A h \in HunkType : HunkAdds(h) = LinesOfHunk(h)
    BY <1>3 DEF HunkAdds, LinesOfHunk
  <1>5. AddsUpTo(hunks, Len(hunks)) = UNION {LinesOfHunk(h) : h \in ToSet(hunks)}
    BY <1>1, <1>2, <1>4 DEF AddsUpTo
  <1>6. \A h \in HunkType : HunkPoints(h) = IF h.count = 0 THEN {PointOf(h)} ELSE {}
    BY <1>3 DEF HunkPoints
  <1>7. PointsUpTo(hunks, Len(hunks)) = {PointOf(h) : h \in {g \in ToSet(hunks) : g.count = 0}}
    <2>1. ASSUME NEW x \in PointsUpTo(hunks, Len(hunks))
          PROVE  x \in {PointOf(h) : h \in {g \in ToSet(hunks) : g.count = 0}}
      <3>1. PICK i \in 1..Len(hunks) : x \in HunkPoints(hunks[i])
        BY DEF PointsUpTo
      <3>2. hunks[i] \in HunkType /\ hunks[i] \in ToSet(hunks)
        BY <1>1, <1>2
      <3>3. hunks[i].count = 0 /\ x = PointOf(hunks[i])
        BY <1>6, <3>1, <3>2
      <3> QED BY <3>2, <3>3
    <2>2. ASSUME NEW h \in ToSet(hunks), h.count = 0 PROVE PointOf(h) \in PointsUpTo(hunks, Len(hunks))
      <3>1. PICK i \in 1..Len(hunks) : h = hunks[i]
        BY <1>2
      <3>2. PointOf(h) \in HunkPoints(hunks[i])
        BY <1>1, <1>6, <2>2, <3>1
      <3> QED BY <3>2 DEF PointsUpTo
    <2> QED BY <2>1, <2>2
  <1> QED BY <1>5, <1>7 DEF PointOf

LEMMA OneMoreHunk ==
  ASSUME NEW hunks, NEW n \in Nat, n > 0
  PROVE  /\ AddsUpTo(hunks, n) = AddsUpTo(hunks, n - 1) \cup HunkAdds(hunks[n])
         /\ PointsUpTo(hunks, n) = PointsUpTo(hunks, n - 1) \cup HunkPoints(hunks[n])
  <1>1. 1..n = (1..(n - 1)) \cup {n}
    OBVIOUS
  <1> QED BY <1>1 DEF AddsUpTo, PointsUpTo

\* The hunks of a section, from its first header on.
HunksFrom(r, lines, files, minus, path, old, status, added, points) ==
    \E q, t : /\ Reads(r, lines, q)
              /\ IsReader(q, Filed(files, t), t, minus, q.inHunks)
              /\ IsSection(t, path, old, status, FALSE, added, points)

LEMMA HunksAreRead ==
  ASSUME NEW hunks \in Seq(HunkType),
         NEW r, NEW s, NEW files, NEW minus, NEW path, NEW old, NEW status,
         IsReader(r, Filed(files, s), s, minus, FALSE),
         IsSection(s, path, old, status, FALSE, {}, {}), status # "none", path # NoPath
  PROVE  /\ FlattenSeq([i \in DOMAIN hunks |-> HunkLines(hunks[i])]) \in Seq(LineType)
         /\ HunksFrom(r, FlattenSeq([i \in DOMAIN hunks |-> HunkLines(hunks[i])]), files, minus,
                      path, old, status, AddsUpTo(hunks, Len(hunks)), PointsUpTo(hunks, Len(hunks)))
  <1> DEFINE N == Len(hunks)
             parts == [i \in DOMAIN hunks |-> HunkLines(hunks[i])]
  <1>1. N \in Nat /\ DOMAIN hunks = 1..N /\ \A i \in 1..N : hunks[i] \in HunkType
    BY ElementOfSeq
  <1>2. \A n \in 1..N : parts[n] = HunkLines(hunks[n]) /\ HunkLines(hunks[n]) \in Seq(LineType)
    BY <1>1, HunkLinesType
  <1>3. parts \in Seq(Seq(LineType)) /\ Len(parts) = N
    <2>1. parts = [n \in 1..N |-> parts[n]]
      BY <1>1
    <2>2. \A n \in 1..N : parts[n] \in Seq(LineType)
      BY <1>2
    <2> HIDE DEF parts, N
    <2> QED BY <1>1, <2>1, <2>2
  <1> HIDE DEF parts
  <1>4. PICK joined : AreJoined(joined, parts, N, LineType) /\ FlattenSeq(parts) = joined[N]
    BY <1>3, FlattenSteps
  <1>5. /\ joined[0] = <<>> /\ \A n \in 0..N : joined[n] \in Seq(LineType)
        /\ \A n \in 1..N : joined[n] = joined[n - 1] \o HunkLines(hunks[n])
    BY <1>2, <1>4 DEF AreJoined
  <1> DEFINE Read(n) == HunksFrom(r, joined[n], files, minus, path, old, status,
                                  AddsUpTo(hunks, n), PointsUpTo(hunks, n))
             S == {n \in 0..N : Read(n)}
  <1>6. 0 \in S
    <2>1. Reads(r, joined[0], r)
      BY <1>5, ReadsNothing
    <2>2. AddsUpTo(hunks, 0) = {} /\ PointsUpTo(hunks, 0) = {}
      BY DEF AddsUpTo, PointsUpTo
    <2>3. IsReader(r, Filed(files, s), s, minus, r.inHunks)
      BY DEF IsReader
    <2>4. Read(0)
      BY <2>1, <2>2, <2>3 DEF HunksFrom
    <2> HIDE DEF Read
    <2> QED BY <1>1, <2>4
  <1>7. ASSUME NEW n \in 1..N, n - 1 \in S PROVE n \in S
    <2>1. Read(n - 1)
      BY <1>7
    <2>2. PICK p, u : /\ Reads(r, joined[n - 1], p)
                      /\ IsReader(p, Filed(files, u), u, minus, p.inHunks)
                      /\ IsSection(u, path, old, status, FALSE, AddsUpTo(hunks, n - 1), PointsUpTo(hunks, n - 1))
      BY <2>1 DEF HunksFrom
    <2>3. hunks[n] \in HunkType /\ n - 1 \in 0..N /\ n \in 0..N /\ n \in Nat /\ n > 0
      BY <1>1
    <2>4. PICK q, t : /\ Reads(p, HunkLines(hunks[n]), q)
                      /\ IsReader(q, Filed(files, t), t, minus, TRUE)
                      /\ IsSection(t, path, old, status, FALSE,
                                   AddsUpTo(hunks, n - 1) \cup HunkAdds(hunks[n]),
                                   PointsUpTo(hunks, n - 1) \cup HunkPoints(hunks[n]))
      BY <2>2, <2>3, HunkIsRead
    <2>5. Reads(r, joined[n], q)
      <3>1. joined[n - 1] \in Seq(LineType) /\ HunkLines(hunks[n]) \in Seq(LineType)
        BY <1>2, <1>5, <2>3
      <3>2. Reads(r, joined[n - 1] \o HunkLines(hunks[n]), q)
        BY <2>2, <2>4, <3>1, ReadsBoth
      <3> QED BY <1>5, <3>2
    <2>6. IsSection(t, path, old, status, FALSE, AddsUpTo(hunks, n), PointsUpTo(hunks, n))
      BY <2>3, <2>4, OneMoreHunk
    <2>7. IsReader(q, Filed(files, t), t, minus, q.inHunks)
      BY <2>4 DEF IsReader
    <2>8. Read(n)
      BY <2>5, <2>6, <2>7 DEF HunksFrom
    <2> HIDE DEF Read
    <2> QED BY <2>3, <2>8
  <1>8. 0..N \subseteq S
    <2> HIDE DEF S
    <2> QED BY <1>1, <1>6, <1>7, UpTo
  <1>9. Read(N) /\ joined[N] \in Seq(LineType)
    <2>1. N \in 0..N
      BY <1>1
    <2>2. N \in S
      BY <1>8, <2>1
    <2> HIDE DEF Read
    <2> QED BY <1>5, <2>1, <2>2
  <1> QED BY <1>4, <1>9 DEF parts

\* What a whole section leaves in the files: nothing of a change without a patch.
SectionKept(c, before, after) ==
    IF HasPatch(c)
    THEN \E t : /\ after = Filed(before, t)
                /\ IsSection(t, c.path, c.old, c.status, c.binary, AddedBy(c), PointsBy(c))
    ELSE after = before

StatusLines(c) ==
    CASE c.status = "added"    -> <<[head |-> "new file mode"]>>
      [] c.status = "deleted"  -> <<[head |-> "deleted file mode"]>>
      [] c.status = "renamed"  -> <<[head |-> "rename from", path |-> c.old],
                                    [head |-> "rename to", path |-> c.path]>>
      [] c.status = "modified" -> <<>>
BodyLines(c) ==
    IF c.binary THEN <<[head |-> "Binary files", old |-> SideOld(c), path |-> SideNew(c)]>>
    ELSE IF c.hunks = <<>> THEN <<>>
    ELSE <<[head |-> "---", path |-> SideOld(c)], [head |-> "+++", path |-> SideNew(c)]>>
         \o FlattenSeq([i \in DOMAIN c.hunks |-> HunkLines(c.hunks[i])])

LEMMA StatusLinesRead ==
  ASSUME NEW c \in ChangeType, c.status = "renamed" <=> c.old # NoPath,
         NEW r, NEW files, IsReader(r, files, NewSection, NoPath, FALSE)
  PROVE  /\ StatusLines(c) \in Seq(LineType)
         /\ \E q, t : /\ Reads(r, StatusLines(c), q)
                      /\ IsReader(q, IF c.status = "renamed" THEN Filed(files, t) ELSE files,
                                  t, NoPath, FALSE)
                      /\ IsSection(t, IF c.status = "renamed" THEN c.path ELSE NoPath, c.old,
                                   c.status, FALSE, {}, {})
  <1>1. c.path \in Paths /\ c.old \in Paths \cup {NoPath} /\ c.status \in Statuses /\ c.path # NoPath
    BY ChangeSetAssumption DEF ChangeType
  <1>2. IsSection(NewSection, NoPath, NoPath, "modified", FALSE, {}, {})
    BY DEF IsSection, SectionParts, NewSection, NoSection
  <1>3. CASE c.status = "added"
    <2> DEFINE line == [head |-> "new file mode"]
    <2>1. StatusLines(c) = <<line>> /\ line.head = "new file mode" /\ line \in LineType
      BY <1>3, LineOfType DEF StatusLines, LineHeads
    <2>2. c.old = NoPath
      BY <1>3
    <2> HIDE DEF line
    <2>3. Reads(r, <<line>>, ReadLine(r, line)) /\ <<line>> \in Seq(LineType)
      BY <2>1, OneLine, ReadsOneLine, Zenon
    <2>4. PICK t : /\ IsReader(ReadLine(r, line), files, t, NoPath, FALSE)
                   /\ IsSection(t, NoPath, NoPath, "added", FALSE, {}, {})
      BY <1>2, <2>1, StatusLine
    <2> QED BY <1>3, <2>1, <2>2, <2>3, <2>4
  <1>4. CASE c.status = "deleted"
    <2> DEFINE line == [head |-> "deleted file mode"]
    <2>1. StatusLines(c) = <<line>> /\ line.head = "deleted file mode" /\ line \in LineType
      BY <1>4, LineOfType DEF StatusLines, LineHeads
    <2>2. c.old = NoPath
      BY <1>4
    <2> HIDE DEF line
    <2>3. Reads(r, <<line>>, ReadLine(r, line)) /\ <<line>> \in Seq(LineType)
      BY <2>1, OneLine, ReadsOneLine, Zenon
    <2>4. PICK t : /\ IsReader(ReadLine(r, line), files, t, NoPath, FALSE)
                   /\ IsSection(t, NoPath, NoPath, "deleted", FALSE, {}, {})
      BY <1>2, <2>1, StatusLine
    <2> QED BY <1>4, <2>1, <2>2, <2>3, <2>4
  <1>5. CASE c.status = "renamed"
    <2> DEFINE from == [head |-> "rename from", path |-> c.old]
               to == [head |-> "rename to", path |-> c.path]
    <2>1. StatusLines(c) = <<from, to>>
      BY <1>5 DEF StatusLines
    <2>2. from \in LineType /\ to \in LineType
      BY <1>1, LineOfType DEF LineHeads
    <2>3. PICK q, t : /\ Reads(r, <<from, to>>, q)
                      /\ IsReader(q, Filed(files, t), t, NoPath, FALSE)
                      /\ IsSection(t, c.path, c.old, "renamed", FALSE, {}, {})
      BY <1>1, <1>2, RenameLines
    <2> HIDE DEF from, to
    <2>4. <<from, to>> \in Seq(LineType)
      BY <2>2
    <2> QED BY <1>5, <2>1, <2>3, <2>4
  <1>6. CASE c.status = "modified"
    <2>1. StatusLines(c) = <<>> /\ c.old = NoPath
      BY <1>6 DEF StatusLines
    <2>2. Reads(r, <<>>, r)
      BY ReadsNothing
    <2>3. <<>> \in Seq(LineType)
      OBVIOUS
    <2>4. /\ IsReader(r, files, NewSection, NoPath, FALSE)
          /\ IsSection(NewSection, NoPath, c.old, c.status, FALSE, {}, {})
      BY <1>2, <1>6, <2>1
    <2> QED BY <1>6, <2>1, <2>2, <2>3, <2>4
  <1> QED BY <1>1, <1>3, <1>4, <1>5, <1>6 DEF Statuses

LEMMA BodyLinesRead ==
  ASSUME NEW c \in ChangeType, c.status = "renamed" <=> c.old # NoPath,
         NEW r, NEW s, NEW files,
         IsReader(r, IF c.status = "renamed" THEN Filed(files, s) ELSE files, s, NoPath, FALSE),
         IsSection(s, IF c.status = "renamed" THEN c.path ELSE NoPath, c.old, c.status, FALSE, {}, {})
  PROVE  /\ BodyLines(c) \in Seq(LineType)
         /\ \E q : /\ Reads(r, BodyLines(c), q)
                   /\ DOMAIN q = ReaderParts
                   /\ SectionKept(c, files, q.files)
  <1> DEFINE before == IF c.status = "renamed" THEN Filed(files, s) ELSE files
  <1>1. /\ c.path \in Paths /\ c.old \in Paths \cup {NoPath} /\ c.status \in Statuses /\ c.path # NoPath
        /\ c.hunks \in Seq(HunkType) /\ c.binary \in BOOLEAN /\ c.status # "none"
    BY ChangeSetAssumption DEF ChangeType, Statuses
  <1>2. /\ SideOld(c) \in Paths \cup {NoPath} /\ SideNew(c) \in Paths \cup {NoPath}
        /\ c.path = IF SideNew(c) = NoPath THEN SideOld(c) ELSE SideNew(c)
    BY <1>1 DEF SideOld, SideNew
  <1>3. ASSUME NEW t, t.path = c.path PROVE Filed(before, t) = Filed(files, t)
    <2>1. CASE c.status = "renamed"
      <3>1. s.path = c.path
        BY <2>1 DEF IsSection
      <3> QED BY <1>3, <2>1, <3>1, FiledTwice
    <2>2. CASE c.status # "renamed"
      BY <2>2
    <2> QED BY <2>1, <2>2
  <1>4. IsReader(r, before, s, NoPath, FALSE)
    OBVIOUS
  <1> HIDE DEF before
  <1>5. CASE c.binary
    <2> DEFINE line == [head |-> "Binary files", old |-> SideOld(c), path |-> SideNew(c)]
    <2>1. BodyLines(c) = <<line>> /\ line.head = "Binary files"
          /\ line.old = SideOld(c) /\ line.path = SideNew(c)
      BY <1>5 DEF BodyLines
    <2>2. line \in LineType
      BY <1>2, LineOfType DEF LineHeads
    <2> HIDE DEF line
    <2>3. Reads(r, <<line>>, ReadLine(r, line)) /\ <<line>> \in Seq(LineType)
      BY <2>2, ReadsOneLine
    <2>4. PICK t : /\ IsReader(ReadLine(r, line), Filed(before, t), t, NoPath, FALSE)
                   /\ IsSection(t, c.path, c.old, c.status, TRUE, {}, {})
      <3>1. c.path = IF line.path # NoPath THEN line.path ELSE line.old
        BY <1>2, <2>1
      <3> QED BY <1>1, <1>4, <2>1, <3>1, BinaryLine
    <2>5. AddedBy(c) = {} /\ PointsBy(c) = {} /\ HasPatch(c)
      BY <1>5 DEF AddedBy, PointsBy, HasPatch
    <2>6. IsSection(t, c.path, c.old, c.status, c.binary, AddedBy(c), PointsBy(c))
      BY <1>1, <1>5, <2>4, <2>5 DEF IsSection
    <2>7. Filed(before, t) = Filed(files, t)
      BY <1>3, <2>6 DEF IsSection
    <2>8. DOMAIN ReadLine(r, line) = ReaderParts /\ ReadLine(r, line).files = Filed(files, t)
      BY <2>4, <2>7 DEF IsReader
    <2>9. SectionKept(c, files, ReadLine(r, line).files)
      BY <2>5, <2>6, <2>8 DEF SectionKept
    <2> QED BY <2>1, <2>3, <2>8, <2>9
  <1>6. CASE ~c.binary /\ c.hunks = <<>>
    <2>1. BodyLines(c) = <<>> /\ Reads(r, <<>>, r)
      BY <1>6, ReadsNothing DEF BodyLines
    <2>2. AddedBy(c) = {} /\ PointsBy(c) = {}
      BY <1>6 DEF AddedBy, PointsBy, ToSet
    <2>3. DOMAIN r = ReaderParts /\ r.files = before
      BY <1>4 DEF IsReader
    <2>4. CASE c.status = "renamed"
      <3>1. HasPatch(c) /\ before = Filed(files, s)
        BY <2>4 DEF HasPatch, before
      <3>2. IsSection(s, c.path, c.old, c.status, c.binary, AddedBy(c), PointsBy(c))
        BY <1>1, <1>6, <2>2, <2>4 DEF IsSection
      <3>3. SectionKept(c, files, r.files)
        BY <2>3, <3>1, <3>2 DEF SectionKept
      <3> QED BY <2>1, <2>3, <3>3
    <2>5. CASE c.status # "renamed"
      <3>1. ~HasPatch(c) /\ before = files
        BY <1>6, <2>5 DEF HasPatch, before
      <3>2. SectionKept(c, files, r.files)
        BY <2>3, <3>1 DEF SectionKept
      <3> QED BY <2>1, <2>3, <3>2
    <2> QED BY <2>4, <2>5
  <1>7. CASE ~c.binary /\ c.hunks # <<>>
    <2> DEFINE from == [head |-> "---", path |-> SideOld(c)]
               to == [head |-> "+++", path |-> SideNew(c)]
               rest == FlattenSeq([i \in DOMAIN c.hunks |-> HunkLines(c.hunks[i])])
    <2>1. BodyLines(c) = <<from, to>> \o rest
      BY <1>7 DEF BodyLines
    <2>2. from \in LineType /\ to \in LineType
      BY <1>2, LineOfType DEF LineHeads
    <2>3. PICK p, u : /\ Reads(r, <<from, to>>, p)
                      /\ IsReader(p, Filed(before, u), u, SideOld(c), FALSE)
                      /\ IsSection(u, c.path, c.old, c.status, FALSE, {}, {})
      BY <1>1, <1>2, <1>4, SideLines
    <2>4. Filed(before, u) = Filed(files, u)
      BY <1>3, <2>3 DEF IsSection
    <2>5. /\ rest \in Seq(LineType)
          /\ HunksFrom(p, rest, files, SideOld(c), c.path, c.old, c.status,
                       AddsUpTo(c.hunks, Len(c.hunks)), PointsUpTo(c.hunks, Len(c.hunks)))
      <3>1. IsReader(p, Filed(files, u), u, SideOld(c), FALSE)
        BY <2>3, <2>4
      <3> QED BY <1>1, <2>3, <3>1, HunksAreRead
    <2>6. PICK q, t : /\ Reads(p, rest, q)
                      /\ IsReader(q, Filed(files, t), t, SideOld(c), q.inHunks)
                      /\ IsSection(t, c.path, c.old, c.status, FALSE,
                                   AddsUpTo(c.hunks, Len(c.hunks)), PointsUpTo(c.hunks, Len(c.hunks)))
      BY <2>5 DEF HunksFrom
    <2>7. AddsUpTo(c.hunks, Len(c.hunks)) = AddedBy(c) /\ PointsUpTo(c.hunks, Len(c.hunks)) = PointsBy(c)
      BY <1>1, <1>7, HunksAddAll DEF AddedBy, PointsBy
    <2>8. IsSection(t, c.path, c.old, c.status, c.binary, AddedBy(c), PointsBy(c))
      BY <1>1, <1>7, <2>6, <2>7 DEF IsSection
    <2> HIDE DEF from, to, rest
    <2>9. <<from, to>> \in Seq(LineType)
      BY <2>2
    <2>10. Reads(r, <<from, to>> \o rest, q) /\ <<from, to>> \o rest \in Seq(LineType)
      BY <2>3, <2>5, <2>6, <2>9, ReadsBoth, ConcatProperties
    <2>11. DOMAIN q = ReaderParts /\ q.files = Filed(files, t)
      BY <2>6 DEF IsReader
    <2>12. SectionKept(c, files, q.files)
      BY <1>7, <2>8, <2>11 DEF SectionKept, HasPatch
    <2> QED BY <2>1, <2>10, <2>11, <2>12
  <1> QED BY <1>5, <1>6, <1>7

LEMMA SectionIsRead ==
  ASSUME NEW c \in ChangeType, c.status = "renamed" <=> c.old # NoPath,
         NEW r, DOMAIN r = ReaderParts
  PROVE  /\ Section(c) \in Seq(LineType)
         /\ \E q : /\ Reads(r, Section(c), q)
                   /\ DOMAIN q = ReaderParts
                   /\ SectionKept(c, r.files, q.files)
  <1> DEFINE line == [head |-> "diff --git"]
             p == ReadLine(r, line)
  <1>1. Section(c) = <<line>> \o StatusLines(c) \o BodyLines(c)
    BY DEF Section, StatusLines, BodyLines
  <1>2. line.head = "diff --git" /\ line \in LineType
    BY LineOfType DEF LineHeads
  <1> HIDE DEF line
  <1>3. IsReader(p, r.files, NewSection, NoPath, FALSE)
    BY <1>2, DiffLine
  <1>4. Reads(r, <<line>>, p) /\ <<line>> \in Seq(LineType)
    BY <1>2, OneLine, ReadsOneLine, Zenon
  <1> HIDE DEF p
  <1>5. StatusLines(c) \in Seq(LineType)
    BY <1>3, StatusLinesRead
  <1>6. PICK m, s : /\ Reads(p, StatusLines(c), m)
                    /\ IsReader(m, IF c.status = "renamed" THEN Filed(r.files, s) ELSE r.files,
                                s, NoPath, FALSE)
                    /\ IsSection(s, IF c.status = "renamed" THEN c.path ELSE NoPath, c.old,
                                 c.status, FALSE, {}, {})
    BY <1>3, StatusLinesRead
  <1>7. BodyLines(c) \in Seq(LineType)
    BY <1>6, BodyLinesRead
  <1>8. PICK q : /\ Reads(m, BodyLines(c), q)
                 /\ DOMAIN q = ReaderParts
                 /\ SectionKept(c, r.files, q.files)
    BY <1>6, BodyLinesRead
  <1>9. Reads(r, <<line>> \o StatusLines(c), m) /\ <<line>> \o StatusLines(c) \in Seq(LineType)
    BY <1>4, <1>5, <1>6, ReadsBoth, ConcatProperties
  <1>10. /\ Reads(r, (<<line>> \o StatusLines(c)) \o BodyLines(c), q)
         /\ (<<line>> \o StatusLines(c)) \o BodyLines(c) \in Seq(LineType)
    BY <1>7, <1>8, <1>9, ReadsBoth, ConcatProperties
  <1> QED BY <1>1, <1>8, <1>10

-----------------------------------------------------------------------------
(* The whole patch.                                                        *)

LEMMA FiledDomain ==
  ASSUME NEW files, NEW t
  PROVE  DOMAIN Filed(files, t) = DOMAIN files \cup {t.path}
  BY DEF Filed

LEMMA FiledOwn ==
  ASSUME NEW files, NEW t
  PROVE  Filed(files, t)[t.path] = t
  BY DEF Filed

LEMMA FiledOther ==
  ASSUME NEW files, NEW t, NEW q \in DOMAIN files, q # t.path
  PROVE  Filed(files, t)[q] = files[q]
  BY DEF Filed

\* What the section shown of a change leaves in the files.
ShownKept(c, excluded, before, after) ==
    IF c.path \notin excluded THEN SectionKept(c, before, after)
    ELSE IF c.status = "renamed" THEN SectionKept(Removal(c), before, after)
    ELSE after = before

LEMMA RemovalType ==
  ASSUME NEW c \in ChangeType, c.old # NoPath
  PROVE  /\ Removal(c) \in ChangeType
         /\ Removal(c).status = "renamed" <=> Removal(c).old # NoPath
         /\ Removal(c).path = c.old
  <1> DEFINE h == [start |-> 0, count |-> 0, removed |-> 1, disguised |-> FALSE]
  <1>1. c.old \in Paths /\ c.binary \in BOOLEAN
    BY DEF ChangeType
  <1>2. <<h>> \in Seq(HunkType)
    <2>1. h \in HunkType
      BY DEF HunkType
    <2> HIDE DEF h
    <2> QED BY <2>1
  <1> HIDE DEF h
  <1>3. Removal(c) = [path |-> c.old, old |-> NoPath, status |-> "deleted", binary |-> c.binary, hunks |-> <<h>>]
    BY DEF Removal, h
  <1> QED BY <1>1, <1>2, <1>3 DEF ChangeType, Statuses

LEMMA ShownIsRead ==
  ASSUME NEW c \in ChangeType, c.status = "renamed" <=> c.old # NoPath,
         NEW r, DOMAIN r = ReaderParts, NEW excluded
  PROVE  /\ Shown(c, excluded) \in Seq(LineType)
         /\ \E q : /\ Reads(r, Shown(c, excluded), q)
                   /\ DOMAIN q = ReaderParts
                   /\ ShownKept(c, excluded, r.files, q.files)
  <1>1. CASE c.path \notin excluded
    BY <1>1, SectionIsRead DEF Shown, ShownKept
  <1>2. CASE c.path \in excluded /\ c.status = "renamed"
    <2>1. Removal(c) \in ChangeType /\ (Removal(c).status = "renamed" <=> Removal(c).old # NoPath)
      BY <1>2, RemovalType
    <2> DEFINE d == Removal(c)
    <2>2. Shown(c, excluded) = Section(d)
      BY <1>2 DEF Shown
    <2>3. \A before, after : ShownKept(c, excluded, before, after) <=> SectionKept(d, before, after)
      BY <1>2 DEF ShownKept
    <2> HIDE DEF d
    <2>4. d \in ChangeType /\ (d.status = "renamed" <=> d.old # NoPath)
      BY <2>1 DEF d
    <2> QED BY <2>2, <2>3, <2>4, SectionIsRead
  <1>3. CASE c.path \in excluded /\ c.status # "renamed"
    <2>1. Shown(c, excluded) = <<>> /\ ShownKept(c, excluded, r.files, r.files)
      BY <1>3 DEF Shown, ShownKept
    <2>2. Reads(r, <<>>, r)
      BY ReadsNothing
    <2> QED BY <2>1, <2>2
  <1> QED BY <1>1, <1>2, <1>3

\* What the reader's files are after n changes of a pull request: the shown changes read
\* so far that have a patch, and no other change.
KeptOf(c, files) ==
    IF HasPatch(c)
    THEN /\ c.path \in DOMAIN files
         /\ IsSection(files[c.path], c.path, c.old, c.status, c.binary, AddedBy(c), PointsBy(c))
    ELSE c.path \notin DOMAIN files
KeptUpTo(pull, excluded, n, files) ==
    \A i \in 1..Len(pull) : pull[i].path \notin excluded =>
        IF i <= n THEN KeptOf(pull[i], files) ELSE pull[i].path \notin DOMAIN files

\* A section of another path changes nothing of a change's own.
LEMMA KeptStays ==
  ASSUME NEW c, NEW d, NEW before, NEW after, SectionKept(d, before, after), c.path # d.path
  PROVE  /\ c.path \in DOMAIN after <=> c.path \in DOMAIN before
         /\ KeptOf(c, before) => KeptOf(c, after)
  <1>1. CASE HasPatch(d)
    <2>1. PICK t : after = Filed(before, t) /\ t.path = d.path
      BY <1>1 DEF SectionKept, IsSection
    <2>2. /\ DOMAIN after = DOMAIN before \cup {d.path}
          /\ \A q \in DOMAIN before : q # d.path => after[q] = before[q]
      <3>1. DOMAIN Filed(before, t) = DOMAIN before \cup {t.path}
        BY FiledDomain
      <3>2. \A q \in DOMAIN before : q # t.path => Filed(before, t)[q] = before[q]
        BY FiledOther
      <3> QED BY <2>1, <3>1, <3>2, Zenon
    <2> QED BY <2>2 DEF KeptOf
  <1>2. CASE ~HasPatch(d)
    BY <1>2 DEF SectionKept
  <1> QED BY <1>1, <1>2

LEMMA OneMoreShown ==
  ASSUME NEW pull, IsPull(pull), NEW excluded, NEW n \in 1..Len(pull), NEW before, NEW after,
         KeptUpTo(pull, excluded, n - 1, before), ShownKept(pull[n], excluded, before, after)
  PROVE  KeptUpTo(pull, excluded, n, after)
  <1> DEFINE c == pull[n]
  <1>1. Len(pull) \in Nat /\ DOMAIN pull = 1..Len(pull) /\ \A i \in 1..Len(pull) : pull[i] \in ChangeType
    BY PullTypes
  <1>2. \A i, j \in 1..Len(pull) : (pull[i].path = pull[j].path => i = j) /\ pull[i].old # pull[j].path
    BY <1>1 DEF IsPull
  <1>3. c \in ChangeType /\ (c.status = "renamed" <=> c.old # NoPath)
    BY <1>1 DEF IsPull
  <1> SUFFICES ASSUME NEW i \in 1..Len(pull), pull[i].path \notin excluded
               PROVE  IF i <= n THEN KeptOf(pull[i], after) ELSE pull[i].path \notin DOMAIN after
    BY DEF KeptUpTo
  <1>4. IF i <= n - 1 THEN KeptOf(pull[i], before) ELSE pull[i].path \notin DOMAIN before
    BY DEF KeptUpTo
  <1>5. i \in Nat /\ n \in Nat
    BY <1>1
  <1>6. CASE c.path \notin excluded
    <2>1. SectionKept(c, before, after)
      BY <1>6 DEF ShownKept
    <2>2. CASE i = n
      <3>1. c.path \notin DOMAIN before
        BY <1>4, <1>5, <2>2
      <3>2. KeptOf(c, after)
        <4>1. CASE HasPatch(c)
          <5>1. PICK t : /\ after = Filed(before, t)
                         /\ IsSection(t, c.path, c.old, c.status, c.binary, AddedBy(c), PointsBy(c))
            BY <2>1, <4>1 DEF SectionKept
          <5>2. c.path \in DOMAIN after /\ after[c.path] = t
            <6>1. t.path = c.path
              BY <5>1 DEF IsSection
            <6>2. DOMAIN after = DOMAIN before \cup {t.path}
              BY <5>1, FiledDomain
            <6>3. after[t.path] = t /\ t.path \in DOMAIN after
              BY <5>1, <6>2, FiledOwn
            <6> QED BY <6>1, <6>2, <6>3, Zenon
          <5> QED BY <4>1, <5>1, <5>2 DEF KeptOf
        <4>2. CASE ~HasPatch(c)
          BY <2>1, <3>1, <4>2 DEF SectionKept, KeptOf
        <4> QED BY <4>1, <4>2
      <3> QED BY <1>5, <2>2, <3>2
    <2>3. CASE i # n
      <3>1. pull[i].path # c.path
        BY <1>2, <2>3
      <3>2. /\ pull[i].path \in DOMAIN after <=> pull[i].path \in DOMAIN before
            /\ KeptOf(pull[i], before) => KeptOf(pull[i], after)
        BY <2>1, <3>1, KeptStays
      <3>3. i <= n <=> i <= n - 1
        BY <1>5, <2>3
      <3> QED BY <1>4, <3>2, <3>3
    <2> QED BY <2>2, <2>3
  <1>7. CASE c.path \in excluded
    <2>1. i # n
      BY <1>7
    <2>2. i <= n <=> i <= n - 1
      BY <1>5, <2>1
    <2>3. CASE c.status = "renamed"
      <3>1. SectionKept(Removal(c), before, after)
        BY <1>7, <2>3 DEF ShownKept
      <3>2. pull[i].path # Removal(c).path
        BY <1>2, <1>3, <2>3, RemovalType
      <3>3. /\ pull[i].path \in DOMAIN after <=> pull[i].path \in DOMAIN before
            /\ KeptOf(pull[i], before) => KeptOf(pull[i], after)
        BY <3>1, <3>2, KeptStays
      <3> QED BY <1>4, <2>2, <3>3
    <2>4. CASE c.status # "renamed"
      <3>1. after = before
        BY <1>7, <2>4 DEF ShownKept
      <3> QED BY <1>4, <2>2, <3>1
    <2> QED BY <2>3, <2>4
  <1> QED BY <1>6, <1>7

\* The reader of the patch keeps of every shown change exactly the lines its hunks add
\* and the places where it only removes, and its status, under the path the list of
\* files has it: removed and added lines that look like headers are not taken for any.
THEOREM PatchRead ==
  ASSUME NEW pull, IsPull(pull), NEW excluded
  PROVE  \A i \in DOMAIN pull : pull[i].path \notin excluded =>
            KeptOf(pull[i], ParsePatch(GitPatch(pull, excluded)))
  <1> DEFINE N == Len(pull)
             parts == [i \in DOMAIN pull |-> Shown(pull[i], excluded)]
  <1>1. N \in Nat /\ DOMAIN pull = 1..N
        /\ \A n \in 1..N : pull[n] \in ChangeType /\ (pull[n].status = "renamed" <=> pull[n].old # NoPath)
    BY PullTypes DEF IsPull
  <1>2. DOMAIN Reader = ReaderParts /\ DOMAIN Reader.files = {}
    BY DEF Reader, ReaderParts
  <1>3. \A n \in 1..N : parts[n] = Shown(pull[n], excluded) /\ Shown(pull[n], excluded) \in Seq(LineType)
    BY <1>1, <1>2, ShownIsRead
  <1>4. parts \in Seq(Seq(LineType)) /\ Len(parts) = N
    <2>1. parts = [n \in 1..N |-> parts[n]]
      BY <1>1
    <2>2. \A n \in 1..N : parts[n] \in Seq(LineType)
      BY <1>3
    <2> HIDE DEF parts, N
    <2> QED BY <1>1, <2>1, <2>2
  <1> HIDE DEF parts
  <1>5. PICK joined : AreJoined(joined, parts, N, LineType) /\ FlattenSeq(parts) = joined[N]
    BY <1>4, FlattenSteps
  <1>6. /\ joined[0] = <<>> /\ \A n \in 0..N : joined[n] \in Seq(LineType)
        /\ \A n \in 1..N : joined[n] = joined[n - 1] \o Shown(pull[n], excluded)
    BY <1>3, <1>5 DEF AreJoined
  <1> HIDE DEF N
  <1> DEFINE Read(n) == \E q : /\ Reads(Reader, joined[n], q)
                               /\ DOMAIN q = ReaderParts
                               /\ KeptUpTo(pull, excluded, n, q.files)
             S == {n \in 0..N : Read(n)}
  <1>7. 0 \in S
    <2>1. Reads(Reader, joined[0], Reader)
      BY <1>6, ReadsNothing
    <2>2. KeptUpTo(pull, excluded, 0, Reader.files)
      <3>1. \A i \in 1..N : ~(i <= 0)
        BY <1>1
      <3> QED BY <1>2, <3>1 DEF KeptUpTo, N
    <2>3. Read(0)
      BY <1>2, <2>1, <2>2
    <2> HIDE DEF Read
    <2> QED BY <1>1, <2>3
  <1>8. ASSUME NEW n \in 1..N, n - 1 \in S PROVE n \in S
    <2>1. PICK p : /\ Reads(Reader, joined[n - 1], p)
                   /\ DOMAIN p = ReaderParts
                   /\ KeptUpTo(pull, excluded, n - 1, p.files)
      BY <1>8
    <2>2. PICK q : /\ Reads(p, Shown(pull[n], excluded), q)
                   /\ DOMAIN q = ReaderParts
                   /\ ShownKept(pull[n], excluded, p.files, q.files)
      BY <1>1, <2>1, ShownIsRead
    <2>3. n - 1 \in 0..N /\ n \in 0..N
      BY <1>1
    <2>4. Reads(Reader, joined[n], q)
      <3>1. joined[n - 1] \in Seq(LineType) /\ Shown(pull[n], excluded) \in Seq(LineType)
        BY <1>3, <1>6, <2>3
      <3>2. Reads(Reader, joined[n - 1] \o Shown(pull[n], excluded), q)
        BY <2>1, <2>2, <3>1, ReadsBoth
      <3> QED BY <1>6, <3>2
    <2>5. KeptUpTo(pull, excluded, n, q.files)
      BY <2>1, <2>2, OneMoreShown DEF N
    <2>6. Read(n)
      BY <2>2, <2>4, <2>5
    <2> HIDE DEF Read
    <2> QED BY <2>3, <2>6
  <1>9. 0..N \subseteq S
    <2> HIDE DEF S
    <2> QED BY <1>1, <1>7, <1>8, UpTo
  <1>10. N \in 0..N
    BY <1>1
  <1>11. PICK q : Reads(Reader, joined[N], q) /\ KeptUpTo(pull, excluded, N, q.files)
    BY <1>9, <1>10
  <1>12. ParsePatch(joined[N]) = q.files
    BY <1>6, <1>10, <1>11, PatchIsRead
  <1>13. GitPatch(pull, excluded) = joined[N]
    BY <1>5 DEF GitPatch, parts
  <1>14. \A i \in 1..N : pull[i].path \notin excluded => KeptOf(pull[i], q.files)
    <2>1. \A i \in 1..N : i <= N
      BY <1>1
    <2> QED BY <1>11, <2>1 DEF KeptUpTo, N
  <1> QED BY <1>1, <1>12, <1>13, <1>14

\* The entry of a change joined with its section is the file the change makes.
THEOREM FileIsRead ==
  ASSUME NEW c \in ChangeType, c.status = "renamed" <=> c.old # NoPath,
         NEW patch, KeptOf(c, patch)
  PROVE  ToChangedFile(EntryOf(c), patch) = FileOf(c)
  <1> DEFINE e == EntryOf(c)
  <1>1. /\ e.path = c.path /\ e.old = c.old
        /\ e.added = IF c.binary THEN -1 ELSE Counts(c).added
        /\ e.removed = IF c.binary THEN -1 ELSE Counts(c).removed
    <2>1. CASE c.binary
      BY <2>1 DEF EntryOf, Record
    <2>2. CASE ~c.binary
      BY <2>2 DEF EntryOf, Record
    <2> QED BY <2>1, <2>2
  <1>2. Counts(c).added \in Nat /\ Counts(c).removed \in Nat
    BY CountsAreNat
  <1>3. c.binary \in BOOLEAN
    BY DEF ChangeType
  <1>4. (e.added = -1) <=> c.binary
    BY <1>1, <1>2
  <1>5. (IF e.added = -1 THEN 0 ELSE e.added + e.removed)
        = IF c.binary THEN 0 ELSE Counts(c).added + Counts(c).removed
    BY <1>1, <1>4
  <1>6. (e.added = -1) = c.binary
    BY <1>3, <1>4
  <1> HIDE DEF e
  <1>7. CASE HasPatch(c)
    <2>1. /\ e.path \in DOMAIN patch /\ patch[e.path].status = c.status
          /\ patch[e.path].added = AddedBy(c) /\ patch[e.path].points = PointsBy(c)
      BY <1>1, <1>7 DEF KeptOf, IsSection
    <2>2. ToChangedFile(e, patch) =
            [path |-> e.path, old |-> e.old, status |-> c.status, binary |-> e.added = -1,
             lines |-> IF e.added = -1 THEN 0 ELSE e.added + e.removed,
             added |-> AddedBy(c), points |-> PointsBy(c)]
      BY <2>1 DEF ToChangedFile
    <2>3. FileOf(c) =
            [path |-> c.path, old |-> c.old, status |-> c.status, binary |-> c.binary,
             lines |-> IF c.binary THEN 0 ELSE Counts(c).added + Counts(c).removed,
             added |-> AddedBy(c), points |-> PointsBy(c)]
      BY <1>7 DEF FileOf
    <2> QED BY <1>1, <1>5, <1>6, <2>2, <2>3 DEF e
  <1>8. CASE ~HasPatch(c)
    <2>1. e.path \notin DOMAIN patch /\ c.old = NoPath /\ ~c.binary /\ c.hunks = <<>>
      BY <1>1, <1>3, <1>8 DEF KeptOf, HasPatch
    <2>2. AddedBy(c) = {} /\ PointsBy(c) = {}
      BY <2>1 DEF AddedBy, PointsBy, ToSet
    <2>3. ToChangedFile(e, patch) =
            [path |-> e.path, old |-> e.old, status |-> "modified", binary |-> e.added = -1,
             lines |-> IF e.added = -1 THEN 0 ELSE e.added + e.removed,
             added |-> {}, points |-> {}]
      BY <1>1, <2>1 DEF ToChangedFile
    <2>4. FileOf(c) =
            [path |-> c.path, old |-> c.old, status |-> "modified", binary |-> c.binary,
             lines |-> IF c.binary THEN 0 ELSE Counts(c).added + Counts(c).removed,
             added |-> {}, points |-> {}]
      BY <1>8, <2>2 DEF FileOf
    <2> QED BY <1>1, <1>5, <1>6, <2>3, <2>4 DEF e
  <1> QED BY <1>7, <1>8
=============================================================================
