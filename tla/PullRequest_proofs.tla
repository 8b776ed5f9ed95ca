-------------------------- MODULE PullRequest_proofs --------------------------
(***************************************************************************)
(* The pull request, for any commit graph, fetch depths and changes: what  *)
(* is found in a shallow history is a merge base of the whole one, and     *)
(* where nothing is found, nothing was within the last depth of both tips; *)
(* and the changes read are those made, so that the findings marked are    *)
(* those on lines it added.                                                *)
(***************************************************************************)
EXTENDS ChangeAnalysis_proofs, ChangeSet_proofs

-----------------------------------------------------------------------------
(* What is within a depth of a tip.                                        *)

Farther(parents, nearer) == nearer \cup UNION {parents[c] : c \in nearer}
ReachedUpTo(parents, tip, f, n) ==
    /\ DOMAIN f = 0..n
    /\ \A k \in 0..n : f[k] = IF k <= 1 THEN {tip} ELSE Farther(parents, f[k - 1])

LEMMA ReachedExists ==
  ASSUME NEW parents, NEW tip
  PROVE  \A n \in Nat : \E f : ReachedUpTo(parents, tip, f, n)
  <1> DEFINE S == {n \in Nat : \E f : ReachedUpTo(parents, tip, f, n)}
  <1>1. 0 \in S
    <2>1. ReachedUpTo(parents, tip, [k \in 0..0 |-> {tip}], 0)
      BY DEF ReachedUpTo
    <2> QED BY <2>1
  <1>2. ASSUME NEW n \in Nat, n \in S PROVE n + 1 \in S
    <2>1. PICK f : ReachedUpTo(parents, tip, f, n)
      BY <1>2
    <2> DEFINE g == [k \in 0..(n + 1) |-> IF k <= 1 THEN {tip}
                                          ELSE IF k <= n THEN f[k] ELSE Farther(parents, f[n])]
    <2>2. /\ DOMAIN g = 0..(n + 1)
          /\ \A k \in 0..(n + 1) : g[k] = IF k <= 1 THEN {tip}
                                         ELSE IF k <= n THEN f[k] ELSE Farther(parents, f[n])
      OBVIOUS
    <2> HIDE DEF g
    <2>3. \A k \in 0..n : g[k] = f[k]
      <3> TAKE k \in 0..n
      <3>1. k \in 0..(n + 1)
        OBVIOUS
      <3>2. g[k] = IF k <= 1 THEN {tip} ELSE f[k]
        BY <2>2, <3>1
      <3>3. k <= 1 => f[k] = {tip}
        BY <2>1 DEF ReachedUpTo
      <3> QED BY <3>2, <3>3
    <2>4. ASSUME NEW k \in 0..(n + 1)
          PROVE  g[k] = IF k <= 1 THEN {tip} ELSE Farther(parents, g[k - 1])
      <3>1. CASE k <= 1
        BY <2>2, <3>1
      <3>2. CASE k > 1 /\ k <= n
        <4>1. k \in 0..n /\ k - 1 \in 0..n
          BY <3>2
        <4>2. g[k] = f[k] /\ g[k - 1] = f[k - 1]
          BY <2>3, <4>1
        <4>3. f[k] = Farther(parents, f[k - 1])
          BY <2>1, <3>2, <4>1 DEF ReachedUpTo
        <4> QED BY <3>2, <4>2, <4>3
      <3>3. CASE k > 1 /\ k = n + 1
        <4>1. ~(k <= 1) /\ ~(k <= n) /\ k - 1 = n /\ n \in 0..n
          BY <3>3
        <4>2. g[k] = Farther(parents, f[n])
          BY <2>2, <4>1
        <4> QED BY <2>3, <3>3, <4>1, <4>2
      <3> QED BY <3>1, <3>2, <3>3
    <2>5. ReachedUpTo(parents, tip, g, n + 1)
      <3> QED BY <2>2, <2>4 DEF ReachedUpTo
    <2> QED BY <2>5
  <1> HIDE DEF S
  <1>3. Nat \subseteq S
    BY <1>1, <1>2, UpFromZero
  <1> QED BY <1>3 DEF S

LEMMA ReachedAgrees ==
  ASSUME NEW parents, NEW tip
  PROVE  \A k \in Nat : \A n, m \in Nat : \A f, g :
           ReachedUpTo(parents, tip, f, n) /\ ReachedUpTo(parents, tip, g, m) /\ k <= n /\ k <= m
             => f[k] = g[k]
  <1> DEFINE Agree(k) == \A n, m \in Nat : \A f, g :
               ReachedUpTo(parents, tip, f, n) /\ ReachedUpTo(parents, tip, g, m) /\ k <= n /\ k <= m
                 => f[k] = g[k]
             S == {k \in Nat : Agree(k)}
  <1>1. Agree(0)
    <2>1. ASSUME NEW n \in Nat, NEW f, ReachedUpTo(parents, tip, f, n) PROVE f[0] = {tip}
      <3>1. 0 \in 0..n
        OBVIOUS
      <3> QED BY <2>1, <3>1 DEF ReachedUpTo
    <2> QED BY <2>1
  <1>2. ASSUME NEW k \in Nat, Agree(k) PROVE Agree(k + 1)
    <2> SUFFICES ASSUME NEW n \in Nat, NEW m \in Nat, NEW f, NEW g,
                        ReachedUpTo(parents, tip, f, n), ReachedUpTo(parents, tip, g, m),
                        k + 1 <= n, k + 1 <= m
                 PROVE  f[k + 1] = g[k + 1]
      OBVIOUS
    <2>1. f[k] = g[k]
      BY <1>2
    <2>2. k + 1 \in 0..n /\ k + 1 \in 0..m /\ (k + 1) - 1 = k
      OBVIOUS
    <2> QED BY <2>1, <2>2 DEF ReachedUpTo
  <1> HIDE DEF Agree
  <1>3. Nat \subseteq S
    <2>1. 0 \in S /\ \A k \in Nat : k \in S => k + 1 \in S
      BY <1>1, <1>2
    <2> HIDE DEF S
    <2> QED BY <2>1, UpFromZero
  <1>4. \A k \in Nat : Agree(k)
    BY <1>3
  <1> QED BY <1>4 DEF Agree

\* The recursion of Within, one step at a time.
LEMMA WithinSteps ==
  ASSUME NEW parents, NEW tip
  PROVE  /\ Within(parents, tip, 1) = {tip}
         /\ \A n \in Nat \ {0} :
              Within(parents, tip, n + 1) = Farther(parents, Within(parents, tip, n))
  <1> DEFINE upTo == [n \in Nat |-> CHOOSE f : ReachedUpTo(parents, tip, f, n)]
             all == [n \in Nat |-> upTo[n][n]]
             Recursive(f) == f = [n \in Nat |-> IF n <= 1 THEN {tip} ELSE Farther(parents, f[n - 1])]
             reached == CHOOSE f : Recursive(f)
  <1>1. \A n \in Nat : ReachedUpTo(parents, tip, upTo[n], n)
    BY ReachedExists
  <1> HIDE DEF upTo
  <1>2. \A n \in Nat : all[n] = IF n <= 1 THEN {tip} ELSE Farther(parents, all[n - 1])
    <2> TAKE n \in Nat
    <2>1. n \in 0..n /\ all[n] = upTo[n][n]
      OBVIOUS
    <2>2. CASE n <= 1
      BY <1>1, <2>1, <2>2 DEF ReachedUpTo
    <2>3. CASE n > 1
      <3>1. n - 1 \in Nat /\ n - 1 <= n /\ all[n - 1] = upTo[n - 1][n - 1]
        BY <2>3
      <3>2. upTo[n - 1][n - 1] = upTo[n][n - 1]
        BY <1>1, <3>1, ReachedAgrees
      <3>3. upTo[n][n] = Farther(parents, upTo[n][n - 1])
        BY <1>1, <2>1, <2>3 DEF ReachedUpTo
      <3> QED BY <2>1, <2>3, <3>1, <3>2, <3>3
    <2> QED BY <2>2, <2>3
  <1>3. Recursive(all)
    <2>1. all = [n \in Nat |-> all[n]]
      OBVIOUS
    <2> HIDE DEF all
    <2> QED BY <1>2, <2>1
  <1>4. Recursive(reached)
    <2> HIDE DEF Recursive
    <2> QED BY <1>3
  <1>5. \A n \in Nat : reached[n] = IF n <= 1 THEN {tip} ELSE Farther(parents, reached[n - 1])
    <2> HIDE DEF reached
    <2> QED BY <1>4
  <1>6. \A d : Within(parents, tip, d) = reached[d]
    BY DEF Within, Farther
  <1> HIDE DEF reached
  <1>7. ASSUME NEW n \in Nat \ {0} PROVE reached[n + 1] = Farther(parents, reached[n])
    <2>1. n + 1 \in Nat /\ ~(n + 1 <= 1) /\ (n + 1) - 1 = n
      OBVIOUS
    <2>2. reached[n + 1] = Farther(parents, reached[(n + 1) - 1])
      BY <1>5, <2>1
    <2> QED BY <2>1, <2>2
  <1>8. reached[1] = {tip}
    BY <1>5
  <1> QED BY <1>6, <1>7, <1>8

Closed(parents, S) == \A c \in S : parents[c] \subseteq S

\* One step further: its depth's commits, and their parents.
LEMMA WithinNext ==
  ASSUME NEW parents, NEW tip, NEW n \in Nat \ {0}
  PROVE  /\ Within(parents, tip, n + 1) = Farther(parents, Within(parents, tip, n))
         /\ Within(parents, tip, n) \subseteq Within(parents, tip, n + 1)
         /\ \A c \in Within(parents, tip, n) : parents[c] \subseteq Within(parents, tip, n + 1)
  BY WithinSteps DEF Farther

LEMMA WithinBounds ==
  ASSUME NEW parents, NEW tip, NEW S, tip \in S, Closed(parents, S)
  PROVE  \A n \in Nat \ {0} : Within(parents, tip, n) \subseteq S /\ tip \in Within(parents, tip, n)
  <1> DEFINE T == {n \in Nat : n = 0 \/ (Within(parents, tip, n) \subseteq S /\ tip \in Within(parents, tip, n))}
  <1>1. ASSUME NEW n \in Nat, n \in T PROVE n + 1 \in T
    <2>1. CASE n = 0
      <3>1. Within(parents, tip, 1) = {tip} /\ n + 1 = 1
        BY <2>1, WithinSteps
      <3> QED BY <3>1
    <2>2. CASE n # 0
      <3>1. n \in Nat \ {0}
        BY <2>2
      <3>2. Within(parents, tip, n + 1) = Farther(parents, Within(parents, tip, n))
        BY <3>1, WithinNext
      <3>3. Within(parents, tip, n) \subseteq S /\ tip \in Within(parents, tip, n)
        BY <1>1, <2>2
      <3>4. Farther(parents, Within(parents, tip, n)) \subseteq S
        BY <3>3 DEF Farther, Closed
      <3>5. tip \in Within(parents, tip, n + 1)
        BY <3>2, <3>3 DEF Farther
      <3> QED BY <3>2, <3>4, <3>5
    <2> QED BY <2>1, <2>2
  <1>2. 0 \in T /\ \A n \in Nat : n \in T => n + 1 \in T
    BY <1>1
  <1>3. Nat \subseteq T
    <2> HIDE DEF T
    <2> QED BY <1>2, UpFromZero
  <1> QED BY <1>3

LEMMA WithinGrows ==
  ASSUME NEW parents, NEW tip
  PROVE  \A k, n \in Nat \ {0} : k <= n => Within(parents, tip, k) \subseteq Within(parents, tip, n)
  <1> DEFINE T == {n \in Nat : \A k \in 1..n : Within(parents, tip, k) \subseteq Within(parents, tip, n)}
  <1>1. ASSUME NEW n \in Nat, n \in T PROVE n + 1 \in T
    <2> SUFFICES ASSUME NEW k \in 1..(n + 1)
                 PROVE  Within(parents, tip, k) \subseteq Within(parents, tip, n + 1)
      OBVIOUS
    <2>1. CASE k = n + 1
      BY <2>1
    <2>2. CASE k # n + 1
      <3>1. k \in 1..n /\ n \in Nat \ {0}
        BY <2>2
      <3>2. Within(parents, tip, k) \subseteq Within(parents, tip, n)
        BY <1>1, <3>1
      <3> QED BY <3>1, <3>2, WithinNext
    <2> QED BY <2>1, <2>2
  <1>2. 0 \in T /\ \A n \in Nat : n \in T => n + 1 \in T
    BY <1>1
  <1>3. Nat \subseteq T
    <2> HIDE DEF T
    <2> QED BY <1>2, UpFromZero
  <1> QED BY <1>3

\* As many steps as there are commits reach everything there is to reach.
LEMMA WithinSaturates ==
  ASSUME NEW parents \in [Commits -> SUBSET Commits], NEW tip \in Commits
  PROVE  /\ Cardinality(Commits) \in Nat \ {0}
         /\ Closed(parents, Within(parents, tip, Cardinality(Commits)))
  <1> USE DiffAssumption
  <1> DEFINE W(n) == Within(parents, tip, n)
             T == {n \in Nat : n = 0 \/ Closed(parents, W(n)) \/ Cardinality(W(n)) >= n}
  <1>0. Cardinality(Commits) \in Nat \ {0}
    BY FS_CardinalityType, FS_EmptySet
  <1>1. \A n \in Nat \ {0} : W(n) \subseteq Commits
    <2>1. Closed(parents, Commits)
      BY DEF Closed
    <2> QED BY <2>1, WithinBounds
  <1>2. \A n \in Nat \ {0} : IsFiniteSet(W(n)) /\ Cardinality(W(n)) \in Nat
    BY <1>1, FS_Subset, FS_CardinalityType
  <1>3. ASSUME NEW n \in Nat, n \in T PROVE n + 1 \in T
    <2>1. CASE n = 0
      <3>1. W(1) = {tip} /\ n + 1 = 1
        BY <2>1, WithinSteps
      <3>2. Cardinality({tip}) = 1
        BY FS_Singleton
      <3> HIDE DEF W
      <3>3. Cardinality(W(1)) = 1
        BY <3>1, <3>2
      <3>4. 1 \in T
        BY <3>3
      <3> HIDE DEF T
      <3> QED BY <3>1, <3>4
    <2>2. CASE n # 0 /\ Closed(parents, W(n))
      <3>1. W(n + 1) = Farther(parents, W(n))
        BY <2>2, WithinNext
      <3>2. W(n + 1) = W(n)
        BY <2>2, <3>1 DEF Farther, Closed
      <3> HIDE DEF W
      <3> QED BY <2>2, <3>2
    <2>3. CASE n # 0 /\ ~Closed(parents, W(n))
      <3>1. PICK q : q \notin W(n) /\ \E c \in W(n) : q \in parents[c]
        BY <2>3 DEF Closed
      <3>2. W(n) \cup {q} \subseteq W(n + 1)
        BY <2>3, <3>1, WithinNext
      <3> HIDE DEF W
      <3>3. Cardinality(W(n) \cup {q}) = Cardinality(W(n)) + 1
        BY <1>2, <2>3, <3>1, FS_AddElement
      <3>4. Cardinality(W(n) \cup {q}) <= Cardinality(W(n + 1))
        <4>1. n + 1 \in Nat \ {0}
          OBVIOUS
        <4>2. IsFiniteSet(W(n + 1)) /\ W(n) \cup {q} \in SUBSET W(n + 1)
          BY <1>2, <3>2, <4>1
        <4> QED BY <4>2, FS_Subset
      <3>5. Cardinality(W(n)) >= n /\ Cardinality(W(n)) \in Nat
        BY <1>2, <1>3, <2>3
      <3>6. Cardinality(W(n + 1)) \in Nat
        BY <1>2
      <3> QED BY <3>3, <3>4, <3>5, <3>6
    <2> QED BY <2>1, <2>2, <2>3
  <1>4. 0 \in T /\ \A n \in Nat : n \in T => n + 1 \in T
    BY <1>3
  <1>5. Nat \subseteq T
    <2> HIDE DEF T
    <2> QED BY <1>4, UpFromZero
  <1> DEFINE N == Cardinality(Commits)
  <1>6. Closed(parents, W(N)) \/ Cardinality(W(N)) >= N
    BY <1>0, <1>5
  <1>7. CASE Cardinality(W(N)) >= N
    <2>1. W(N) \in SUBSET Commits
      BY <1>0, <1>1
    <2> HIDE DEF W
    <2>2. Cardinality(W(N)) <= N /\ (N = Cardinality(W(N)) => W(N) = Commits)
      BY <2>1, FS_Subset
    <2>3. Cardinality(W(N)) \in Nat /\ N \in Nat
      BY <1>0, <1>2
    <2>4. W(N) = Commits
      BY <1>7, <2>2, <2>3
    <2>5. Closed(parents, W(N))
      BY <2>4 DEF Closed
    <2> QED BY <1>0, <2>5 DEF W
  <1> QED BY <1>0, <1>6, <1>7

-----------------------------------------------------------------------------
(* Ancestors in a history that is cut.                                     *)

LEMMA AncestorsLeast ==
  ASSUME IsHistory(history), NEW shallow, NEW c \in Commits
  PROVE  /\ Ancestors(c, shallow) \subseteq Commits /\ c \in Ancestors(c, shallow)
         /\ \A d \in Ancestors(c, shallow) : d \notin shallow => history.parents[d] \subseteq Ancestors(c, shallow)
         /\ \A S \in SUBSET Commits :
              c \in S /\ (\A d \in S \ shallow : history.parents[d] \subseteq S) => Ancestors(c, shallow) \subseteq S
  <1> DEFINE known == [d \in Commits |-> IF d \in shallow THEN {} ELSE history.parents[d]]
             N == Cardinality(Commits)
  <1>0. known \in [Commits -> SUBSET Commits]
    BY DEF IsHistory
  <1>1. Ancestors(c, shallow) = Within(known, c, N)
    BY DEF Ancestors
  <1>2. \A d \in Commits : known[d] = IF d \in shallow THEN {} ELSE history.parents[d]
    OBVIOUS
  <1> HIDE DEF known
  <1>3. N \in Nat \ {0} /\ Closed(known, Ancestors(c, shallow))
    BY <1>0, <1>1, WithinSaturates
  <1>4. ASSUME NEW S \in SUBSET Commits, c \in S, \A d \in S \ shallow : history.parents[d] \subseteq S
        PROVE  Ancestors(c, shallow) \subseteq S /\ c \in Ancestors(c, shallow)
    <2>1. Closed(known, S)
      BY <1>2, <1>4 DEF Closed
    <2> QED BY <1>1, <1>3, <1>4, <2>1, WithinBounds
  <1>5. Ancestors(c, shallow) \subseteq Commits /\ c \in Ancestors(c, shallow)
    <2>1. \A d \in Commits \ shallow : history.parents[d] \subseteq Commits
      BY DEF IsHistory
    <2> QED BY <1>4, <2>1
  <1>6. \A d \in Ancestors(c, shallow) : d \notin shallow => history.parents[d] \subseteq Ancestors(c, shallow)
    BY <1>2, <1>3, <1>5 DEF Closed
  <1> QED BY <1>4, <1>5, <1>6

LEMMA AncestorsTransitive ==
  ASSUME IsHistory(history), NEW shallow, NEW c \in Commits, NEW d \in Ancestors(c, shallow)
  PROVE  Ancestors(d, shallow) \subseteq Ancestors(c, shallow)
  <1> DEFINE S == Ancestors(c, shallow)
  <1>1. /\ S \in SUBSET Commits /\ d \in S /\ d \in Commits
        /\ \A e \in S \ shallow : history.parents[e] \subseteq S
    BY AncestorsLeast
  <1> HIDE DEF S
  <1>2. Ancestors(d, shallow) \subseteq S
    BY <1>1, AncestorsLeast
  <1> QED BY <1>2 DEF S

\* What is above a commit is above one of its parents.
LEMMA AncestorsThrough ==
  ASSUME IsHistory(history), NEW shallow, NEW c \in Commits, NEW e \in Ancestors(c, shallow), e # c
  PROVE  c \notin shallow /\ \E q \in history.parents[c] : e \in Ancestors(q, shallow)
  <1> DEFINE over == IF c \in shallow THEN {} ELSE history.parents[c]
             S == {c} \cup UNION {Ancestors(q, shallow) : q \in over}
  <1>1. over \subseteq Commits
    BY DEF IsHistory
  <1>2. S \in SUBSET Commits
    BY <1>1, AncestorsLeast
  <1>3. ASSUME NEW d \in S \ shallow PROVE history.parents[d] \subseteq S
    <2>1. CASE d = c
      <3>1. \A q \in over : q \in Ancestors(q, shallow)
        BY <1>1, AncestorsLeast
      <3>2. over \subseteq S
        BY <3>1
      <3> QED BY <1>3, <2>1, <3>2
    <2>2. CASE d # c
      <3>1. PICK q \in over : d \in Ancestors(q, shallow)
        BY <1>3, <2>2
      <3>2. history.parents[d] \subseteq Ancestors(q, shallow)
        BY <1>1, <1>3, <3>1, AncestorsLeast
      <3> QED BY <3>2
    <2> QED BY <2>1, <2>2
  <1>4. Ancestors(c, shallow) \subseteq S
    <2>1. c \in S
      OBVIOUS
    <2> HIDE DEF S
    <2> QED BY <1>2, <1>3, <2>1, AncestorsLeast
  <1> QED BY <1>4

\* A shallow history knows no ancestor that the whole one does not have.
LEMMA AncestorsOfAll ==
  ASSUME IsHistory(history), NEW shallow, NEW c \in Commits
  PROVE  Ancestors(c, shallow) \subseteq Ancestors(c, {})
  <1> DEFINE S == Ancestors(c, {})
  <1>1. S \in SUBSET Commits /\ c \in S /\ \A d \in S \ shallow : history.parents[d] \subseteq S
    BY AncestorsLeast
  <1> HIDE DEF S
  <1> QED BY <1>1, AncestorsLeast DEF S

\* No commit is above itself.
LEMMA AncestorsAcyclic ==
  ASSUME IsHistory(history), NEW c \in Commits, NEW d \in Ancestors(c, {}), c \in Ancestors(d, {})
  PROVE  c = d
  <1> SUFFICES ASSUME c # d PROVE FALSE
    OBVIOUS
  <1> DEFINE S == {e \in Commits : e \in Ancestors(c, {}) /\ c \in Ancestors(e, {})}
  <1>1. c \in S /\ d \in S
    BY AncestorsLeast
  <1>2. PICK e \in S : history.parents[e] \cap S = {}
    <2>1. S \in (SUBSET Commits) \ {{}}
      BY <1>1
    <2> HIDE DEF S
    <2> QED BY <2>1 DEF IsHistory
  <1>3. \E o \in S : o # e /\ o \in Ancestors(e, {})
    <2>1. CASE e = c
      BY <1>1, <2>1
    <2>2. CASE e # c
      BY <1>1, <1>2, <2>2
    <2> QED BY <2>1, <2>2
  <1>4. PICK o \in S : o # e /\ o \in Ancestors(e, {})
    BY <1>3
  <1>5. PICK q \in history.parents[e] : o \in Ancestors(q, {})
    BY <1>2, <1>4, AncestorsThrough
  <1>6. q \in Ancestors(c, {}) /\ q \in Commits
    BY <1>2, <1>5, AncestorsLeast
  <1>7. c \in Ancestors(q, {})
    BY <1>4, <1>5, <1>6, AncestorsTransitive
  <1> QED BY <1>2, <1>5, <1>6, <1>7

-----------------------------------------------------------------------------
(* A merge base of the shallow history.                                    *)

LEMMA OneParent ==
  ASSUME IsHistory(history), Linear, NEW c \in Commits,
         NEW p \in history.parents[c], NEW q \in history.parents[c]
  PROVE  p = q
  <1> USE DiffAssumption
  <1>1. history.parents[c] \in SUBSET Commits
    BY DEF IsHistory
  <1>2. IsFiniteSet(history.parents[c]) /\ Cardinality(history.parents[c]) \in Nat
    BY <1>1, FS_Subset, FS_CardinalityType
  <1>3. Cardinality(history.parents[c]) <= 1 /\ history.parents[c] # {}
    BY DEF Linear
  <1>4. Cardinality(history.parents[c]) # 0
    BY <1>2, <1>3, FS_EmptySet
  <1>5. Cardinality(history.parents[c]) = 1
    BY <1>2, <1>3, <1>4
  <1>6. \E x : history.parents[c] = {x}
    BY <1>2, <1>5, FS_Singleton
  <1> QED BY <1>6

\* In a linear history whatever the whole of it has below a known ancestor b is known too,
\* and lies on the way to it.
LEMMA OnTheWay ==
  ASSUME IsHistory(history), Linear, NEW shallow, NEW c \in Commits, NEW b \in Ancestors(c, shallow),
         NEW d \in Ancestors(c, {}), d \notin Ancestors(b, {})
  PROVE  d \in Ancestors(c, shallow) /\ b \in Ancestors(d, shallow)
  <1> DEFINE way == {e \in Ancestors(c, shallow) : b \in Ancestors(e, shallow)}
             S == way \cup Ancestors(b, {})
  <1>1. b \in Commits /\ Ancestors(c, shallow) \subseteq Commits /\ c \in Ancestors(c, shallow)
    BY AncestorsLeast
  <1>2. S \in SUBSET Commits /\ c \in S
    <2>1. Ancestors(b, {}) \subseteq Commits
      BY <1>1, AncestorsLeast
    <2> QED BY <1>1, <2>1
  <1>3. ASSUME NEW e \in S PROVE history.parents[e] \subseteq S
    <2>1. CASE e \in Ancestors(b, {})
      <3>1. history.parents[e] \subseteq Ancestors(b, {})
        BY <1>1, <2>1, AncestorsLeast
      <3> QED BY <3>1
    <2>2. CASE e \in way /\ e = b
      <3>1. b \in Ancestors(b, {})
        BY <1>1, AncestorsLeast
      <3>2. history.parents[b] \subseteq Ancestors(b, {})
        BY <1>1, <3>1, AncestorsLeast
      <3> QED BY <2>2, <3>2
    <2>3. CASE e \in way /\ e # b
      <3>1. e \in Commits /\ e \in Ancestors(c, shallow) /\ b \in Ancestors(e, shallow)
        BY <1>1, <2>3
      <3>2. e \notin shallow /\ \E q \in history.parents[e] : b \in Ancestors(q, shallow)
        BY <2>3, <3>1, AncestorsThrough
      <3>3. history.parents[e] \subseteq Ancestors(c, shallow)
        BY <3>1, <3>2, AncestorsLeast
      <3>4. \A q \in history.parents[e] : b \in Ancestors(q, shallow)
        BY <3>1, <3>2, OneParent
      <3> QED BY <3>3, <3>4
    <2> QED BY <2>1, <2>2, <2>3
  <1>4. Ancestors(c, {}) \subseteq S
    <2> HIDE DEF S
    <2> QED BY <1>2, <1>3, AncestorsLeast
  <1> QED BY <1>4

LEMMA BestOfAll ==
  ASSUME IsHistory(history), history.target \in Commits, NEW b \in Best(cut)
  PROVE  b \in Common({}) /\ (Linear => b \in Best({}))
  <1> USE DEF Best, Common
  <1>1. history.head \in Commits
    BY DEF IsHistory
  <1>2. b \in Ancestors(history.head, cut) /\ b \in Ancestors(history.target, cut) /\ b \in Commits
    BY <1>1, AncestorsLeast
  <1>3. b \in Common({})
    BY <1>1, <1>2, AncestorsOfAll
  <1>4. ASSUME Linear, NEW d \in Common({}), d # b, b \in Ancestors(d, {})
        PROVE  FALSE
    <2>1. d \in Ancestors(history.head, {}) /\ d \in Ancestors(history.target, {})
      OBVIOUS
    <2>2. d \notin Ancestors(b, {})
      BY <1>2, <1>4, AncestorsAcyclic
    <2>3. d \in Ancestors(history.head, cut) /\ b \in Ancestors(d, cut)
      BY <1>1, <1>2, <1>4, <2>1, <2>2, OnTheWay
    <2>4. d \in Ancestors(history.target, cut)
      BY <1>2, <1>4, <2>1, <2>2, OnTheWay
    <2> QED BY <1>4, <2>3, <2>4
  <1> QED BY <1>3, <1>4

-----------------------------------------------------------------------------
(* No merge base.                                                          *)

\* What is within a depth of a tip is known, if nothing nearer than that is cut but what
\* is known from elsewhere.
LEMMA DepthIsKnown ==
  ASSUME IsHistory(history), NEW tip \in Commits, NEW d \in Nat \ {0},
         \A e \in Near(tip, d) \cap Ancestors(tip, cut) : e \notin cut
  PROVE  Depth(tip, d) \subseteq Ancestors(tip, cut)
  <1> DEFINE known == Ancestors(tip, cut)
             T == {n \in Nat : n \in 1..d => Depth(tip, n) \subseteq known}
  <1>1. ASSUME NEW n \in Nat, n \in T PROVE n + 1 \in T
    <2>1. CASE n = 0
      <3>1. Depth(tip, 1) = {tip}
        BY WithinSteps DEF Depth
      <3>2. tip \in known
        BY AncestorsLeast
      <3>3. 1 \in T /\ n + 1 = 1
        BY <2>1, <3>1, <3>2
      <3> HIDE DEF T
      <3> QED BY <3>3
    <2>2. CASE n # 0 /\ n + 1 \in 1..d
      <3>1. Depth(tip, n) \subseteq known
        BY <1>1, <2>2
      <3>2. Depth(tip, n) \subseteq Near(tip, d)
        <4>1. d > 1 /\ n \in Nat \ {0} /\ d \in Nat \ {0} /\ d - 1 \in Nat \ {0} /\ n <= d /\ n <= d - 1
          BY <2>2
        <4>2. Depth(tip, n) \subseteq Depth(tip, d)
          BY <4>1, WithinGrows DEF Depth
        <4>3. Depth(tip, n) \subseteq Depth(tip, d - 1)
          BY <4>1, WithinGrows DEF Depth
        <4>4. LastOf(tip, d) = Depth(tip, d) \ Depth(tip, d - 1)
          BY <4>1 DEF LastOf, Edge, Depth
        <4> QED BY <4>2, <4>3, <4>4 DEF Near
      <3>3. \A e \in Depth(tip, n) : history.parents[e] \subseteq known
        BY <3>1, <3>2, AncestorsLeast
      <3>4. Depth(tip, n + 1) = Farther(history.parents, Depth(tip, n))
        BY <2>2, WithinNext DEF Depth
      <3>5. Depth(tip, n + 1) \subseteq known
        BY <3>1, <3>3, <3>4 DEF Farther
      <3> QED BY <3>5
    <2> QED BY <2>1, <2>2
  <1>2. 0 \in T /\ \A n \in Nat : n \in T => n + 1 \in T
    BY <1>1
  <1>3. Nat \subseteq T
    <2> HIDE DEF T
    <2> QED BY <1>2, UpFromZero
  <1>4. d \in T /\ d \in 1..d
    BY <1>3
  <1> QED BY <1>4

LEMMA NothingInReach ==
  ASSUME IsHistory(history), history.target \in Commits, history.now = history.head,
         Deepened(LastDepth), Common(cut) = {}
  PROVE  Depth(history.head, LastDepth) \cap Depth(history.target, LastDepth) = {}
  <1> USE DiffAssumption DEF Deepened, Near, Common
  <1>0. LastDepth \in Nat \ {0} /\ history.head \in Commits
    <2>1. Len(FetchDepths) \in DOMAIN FetchDepths
      OBVIOUS
    <2> QED BY <2>1 DEF LastDepth, IsHistory
  <1>1. Depth(history.head, LastDepth) \subseteq Ancestors(history.head, cut)
    BY <1>0, DepthIsKnown
  <1>2. \A e \in Near(history.target, LastDepth) \cap Ancestors(history.target, cut) : e \notin cut
    <2> SUFFICES ASSUME NEW e \in Near(history.target, LastDepth) \cap Ancestors(history.target, cut),
                        e \in cut
                 PROVE  FALSE
      OBVIOUS
    <2>1. e \in LastOf(history.head, LastDepth)
      OBVIOUS
    <2>2. e \in Depth(history.head, LastDepth)
      <3>1. LastOf(history.head, LastDepth) \subseteq Depth(history.head, LastDepth)
        BY <1>0, WithinSteps DEF LastOf, Edge, Depth
      <3> QED BY <2>1, <3>1
    <2> QED BY <1>1, <2>2
  <1>3. Depth(history.target, LastDepth) \subseteq Ancestors(history.target, cut)
    BY <1>0, <1>2, DepthIsKnown
  <1> QED BY <1>1, <1>3

-----------------------------------------------------------------------------

LEMMA InitHistory == Init => HistoryInv
  <1> SUFFICES ASSUME Init PROVE HistoryInv
    OBVIOUS
  <1>1. PICK s \in Scenarios : \E graph \in s.histories : DiffInit(graph, s.pull)
    BY DEF Init
  <1>2. IsHistory(history) /\ diffPc = "start" /\ base = NoCommit /\ changes.reason = "none"
    BY <1>1, ScenarioAssumption DEF DiffInit, NoChanges, Unavailable
  <1> QED BY <1>2 DEF HistoryInv

LEMMA NextHistory == HistoryInv /\ [Next]_vars => HistoryInv'
  <1> SUFFICES ASSUME HistoryInv, [Next]_vars PROVE HistoryInv'
    OBVIOUS
  <1>1. UNCHANGED history
    BY DEF Next, Extraction, DiffStep, BeginExtract, FetchTarget, FetchHead, MergeBase, RevParse, Numstat, Patch,
       GitFails, Index, BuildResult, vars, diffVars
  <1>2. IsHistory(history)'
    BY <1>1 DEF HistoryInv, IsHistory
  <1>3. CASE history.target # NoCommit
    BY <1>1, <1>2, <1>3 DEF HistoryInv
  <1>4. CASE history.target = NoCommit
    <2>1. diffPc \in {"start", "ended"} /\ base = NoCommit /\ changes.reason # "no_merge_base"
      BY <1>4 DEF HistoryInv
    <2>2. CASE BeginExtract
      <3>1. EndWith(Unavailable("no_target_branch")) /\ UNCHANGED base
        BY <1>4, <2>2 DEF BeginExtract
      <3>2. diffPc' = "ended" /\ changes'.reason = "no_target_branch"
        BY <3>1, EndTypes
      <3> QED BY <1>2, <2>1, <3>1, <3>2 DEF HistoryInv
    <2>3. CASE UNCHANGED <<diffPc, base, changes>>
      BY <1>2, <2>1, <2>3 DEF HistoryInv
    <2>4. BeginExtract \/ UNCHANGED <<diffPc, base, changes>>
      BY <2>1 DEF Next, Extraction, DiffStep, FetchTarget, FetchHead, MergeBase, RevParse, Numstat, Patch,
         GitFails, Index, BuildResult, vars, diffVars
    <2> QED BY <2>2, <2>3, <2>4
  <1> QED BY <1>3, <1>4

\* The history is a commit graph all along, and without a target branch it is not searched.
THEOREM HistoryInvariant == Spec => []HistoryInv
  BY InitHistory, NextHistory, PTL DEF Spec

\* The commit the changes are computed from is an ancestor of both sides in the whole
\* history, however much of it was fetched, and the latest one where commits have a single
\* parent; and a branch that stayed as it was is said to have no merge base only if no
\* commit is within the last depth of both tips (_find_merge_base).
THEOREM MergeBaseIsRight == Spec => []MergeBaseRight
  <1>1. ASSUME HistoryInv, DiffInv PROVE MergeBaseRight
    <2> USE <1>1 DEF HistoryInv, DiffInv
    <2>1. ASSUME base # NoCommit PROVE base \in Common({}) /\ (Linear => base \in Best({}))
      <3>1. history.target \in Commits /\ base \in Best(cut)
        BY <2>1 DEF BaseAmongFetched, IsHistory
      <3> QED BY <3>1, BestOfAll
    <2>2. ASSUME changes.reason = "no_merge_base", history.now = history.head
          PROVE  Depth(history.head, LastDepth) \cap Depth(history.target, LastDepth) = {}
      <3>1. history.target \in Commits /\ Deepened(LastDepth) /\ Common(cut) = {}
        BY <2>2 DEF NoBaseAmongAll, IsHistory
      <3> QED BY <2>2, <3>1, NothingInReach
    <2> QED BY <2>1, <2>2 DEF MergeBaseRight
  <1> QED BY <1>1, HistoryInvariant, DiffInvariant, PTL

-----------------------------------------------------------------------------
(* The changes that are read, and the findings they mark.                  *)

LEMMA ChangesOfPull ==
  ASSUME NEW p, IsPull(p)
  PROVE  /\ DOMAIN p = 1..Len(p) /\ Len(p) \in Nat
         /\ \A i \in DOMAIN p : p[i] \in ChangeType /\ (p[i].status = "renamed" <=> p[i].old # NoPath)
         /\ ToSet(p) = {p[i] : i \in DOMAIN p}
  BY PullTypes DEF IsPull, ToSet

\* The file a change makes, and the same before the patch is read.
LEMMA FileTypes ==
  ASSUME NEW c \in ChangeType
  PROVE  /\ FileOf(c) \in ChangedFileType
         /\ ToChangedFile(EntryOf(c), <<>>) \in ChangedFileType
         /\ EntryOf(c).path = c.path
  <1>1. /\ c.path \in Paths /\ c.old \in Paths \cup {NoPath} /\ c.status \in Statuses
        /\ c.binary \in BOOLEAN /\ c.hunks \in Seq(HunkType)
    BY DEF ChangeType
  <1>2. Counts(c).added \in Nat /\ Counts(c).removed \in Nat
    BY CountsAreNat
  <1>3. Counts(c).added + Counts(c).removed \in Nat
    BY <1>2
  <1>4. \A h \in ToSet(c.hunks) : h.start \in Nat /\ h.count \in Nat
    <2> TAKE h \in ToSet(c.hunks)
    <2>1. h \in HunkType
      BY <1>1, ElementOfSeq DEF ToSet
    <2> QED BY <2>1 DEF HunkType
  <1>5. AddedBy(c) \in SUBSET Nat
    BY <1>4 DEF AddedBy, LinesOfHunk
  <1>6. PointsBy(c) \in SUBSET Nat
    BY <1>4 DEF PointsBy
  <1>7. FileOf(c) \in ChangedFileType
    <2> DEFINE lines == IF c.binary THEN 0 ELSE Counts(c).added + Counts(c).removed
               status == IF HasPatch(c) THEN c.status ELSE "modified"
    <2>1. lines \in Nat /\ status \in Statuses
      BY <1>1, <1>3 DEF Statuses
    <2>2. FileOf(c) = [path |-> c.path, old |-> c.old, status |-> status, binary |-> c.binary,
                       lines |-> lines, added |-> AddedBy(c), points |-> PointsBy(c)]
      BY DEF FileOf
    <2> HIDE DEF lines, status
    <2> QED BY <1>1, <1>5, <1>6, <2>1, <2>2 DEF ChangedFileType
  <1>8. /\ EntryOf(c).path = c.path /\ EntryOf(c).old = c.old
        /\ \/ EntryOf(c).added \in Nat /\ EntryOf(c).removed \in Nat
           \/ EntryOf(c).added = -1
    <2>1. CASE c.binary
      BY <2>1 DEF EntryOf, Record
    <2>2. CASE ~c.binary
      BY <1>2, <2>2 DEF EntryOf, Record
    <2> QED BY <2>1, <2>2
  <1>9. ToChangedFile(EntryOf(c), <<>>) \in ChangedFileType
    <2> DEFINE e == EntryOf(c)
               lines == IF e.added = -1 THEN 0 ELSE e.added + e.removed
               status == IF e.old # NoPath THEN "renamed" ELSE "modified"
               binary == e.added = -1
    <2>1. status \in Statuses /\ binary \in BOOLEAN
      BY DEF Statuses
    <2>2. lines \in Nat
      <3>1. CASE e.added = -1
        BY <3>1
      <3>2. CASE e.added # -1
        <4>1. e.added \in Nat /\ e.removed \in Nat
          BY <1>8, <3>2
        <4> HIDE DEF e
        <4> QED BY <3>2, <4>1
      <3> QED BY <3>1, <3>2
    <2>3. ToChangedFile(e, <<>>) =
            [path |-> e.path, old |-> e.old, status |-> status, binary |-> binary,
             lines |-> lines, added |-> {}, points |-> {}]
      <3>1. DOMAIN <<>> = {}
        OBVIOUS
      <3> QED BY <3>1 DEF ToChangedFile
    <2>4. e.path \in Paths /\ e.old \in Paths \cup {NoPath}
      BY <1>1, <1>8
    <2> HIDE DEF e, lines, status, binary
    <2>5. ToChangedFile(e, <<>>) \in ChangedFileType
      BY <2>1, <2>2, <2>3, <2>4 DEF ChangedFileType
    <2> QED BY <2>5 DEF e
  <1> QED BY <1>7, <1>8, <1>9

LEMMA InitPull == Init => PullInv
  <1> SUFFICES ASSUME Init PROVE PullInv
    OBVIOUS
  <1>1. PICK s \in Scenarios : \E graph \in s.histories : DiffInit(graph, s.pull)
    BY DEF Init
  <1>2. IsPull(pull) /\ diffPc = "start" /\ changes.status = "unavailable" /\ changes.files = {}
    BY <1>1, ScenarioAssumption DEF DiffInit, NoChanges, Unavailable
  <1>3. ~result.marked
    BY DEF Init, NoAnalysis
  <1> QED BY <1>2, <1>3 DEF PullInv, ChangesAsMade

\* A step that reads nothing of the changes.
LEMMA PullFrame ==
  ASSUME PullInv, UNCHANGED <<pull, result>>, diffPc # "ended", diffPc' \notin {"patch", "index"},
         changes' = changes \/ \E reason : changes' = Unavailable(reason)
  PROVE  PullInv'
  <1>1. ~result.marked
    BY DEF PullInv
  <1>2. CASE changes' = changes
    BY <1>1, <1>2 DEF PullInv, ChangesAsMade, IsPull
  <1>3. CASE \E reason : changes' = Unavailable(reason)
    <2>1. changes'.status = "unavailable" /\ changes'.files = {}
      BY <1>3 DEF Unavailable
    <2> QED BY <1>1, <2>1 DEF PullInv, ChangesAsMade, IsPull
  <1> QED BY <1>2, <1>3

\* The places the service lists are those of the changes outside generated files.
LEMMA ListedPlaces ==
  ASSUME NEW p, IsPull(p), NEW listed, listed = [i \in DOMAIN p |-> EntryOf(p[i])]
  PROVE  /\ Included(listed) = {i \in DOMAIN p : p[i].path \notin GeneratedPaths}
         /\ Excluded(listed) \subseteq GeneratedPaths
  <1>1. \A i \in DOMAIN p : listed[i].path = p[i].path
    BY ChangesOfPull, FileTypes
  <1>2. DOMAIN listed = DOMAIN p
    OBVIOUS
  <1> QED BY <1>1, <1>2 DEF Included, Excluded, IsGenerated

LEMMA NumstatKeepsPull ==
  ASSUME PullInv, Numstat, UNCHANGED result
  PROVE  PullInv'
  <1> DEFINE listed == [i \in DOMAIN pull |-> EntryOf(pull[i])]
  <1>1. IsPull(pull) /\ ~result.marked /\ UNCHANGED pull
    BY DEF PullInv, Numstat
  <1>2. ParseNumstat(GitNumstat(pull)) = listed
    BY <1>1, NumstatRead
  <1>3. IsPull(pull)'
    BY <1>1 DEF IsPull
  <1>4. /\ entries' = listed
        /\ IF LineLevel(listed) /\ Included(listed) # {}
           THEN DiffGoto("patch")
           ELSE AfterDiff(ChangesOf(listed, <<>>))
    BY <1>2 DEF Numstat
  <1>5. CASE LineLevel(listed) /\ Included(listed) # {}
    <2>1. diffPc' = "patch" /\ changes' = changes
      BY <1>4, <1>5 DEF DiffGoto
    <2> QED BY <1>1, <1>3, <1>4, <2>1 DEF PullInv, ChangesAsMade
  <1>6. CASE ~(LineLevel(listed) /\ Included(listed) # {})
    <2> DEFINE found == ChangesOf(listed, <<>>)
    <2>1. AfterDiff(found)
      BY <1>4, <1>6
    <2>2. found.files = {ToChangedFile(listed[i], <<>>) : i \in Included(listed)}
          /\ found.status = IF LineLevel(listed) THEN "available" ELSE "unavailable"
      BY DEF ChangesOf
    <2>3. Included(listed) = {i \in DOMAIN pull : pull[i].path \notin GeneratedPaths}
      BY <1>1, ListedPlaces
    <2>4. found.files \subseteq ChangedFileType
      <3>1. \A i \in DOMAIN pull : listed[i] = EntryOf(pull[i]) /\ pull[i] \in ChangeType
        BY <1>1, ChangesOfPull
      <3> HIDE DEF listed, found
      <3> QED BY <2>2, <2>3, <3>1, FileTypes
    <2> HIDE DEF listed, found
    <2>5. changes' = found /\ (diffPc' = "index" => found.status = "available")
          /\ diffPc' \in {"index", "ended"}
      BY <2>1 DEF AfterDiff
    <2>6. ASSUME found.status = "available"
          PROVE  found.files = {FileOf(c) : c \in {d \in ToSet(pull) : d.path \notin GeneratedPaths}}
      <3>1. Included(listed) = {}
        BY <1>6, <2>2, <2>6
      <3>2. \A d \in ToSet(pull) : d.path \in GeneratedPaths
        BY <1>1, <2>3, <3>1, ChangesOfPull
      <3> QED BY <2>2, <3>1, <3>2
    <2> QED BY <1>1, <1>3, <2>2, <2>4, <2>5, <2>6 DEF PullInv, ChangesAsMade
  <1> QED BY <1>5, <1>6

LEMMA PatchKeepsPull ==
  ASSUME PullInv, Patch, UNCHANGED result
  PROVE  PullInv'
  <1> DEFINE patch == ParsePatch(GitPatch(pull, Excluded(entries)))
             found == ChangesOf(entries, patch)
  <1>1. /\ IsPull(pull) /\ ~result.marked /\ UNCHANGED pull
        /\ entries = [i \in DOMAIN pull |-> EntryOf(pull[i])]
    BY DEF PullInv, Patch
  <1>2. IsPull(pull)'
    BY <1>1 DEF IsPull
  <1>3. AfterDiff(found)
    BY DEF Patch
  <1>4. /\ Included(entries) = {i \in DOMAIN pull : pull[i].path \notin GeneratedPaths}
        /\ Excluded(entries) \subseteq GeneratedPaths
    BY <1>1, ListedPlaces
  <1>5. \A i \in Included(entries) : KeptOf(pull[i], patch)
    <2>1. \A i \in DOMAIN pull : pull[i].path \notin Excluded(entries) => KeptOf(pull[i], patch)
      BY <1>1, PatchRead
    <2> HIDE DEF patch
    <2> QED BY <1>4, <2>1
  <1> HIDE DEF patch
  <1>6. \A i \in Included(entries) : ToChangedFile(entries[i], patch) = FileOf(pull[i])
    BY <1>1, <1>4, <1>5, ChangesOfPull, FileIsRead
  <1>7. /\ found.files = {ToChangedFile(entries[i], patch) : i \in Included(entries)}
        /\ found.status \in {"available", "unavailable"}
    BY DEF ChangesOf
  <1> HIDE DEF found
  <1>8. found.files = {FileOf(c) : c \in {d \in ToSet(pull) : d.path \notin GeneratedPaths}}
    <2>1. found.files = {FileOf(pull[i]) : i \in Included(entries)}
      BY <1>6, <1>7
    <2>2. ToSet(pull) = {pull[i] : i \in DOMAIN pull}
      BY <1>1, ChangesOfPull
    <2> QED BY <1>4, <2>1, <2>2
  <1>9. found.files \subseteq ChangedFileType
    BY <1>1, <1>8, ChangesOfPull, FileTypes
  <1>10. changes' = found /\ (diffPc' = "index" => found.status = "available")
         /\ diffPc' \in {"index", "ended"}
    BY <1>3 DEF AfterDiff
  <1> QED BY <1>1, <1>2, <1>7, <1>8, <1>9, <1>10 DEF PullInv, ChangesAsMade

LEMMA NextPull == DiffInv /\ PullInv /\ [Next]_vars => PullInv'
  <1> SUFFICES ASSUME DiffInv, PullInv, [Next]_vars PROVE PullInv'
    OBVIOUS
  <1>1. CASE Extraction /\ UNCHANGED result
    <2>1. CASE BeginExtract
      BY <1>1, <2>1, PullFrame DEF BeginExtract, EndWith, DiffGoto
    <2>2. CASE FetchTarget
      BY <1>1, <2>2, PullFrame DEF FetchTarget, DiffGoto
    <2>3. CASE FetchHead
      BY <1>1, <2>3, PullFrame DEF FetchHead, DiffGoto
    <2>4. CASE MergeBase
      BY <1>1, <2>4, PullFrame DEF MergeBase, EndWith, DiffGoto
    <2>5. CASE RevParse
      BY <1>1, <2>5, PullFrame DEF RevParse, DiffGoto
    <2>6. CASE Numstat
      BY <1>1, <2>6, NumstatKeepsPull
    <2>7. CASE Patch
      BY <1>1, <2>7, PatchKeepsPull
    <2>8. CASE GitFails
      BY <1>1, <2>8, PullFrame DEF GitFails, EndWith
    <2> QED BY <1>1, <2>1, <2>2, <2>3, <2>4, <2>5, <2>6, <2>7, <2>8 DEF Extraction, DiffStep
  <1>2. CASE Index
    <2>1. /\ changes'.status = changes.status /\ changes'.files = changes.files
          /\ UNCHANGED <<pull, result>> /\ diffPc' = "ended" /\ diffPc = "index"
      BY <1>2 DEF Index, DiffInv
    <2> QED BY <2>1 DEF PullInv, ChangesAsMade, IsPull
  <1>3. CASE BuildResult
    <2>1. UNCHANGED <<pull, diffPc, entries, changes>> /\ diffPc = "ended"
      BY <1>3 DEF BuildResult, diffVars
    <2>2. /\ result'.marked = (changes.status = "available")
          /\ result'.marked => result'.changed = {f \in result'.findings : IsOnChangedLine(f, changes.files)}
      BY <1>3 DEF BuildResult
    <2> QED BY <2>1, <2>2 DEF PullInv, ChangesAsMade, IsPull
  <1>4. CASE UNCHANGED <<diffVars, result>>
    BY <1>4 DEF PullInv, ChangesAsMade, IsPull, diffVars
  <1> QED BY <1>1, <1>2, <1>3, <1>4 DEF Next, vars

\* What the service has read of git's output is the pull request as it is, and the marks
\* of the result are made with it (diff_parser.py, DiffExtractor.extract, mark_findings).
THEOREM PullInvariant == Spec => []PullInv
  BY InitPull, NextPull, DiffInvariant, PTL DEF Spec

\* On a changed line of the file a change makes, and on a line the change added.
LEMMA MarkMeaning ==
  ASSUME NEW c \in ChangeType, NEW f
  PROVE  IsOnChangedLine(f, {FileOf(c)}) <=> Touches(c, f)
  <1>1. c.hunks \in Seq(HunkType) /\ c.binary \in BOOLEAN /\ c.status \in Statuses
    BY DEF ChangeType
  <1>2. /\ FileOf(c).path = c.path /\ FileOf(c).added = AddedBy(c) /\ FileOf(c).points = PointsBy(c)
        /\ FileOf(c).status = IF HasPatch(c) THEN c.status ELSE "modified"
    BY DEF FileOf
  <1>3. (AddedBy(c) # {} \/ PointsBy(c) # {}) <=> ~c.binary /\ c.hunks # <<>>
    <2>1. CASE c.binary
      BY <2>1 DEF AddedBy, PointsBy
    <2>2. CASE ~c.binary /\ c.hunks = <<>>
      BY <2>2 DEF AddedBy, PointsBy, ToSet
    <2>3. CASE ~c.binary /\ c.hunks # <<>>
      <3> DEFINE h == c.hunks[1]
      <3>1. h \in ToSet(c.hunks) /\ h \in HunkType
        BY <1>1, <2>3, ElementOfSeq DEF ToSet
      <3>2. h.start \in Nat /\ h.count \in Nat
        BY <3>1 DEF HunkType
      <3> HIDE DEF h
      <3>3. CASE h.count = 0
        BY <2>3, <3>1, <3>3 DEF PointsBy
      <3>4. CASE h.count # 0
        <4>1. h.start \in LinesOfHunk(h)
          BY <3>2, <3>4 DEF LinesOfHunk
        <4> QED BY <2>3, <3>1, <4>1 DEF AddedBy
      <3> QED BY <3>3, <3>4
    <2> QED BY <2>1, <2>2, <2>3
  <1>4. ASSUME ~HasPatch(c) PROVE AddedBy(c) = {}
    BY <1>4 DEF HasPatch, AddedBy, ToSet
  <1>5. IsOnChangedLine(f, {FileOf(c)}) <=>
          /\ c.path = f.path /\ FileOf(c).status # "deleted"
          /\ IF f.line = 0 THEN AddedBy(c) # {} \/ PointsBy(c) # {}
             ELSE \E n \in f.line .. LastLine(f) : n \in AddedBy(c)
    BY <1>2 DEF IsOnChangedLine
  <1>6. CASE HasPatch(c)
    BY <1>2, <1>3, <1>5, <1>6 DEF Touches
  <1>7. CASE ~HasPatch(c)
    BY <1>2, <1>3, <1>4, <1>5, <1>7 DEF Touches, HasPatch
  <1> QED BY <1>6, <1>7

\* A finding is marked as the pull request's own exactly if the pull request added a line
\* it covers (or, for one about a whole file, changed the file's content), and each
\* changed file outside generated ones is listed once, with its lines counted as git
\* counts them: for any pull request, and any lines that look like headers (diff_parser.py,
\* mark_findings).
THEOREM MarksAreExact == Spec => []MarksExact
  <1>1. ASSUME PullInv PROVE MarksExact
    <2> SUFFICES ASSUME result.marked PROVE MarksExact
      BY DEF MarksExact
    <2> DEFINE C == {d \in ToSet(pull) : d.path \notin GeneratedPaths}
    <2>1. /\ changes.files = {FileOf(c) : c \in C}
          /\ result.changed = {f \in result.findings : IsOnChangedLine(f, changes.files)}
      BY <1>1 DEF PullInv, ChangesAsMade
    <2>2. C \subseteq ChangeType /\ C \subseteq ToSet(pull)
      BY <1>1, ChangesOfPull DEF PullInv
    <2>3. \A f : IsOnChangedLine(f, changes.files) <=> \E c \in C : IsOnChangedLine(f, {FileOf(c)})
      BY <2>1 DEF IsOnChangedLine
    <2>4. \A f : (\E c \in C : Touches(c, f))
                    <=> f.path \notin GeneratedPaths /\ \E c \in ToSet(pull) : Touches(c, f)
      BY DEF Touches
    <2>5. \A c : FileOf(c).path = c.path /\ FileOf(c).old = c.old
                 /\ FileOf(c).lines = IF c.binary THEN 0 ELSE Counts(c).added + Counts(c).removed
      BY DEF FileOf
    <2> HIDE DEF C
    <2>6. result.changed = {f \in result.findings : f.path \notin GeneratedPaths
                                                     /\ \E c \in ToSet(pull) : Touches(c, f)}
      BY <2>1, <2>2, <2>3, <2>4, MarkMeaning
    <2>7. {<<f.path, f.old, f.lines>> : f \in changes.files} =
            {<<c.path, c.old, IF c.binary THEN 0 ELSE Counts(c).added + Counts(c).removed>> : c \in C}
      BY <2>1, <2>5
    <2> QED BY <2>6, <2>7 DEF MarksExact, C
  <1> QED BY <1>1, PullInvariant, PTL

-----------------------------------------------------------------------------
(* The types.                                                              *)

LEMMA EdgeOfCommits ==
  ASSUME NEW parents \in [Commits -> SUBSET Commits], NEW tip \in Commits, NEW d \in Nat \ {0}
  PROVE  Within(parents, tip, d) \subseteq Commits /\ Edge(parents, tip, d) \subseteq Commits
  <1>1. Closed(parents, Commits)
    BY DEF Closed
  <1>2. Within(parents, tip, d) \subseteq Commits
    BY <1>1, WithinBounds
  <1> QED BY <1>2 DEF Edge

LEMMA BestAreCommits ==
  ASSUME NEW shallow, HistoryInv
  PROVE  Best(shallow) \subseteq Commits
  <1> DEFINE parents == [d \in Commits |-> IF d \in shallow THEN {} ELSE history.parents[d]]
  <1>1. history.parents \in [Commits -> SUBSET Commits] /\ history.head \in Commits
    BY DEF HistoryInv, IsHistory
  <1>2. parents \in [Commits -> SUBSET Commits]
    BY <1>1
  <1>3. Cardinality(Commits) \in Nat \ {0}
    BY <1>1, WithinSaturates
  <1> HIDE DEF parents
  <1>4. Within(parents, history.head, Cardinality(Commits)) \subseteq Commits
    BY <1>1, <1>2, <1>3, EdgeOfCommits
  <1>5. Ancestors(history.head, shallow) \subseteq Commits
    BY <1>4 DEF Ancestors, parents
  <1> QED BY <1>5 DEF Best, Common

CommitsInv == cut \subseteq Commits /\ base \in Commits \cup {NoCommit} /\ indexed \in BOOLEAN

LEMMA InitCommits == Init => CommitsInv
  <1> SUFFICES ASSUME Init PROVE CommitsInv
    OBVIOUS
  <1>1. PICK s \in Scenarios : \E graph \in s.histories : DiffInit(graph, s.pull)
    BY DEF Init
  <1>2. PICK graph \in s.histories : DiffInit(graph, s.pull)
    BY <1>1
  <1>3. IsHistory(graph)
    BY ScenarioAssumption
  <1>4. cut = Edge(graph.parents, graph.tip, CloneDepth) /\ base = NoCommit
    BY <1>2 DEF DiffInit
  <1>5. cut \subseteq Commits
    BY <1>3, <1>4, DiffAssumption, EdgeOfCommits DEF IsHistory
  <1> QED BY <1>4, <1>5 DEF CommitsInv, Init

LEMMA NextCommits == HistoryInv /\ DiffInv /\ CommitsInv /\ [Next]_vars => CommitsInv'
  <1> SUFFICES ASSUME HistoryInv, DiffInv, CommitsInv, [Next]_vars PROVE CommitsInv'
    OBVIOUS
  <1> USE DEF CommitsInv
  <1>1. ASSUME NEW tip \in Commits, Fetch(tip) PROVE cut' \subseteq Commits
    <2>1. attempt \in DOMAIN FetchDepths
      BY DEF DiffInv
    <2>2. FetchDepths[attempt] \in Nat \ {0}
      BY <2>1, DiffAssumption
    <2>3. LastOf(tip, FetchDepths[attempt]) \subseteq Commits
      BY <2>2, EdgeOfCommits DEF LastOf, HistoryInv, IsHistory
    <2> QED BY <1>1, <2>3 DEF Fetch, FetchTo
  <1>2. CASE FetchTarget /\ UNCHANGED indexed
    <2>1. history.target # NoCommit
      BY <1>2 DEF FetchTarget, HistoryInv
    <2>2. history.target \in Commits
      BY <2>1 DEF HistoryInv, IsHistory
    <2> QED BY <1>1, <1>2, <2>2 DEF FetchTarget
  <1>3. CASE FetchHead /\ UNCHANGED indexed
    <2>1. history.now \in Commits
      BY DEF HistoryInv, IsHistory
    <2> QED BY <1>1, <1>3, <2>1 DEF FetchHead
  <1>4. CASE MergeBase /\ UNCHANGED indexed
    <2>1. cut' = cut /\ (base' = base \/ base' \in Best(cut))
      BY <1>4 DEF MergeBase
    <2> QED BY <1>4, <2>1, BestAreCommits
  <1>5. CASE UNCHANGED <<cut, base>> /\ indexed' \in BOOLEAN
    BY <1>5
  <1>6. CASE Extraction /\ UNCHANGED indexed
    BY <1>2, <1>3, <1>4, <1>5, <1>6
       DEF Extraction, DiffStep, BeginExtract, RevParse, Numstat, Patch, GitFails
  <1> QED BY <1>5, <1>6 DEF Next, Index, BuildResult, vars, diffVars

\* Every variable of the linter stage keeps its type, for any checkout, pull request,
\* history and answers of the tools.
THEOREM TypeCorrect == Spec => []TypeOK
  <1>1. Spec => []CommitsInv
    BY InitCommits, NextCommits, HistoryInvariant, DiffInvariant, PTL DEF Spec
  <1>2. ASSUME StageInv, DiffInv, PullInv, CommitsInv PROVE TypeOK
    <2>1. result.status \in {"none", "completed", "failed"}
      BY <1>2 DEF StageInv, ResultOfAll, NoAnalysis
    <2> QED BY <1>2, <2>1 DEF TypeOK, StageInv, DiffInv, PullInv, CommitsInv
  <1> QED BY <1>1, <1>2, StageInvariant, DiffInvariant, PullInvariant, PTL
=============================================================================
