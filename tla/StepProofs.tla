------------------------------ MODULE StepProofs ------------------------------
(***************************************************************************)
(* Steps run behind what they depend on, and executeSteps is silent once   *)
(* it has returned: for every workflow, number of slots, retries and       *)
(* attempts.  The first part is about orderSteps alone: it orders a        *)
(* workflow exactly when it can be ordered.  The order itself plays no     *)
(* part afterwards, but that there is one: a set of steps without a result *)
(* has a member that waits for none of them, so every step settles.        *)
(***************************************************************************)
EXTENDS StepProperties, FiniteSetTheorems, TLAPS

-------------------------------------------------------------------------------
(* Induction, and the loops of orderSteps                                    *)

\* A set of natural numbers has a least member.
LEMMA LeastNumber ==
  ASSUME NEW T \in SUBSET Nat, T # {}
  PROVE  \E x \in T : \A y \in T : x <= y
<1> DEFINE F == {0 .. x : x \in T}
<1>1. F \subseteq FiniteSubsetsOf(Nat) /\ F # {}
  <2>1. \A x \in T : IsFiniteSet(0 .. x) /\ 0 .. x \in SUBSET Nat
    BY FS_Interval
  <2> QED
    BY <2>1 DEF FiniteSubsetsOf
<1>2. PICK I \in F : \A J \in F : <<J, I>> \notin StrictSubsetOrdering(Nat)
  <2> HIDE DEF F
  <2> QED BY <1>1, FS_StrictSubsetOrderingWellFounded, WFMin
<1>3. PICK x \in T : I = 0 .. x
  BY <1>2
<1>4. ASSUME NEW y \in T, ~(x <= y) PROVE FALSE
  <2>1. 0 .. y \subseteq 0 .. x /\ x \in 0 .. x /\ x \notin 0 .. y
    BY <1>4
  <2>2. <<0 .. y, I>> \in StrictSubsetOrdering(Nat)
    BY <2>1, <1>3 DEF StrictSubsetOrdering
  <2> QED
    BY <1>2, <2>2
<1> QED
  BY <1>4

\* A set of natural numbers with 0, and with every successor of a member up to n, has
\* all numbers up to n.
LEMMA ReachesAll ==
  ASSUME NEW n \in Nat, NEW T, 0 \in T, \A i \in 1 .. n : i - 1 \in T => i \in T
  PROVE  \A i \in 0 .. n : i \in T
<1> DEFINE Bad == {i \in 0 .. n : i \notin T}
<1> SUFFICES ASSUME Bad # {} PROVE FALSE
  OBVIOUS
<1>1. PICK x \in Bad : \A y \in Bad : x <= y
  <2>1. Bad \in SUBSET Nat
    OBVIOUS
  <2> HIDE DEF Bad
  <2> QED BY <2>1, LeastNumber
<1>2. x \in 0 .. n /\ x \notin T /\ x # 0
  BY <1>1
<1>3. x \in 1 .. n /\ x - 1 \in 0 .. n /\ ~(x <= x - 1)
  BY <1>2
<1>4. x - 1 \in T
  BY <1>1, <1>3
<1> QED
  BY <1>2, <1>3, <1>4

\* The loop of orderSteps goes from one turn to the next.
LEMMA TurnsUnfold ==
  ASSUME NEW listing, NEW deps, Len(listing) \in Nat
  PROVE  /\ Turns(listing, deps)[0] = FirstTurn(listing, deps)
         /\ \A i \in 1 .. Len(listing) :
              Turns(listing, deps)[i] = NextTurn(listing, deps, Turns(listing, deps)[i - 1])
<1> DEFINE
      first   == FirstTurn(listing, deps)
      next(k) == NextTurn(listing, deps, k)
      Is(g, n) == g = [i \in 0 .. n |-> IF i = 0 THEN first ELSE next(g[i - 1])]
      N == Len(listing)
      T == {n \in 0 .. N : \E g : Is(g, n)}
      f == CHOOSE g : Is(g, N)
<1>1. 0 \in T
  <2> DEFINE g == [i \in 0 .. 0 |-> first]
  <2>1. Is(g, 0)
    <3> HIDE DEF first, next
    <3> QED OBVIOUS
  <2> HIDE DEF g, Is
  <2> QED
    BY <2>1
<1>2. ASSUME NEW n \in 1 .. N, n - 1 \in T
      PROVE  n \in T
  <2>1. PICK g : Is(g, n - 1)
    BY <1>2
  <2> DEFINE h == [i \in 0 .. n |-> IF i = n THEN next(g[n - 1]) ELSE g[i]]
  <2>2. ASSUME NEW i \in 0 .. n
        PROVE  h[i] = IF i = 0 THEN first ELSE next(h[i - 1])
    <3> HIDE DEF first, next
    <3>1. CASE i = n
      BY <3>1, <1>2, <2>1
    <3>2. CASE i # n
      BY <3>2, <1>2, <2>1
    <3> QED
      BY <3>1, <3>2
  <2>3. Is(h, n)
    <3> HIDE DEF first, next
    <3> QED BY <2>2
  <2> HIDE DEF h, Is
  <2> QED
    BY <2>3
<1>3. N \in T
  <2> HIDE DEF T
  <2>1. N \in Nat /\ N \in 0 .. N
    OBVIOUS
  <2> QED BY <1>1, <1>2, <2>1, ReachesAll
<1>4. Is(f, N)
  <2> HIDE DEF Is
  <2> QED BY <1>3, Zenon
<1>5. Turns(listing, deps) = f
  BY Zenon DEF Turns
<1> HIDE DEF f, first, next
<1>6. \A i \in 0 .. N : f[i] = IF i = 0 THEN first ELSE next(f[i - 1])
  BY <1>4
<1>7. f[0] = first /\ \A i \in 1 .. N : f[i] = next(f[i - 1])
  BY <1>6
<1> QED
  BY <1>5, <1>7 DEF first, next
-------------------------------------------------------------------------------
(* Sequences without repetition                                              *)

\* What the members of a sequence are when one is added at its end.
LEMMA AppendFacts ==
  ASSUME NEW Q, NEW q \in Seq(Q), NEW e \in Q
  PROVE  /\ Append(q, e) \in Seq(Q) /\ Len(Append(q, e)) = Len(q) + 1
         /\ Append(q, e)[Len(q) + 1] = e
         /\ \A i \in 1 .. Len(q) : Append(q, e)[i] = q[i]
         /\ Elements(Append(q, e)) = Elements(q) \cup {e}
         /\ IsInjective(q) /\ e \notin Elements(q) => IsInjective(Append(q, e))
<1> DEFINE a == Append(q, e)
<1>1. /\ a \in Seq(Q) /\ Len(a) = Len(q) + 1 /\ Len(q) \in Nat
      /\ DOMAIN a = 1 .. Len(q) + 1 /\ DOMAIN q = 1 .. Len(q)
      /\ a[Len(q) + 1] = e /\ \A i \in 1 .. Len(q) : a[i] = q[i]
  OBVIOUS
<1> HIDE DEF a
<1>2. Elements(a) = Elements(q) \cup {e}
  <2>1. ASSUME NEW x \in Elements(a) PROVE x \in Elements(q) \cup {e}
    <3>1. PICK i \in 1 .. Len(q) + 1 : x = a[i]
      BY <1>1, <2>1 DEF Elements
    <3>2. i \in 1 .. Len(q) \/ i = Len(q) + 1
      BY <1>1
    <3> QED
      BY <1>1, <3>1, <3>2 DEF Elements
  <2>2. Elements(q) \subseteq Elements(a)
    <3>1. \A i \in 1 .. Len(q) : i \in DOMAIN a
      BY <1>1
    <3> QED
      BY <1>1, <3>1 DEF Elements
  <2>3. e \in Elements(a)
    <3>1. Len(q) + 1 \in DOMAIN a
      BY <1>1
    <3> QED
      BY <1>1, <3>1 DEF Elements
  <2> QED
    BY <2>1, <2>2, <2>3
<1>3. ASSUME IsInjective(q), e \notin Elements(q), NEW i \in DOMAIN a, NEW j \in DOMAIN a, a[i] = a[j]
      PROVE  i = j
  <2>1. \A k \in 1 .. Len(q) : a[k] # e
    BY <1>1, <1>3 DEF Elements
  <2>2. (i \in 1 .. Len(q) \/ i = Len(q) + 1) /\ (j \in 1 .. Len(q) \/ j = Len(q) + 1)
    BY <1>1
  <2> QED
    BY <1>1, <1>3, <2>1, <2>2 DEF IsInjective
<1> QED
  BY <1>1, <1>2, <1>3 DEF IsInjective, a

\* What they are when two are put together.
LEMMA ConcatFacts ==
  ASSUME NEW Q, NEW q \in Seq(Q), NEW r \in Seq(Q)
  PROVE  /\ q \o r \in Seq(Q)
         /\ Elements(q \o r) = Elements(q) \cup Elements(r)
         /\ IsInjective(q) /\ IsInjective(r) /\ Elements(q) \cap Elements(r) = {}
              => IsInjective(q \o r)
<1> DEFINE c == q \o r
<1>1. /\ c \in Seq(Q) /\ Len(q) \in Nat /\ Len(r) \in Nat
      /\ DOMAIN c = 1 .. Len(q) + Len(r) /\ DOMAIN q = 1 .. Len(q) /\ DOMAIN r = 1 .. Len(r)
      /\ \A i \in 1 .. Len(q) + Len(r) : c[i] = IF i <= Len(q) THEN q[i] ELSE r[i - Len(q)]
  OBVIOUS
<1> HIDE DEF c
<1>2. \A i \in DOMAIN c : \/ i \in DOMAIN q /\ c[i] = q[i]
                          \/ i - Len(q) \in DOMAIN r /\ c[i] = r[i - Len(q)]
  BY <1>1
<1>3. /\ \A i \in DOMAIN q : i \in DOMAIN c /\ c[i] = q[i]
      /\ \A i \in DOMAIN r : i + Len(q) \in DOMAIN c /\ c[i + Len(q)] = r[i]
  BY <1>1
<1>4. Elements(c) = Elements(q) \cup Elements(r)
  BY <1>2, <1>3 DEF Elements
<1>5. ASSUME IsInjective(q), IsInjective(r), Elements(q) \cap Elements(r) = {},
             NEW i \in DOMAIN c, NEW j \in DOMAIN c, c[i] = c[j]
      PROVE  i = j
  <2>1. \A m \in DOMAIN q, n \in DOMAIN r : q[m] # r[n]
    BY <1>5 DEF Elements
  <2>2. CASE c[i] = q[i] /\ c[j] = q[j] /\ i \in DOMAIN q /\ j \in DOMAIN q
    BY <2>2, <1>5 DEF IsInjective
  <2>3. CASE /\ c[i] = r[i - Len(q)] /\ c[j] = r[j - Len(q)]
             /\ i - Len(q) \in DOMAIN r /\ j - Len(q) \in DOMAIN r
    <3>1. i - Len(q) = j - Len(q) /\ i \in Int /\ j \in Int
      BY <2>3, <1>1, <1>5 DEF IsInjective
    <3> QED
      BY <3>1, <1>1
  <2> QED
    BY <1>2, <1>5, <2>1, <2>2, <2>3
<1> QED
  BY <1>1, <1>4, <1>5 DEF IsInjective, c

\* What they are when the first is taken off.
LEMMA TailFacts ==
  ASSUME NEW Q, NEW q \in Seq(Q), q # <<>>, IsInjective(q)
  PROVE  /\ Head(q) \in Elements(q) /\ Tail(q) \in Seq(Q) /\ IsInjective(Tail(q))
         /\ Elements(Tail(q)) = Elements(q) \ {Head(q)}
<1>1. /\ Len(q) \in Nat \ {0} /\ DOMAIN q = 1 .. Len(q) /\ Head(q) = q[1]
      /\ Tail(q) \in Seq(Q) /\ DOMAIN Tail(q) = 1 .. Len(q) - 1
      /\ \A i \in 1 .. Len(q) - 1 : Tail(q)[i] = q[i + 1]
  OBVIOUS
<1>2. \A i \in DOMAIN Tail(q) : i \in Int /\ i + 1 \in DOMAIN q /\ i + 1 # 1 /\ Tail(q)[i] = q[i + 1]
  BY <1>1
<1>3. \A i \in DOMAIN q : i = 1 \/ (i - 1 \in DOMAIN Tail(q) /\ Tail(q)[i - 1] = q[i])
  BY <1>1
<1>4. 1 \in DOMAIN q
  BY <1>1
<1>5. Elements(Tail(q)) = Elements(q) \ {Head(q)}
  BY <1>1, <1>2, <1>3, <1>4 DEF Elements, IsInjective
<1>6. \A i, j \in DOMAIN Tail(q) : Tail(q)[i] = Tail(q)[j] => i = j
  <2>1. \A i, j \in DOMAIN Tail(q) : Tail(q)[i] = Tail(q)[j] => i + 1 = j + 1
    BY <1>2 DEF IsInjective
  <2> QED
    BY <2>1, <1>2
<1> QED
  BY <1>1, <1>4, <1>5, <1>6 DEF Elements, IsInjective

-------------------------------------------------------------------------------
(* The steps that join the queue                                             *)

\* Selected goes through the sequence from its first member to its last.
LEMMA SiftedUnfold ==
  ASSUME NEW seq, NEW S, Len(seq) \in Nat
  PROVE  /\ Sifted(seq, S)[0] = <<>>
         /\ \A i \in 1 .. Len(seq) :
              Sifted(seq, S)[i] = IF seq[i] \in S THEN Append(Sifted(seq, S)[i - 1], seq[i])
                                                    ELSE Sifted(seq, S)[i - 1]
<1> DEFINE
      next(q, i) == IF seq[i] \in S THEN Append(q, seq[i]) ELSE q
      Is(g, n) == g = [i \in 0 .. n |-> IF i = 0 THEN <<>> ELSE next(g[i - 1], i)]
      N == Len(seq)
      T == {n \in 0 .. N : \E g : Is(g, n)}
      f == CHOOSE g : g = [i \in 0 .. N |-> IF i = 0 THEN <<>>
                             ELSE IF seq[i] \in S THEN Append(g[i - 1], seq[i]) ELSE g[i - 1]]
<1>1. 0 \in T
  <2> DEFINE g == [i \in 0 .. 0 |-> <<>>]
  <2>1. Is(g, 0)
    <3> HIDE DEF next
    <3> QED OBVIOUS
  <2> HIDE DEF g, Is
  <2> QED
    BY <2>1
<1>2. ASSUME NEW n \in 1 .. N, n - 1 \in T
      PROVE  n \in T
  <2>1. PICK g : Is(g, n - 1)
    BY <1>2
  <2> DEFINE h == [i \in 0 .. n |-> IF i = n THEN next(g[n - 1], n) ELSE g[i]]
  <2>2. ASSUME NEW i \in 0 .. n
        PROVE  h[i] = IF i = 0 THEN <<>> ELSE next(h[i - 1], i)
    <3> HIDE DEF next
    <3>1. CASE i = n
      BY <3>1, <1>2, <2>1
    <3>2. CASE i # n
      BY <3>2, <1>2, <2>1
    <3> QED
      BY <3>1, <3>2
  <2>3. Is(h, n)
    <3> HIDE DEF next
    <3> QED BY <2>2
  <2> HIDE DEF h, Is
  <2> QED
    BY <2>3
<1>3. N \in T
  <2> HIDE DEF T
  <2>1. N \in Nat /\ N \in 0 .. N
    OBVIOUS
  <2> QED BY <1>1, <1>2, <2>1, ReachesAll
<1>4. f = [i \in 0 .. N |-> IF i = 0 THEN <<>> ELSE next(f[i - 1], i)]
  BY <1>3, Zenon
<1>5. Sifted(seq, S) = f
  BY Zenon DEF Sifted
<1> HIDE DEF f, next
<1>6. \A i \in 0 .. N : f[i] = IF i = 0 THEN <<>> ELSE next(f[i - 1], i)
  BY <1>4
<1>7. f[0] = <<>> /\ \A i \in 1 .. N : f[i] = next(f[i - 1], i)
  BY <1>6
<1> QED
  BY <1>5, <1>7 DEF next

\* The members of seq that are in S, each as often as in seq: once, if seq repeats none.
LEMMA SelectedFacts ==
  ASSUME NEW seq, Len(seq) \in Nat, DOMAIN seq = 1 .. Len(seq), IsInjective(seq), NEW S
  PROVE  /\ Selected(seq, S) \in Seq(Elements(seq)) /\ IsInjective(Selected(seq, S))
         /\ Elements(Selected(seq, S)) = Elements(seq) \cap S
<1> DEFINE
      p == Sifted(seq, S)
      N == Len(seq)
      Before(i) == {seq[j] : j \in 1 .. i}
      Fits(i) == /\ p[i] \in Seq(Elements(seq)) /\ IsInjective(p[i])
                 /\ Elements(p[i]) = Before(i) \cap S
      T == {i \in 0 .. N : Fits(i)}
<1> HIDE DEF p
<1>1. 0 \in T
  <2>1. p[0] = <<>>
    BY SiftedUnfold DEF p
  <2>2. <<>> \in Seq(Elements(seq)) /\ DOMAIN <<>> = {}
    OBVIOUS
  <2>3. Before(0) = {}
    OBVIOUS
  <2>4. Elements(p[0]) = {} /\ IsInjective(p[0])
    BY <2>1, <2>2 DEF Elements, IsInjective
  <2>5. Fits(0)
    <3> HIDE DEF Before
    <3> QED BY <2>1, <2>2, <2>3, <2>4
  <2> QED
    BY <2>5
<1>2. ASSUME NEW i \in 1 .. N, i - 1 \in T
      PROVE  i \in T
  <2>1. p[i] = IF seq[i] \in S THEN Append(p[i - 1], seq[i]) ELSE p[i - 1]
    BY SiftedUnfold DEF p
  <2>2. Fits(i - 1)
    BY <1>2
  <2>3. seq[i] \in Elements(seq)
    BY DEF Elements
  <2>4. Before(i) = Before(i - 1) \cup {seq[i]}
    <3>1. 1 .. i = (1 .. i - 1) \cup {i}
      OBVIOUS
    <3> QED BY <3>1
  <2>5. seq[i] \notin Before(i - 1)
    BY DEF IsInjective
  <2> HIDE DEF Before
  <2>6. CASE seq[i] \in S
    <3>1. seq[i] \notin Elements(p[i - 1])
      BY <2>2, <2>5
    <3>2. Fits(i)
      BY <2>1, <2>2, <2>3, <2>4, <2>6, <3>1, AppendFacts
    <3> QED
      BY <3>2
  <2>7. CASE seq[i] \notin S
    BY <2>1, <2>2, <2>4, <2>7
  <2> QED
    BY <2>6, <2>7
<1>3. N \in T
  <2> HIDE DEF T
  <2>1. N \in Nat /\ N \in 0 .. N
    OBVIOUS
  <2> QED BY <1>1, <1>2, <2>1, ReachesAll
<1>4. Before(N) = Elements(seq)
  BY DEF Elements
<1> QED
  BY <1>3, <1>4 DEF Selected, p

-------------------------------------------------------------------------------
(* Kahn's algorithm                                                          *)

\* A listing of steps without repetition, with what each of them depends on.
IsListing(listing, deps) ==
  /\ Len(listing) \in Nat /\ DOMAIN listing = 1 .. Len(listing) /\ IsInjective(listing)
  /\ \A m \in Elements(listing) : Len(deps[m]) \in Nat /\ DOMAIN deps[m] = 1 .. Len(deps[m])

\* What m still waits for: the places in its depends_on of steps not yet ordered.
Waits(deps, order, m) == {i \in DOMAIN deps[m] : deps[m][i] \notin Elements(order)}

\* A step is in the order or the queue, and in one of them once, when it waits for
\* nothing; its degree counts what it waits for; and the order lists a step behind all
\* it depends on.
Kahn(listing, deps, k) ==
  /\ k.queue \in Seq(Elements(listing)) /\ k.order \in Seq(Elements(listing))
  /\ IsInjective(k.queue) /\ IsInjective(k.order)
  /\ Elements(k.order) \cap Elements(k.queue) = {}
  /\ \A m \in Elements(listing) : k.degree[m] = Cardinality(Waits(deps, k.order, m))
  /\ \A m \in Elements(listing) :
       m \in Elements(k.order) \cup Elements(k.queue) <=> k.degree[m] = 0
  /\ \A i \in DOMAIN k.order : \A d \in Elements(deps[k.order[i]]) :
       \E j \in 1 .. i - 1 : k.order[j] = d

\* What a step waits for is finite.
LEMMA WaitsFinite ==
  ASSUME NEW listing, NEW deps, IsListing(listing, deps), NEW m \in Elements(listing), NEW order
  PROVE  /\ IsFiniteSet(Waits(deps, order, m)) /\ Cardinality(Waits(deps, order, m)) \in Nat
         /\ Cardinality(Waits(deps, order, m)) = 0 <=> Elements(deps[m]) \subseteq Elements(order)
<1>1. IsFiniteSet(DOMAIN deps[m])
  BY FS_Interval DEF IsListing
<1>2. Waits(deps, order, m) \in SUBSET DOMAIN deps[m]
  BY DEF Waits
<1>3. IsFiniteSet(Waits(deps, order, m)) /\ Cardinality(Waits(deps, order, m)) \in Nat
  BY <1>1, <1>2, FS_Subset, FS_CardinalityType
<1>4. Cardinality(Waits(deps, order, m)) = 0 <=> Waits(deps, order, m) = {}
  BY <1>3, FS_EmptySet
<1>5. Waits(deps, order, m) = {} <=> Elements(deps[m]) \subseteq Elements(order)
  BY DEF Waits, Elements
<1> QED
  BY <1>3, <1>4, <1>5

\* Kahn's algorithm starts right.
LEMMA FirstTurnKahn ==
  ASSUME NEW listing, NEW deps, IsListing(listing, deps)
  PROVE  Kahn(listing, deps, FirstTurn(listing, deps))
<1> DEFINE free == {s \in Elements(listing) : Len(deps[s]) = 0}
           k == FirstTurn(listing, deps)
<1>1. /\ k.queue = Selected(listing, free) /\ k.order = <<>>
      /\ \A m \in Elements(listing) : k.degree[m] = Len(deps[m])
  BY DEF FirstTurn
<1> HIDE DEF k
<1>2. /\ k.queue \in Seq(Elements(listing)) /\ IsInjective(k.queue)
      /\ Elements(k.queue) = free
  <2>1. Elements(listing) \cap free = free
    OBVIOUS
  <2> HIDE DEF free
  <2> QED
    BY <1>1, <2>1, SelectedFacts DEF IsListing
<1>3. k.order \in Seq(Elements(listing)) /\ DOMAIN k.order = {} /\ Elements(k.order) = {}
  BY <1>1 DEF Elements
<1>4. ASSUME NEW m \in Elements(listing)
      PROVE  k.degree[m] = Cardinality(Waits(deps, k.order, m))
  <2>1. Waits(deps, k.order, m) = 1 .. Len(deps[m])
    BY <1>3 DEF Waits, IsListing
  <2>2. Len(deps[m]) \in Nat
    BY DEF IsListing
  <2>3. Cardinality(1 .. Len(deps[m])) = Len(deps[m])
    BY <2>2, FS_Interval
  <2> QED
    BY <1>1, <2>1, <2>3
<1>5. \A m \in Elements(listing) :
        m \in Elements(k.order) \cup Elements(k.queue) <=> k.degree[m] = 0
  BY <1>1, <1>2, <1>3
<1>6. IsInjective(k.order) /\ Elements(k.order) \cap Elements(k.queue) = {}
  BY <1>3 DEF IsInjective
<1> QED
  BY <1>2, <1>3, <1>4, <1>5, <1>6 DEF Kahn, k

\* A step that joins the order is waited for no longer.
LEMMA VisitLowers ==
  ASSUME NEW listing, NEW deps, IsListing(listing, deps), NEW m \in Elements(listing),
         NEW order, NEW n, n \notin Elements(order), NEW after,
         Elements(after) = Elements(order) \cup {n}
  PROVE  /\ Occurrences(deps[m], n) \in Nat
         /\ Cardinality(Waits(deps, after, m))
              = Cardinality(Waits(deps, order, m)) - Occurrences(deps[m], n)
<1> DEFINE W == Waits(deps, order, m)
           O == {i \in DOMAIN deps[m] : deps[m][i] = n}
<1>1. IsFiniteSet(W) /\ O \subseteq W /\ Waits(deps, after, m) = W \ O
  BY WaitsFinite DEF Waits
<1>2. W \cap O = O
  BY <1>1
<1> HIDE DEF W, O
<1>3. IsFiniteSet(O) /\ Cardinality(O) \in Nat
  BY <1>1, FS_Subset, FS_CardinalityType
<1>4. Cardinality(W \ O) = Cardinality(W) - Cardinality(O)
  BY <1>1, <1>2, FS_Difference
<1> QED
  BY <1>1, <1>3, <1>4 DEF Occurrences, W, O

LEMMA VisitKahn ==
  ASSUME NEW listing, NEW deps, IsListing(listing, deps), NEW k, Kahn(listing, deps, k),
         k.queue # <<>>
  PROVE  /\ Kahn(listing, deps, Visit(listing, deps, k))
         /\ Len(Visit(listing, deps, k).order) = Len(k.order) + 1
<1> DEFINE names  == Elements(listing)
           n      == Head(k.queue)
           degree == [m \in names |-> k.degree[m] - Occurrences(deps[m], n)]
           freed  == {m \in names : FreedByLast(k.degree[m], degree[m])}
           v      == Visit(listing, deps, k)
<1>1. /\ v.queue = Tail(k.queue) \o Selected(listing, freed)
      /\ v.degree = degree /\ v.order = Append(k.order, n)
  BY DEF Visit
<1> HIDE DEF v, freed, degree, n, names
<1>2. /\ k.queue \in Seq(names) /\ k.order \in Seq(names)
      /\ IsInjective(k.queue) /\ IsInjective(k.order)
      /\ Elements(k.order) \cap Elements(k.queue) = {}
  BY DEF Kahn, names
<1>3. /\ n \in Elements(k.queue) /\ Tail(k.queue) \in Seq(names) /\ IsInjective(Tail(k.queue))
      /\ Elements(Tail(k.queue)) = Elements(k.queue) \ {n}
  BY <1>2, TailFacts DEF n
<1>4. \A q \in Seq(names) : Elements(q) \subseteq names
  BY DEF Elements
<1>5. n \in names /\ n \notin Elements(k.order)
  BY <1>2, <1>3, <1>4
<1>6. /\ v.order \in Seq(names) /\ IsInjective(v.order) /\ Len(v.order) = Len(k.order) + 1
      /\ Elements(v.order) = Elements(k.order) \cup {n}
      /\ v.order[Len(k.order) + 1] = n
      /\ \A i \in 1 .. Len(k.order) : v.order[i] = k.order[i]
  BY <1>1, <1>2, <1>5, AppendFacts
<1>7. ASSUME NEW m \in names
      PROVE  /\ k.degree[m] \in Nat /\ v.degree[m] \in Nat /\ v.degree[m] <= k.degree[m]
             /\ v.degree[m] = Cardinality(Waits(deps, v.order, m))
  <2>1. k.degree[m] = Cardinality(Waits(deps, k.order, m))
    BY <1>7 DEF Kahn, names
  <2>2. /\ Occurrences(deps[m], n) \in Nat
        /\ Cardinality(Waits(deps, v.order, m)) = k.degree[m] - Occurrences(deps[m], n)
    BY <1>5, <1>6, <1>7, <2>1, VisitLowers DEF names
  <2>3. v.degree[m] = k.degree[m] - Occurrences(deps[m], n)
    BY <1>1, <1>7 DEF degree
  <2>4. k.degree[m] \in Nat /\ Cardinality(Waits(deps, v.order, m)) \in Nat
    BY <1>7, <2>1, WaitsFinite DEF names
  <2> QED
    BY <2>2, <2>3, <2>4
<1>8. freed = {m \in names : v.degree[m] < k.degree[m] /\ v.degree[m] = 0}
  BY <1>1 DEF freed, FreedByLast
<1>9. \A m \in names : m \in Elements(k.order) \cup Elements(k.queue) <=> k.degree[m] = 0
  BY DEF Kahn, names
<1>10. freed \subseteq names /\ freed \cap (Elements(k.order) \cup Elements(k.queue)) = {}
  BY <1>7, <1>8, <1>9
<1>11. /\ Selected(listing, freed) \in Seq(names) /\ IsInjective(Selected(listing, freed))
       /\ Elements(Selected(listing, freed)) = freed
  <2>1. Elements(listing) \cap freed = freed
    BY <1>10 DEF names
  <2>2. /\ Selected(listing, freed) \in Seq(Elements(listing)) /\ IsInjective(Selected(listing, freed))
        /\ Elements(Selected(listing, freed)) = Elements(listing) \cap freed
    BY SelectedFacts DEF IsListing
  <2> QED
    BY <2>1, <2>2 DEF names
<1>12. /\ v.queue \in Seq(names) /\ IsInjective(v.queue)
       /\ Elements(v.queue) = (Elements(k.queue) \ {n}) \cup freed
  <2>1. Elements(Tail(k.queue)) \cap Elements(Selected(listing, freed)) = {}
    BY <1>3, <1>10, <1>11
  <2>2. /\ v.queue \in Seq(names) /\ IsInjective(v.queue)
        /\ Elements(v.queue) = Elements(Tail(k.queue)) \cup Elements(Selected(listing, freed))
    <3> DEFINE q == Tail(k.queue)
               r == Selected(listing, freed)
    <3>1. q \in Seq(names) /\ r \in Seq(names) /\ IsInjective(q) /\ IsInjective(r)
      BY <1>3, <1>11
    <3> HIDE DEF q, r
    <3>2. /\ q \o r \in Seq(names) /\ IsInjective(q \o r)
          /\ Elements(q \o r) = Elements(q) \cup Elements(r)
      <4>1. Elements(q) \cap Elements(r) = {}
        BY <2>1 DEF q, r
      <4> QED
        BY <3>1, <4>1, ConcatFacts
    <3> QED
      BY <1>1, <3>2 DEF q, r
  <2> QED
    BY <1>3, <1>11, <2>2
<1>13. Elements(v.order) \cap Elements(v.queue) = {}
  BY <1>2, <1>3, <1>6, <1>10, <1>12
<1>14. \A m \in names : m \in Elements(v.order) \cup Elements(v.queue) <=> v.degree[m] = 0
  <2>1. \A m \in names : v.degree[m] = 0 <=> k.degree[m] = 0 \/ m \in freed
    BY <1>7, <1>8
  <2>2. Elements(v.order) \cup Elements(v.queue)
          = Elements(k.order) \cup Elements(k.queue) \cup freed
    BY <1>3, <1>6, <1>12
  <2> QED
    BY <1>9, <2>1, <2>2
<1>15. ASSUME NEW i \in DOMAIN v.order, NEW d \in Elements(deps[v.order[i]])
       PROVE  \E j \in 1 .. i - 1 : v.order[j] = d
  <2>1. /\ Len(k.order) \in Nat /\ DOMAIN k.order = 1 .. Len(k.order)
        /\ i \in 1 .. Len(k.order) \/ i = Len(k.order) + 1
    BY <1>2, <1>6
  <2>2. CASE i \in 1 .. Len(k.order)
    <3>1. i \in DOMAIN k.order /\ v.order[i] = k.order[i]
      BY <1>6, <2>1, <2>2
    <3>2. PICK j \in 1 .. i - 1 : k.order[j] = d
      BY <1>15, <3>1 DEF Kahn
    <3>3. j \in 1 .. Len(k.order)
      BY <2>1, <2>2, <3>2
    <3> QED
      BY <1>6, <3>2, <3>3
  <2>3. CASE i = Len(k.order) + 1
    <3>1. v.order[i] = n
      BY <1>6, <2>3
    <3>2. k.degree[n] = 0 /\ k.degree[n] = Cardinality(Waits(deps, k.order, n))
      BY <1>3, <1>5, <1>9 DEF Kahn, names
    <3>3. Elements(deps[n]) \subseteq Elements(k.order)
      BY <1>5, <3>2, WaitsFinite DEF names
    <3>4. PICK j \in 1 .. Len(k.order) : k.order[j] = d
      BY <1>15, <2>1, <3>1, <3>3 DEF Elements
    <3>5. j \in 1 .. i - 1
      BY <2>1, <2>3, <3>4
    <3> QED
      BY <1>6, <3>4, <3>5
  <2> QED
    BY <2>1, <2>2, <2>3
<1>16. Kahn(listing, deps, v)
  BY <1>6, <1>7, <1>12, <1>13, <1>14, <1>15 DEF Kahn, names
<1> QED
  BY <1>6, <1>16 DEF v

\* The last turn leaves the invariant, and nothing in the queue unless all are ordered.
LEMMA LastTurnKahn ==
  ASSUME NEW listing, NEW deps, IsListing(listing, deps)
  PROVE  LET k == Turns(listing, deps)[Len(listing)] IN
           /\ Kahn(listing, deps, k)
           /\ Len(k.order) = Len(listing) \/ k.queue = <<>>
<1> DEFINE t == Turns(listing, deps)
           N == Len(listing)
           Fits(i) == Kahn(listing, deps, t[i]) /\ (Len(t[i].order) = i \/ t[i].queue = <<>>)
           T == {i \in 0 .. N : Fits(i)}
<1>1. N \in Nat
  BY DEF IsListing
<1>2. t[0] = FirstTurn(listing, deps) /\ \A i \in 1 .. N : t[i] = NextTurn(listing, deps, t[i - 1])
  BY <1>1, TurnsUnfold
<1> HIDE DEF t
<1>3. 0 \in T
  <2>1. Kahn(listing, deps, t[0])
    BY <1>2, FirstTurnKahn
  <2>2. Len(t[0].order) = 0
    BY <1>2 DEF FirstTurn
  <2> QED
    BY <1>1, <2>1, <2>2
<1>4. ASSUME NEW i \in 1 .. N, i - 1 \in T
      PROVE  i \in T
  <2>1. Fits(i - 1) /\ t[i] = NextTurn(listing, deps, t[i - 1])
    BY <1>2, <1>4
  <2>2. CASE t[i - 1].queue = <<>>
    BY <2>1, <2>2 DEF NextTurn
  <2>3. CASE t[i - 1].queue # <<>>
    <3>1. t[i] = Visit(listing, deps, t[i - 1])
      BY <2>1, <2>3 DEF NextTurn
    <3>2. Kahn(listing, deps, t[i]) /\ Len(t[i].order) = Len(t[i - 1].order) + 1
      BY <2>1, <2>3, <3>1, VisitKahn
    <3>3. Len(t[i].order) = i
      BY <2>1, <2>3, <3>2
    <3> QED
      BY <3>2, <3>3
  <2> QED
    BY <2>2, <2>3
<1>5. N \in T
  <2> HIDE DEF T
  <2>1. N \in 0 .. N
    BY <1>1
  <2> QED BY <1>1, <1>3, <1>4, <2>1, ReachesAll
<1> QED
  BY <1>5 DEF t

\* A listing has as many steps as places.
LEMMA ListingCount ==
  ASSUME NEW listing, NEW deps, IsListing(listing, deps)
  PROVE  IsFiniteSet(Elements(listing)) /\ Cardinality(Elements(listing)) = Len(listing)
<1> DEFINE f == [i \in 1 .. Len(listing) |-> listing[i]]
<1>1. Len(listing) \in Nat /\ DOMAIN listing = 1 .. Len(listing)
  BY DEF IsListing
<1>2. f \in Bijection(1 .. Len(listing), Elements(listing))
  BY <1>1 DEF IsListing, IsInjective, Bijection, Injection, Surjection, Elements
<1>3. IsFiniteSet(1 .. Len(listing)) /\ Cardinality(1 .. Len(listing)) = Len(listing)
  <2> DEFINE N == Len(listing)
  <2>1. N \in Nat
    BY <1>1
  <2> HIDE DEF N
  <2>2. IsFiniteSet(1 .. N) /\ Cardinality(1 .. N) = N
    BY <2>1, FS_Interval
  <2> QED
    BY <2>2 DEF N
<1>4. ExistsBijection(1 .. Len(listing), Elements(listing))
  BY <1>2 DEF ExistsBijection
<1> QED
  BY <1>3, <1>4, FS_Bijection

\* A sequence without repetition lists all the steps when it is as long as the listing,
\* and only then.
LEMMA ListsAll ==
  ASSUME NEW listing, NEW deps, IsListing(listing, deps),
         NEW order \in Seq(Elements(listing)), IsInjective(order)
  PROVE  Len(order) = Len(listing) <=> Elements(order) = Elements(listing)
<1>1. Len(order) \in Nat /\ DOMAIN order = 1 .. Len(order) /\ order \in [1 .. Len(order) -> Elements(listing)]
  OBVIOUS
<1>2. IsFiniteSet(1 .. Len(order)) /\ Cardinality(1 .. Len(order)) = Len(order)
  BY <1>1, FS_Interval
<1>3. order \in Injection(1 .. Len(order), Elements(listing))
  BY <1>1 DEF IsInjective, Injection
<1>4. Cardinality(1 .. Len(order)) = Cardinality(Elements(listing))
        <=> order \in Surjection(1 .. Len(order), Elements(listing))
  BY <1>3, ListingCount, FS_Injection
<1>5. order \in Surjection(1 .. Len(order), Elements(listing)) <=> Elements(order) = Elements(listing)
  BY <1>1 DEF Surjection, Elements
<1> QED
  BY <1>2, <1>4, <1>5, ListingCount

\* orderSteps finds an order exactly when every dependency is listed and none waits for
\* itself, and the order lists every step behind what it depends on.
THEOREM OrderStepsCorrect ==
  ASSUME NEW listing, NEW deps, IsListing(listing, deps), Len(listing) # 0
  PROVE  LET order == OrderSteps(listing, deps) IN
           /\ TopologicalOrder(listing, deps, order) \/ order = NoOrder
           /\ order # NoOrder <=> /\ \A s \in Elements(listing) : Elements(deps[s]) \subseteq Elements(listing)
                                  /\ Acyclic(Elements(listing), deps)
<1> DEFINE names == Elements(listing)
           k     == Turns(listing, deps)[Len(listing)]
           known == \A s \in names : Elements(deps[s]) \subseteq names
           full  == Len(k.order) = Len(listing)
<1>1. Kahn(listing, deps, k) /\ (full \/ k.queue = <<>>)
  BY LastTurnKahn
<1>2. OrderSteps(listing, deps) = IF known /\ full THEN k.order ELSE NoOrder
  BY DEF OrderSteps
<1> HIDE DEF k
<1>3. full <=> Elements(k.order) = names
  BY <1>1, ListsAll DEF Kahn
<1>4. /\ k.order \in Seq(names) /\ Len(k.order) \in Nat /\ DOMAIN k.order = 1 .. Len(k.order)
      /\ Elements(k.order) \subseteq names
  BY <1>1 DEF Kahn, Elements
<1>5. full => k.order # NoOrder
  <2>1. Len(NoOrder) = 0
    BY DEF NoOrder
  <2> QED
    BY <2>1
<1>6. full => TopologicalOrder(listing, deps, k.order)
  BY <1>1, <1>3 DEF TopologicalOrder, Kahn
<1>7. ASSUME full, NEW S \in (SUBSET names) \ {{}}
      PROVE  \E s \in S : Elements(deps[s]) \cap S = {}
  <2> DEFINE Q == {i \in DOMAIN k.order : k.order[i] \in S}
  <2>1. Q \in SUBSET Nat /\ Q # {}
    <3>1. S # {} /\ S \subseteq names
      BY <1>7
    <3>2. PICK s \in S : \E i \in DOMAIN k.order : k.order[i] = s
      BY <1>3, <1>7, <3>1 DEF Elements
    <3> QED
      BY <1>4, <3>2
  <2>2. PICK i \in Q : \A j \in Q : i <= j
    <3> HIDE DEF Q
    <3> QED BY <2>1, LeastNumber
  <2>3. ASSUME NEW d \in Elements(deps[k.order[i]]) PROVE d \notin S
    <3>1. PICK j \in 1 .. i - 1 : k.order[j] = d
      BY <1>1, <2>2, <2>3 DEF Kahn
    <3>2. j \in DOMAIN k.order /\ ~(i <= j)
      BY <1>4, <2>2, <3>1
    <3>3. j \notin Q
      BY <2>2, <3>2
    <3> QED
      BY <3>1, <3>2, <3>3
  <2> QED
    BY <2>2, <2>3
<1>8. ASSUME known, Acyclic(names, deps)
      PROVE  full
  <2> DEFINE U == names \ Elements(k.order)
  <2> SUFFICES ASSUME ~full PROVE FALSE
    OBVIOUS
  <2>1. k.queue = <<>> /\ Elements(k.queue) = {}
    BY <1>1 DEF Elements
  <2>2. U # {} /\ U \in SUBSET names
    BY <1>3, <1>4
  <2>3. PICK s \in U : Elements(deps[s]) \cap U = {}
    BY <1>8, <2>2 DEF Acyclic
  <2>4. Elements(deps[s]) \subseteq Elements(k.order)
    BY <1>8, <2>3
  <2>5. k.degree[s] = 0
    <3>1. k.degree[s] = Cardinality(Waits(deps, k.order, s))
      BY <1>1 DEF Kahn
    <3> QED
      BY <2>4, <3>1, WaitsFinite
  <2>6. s \in Elements(k.order) \cup Elements(k.queue)
    BY <1>1, <2>5 DEF Kahn
  <2> QED
    BY <2>1, <2>6
<1>9. full => Acyclic(names, deps)
  BY <1>7 DEF Acyclic
<1> QED
  BY <1>2, <1>5, <1>6, <1>8, <1>9


-------------------------------------------------------------------------------
(* The executor                                                              *)

USE StepExecutorAssumption

\* A goroutine that has not stored its result.
Open == {"waiting", "ready", "announce", "exec", "record"}

\* What is true of the goroutines even when a step was launched twice: none is left
\* when executeSteps has returned, a step is launched when all it depends on has
\* settled, and so are the dependents a goroutine has collected.
Planned ==
  /\ main.pc \in {"plan", "rejected"} => routines = <<>>
  /\ main.pc = "plan" => results = [s \in Step |-> "none"] /\ runs = [s \in Step |-> 0]
  /\ main.pc \notin {"plan", "rejected"} => \A s \in Step : Deps(s) \subseteq Step
ReturnedDone == main.pc = "returned" => NoRoutineLeft
Collected ==
  \A g \in DOMAIN routines :
    /\ routines[g].pc = "record" => routines[g].res \in Settled
    /\ routines[g].pc \in {"announce", "report"} => routines[g].snapshot \in [Step -> StepStatus]
    /\ routines[g].pc = "report" =>
         /\ routines[g].next \subseteq Children(routines[g].step)
         /\ \A c \in routines[g].next : AllDone(Listing[c[1]], results)
LaunchedBehind ==
  \A g \in DOMAIN routines : AllDone(routines[g].step, results)
Orderly == Planned /\ ReturnedDone /\ Collected /\ LaunchedBehind

\* What is true as long as no step was launched twice: a step has one goroutine, and
\* has no result until this one stores it.
Distinct ==
  \A g, h \in DOMAIN routines : routines[g].step = routines[h].step => g = h
CarryIdle ==
  /\ \A s \in carry : Deps(s) \subseteq carry /\ runs[s] = 0
  /\ \A g \in DOMAIN routines : routines[g].step \notin carry
  /\ main.pc \notin {"plan", "rejected"} => \A s \in carry : results[s] = "success"
OpenUnsettled ==
  \A g \in DOMAIN routines : routines[g].pc \in Open => results[routines[g].step] = "none"
SettledByRoutine ==
  \A s \in Step : results[s] # "none" =>
    s \in carry \/ \E g \in DOMAIN routines : routines[g].step = s

\* Whether a step runs was decided by results that are final.
MayRun(s, res)   == \A d \in Deps(s) : res[d] = "success"
MustSkip(s, res) == \E d \in Deps(s) : res[d] \notin {"none", "success"}
Decided ==
  /\ \A g \in DOMAIN routines :
       /\ routines[g].pc \in {"ready", "announce", "exec"} => MayRun(routines[g].step, results)
       /\ routines[g].pc = "record" =>
            IF routines[g].res = "skipped" THEN MustSkip(routines[g].step, results)
                                           ELSE MayRun(routines[g].step, results)
  /\ \A s \in Step :
       /\ results[s] = "skipped" => MustSkip(s, results)
       /\ results[s] \in {"success", "failed", "canceled"} => MayRun(s, results)
Once == Distinct /\ CarryIdle /\ OpenUnsettled /\ SettledByRoutine /\ Decided

StepInv == TypeOK /\ Orderly /\ (~twice => Once)

-------------------------------------------------------------------------------
(* Workflows and sequences of goroutines                                     *)

\* The steps of a workflow are the entries of its listing.
LEMMA WorkflowFacts ==
  ASSUME wf \in Workflows
  PROVE  /\ Len(Listing) \in Nat \ {0} /\ DOMAIN Listing = 1 .. Len(Listing)
         /\ \A i \in DOMAIN Listing : Listing[i] \in Step
         /\ \A s \in Step : \E i \in DOMAIN Listing : Listing[i] = s
         /\ DOMAIN wf.deps = Step
         /\ \A s \in Step : Len(wf.deps[s]) \in Nat /\ DOMAIN wf.deps[s] = 1 .. Len(wf.deps[s])
         /\ wf.retry \in [Step -> Nat]
BY DEF StepExecutorAssumption, Listing, Step, Elements

\* A set that is finite is listed by SetToSeq.
LEMMA SetToSeqLists ==
  ASSUME NEW S, IsFiniteSet(S)
  PROVE  /\ Cardinality(S) \in Nat
         /\ SetToSeq(S) \in [1 .. Cardinality(S) -> S]
         /\ \A x \in S : \E i \in 1 .. Cardinality(S) : SetToSeq(S)[i] = x
<1> DEFINE n == Cardinality(S)
           f == SetToSeq(S)
<1>1. n \in Nat /\ ExistsBijection(1 .. n, S)
  BY FS_CardinalityType
<1>2. \E h \in [1 .. n -> S] : IsInjective(h)
  BY <1>1 DEF ExistsBijection, Bijection, Injection, Surjection, IsInjective
<1>3. f \in [1 .. n -> S] /\ IsInjective(f)
  BY <1>2 DEF SetToSeq
<1> HIDE DEF n, f
<1>4. IsFiniteSet(1 .. n) /\ Cardinality(1 .. n) = n
  BY <1>1, FS_Interval
<1>5. f \in Injection(1 .. n, S)
  BY <1>3 DEF IsInjective, Injection
<1>6. f \in Surjection(1 .. n, S)
  BY <1>4, <1>5, FS_Injection DEF n
<1> QED
  BY <1>1, <1>3, <1>6 DEF Surjection, n, f

\* The children list of a step is finite, and holds places of the listing whose steps
\* depend on it.
LEMMA ChildrenFacts ==
  ASSUME wf \in Workflows, NEW s
  PROVE  /\ IsFiniteSet(Children(s))
         /\ \A c \in Children(s) :
              /\ c[1] \in DOMAIN Listing /\ c \in (DOMAIN Listing) \X Nat
              /\ s \in Deps(Listing[c[1]])
<1> DEFINE Named(i) == {n \in DOMAIN wf.deps[Listing[i]] : wf.deps[Listing[i]][n] = s}
           f == [i \in DOMAIN Listing |-> {i} \X Named(i)]
           T == {f[i] : i \in DOMAIN Listing}
<1>1. Children(s) = UNION T
  BY DEF Children
<1>2. \A i \in DOMAIN Listing : IsFiniteSet({i} \X Named(i))
  <2> TAKE i \in DOMAIN Listing
  <2>1. /\ Len(wf.deps[Listing[i]]) \in Nat
        /\ DOMAIN wf.deps[Listing[i]] = 1 .. Len(wf.deps[Listing[i]])
    BY WorkflowFacts
  <2>2. IsFiniteSet(DOMAIN wf.deps[Listing[i]])
    BY <2>1, FS_Interval
  <2>3. IsFiniteSet(Named(i))
    BY <2>2, FS_Subset
  <2> QED
    BY <2>3, FS_Singleton, FS_Product
<1>3. IsFiniteSet(T)
  <2>1. IsFiniteSet(DOMAIN Listing)
    BY WorkflowFacts, FS_Interval
  <2>2. f \in Surjection(DOMAIN Listing, T)
    BY DEF Surjection
  <2> QED
    BY <2>1, <2>2, FS_Surjection
<1>4. IsFiniteSet(Children(s))
  <2>1. \A U \in T : IsFiniteSet(U)
    BY <1>2
  <2>2. IsFiniteSet(UNION T)
    <3> HIDE DEF T
    <3> QED BY <2>1, <1>3, FS_UNION
  <2> QED
    BY <2>2, <1>1
<1>5. ASSUME NEW c \in Children(s)
      PROVE  /\ c[1] \in DOMAIN Listing /\ c \in (DOMAIN Listing) \X Nat
             /\ s \in Deps(Listing[c[1]])
  <2>1. PICK i \in DOMAIN Listing : c \in {i} \X Named(i)
    BY <1>1, <1>5
  <2>2. c[1] = i /\ c[2] \in Named(i) /\ c = <<c[1], c[2]>>
    BY <2>1
  <2>3. c[2] \in Nat
    BY <2>2, WorkflowFacts
  <2>4. s \in Deps(Listing[i])
    BY <2>2 DEF Deps, Elements
  <2> QED
    BY <2>2, <2>3, <2>4
<1> QED
  BY <1>4, <1>5

\* OrderSteps finds an order only when every dependency is a step.
LEMMA OrderKnowsSteps ==
  ASSUME OrderSteps(Listing, wf.deps) # NoOrder
  PROVE  \A s \in Step : Deps(s) \subseteq Step
BY Zenon DEF OrderSteps, Step, Deps

\* A launch adds goroutines that wait, and notes when a step has two.
LEMMA LaunchAdds ==
  ASSUME NEW rs \in Seq(Goroutine), NEW n \in Nat, NEW seq \in [1 .. n -> Step],
         Launch(rs, seq)
  PROVE  /\ routines' \in Seq(Goroutine)
         /\ DOMAIN rs \subseteq DOMAIN routines'
         /\ \A g \in DOMAIN rs : routines'[g] = rs[g]
         /\ \A g \in DOMAIN routines' \ DOMAIN rs :
              \E i \in 1 .. n : routines'[g] = Routine(seq[i])
         /\ ~twice' => ~twice /\ Distinct'
<1> DEFINE new == [i \in DOMAIN seq |-> Routine(seq[i])]
<1>1. \A s \in Step : Routine(s) \in Goroutine
  BY DEF Routine, Goroutine, Unfinished, Snapshots, Places
<1>2. new \in [1 .. n -> Goroutine]
  BY <1>1
<1>3. new \in Seq(Goroutine) /\ Len(new) = n
  BY <1>2
<1>4. routines' = rs \o new
  BY DEF Launch
<1>5. /\ routines' \in Seq(Goroutine) /\ Len(routines') = Len(rs) + n
      /\ \A g \in 1 .. Len(routines') :
           routines'[g] = IF g <= Len(rs) THEN rs[g] ELSE new[g - Len(rs)]
  BY <1>3, <1>4
<1>6. DOMAIN rs = 1 .. Len(rs) /\ DOMAIN routines' = 1 .. Len(routines') /\ Len(rs) \in Nat
  BY <1>5
<1>8. ASSUME NEW g \in DOMAIN rs
      PROVE  g \in DOMAIN routines' /\ routines'[g] = rs[g]
  <2>1. g \in 1 .. Len(rs)
    BY <1>6, <1>8
  <2>2. g \in 1 .. Len(routines') /\ g <= Len(rs)
    BY <1>5, <1>6, <2>1
  <2> QED
    BY <1>5, <1>6, <2>2
<1>9. ASSUME NEW g \in DOMAIN routines' \ DOMAIN rs
      PROVE  g - Len(rs) \in 1 .. n /\ routines'[g] = Routine(seq[g - Len(rs)])
  <2>1. g \in 1 .. Len(rs) + n /\ ~(g <= Len(rs))
    BY <1>5, <1>6, <1>9
  <2>2. g - Len(rs) \in 1 .. n /\ routines'[g] = new[g - Len(rs)]
    BY <1>5, <1>6, <2>1
  <2> QED
    BY <2>2
<1>7. ~twice' => ~twice /\ Distinct'
  BY DEF Launch, Distinct
<1> QED
  BY <1>5, <1>7, <1>8, <1>9

-------------------------------------------------------------------------------
(* What a step that moves one goroutine keeps                                *)

\* The step of a goroutine, and of a workflow, does not change.
OneMoves(g) ==
  /\ g \in DOMAIN routines
  /\ routines' \in Seq(Goroutine) /\ DOMAIN routines' = DOMAIN routines
  /\ routines'[g].step = routines[g].step
  /\ \A h \in DOMAIN routines : h # g => routines'[h] = routines[h]

\* Nothing but the goroutine, and what is shown of the steps, changes.
LEMMA SameWorkflow ==
  ASSUME UNCHANGED wf
  PROVE  /\ Listing' = Listing /\ Step' = Step /\ Goroutine' = Goroutine
         /\ \A s : Deps(s)' = Deps(s) /\ Children(s)' = Children(s)
BY DEF Listing, Step, Goroutine, Snapshots, Places, Deps, Children

\* A goroutine that stores no result keeps the invariant, if what it is about to do
\* was decided.
LEMMA QuietMoveKeeps ==
  ASSUME StepInv, NEW g, OneMoves(g),
         UNCHANGED <<wf, carry, main, results, twice>>,
         main.pc \in {"launch", "wait"},
         routines[g].pc \in Open, routines'[g].pc \in Open,
         routines'[g].pc = "record" => routines'[g].res \in Settled,
         routines'[g].pc = "announce" => routines'[g].snapshot \in [Step -> StepStatus],
         ~twice => /\ \A s \in carry : runs'[s] = 0
                   /\ routines'[g].pc \in {"ready", "announce", "exec"} => MayRun(routines[g].step, results)
                   /\ routines'[g].pc = "record" =>
                        IF routines'[g].res = "skipped" THEN MustSkip(routines[g].step, results)
                                                        ELSE MayRun(routines[g].step, results)
  PROVE  Orderly' /\ (~twice' => Once')
<1>1. /\ Listing' = Listing /\ Step' = Step
      /\ \A s : Deps(s)' = Deps(s) /\ Children(s)' = Children(s)
  BY SameWorkflow
<1>2. \A s, c : AllDone(s, c)' = AllDone(s, c)
  BY <1>1 DEF AllDone
<1>3. \A s, q : MayRun(s, q)' = MayRun(s, q) /\ MustSkip(s, q)' = MustSkip(s, q)
  BY <1>1 DEF MayRun, MustSkip
<1>4. \A h \in DOMAIN routines : routines'[h].step = routines[h].step
  BY DEF OneMoves
<1>5. Planned'
  BY <1>1 DEF Planned, StepInv, Orderly
<1>6. ReturnedDone' /\ LaunchedBehind'
  BY <1>1, <1>4 DEF ReturnedDone, LaunchedBehind, StepInv, Orderly, OneMoves, AllDone
<1>7. Collected'
  BY <1>1 DEF Collected, StepInv, Orderly, OneMoves, AllDone, Open
<1>8. ASSUME ~twice PROVE Once'
  <2>1. Distinct' /\ CarryIdle'
    BY <1>1, <1>4, <1>8 DEF Once, Distinct, CarryIdle, StepInv, OneMoves
  <2>2. OpenUnsettled' /\ SettledByRoutine'
    BY <1>1, <1>4, <1>8 DEF Once, OpenUnsettled, SettledByRoutine, StepInv, OneMoves
  <2>3. Decided'
    BY <1>1, <1>3, <1>4, <1>8 DEF Once, Decided, StepInv, OneMoves
  <2> QED
    BY <2>1, <2>2, <2>3 DEF Once
<1> QED
  BY <1>5, <1>6, <1>7, <1>8 DEF Orderly

\* A goroutine that has not ended runs while the main one launches or waits.
LEMMA MainWaits ==
  ASSUME StepInv, NEW g \in DOMAIN routines, routines[g].pc # "done"
  PROVE  main.pc \in {"launch", "wait"}
<1>1. DOMAIN routines = 1 .. Len(routines)
  BY DEF StepInv, TypeOK
<1>2. routines # <<>>
  BY <1>1
<1>3. main.pc \notin {"plan", "rejected"}
  BY <1>2 DEF StepInv, Orderly, Planned
<1>4. main.pc # "returned"
  BY DEF StepInv, Orderly, ReturnedDone, NoRoutineLeft
<1> QED
  BY <1>3, <1>4 DEF StepInv, TypeOK

\* A goroutine is a record with a step of the workflow.
LEMMA GoroutineFacts ==
  ASSUME TypeOK
  PROVE  /\ routines \in Seq(Goroutine) /\ DOMAIN routines = 1 .. Len(routines)
         /\ \A g \in DOMAIN routines :
              /\ routines[g] \in Goroutine /\ routines[g].step \in Step
              /\ routines[g].pc \in Open \cup {"report", "done"}
<1>1. routines \in Seq(Goroutine)
  BY DEF TypeOK
<1>2. \A g \in DOMAIN routines : routines[g] \in Goroutine
  BY <1>1
<1>3. \A r \in Goroutine : r.step \in Step /\ r.pc \in Open \cup {"report", "done"}
  BY DEF Goroutine, Open, Unfinished
<1> QED
  BY <1>1, <1>2, <1>3

\* A goroutine with another place, result, number of tries or snapshot is one.
LEMMA UpdatesFit ==
  ASSUME NEW r \in Goroutine, NEW pc \in {"waiting", "done"} \cup Unfinished
  PROVE  /\ [r EXCEPT !.pc = pc] \in Goroutine
         /\ \A res \in Settled : [r EXCEPT !.pc = pc, !.res = res] \in Goroutine
         /\ \A p \in Snapshots : [r EXCEPT !.pc = pc, !.snapshot = p] \in Goroutine
BY DEF Goroutine
LEMMA TryFits ==
  ASSUME NEW r \in Goroutine, NEW n \in Nat
  PROVE  [r EXCEPT !.tries = n] \in Goroutine
BY DEF Goroutine

\* One goroutine is replaced by another of the same step.
LEMMA ReplaceMoves ==
  ASSUME TypeOK, NEW g \in DOMAIN routines, NEW r \in Goroutine, r.step = routines[g].step,
         routines' = [routines EXCEPT ![g] = r]
  PROVE  OneMoves(g) /\ routines'[g] = r
BY GoroutineFacts DEF OneMoves

\* A goroutine ends with a status.
LEMMA EndsMoves ==
  ASSUME TypeOK, NEW g \in DOMAIN routines, NEW status \in Settled, Ends(g, status)
  PROVE  /\ OneMoves(g) /\ routines'[g].tries = routines[g].tries
         /\ routines'[g].pc = "record" /\ routines'[g].res = status
<1> DEFINE r == [routines[g] EXCEPT !.pc = "record", !.res = status]
<1>1. routines[g] \in Goroutine
  BY GoroutineFacts
<1>2. r \in Goroutine
  BY <1>1, UpdatesFit DEF Unfinished
<1>3. /\ r.step = routines[g].step /\ r.tries = routines[g].tries
      /\ r.pc = "record" /\ r.res = status
  BY <1>1 DEF Goroutine
<1>4. routines' = [routines EXCEPT ![g] = r]
  BY DEF Ends
<1> QED
  BY <1>2, <1>3, <1>4, ReplaceMoves

-------------------------------------------------------------------------------
(* The goroutine of a step, until it stores its result                       *)

\* One goroutine moves, and has not stored its result before or after.
OpenMove(g) == /\ OneMoves(g) /\ UNCHANGED <<wf, carry, main, results, failed>>
               /\ routines[g].pc \in Open /\ routines'[g].pc \in Open

LEMMA StartKeeps ==
  ASSUME StepInv, NEW g \in DOMAIN routines, Start(g)
  PROVE  StepInv' /\ OpenMove(g)
<1>1. /\ UNCHANGED <<wf, attempt, carry, main, results, progress, persisted, failed,
                     canceled, ctx, runs, twice>>
      /\ routines[g].pc = "waiting"
  BY DEF Start, shared
<1>2. /\ Listing' = Listing /\ Step' = Step /\ Goroutine' = Goroutine
  BY <1>1, SameWorkflow
<1>3. OneMoves(g) /\ routines'[g].tries = routines[g].tries
      /\ IF Blocked(routines[g].step)
         THEN routines'[g].pc = "record" /\ routines'[g].res = "skipped"
         ELSE routines'[g].pc = "ready"
  <2>1. CASE Blocked(routines[g].step)
    BY <2>1, EndsMoves DEF Start, StepInv, Settled
  <2>2. CASE ~Blocked(routines[g].step)
    <3> DEFINE r == [routines[g] EXCEPT !.pc = "ready"]
    <3>1. routines[g] \in Goroutine
      BY GoroutineFacts DEF StepInv
    <3>2. r \in Goroutine
      BY <3>1, UpdatesFit DEF Unfinished
    <3>3. r.step = routines[g].step /\ r.tries = routines[g].tries /\ r.pc = "ready"
      BY <3>1 DEF Goroutine
    <3>4. routines' = [routines EXCEPT ![g] = r]
      BY <2>2 DEF Start, Goes
    <3> QED
      BY <2>2, <3>2, <3>3, <3>4, ReplaceMoves DEF StepInv
  <2> QED
    BY <2>1, <2>2
<1>4. TypeOK'
  BY <1>1, <1>2, <1>3 DEF StepInv, TypeOK, OneMoves
<1>5. AllDone(routines[g].step, results)
  BY DEF StepInv, Orderly, LaunchedBehind
<1>6. IF Blocked(routines[g].step) THEN MustSkip(routines[g].step, results) ELSE MayRun(routines[g].step, results)
  BY <1>5 DEF Blocked, AllDone, MustSkip, MayRun
<1>7. ~twice => \A s \in carry : runs'[s] = 0
  BY <1>1 DEF StepInv, Once, CarryIdle
<1>8. main.pc \in {"launch", "wait"}
  BY <1>1, MainWaits
<1>9. StepInv'
  BY <1>1, <1>3, <1>4, <1>6, <1>7, <1>8, QuietMoveKeeps DEF StepInv, Open, Settled
<1> QED
  BY <1>1, <1>3, <1>9 DEF OpenMove, Open

LEMMA EnterKeeps ==
  ASSUME StepInv, NEW g \in DOMAIN routines, Enter(g)
  PROVE  StepInv' /\ OpenMove(g)
<1>1. /\ UNCHANGED <<wf, attempt, carry, main, results, persisted, failed,
                     canceled, ctx, runs, twice>>
      /\ routines[g].pc = "ready"
  BY DEF Enter
<1>2. /\ Listing' = Listing /\ Step' = Step /\ Goroutine' = Goroutine
  BY <1>1, SameWorkflow
<1>3. progress' \in [Step -> StepStatus]
  BY GoroutineFacts DEF Enter, StepInv, TypeOK, StepStatus
<1>4. OneMoves(g) /\ routines'[g].tries = routines[g].tries
      /\ \/ routines'[g].pc = "record" /\ routines'[g].res = "canceled"
         \/ routines'[g].pc = "announce" /\ routines'[g].snapshot \in [Step -> StepStatus]
  <2>1. CASE ctx = "canceled"
    BY <2>1, EndsMoves DEF Enter, StepInv, Settled
  <2>2. CASE ctx # "canceled"
    <3> DEFINE r == [routines[g] EXCEPT !.pc = "announce", !.snapshot = progress']
    <3>1. routines[g] \in Goroutine
      BY GoroutineFacts DEF StepInv
    <3>2. r \in Goroutine
      BY <1>3, <3>1, UpdatesFit DEF Unfinished, Snapshots
    <3>3. /\ r.step = routines[g].step /\ r.tries = routines[g].tries
          /\ r.pc = "announce" /\ r.snapshot = progress'
      BY <3>1 DEF Goroutine
    <3>4. routines' = [routines EXCEPT ![g] = r]
      BY <2>2 DEF Enter
    <3> QED
      BY <1>3, <3>2, <3>3, <3>4, ReplaceMoves DEF StepInv
  <2> QED
    BY <2>1, <2>2
<1>5. TypeOK'
  BY <1>1, <1>2, <1>3, <1>4 DEF StepInv, TypeOK, OneMoves
<1>6. ~twice => MayRun(routines[g].step, results) /\ \A s \in carry : runs'[s] = 0
  BY <1>1 DEF StepInv, Once, CarryIdle, Decided
<1>7. main.pc \in {"launch", "wait"}
  BY <1>1, MainWaits
<1>8. StepInv'
  BY <1>1, <1>4, <1>5, <1>6, <1>7, QuietMoveKeeps DEF StepInv, Open, Settled
<1> QED
  BY <1>1, <1>4, <1>8 DEF OpenMove, Open

LEMMA AnnounceKeeps ==
  ASSUME StepInv, NEW g \in DOMAIN routines, Announce(g)
  PROVE  StepInv' /\ OpenMove(g)
<1>1. /\ UNCHANGED <<wf, attempt, carry, main, results, progress, failed,
                     canceled, ctx, runs, twice>>
      /\ routines[g].pc = "announce"
  BY DEF Announce, shared
<1>2. /\ Listing' = Listing /\ Step' = Step /\ Goroutine' = Goroutine
  BY <1>1, SameWorkflow
<1>3. OneMoves(g) /\ routines'[g].tries = routines[g].tries /\ routines'[g].pc = "exec"
  <2> DEFINE r == [routines[g] EXCEPT !.pc = "exec", !.snapshot = <<>>]
  <2>1. routines[g] \in Goroutine
    BY GoroutineFacts DEF StepInv
  <2>2. r \in Goroutine
    BY <2>1, UpdatesFit DEF Unfinished, Snapshots
  <2>3. r.step = routines[g].step /\ r.tries = routines[g].tries /\ r.pc = "exec"
    BY <2>1 DEF Goroutine
  <2>4. routines' = [routines EXCEPT ![g] = r]
    BY DEF Announce
  <2> QED
    BY <2>2, <2>3, <2>4, ReplaceMoves DEF StepInv
<1>4. persisted' \in [Step -> StepStatus]
  BY <1>1 DEF Announce, StepInv, Orderly, Collected
<1>5. TypeOK'
  BY <1>1, <1>2, <1>3, <1>4 DEF StepInv, TypeOK, OneMoves
<1>6. ~twice => MayRun(routines[g].step, results) /\ \A s \in carry : runs'[s] = 0
  BY <1>1 DEF StepInv, Once, CarryIdle, Decided
<1>7. main.pc \in {"launch", "wait"}
  BY <1>1, MainWaits
<1>8. StepInv'
  BY <1>1, <1>3, <1>5, <1>6, <1>7, QuietMoveKeeps DEF StepInv, Open, Settled
<1> QED
  BY <1>1, <1>3, <1>8 DEF OpenMove, Open

LEMMA OpenLogFailsKeeps ==
  ASSUME StepInv, NEW g \in DOMAIN routines, OpenLogFails(g)
  PROVE  StepInv' /\ OpenMove(g)
<1>1. /\ UNCHANGED <<wf, attempt, carry, main, results, progress, persisted, failed,
                     canceled, ctx, runs, twice>>
      /\ routines[g].pc = "exec"
  BY DEF OpenLogFails, shared
<1>2. /\ Listing' = Listing /\ Step' = Step /\ Goroutine' = Goroutine
  BY <1>1, SameWorkflow
<1>3. OneMoves(g) /\ routines'[g].tries = routines[g].tries
      /\ routines'[g].pc = "record" /\ routines'[g].res = "failed"
  BY EndsMoves DEF OpenLogFails, StepInv, Settled
<1>4. TypeOK'
  BY <1>1, <1>2, <1>3 DEF StepInv, TypeOK, OneMoves
<1>5. ~twice => MayRun(routines[g].step, results) /\ \A s \in carry : runs'[s] = 0
  BY <1>1 DEF StepInv, Once, CarryIdle, Decided
<1>6. main.pc \in {"launch", "wait"}
  BY <1>1, MainWaits
<1>7. StepInv'
  BY <1>1, <1>3, <1>4, <1>5, <1>6, QuietMoveKeeps DEF StepInv, Open, Settled
<1> QED
  BY <1>1, <1>3, <1>7 DEF OpenMove, Open

LEMMA RunContainerKeeps ==
  ASSUME StepInv, NEW g \in DOMAIN routines, RunContainer(g)
  PROVE  StepInv' /\ OpenMove(g)
<1>1. /\ UNCHANGED <<wf, attempt, carry, main, results, progress, persisted, failed,
                     canceled, ctx, twice>>
      /\ routines[g].pc = "exec"
      /\ runs' = [runs EXCEPT ![routines[g].step] = @ + 1]
  BY DEF RunContainer, shared
<1>2. /\ Listing' = Listing /\ Step' = Step /\ Goroutine' = Goroutine
  BY <1>1, SameWorkflow
<1>3. OneMoves(g)
      /\ routines'[g].tries \in Nat /\ routines'[g].tries <= wf.retry[routines[g].step]
      /\ \/ routines'[g].pc = "exec"
         \/ routines'[g].pc = "record" /\ routines'[g].res \in {"success", "failed", "canceled"}
  <2>0. /\ routines[g].tries \in Nat /\ routines[g].tries <= wf.retry[routines[g].step]
        /\ wf.retry[routines[g].step] \in Nat
    BY GoroutineFacts, WorkflowFacts DEF StepInv, TypeOK, Goroutine
  <2>1. CASE \E res \in {"success", "failed", "canceled"} : Ends(g, res)
    BY <2>0, <2>1, EndsMoves DEF StepInv, Settled
  <2>2. CASE TriesLeft(g) /\ routines' = [routines EXCEPT ![g].tries = @ + 1]
    <3> DEFINE r == [routines[g] EXCEPT !.tries = routines[g].tries + 1]
    <3>1. routines[g] \in Goroutine
      BY GoroutineFacts DEF StepInv
    <3>2. r \in Goroutine
      <4>1. routines[g].tries + 1 \in Nat
        BY <2>0
      <4> QED
        BY <3>1, <4>1, TryFits
    <3>3. r.step = routines[g].step /\ r.tries = routines[g].tries + 1 /\ r.pc = "exec"
      BY <1>1, <3>1 DEF Goroutine
    <3>4. routines' = [routines EXCEPT ![g] = r]
      BY <2>2
    <3>5. OneMoves(g) /\ routines'[g] = r
      BY <3>2, <3>3, <3>4, ReplaceMoves DEF StepInv
    <3>6. routines[g].tries + 1 \in Nat /\ routines[g].tries + 1 <= wf.retry[routines[g].step]
      BY <2>0, <2>2 DEF TriesLeft
    <3> QED
      BY <3>3, <3>5, <3>6
  <2> QED
    BY <2>1, <2>2 DEF RunContainer
<1>4. runs' \in [Step -> Nat]
  BY <1>1, GoroutineFacts DEF StepInv, TypeOK
<1>5. TypeOK'
  BY <1>1, <1>2, <1>3, <1>4 DEF StepInv, TypeOK, OneMoves
<1>6. ~twice => MayRun(routines[g].step, results) /\ \A s \in carry : runs'[s] = 0
  BY <1>1 DEF StepInv, Once, CarryIdle, Decided
<1>7. main.pc \in {"launch", "wait"}
  BY <1>1, MainWaits
<1>8. StepInv'
  BY <1>1, <1>3, <1>5, <1>6, <1>7, QuietMoveKeeps DEF StepInv, Open, Settled
<1> QED
  BY <1>1, <1>3, <1>8 DEF OpenMove, Open

-------------------------------------------------------------------------------
(* Results and launches                                                      *)

\* A result that is stored stays, unless its step was launched twice.
LEMMA RecordGrows ==
  ASSUME StepInv, NEW g \in DOMAIN routines, Record(g)
  PROVE  /\ routines[g].res \in Settled
         /\ results' = [results EXCEPT ![routines[g].step] = routines[g].res]
         /\ \A t \in Step : Deps(t) \subseteq Step
         /\ \A t \in Step : AllDone(t, results) => AllDone(t, results')
         /\ ~twice => \A t \in Step : results[t] # "none" => results'[t] = results[t]
<1>1. routines[g].pc = "record"
  BY DEF Record
<1>2. routines[g].res \in Settled
  BY <1>1 DEF StepInv, Orderly, Collected
<1>3. results' = [results EXCEPT ![routines[g].step] = routines[g].res]
  BY DEF Record
<1>4. \A t \in Step : Deps(t) \subseteq Step
  BY <1>1, MainWaits DEF StepInv, Orderly, Planned
<1>5. results \in [Step -> {"none"} \cup Settled] /\ routines[g].step \in Step
  BY GoroutineFacts DEF StepInv, TypeOK
<1>6. \A t \in Step : results[t] # "none" => results'[t] # "none"
  BY <1>2, <1>3, <1>5 DEF Settled
<1>7. \A t \in Step : AllDone(t, results) => AllDone(t, results')
  BY <1>4, <1>6 DEF AllDone
<1>8. ~twice => results[routines[g].step] = "none"
  BY <1>1 DEF StepInv, Once, OpenUnsettled, Open
<1> QED
  BY <1>2, <1>3, <1>4, <1>5, <1>7, <1>8

LEMMA RecordKeeps ==
  ASSUME StepInv, NEW g \in DOMAIN routines, Record(g)
  PROVE  /\ StepInv' /\ OneMoves(g)
         /\ routines'[g].pc = "report"
         /\ routines'[g].next = {c \in Children(routines[g].step) : AllDone(Listing[c[1]], results')}
<1> DEFINE s == routines[g].step
           N == {c \in Children(s) : AllDone(Listing[c[1]], results')}
           r == [routines[g] EXCEPT !.pc = "report", !.tries = 0,
                                    !.snapshot = progress', !.next = N]
<1>1. /\ UNCHANGED <<wf, attempt, carry, main, persisted, ctx, runs, twice>>
      /\ routines[g].pc = "record" /\ routines[g].res \in Settled /\ s \in Step
  BY RecordGrows, GoroutineFacts DEF Record, StepInv
<1>2. /\ Listing' = Listing /\ Step' = Step /\ Goroutine' = Goroutine
      /\ \A t : Deps(t)' = Deps(t) /\ Children(t)' = Children(t)
  BY <1>1, SameWorkflow
<1>3. results' \in [Step -> {"none"} \cup Settled]
  BY <1>1, RecordGrows DEF StepInv, TypeOK
<1>4. progress' \in [Step -> StepStatus]
  BY <1>1 DEF Record, StepInv, TypeOK, StepStatus
<1>5. failed' \in BOOLEAN /\ canceled' \in BOOLEAN
  BY DEF Record, StepInv, TypeOK
<1>6. OneMoves(g) /\ routines'[g] = r
  <2>1. routines[g] \in Goroutine
    BY GoroutineFacts DEF StepInv
  <2>2. N \in Places
    BY ChildrenFacts DEF Places, StepInv, TypeOK
  <2>3. r \in Goroutine
    <3> HIDE DEF N
    <3>1. progress' \in Snapshots
      BY <1>4 DEF Snapshots
    <3> QED
      BY <2>1, <2>2, <3>1 DEF Goroutine, Unfinished
  <2>4. r.step = s
    BY <2>1 DEF Goroutine
  <2>5. routines' = [routines EXCEPT ![g] = r]
    BY DEF Record
  <2> QED
    BY <2>3, <2>4, <2>5, ReplaceMoves DEF StepInv
<1>7. r.step = s /\ r.pc = "report" /\ r.tries = 0 /\ r.snapshot = progress' /\ r.next = N
  <2>1. routines[g] \in Goroutine
    BY GoroutineFacts DEF StepInv
  <2> QED
    BY <2>1 DEF Goroutine
<1> HIDE DEF r, N
<1>8. TypeOK'
  <2>1. 0 <= wf.retry[s]
    BY <1>1, WorkflowFacts DEF StepInv, TypeOK
  <2> QED
    BY <1>1, <1>2, <1>3, <1>4, <1>5, <1>6, <1>7, <2>1 DEF StepInv, TypeOK, OneMoves
<1>9. \A h \in DOMAIN routines : routines'[h].step = routines[h].step /\ routines[h].step \in Step
  BY <1>6, GoroutineFacts DEF OneMoves, StepInv
<1>10. main.pc \in {"launch", "wait"}
  BY <1>1, MainWaits
<1>11. Planned' /\ ReturnedDone'
  BY <1>1, <1>2, <1>10 DEF Planned, ReturnedDone, StepInv, Orderly
<1>12. Collected'
  <2>1. ASSUME NEW h \in DOMAIN routines, h # g
        PROVE  /\ routines'[h].pc = "record" => routines'[h].res \in Settled
               /\ routines'[h].pc \in {"announce", "report"}
                    => routines'[h].snapshot \in [Step -> StepStatus]
               /\ routines'[h].pc = "report" =>
                    /\ routines'[h].next \subseteq Children(routines'[h].step)
                    /\ \A c \in routines'[h].next : AllDone(Listing[c[1]], results')
    <3>1. routines'[h] = routines[h]
      BY <1>6, <2>1 DEF OneMoves
    <3>2. \A c \in Children(routines[h].step) : Listing[c[1]] \in Step
      BY ChildrenFacts, WorkflowFacts DEF StepInv, TypeOK
    <3> QED
      BY <3>1, <3>2, RecordGrows DEF StepInv, Orderly, Collected
  <2>2. /\ routines'[g].pc = "report" /\ routines'[g].snapshot \in [Step -> StepStatus]
        /\ routines'[g].next \subseteq Children(routines'[g].step)
        /\ \A c \in routines'[g].next : AllDone(Listing[c[1]], results')
    BY <1>4, <1>6, <1>7 DEF N
  <2>3. DOMAIN routines' = DOMAIN routines
    BY <1>6 DEF OneMoves
  <2>4. \A t, res : AllDone(t, res)' = AllDone(t, res')
    BY <1>2 DEF AllDone
  <2> QED
    BY <1>2, <2>1, <2>2, <2>3 DEF Collected, AllDone
<1>13. LaunchedBehind'
  BY <1>2, <1>6, <1>9, RecordGrows DEF LaunchedBehind, StepInv, Orderly, OneMoves, AllDone
<1>14. ASSUME ~twice PROVE Once'
  <2>1. Distinct'
    BY <1>6, <1>9, <1>14 DEF Distinct, StepInv, Once, OneMoves
  <2>2. /\ \A t \in Step : results[t] # "none" => results'[t] = results[t]
        /\ \A t \in Step : t # s => results'[t] = results[t]
        /\ results'[s] = routines[g].res
    BY <1>1, <1>14, RecordGrows DEF StepInv, TypeOK
  <2>3. carry \subseteq Step /\ s \notin carry
    BY <1>14 DEF StepInv, TypeOK, Once, CarryIdle
  <2>4. CarryIdle'
    BY <1>1, <1>2, <1>6, <1>9, <1>14, <2>2, <2>3 DEF CarryIdle, StepInv, Once, OneMoves
  <2>5. OpenUnsettled'
    BY <1>6, <1>7, <1>9, <1>14, <2>2 DEF OpenUnsettled, Distinct, StepInv, Once, OneMoves, Open
  <2>6. SettledByRoutine'
    BY <1>1, <1>2, <1>6, <1>9, <1>14, <2>2 DEF SettledByRoutine, StepInv, Once, OneMoves
  <2>7. \A t \in Step : /\ MayRun(t, results) => MayRun(t, results')
                        /\ MustSkip(t, results) => MustSkip(t, results')
    BY <1>2, <2>2, RecordGrows DEF MayRun, MustSkip
  <2>8. IF routines[g].res = "skipped" THEN MustSkip(s, results') ELSE MayRun(s, results')
    BY <1>1, <1>14, <2>7 DEF StepInv, Once, Decided
  <2>9. \A t \in Step : /\ results'[t] = "skipped" => MustSkip(t, results')
                        /\ results'[t] \in {"success", "failed", "canceled"} => MayRun(t, results')
    BY <1>14, <2>2, <2>7, <2>8 DEF StepInv, Once, Decided
  <2>10. ASSUME NEW h \in DOMAIN routines
         PROVE  /\ routines'[h].pc \in {"ready", "announce", "exec"} => MayRun(routines'[h].step, results')
                /\ routines'[h].pc = "record" =>
                     IF routines'[h].res = "skipped" THEN MustSkip(routines'[h].step, results')
                                                     ELSE MayRun(routines'[h].step, results')
    <3>1. CASE h = g
      BY <1>6, <1>7, <3>1
    <3>2. CASE h # g
      <4>1. routines'[h] = routines[h]
        BY <1>6, <3>2 DEF OneMoves
      <4> QED
        BY <1>9, <1>14, <2>7, <4>1 DEF StepInv, Once, Decided
    <3> QED
      BY <3>1, <3>2
  <2>11. Decided'
    <3>1. \A t, q : MayRun(t, q)' = MayRun(t, q) /\ MustSkip(t, q)' = MustSkip(t, q)
      BY <1>2 DEF MayRun, MustSkip
    <3> QED
      BY <1>2, <1>6, <2>9, <2>10, <3>1 DEF Decided, OneMoves
  <2> QED
    BY <2>1, <2>4, <2>5, <2>6, <2>11 DEF Once
<1>15. StepInv'
  BY <1>1, <1>8, <1>11, <1>12, <1>13, <1>14 DEF StepInv, Orderly
<1> QED
  BY <1>6, <1>7, <1>15 DEF N

\* Goroutines end, and others are launched for steps that were not carried over and
\* have nothing outstanding.
LEMMA LaunchKeeps ==
  ASSUME StepInv, NEW rs \in Seq(Goroutine), NEW n \in Nat, NEW seq \in [1 .. n -> Step],
         DOMAIN rs = DOMAIN routines,
         \A h \in DOMAIN routines : /\ rs[h].step = routines[h].step
                                    /\ rs[h].tries <= wf.retry[rs[h].step]
                                    /\ rs[h] = routines[h] \/ rs[h].pc = "done",
         \A i \in 1 .. n : AllDone(seq[i], results),
         ~twice => \A i \in 1 .. n : seq[i] \notin carry,
         UNCHANGED <<wf, carry, results, runs>>,
         main.pc \in {"launch", "wait"}, main'.pc \in {"launch", "wait"},
         Launch(rs, seq)
  PROVE  /\ routines' \in Seq(Goroutine)
         /\ \A g \in DOMAIN routines' : routines'[g].tries <= wf.retry[routines'[g].step]
         /\ Orderly' /\ (~twice' => Once')
<1>1. /\ Listing' = Listing /\ Step' = Step
      /\ \A s : Deps(s)' = Deps(s) /\ Children(s)' = Children(s)
  BY SameWorkflow
<1>2. /\ routines' \in Seq(Goroutine)
      /\ DOMAIN routines \subseteq DOMAIN routines'
      /\ \A g \in DOMAIN routines : routines'[g] = rs[g]
      /\ \A g \in DOMAIN routines' \ DOMAIN routines :
           \E i \in 1 .. n : routines'[g] = Routine(seq[i])
      /\ ~twice' => ~twice /\ Distinct'
  <2>1. /\ routines' \in Seq(Goroutine)
        /\ DOMAIN rs \subseteq DOMAIN routines'
        /\ \A g \in DOMAIN rs : routines'[g] = rs[g]
        /\ \A g \in DOMAIN routines' \ DOMAIN rs :
             \E i \in 1 .. n : routines'[g] = Routine(seq[i])
        /\ ~twice' => ~twice /\ Distinct'
    BY LaunchAdds
  <2> QED
    BY ONLY <2>1, DOMAIN rs = DOMAIN routines
<1> DEFINE Old(g) == g \in DOMAIN routines /\ routines'[g].step = routines[g].step
                     /\ (routines'[g] = routines[g] \/ routines'[g].pc = "done")
           New(g) == /\ routines'[g].step \in Step /\ routines'[g].pc = "waiting"
                     /\ routines'[g].tries = 0
                     /\ AllDone(routines'[g].step, results)
                     /\ ~twice => routines'[g].step \notin carry
<1>3. \A g \in DOMAIN routines' \ DOMAIN routines : New(g)
  BY <1>2 DEF Routine
<1>4. \A g \in DOMAIN routines : Old(g) /\ rs[g].tries <= wf.retry[rs[g].step]
  BY <1>2
<1> HIDE DEF New
<1>5. ASSUME NEW g \in DOMAIN routines'
      PROVE  routines'[g].tries <= wf.retry[routines'[g].step]
  <2>1. \A s \in Step : 0 <= wf.retry[s]
    BY WorkflowFacts DEF StepInv, TypeOK
  <2> QED
    BY <1>2, <1>3, <1>4, <2>1 DEF New
<1>6. Planned'
  BY <1>1 DEF Planned, StepInv, Orderly
<1>7. ReturnedDone'
  BY DEF ReturnedDone
<1>8. Collected'
  <2>1. ASSUME NEW g \in DOMAIN routines'
        PROVE  /\ routines'[g].pc = "record" => routines'[g].res \in Settled
               /\ routines'[g].pc \in {"announce", "report"}
                    => routines'[g].snapshot \in [Step -> StepStatus]
               /\ routines'[g].pc = "report" =>
                    /\ routines'[g].next \subseteq Children(routines'[g].step)
                    /\ \A c \in routines'[g].next : AllDone(Listing[c[1]], results)
    BY <1>3, <1>4 DEF New, StepInv, Orderly, Collected
  <2> QED
    BY <1>1, <2>1 DEF Collected, AllDone
<1>9. LaunchedBehind'
  <2>1. \A g \in DOMAIN routines' : AllDone(routines'[g].step, results)
    BY <1>3, <1>4 DEF New, StepInv, Orderly, LaunchedBehind
  <2> QED
    BY <1>1, <2>1 DEF LaunchedBehind, AllDone
<1>10. ASSUME ~twice' PROVE Once'
  <2>1. ~twice /\ Once /\ Distinct'
    BY <1>2, <1>10 DEF StepInv
  <2>2. CarryIdle'
    BY <1>1, <1>3, <1>4, <2>1 DEF New, Once, CarryIdle
  <2>3. ASSUME NEW g \in DOMAIN routines' \ DOMAIN routines
        PROVE  results[routines'[g].step] = "none"
    <3>1. \A h \in DOMAIN routines : routines[h].step # routines'[g].step
      BY <1>2, <1>4, <2>1, <2>3 DEF Distinct
    <3> QED
      BY <1>3, <2>1, <3>1 DEF New, Once, SettledByRoutine
  <2>4. OpenUnsettled'
    BY <1>4, <2>1, <2>3 DEF OpenUnsettled, Once, Open
  <2>5. SettledByRoutine'
    BY <1>1, <1>2, <1>4, <2>1 DEF SettledByRoutine, Once
  <2>6. Decided'
    <3>1. \A t, q : MayRun(t, q)' = MayRun(t, q) /\ MustSkip(t, q)' = MustSkip(t, q)
      BY <1>1 DEF MayRun, MustSkip
    <3> QED
      BY <1>1, <1>3, <1>4, <2>1, <3>1 DEF New, Decided, Once
  <2> QED
    BY <2>1, <2>2, <2>4, <2>5, <2>6 DEF Once
<1> QED
  BY <1>2, <1>5, <1>6, <1>7, <1>8, <1>9, <1>10 DEF Orderly

LEMMA ReportKeeps ==
  ASSUME StepInv, NEW g \in DOMAIN routines, Report(g)
  PROVE  StepInv'
<1> DEFINE s == routines[g].step
           next == SetToSeq(routines[g].next)
           n == Cardinality(routines[g].next)
           seq == [i \in DOMAIN next |-> Listing[next[i][1]]]
           r == [Routine(s) EXCEPT !.pc = "done"]
           rs == [routines EXCEPT ![g] = r]
<1>1. /\ UNCHANGED <<wf, attempt, carry, main, results, progress, failed, canceled, ctx, runs>>
      /\ routines[g].pc = "report"
      /\ persisted' = routines[g].snapshot
      /\ Launch(rs, seq)
  BY DEF Report, shared
<1>2. wf \in Workflows /\ s \in Step
  BY GoroutineFacts DEF StepInv, TypeOK
<1>3. /\ routines[g].next \subseteq Children(s)
      /\ \A c \in routines[g].next : AllDone(Listing[c[1]], results)
      /\ persisted' \in [Step -> StepStatus]
  BY <1>1 DEF StepInv, Orderly, Collected
<1>4. IsFiniteSet(routines[g].next)
  BY <1>2, <1>3, ChildrenFacts, FS_Subset
<1>5. n \in Nat /\ next \in [1 .. n -> routines[g].next]
  BY <1>4, SetToSeqLists
<1>6. \A c \in routines[g].next : Listing[c[1]] \in Step /\ s \in Deps(Listing[c[1]])
  BY <1>2, <1>3, ChildrenFacts, WorkflowFacts
<1> HIDE DEF next, n
<1>7. /\ seq \in [1 .. n -> Step]
      /\ \A i \in 1 .. n : AllDone(seq[i], results) /\ s \in Deps(seq[i])
  BY <1>3, <1>5, <1>6
<1>8. ASSUME ~twice PROVE \A i \in 1 .. n : seq[i] \notin carry
  BY <1>7, <1>8 DEF StepInv, Once, CarryIdle
<1>9. r \in Goroutine /\ r.step = s /\ r.pc = "done" /\ r.tries = 0
  BY <1>2 DEF Routine, Goroutine, Snapshots, Places
<1> HIDE DEF r, seq
<1>10. /\ rs \in Seq(Goroutine) /\ DOMAIN rs = DOMAIN routines
       /\ rs[g] = r /\ \A h \in DOMAIN routines : h # g => rs[h] = routines[h]
  BY <1>9, GoroutineFacts DEF StepInv
<1>11. \A h \in DOMAIN routines : /\ rs[h].step = routines[h].step
                                  /\ rs[h].tries <= wf.retry[rs[h].step]
                                  /\ rs[h] = routines[h] \/ rs[h].pc = "done"
  <2>1. 0 <= wf.retry[s]
    BY <1>2, WorkflowFacts
  <2> QED
    BY <1>9, <1>10, <2>1 DEF StepInv, TypeOK
<1>12. main.pc \in {"launch", "wait"}
  BY <1>1, MainWaits
<1> HIDE DEF rs
<1>13. /\ routines' \in Seq(Goroutine)
       /\ \A h \in DOMAIN routines' : routines'[h].tries <= wf.retry[routines'[h].step]
       /\ Orderly' /\ (~twice' => Once')
  BY <1>1, <1>5, <1>7, <1>8, <1>10, <1>11, <1>12, LaunchKeeps
<1>14. twice' \in BOOLEAN
  BY <1>1 DEF Launch
<1>15. /\ Listing' = Listing /\ Step' = Step /\ Goroutine' = Goroutine
  BY <1>1, SameWorkflow
<1>16. TypeOK'
  BY <1>1, <1>3, <1>13, <1>14, <1>15 DEF StepInv, TypeOK
<1> QED
  BY <1>13, <1>16 DEF StepInv

-------------------------------------------------------------------------------
(* The main goroutine                                                        *)

LEMMA InitHolds == Init => StepInv
<1> SUFFICES ASSUME Init PROVE StepInv
  OBVIOUS
<1>1. routines = <<>> /\ DOMAIN routines = {} /\ carry = {} /\ main.pc = "plan" /\ main.next = 1
  BY DEF Init
<1>2. TypeOK
  <2>1. routines \in Seq(Goroutine)
    BY <1>1
  <2>2. 1 \in 1 .. Len(Listing)
    BY WorkflowFacts DEF Init
  <2>3. attempt \in 1 .. MaxAttempts
    BY DEF Init, StepExecutorAssumption
  <2>4. /\ results \in [Step -> {"none"} \cup Settled] /\ runs \in [Step -> Nat]
        /\ progress \in [Step -> StepStatus] /\ persisted \in [Step -> StepStatus]
    BY DEF Init, StepStatus
  <2>5. main \in [pc : {"plan", "launch", "wait", "returned", "rejected"},
                  next : 1 .. Len(Listing)]
    BY <2>2 DEF Init
  <2> QED
    BY <1>1, <2>1, <2>3, <2>4, <2>5 DEF Init, TypeOK
<1>3. Orderly
  BY <1>1 DEF Init, Orderly, Planned, ReturnedDone, Collected, LaunchedBehind
<1>4. Once
  BY <1>1 DEF Init, Once, Distinct, CarryIdle, OpenUnsettled, SettledByRoutine, Decided
<1> QED
  BY <1>2, <1>3, <1>4 DEF StepInv

LEMMA RejectKeeps ==
  ASSUME StepInv, Reject
  PROVE  StepInv'
<1>1. /\ UNCHANGED <<wf, attempt, carry, routines, results, progress, canceled, persisted,
                     ctx, runs, twice>>
      /\ main.pc = "plan" /\ main' = [main EXCEPT !.pc = "rejected"] /\ failed' = TRUE
  BY DEF Reject
<1>2. /\ Listing' = Listing /\ Step' = Step /\ Goroutine' = Goroutine
      /\ \A s : Deps(s)' = Deps(s) /\ Children(s)' = Children(s)
  BY <1>1, SameWorkflow
<1>3. main'.pc = "rejected" /\ routines = <<>> /\ DOMAIN routines = {}
  BY <1>1 DEF StepInv, TypeOK, Orderly, Planned
<1>4. TypeOK'
  BY <1>1, <1>2 DEF StepInv, TypeOK
<1>5. Orderly'
  BY <1>1, <1>3 DEF Orderly, Planned, ReturnedDone, Collected, LaunchedBehind
<1>6. ASSUME ~twice PROVE Once'
  <2>1. \A t, q : MayRun(t, q)' = MayRun(t, q) /\ MustSkip(t, q)' = MustSkip(t, q)
    BY <1>2 DEF MayRun, MustSkip
  <2> QED
    BY <1>1, <1>2, <1>3, <1>6, <2>1
       DEF StepInv, Once, Distinct, CarryIdle, OpenUnsettled, SettledByRoutine, Decided
<1> QED
  BY <1>1, <1>4, <1>5, <1>6 DEF StepInv

LEMMA PlanKeeps ==
  ASSUME StepInv, Plan
  PROVE  StepInv'
<1>1. /\ UNCHANGED <<wf, attempt, carry, routines, failed, canceled, ctx, runs, twice>>
      /\ main.pc = "plan" /\ main' = [main EXCEPT !.pc = "launch"]
      /\ results' = [s \in Step |-> IF s \in carry THEN "success" ELSE "none"]
      /\ progress' = [s \in Step |-> IF s \in carry THEN "success" ELSE "pending"]
      /\ persisted' = progress'
  BY DEF Plan
<1>2. /\ Listing' = Listing /\ Step' = Step /\ Goroutine' = Goroutine
      /\ \A s : Deps(s)' = Deps(s) /\ Children(s)' = Children(s)
  BY <1>1, SameWorkflow
<1>3. main'.pc = "launch" /\ routines = <<>> /\ DOMAIN routines = {} /\ carry \subseteq Step
  BY <1>1 DEF StepInv, TypeOK, Orderly, Planned
<1>4. TypeOK'
  <2>1. results' \in [Step -> {"none"} \cup Settled] /\ progress' \in [Step -> StepStatus]
    BY <1>1 DEF Settled, StepStatus
  <2> QED
    BY <1>1, <1>2, <2>1 DEF StepInv, TypeOK
<1>5. Orderly'
  <2>1. \A s \in Step : Deps(s) \subseteq Step
    BY OrderKnowsSteps DEF Plan
  <2> QED
    BY <1>1, <1>2, <1>3, <2>1 DEF Orderly, Planned, ReturnedDone, Collected, LaunchedBehind
<1>6. ASSUME ~twice PROVE Once'
  <2>1. \A t, q : MayRun(t, q)' = MayRun(t, q) /\ MustSkip(t, q)' = MustSkip(t, q)
    BY <1>2 DEF MayRun, MustSkip
  <2>2. \A s \in carry : Deps(s) \subseteq carry /\ runs[s] = 0
    BY <1>6 DEF StepInv, Once, CarryIdle
  <2>3. \A s \in Step : /\ results'[s] \in {"none", "success"}
                        /\ results'[s] = "success" => MayRun(s, results')
    BY <1>1, <1>3, <2>2 DEF MayRun
  <2>4. Distinct' /\ CarryIdle' /\ OpenUnsettled' /\ SettledByRoutine'
    BY <1>1, <1>2, <1>3, <2>2 DEF Distinct, CarryIdle, OpenUnsettled, SettledByRoutine
  <2>5. Decided'
    BY <1>1, <1>2, <1>3, <2>1, <2>3 DEF Decided
  <2> QED
    BY <2>4, <2>5 DEF Once
<1> QED
  BY <1>1, <1>4, <1>5, <1>6 DEF StepInv

LEMMA LaunchLoopKeeps ==
  ASSUME StepInv, LaunchLoop
  PROVE  StepInv'
<1> DEFINE s == Listing[main.next]
<1>1. /\ UNCHANGED <<wf, attempt, carry, results, progress, failed, canceled, persisted,
                     ctx, runs>>
      /\ main.pc = "launch"
  BY DEF LaunchLoop, shared
<1>2. /\ Listing' = Listing /\ Step' = Step /\ Goroutine' = Goroutine
      /\ \A t : Deps(t)' = Deps(t) /\ Children(t)' = Children(t)
  BY <1>1, SameWorkflow
<1>3. /\ main.next \in 1 .. Len(Listing) /\ Len(Listing) \in Nat \ {0}
      /\ s \in Step
  BY WorkflowFacts DEF StepInv, TypeOK
<1>4. /\ main' \in [pc : {"plan", "launch", "wait", "returned", "rejected"},
                    next : 1 .. Len(Listing)]
      /\ main'.pc \in {"launch", "wait"}
  <2>1. CASE main.next = Len(Listing)
    BY <2>1, <1>3 DEF LaunchLoop
  <2>2. CASE main.next # Len(Listing)
    <3>1. main' = [main EXCEPT !.next = main.next + 1]
      BY <2>2 DEF LaunchLoop
    <3>2. main.next + 1 \in 1 .. Len(Listing)
      BY <1>3, <2>2
    <3> QED
      BY <1>1, <3>1, <3>2 DEF StepInv, TypeOK
  <2> QED
    BY <2>1, <2>2
<1>5. CASE Launch(routines, <<s>>) /\ ~Carried(s) /\ AllDone(s, results)
  <2> DEFINE seq == <<s>>
  <2>1. seq \in [1 .. 1 -> Step] /\ \A i \in 1 .. 1 : seq[i] = s
    BY <1>3
  <2>2. routines \in Seq(Goroutine) /\ \A h \in DOMAIN routines : routines[h].tries <= wf.retry[routines[h].step]
    BY DEF StepInv, TypeOK
  <2>3. Launch(routines, seq)
    BY <1>5
  <2>4. s \notin carry
    BY <1>5 DEF Carried
  <2> HIDE DEF seq
  <2>5. /\ routines' \in Seq(Goroutine)
        /\ \A g \in DOMAIN routines' : routines'[g].tries <= wf.retry[routines'[g].step]
        /\ Orderly' /\ (~twice' => Once')
    BY <1>1, <1>4, <1>5, <2>1, <2>2, <2>3, <2>4, LaunchKeeps
  <2>6. twice' \in BOOLEAN
    BY <2>3 DEF Launch
  <2>7. TypeOK'
    BY <1>1, <1>2, <1>4, <2>5, <2>6 DEF StepInv, TypeOK
  <2> QED
    BY <2>5, <2>7 DEF StepInv
<1>6. CASE UNCHANGED <<routines, twice>>
  <2>1. TypeOK'
    BY <1>1, <1>2, <1>4, <1>6 DEF StepInv, TypeOK
  <2>2. Planned' /\ ReturnedDone'
    BY <1>1, <1>2, <1>4 DEF StepInv, Orderly, Planned, ReturnedDone
  <2>3. Collected' /\ LaunchedBehind'
    BY <1>1, <1>2, <1>6 DEF StepInv, Orderly, Collected, LaunchedBehind, AllDone
  <2>4. ASSUME ~twice PROVE Once'
    <3>1. \A t, q : MayRun(t, q)' = MayRun(t, q) /\ MustSkip(t, q)' = MustSkip(t, q)
      BY <1>2 DEF MayRun, MustSkip
    <3>2. Distinct' /\ CarryIdle' /\ OpenUnsettled' /\ SettledByRoutine'
      BY <1>1, <1>2, <1>4, <1>6, <2>4
         DEF StepInv, Once, Distinct, CarryIdle, OpenUnsettled, SettledByRoutine
    <3>3. Decided'
      BY <1>1, <1>2, <1>6, <2>4, <3>1 DEF StepInv, Once, Decided
    <3> QED
      BY <3>2, <3>3 DEF Once
  <2> QED
    BY <1>6, <2>1, <2>2, <2>3, <2>4 DEF StepInv, Orderly
<1> QED
  BY <1>5, <1>6 DEF LaunchLoop

LEMMA ReturnKeeps ==
  ASSUME StepInv, Return
  PROVE  StepInv'
<1>1. /\ UNCHANGED <<wf, attempt, carry, routines, results, progress, failed, canceled,
                     persisted, ctx, runs, twice>>
      /\ main.pc = "wait" /\ main' = [main EXCEPT !.pc = "returned"] /\ NoRoutineLeft
  BY DEF Return, shared
<1>2. /\ Listing' = Listing /\ Step' = Step /\ Goroutine' = Goroutine
      /\ \A s : Deps(s)' = Deps(s) /\ Children(s)' = Children(s)
  BY <1>1, SameWorkflow
<1>3. main'.pc = "returned"
  BY <1>1 DEF StepInv, TypeOK
<1>4. TypeOK'
  BY <1>1, <1>2 DEF StepInv, TypeOK
<1>5. Planned' /\ ReturnedDone'
  BY <1>1, <1>2, <1>3 DEF StepInv, Orderly, Planned, ReturnedDone, NoRoutineLeft
<1>6. Collected' /\ LaunchedBehind'
  BY <1>1, <1>2 DEF StepInv, Orderly, Collected, LaunchedBehind, AllDone
<1>7. ASSUME ~twice PROVE Once'
  <2>1. \A t, q : MayRun(t, q)' = MayRun(t, q) /\ MustSkip(t, q)' = MustSkip(t, q)
    BY <1>2 DEF MayRun, MustSkip
  <2>2. Distinct' /\ CarryIdle' /\ OpenUnsettled' /\ SettledByRoutine'
    BY <1>1, <1>2, <1>3, <1>7
       DEF StepInv, Once, Distinct, CarryIdle, OpenUnsettled, SettledByRoutine
  <2>3. Decided'
    BY <1>1, <1>2, <1>7, <2>1 DEF StepInv, Once, Decided
  <2> QED
    BY <2>2, <2>3 DEF Once
<1> QED
  BY <1>1, <1>4, <1>5, <1>6, <1>7 DEF StepInv, Orderly

\* The steps that succeeded are carried over with all they depend on.
LEMMA RetryKeeps ==
  ASSUME StepInv, Retry
  PROVE  StepInv'
<1>1. /\ UNCHANGED <<wf, ctx, twice>>
      /\ main.pc = "returned" /\ main' = [pc |-> "plan", next |-> 1]
      /\ attempt < MaxAttempts /\ attempt' = attempt + 1
      /\ carry' = {s \in Step : results[s] = "success"}
      /\ routines' = <<>>
      /\ results' = [s \in Step |-> "none"] /\ runs' = [s \in Step |-> 0]
      /\ failed' = FALSE /\ canceled' = FALSE
      /\ progress' = [s \in Step |-> "pending"] /\ persisted' = [s \in Step |-> "pending"]
  BY DEF Retry, NewAttempt
<1>2. /\ Listing' = Listing /\ Step' = Step /\ Goroutine' = Goroutine
      /\ \A s : Deps(s)' = Deps(s) /\ Children(s)' = Children(s)
  BY <1>1, SameWorkflow
<1>3. TypeOK'
  <2>1. routines' \in Seq(Goroutine) /\ DOMAIN routines' = {}
    BY <1>1
  <2>2. 1 \in 1 .. Len(Listing)
    BY WorkflowFacts DEF StepInv, TypeOK
  <2>3. attempt' \in 1 .. MaxAttempts
    BY <1>1 DEF StepInv, TypeOK, StepExecutorAssumption
  <2>4. /\ results' \in [Step -> {"none"} \cup Settled] /\ runs' \in [Step -> Nat]
        /\ progress' \in [Step -> StepStatus] /\ persisted' \in [Step -> StepStatus]
        /\ carry' \subseteq Step
    BY <1>1 DEF StepStatus
  <2>5. main' \in [pc : {"plan", "launch", "wait", "returned", "rejected"},
                   next : 1 .. Len(Listing)]
    BY <1>1, <2>2
  <2> QED
    BY <1>1, <1>2, <2>1, <2>3, <2>4, <2>5 DEF StepInv, TypeOK
<1>4. main'.pc = "plan" /\ DOMAIN routines' = {}
  BY <1>1
<1>5. Orderly'
  BY <1>1, <1>2, <1>4 DEF Orderly, Planned, ReturnedDone, Collected, LaunchedBehind
<1>6. ASSUME ~twice PROVE Once'
  <2>1. \A s \in Step : Deps(s) \subseteq Step
    BY <1>1 DEF StepInv, Orderly, Planned
  <2>2. \A s \in carry' : Deps(s) \subseteq carry' /\ runs'[s] = 0
    BY <1>1, <1>6, <2>1 DEF StepInv, Once, Decided, MayRun
  <2>3. Distinct' /\ CarryIdle' /\ OpenUnsettled' /\ SettledByRoutine'
    BY <1>1, <1>2, <1>4, <2>2 DEF Distinct, CarryIdle, OpenUnsettled, SettledByRoutine
  <2>4. Decided'
    BY <1>1, <1>2, <1>4 DEF Decided
  <2> QED
    BY <2>3, <2>4 DEF Once
<1> QED
  BY <1>1, <1>3, <1>5, <1>6 DEF StepInv

LEMMA CancelContextKeeps ==
  ASSUME StepInv, UNCHANGED <<wf, attempt, carry, main, routines, shared, persisted, runs, twice>>,
         ctx' \in {"live", "canceled"}
  PROVE  StepInv'
<1>1. UNCHANGED <<wf, attempt, carry, main, routines, results, progress, failed, canceled,
                  persisted, runs, twice>>
  BY DEF shared
<1>2. /\ Listing' = Listing /\ Step' = Step /\ Goroutine' = Goroutine
      /\ \A s : Deps(s)' = Deps(s) /\ Children(s)' = Children(s)
  BY <1>1, SameWorkflow
<1>3. TypeOK'
  BY <1>1, <1>2 DEF StepInv, TypeOK
<1>4. Orderly'
  BY <1>1, <1>2 DEF StepInv, Orderly, Planned, ReturnedDone, NoRoutineLeft, Collected,
                    LaunchedBehind, AllDone
<1>5. ASSUME ~twice PROVE Once'
  <2>1. \A t, q : MayRun(t, q)' = MayRun(t, q) /\ MustSkip(t, q)' = MustSkip(t, q)
    BY <1>2 DEF MayRun, MustSkip
  <2>2. Distinct' /\ CarryIdle' /\ OpenUnsettled' /\ SettledByRoutine'
    BY <1>1, <1>2, <1>5 DEF StepInv, Once, Distinct, CarryIdle, OpenUnsettled, SettledByRoutine
  <2>3. Decided'
    BY <1>1, <1>2, <1>5, <2>1 DEF StepInv, Once, Decided
  <2> QED
    BY <2>2, <2>3 DEF Once
<1> QED
  BY <1>1, <1>3, <1>4, <1>5 DEF StepInv

-------------------------------------------------------------------------------
(* Every step settles                                                        *)

\* executeSteps launches steps only once they have an order.
Started == main.pc \in {"launch", "wait", "returned"}
Ordered == Started => OrderSteps(Listing, wf.deps) # NoOrder

\* A step that has a goroutine, or will get one from a goroutine that reports.
Covered(s) ==
  \E g \in DOMAIN routines :
    \/ routines[g].step = s
    \/ routines[g].pc = "report" /\ \E c \in routines[g].next : Listing[c[1]] = s

\* A goroutine that has stored its result has left one, and so has a carried step; and
\* a failure is remembered.
ResultKept ==
  \A g \in DOMAIN routines :
    routines[g].pc \in {"report", "done"} => results[routines[g].step] # "none"
CarryKept == Started => \A s \in carry : results[s] # "none"
FailureShown == \A s \in Step : results[s] = "failed" => failed

\* The launch loop takes the steps whose dependencies were all carried over; the others
\* are taken by whoever settles their last dependency.
LoopLaunched ==
  /\ main.pc = "plan" => main.next = 1
  /\ Started => \A i \in DOMAIN Listing :
       /\ main.pc = "launch" => i < main.next
       /\ Listing[i] \notin carry /\ Deps(Listing[i]) \subseteq carry
       => Covered(Listing[i])
Promised ==
  Started => \A s \in Step \ carry :
    AllDone(s, results) /\ ~(Deps(s) \subseteq carry) => Covered(s)

Settling == Ordered /\ ResultKept /\ CarryKept /\ FailureShown /\ LoopLaunched /\ Promised

\* The listing and the dependencies of a workflow are what orderSteps expects.
LEMMA WorkflowOrder ==
  ASSUME wf \in Workflows
  PROVE  /\ IsListing(Listing, wf.deps) /\ Len(Listing) # 0
         /\ OrderSteps(Listing, wf.deps) # NoOrder
              <=> /\ \A s \in Step : Deps(s) \subseteq Step
                  /\ Acyclic(Step, wf.deps)
         /\ \/ TopologicalOrder(Listing, wf.deps, OrderSteps(Listing, wf.deps))
            \/ OrderSteps(Listing, wf.deps) = NoOrder
<1>1. IsListing(Listing, wf.deps) /\ Len(Listing) # 0
  BY DEF IsListing, IsInjective, StepExecutorAssumption, Listing, Elements
<1> QED
  BY <1>1, OrderStepsCorrect DEF Step, Deps

\* When main has gone no further, nothing was carried or stored, and no step that was
\* covered is uncovered, what was promised still is.
LEMMA SettlingKept ==
  ASSUME Settling, UNCHANGED <<wf, carry, main, results>>, failed => failed',
         \A s : Covered(s) => Covered(s)',
         ResultKept'
  PROVE  Settling'
<1>1. Listing' = Listing /\ Step' = Step /\ \A s : Deps(s)' = Deps(s) /\ AllDone(s, results)' = AllDone(s, results)
  BY SameWorkflow DEF AllDone
<1>2. Started' = Started
  BY DEF Started
<1>3. Ordered' /\ CarryKept'
  BY <1>1, <1>2 DEF Settling, Ordered, CarryKept
<1>4. FailureShown'
  BY <1>1 DEF Settling, FailureShown
<1>5. LoopLaunched'
  BY <1>1, <1>2 DEF Settling, LoopLaunched
<1>6. Promised'
  BY <1>1, <1>2 DEF Settling, Promised
<1> QED
  BY <1>3, <1>4, <1>5, <1>6 DEF Settling

\* A goroutine that neither stores a result nor reports covers what it covered.
LEMMA OpenMoveSettling ==
  ASSUME Settling, NEW g, OpenMove(g)
  PROVE  Settling'
<1>1. Listing' = Listing
  BY SameWorkflow DEF OpenMove
<1>2. \A s : Covered(s) => Covered(s)'
  BY <1>1 DEF Covered, OpenMove, OneMoves, Open
<1>3. ResultKept'
  BY DEF Settling, ResultKept, OpenMove, OneMoves, Open
<1> QED
  BY <1>2, <1>3, SettlingKept DEF OpenMove

\* A result that is stored gives the steps it was the last to be waited for to the
\* goroutine that stored it.
LEMMA RecordSettling ==
  ASSUME StepInv, Settling, NEW g \in DOMAIN routines, Record(g)
  PROVE  Settling'
<1> DEFINE t == routines[g].step
<1>1. /\ UNCHANGED <<wf, carry, main>> /\ routines[g].pc = "record"
      /\ routines[g].res \in Settled /\ t \in Step
      /\ results' = [results EXCEPT ![t] = routines[g].res]
      /\ failed' = (failed \/ routines[g].res = "failed")
      /\ \A s \in Step : Deps(s) \subseteq Step
  BY RecordGrows, GoroutineFacts DEF Record, StepInv
<1>2. /\ OneMoves(g) /\ routines'[g].pc = "report"
      /\ routines'[g].next = {c \in Children(t) : AllDone(Listing[c[1]], results')}
  BY RecordKeeps
<1>3. /\ Listing' = Listing /\ Step' = Step /\ Started' = Started
      /\ \A s : Deps(s)' = Deps(s)
  BY <1>1, SameWorkflow DEF Started
<1>4. \A s \in Step : results'[s] = IF s = t THEN routines[g].res ELSE results[s]
  BY <1>1 DEF StepInv, TypeOK
<1>5. \A s : Covered(s) => Covered(s)'
  BY <1>1, <1>2, <1>3 DEF Covered, OneMoves
<1>6. Ordered' /\ LoopLaunched'
  BY <1>1, <1>3, <1>5 DEF Settling, Ordered, LoopLaunched
<1>7. ResultKept'
  <2>1. \A h \in DOMAIN routines : routines[h].step \in Step
    BY GoroutineFacts DEF StepInv
  <2> QED
    BY <1>1, <1>2, <1>4, <2>1 DEF Settling, ResultKept, OneMoves, Settled
<1>8. CarryKept'
  <2>1. carry \subseteq Step
    BY DEF StepInv, TypeOK
  <2> QED
    BY <1>1, <1>3, <1>4, <2>1 DEF Settling, CarryKept, Settled
<1>9. FailureShown'
  BY <1>1, <1>3, <1>4 DEF Settling, FailureShown, StepInv, TypeOK
<1>10. ASSUME Started, NEW s \in Step \ carry, AllDone(s, results'), ~(Deps(s) \subseteq carry)
       PROVE  Covered(s)'
  <2>1. CASE AllDone(s, results)
    BY <1>5, <1>10, <2>1 DEF Settling, Promised
  <2>2. CASE ~AllDone(s, results)
    <3>1. t \in Deps(s)
      BY <1>1, <1>4, <1>10, <2>2 DEF AllDone
    <3>2. PICK i \in DOMAIN Listing : Listing[i] = s
      BY <1>10, WorkflowFacts DEF StepInv, TypeOK
    <3>3. PICK n \in DOMAIN wf.deps[s] : wf.deps[s][n] = t
      BY <3>1 DEF Deps, Elements
    <3>4. <<i, n>> \in Children(t)
      BY <3>2, <3>3 DEF Children
    <3>5. <<i, n>> \in routines'[g].next
      BY <1>2, <1>10, <3>2, <3>4
    <3> QED
      BY <1>2, <1>3, <3>2, <3>5 DEF Covered, OneMoves
  <2> QED
    BY <2>1, <2>2
<1>11. Promised'
  BY <1>1, <1>3, <1>10 DEF Promised, AllDone
<1> QED
  BY <1>6, <1>7, <1>8, <1>9, <1>11 DEF Settling

\* Every goroutine stays, and there is one for each step that is launched.
LEMMA LaunchCovers ==
  ASSUME NEW rs \in Seq(Goroutine), NEW n \in Nat, NEW seq \in [1 .. n -> Step],
         Launch(rs, seq)
  PROVE  /\ DOMAIN rs \subseteq DOMAIN routines'
         /\ \A g \in DOMAIN rs : routines'[g] = rs[g]
         /\ \A g \in DOMAIN routines' \ DOMAIN rs : routines'[g].pc = "waiting"
         /\ \A i \in 1 .. n : \E g \in DOMAIN routines' : routines'[g].step = seq[i]
<1> DEFINE new == [i \in DOMAIN seq |-> Routine(seq[i])]
<1>1. new \in Seq(Goroutine) /\ Len(new) = n
  <2>1. \A s \in Step : Routine(s) \in Goroutine
    BY DEF Routine, Goroutine, Unfinished, Snapshots, Places
  <2>2. new \in [1 .. n -> Goroutine]
    BY <2>1
  <2> QED
    BY <2>2
<1>2. routines' = rs \o new
  BY DEF Launch
<1>3. ASSUME NEW i \in 1 .. n
      PROVE  \E g \in DOMAIN routines' : routines'[g].step = seq[i]
  <2>1. Len(rs) + i \in DOMAIN routines' /\ routines'[Len(rs) + i] = new[i]
    <3> HIDE DEF new
    <3> QED BY <1>1, <1>2
  <2>2. new[i].step = seq[i]
    BY DEF Routine
  <2> QED
    BY <2>1, <2>2
<1>4. /\ DOMAIN rs \subseteq DOMAIN routines'
      /\ \A g \in DOMAIN rs : routines'[g] = rs[g]
      /\ \A g \in DOMAIN routines' \ DOMAIN rs : routines'[g].pc = "waiting"
  BY LaunchAdds DEF Routine
<1> QED
  BY <1>3, <1>4

\* A goroutine that reports launches what it covers.
LEMMA ReportSettling ==
  ASSUME StepInv, Settling, NEW g \in DOMAIN routines, Report(g)
  PROVE  Settling'
<1> DEFINE s == routines[g].step
           next == SetToSeq(routines[g].next)
           n == Cardinality(routines[g].next)
           seq == [i \in DOMAIN next |-> Listing[next[i][1]]]
           r == [Routine(s) EXCEPT !.pc = "done"]
           rs == [routines EXCEPT ![g] = r]
<1>1. /\ UNCHANGED <<wf, carry, main, results, failed>> /\ routines[g].pc = "report"
      /\ Launch(rs, seq)
  BY DEF Report, shared
<1>2. wf \in Workflows /\ s \in Step
  BY GoroutineFacts DEF StepInv, TypeOK
<1>3. routines[g].next \subseteq Children(s)
  BY <1>1 DEF StepInv, Orderly, Collected
<1>4. IsFiniteSet(routines[g].next)
  BY <1>2, <1>3, ChildrenFacts, FS_Subset
<1>5. /\ n \in Nat /\ next \in [1 .. n -> routines[g].next]
      /\ \A c \in routines[g].next : \E i \in 1 .. n : next[i] = c
  BY <1>4, SetToSeqLists
<1>6. \A c \in routines[g].next : Listing[c[1]] \in Step
  BY <1>2, <1>3, ChildrenFacts, WorkflowFacts
<1> HIDE DEF next, n
<1>7. /\ seq \in [1 .. n -> Step]
      /\ \A c \in routines[g].next : \E i \in 1 .. n : seq[i] = Listing[c[1]]
  BY <1>5, <1>6
<1>8. r \in Goroutine /\ r.step = s /\ r.pc = "done"
  BY <1>2 DEF Routine, Goroutine, Snapshots, Places
<1> HIDE DEF r, seq
<1>9. /\ rs \in Seq(Goroutine) /\ DOMAIN rs = DOMAIN routines
      /\ rs[g] = r /\ \A h \in DOMAIN routines : h # g => rs[h] = routines[h]
  BY <1>8, GoroutineFacts DEF StepInv
<1> HIDE DEF rs
<1>10. /\ DOMAIN rs \subseteq DOMAIN routines'
       /\ \A h \in DOMAIN rs : routines'[h] = rs[h]
       /\ \A h \in DOMAIN routines' \ DOMAIN rs : routines'[h].pc = "waiting"
       /\ \A i \in 1 .. n : \E h \in DOMAIN routines' : routines'[h].step = seq[i]
  <2>1. rs \in Seq(Goroutine) /\ n \in Nat /\ seq \in [1 .. n -> Step] /\ Launch(rs, seq)
    BY <1>1, <1>5, <1>7, <1>9
  <2> QED
    BY ONLY <2>1, LaunchCovers
<1>11. Listing' = Listing
  BY <1>1, SameWorkflow
<1>12. ASSUME NEW x, Covered(x)
       PROVE  Covered(x)'
  <2>1. PICK h \in DOMAIN routines :
          \/ routines[h].step = x
          \/ routines[h].pc = "report" /\ \E c \in routines[h].next : Listing[c[1]] = x
    BY <1>12 DEF Covered
  <2>2. CASE routines[h].step = x
    <3>1. h \in DOMAIN routines' /\ routines'[h].step = x
      BY <1>8, <1>9, <1>10, <2>2
    <3> QED
      BY <3>1 DEF Covered
  <2>3. CASE h # g
    <3>1. h \in DOMAIN routines' /\ routines'[h] = routines[h]
      BY <1>9, <1>10, <2>3
    <3> QED
      BY <1>11, <2>1, <3>1 DEF Covered
  <2>4. CASE h = g /\ \E c \in routines[g].next : Listing[c[1]] = x
    <3>1. \E j \in DOMAIN routines' : routines'[j].step = x
      BY <1>7, <1>10, <2>4
    <3> QED
      BY <3>1 DEF Covered
  <2> QED
    BY <2>1, <2>2, <2>3, <2>4
<1>13. ResultKept'
  <2>1. results[s] # "none"
    BY <1>1 DEF Settling, ResultKept
  <2> QED
    BY <1>1, <1>8, <1>9, <1>10, <2>1 DEF Settling, ResultKept
<1> QED
  BY <1>1, <1>12, <1>13, SettlingKept

LEMMA LaunchLoopSettling ==
  ASSUME StepInv, Settling, LaunchLoop
  PROVE  Settling'
<1> DEFINE s == Listing[main.next]
<1>1. UNCHANGED <<wf, carry, results, failed>> /\ main.pc = "launch" /\ Started
  BY DEF LaunchLoop, shared, Started
<1>2. /\ main.next \in 1 .. Len(Listing) /\ Len(Listing) \in Nat \ {0}
      /\ DOMAIN Listing = 1 .. Len(Listing) /\ s \in Step
  BY WorkflowFacts DEF StepInv, TypeOK
<1>3. /\ main'.pc \in {"launch", "wait"}
      /\ main'.pc = "launch" => main'.next = main.next + 1
      /\ main'.pc = "wait" => main.next = Len(Listing)
  <2>1. CASE main.next = Len(Listing)
    BY <2>1 DEF LaunchLoop
  <2>2. CASE main.next # Len(Listing)
    BY <1>1, <2>2 DEF LaunchLoop, StepInv, TypeOK
  <2> QED
    BY <2>1, <2>2
<1>4. /\ Listing' = Listing /\ Step' = Step
      /\ \A t : Deps(t)' = Deps(t) /\ AllDone(t, results)' = AllDone(t, results)
  BY <1>1, SameWorkflow DEF AllDone
<1>5. /\ DOMAIN routines \subseteq DOMAIN routines'
      /\ \A g \in DOMAIN routines : routines'[g] = routines[g]
      /\ \A g \in DOMAIN routines' \ DOMAIN routines : routines'[g].pc = "waiting"
      /\ Carried(s) \/ ~(Deps(s) \subseteq carry) \/ \E g \in DOMAIN routines' : routines'[g].step = s
  <2>1. CASE Launch(routines, <<s>>)
    <3> DEFINE seq == <<s>>
               n == 1
    <3>1. n \in Nat /\ seq \in [1 .. n -> Step] /\ routines \in Seq(Goroutine)
      BY <1>2 DEF StepInv, TypeOK
    <3>2. Launch(routines, seq) /\ seq[1] = s /\ 1 \in 1 .. n
      BY <2>1
    <3> HIDE DEF seq, n
    <3>3. /\ DOMAIN routines \subseteq DOMAIN routines'
          /\ \A g \in DOMAIN routines : routines'[g] = routines[g]
          /\ \A g \in DOMAIN routines' \ DOMAIN routines : routines'[g].pc = "waiting"
          /\ \A i \in 1 .. n : \E g \in DOMAIN routines' : routines'[g].step = seq[i]
      BY ONLY <3>1, <3>2, LaunchCovers
    <3> QED
      BY <3>2, <3>3
  <2>2. CASE UNCHANGED routines /\ (Carried(s) \/ \E d \in Deps(s) : d \notin carry)
    BY <2>2
  <2> QED
    BY <2>1, <2>2 DEF LaunchLoop
<1>6. \A t : Covered(t) => Covered(t)'
  BY <1>4, <1>5 DEF Covered
<1>7. Started'
  BY <1>3 DEF Started
<1>8. Ordered' /\ CarryKept' /\ FailureShown'
  BY <1>1, <1>4, <1>7 DEF Settling, Ordered, CarryKept, FailureShown
<1>9. ResultKept'
  BY <1>1, <1>5 DEF Settling, ResultKept
<1>10. Promised'
  BY <1>1, <1>4, <1>6 DEF Settling, Promised
<1>11. ASSUME NEW i \in DOMAIN Listing, main'.pc = "launch" => i < main'.next,
              NEW x, x = Listing[i], x \notin carry, Deps(x) \subseteq carry
       PROVE  Covered(x)'
  <2>1. CASE i < main.next
    BY <1>1, <1>6, <1>11, <2>1 DEF Settling, LoopLaunched
  <2>2. CASE ~(i < main.next)
    <3>1. i = main.next
      BY <1>2, <1>3, <1>11, <2>2
    <3> QED
      BY <1>5, <1>11, <3>1 DEF Carried, Covered
  <2> QED
    BY <2>1, <2>2
<1>12. LoopLaunched'
  <2>1. main'.pc # "plan"
    BY <1>3
  <2> QED
    BY <1>1, <1>4, <1>11, <2>1 DEF LoopLaunched
<1> QED
  BY <1>8, <1>9, <1>10, <1>12 DEF Settling

LEMMA MainSettling ==
  ASSUME StepInv, Settling, Reject \/ Plan \/ Return \/ Retry
  PROVE  Settling'
<1>1. /\ UNCHANGED wf /\ Listing' = Listing /\ Step' = Step
      /\ \A s : Deps(s)' = Deps(s)
  BY SameWorkflow DEF Reject, Plan, Return, Retry
<1>2. CASE Reject
  <2>1. main'.pc = "rejected" /\ UNCHANGED <<routines, results>> /\ failed'
    BY <1>2 DEF Reject, StepInv, TypeOK
  <2> QED
    BY <2>1 DEF Settling, Ordered, ResultKept, CarryKept, FailureShown, LoopLaunched, Promised, Started
<1>3. CASE Plan
  <2>1. /\ main'.pc = "launch" /\ main'.next = 1 /\ UNCHANGED <<carry, routines, failed>>
        /\ routines = <<>> /\ DOMAIN routines = {}
        /\ results' = [s \in Step |-> IF s \in carry THEN "success" ELSE "none"]
        /\ OrderSteps(Listing, wf.deps) # NoOrder
        /\ \A s \in Step : Deps(s) \subseteq Step
        /\ carry \subseteq Step
    <3>1. /\ main.pc = "plan" /\ main' = [main EXCEPT !.pc = "launch"]
          /\ UNCHANGED <<carry, routines, failed>>
          /\ results' = [s \in Step |-> IF s \in carry THEN "success" ELSE "none"]
          /\ OrderSteps(Listing, wf.deps) # NoOrder
      BY <1>3 DEF Plan
    <3>2. main.next = 1 /\ main'.pc = "launch" /\ main'.next = main.next
      BY <3>1 DEF StepInv, TypeOK, Settling, LoopLaunched
    <3>3. routines = <<>> /\ DOMAIN routines = {} /\ carry \subseteq Step
      BY <3>1 DEF StepInv, TypeOK, Orderly, Planned
    <3> QED
      BY <3>1, <3>2, <3>3, OrderKnowsSteps
  <2>2. Ordered' /\ ResultKept' /\ CarryKept' /\ FailureShown'
    BY <1>1, <2>1 DEF Ordered, ResultKept, CarryKept, FailureShown
  <2>3. LoopLaunched'
    BY <1>1, <2>1, WorkflowFacts DEF LoopLaunched, StepInv, TypeOK
  <2>4. Promised'
    BY <1>1, <2>1 DEF Promised, AllDone
  <2> QED
    BY <2>2, <2>3, <2>4 DEF Settling
<1>4. CASE Return
  <2>1. /\ main.pc = "wait" /\ main'.pc = "returned" /\ UNCHANGED <<carry, routines, results, failed>>
    BY <1>4 DEF Return, StepInv, TypeOK, shared
  <2>2. Started /\ Started' /\ \A s : Covered(s)' = Covered(s) /\ AllDone(s, results)' = AllDone(s, results)
    BY <1>1, <2>1 DEF Started, Covered, AllDone
  <2>3. Ordered' /\ ResultKept' /\ CarryKept' /\ FailureShown'
    BY <1>1, <2>1, <2>2 DEF Settling, Ordered, ResultKept, CarryKept, FailureShown
  <2>4. LoopLaunched' /\ Promised'
    BY <1>1, <2>1, <2>2 DEF Settling, LoopLaunched, Promised
  <2> QED
    BY <2>3, <2>4 DEF Settling
<1>5. CASE Retry
  <2>1. /\ main'.pc = "plan" /\ main'.next = 1 /\ DOMAIN routines' = {}
        /\ results' = [s \in Step |-> "none"]
    BY <1>5 DEF Retry, NewAttempt
  <2> QED
    BY <1>1, <2>1 DEF Settling, Ordered, ResultKept, CarryKept, FailureShown, LoopLaunched, Promised, Started
<1> QED
  BY <1>2, <1>3, <1>4, <1>5

LEMMA NextSettling ==
  ASSUME StepInv, Settling, [Next]_vars
  PROVE  Settling'
<1>1. CASE UNCHANGED vars \/ CancelContext
  <2>1. UNCHANGED <<wf, carry, main, routines, results, failed>>
    BY <1>1 DEF vars, shared, CancelContext
  <2>2. Listing' = Listing /\ \A s : Covered(s) => Covered(s)'
    BY <2>1, SameWorkflow DEF Covered
  <2>3. ResultKept'
    BY <2>1 DEF Settling, ResultKept
  <2> QED
    BY <2>1, <2>2, <2>3, SettlingKept
<1>2. CASE MainStep \/ Retry
  BY <1>2, MainSettling, LaunchLoopSettling DEF MainStep
<1>3. ASSUME NEW g \in DOMAIN routines, RoutineStep(g)
      PROVE  Settling'
  <2>1. CASE Start(g) \/ Enter(g) \/ Announce(g) \/ OpenLogFails(g) \/ RunContainer(g)
    <3>1. OpenMove(g)
      BY <2>1, StartKeeps, EnterKeeps, AnnounceKeeps, OpenLogFailsKeeps, RunContainerKeeps
    <3> QED
      BY <3>1, OpenMoveSettling
  <2> QED
    BY <1>3, <2>1, RecordSettling, ReportSettling DEF RoutineStep
<1> QED
  BY <1>1, <1>2, <1>3 DEF Next

\* Of the steps without a result one would depend on none of the others: it has a
\* goroutine, which has ended, and so has a result.
LEMMA AllSettled ==
  ASSUME StepInv, Settling
  PROVE  EveryStepSettles
<1> SUFFICES ASSUME main.pc = "returned"
             PROVE  \A s \in Step : results[s] # "none"
  BY DEF EveryStepSettles, Settling, FailureShown
<1> DEFINE U == {s \in Step : results[s] = "none"}
<1> SUFFICES ASSUME U # {} PROVE FALSE
  OBVIOUS
<1>1. wf \in Workflows /\ Started
  BY DEF StepInv, TypeOK, Started
<1>2. Acyclic(Step, wf.deps) /\ \A s \in Step : Deps(s) \subseteq Step
  BY <1>1, WorkflowOrder DEF Settling, Ordered
<1>3. PICK s \in U : Elements(wf.deps[s]) \cap U = {}
  BY <1>2 DEF Acyclic
<1>4. AllDone(s, results)
  BY <1>2, <1>3 DEF AllDone, Deps
<1>5. s \in Step \ carry
  BY <1>1, <1>3 DEF Settling, CarryKept
<1>6. Covered(s)
  <2>1. CASE Deps(s) \subseteq carry
    <3>1. PICK i \in DOMAIN Listing : Listing[i] = s
      BY <1>1, <1>5, WorkflowFacts
    <3> QED
      BY <1>1, <1>5, <2>1, <3>1 DEF Settling, LoopLaunched
  <2>2. CASE ~(Deps(s) \subseteq carry)
    BY <1>1, <1>4, <1>5, <2>2 DEF Settling, Promised
  <2> QED
    BY <2>1, <2>2
<1>7. \A g \in DOMAIN routines : routines[g].pc = "done"
  BY DEF StepInv, Orderly, ReturnedDone, NoRoutineLeft
<1>8. PICK g \in DOMAIN routines : routines[g].step = s
  BY <1>6, <1>7 DEF Covered
<1> QED
  BY <1>3, <1>7, <1>8 DEF Settling, ResultKept

-------------------------------------------------------------------------------
(* Theorems                                                                  *)

LEMMA NextKeeps ==
  ASSUME StepInv, [Next]_vars
  PROVE  StepInv'
<1>1. CASE UNCHANGED vars
  <2>1. ctx' = ctx /\ ctx \in {"live", "canceled"}
    BY <1>1 DEF vars, StepInv, TypeOK
  <2> QED
    BY <1>1, <2>1, CancelContextKeeps DEF vars
<1>2. CASE CancelContext
  BY <1>2, CancelContextKeeps DEF CancelContext
<1>3. CASE MainStep
  BY <1>3, RejectKeeps, PlanKeeps, LaunchLoopKeeps, ReturnKeeps DEF MainStep
<1>4. CASE Retry
  BY <1>4, RetryKeeps
<1>5. ASSUME NEW g \in DOMAIN routines, RoutineStep(g)
      PROVE  StepInv'
  BY <1>5, StartKeeps, EnterKeeps, AnnounceKeeps, OpenLogFailsKeeps, RunContainerKeeps,
     RecordKeeps, ReportKeeps DEF RoutineStep
<1> QED
  BY <1>1, <1>2, <1>3, <1>4, <1>5 DEF Next

\* The invariant of the executor: what a goroutine has decided, by final results.
THEOREM StepInvariant == Spec => []StepInv
<1>1. Init => StepInv
  BY InitHolds
<1>2. StepInv /\ [Next]_vars => StepInv'
  BY NextKeeps
<1> QED
  BY <1>1, <1>2, PTL DEF Spec

\* Every variable holds a value of its type, however many goroutines run.
THEOREM StepTypes == Spec => []TypeOK
<1>1. StepInv => TypeOK
  BY DEF StepInv
<1> QED
  BY <1>1, StepInvariant, PTL

\* The containers of a step run when all it depends on has succeeded and none of it
\* runs, unless a step was launched twice.
THEOREM DependenciesFirst == Spec => []RunsBehindDeps
<1>1. StepInv => RunsBehindDeps
  <2> SUFFICES ASSUME StepInv, ~twice, NEW g \in DOMAIN routines, routines[g].pc = "exec",
                      NEW d \in Deps(routines[g].step)
               PROVE  /\ results[d] = "success"
                      /\ \A h \in DOMAIN routines : routines[h].step = d => routines[h].pc # "exec"
    BY DEF RunsBehindDeps
  <2>1. results[d] = "success"
    BY DEF StepInv, Once, Decided, MayRun
  <2> QED
    BY <2>1 DEF StepInv, Once, OpenUnsettled, Open
<1> QED
  BY <1>1, StepInvariant, PTL

\* A step that succeeded in an earlier attempt runs no container in this one, unless a
\* step was launched twice.
THEOREM CarriedStayCarried == Spec => []CarriedNotRerun
<1>1. StepInv => CarriedNotRerun
  BY DEF StepInv, Once, CarryIdle, CarriedNotRerun
<1> QED
  BY <1>1, StepInvariant, PTL

\* executeSteps runs a workflow exactly when its dependencies are known and have no
\* cycle, in an order that respects them.
THEOREM OrderedExactly == Spec => []OrderedWhenAcyclic
<1>1. StepInv => OrderedWhenAcyclic
  BY WorkflowOrder DEF StepInv, TypeOK, OrderedWhenAcyclic
<1> QED
  BY <1>1, StepInvariant, PTL

\* When executeSteps returns, every step has a result, whatever was launched twice, and
\* no failed step goes unreported.
THEOREM StepsSettle == Spec => []EveryStepSettles
<1>1. Init => Settling
  BY DEF Init, Settling, Ordered, ResultKept, CarryKept, FailureShown, LoopLaunched,
         Promised, Started
<1>2. StepInv /\ Settling /\ [Next]_vars => Settling'
  BY NextSettling
<1>3. StepInv /\ Settling => EveryStepSettles
  BY AllSettled
<1> QED
  BY <1>1, <1>2, <1>3, StepInvariant, PTL DEF Spec

\* A step is skipped exactly when something it depends on did not succeed, unless a step
\* was launched twice.
THEOREM SkipsAgree == Spec => []SkippedBehindFailure
<1>1. StepInv /\ EveryStepSettles => SkippedBehindFailure
  <2> SUFFICES ASSUME StepInv, EveryStepSettles, main.pc = "returned", ~twice, NEW s \in Step
               PROVE  results[s] = "skipped" <=> \E d \in Deps(s) : results[d] # "success"
    BY DEF SkippedBehindFailure
  <2>1. results[s] \in Settled
    BY DEF StepInv, TypeOK, EveryStepSettles
  <2>2. \A d \in Deps(s) : results[d] # "none"
    <3>1. Deps(s) \subseteq Step
      BY DEF StepInv, Orderly, Planned
    <3> QED
      BY <3>1 DEF EveryStepSettles
  <2> QED
    BY <2>1, <2>2 DEF StepInv, Once, Decided, MayRun, MustSkip, Settled
<1> QED
  BY <1>1, StepInvariant, StepsSettle, PTL

\* When executeSteps has returned, no goroutine of it writes anything.
THEOREM SilentOnceReturned == Spec => QuietAfterReturn
<1>1. ASSUME StepInv, [Next]_vars, main.pc = "returned", main'.pc = "returned"
      PROVE  UNCHANGED <<results, persisted, runs>>
  <2>1. \A g \in DOMAIN routines : ~RoutineStep(g)
    BY <1>1 DEF StepInv, Orderly, ReturnedDone, NoRoutineLeft, RoutineStep, Start, Enter,
                Announce, OpenLogFails, RunContainer, Record, Report
  <2>2. ~MainStep /\ ~CancelContext
    BY <1>1 DEF MainStep, Reject, Plan, LaunchLoop, Return, CancelContext
  <2>3. ~Retry
    BY <1>1 DEF Retry, NewAttempt
  <2> QED
    BY <1>1, <2>1, <2>2, <2>3 DEF Next, vars, shared
<1>2. StepInv /\ [Next]_vars
        => [main.pc = "returned" /\ main'.pc = "returned"
              => UNCHANGED <<results, persisted, runs>>]_vars
  BY <1>1
<1> QED
  BY <1>2, StepInvariant, PTL DEF Spec, QuietAfterReturn
===============================================================================
