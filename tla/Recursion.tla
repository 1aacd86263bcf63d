------------------------------ MODULE Recursion ------------------------------
(***************************************************************************)
(* What a recursive definition is, where the definition does not say that  *)
(* it is one: FoldLeft of the community modules, and functions that are    *)
(* defined by recursion along a walk.  The operator of the recursion is a  *)
(* constant, so that there is an instance of this module for each one.     *)
(***************************************************************************)
EXTENDS SequencesExt, Integers, WellFoundedInduction, TLAPS

CONSTANT Op(_, _)

-----------------------------------------------------------------------------
(* A set of natural numbers that is not empty has a least one. *)
LEMMA LeastElement ==
  ASSUME NEW S \in SUBSET Nat, S # {}
  PROVE  \E x \in S : \A y \in S : x <= y
<1> DEFINE less == {pair \in Nat \X Nat : pair[1] < pair[2]}
<1>1. PICK x \in S : \A y \in S : ~ (<<y, x>> \in less)
  <2>1. IsWellFoundedOn(less, Nat)
    BY NatLessThanWellFounded DEF OpToRel
  <2> HIDE DEF less
  <2> QED BY <2>1, WFMin
<1>2. ASSUME NEW y \in S PROVE x <= y
  <2>1. x \in Nat /\ y \in Nat
    OBVIOUS
  <2>2. ~ (y < x)
    BY <1>1, <2>1, Zenon
  <2> QED BY <2>1, <2>2
<1> QED BY <1>2

(* The function that MapThenFoldSet is defined by, on the sets T of places. *)
Step(iter, base, seq, T) ==
  IF T = {} THEN base ELSE Op(iter[T \ {Max(T)}], seq[Max(T)])

IsIter(iter, base, seq, n) ==
  iter = [T \in SUBSET (1 .. n) |-> Step(iter, base, seq, T)]

Iter(base, seq, n) == CHOOSE iter : IsIter(iter, base, seq, n)

LEMMA MaxOfNext ==
  ASSUME NEW n \in Nat, NEW T \in SUBSET (1 .. n + 1), T \notin SUBSET (1 .. n)
  PROVE  Max(T) = n + 1 /\ T \ {n + 1} \in SUBSET (1 .. n)
<1>1. n + 1 \in T /\ \A y \in T : n + 1 >= y
  OBVIOUS
<1>2. \A x \in T : (\A y \in T : x >= y) => x = n + 1
  BY <1>1
<1>3. Max(T) = n + 1
  BY <1>1, <1>2, Zenon DEF Max
<1>4. T \ {n + 1} \in SUBSET (1 .. n)
  OBVIOUS
<1> QED BY <1>3, <1>4

LEMMA MaxOfSmaller ==
  ASSUME NEW n \in Nat, NEW T \in SUBSET (1 .. n + 1), T \in SUBSET (1 .. n)
  PROVE  T \ {Max(T)} \in SUBSET (1 .. n)
OBVIOUS

LEMMA MaxOfInterval ==
  ASSUME NEW n \in Nat
  PROVE  Max(1 .. n + 1) = n + 1 /\ (1 .. n + 1) \ {n + 1} = 1 .. n
<1>1. Max(1 .. n + 1) = n + 1
  BY MaxOfNext, 1 .. n + 1 \in SUBSET (1 .. n + 1), 1 .. n + 1 \notin SUBSET (1 .. n)
<1> QED BY <1>1

LEMMA IterExists ==
  ASSUME NEW base, NEW seq, NEW n \in Nat
  PROVE  \E iter : IsIter(iter, base, seq, n)
<1> DEFINE Missing == {m \in Nat : ~ \E iter : IsIter(iter, base, seq, m)}
<1>1. ASSUME NEW m \in Nat, NEW f, IsIter(f, base, seq, m)
      PROVE  \E g : IsIter(g, base, seq, m + 1)
  <2> DEFINE g == [T \in SUBSET (1 .. m + 1) |->
                     IF T \in SUBSET (1 .. m) THEN f[T] ELSE Step(f, base, seq, T)]
  <2>1. \A T \in SUBSET (1 .. m) : f[T] = Step(f, base, seq, T) /\ g[T] = f[T]
    <3>1. \A T \in SUBSET (1 .. m) : f[T] = Step(f, base, seq, T)
      BY <1>1, Zenon DEF IsIter
    <3>2. SUBSET (1 .. m) \subseteq SUBSET (1 .. m + 1)
      OBVIOUS
    <3> QED BY <3>1, <3>2
  <2>2. ASSUME NEW T \in SUBSET (1 .. m + 1)
        PROVE  g[T] = Step(g, base, seq, T)
    <3>1. CASE T = {}
      <4>1. T \in SUBSET (1 .. m)
        BY <3>1
      <4> QED BY <2>1, <3>1, <4>1 DEF Step
    <3>2. CASE T # {} /\ T \in SUBSET (1 .. m)
      <4>1. T \ {Max(T)} \in SUBSET (1 .. m)
        BY <3>2
      <4>2. g[T \ {Max(T)}] = f[T \ {Max(T)}]
        BY <2>1, <4>1, Zenon
      <4>3. g[T] = Step(f, base, seq, T)
        BY <2>1, <3>2, Zenon
      <4> QED BY <3>2, <4>2, <4>3, Zenon DEF Step
    <3>3. CASE T \notin SUBSET (1 .. m)
      <4>1. T \ {Max(T)} \in SUBSET (1 .. m)
        BY <3>3, MaxOfNext, Zenon
      <4>2. g[T \ {Max(T)}] = f[T \ {Max(T)}]
        BY <2>1, <4>1, Zenon
      <4>3. g[T] = Step(f, base, seq, T)
        BY <3>3, Zenon
      <4>4. T # {}
        BY <3>3
      <4> QED BY <4>2, <4>3, <4>4, Zenon DEF Step
    <3> QED BY <3>1, <3>2, <3>3
  <2>3. IsIter(g, base, seq, m + 1)
    BY <2>2, Zenon DEF IsIter
  <2> QED BY <2>3
<1>2. \E f : IsIter(f, base, seq, 0)
  <2> DEFINE f == [T \in SUBSET (1 .. 0) |-> base]
  <2>1. \A T \in SUBSET (1 .. 0) : T = {}
    OBVIOUS
  <2>2. IsIter(f, base, seq, 0)
    BY <2>1, Zenon DEF IsIter, Step
  <2> QED BY <2>2
<1>3. Missing = {}
  <2> SUFFICES ASSUME Missing # {} PROVE FALSE
    OBVIOUS
  <2>1. PICK m \in Missing : \A x \in Missing : m <= x
    BY LeastElement
  <2>2. m \in Nat /\ m # 0 /\ ~ \E f : IsIter(f, base, seq, m)
    BY <1>2, <2>1
  <2>3. m - 1 \in Nat /\ m - 1 \notin Missing /\ (m - 1) + 1 = m
    BY <2>1, <2>2
  <2>4. PICK f : IsIter(f, base, seq, m - 1)
    BY <2>3
  <2>5. \E g : IsIter(g, base, seq, (m - 1) + 1)
    BY <1>1, <2>3, <2>4
  <2> QED BY <2>2, <2>3, <2>5
<1> QED BY <1>3

(* The steps it makes on the intervals that begin with 1. *)
Steps(f, base, seq, n) ==
  /\ f[1 .. 0] = base
  /\ \A k \in 0 .. n - 1 : f[1 .. k + 1] = Op(f[1 .. k], seq[k + 1])

LEMMA IterSteps ==
  ASSUME NEW base, NEW seq, NEW n \in Nat, NEW f, IsIter(f, base, seq, n)
  PROVE  Steps(f, base, seq, n)
<1>1. \A T \in SUBSET (1 .. n) : f[T] = Step(f, base, seq, T)
  BY Zenon DEF IsIter
<1>2. 1 .. 0 = {} /\ 1 .. 0 \in SUBSET (1 .. n)
  OBVIOUS
<1>3. ASSUME NEW k \in 0 .. n - 1
      PROVE  f[1 .. k + 1] = Op(f[1 .. k], seq[k + 1])
  <2>1. 1 .. k + 1 \in SUBSET (1 .. n) /\ 1 .. k + 1 # {} /\ k \in Nat
    OBVIOUS
  <2>2. f[1 .. k + 1] = Step(f, base, seq, 1 .. k + 1)
    BY <1>1, <2>1, Zenon
  <2>3. Max(1 .. k + 1) = k + 1 /\ (1 .. k + 1) \ {k + 1} = 1 .. k
    BY <2>1, MaxOfInterval, Zenon
  <2> QED BY <2>1, <2>2, <2>3, Zenon DEF Step
<1>4. f[1 .. 0] = base
  BY <1>1, <1>2, Zenon DEF Step
<1> QED BY <1>3, <1>4 DEF Steps

LEMMA IterIsIter ==
  ASSUME NEW base, NEW seq, NEW n \in Nat
  PROVE  IsIter(Iter(base, seq, n), base, seq, n)
BY IterExists, Zenon DEF Iter

LEMMA FoldLeftIsIter ==
  ASSUME NEW S, NEW seq \in Seq(S), NEW base
  PROVE  FoldLeft(Op, base, seq) = Iter(base, seq, Len(seq))[1 .. Len(seq)]
<1>1. DOMAIN seq = 1 .. Len(seq)
  OBVIOUS
<1> QED BY <1>1, Zenon DEF FoldLeft, MapThenFoldSet, Iter, IsIter, Step

Fold(base, seq) == FoldLeft(Op, base, seq)

LEMMA Empty ==
  ASSUME NEW base
  PROVE  Fold(base, <<>>) = base
<1>1. <<>> \in Seq({}) /\ Len(<<>>) = 0
  OBVIOUS
<1>2. FoldLeft(Op, base, <<>>) = Iter(base, <<>>, 0)[1 .. 0]
  BY <1>1, FoldLeftIsIter, Zenon
<1>3. Steps(Iter(base, <<>>, 0), base, <<>>, 0)
  BY IterIsIter, IterSteps, 0 \in Nat, Zenon
<1> QED BY <1>2, <1>3 DEF Steps, Fold

(* The elements of the sequence before the last one make the same steps. *)
LEMMA Unroll ==
  ASSUME NEW S, NEW seq \in Seq(S), NEW x \in S, NEW base
  PROVE  Fold(base, Append(seq, x)) = Op(Fold(base, seq), x)
<1>n. PICK n \in Nat, t \in {Append(seq, x)} : n = Len(seq) /\ t = Append(seq, x)
  OBVIOUS
<1>t. /\ t \in Seq(S) /\ Len(t) = n + 1 /\ t[n + 1] = x
      /\ \A k \in 0 .. n - 1 : t[k + 1] = seq[k + 1]
  BY <1>n
<1>f. PICK f \in {Iter(base, seq, n)}, g \in {Iter(base, t, n + 1)} :
        f = Iter(base, seq, n) /\ g = Iter(base, t, n + 1)
  OBVIOUS
<1>1. Steps(f, base, seq, n)
  BY <1>f, IterIsIter, IterSteps, Zenon
<1>2. Steps(g, base, t, n + 1)
  BY <1>f, IterIsIter, IterSteps, n + 1 \in Nat, Zenon
<1> DEFINE Wrong == {k \in 0 .. n : f[1 .. k] # g[1 .. k]}
<1>3. Wrong = {}
  <2> SUFFICES ASSUME Wrong # {} PROVE FALSE
    OBVIOUS
  <2>1. PICK k \in Wrong : \A y \in Wrong : k <= y
    BY LeastElement, Wrong \in SUBSET Nat
  <2>2. k \in 0 .. n /\ k # 0 /\ f[1 .. k] # g[1 .. k]
    BY <1>1, <1>2, <2>1 DEF Steps
  <2>3. PICK j \in 0 .. n - 1 : j + 1 = k
    BY <2>2, k - 1 \in 0 .. n - 1, (k - 1) + 1 = k
  <2>4. f[1 .. j] = g[1 .. j]
    BY <2>1, <2>3
  <2>5. f[1 .. j + 1] = Op(f[1 .. j], seq[j + 1])
    BY <1>1, Zenon DEF Steps
  <2>6. g[1 .. j + 1] = Op(g[1 .. j], t[j + 1])
    <3>1. j \in 0 .. (n + 1) - 1
      OBVIOUS
    <3> QED BY <1>2, <3>1, Zenon DEF Steps
  <2>7. t[j + 1] = seq[j + 1]
    BY <1>t
  <2> QED BY <2>2, <2>3, <2>4, <2>5, <2>6, <2>7, Zenon
<1>4. f[1 .. n] = g[1 .. n]
  BY <1>3
<1>5. g[1 .. n + 1] = Op(g[1 .. n], t[n + 1])
  <2>1. n \in 0 .. (n + 1) - 1
    OBVIOUS
  <2> QED BY <1>2, <2>1, Zenon DEF Steps
<1>6. FoldLeft(Op, base, seq) = f[1 .. n]
  BY <1>f, <1>n, FoldLeftIsIter, Zenon
<1>7. FoldLeft(Op, base, t) = g[1 .. n + 1]
  BY <1>f, <1>t, FoldLeftIsIter, Zenon
<1> QED BY <1>4, <1>5, <1>6, <1>7, <1>t, <1>n, Zenon DEF Fold

-----------------------------------------------------------------------------
(***************************************************************************)
(* A function that goes on at g[u] until it is in D, and is r there.  Its  *)
(* value is r at the end of the walk, and anything where there is no end.  *)
(***************************************************************************)
IsWalk(p, n, u, T, D, g) ==
  /\ p \in [0 .. n -> T] /\ p[0] = u
  /\ \A k \in 0 .. n - 1 : p[k] \notin D /\ p[k + 1] = g[p[k]]

Ends(u, T, D, g) ==
  {v \in D : \E n \in Nat : \E p \in [0 .. n -> T] : IsWalk(p, n, u, T, D, g) /\ p[n] = v}

LEMMA EndIsHere ==
  ASSUME NEW T, NEW D, NEW g, NEW u \in T, u \in D
  PROVE  Ends(u, T, D, g) = {u}
<1>1. ASSUME NEW v \in Ends(u, T, D, g) PROVE v = u
  <2>1. PICK n \in Nat : \E p \in [0 .. n -> T] : IsWalk(p, n, u, T, D, g) /\ p[n] = v
    BY DEF Ends
  <2>2. PICK p \in [0 .. n -> T] : IsWalk(p, n, u, T, D, g) /\ p[n] = v
    BY <2>1
  <2>3. ~ (0 \in 0 .. n - 1)
    BY <2>2 DEF IsWalk
  <2>4. n = 0
    BY <2>3
  <2> QED BY <2>2, <2>4 DEF IsWalk
<1>2. u \in Ends(u, T, D, g)
  <2> DEFINE p == [k \in 0 .. 0 |-> u]
  <2>1. IsWalk(p, 0, u, T, D, g) /\ p[0] = u /\ p \in [0 .. 0 -> T]
    BY DEF IsWalk
  <2> QED BY <2>1, Zenon, 0 \in Nat DEF Ends
<1> QED BY <1>1, <1>2

LEMMA EndIsBeyond ==
  ASSUME NEW T, NEW D, NEW g, NEW u \in T, u \notin D, g[u] \in T
  PROVE  Ends(u, T, D, g) = Ends(g[u], T, D, g)
<1>1. ASSUME NEW v \in Ends(u, T, D, g) PROVE v \in Ends(g[u], T, D, g)
  <2>1. PICK n \in Nat : \E p \in [0 .. n -> T] : IsWalk(p, n, u, T, D, g) /\ p[n] = v
    BY DEF Ends
  <2>2. PICK p \in [0 .. n -> T] : IsWalk(p, n, u, T, D, g) /\ p[n] = v
    BY <2>1
  <2>3. v \in D
    BY DEF Ends
  <2>4. n # 0
    BY <2>2, <2>3 DEF IsWalk
  <2> DEFINE q == [k \in 0 .. n - 1 |-> p[k + 1]]
  <2>5. n - 1 \in Nat /\ q \in [0 .. n - 1 -> T] /\ q[n - 1] = v
    BY <2>2, <2>4
  <2>6. q[0] = g[u]
    BY <2>2, <2>4 DEF IsWalk
  <2>7. ASSUME NEW k \in 0 .. (n - 1) - 1
        PROVE  q[k] \notin D /\ q[k + 1] = g[q[k]]
    <3>1. k + 1 \in 0 .. n - 1
      OBVIOUS
    <3>2. p[k + 1] \notin D /\ p[(k + 1) + 1] = g[p[k + 1]]
      BY <2>2, <3>1 DEF IsWalk
    <3> QED BY <3>1, <3>2
  <2>8. IsWalk(q, n - 1, g[u], T, D, g)
    BY <2>5, <2>6, <2>7 DEF IsWalk
  <2> QED BY <2>3, <2>5, <2>8, Zenon DEF Ends
<1>2. ASSUME NEW v \in Ends(g[u], T, D, g) PROVE v \in Ends(u, T, D, g)
  <2>1. PICK n \in Nat : \E p \in [0 .. n -> T] : IsWalk(p, n, g[u], T, D, g) /\ p[n] = v
    BY DEF Ends
  <2>2. PICK p \in [0 .. n -> T] : IsWalk(p, n, g[u], T, D, g) /\ p[n] = v
    BY <2>1
  <2>3. v \in D
    BY DEF Ends
  <2> DEFINE q == [k \in 0 .. n + 1 |-> IF k = 0 THEN u ELSE p[k - 1]]
  <2>5. n + 1 \in Nat /\ q \in [0 .. n + 1 -> T] /\ q[n + 1] = v
    BY <2>2
  <2>6. q[0] = u
    OBVIOUS
  <2>7. ASSUME NEW k \in 0 .. (n + 1) - 1
        PROVE  q[k] \notin D /\ q[k + 1] = g[q[k]]
    <3>1. CASE k = 0
      BY <3>1, <2>2 DEF IsWalk
    <3>2. CASE k # 0
      <4>1. k - 1 \in 0 .. n - 1 /\ q[k] = p[k - 1] /\ q[k + 1] = p[(k - 1) + 1]
        BY <3>2
      <4> QED BY <2>2, <4>1 DEF IsWalk
    <3> QED BY <3>1, <3>2
  <2>8. IsWalk(q, n + 1, u, T, D, g)
    BY <2>5, <2>6, <2>7 DEF IsWalk
  <2> QED BY <2>3, <2>5, <2>8, Zenon DEF Ends
<1> QED BY <1>1, <1>2

IsTailRecursive(f, T, D, r, g) == f = [u \in T |-> IF u \in D THEN r[u] ELSE f[g[u]]]

LEMMA TailRecursion ==
  ASSUME NEW T, NEW D, NEW r, NEW g, \A u \in T : u \notin D => g[u] \in T
  PROVE  \E f : IsTailRecursive(f, T, D, r, g)
<1> DEFINE End(u) == CHOOSE v : v \in Ends(u, T, D, g)
           f == [u \in T |-> r[End(u)]]
<1>0. \A u \in T : f[u] = r[End(u)]
  BY Zenon
<1>1. ASSUME NEW u \in T PROVE f[u] = IF u \in D THEN r[u] ELSE f[g[u]]
  <2>1. CASE u \in D
    <3>1. End(u) = u
      BY <2>1, EndIsHere
    <3> HIDE DEF f, End
    <3> QED BY <1>0, <2>1, <3>1, Zenon
  <2>2. CASE u \notin D
    <3>1. g[u] \in T /\ Ends(u, T, D, g) = Ends(g[u], T, D, g)
      BY <2>2, EndIsBeyond
    <3>2. End(u) = End(g[u])
      BY <3>1, Zenon
    <3> HIDE DEF f, End
    <3> QED BY <1>0, <2>2, <3>1, <3>2, Zenon
  <2> QED BY <2>1, <2>2
<1>2. f = [u \in T |-> IF u \in D THEN r[u] ELSE f[g[u]]]
  <2>1. f = [u \in T |-> f[u]]
    OBVIOUS
  <2> HIDE DEF f
  <2> QED BY <1>1, <2>1, Zenon
<1> QED BY <1>2, Zenon DEF IsTailRecursive

-----------------------------------------------------------------------------
(* A function that puts something to what it is at g[u], which is nearer   *)
(* to the end by the measure m.                                            *)
Body(f, u, D, r, g) == IF u \in D THEN r[u] ELSE Op(u, f[g[u]])

IsUpTo(f, k, T, D, r, g, m) == \A u \in T : m[u] <= k => f[u] = Body(f, u, D, r, g)

Nearer(T, D, g, m) ==
  m \in [T -> Nat] /\ \A u \in T : u \notin D => g[u] \in T /\ m[g[u]] < m[u]

LEMMA UpToNext ==
  ASSUME NEW T, NEW D, NEW r, NEW g, NEW m, Nearer(T, D, g, m),
         NEW k \in Nat, NEW f, \A u \in T : m[u] < k => f[u] = Body(f, u, D, r, g)
  PROVE  \E h : IsUpTo(h, k, T, D, r, g, m)
<1> DEFINE h == [u \in T |-> IF m[u] < k THEN f[u] ELSE Body(f, u, D, r, g)]
<1>1. ASSUME NEW u \in T, m[u] <= k PROVE h[u] = Body(h, u, D, r, g)
  <2>1. h[u] = Body(f, u, D, r, g)
    BY Zenon
  <2>2. CASE u \in D
    BY <2>1, <2>2, Zenon DEF Body
  <2>3. CASE u \notin D
    <3>1. g[u] \in T /\ m[g[u]] < k
      <4>1. g[u] \in T /\ m[g[u]] < m[u] /\ m[u] \in Nat /\ m[g[u]] \in Nat
        BY <2>3 DEF Nearer
      <4> QED BY <4>1, <1>1
    <3>2. h[g[u]] = f[g[u]]
      BY <3>1, Zenon
    <3> QED BY <2>1, <2>3, <3>2, Zenon DEF Body
  <2> QED BY <2>2, <2>3
<1>2. IsUpTo(h, k, T, D, r, g, m)
  BY <1>1, Zenon DEF IsUpTo
<1> QED BY <1>2, Zenon

LEMMA UpToExists ==
  ASSUME NEW T, NEW D, NEW r, NEW g, NEW m, Nearer(T, D, g, m), NEW k \in Nat
  PROVE  \E h : IsUpTo(h, k, T, D, r, g, m)
<1> DEFINE Missing == {j \in Nat : ~ \E h : IsUpTo(h, j, T, D, r, g, m)}
<1>m. \A u \in T : m[u] \in Nat
  BY DEF Nearer
<1>1. Missing = {}
  <2> SUFFICES ASSUME Missing # {} PROVE FALSE
    OBVIOUS
  <2>1. PICK j \in Missing : \A x \in Missing : j <= x
    BY LeastElement
  <2>2. CASE j = 0
    <3>1. \A u \in T : m[u] < j => r[u] = Body(r, u, D, r, g)
      BY <1>m, <2>2
    <3> QED BY <3>1, <2>1, UpToNext
  <2>3. CASE j # 0
    <3>1. j - 1 \in Nat /\ j - 1 \notin Missing
      BY <2>1, <2>3
    <3>2. PICK f : IsUpTo(f, j - 1, T, D, r, g, m)
      BY <3>1
    <3>3. \A u \in T : m[u] < j => f[u] = Body(f, u, D, r, g)
      BY <3>1, <3>2, <1>m DEF IsUpTo
    <3> QED BY <3>3, <2>1, UpToNext
  <2> QED BY <2>2, <2>3
<1> QED BY <1>1

LEMMA UpToAgree ==
  ASSUME NEW T, NEW D, NEW r, NEW g, NEW m, Nearer(T, D, g, m), NEW k \in Nat, NEW l \in Nat,
         NEW e, IsUpTo(e, k, T, D, r, g, m), NEW f, IsUpTo(f, l, T, D, r, g, m),
         NEW u \in T, m[u] <= k, m[u] <= l
  PROVE  e[u] = f[u]
<1> DEFINE Apart == {j \in Nat : \E v \in T : m[v] = j /\ j <= k /\ j <= l /\ e[v] # f[v]}
<1>1. Apart = {}
  <2> SUFFICES ASSUME Apart # {} PROVE FALSE
    OBVIOUS
  <2>1. PICK j \in Apart : \A x \in Apart : j <= x
    BY LeastElement
  <2>2. PICK v \in T : m[v] = j /\ j <= k /\ j <= l /\ e[v] # f[v]
    BY <2>1
  <2>3. e[v] = Body(e, v, D, r, g) /\ f[v] = Body(f, v, D, r, g)
    BY <2>2 DEF IsUpTo
  <2>4. v \notin D
    BY <2>2, <2>3 DEF Body
  <2>5. g[v] \in T /\ m[g[v]] \in Nat /\ m[g[v]] < j
    BY <2>2, <2>4 DEF Nearer
  <2>6. m[g[v]] <= k /\ m[g[v]] <= l /\ ~ (j <= m[g[v]])
    BY <2>2, <2>5
  <2>7. e[g[v]] = f[g[v]]
    BY <2>1, <2>5, <2>6
  <2> QED BY <2>2, <2>3, <2>4, <2>7, Zenon DEF Body
<1>2. m[u] \in Nat
  BY DEF Nearer
<1> QED BY <1>1, <1>2

IsRecursive(f, T, D, r, g) == f = [u \in T |-> IF u \in D THEN r[u] ELSE Op(u, f[g[u]])]

LEMMA MeasuredRecursion ==
  ASSUME NEW T, NEW D, NEW r, NEW g, NEW m, Nearer(T, D, g, m)
  PROVE  \E f : IsRecursive(f, T, D, r, g)
<1> DEFINE UpTo(k) == CHOOSE h : IsUpTo(h, k, T, D, r, g, m)
           f == [u \in T |-> UpTo(m[u])[u]]
<1>1. \A k \in Nat : IsUpTo(UpTo(k), k, T, D, r, g, m)
  BY UpToExists, Zenon
<1>2. ASSUME NEW u \in T
      PROVE  f[u] = IF u \in D THEN r[u] ELSE Op(u, f[g[u]])
  <2>1. m[u] \in Nat
    BY DEF Nearer
  <2>2. f[u] = Body(UpTo(m[u]), u, D, r, g)
    <3>1. IsUpTo(UpTo(m[u]), m[u], T, D, r, g, m) /\ m[u] <= m[u]
      BY <1>1, <2>1
    <3> HIDE DEF UpTo
    <3>2. UpTo(m[u])[u] = Body(UpTo(m[u]), u, D, r, g)
      BY <3>1, Zenon DEF IsUpTo
    <3> QED BY <3>2, Zenon
  <2>3. CASE u \in D
    BY <2>2, <2>3, Zenon DEF Body
  <2>4. CASE u \notin D
    <3>1. g[u] \in T /\ m[g[u]] \in Nat /\ m[g[u]] < m[u]
      BY <2>4 DEF Nearer
    <3>2. /\ IsUpTo(UpTo(m[u]), m[u], T, D, r, g, m)
          /\ IsUpTo(UpTo(m[g[u]]), m[g[u]], T, D, r, g, m)
      BY <1>1, <2>1, <3>1, Zenon
    <3>3. m[g[u]] <= m[u] /\ m[g[u]] <= m[g[u]]
      BY <2>1, <3>1
    <3> HIDE DEF UpTo
    <3>4. UpTo(m[u])[g[u]] = UpTo(m[g[u]])[g[u]]
      <4>1. PICK e \in {UpTo(m[u])}, h \in {UpTo(m[g[u]])}, j \in {m[u]}, l \in {m[g[u]]}, v \in {g[u]} :
              e = UpTo(m[u]) /\ h = UpTo(m[g[u]]) /\ j = m[u] /\ l = m[g[u]] /\ v = g[u]
        OBVIOUS
      <4>2. /\ IsUpTo(e, j, T, D, r, g, m) /\ IsUpTo(h, l, T, D, r, g, m)
            /\ j \in Nat /\ l \in Nat /\ v \in T /\ m[v] <= j /\ m[v] <= l
        BY <2>1, <3>1, <3>2, <3>3, <4>1, Zenon
      <4>3. e[v] = h[v]
        BY <4>2, UpToAgree
      <4> QED BY <4>1, <4>3, Zenon
    <3>5. f[g[u]] = UpTo(m[g[u]])[g[u]]
      BY <3>1, Zenon
    <3> QED BY <2>2, <2>4, <3>4, <3>5, Zenon DEF Body
  <2> QED BY <2>3, <2>4
<1>3. f = [u \in T |-> IF u \in D THEN r[u] ELSE Op(u, f[g[u]])]
  <2> HIDE DEF UpTo
  <2>1. f = [u \in T |-> f[u]]
    OBVIOUS
  <2> HIDE DEF f
  <2> QED BY <1>2, <2>1, Zenon
<1> QED BY <1>3, Zenon DEF IsRecursive

=============================================================================
