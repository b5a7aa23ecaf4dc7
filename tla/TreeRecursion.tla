---------------------------- MODULE TreeRecursion ----------------------------
(***************************************************************************)
(* Recursion and induction over a set of trees.  A recursive function of   *)
(* TLA+ is whatever satisfies its equation, if anything does; something    *)
(* does when the value at a tree depends on those at trees less deep only. *)
(*                                                                         *)
(* The module is instantiated with the function that is defined: D is the  *)
(* depth of the members of S, Step(f, x) the value at x when f has the     *)
(* values at the trees that are less deep.                                 *)
(***************************************************************************)
EXTENDS Naturals, TLAPS, WellFoundedInduction

CONSTANTS S, D, Step(_, _)

Less == {p \in Nat \X Nat : p[1] < p[2]}

\* f satisfies the equation at every tree less deep than n.
Good(f, n) == \A x \in S : D[x] < n => f[x] = Step(f, x)

\* The value at x depends on values at trees less deep only.
IsLocal ==
  \A x \in S : \A f, g :
    (\A y \in S : D[y] < D[x] => f[y] = g[y]) => Step(f, x) = Step(g, x)

-----------------------------------------------------------------------------
(* The natural numbers are well-founded.                                   *)
LEMMA LessIsWellFounded == IsWellFoundedOn(Less, Nat)
BY NatLessThanWellFounded DEF OpToRel, Less

(* A set of natural numbers that is not empty has a least element.        *)
LEMMA LeastExists ==
  ASSUME NEW T, T \subseteq Nat, T # {}
  PROVE  \E m \in T : \A k \in T : m <= k
<1>1. PICK m \in T : \A k \in T : ~(<<k, m>> \in Less)
  BY LessIsWellFounded, WFMin
<1>2. ASSUME NEW k \in T PROVE m <= k
  <2>1. <<k, m>> \in Nat \X Nat
    OBVIOUS
  <2>2. ~(k < m)
    BY <1>1, <2>1 DEF Less
  <2>. QED BY <2>2
<1>. QED BY <1>2

(* What holds at a tree when it holds at all that are less deep, holds     *)
(* at all: T is the set of trees at which it holds.                        *)
THEOREM Induction ==
  ASSUME D \in [S -> Nat], NEW T,
         \A x \in S : (\A y \in S : D[y] < D[x] => y \in T) => x \in T
  PROVE  S \subseteq T
<1>. DEFINE Depths == {n \in Nat : \E x \in S : D[x] = n /\ x \notin T}
<1>1. SUFFICES ASSUME NEW x \in S, x \notin T PROVE FALSE
  OBVIOUS
<1>2. D[x] \in Depths
  BY <1>1
<1>3. PICK m \in Depths : \A n \in Depths : m <= n
  BY <1>2, LeastExists
<1>4. PICK y \in S : D[y] = m /\ y \notin T
  BY <1>3
<1>5. ASSUME NEW z \in S, D[z] < D[y] PROVE z \in T
  <2>1. SUFFICES ASSUME z \notin T PROVE FALSE
    OBVIOUS
  <2>2. D[z] \in Depths
    BY <2>1
  <2>. QED BY <1>3, <1>4, <1>5, <2>2
<1>. QED BY <1>4, <1>5

(* A recursive definition over trees has a solution: a function that       *)
(* satisfies it below any depth, and from those one that satisfies it      *)
(* everywhere, as two of them agree wherever both satisfy it.              *)
THEOREM Exists ==
  ASSUME D \in [S -> Nat], IsLocal
  PROVE  \E f : f = [x \in S |-> Step(f, x)]
<1>1. ASSUME NEW n \in Nat PROVE \E f : Good(f, n)
  <2>. DEFINE T == {k \in Nat : ~ \E f : Good(f, k)}
  <2>1. SUFFICES ASSUME T # {} PROVE FALSE
    OBVIOUS
  <2>2. PICK m \in T : \A k \in T : m <= k
    BY <2>1, LeastExists
  <2>3. m # 0
    <3>1. Good(<<>>, 0)
      BY DEF Good
    <3>. QED BY <3>1
  <2>4. m - 1 \in Nat /\ ~(m - 1 \in T)
    BY <2>2, <2>3
  <2>5. PICK f : Good(f, m - 1)
    BY <2>4
  <2>. DEFINE g == [x \in S |-> Step(f, x)]
  <2>6. ASSUME NEW x \in S, D[x] < m - 1 PROVE g[x] = f[x]
    BY <2>5, <2>6 DEF Good
  <2>7. ASSUME NEW x \in S, D[x] < m PROVE g[x] = Step(g, x)
    <3>1. ASSUME NEW y \in S, D[y] < D[x] PROVE f[y] = g[y]
      <4>1. D[y] < m - 1
        BY <2>7, <3>1
      <4>. QED BY <4>1, <2>6
    <3>2. Step(f, x) = Step(g, x)
      BY <3>1 DEF IsLocal
    <3>. QED BY <3>2
  <2>8. Good(g, m)
    BY <2>7 DEF Good
  <2>. QED BY <2>8
<1>. DEFINE F == [n \in Nat |-> CHOOSE f : Good(f, n)]
<1>2. ASSUME NEW n \in Nat PROVE Good(F[n], n)
  BY <1>1
<1>3. ASSUME NEW n \in Nat, NEW k \in Nat, NEW x \in S, D[x] < n, D[x] < k
      PROVE  F[n][x] = F[k][x]
  <2>. DEFINE T == {d \in Nat : \E y \in S : D[y] = d /\ d < n /\ d < k /\ F[n][y] # F[k][y]}
  <2>1. SUFFICES ASSUME T # {} PROVE FALSE
    BY <1>3
  <2>2. PICK m \in T : \A d \in T : m <= d
    BY <2>1, LeastExists
  <2>3. PICK y \in S : D[y] = m /\ m < n /\ m < k /\ F[n][y] # F[k][y]
    BY <2>2
  <2>4. ASSUME NEW z \in S, D[z] < D[y] PROVE F[n][z] = F[k][z]
    <3>1. SUFFICES ASSUME F[n][z] # F[k][z] PROVE FALSE
      OBVIOUS
    <3>2. D[z] \in Nat /\ D[z] < n /\ D[z] < k
      BY <2>3, <2>4
    <3>3. D[z] \in T
      BY <3>1, <3>2
    <3>. QED BY <2>2, <2>3, <2>4, <3>2, <3>3
  <2>5. Step(F[n], y) = Step(F[k], y)
    BY <2>4 DEF IsLocal
  <2>. QED BY <2>3, <2>5, <1>2 DEF Good
<1>. DEFINE h == [x \in S |-> F[D[x] + 1][x]]
<1>4. ASSUME NEW x \in S PROVE h[x] = Step(h, x)
  <2>1. ASSUME NEW y \in S, D[y] < D[x] PROVE F[D[x] + 1][y] = h[y]
    <3>1. D[x] + 1 \in Nat /\ D[y] + 1 \in Nat /\ D[y] < D[x] + 1 /\ D[y] < D[y] + 1
      BY <2>1
    <3>2. F[D[x] + 1][y] = F[D[y] + 1][y]
      BY <3>1, <1>3
    <3>. QED BY <3>2
  <2>2. Step(F[D[x] + 1], x) = Step(h, x)
    BY <2>1 DEF IsLocal
  <2>. QED BY <2>2, <1>2 DEF Good
<1>. QED BY <1>4

=============================================================================
