----------------------------- MODULE Recursion -----------------------------
(***************************************************************************)
(* Induction over the naturals for sets, and functions on the naturals     *)
(* that are defined by recursion: f[n] is Def(p, f, n), for a parameter p. *)
(***************************************************************************)
EXTENDS Naturals, WellFoundedInduction, TLAPS

CONSTANT Def(_, _, _)

\* The value at n depends on smaller arguments only.
LooksBack(p) ==
  \A n \in Nat : \A g, h :
    (\A i \in 0..(n - 1) : g[i] = h[i]) => Def(p, g, n) = Def(p, h, n)

Less == {p \in Nat \X Nat : p[1] < p[2]}

\* Induction, for a set of naturals.
LEMMA Induct ==
  ASSUME NEW S \in SUBSET Nat, 0 \in S, \A n \in S : n + 1 \in S
  PROVE  S = Nat
<1> DEFINE T == Nat \ S
<1> SUFFICES ASSUME T # {} PROVE FALSE
  OBVIOUS
<1>1. IsWellFoundedOn(Less, Nat)
  BY NatLessThanWellFounded DEF OpToRel, Less
<1>2. PICK x \in T : \A y \in T : ~(<<y, x>> \in Less)
  <2> HIDE DEF T
  <2> QED BY <1>1, WFMin, T \subseteq Nat DEF T
<1>3. x # 0 /\ x - 1 \in Nat /\ (x - 1) + 1 = x
  OBVIOUS
<1>4. x - 1 \in T /\ <<x - 1, x>> \in Less
  BY <1>3 DEF Less
<1> QED BY <1>2, <1>4

\* Approximations of a function, each to its own argument, which agree where
\* they agree before.
LEMMA Approximations ==
  ASSUME NEW A,
         \A m, n \in Nat : \A i \in 0..m :
           i <= n /\ (\A j \in 0..(i - 1) : A[m][j] = A[n][j]) => A[m][i] = A[n][i]
  PROVE  \A n \in Nat : \A i \in 0..n : A[i][i] = A[n][i]
<1> SUFFICES ASSUME NEW n \in Nat, NEW i \in 0..n PROVE A[i][i] = A[n][i]
  OBVIOUS
<1> DEFINE S == {k \in Nat : \A j \in 0..k : j <= i => A[i][j] = A[n][j]}
<1>1. 0 \in S
  OBVIOUS
<1>2. ASSUME NEW k \in S PROVE k + 1 \in S
  <2>1. \A j \in 0..k : j <= i => A[i][j] = A[n][j]
    OBVIOUS
  <2>2. k + 1 <= i => A[i][k + 1] = A[n][k + 1]
    BY <2>1
  <2> QED BY <2>1, <2>2
<1>3. S = Nat
  <2> HIDE DEF S
  <2> QED BY <1>1, <1>2, Induct DEF S
<1>4. i \in S
  <2> HIDE DEF S
  <2> QED BY <1>3
<1> QED BY <1>4

\* A recursive definition that looks back defines a function.
LEMMA Exists ==
  ASSUME NEW p, LooksBack(p)
  PROVE  \E f : f = [n \in Nat |-> Def(p, f, n)]
<1> DEFINE D(f, n) == Def(p, f, n)
<1>1. \A n \in Nat : \A g, h : (\A i \in 0..(n - 1) : g[i] = h[i]) => D(g, n) = D(h, n)
  BY DEF LooksBack
<1> HIDE DEF D
<1> DEFINE P(f, n) == \A i \in 0..n : f[i] = D(f, i)
           S == {n \in Nat : \E f : P(f, n)}
<1>2. 0 \in S
  <2> DEFINE f == [i \in 0..0 |-> D(<<>>, 0)]
  <2>1. P(f, 0)
    BY <1>1
  <2> HIDE DEF P, f
  <2> QED BY <2>1
<1>3. ASSUME NEW n \in S PROVE n + 1 \in S
  <2>1. PICK f : P(f, n)
    OBVIOUS
  <2> DEFINE g == [i \in 0..(n + 1) |-> IF i = n + 1 THEN D(f, n + 1) ELSE f[i]]
  <2>2. ASSUME NEW i \in 0..(n + 1) PROVE D(g, i) = D(f, i)
    BY <1>1
  <2>3. P(g, n + 1)
    BY <2>1, <2>2
  <2> HIDE DEF P, g
  <2> QED BY <2>3
<1>4. \A n \in Nat : \E f : P(f, n)
  <2> HIDE DEF S
  <2>1. S = Nat
    BY <1>2, <1>3, Induct DEF S
  <2> QED BY <2>1 DEF S
<1> DEFINE A == [n \in Nat |-> CHOOSE f : P(f, n)]
           F == [n \in Nat |-> A[n][n]]
<1>5. ASSUME NEW n \in Nat PROVE P(A[n], n)
  <2> HIDE DEF P
  <2> QED BY <1>4
<1>6. ASSUME NEW n \in Nat, NEW i \in 0..n PROVE A[n][i] = D(A[n], i)
  BY <1>5
<1> HIDE DEF P, A
<1>7. \A n \in Nat : \A i \in 0..n : A[i][i] = A[n][i]
  <2> SUFFICES \A m, n \in Nat : \A i \in 0..m :
                 i <= n /\ (\A j \in 0..(i - 1) : A[m][j] = A[n][j]) => A[m][i] = A[n][i]
    BY Approximations
  <2> SUFFICES ASSUME NEW m \in Nat, NEW n \in Nat, NEW i \in 0..m, i <= n,
                      \A j \in 0..(i - 1) : A[m][j] = A[n][j]
               PROVE  A[m][i] = A[n][i]
    OBVIOUS
  <2>1. D(A[m], i) = D(A[n], i)
    BY <1>1
  <2> QED BY <2>1, <1>6
<1>8. ASSUME NEW n \in Nat PROVE F[n] = D(F, n)
  <2>1. D(F, n) = D(A[n], n)
    BY <1>1, <1>7
  <2> QED BY <2>1, <1>6
<1>9. F = [n \in Nat |-> D(F, n)]
  BY <1>8
<1> HIDE DEF F
<1> QED BY <1>9 DEF D
=============================================================================
