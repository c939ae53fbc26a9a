------------------------------- MODULE Induction -------------------------------
(***************************************************************************)
(* Induction over the naturals, stated of sets instead of predicates, so   *)
(* that every use of it is a first-order instance, and what it gives: that *)
(* recursive functions exist, the digits of the length field, the sums of  *)
(* the lengths of a list, what FlattenSeq makes of a list that grows, and  *)
(* buffers that are put together and taken apart.                          *)
(***************************************************************************)
EXTENDS Integers, SequencesExt, SequenceTheorems, WellFoundedInduction, TLAPS

-----------------------------------------------------------------------------
(* Every set of naturals has a least element, every bounded one a greatest.  *)

LEMMA LeastOf ==
  ASSUME NEW T \in SUBSET Nat, T # {}
  PROVE  \E n \in T : \A m \in T : n <= m
<1> DEFINE R == {ss \in Nat \X Nat : ss[1] < ss[2]}
<1>1. IsWellFoundedOn(R, Nat)
  BY NatLessThanWellFounded DEF OpToRel
<1>2. \E n \in T : \A m \in T : <<m, n>> \notin R
  <2> HIDE DEF R
  <2> QED
    BY <1>1, WFMin
<1>3. PICK n \in T : \A m \in T : <<m, n>> \notin R
  BY <1>2
<1>4. \A m \in T : ~(m < n)
  BY <1>3
<1>5. QED
  BY <1>4

LEMMA GreatestOf ==
  ASSUME NEW n \in Nat, NEW T \in SUBSET (0..n), T # {}
  PROVE  \E k \in T : \A j \in T : j <= k
<1> DEFINE U == {n - k : k \in T}
<1>1. U \in SUBSET Nat /\ U # {}
  <2>1. \A k \in T : n - k \in Nat
    OBVIOUS
  <2>2. QED
    BY <2>1
<1>2. PICK u \in U : \A v \in U : u <= v
  <2> HIDE DEF U
  <2> QED
    BY <1>1, LeastOf
<1>3. PICK k \in T : u = n - k
  OBVIOUS
<1>4. \A j \in T : n - k <= n - j
  BY <1>2, <1>3
<1>5. QED
  BY <1>4

(* What holds of 0 and is handed on holds of every natural number.           *)
LEMMA NatSet ==
  ASSUME NEW S, 0 \in S, \A n \in Nat : n \in S => n + 1 \in S
  PROVE  Nat \subseteq S
<1> DEFINE T == Nat \ S
<1>1. SUFFICES ASSUME T # {} PROVE FALSE
  OBVIOUS
<1>2. PICK n \in T : \A m \in T : n <= m
  <2>1. T \in SUBSET Nat
    OBVIOUS
  <2> HIDE DEF T
  <2>2. QED
    BY <1>1, <2>1, LeastOf
<1>3. n # 0 /\ n - 1 \in Nat /\ n - 1 \notin T
  BY <1>2
<1>4. QED
  BY <1>3

(* The same when it is handed on by all smaller numbers together.            *)
LEMMA NatSetStrong ==
  ASSUME NEW S, \A n \in Nat : (\A m \in 0..(n - 1) : m \in S) => n \in S
  PROVE  Nat \subseteq S
<1> DEFINE T == Nat \ S
<1>1. SUFFICES ASSUME T # {} PROVE FALSE
  OBVIOUS
<1>2. PICK n \in T : \A m \in T : n <= m
  <2>1. T \in SUBSET Nat
    OBVIOUS
  <2> HIDE DEF T
  <2>2. QED
    BY <1>1, <2>1, LeastOf
<1>3. \A m \in 0..(n - 1) : m \in S
  BY <1>2
<1>4. QED
  BY <1>3

-----------------------------------------------------------------------------
(* Recursion.  A functional G that gives the value at n from the values      *)
(* below n has a fixed point.                                                *)

Local(G, T) ==
  \A g, h \in [Nat -> T], n \in Nat :
    (\A m \in 0..(n - 1) : g[m] = h[m]) => G[<<g, n>>] = G[<<h, n>>]

\* g satisfies the recursion up to n.
SolvesTo(g, G, n) == \A m \in 0..n : g[m] = G[<<g, m>>]

LEMMA SolutionsAgree ==
  ASSUME NEW T, NEW G, Local(G, T), NEW g \in [Nat -> T], NEW h \in [Nat -> T],
         NEW n \in Nat, SolvesTo(g, G, n), SolvesTo(h, G, n)
  PROVE  \A m \in 0..n : g[m] = h[m]
<1> DEFINE S == {m \in Nat : m <= n => g[m] = h[m]}
<1>1. ASSUME NEW m \in Nat, \A k \in 0..(m - 1) : k \in S PROVE m \in S
  <2> SUFFICES ASSUME m <= n PROVE g[m] = h[m]
    OBVIOUS
  <2>1. \A k \in 0..(m - 1) : g[k] = h[k]
    BY <1>1
  <2>2. G[<<g, m>>] = G[<<h, m>>]
    BY <2>1 DEF Local
  <2>3. g[m] = G[<<g, m>>] /\ h[m] = G[<<h, m>>]
    BY DEF SolvesTo
  <2>4. QED
    BY <2>2, <2>3
<1>2. Nat \subseteq S
  <2> HIDE DEF S
  <2> QED
    BY <1>1, NatSetStrong
<1>3. QED
  BY <1>2

LEMMA SolutionsExist ==
  ASSUME NEW T, NEW G \in [[Nat -> T] \X Nat -> T], Local(G, T), NEW n \in Nat, T # {}
  PROVE  \E g \in [Nat -> T] : SolvesTo(g, G, n)
<1> DEFINE S == {k \in Nat : \E g \in [Nat -> T] : SolvesTo(g, G, k)}
<1>1. ASSUME NEW g \in [Nat -> T], NEW k \in Nat, \A m \in 0..(k - 1) : g[m] = G[<<g, m>>]
      PROVE  k \in S
  <2> DEFINE h == [g EXCEPT ![k] = G[<<g, k>>]]
  <2>1. h \in [Nat -> T] /\ h[k] = G[<<g, k>>] /\ \A m \in 0..(k - 1) : h[m] = g[m]
    OBVIOUS
  <2> HIDE DEF h
  <2>2. \A m \in 0..k : G[<<h, m>>] = G[<<g, m>>]
    <3> TAKE m \in 0..k
    <3>1. m \in Nat /\ \A j \in 0..(m - 1) : h[j] = g[j]
      BY <2>1
    <3>2. QED
      BY <2>1, <3>1 DEF Local
  <2>3. \A m \in 0..k : h[m] = G[<<h, m>>]
    <3> TAKE m \in 0..k
    <3>1. CASE m = k
      BY <2>1, <2>2, <3>1
    <3>2. CASE m \in 0..(k - 1)
      BY <1>1, <2>1, <2>2, <3>2
    <3>3. QED
      BY <3>1, <3>2
  <2>4. QED
    BY <2>1, <2>3 DEF SolvesTo
<1>2. 0 \in S
  <2>1. PICK t \in T : TRUE
    OBVIOUS
  <2> DEFINE g == [m \in Nat |-> t]
  <2>2. g \in [Nat -> T] /\ \A m \in 0..(0 - 1) : g[m] = G[<<g, m>>]
    OBVIOUS
  <2> HIDE DEF S, g
  <2>3. QED
    BY <1>1, <2>2
<1>3. ASSUME NEW k \in Nat, k \in S PROVE k + 1 \in S
  <2>1. PICK g \in [Nat -> T] : SolvesTo(g, G, k)
    BY <1>3
  <2>2. \A m \in 0..((k + 1) - 1) : g[m] = G[<<g, m>>]
    BY <2>1 DEF SolvesTo
  <2> HIDE DEF S
  <2>3. QED
    BY <1>1, <2>2
<1>4. Nat \subseteq S
  <2> HIDE DEF S
  <2> QED
    BY <1>2, <1>3, NatSet
<1>5. QED
  BY <1>4

Recursion(G, T) == T # {} /\ G \in [[Nat -> T] \X Nat -> T] /\ Local(G, T)

Solution(f, G, T) == f \in [Nat -> T] /\ \A n \in Nat : f[n] = G[<<f, n>>]

LEMMA RecursiveFunction ==
  ASSUME NEW T, NEW G, Recursion(G, T)
  PROVE  \E f : Solution(f, G, T)
<1> USE DEF Recursion
<1> DEFINE upto(n) == CHOOSE g \in [Nat -> T] : SolvesTo(g, G, n)
           f == [n \in Nat |-> upto(n)[n]]
<1>1. \A n \in Nat : upto(n) \in [Nat -> T] /\ SolvesTo(upto(n), G, n)
  BY SolutionsExist
<1> HIDE DEF upto
<1>0. \A n \in Nat : \A m \in 0..n : upto(n)[m] = G[<<upto(n), m>>]
  BY <1>1 DEF SolvesTo
<1>2. f \in [Nat -> T]
  BY <1>1
<1>3. ASSUME NEW n \in Nat PROVE f[n] = G[<<f, n>>]
  <2>1. \A m \in 0..(n - 1) : f[m] = upto(n)[m]
    <3> TAKE m \in 0..(n - 1)
    <3>1. SolvesTo(upto(n), G, m)
      <4>1. \A j \in 0..m : j \in 0..n
        OBVIOUS
      <4>2. QED
        BY <1>0, <4>1 DEF SolvesTo
    <3>2. upto(m)[m] = upto(n)[m]
      BY <1>1, <3>1, SolutionsAgree
    <3>3. QED
      BY <3>2
  <2>2. upto(n)[n] = G[<<upto(n), n>>]
    <3>1. n \in 0..n
      OBVIOUS
    <3>2. QED
      BY <1>0, <3>1
  <2> HIDE DEF f
  <2>3. G[<<f, n>>] = G[<<upto(n), n>>]
    BY <1>1, <1>2, <2>1 DEF Local
  <2>4. QED
    BY <2>2, <2>3 DEF f
<1>4. QED
  BY <1>2, <1>3 DEF Solution

-----------------------------------------------------------------------------
(* The digits of a length.                                                 *)

LEMMA Digits ==
  ASSUME NEW R \in Nat, R >= 2, NEW n \in Nat
  PROVE  /\ n \div R \in Nat /\ n % R \in 0..(R - 1)
         /\ n = (n \div R) * R + (n % R)
         /\ n >= R => n \div R < n
<1>1. n \div R \in Nat /\ n % R \in 0..(R - 1)
  OBVIOUS
<1>2. n = (n \div R) * R + (n % R)
  OBVIOUS
<1>3. ASSUME n >= R PROVE n \div R < n
  BY <1>1, <1>2, <1>3
<1>4. QED
  BY <1>1, <1>2, <1>3

\* The digits of a length, the lowest first; a digit that another one follows is R more.
Positional(f, R) ==
  f = [length \in Nat |-> IF length < R THEN <<length>>
                          ELSE <<R + (length % R)>> \o f[length \div R]]

\* The recursion of the digits, from a function for the smaller lengths.
EncodeStep(R) ==
  [a \in [Nat -> Seq(Nat)] \X Nat |->
     IF a[2] < R THEN <<a[2]>>
     ELSE <<R + (a[2] % R)>> \o a[1][a[2] \div R]]

LEMMA EncodeStepLocal ==
  ASSUME NEW R \in Nat, R >= 2
  PROVE  /\ EncodeStep(R) \in [[Nat -> Seq(Nat)] \X Nat -> Seq(Nat)]
         /\ Local(EncodeStep(R), Seq(Nat))
<1>1. ASSUME NEW g \in [Nat -> Seq(Nat)], NEW n \in Nat
      PROVE  /\ EncodeStep(R)[<<g, n>>] \in Seq(Nat)
             /\ EncodeStep(R)[<<g, n>>] = IF n < R THEN <<n>>
                                       ELSE <<R + (n % R)>> \o g[n \div R]
  <2>1. EncodeStep(R)[<<g, n>>] = IF n < R THEN <<n>>
                               ELSE <<R + (n % R)>> \o g[n \div R]
    BY DEF EncodeStep
  <2>2. <<R + (n % R)>> \in Seq(Nat) /\ g[n \div R] \in Seq(Nat)
    <3>1. R + (n % R) \in Nat /\ n \div R \in Nat
      BY Digits
    <3>2. QED
      BY <3>1
  <2>3. <<R + (n % R)>> \o g[n \div R] \in Seq(Nat)
    BY <2>2
  <2>4. QED
    BY <2>1, <2>3
<1>2. EncodeStep(R) \in [[Nat -> Seq(Nat)] \X Nat -> Seq(Nat)]
  <2>1. ASSUME NEW a \in [Nat -> Seq(Nat)] \X Nat PROVE EncodeStep(R)[a] \in Seq(Nat)
    <3>1. a = <<a[1], a[2]>> /\ a[1] \in [Nat -> Seq(Nat)] /\ a[2] \in Nat
      OBVIOUS
    <3>2. QED
      BY <1>1, <3>1
  <2>2. QED
    BY <2>1 DEF EncodeStep
<1>3. ASSUME NEW g \in [Nat -> Seq(Nat)], NEW h \in [Nat -> Seq(Nat)], NEW n \in Nat,
             \A m \in 0..(n - 1) : g[m] = h[m]
      PROVE  EncodeStep(R)[<<g, n>>] = EncodeStep(R)[<<h, n>>]
  <2>1. CASE n < R
    BY <1>1, <2>1
  <2>2. CASE n >= R
    <3>0. n \div R \in Nat /\ n \div R < n
      BY ONLY R \in Nat, R >= 2, n \in Nat, <2>2, Digits
    <3>1. n \div R \in 0..(n - 1)
      BY <3>0
    <3>2. g[n \div R] = h[n \div R]
      BY <1>3, <3>1
    <3>3. ~(n < R)
      BY <2>2
    <3>4. QED
      BY <1>1, <3>2, <3>3
  <2>3. QED
    BY <2>1, <2>2
<1>4. QED
  BY <1>2, <1>3 DEF Local

LEMMA PositionalExists ==
  ASSUME NEW R \in Nat, R >= 2
  PROVE  \E f : Positional(f, R)
<1>1. PICK f \in [Nat -> Seq(Nat)] : \A n \in Nat : f[n] = EncodeStep(R)[<<f, n>>]
  <2>1. Seq(Nat) # {}
    <3>1. <<>> \in Seq(Nat)
      OBVIOUS
    <3>2. QED
      BY <3>1
  <2>2. Recursion(EncodeStep(R), Seq(Nat))
    BY <2>1, EncodeStepLocal DEF Recursion
  <2>3. \E f : Solution(f, EncodeStep(R), Seq(Nat))
    BY <2>2, RecursiveFunction
  <2>4. QED
    BY <2>3 DEF Solution
<1>2. Positional(f, R)
  BY <1>1 DEF EncodeStep, Positional
<1>3. QED
  BY <1>2

(* A function for the digits is what its recursion says, for every length.   *)
LEMMA PositionalDigits ==
  ASSUME NEW R \in Nat, R >= 2, NEW e, Positional(e, R)
  PROVE  /\ e \in [Nat -> Seq(Nat)]
         /\ \A n \in Nat : n < R => e[n] = <<n>>
         /\ \A n \in Nat : n >= R => e[n] = <<R + (n % R)>> \o e[n \div R]
<1>1. ASSUME NEW n \in Nat
      PROVE  /\ n < R => e[n] = <<n>>
             /\ n >= R => e[n] =
                  <<R + (n % R)>> \o e[n \div R]
  <2>1. e[n] =
          IF n < R THEN <<n>>
          ELSE <<R + (n % R)>> \o e[n \div R]
    BY Zenon DEF Positional
  <2>2. n >= R <=> ~(n < R)
    OBVIOUS
  <2>3. QED
    BY ONLY <2>1, <2>2
<1>2. e \in [Nat -> Seq(Nat)]
  <2> DEFINE S == {n \in Nat : e[n] \in Seq(Nat)}
  <2>1. ASSUME NEW n \in Nat, \A m \in 0..(n - 1) : m \in S PROVE n \in S
    <3>1. CASE n < R
      <4>1. e[n] = <<n>>
        BY <1>1, <3>1
      <4>2. e[n] \in Seq(Nat)
        BY ONLY n \in Nat, <4>1
      <4>3. QED
        BY <4>2
    <3>2. CASE n >= R
      <4>0. n \div R \in Nat /\ n \div R < n /\ n % R \in Nat
        BY ONLY R \in Nat, R >= 2, n \in Nat, <3>2, Digits
      <4>1. n \div R \in 0..(n - 1) /\ n % R \in Nat
        BY <4>0
      <4>2. e[n \div R] \in Seq(Nat)
        BY <2>1, <4>1
      <4>3. <<R + (n % R)>> \in Seq(Nat)
        BY <4>1
      <4>4. e[n] =
              <<R + (n % R)>> \o e[n \div R]
        BY <1>1, <3>2
      <4>5. e[n] \in Seq(Nat)
        BY ONLY n \in Nat, <4>2, <4>3, <4>4
      <4>6. QED
        BY <4>5
    <3>3. QED
      BY <3>1, <3>2
  <2>2. Nat \subseteq S
    <3> HIDE DEF S
    <3> QED
      BY <2>1, NatSetStrong
  <2>3. e = [n \in Nat |-> e[n]]
    BY DEF Positional
  <2>4. \A n \in Nat : e[n] \in Seq(Nat)
    BY <2>2
  <2>5. QED
    BY <2>3, <2>4
<1>3. QED
  BY <1>1, <1>2

-----------------------------------------------------------------------------
(* FlattenSeq, from its front to its end.                                  *)

\* The partial concatenations of s.
Chained(f, s) ==
  f = [i \in 1..Len(s) |-> IF i = 1 THEN s[i] ELSE f[i - 1] \o s[i]]

\* The recursion of FlattenSeq, from a function for the smaller positions.
ChainStep(s) ==
  [a \in [Nat -> Seq(Nat)] \X Nat |->
     IF a[2] \in 1..Len(s) THEN IF a[2] = 1 THEN s[a[2]] ELSE a[1][a[2] - 1] \o s[a[2]]
     ELSE <<>>]

LEMMA ChainStepValue ==
  ASSUME NEW s \in Seq(Seq(Nat)), NEW g \in [Nat -> Seq(Nat)], NEW n \in Nat
  PROVE  /\ n \notin 1..Len(s) => ChainStep(s)[<<g, n>>] = <<>>
         /\ n \in 1..Len(s) /\ n = 1 => ChainStep(s)[<<g, n>>] = s[n]
         /\ n \in 1..Len(s) /\ n # 1 => ChainStep(s)[<<g, n>>] = g[n - 1] \o s[n]
BY DEF ChainStep

LEMMA ChainStepLocal ==
  ASSUME NEW s \in Seq(Seq(Nat))
  PROVE  Recursion(ChainStep(s), Seq(Nat))
<1>1. ASSUME NEW g \in [Nat -> Seq(Nat)], NEW n \in Nat
      PROVE  /\ n \notin 1..Len(s) => ChainStep(s)[<<g, n>>] = <<>>
             /\ n \in 1..Len(s) /\ n = 1 => ChainStep(s)[<<g, n>>] = s[n]
             /\ n \in 1..Len(s) /\ n # 1 => ChainStep(s)[<<g, n>>] = g[n - 1] \o s[n]
  BY ChainStepValue
<1>2. ASSUME NEW g \in [Nat -> Seq(Nat)], NEW n \in Nat
      PROVE  ChainStep(s)[<<g, n>>] \in Seq(Nat)
  <2>1. CASE n \notin 1..Len(s)
    <3>1. ChainStep(s)[<<g, n>>] = <<>>
      BY <1>1, <2>1
    <3>2. QED
      BY ONLY <3>1
  <2>2. CASE n \in 1..Len(s) /\ n = 1
    <3>1. s[n] \in Seq(Nat)
      BY <2>2
    <3>2. ChainStep(s)[<<g, n>>] = s[n]
      BY <1>1, <2>2
    <3>3. QED
      BY ONLY <3>1, <3>2
  <2>3. CASE n \in 1..Len(s) /\ n # 1
    <3>1. s[n] \in Seq(Nat)
      BY <2>3
    <3>0. g[n - 1] \in Seq(Nat)
      <4>1. n - 1 \in Nat
        BY <2>3
      <4>2. QED
        BY <4>1
    <3>2. ChainStep(s)[<<g, n>>] = g[n - 1] \o s[n]
      BY <1>1, <2>3
    <3>3. QED
      BY ONLY <3>0, <3>1, <3>2
  <2>4. QED
    BY <2>1, <2>2, <2>3
<1>3. ChainStep(s) \in [[Nat -> Seq(Nat)] \X Nat -> Seq(Nat)]
  <2>1. ASSUME NEW a \in [Nat -> Seq(Nat)] \X Nat PROVE ChainStep(s)[a] \in Seq(Nat)
    <3>1. a = <<a[1], a[2]>> /\ a[1] \in [Nat -> Seq(Nat)] /\ a[2] \in Nat
      OBVIOUS
    <3>2. QED
      BY <1>2, <3>1
  <2>2. QED
    BY <2>1 DEF ChainStep
<1>4. ASSUME NEW g \in [Nat -> Seq(Nat)], NEW h \in [Nat -> Seq(Nat)], NEW n \in Nat,
             \A m \in 0..(n - 1) : g[m] = h[m]
      PROVE  ChainStep(s)[<<g, n>>] = ChainStep(s)[<<h, n>>]
  <2>1. CASE n \in 1..Len(s) /\ n # 1
    <3>1. g[n - 1] = h[n - 1]
      BY <1>4, <2>1
    <3>2. QED
      BY <1>1, <2>1, <3>1
  <2>2. CASE ~(n \in 1..Len(s) /\ n # 1)
    BY <1>1, <2>2
  <2>3. QED
    BY <2>1, <2>2
<1>5. Seq(Nat) # {}
  <2>1. <<>> \in Seq(Nat)
    OBVIOUS
  <2>2. QED
    BY <2>1
<1>6. Local(ChainStep(s), Seq(Nat))
  BY <1>4 DEF Local
<1>7. QED
  BY <1>3, <1>5, <1>6 DEF Recursion

LEMMA FlattenChain ==
  ASSUME NEW s \in Seq(Seq(Nat)), s # <<>>
  PROVE  \E f : Chained(f, s) /\ FlattenSeq(s) = f[Len(s)]
<1>1. PICK g : Solution(g, ChainStep(s), Seq(Nat))
  BY ChainStepLocal, RecursiveFunction
<1> DEFINE h == [i \in 1..Len(s) |-> g[i]]
<1>2. Chained(h, s)
  <2>1. ASSUME NEW i \in 1..Len(s)
        PROVE  g[i] = IF i = 1 THEN s[i] ELSE h[i - 1] \o s[i]
    <3>0. i \in Nat
      OBVIOUS
    <3>1. g[i] = ChainStep(s)[<<g, i>>] /\ g \in [Nat -> Seq(Nat)]
      BY ONLY <1>1, <3>0, Zenon DEF Solution
    <3>2. CASE i = 1
      BY <3>0, <3>1, <3>2, ChainStepValue
    <3>3. CASE i # 1
      <4>1. h[i - 1] = g[i - 1]
        BY <3>3
      <4>2. g[i] = g[i - 1] \o s[i]
        BY <3>0, <3>1, <3>3, ChainStepValue
      <4>3. QED
        BY <3>3, <4>1, <4>2
    <3>4. QED
      BY <3>2, <3>3
  <2>2. QED
    BY <2>1 DEF Chained
<1> DEFINE f == CHOOSE f : Chained(f, s)
<1>3. Chained(f, s)
  <2> HIDE DEF h
  <2> QED
    BY <1>2
<1>4. FlattenSeq(s) = f[Len(s)]
  <2>1. Len(s) # 0
    OBVIOUS
  <2>2. QED
    BY <2>1, Zenon DEF FlattenSeq, Chained
<1> HIDE DEF f
<1>5. QED
  BY <1>3, <1>4

LEMMA FlattenAppend ==
  /\ FlattenSeq(<<>>) = <<>>
  /\ \A s \in Seq(Seq(Nat)), e \in Seq(Nat) :
       s # <<>> => FlattenSeq(Append(s, e)) = FlattenSeq(s) \o e
  /\ \A e \in Seq(Nat) : FlattenSeq(Append(<<>>, e)) = e
<1>1. FlattenSeq(<<>>) = <<>>
  BY DEF FlattenSeq
<1>2. ASSUME NEW s \in Seq(Seq(Nat)), NEW e \in Seq(Nat), s # <<>>
      PROVE  FlattenSeq(Append(s, e)) = FlattenSeq(s) \o e
  <2> DEFINE t == Append(s, e)
  <2>1. /\ t \in Seq(Seq(Nat)) /\ t # <<>> /\ Len(t) = Len(s) + 1 /\ t[Len(t)] = e
        /\ Len(s) \in Nat /\ Len(s) >= 1 /\ \A i \in 1..Len(s) : t[i] = s[i]
    <3> DEFINE T == Seq(Nat)
    <3>1. s \in Seq(T) /\ e \in T
      OBVIOUS
    <3> HIDE DEF T
    <3>2. /\ t \in Seq(T) /\ t # <<>> /\ Len(t) = Len(s) + 1 /\ t[Len(s) + 1] = e
          /\ \A i \in 1..Len(s) : t[i] = s[i]
      BY <3>1, AppendProperties
    <3>3. Len(s) \in Nat /\ Len(s) >= 1
      BY <1>2, <3>1, EmptySeq
    <3>4. QED
      BY <3>2, <3>3 DEF T
  <2> HIDE DEF t
  <2>2. PICK f : Chained(f, s) /\ FlattenSeq(s) = f[Len(s)]
    BY <1>2, FlattenChain
  <2>3. PICK g : Chained(g, t) /\ FlattenSeq(t) = g[Len(t)]
    BY <2>1, FlattenChain
  <2>4. \A i \in 1..Len(s) : f[i] = IF i = 1 THEN s[i] ELSE f[i - 1] \o s[i]
    BY <2>2, Zenon DEF Chained
  <2>5. \A i \in 1..Len(t) : g[i] = IF i = 1 THEN t[i] ELSE g[i - 1] \o t[i]
    BY <2>3, Zenon DEF Chained
  <2> DEFINE S == {i \in Nat : i \in 1..Len(s) => f[i] = g[i]}
  <2>6. 0 \in S
    OBVIOUS
  <2>7. ASSUME NEW i \in Nat, i \in S PROVE i + 1 \in S
    <3> SUFFICES ASSUME i + 1 \in 1..Len(s) PROVE f[i + 1] = g[i + 1]
      OBVIOUS
    <3>1. i + 1 \in 1..Len(t) /\ t[i + 1] = s[i + 1]
      BY <2>1
    <3>2. CASE i = 0
      BY <2>4, <2>5, <3>1, <3>2
    <3>3. CASE i # 0
      <4>1. f[i] = g[i] /\ (i + 1) - 1 = i /\ i + 1 # 1
        BY <2>1, <2>7, <3>3
      <4>2. QED
        BY <2>4, <2>5, <3>1, <4>1
    <3>4. QED
      BY <3>2, <3>3
  <2>8. Nat \subseteq S
    <3> HIDE DEF S
    <3> QED
      BY <2>6, <2>7, NatSet
  <2>9. f[Len(s)] = g[Len(s)]
    BY <2>1, <2>8
  <2>10. g[Len(t)] = g[Len(s)] \o e
    <3>1. Len(t) \in 1..Len(t) /\ Len(t) # 1 /\ Len(t) - 1 = Len(s)
      BY <2>1
    <3>2. QED
      BY <2>1, <2>5, <3>1
  <2>11. QED
    BY <2>2, <2>3, <2>9, <2>10 DEF t
<1>3. ASSUME NEW e \in Seq(Nat) PROVE FlattenSeq(Append(<<>>, e)) = e
  <2> DEFINE t == Append(<<>>, e)
  <2>1. t \in Seq(Seq(Nat)) /\ t # <<>> /\ Len(t) = 1 /\ t[1] = e
    OBVIOUS
  <2> HIDE DEF t
  <2>2. PICK g : Chained(g, t) /\ FlattenSeq(t) = g[Len(t)]
    BY <2>1, FlattenChain
  <2>3. g[1] = t[1]
    BY <2>1, <2>2 DEF Chained
  <2>4. QED
    BY <2>1, <2>2, <2>3 DEF t
<1>4. QED
  BY <1>1, <1>2, <1>3

-----------------------------------------------------------------------------
(* Running sums, and the length of what FlattenSeq puts together.          *)

Sums(f, b, w, n) == f = [i \in 0..n |-> IF i = 0 THEN b ELSE f[i - 1] + w[i]]

\* The recursion of the sums; N is the set of the naturals.
SumStep(b, w, n, N) ==
  [a \in [N -> N] \X N |->
     IF a[2] = 0 THEN b ELSE IF a[2] \in 1..n THEN a[1][a[2] - 1] + w[a[2]] ELSE 0]

LEMMA SumStepValue ==
  ASSUME NEW N, NEW b, NEW n, NEW w, NEW g \in [N -> N], NEW i \in N
  PROVE  SumStep(b, w, n, N)[<<g, i>>] =
           IF i = 0 THEN b ELSE IF i \in 1..n THEN g[i - 1] + w[i] ELSE 0
BY DEF SumStep

LEMMA SumNat ==
  ASSUME NEW N, N = Nat, NEW b \in N, NEW n \in N, NEW w, \A i \in 1..n : w[i] \in N,
         NEW g \in [N -> N], NEW i \in N
  PROVE  (IF i = 0 THEN b ELSE IF i \in 1..n THEN g[i - 1] + w[i] ELSE 0) \in N
<1>1. CASE i = 0
  BY <1>1
<1>2. CASE i \in 1..n
  <2>1. i - 1 \in N
    BY <1>2
  <2>2. g[i - 1] \in N /\ w[i] \in N
    BY <1>2, <2>1
  <2>3. g[i - 1] + w[i] \in N
    BY <2>2
  <2> QED
    BY <1>2, <2>3
<1>3. CASE i # 0 /\ i \notin 1..n
  BY <1>3
<1> QED
  BY <1>1, <1>2, <1>3

LEMMA SumsExist ==
  ASSUME NEW b \in Nat, NEW n \in Nat, NEW w, \A i \in 1..n : w[i] \in Nat
  PROVE  \E f : Sums(f, b, w, n)
<1> DEFINE N == Nat
           G == SumStep(b, w, n, N)
<1>0. b \in N /\ n \in N /\ (\A i \in 1..n : w[i] \in N) /\ N = Nat /\ N # {}
  OBVIOUS
<1> HIDE DEF N
<1>1. ASSUME NEW g \in [N -> N], NEW i \in N
      PROVE  /\ G[<<g, i>>] = IF i = 0 THEN b
                             ELSE IF i \in 1..n THEN g[i - 1] + w[i] ELSE 0
             /\ G[<<g, i>>] \in N
  <2>1. G[<<g, i>>] = IF i = 0 THEN b ELSE IF i \in 1..n THEN g[i - 1] + w[i] ELSE 0
    BY SumStepValue
  <2>2. (IF i = 0 THEN b ELSE IF i \in 1..n THEN g[i - 1] + w[i] ELSE 0) \in N
    BY ONLY <1>0, g \in [N -> N], i \in N, SumNat
  <2> HIDE DEF G
  <2> QED
    BY ONLY <2>1, <2>2
<1>2. G \in [[N -> N] \X N -> N]
  <2>1. ASSUME NEW a \in [N -> N] \X N PROVE G[a] \in N
    <3>1. PICK g \in [N -> N], i \in N : a = <<g, i>>
      OBVIOUS
    <3> HIDE DEF G
    <3>2. QED
      BY <1>1, <3>1
  <2> QED
    BY <2>1 DEF SumStep
<1> HIDE DEF G
<1>3. ASSUME NEW g \in [N -> N], NEW h \in [N -> N], NEW i \in N,
             \A m \in 0..(i - 1) : g[m] = h[m]
      PROVE  G[<<g, i>>] = G[<<h, i>>]
  <2>1. i # 0 => g[i - 1] = h[i - 1]
    BY <1>0, <1>3
  <2>2. /\ G[<<g, i>>] = IF i = 0 THEN b
                        ELSE IF i \in 1..n THEN g[i - 1] + w[i] ELSE 0
        /\ G[<<h, i>>] = IF i = 0 THEN b
                        ELSE IF i \in 1..n THEN h[i - 1] + w[i] ELSE 0
    BY ONLY <1>1, g \in [N -> N], h \in [N -> N], i \in N
  <2> QED
    BY ONLY <2>1, <2>2
<1>4. Local(G, N)
  BY <1>0, <1>3 DEF Local
<1>5. Recursion(G, N)
  BY <1>0, <1>2, <1>4 DEF Recursion
<1>6. PICK g : Solution(g, G, N)
  BY <1>5, RecursiveFunction
<1>7. g \in [N -> N] /\ \A i \in N : g[i] = G[<<g, i>>]
  BY <1>0, <1>6, Zenon DEF Solution
<1> DEFINE f == [i \in 0..n |-> g[i]]
<1>8. ASSUME NEW i \in 0..n PROVE g[i] = IF i = 0 THEN b ELSE f[i - 1] + w[i]
  <2>0. i \in N
    BY <1>0
  <2>1. g[i] = IF i = 0 THEN b ELSE IF i \in 1..n THEN g[i - 1] + w[i] ELSE 0
    <3>1. G[<<g, i>>] = IF i = 0 THEN b ELSE IF i \in 1..n THEN g[i - 1] + w[i] ELSE 0
      BY ONLY <1>1, <1>7, <2>0
    <3> QED
      BY ONLY <1>7, <2>0, <3>1
  <2>2. CASE i = 0
    BY ONLY <2>1, <2>2
  <2>3. CASE i # 0
    <3>1. i \in 1..n /\ f[i - 1] = g[i - 1]
      BY <1>0, <2>3
    <3> QED
      BY ONLY <2>1, <2>3, <3>1
  <2> QED
    BY <2>2, <2>3
<1>9. f = [i \in 0..n |-> IF i = 0 THEN b ELSE f[i - 1] + w[i]]
  BY <1>8
<1> QED
  BY <1>9 DEF Sums

LEMMA SumOfLengths ==
  ASSUME NEW s \in Seq(Seq(Nat)), NEW b \in Nat, NEW w, NEW f, Sums(f, b, w, Len(s)),
         \A i \in 1..Len(s) : w[i] = Len(s[i])
  PROVE  FlattenSeq(s) \in Seq(Nat) /\ f[Len(s)] = b + Len(FlattenSeq(s))
<1> DEFINE n == Len(s)
<1>1. n \in Nat /\ \A i \in 1..n : s[i] \in Seq(Nat) /\ Len(s[i]) \in Nat
  OBVIOUS
<1>2. /\ f[0] = b
      /\ \A i \in 1..n : f[i] = f[i - 1] + w[i]
  <2>1. \A i \in 0..n : f[i] = IF i = 0 THEN b ELSE f[i - 1] + w[i]
    BY Zenon DEF Sums
  <2> HIDE DEF n
  <2> QED
    BY <1>1, <2>1
<1>3. CASE s = <<>>
  <2>1. FlattenSeq(s) = <<>> /\ n = 0
    BY <1>3, FlattenAppend
  <2> QED
    BY <1>2, <2>1
<1>4. CASE s # <<>>
  <2>1. PICK c : Chained(c, s) /\ FlattenSeq(s) = c[n]
    BY <1>4, FlattenChain
  <2>2. \A i \in 1..n : c[i] = IF i = 1 THEN s[i] ELSE c[i - 1] \o s[i]
    BY <2>1, Zenon DEF Chained
  <2>3. n >= 1
    BY <1>4
  <2>4. \A i \in 1..n : w[i] = Len(s[i])
    OBVIOUS
  <2> DEFINE S == {i \in Nat : i \in 1..n => c[i] \in Seq(Nat) /\ f[i] = b + Len(c[i])}
  <2> HIDE DEF n
  <2>5. 0 \in S
    OBVIOUS
  <2>6. ASSUME NEW i \in Nat, i \in S PROVE i + 1 \in S
    <3> SUFFICES ASSUME i + 1 \in 1..n
                 PROVE  c[i + 1] \in Seq(Nat) /\ f[i + 1] = b + Len(c[i + 1])
      OBVIOUS
    <3>1. f[i + 1] = f[i] + Len(s[i + 1]) /\ s[i + 1] \in Seq(Nat)
          /\ Len(s[i + 1]) \in Nat
      <4>1. (i + 1) - 1 = i
        OBVIOUS
      <4> QED
        BY <1>1, <1>2, <2>4, <4>1
    <3>2. CASE i = 0
      <4>1. c[i + 1] = s[i + 1] /\ f[i] = b
        BY <1>2, <2>2, <3>2
      <4> QED
        BY <3>1, <4>1
    <3>3. CASE i # 0
      <4>1. i \in 1..n /\ i + 1 # 1 /\ (i + 1) - 1 = i
        BY <1>1, <3>3
      <4>2. c[i] \in Seq(Nat) /\ f[i] = b + Len(c[i])
        BY <2>6, <4>1
      <4>3. c[i + 1] = c[i] \o s[i + 1]
        BY <2>2, <4>1
      <4> DEFINE x == c[i]  y == s[i + 1]
      <4>4. x \in Seq(Nat) /\ y \in Seq(Nat)
        BY <3>1, <4>2
      <4> HIDE DEF x, y
      <4>5. x \o y \in Seq(Nat) /\ Len(x \o y) = Len(x) + Len(y)
            /\ Len(x) \in Nat /\ Len(y) \in Nat
        BY ONLY <4>4
      <4> DEFINE m == Len(x)  k == Len(y)
      <4>6. f[i + 1] = (b + m) + k /\ c[i + 1] \in Seq(Nat) /\ Len(c[i + 1]) = m + k
            /\ m \in Nat /\ k \in Nat
        BY <3>1, <4>2, <4>3, <4>5 DEF x, y
      <4> HIDE DEF m, k
      <4>7. f[i + 1] = b + (m + k)
        BY ONLY <4>6, b \in Nat
      <4> QED
        BY <4>6, <4>7
    <3> QED
      BY <3>2, <3>3
  <2>7. Nat \subseteq S
    <3> HIDE DEF S
    <3> QED
      BY <2>5, <2>6, NatSet
  <2>8. c[n] \in Seq(Nat) /\ f[n] = b + Len(c[n])
    BY <1>1, <2>3, <2>7
  <2> QED
    BY <2>1, <2>8 DEF n
<1> QED
  BY <1>3, <1>4

-----------------------------------------------------------------------------
(* Sequences put together and taken apart, at every index.                 *)

LEMMA Lifted ==
  ASSUME NEW T, Nat \subseteq T, NEW s \in Seq(Nat) PROVE s \in Seq(T)
<1> DEFINE N == Nat
<1>1. N \subseteq T /\ s \in Seq(N)
  OBVIOUS
<1> HIDE DEF N
<1> QED
  BY ONLY <1>1, SeqMonotonic

LEMMA Joined ==
  ASSUME NEW T, NEW s \in Seq(T), NEW t \in Seq(T)
  PROVE  s \o t \in Seq(T) /\ Len(s \o t) = Len(s) + Len(t)
BY ConcatProperties

LEMMA JoinedAt ==
  ASSUME NEW T, NEW s \in Seq(T), NEW t \in Seq(T)
  PROVE  /\ \A i \in 1..Len(s) : (s \o t)[i] = s[i]
         /\ \A i \in 1..Len(t) : (s \o t)[Len(s) + i] = t[i]
<1>1. Len(s) \in Nat /\ Len(t) \in Nat
  OBVIOUS
<1>2. \A i \in 1..(Len(s) + Len(t)) :
        (s \o t)[i] = IF i <= Len(s) THEN s[i] ELSE t[i - Len(s)]
  BY ConcatProperties
<1>3. ASSUME NEW i \in 1..Len(s) PROVE (s \o t)[i] = s[i]
  <2>1. i \in 1..(Len(s) + Len(t)) /\ i <= Len(s)
    BY <1>1
  <2> QED
    BY ONLY <1>2, <2>1
<1>4. ASSUME NEW i \in 1..Len(t) PROVE (s \o t)[Len(s) + i] = t[i]
  <2>1. /\ Len(s) + i \in 1..(Len(s) + Len(t)) /\ ~(Len(s) + i <= Len(s))
        /\ (Len(s) + i) - Len(s) = i
    BY <1>1
  <2> QED
    BY ONLY <1>2, <2>1
<1> QED
  BY <1>3, <1>4

\* s is a, b, c and d, one behind the other.
Four(s, a, b, c, d, T) ==
  /\ s \in Seq(T) /\ Len(s) = Len(a) + Len(b) + Len(c) + Len(d)
  /\ \A i \in 1..Len(a) : s[i] = a[i]
  /\ \A i \in 1..Len(b) : s[Len(a) + i] = b[i]
  /\ \A i \in 1..Len(c) : s[Len(a) + Len(b) + i] = c[i]
  /\ \A i \in 1..Len(d) : s[Len(a) + Len(b) + Len(c) + i] = d[i]

LEMMA FourJoined ==
  ASSUME NEW T, NEW a \in Seq(T), NEW b \in Seq(T), NEW c \in Seq(T), NEW d \in Seq(T)
  PROVE  Four(a \o b \o c \o d, a, b, c, d, T)
<1>1. Len(a) \in Nat /\ Len(b) \in Nat /\ Len(c) \in Nat /\ Len(d) \in Nat
  OBVIOUS
<1> DEFINE ab == a \o b
<1>2. /\ ab \in Seq(T) /\ Len(ab) = Len(a) + Len(b)
      /\ \A i \in 1..Len(a) : ab[i] = a[i]
      /\ \A i \in 1..Len(b) : ab[Len(a) + i] = b[i]
  BY ONLY a \in Seq(T), b \in Seq(T), Joined, JoinedAt
<1> HIDE DEF ab
<1> DEFINE abc == ab \o c
<1>3. /\ abc \in Seq(T) /\ Len(abc) = Len(ab) + Len(c)
      /\ \A i \in 1..Len(ab) : abc[i] = ab[i]
      /\ \A i \in 1..Len(c) : abc[Len(ab) + i] = c[i]
  <2>1. ab \in Seq(T)
    BY <1>2
  <2> QED
    BY ONLY <2>1, c \in Seq(T), Joined, JoinedAt
<1> HIDE DEF abc
<1> DEFINE s == abc \o d
<1>4. /\ s \in Seq(T) /\ Len(s) = Len(abc) + Len(d)
      /\ \A i \in 1..Len(abc) : s[i] = abc[i]
      /\ \A i \in 1..Len(d) : s[Len(abc) + i] = d[i]
  <2>1. abc \in Seq(T)
    BY <1>3
  <2> QED
    BY ONLY <2>1, d \in Seq(T), Joined, JoinedAt
<1> HIDE DEF s
<1>5. ASSUME NEW i \in 1..Len(a) PROVE s[i] = a[i]
  <2>1. i \in 1..Len(ab) /\ i \in 1..Len(abc)
    BY <1>1, <1>2, <1>3
  <2> QED
    BY <1>2, <1>3, <1>4, <2>1
<1>6. ASSUME NEW i \in 1..Len(b) PROVE s[Len(a) + i] = b[i]
  <2>1. Len(a) + i \in 1..Len(ab) /\ Len(a) + i \in 1..Len(abc)
    BY <1>1, <1>2, <1>3
  <2> QED
    BY <1>2, <1>3, <1>4, <2>1
<1>7. ASSUME NEW i \in 1..Len(c) PROVE s[Len(a) + Len(b) + i] = c[i]
  <2>1. Len(ab) + i \in 1..Len(abc)
    BY <1>1, <1>2, <1>3
  <2> QED
    BY <1>2, <1>3, <1>4, <2>1
<1>8. ASSUME NEW i \in 1..Len(d) PROVE s[Len(a) + Len(b) + Len(c) + i] = d[i]
  BY <1>2, <1>3, <1>4
<1>9. Len(s) = Len(a) + Len(b) + Len(c) + Len(d)
  BY <1>1, <1>2, <1>3, <1>4
<1> QED
  BY <1>4, <1>5, <1>6, <1>7, <1>8, <1>9 DEF Four, s, abc, ab

(* What is in a buffer from some place on is cut out there.                  *)
LEMMA CutOut ==
  ASSUME NEW T, Nat \subseteq T, NEW buf \in Seq(T), NEW s \in Seq(Nat), NEW at \in Nat,
         at >= 1, at + Len(s) <= Len(buf) + 1,
         \A i \in 1..Len(s) : buf[at - 1 + i] = s[i]
  PROVE  SubSeq(buf, at, at + Len(s) - 1) = s
<1> DEFINE m == Len(s)
           b == at + m - 1
<1>1. Len(s) \in Nat /\ Len(buf) \in Nat
  OBVIOUS
<1>2. s \in Seq(T)
  BY Lifted
<1>3. at \in 1..(Len(buf) + 1) /\ b \in (at - 1)..Len(buf) /\ b - at + 1 = m
  BY <1>1
<1>4. \A i \in 1..m : at - 1 + i = at + i - 1
  BY <1>1
<1>5. m = Len(s)
  OBVIOUS
<1> HIDE DEF b, m
<1>6. /\ SubSeq(buf, at, b) \in Seq(T) /\ Len(SubSeq(buf, at, b)) = b - at + 1
      /\ \A i \in 1..(b - at + 1) : SubSeq(buf, at, b)[i] = buf[at + i - 1]
  BY ONLY buf \in Seq(T), <1>3, SubSeqProperties
<1> DEFINE cut == SubSeq(buf, at, b)
<1> HIDE DEF cut
<1>7. cut \in Seq(T) /\ Len(cut) = m /\ \A i \in 1..m : cut[i] = s[i]
  BY ONLY <1>3, <1>4, <1>5, <1>6, \A i \in 1..Len(s) : buf[at - 1 + i] = s[i] DEF cut
<1>8. cut = s
  BY ONLY <1>2, <1>5, <1>7, SeqEqual
<1> QED
  BY <1>8 DEF cut, b, m

-----------------------------------------------------------------------------
(* Sequences that a recursion goes through from the back.                    *)

(* What holds behind the end and is handed on towards the front holds        *)
(* everywhere.                                                               *)
LEMMA Backwards ==
  ASSUME NEW n \in Nat, NEW S, n + 1 \in S, \A i \in 1..n : i + 1 \in S => i \in S
  PROVE  1..(n + 1) \subseteq S
<1> DEFINE U == {k \in Nat : k <= n => n + 1 - k \in S}
<1>1. 0 \in U
  OBVIOUS
<1>2. ASSUME NEW k \in Nat, k \in U PROVE k + 1 \in U
  <2> SUFFICES ASSUME k + 1 <= n PROVE n + 1 - (k + 1) \in S
    OBVIOUS
  <2>1. n - k \in 1..n /\ n + 1 - (k + 1) = n - k /\ n + 1 - k = (n - k) + 1
    OBVIOUS
  <2>2. n + 1 - k \in S
    BY <1>2
  <2> QED
    BY <2>1, <2>2
<1>3. Nat \subseteq U
  <2> HIDE DEF U
  <2> QED
    BY <1>1, <1>2, NatSet
<1>4. ASSUME NEW i \in 1..(n + 1) PROVE i \in S
  <2>1. n + 1 - i \in Nat /\ n + 1 - i <= n /\ n + 1 - (n + 1 - i) = i
    OBVIOUS
  <2>2. n + 1 - i \in U
    BY <1>3, <2>1
  <2> QED
    BY <2>1, <2>2
<1> QED
  BY <1>4

(* A recursion towards the front: the value at a position from the next one. *)
BackwardTo(g, n, b, H) == g[n + 1] = b /\ \A i \in 1..n : g[i] = H[<<g[i + 1], i>>]

LEMMA BackwardExists ==
  ASSUME NEW n \in Nat, NEW T, NEW b \in T, NEW H \in [T \X (1..n) -> T]
  PROVE  \E g \in [1..(n + 1) -> T] : BackwardTo(g, n, b, H)
<1> DEFINE G == [a \in [Nat -> T] \X Nat |->
                   IF a[2] \in 1..n THEN H[<<a[1][a[2] - 1], n + 1 - a[2]>>] ELSE b]
<1>1. ASSUME NEW h \in [Nat -> T], NEW k \in Nat
      PROVE  /\ k \notin 1..n => G[<<h, k>>] = b
             /\ k \in 1..n => /\ G[<<h, k>>] = H[<<h[k - 1], n + 1 - k>>]
                              /\ h[k - 1] \in T /\ n + 1 - k \in 1..n
  OBVIOUS
<1>2. G \in [[Nat -> T] \X Nat -> T]
  <2> SUFFICES ASSUME NEW a \in [Nat -> T] \X Nat PROVE G[a] \in T
    OBVIOUS
  <2>1. PICK h \in [Nat -> T], k \in Nat : a = <<h, k>>
    OBVIOUS
  <2> HIDE DEF G
  <2> QED
    BY <1>1, <2>1
<1>3. Local(G, T)
  <2> SUFFICES ASSUME NEW g \in [Nat -> T], NEW h \in [Nat -> T], NEW k \in Nat,
                      \A m \in 0..(k - 1) : g[m] = h[m]
               PROVE  G[<<g, k>>] = G[<<h, k>>]
    BY DEF Local
  <2>1. k \in 1..n => k - 1 \in 0..(k - 1)
    OBVIOUS
  <2> HIDE DEF G
  <2> QED
    BY <1>1, <2>1
<1>4. PICK f : Solution(f, G, T)
  <2> HIDE DEF G
  <2> QED
    BY <1>2, <1>3, RecursiveFunction DEF Recursion
<1> DEFINE g == [i \in 1..(n + 1) |-> f[n + 1 - i]]
<1>5. f \in [Nat -> T] /\ \A k \in Nat : f[k] = G[<<f, k>>]
  BY <1>4 DEF Solution
<1> HIDE DEF G
<1>6. g \in [1..(n + 1) -> T]
  BY <1>5
<1>7. g[n + 1] = b
  <2>1. n + 1 \in 1..(n + 1) /\ n + 1 - (n + 1) = 0 /\ 0 \notin 1..n /\ 0 \in Nat
    OBVIOUS
  <2>2. g[n + 1] = f[0]
    BY <2>1
  <2> HIDE DEF g
  <2>3. f[0] = G[<<f, 0>>] /\ G[<<f, 0>>] = b
    BY <1>1, <1>5, <2>1
  <2> QED
    BY <2>2, <2>3
<1>8. ASSUME NEW i \in 1..n PROVE g[i] = H[<<g[i + 1], i>>]
  <2>1. /\ i \in 1..(n + 1) /\ i + 1 \in 1..(n + 1)
        /\ n + 1 - i \in 1..n /\ n + 1 - i \in Nat
        /\ n + 1 - (n + 1 - i) = i /\ n + 1 - (i + 1) = (n + 1 - i) - 1
    OBVIOUS
  <2>2. g[i] = f[n + 1 - i] /\ g[i + 1] = f[n + 1 - (i + 1)]
    BY <2>1
  <2> HIDE DEF g
  <2>3. f[n + 1 - i] = G[<<f, n + 1 - i>>]
    BY <1>5, <2>1
  <2>4. G[<<f, n + 1 - i>>] = H[<<f[(n + 1 - i) - 1], n + 1 - (n + 1 - i)>>]
    BY <1>1, <1>5, <2>1
  <2> QED
    BY <2>1, <2>2, <2>3, <2>4
<1> HIDE DEF g
<1> QED
  BY <1>6, <1>7, <1>8 DEF BackwardTo

LEMMA Prepended ==
  ASSUME NEW T, NEW x \in T, NEW t \in Seq(T)
  PROVE  /\ <<x>> \o t \in Seq(T) /\ Len(<<x>> \o t) = Len(t) + 1 /\ (<<x>> \o t)[1] = x
         /\ \A k \in 1..Len(t) : (<<x>> \o t)[k + 1] = t[k]
<1> DEFINE e == <<x>>
<1>1. e \in Seq(T) /\ Len(e) = 1 /\ e[1] = x /\ Len(t) \in Nat
  OBVIOUS
<1> HIDE DEF e
<1>2. e \o t \in Seq(T) /\ Len(e \o t) = 1 + Len(t)
  BY <1>1, Joined
<1>3. (e \o t)[1] = x
  <2>1. 1 \in 1..Len(e)
    BY <1>1
  <2> QED
    BY <1>1, <2>1, JoinedAt
<1>4. \A k \in 1..Len(t) : (e \o t)[1 + k] = t[k]
  <2>1. \A k \in 1..Len(t) : (e \o t)[Len(e) + k] = t[k]
    <3>1. e \in Seq(T) /\ t \in Seq(T)
      BY <1>1
    <3> QED
      BY ONLY <3>1, JoinedAt
  <2>2. Len(e) = 1
    BY <1>1
  <2> QED
    BY ONLY <2>1, <2>2
<1>5. \A k \in 1..Len(t) : 1 + k = k + 1
  OBVIOUS
<1>6. 1 + Len(t) = Len(t) + 1
  BY <1>1
<1> QED
  BY <1>2, <1>3, <1>4, <1>5, <1>6 DEF e
=============================================================================
