----------------------------- MODULE CallsProofs -----------------------------
(***************************************************************************)
(* Theorems about Calls, for every set of inputs: a packet that is written *)
(* is whole, comes back when it is read, and is refused only when it is    *)
(* long; a packet of the broker is parsed when its fields are in it; a     *)
(* handler gets what its filter means and a callback what its name says; a *)
(* timer is right whatever the counter wrapped, and the clock however long *)
(* ago it was set; an HTTP answer is read the same however it was cut.     *)
(***************************************************************************)
EXTENDS Calls, Induction

-----------------------------------------------------------------------------
(* Topics, for ones of any characters and any length.  isTopicMatched goes *)
(* through characters, what a filter means is said of levels; the last     *)
(* lemmas of these parts, ForHandlerRight and DispatchRight, are what the  *)
(* theorems need.  First the levels of a topic.                            *)

Split(C) == {l \in Seq(Seq(C)) : l # <<>>}

\* l begins with an empty level before those of m; or the first level of m grows by c.
Apart(l, m) ==
  /\ Len(l) = Len(m) + 1 /\ l[1] = <<>> /\ \A k \in 1..Len(m) : l[k + 1] = m[k]
Grown(l, c, m) ==
  /\ Len(l) = Len(m) /\ l[1] = <<c>> \o m[1] /\ \A k \in 2..Len(m) : l[k] = m[k]

\* One more character in front makes levels of levels.
LEMMA SplitStep ==
  ASSUME NEW C, NEW c \in C, NEW m \in Split(C)
  PROVE  /\ << <<>> >> \o m \in Split(C) /\ Apart(<< <<>> >> \o m, m)
         /\ << <<c>> \o m[1] >> \o Tail(m) \in Split(C)
         /\ Grown(<< <<c>> \o m[1] >> \o Tail(m), c, m)
<1>1. m \in Seq(Seq(C)) /\ Len(m) \in Nat /\ Len(m) >= 1
  BY EmptySeq DEF Split
<1>2. m[1] \in Seq(C) /\ <<c>> \o m[1] \in Seq(C)
  BY <1>1
<1> DEFINE e == << <<>> >>
<1>4. /\ e \o m \in Seq(Seq(C)) /\ Len(e \o m) = Len(m) + 1 /\ (e \o m)[1] = <<>>
      /\ \A k \in 1..Len(m) : (e \o m)[k + 1] = m[k]
  <2>1. <<>> \in Seq(C)
    OBVIOUS
  <2> QED
    BY ONLY <1>1, <2>1, Prepended
<1> HIDE DEF e
<1>5. e \o m # <<>>
  BY <1>1, <1>4
<1> DEFINE w == <<c>> \o m[1]  d == <<w>>  t == Tail(m)
<1>7. t \in Seq(Seq(C)) /\ Len(t) = Len(m) - 1 /\ \A k \in 1..Len(t) : t[k] = m[k + 1]
  BY <1>1
<1> HIDE DEF t
<1>8. /\ d \o t \in Seq(Seq(C)) /\ Len(d \o t) = Len(m) /\ (d \o t)[1] = w
      /\ \A k \in 1..Len(t) : (d \o t)[k + 1] = t[k]
  <2>1. /\ <<w>> \o t \in Seq(Seq(C)) /\ Len(<<w>> \o t) = Len(t) + 1 /\ (<<w>> \o t)[1] = w
        /\ \A k \in 1..Len(t) : (<<w>> \o t)[k + 1] = t[k]
    <3> HIDE DEF w
    <3> QED
      BY ONLY <1>2, <1>7, Prepended DEF w
  <2> QED
    BY <1>1, <1>7, <2>1
<1> HIDE DEF d, w
<1>9. ASSUME NEW k \in 2..Len(m) PROVE (d \o t)[k] = m[k]
  <2>1. k - 1 \in 1..Len(t) /\ (k - 1) + 1 = k
    BY <1>1, <1>7
  <2> QED
    BY <1>7, <1>8, <2>1
<1>10. d \o t # <<>>
  BY <1>1, <1>8
<1> QED
  BY <1>4, <1>5, <1>8, <1>9, <1>10 DEF Split, Apart, Grown, e, d, t, w

LevelStep(l, s, i, m) ==
  l = IF s[i] = "/" THEN << <<>> >> \o m ELSE << <<s[i]>> \o m[1] >> \o Tail(m)

\* LevelsFrom is what its recursion says.
LEMMA LevelsDefined ==
  ASSUME NEW C, NEW s \in Seq(C)
  PROVE  LET L == LevelsFrom(s) IN
         /\ \A i \in 1..(Len(s) + 1) : L[i] \in Split(C)
         /\ L[Len(s) + 1] = << <<>> >>
         /\ \A i \in 1..Len(s) : LevelStep(L[i], s, i, L[i + 1])
<1> DEFINE n == Len(s)
           b == << <<>> >>
           T == Split(C)
           H == [a \in T \X (1..n) |->
                   IF s[a[2]] = "/" THEN << <<>> >> \o a[1]
                   ELSE << <<s[a[2]]>> \o a[1][1] >> \o Tail(a[1])]
           Is(g) == g = [i \in 1..(Len(s) + 1) |->
                           IF i > Len(s) THEN << <<>> >>
                           ELSE LET rest == g[i + 1] IN
                                IF s[i] = "/" THEN << <<>> >> \o rest
                                ELSE << <<s[i]>> \o rest[1] >> \o Tail(rest)]
           L == CHOOSE g : Is(g)
<1>1. n \in Nat /\ b \in T /\ \A i \in 1..n : s[i] \in C
  BY DEF Split
<1>2. ASSUME NEW m \in T, NEW i \in 1..n
      PROVE  H[<<m, i>>] \in T /\ LevelStep(H[<<m, i>>], s, i, m)
  <2>1. H[<<m, i>>] = IF s[i] = "/" THEN << <<>> >> \o m ELSE << <<s[i]>> \o m[1] >> \o Tail(m)
    OBVIOUS
  <2> HIDE DEF H
  <2> QED
    BY <1>1, <2>1, SplitStep DEF LevelStep
<1>3. H \in [T \X (1..n) -> T]
  <2> SUFFICES ASSUME NEW a \in T \X (1..n) PROVE H[a] \in T
    OBVIOUS
  <2>1. PICK m \in T, i \in 1..n : a = <<m, i>>
    OBVIOUS
  <2> HIDE DEF H, T
  <2> QED
    BY <1>2, <2>1
<1>4. PICK g \in [1..(n + 1) -> T] : BackwardTo(g, n, b, H)
  <2> HIDE DEF H, T, b, n
  <2> QED
    BY <1>1, <1>3, BackwardExists
<1>5. ASSUME NEW i \in 1..n PROVE LevelStep(g[i], s, i, g[i + 1]) /\ g[i + 1] \in T
  <2> HIDE DEF H, T
  <2>1. g[i] = H[<<g[i + 1], i>>]
    BY <1>4 DEF BackwardTo
  <2>2. i + 1 \in 1..(n + 1)
    BY <1>1
  <2> QED
    BY <1>2, <1>4, <2>1, <2>2
<1>6. g[n + 1] = b
  BY <1>1, <1>4 DEF BackwardTo
<1>7. Is(g)
  <2>1. g = [i \in 1..(n + 1) |-> g[i]]
    BY <1>4
  <2>2. \A i \in 1..(n + 1) : i > n => i = n + 1
    BY <1>1
  <2>3. \A i \in 1..(n + 1) : ~(i > n) => i \in 1..n
    BY <1>1
  <2> HIDE DEF H, T
  <2>4. \A i \in 1..(n + 1) :
          g[i] = IF i > Len(s) THEN << <<>> >>
                 ELSE LET rest == g[i + 1] IN
                      IF s[i] = "/" THEN << <<>> >> \o rest
                      ELSE << <<s[i]>> \o rest[1] >> \o Tail(rest)
    BY <1>5, <1>6, <2>2, <2>3 DEF LevelStep
  <2> QED
    BY <2>1, <2>4
<1> HIDE DEF Is
<1>8. Is(L)
  BY <1>7
<1>9. LevelsFrom(s) = L
  BY DEF LevelsFrom, L, Is
<1> HIDE DEF L
<1>10. ASSUME NEW i \in 1..n PROVE LevelStep(L[i], s, i, L[i + 1])
  <2>1. i \in 1..(Len(s) + 1) /\ ~(i > Len(s))
    BY <1>1
  <2> QED
    BY <1>8, <2>1 DEF LevelStep, Is
<1>11. L[n + 1] = b
  <2>1. n + 1 \in 1..(Len(s) + 1) /\ n + 1 > Len(s)
    BY <1>1
  <2> QED
    BY <1>8, <2>1 DEF Is
<1> DEFINE S == {i \in 1..(n + 1) : L[i] \in T}
<1>12. n + 1 \in S
  BY <1>1, <1>11
<1>13. ASSUME NEW i \in 1..n, i + 1 \in S PROVE i \in S
  <2>1. L[i + 1] \in T /\ i \in 1..(n + 1) /\ s[i] \in C
    BY <1>1, <1>13
  <2>2. L[i] \in T
    BY <1>10, <2>1, SplitStep DEF LevelStep
  <2> QED
    BY <2>1, <2>2
<1>14. 1..(n + 1) \subseteq S
  <2> HIDE DEF S, n
  <2> QED
    BY <1>1, <1>12, <1>13, Backwards
<1> QED
  BY <1>9, <1>10, <1>11, <1>14

-----------------------------------------------------------------------------
(* What a filter means, of its levels F and those of a name N.               *)

PLUS == <<"+">>
HASH == <<"#">>
Same(F, N, i) == F[i] = PLUS \/ F[i] = N[i]
AllSame(F, N) == Len(F) = Len(N) /\ \A i \in 1..Len(F) : Same(F, N, i)
SameToHash(F, N) ==
  /\ F[Len(F)] = HASH /\ Len(N) >= Len(F) - 1
  /\ \A i \in 1..(Len(F) - 1) : Same(F, N, i)
OnNothing(F, N) ==
  \E i \in 1..Len(F) : F[i] \in {PLUS, HASH} /\ (i > Len(N) \/ N[i] = <<>>)
Meant(F, N) == (AllSame(F, N) \/ SameToHash(F, N)) /\ ~OnNothing(F, N)

Has(w, c) == \E k \in 1..Len(w) : w[k] = c
Well(L) ==
  \A i \in 1..Len(L) :
    /\ Has(L[i], "+") => Len(L[i]) = 1
    /\ Has(L[i], "#") => Len(L[i]) = 1 /\ i = Len(L)

\* The levels begin with this one and go on as others do.
Begins(l, w, m) == Len(l) = Len(m) /\ l[1] = w /\ \A k \in 2..Len(m) : l[k] = m[k]

\* There is at least one level.
LEMMA SplitLen ==
  ASSUME NEW C, NEW l \in Split(C)
  PROVE  /\ l \in Seq(Seq(C)) /\ Len(l) \in Nat /\ Len(l) >= 1
         /\ \A i \in 1..Len(l) : l[i] \in Seq(C)
BY EmptySeq DEF Split

\* A separator before both makes no difference.
LEMMA MeantApart ==
  ASSUME NEW C, NEW F \in Split(C), NEW N \in Split(C), NEW F1, NEW N1,
         Apart(F1, F), Apart(N1, N)
  PROVE  Meant(F1, N1) <=> Meant(F, N)
<1>1. Len(F) \in Nat /\ Len(N) \in Nat /\ Len(F) >= 1 /\ Len(N) >= 1
  BY SplitLen
<1>2. /\ Len(F1) = Len(F) + 1 /\ F1[1] = <<>> /\ \A k \in 1..Len(F) : F1[k + 1] = F[k]
      /\ Len(N1) = Len(N) + 1 /\ N1[1] = <<>> /\ \A k \in 1..Len(N) : N1[k + 1] = N[k]
  BY DEF Apart
<1>3. F1[1] \notin {PLUS, HASH}
  BY <1>2 DEF PLUS, HASH
<1>4. \A i \in 1..Len(F1) : i = 1 \/ (i - 1 \in 1..Len(F) /\ (i - 1) + 1 = i)
  BY <1>1, <1>2
<1>5. \A i \in 1..Len(F) : i + 1 \in 1..Len(F1) /\ i + 1 # 1
  BY <1>1, <1>2
<1>6. AllSame(F1, N1) <=> AllSame(F, N)
  <2>1. Len(F1) = Len(N1) <=> Len(F) = Len(N)
    BY <1>1, <1>2
  <2>2. ASSUME Len(F) = Len(N), NEW i \in 1..Len(F)
        PROVE  Same(F1, N1, i + 1) <=> Same(F, N, i)
    BY <1>2, <2>2 DEF Same
  <2>3. Same(F1, N1, 1)
    BY <1>2 DEF Same
  <2> QED
    BY <1>4, <1>5, <2>1, <2>2, <2>3 DEF AllSame
<1>7. SameToHash(F1, N1) <=> SameToHash(F, N)
  <2>1. F1[Len(F1)] = F[Len(F)]
    <3>1. Len(F) \in 1..Len(F)
      BY <1>1
    <3> QED
      BY <1>2, <3>1
  <2>2. Len(N1) >= Len(F1) - 1 <=> Len(N) >= Len(F) - 1
    BY <1>1, <1>2
  <2>3. ASSUME Len(N) >= Len(F) - 1, NEW i \in 1..(Len(F) - 1)
        PROVE  Same(F1, N1, i + 1) <=> Same(F, N, i)
    <3>1. i \in 1..Len(F) /\ i \in 1..Len(N)
      BY <1>1, <2>3
    <3> QED
      BY <1>2, <3>1 DEF Same
  <2>4. Same(F1, N1, 1)
    BY <1>2 DEF Same
  <2>5. \A i \in 1..(Len(F1) - 1) : i = 1 \/ (i - 1 \in 1..(Len(F) - 1) /\ (i - 1) + 1 = i)
    BY <1>1, <1>2
  <2>6. \A i \in 1..(Len(F) - 1) : i + 1 \in 1..(Len(F1) - 1)
    BY <1>1, <1>2
  <2> QED
    BY <2>1, <2>2, <2>3, <2>4, <2>5, <2>6 DEF SameToHash
<1>8. OnNothing(F1, N1) <=> OnNothing(F, N)
  <2>1. ASSUME NEW i \in 1..Len(F)
        PROVE  /\ F1[i + 1] = F[i]
               /\ (i + 1 > Len(N1) \/ N1[i + 1] = <<>>) <=> (i > Len(N) \/ N[i] = <<>>)
    <3>1. i + 1 > Len(N1) <=> i > Len(N)
      BY <1>1, <1>2
    <3>2. ~(i > Len(N)) => i \in 1..Len(N)
      BY <1>1
    <3> QED
      BY <1>2, <3>1, <3>2
  <2>2. ASSUME OnNothing(F, N) PROVE OnNothing(F1, N1)
    <3>1. PICK i \in 1..Len(F) : F[i] \in {PLUS, HASH} /\ (i > Len(N) \/ N[i] = <<>>)
      BY <2>2 DEF OnNothing
    <3>2. F1[i + 1] \in {PLUS, HASH} /\ (i + 1 > Len(N1) \/ N1[i + 1] = <<>>)
      BY <2>1, <3>1
    <3>3. i + 1 \in 1..Len(F1)
      BY <1>5
    <3> QED
      BY ONLY <3>2, <3>3 DEF OnNothing
  <2>3. ASSUME OnNothing(F1, N1) PROVE OnNothing(F, N)
    <3>1. PICK i \in 1..Len(F1) : F1[i] \in {PLUS, HASH} /\ (i > Len(N1) \/ N1[i] = <<>>)
      BY <2>3 DEF OnNothing
    <3>2. i # 1
      BY <1>3, <3>1
    <3>3. i - 1 \in 1..Len(F) /\ (i - 1) + 1 = i
      BY <1>4, <3>2
    <3>4. F[i - 1] \in {PLUS, HASH} /\ (i - 1 > Len(N) \/ N[i - 1] = <<>>)
      BY <2>1, <3>1, <3>3
    <3> QED
      BY ONLY <3>3, <3>4 DEF OnNothing
  <2> QED
    BY <2>2, <2>3
<1> QED
  BY <1>6, <1>7, <1>8 DEF Meant

\* First levels that mean the same make no difference.
LEMMA MeantAgain ==
  ASSUME NEW C, NEW F \in Split(C), NEW N \in Split(C), NEW F1, NEW N1, NEW v, NEW w,
         Begins(F1, v, F), Begins(N1, w, N), F[1] \notin {PLUS, HASH},
         v # HASH, v = PLUS => w # <<>>,
         (v = PLUS \/ v = w) <=> F[1] = N[1]
  PROVE  Meant(F1, N1) <=> Meant(F, N)
<1>1. Len(F) \in Nat /\ Len(N) \in Nat /\ Len(F) >= 1 /\ Len(N) >= 1
  BY SplitLen
<1>2. /\ Len(F1) = Len(F) /\ F1[1] = v /\ \A k \in 2..Len(F) : F1[k] = F[k]
      /\ Len(N1) = Len(N) /\ N1[1] = w /\ \A k \in 2..Len(N) : N1[k] = N[k]
  BY DEF Begins
<1>3. \A i \in 1..Len(F) : i # 1 => i \in 2..Len(F)
  BY <1>1
<1>4. \A i \in 1..Len(F) : i # 1 => (i \in 2..Len(N) \/ i > Len(N))
  BY <1>1
<1>5. Same(F1, N1, 1) <=> Same(F, N, 1)
  BY <1>2 DEF Same
<1>6. \A i \in 1..Len(F) : i <= Len(N) => (Same(F1, N1, i) <=> Same(F, N, i))
  <2> SUFFICES ASSUME NEW i \in 1..Len(F), i <= Len(N), i # 1
               PROVE  Same(F1, N1, i) <=> Same(F, N, i)
    BY <1>5
  <2>1. i \in 2..Len(F) /\ i \in 2..Len(N)
    BY <1>1
  <2> QED
    BY <1>2, <2>1 DEF Same
<1>7. AllSame(F1, N1) <=> AllSame(F, N)
  <2>1. Len(F) = Len(N) => \A i \in 1..Len(F) : i <= Len(N)
    BY <1>1
  <2> QED
    BY <1>2, <1>6, <2>1 DEF AllSame
<1>8. SameToHash(F1, N1) <=> SameToHash(F, N)
  <2>1. F1[Len(F1)] = HASH <=> F[Len(F)] = HASH
    <3>1. Len(F) = 1 \/ Len(F) \in 2..Len(F)
      <4>1. \A n \in Nat : n >= 1 => n = 1 \/ n \in 2..n
        OBVIOUS
      <4> QED
        BY ONLY <1>1, <4>1
    <3>2. v # HASH /\ F[1] # HASH
      OBVIOUS
    <3>3. CASE Len(F) = 1
      <4>1. Len(F1) = 1 /\ F1[1] = v
        BY <1>2, <3>3
      <4> QED
        BY ONLY <3>2, <3>3, <4>1
    <3>4. CASE Len(F) \in 2..Len(F)
      <4>1. Len(F1) = Len(F) /\ F1[Len(F)] = F[Len(F)]
        BY <1>2, <3>4
      <4> QED
        BY ONLY <4>1
    <3> QED
      BY ONLY <3>1, <3>3, <3>4
  <2>2. Len(N) >= Len(F) - 1 =>
          \A i \in 1..(Len(F) - 1) : i \in 1..Len(F) /\ i <= Len(N)
    BY <1>1
  <2> QED
    BY <1>2, <1>6, <2>1, <2>2 DEF SameToHash
<1>9. OnNothing(F1, N1) <=> OnNothing(F, N)
  <2>1. ASSUME NEW i \in 1..Len(F), i # 1
        PROVE  /\ F1[i] = F[i]
               /\ (i > Len(N1) \/ N1[i] = <<>>) <=> (i > Len(N) \/ N[i] = <<>>)
    BY <1>2, <1>3, <1>4, <2>1
  <2>2. F1[1] \in {PLUS, HASH} => ~(1 > Len(N1) \/ N1[1] = <<>>)
    BY <1>1, <1>2
  <2> QED
    BY <1>2, <2>1, <2>2 DEF OnNothing
<1> QED
  BY <1>7, <1>8, <1>9 DEF Meant

\* A first level that differs, or a wildcard on nothing, is not meant.
LEMMA NotMeant ==
  ASSUME NEW C, NEW F \in Split(C), NEW N \in Split(C),
         IF F[1] \in {PLUS, HASH} THEN N[1] = <<>> ELSE F[1] # N[1]
  PROVE  ~Meant(F, N)
<1>1. Len(F) \in Nat /\ Len(N) \in Nat /\ Len(F) >= 1 /\ Len(N) >= 1
  BY SplitLen
<1>2. 1 \in 1..Len(F)
  BY <1>1
<1>3. CASE F[1] \in {PLUS, HASH}
  BY <1>2, <1>3 DEF Meant, OnNothing
<1>4. CASE F[1] \notin {PLUS, HASH}
  <2>1. ~Same(F, N, 1)
    BY <1>4 DEF Same
  <2>2. ~AllSame(F, N)
    BY <1>2, <2>1 DEF AllSame
  <2>3. ~SameToHash(F, N)
    <3>1. CASE Len(F) = 1
      BY <1>4, <3>1 DEF SameToHash
    <3>2. CASE Len(F) # 1
      <4>1. Len(F) - 1 >= 1 /\ 1 \in 1..(Len(F) - 1)
        <5> DEFINE n == Len(F)
        <5>1. n \in Nat /\ n >= 1 /\ n # 1
          BY <1>1, <3>2
        <5> HIDE DEF n
        <5>2. n - 1 >= 1 /\ 1 \in 1..(n - 1)
          BY ONLY <5>1
        <5> QED
          BY <5>2 DEF n
      <4> QED
        BY <2>1, <4>1 DEF SameToHash
    <3> QED
      BY <3>1, <3>2
  <2> QED
    BY <2>2, <2>3 DEF Meant
<1> QED
  BY <1>3, <1>4

\* A '#' alone means everything that begins with something.
LEMMA MeantByHash ==
  ASSUME NEW C, NEW F \in Split(C), NEW N \in Split(C), Len(F) = 1, F[1] = HASH, N[1] # <<>>
  PROVE  Meant(F, N)
<1>1. Len(N) \in Nat /\ Len(N) >= 1
  BY SplitLen
<1>2. SameToHash(F, N)
  BY <1>1 DEF SameToHash
<1>3. ~OnNothing(F, N)
  BY <1>1 DEF OnNothing
<1> QED
  BY <1>2, <1>3 DEF Meant

-----------------------------------------------------------------------------
(* How the levels from one position and the next are related.                *)

\* What the character at a position does to the levels behind it.
LEMMA LevelsAt ==
  ASSUME NEW C, NEW s \in Seq(C), NEW i \in 1..Len(s)
  PROVE  LET L == LevelsFrom(s) IN
         /\ L[i] \in Split(C) /\ L[i + 1] \in Split(C)
         /\ s[i] = "/" => Apart(L[i], L[i + 1])
         /\ s[i] # "/" => Grown(L[i], s[i], L[i + 1])
<1> DEFINE L == LevelsFrom(s)
<1>1. Len(s) \in Nat /\ s[i] \in C /\ i \in 1..(Len(s) + 1) /\ i + 1 \in 1..(Len(s) + 1)
  OBVIOUS
<1>2. L[i] \in Split(C) /\ L[i + 1] \in Split(C) /\ LevelStep(L[i], s, i, L[i + 1])
  BY <1>1, LevelsDefined
<1> DEFINE l == L[i]  m == L[i + 1]  c == s[i]
<1>3. l = IF c = "/" THEN << <<>> >> \o m ELSE << <<c>> \o m[1] >> \o Tail(m)
  BY <1>2 DEF LevelStep
<1>4. c \in C /\ m \in Split(C)
  BY <1>1, <1>2
<1> HIDE DEF L, l, m, c
<1>5. /\ Apart(<< <<>> >> \o m, m)
      /\ Grown(<< <<c>> \o m[1] >> \o Tail(m), c, m)
  BY ONLY <1>4, SplitStep
<1>6. (c = "/" => Apart(l, m)) /\ (c # "/" => Grown(l, c, m))
  BY ONLY <1>3, <1>5
<1> QED
  BY ONLY <1>2, <1>6 DEF L, l, m, c

\* The levels behind a separator are as well formed as all of them.
LEMMA WellApart ==
  ASSUME NEW C, NEW L \in Split(C), NEW L1, Apart(L1, L), Well(L1)
  PROVE  Well(L)
<1>1. Len(L) \in Nat
  BY SplitLen
<1>2. Len(L1) = Len(L) + 1 /\ \A k \in 1..Len(L) : L1[k + 1] = L[k]
  BY DEF Apart
<1>3. ASSUME NEW i \in 1..Len(L)
      PROVE  /\ Has(L[i], "+") => Len(L[i]) = 1
             /\ Has(L[i], "#") => Len(L[i]) = 1 /\ i = Len(L)
  <2>1. i + 1 \in 1..Len(L1) /\ L1[i + 1] = L[i] /\ (i + 1 = Len(L1) => i = Len(L))
    BY <1>1, <1>2
  <2> QED
    BY <2>1 DEF Well
<1> QED
  BY <1>3 DEF Well

\* A wildcard is alone in its level, and "#" in the last one.
LEMMA WellGrown ==
  ASSUME NEW C, NEW c \in C, NEW L \in Split(C), NEW L1, Grown(L1, c, L), Well(L1)
  PROVE  /\ Well(L) /\ L[1] \notin {PLUS, HASH}
         /\ c \in {"+", "#"} => L[1] = <<>>
         /\ c = "#" => Len(L) = 1
<1> DEFINE v == L[1]  w == <<c>> \o L[1]
<1>1. Len(L) \in Nat /\ Len(L) >= 1 /\ v \in Seq(C) /\ Len(v) \in Nat
  BY SplitLen
<1>2. Len(L1) = Len(L) /\ L1[1] = w /\ \A k \in 2..Len(L) : L1[k] = L[k]
  BY DEF Grown
<1>3. Len(w) = Len(v) + 1 /\ w[1] = c /\ \A k \in 1..Len(v) : w[k + 1] = v[k]
  BY <1>1, Prepended
<1> HIDE DEF v, w
<1>4. 1 \in 1..Len(L1) /\ 1 \in 1..Len(w)
  BY <1>1, <1>2, <1>3
<1>5. ASSUME NEW x, Has(v, x) PROVE Has(w, x) /\ Len(w) # 1
  <2>1. PICK k \in 1..Len(v) : v[k] = x
    BY <1>5 DEF Has
  <2>2. k + 1 \in 1..Len(w) /\ w[k + 1] = x
    BY <1>1, <1>3, <2>1
  <2>3. Len(w) # 1
    BY <1>1, <1>3, <2>1
  <2> QED
    BY <2>2, <2>3 DEF Has
<1>6. Has(w, "+") \/ Has(w, "#") => Len(w) = 1
  BY <1>2, <1>4 DEF Well
<1>7. ~Has(v, "+") /\ ~Has(v, "#")
  BY <1>5, <1>6
<1>8. Well(L)
  <2> SUFFICES ASSUME NEW i \in 1..Len(L)
               PROVE  /\ Has(L[i], "+") => Len(L[i]) = 1
                      /\ Has(L[i], "#") => Len(L[i]) = 1 /\ i = Len(L)
    BY DEF Well
  <2>1. CASE i = 1
    BY <1>7, <2>1 DEF v
  <2>2. CASE i # 1
    <3>1. i \in 2..Len(L) /\ i \in 1..Len(L1)
      BY <1>1, <1>2, <2>2
    <3> QED
      BY <1>2, <3>1 DEF Well
  <2> QED
    BY <2>1, <2>2
<1>9. v \notin {PLUS, HASH}
  <2>1. Has(PLUS, "+") /\ Has(HASH, "#")
    BY DEF Has, PLUS, HASH
  <2> QED
    BY <1>7, <2>1
<1>10. ASSUME c \in {"+", "#"} PROVE v = <<>>
  <2>1. Has(w, c)
    BY <1>3, <1>4 DEF Has
  <2>2. Len(w) = 1
    BY <1>6, <1>10, <2>1
  <2>3. Len(v) = 0
    <3>1. Len(v) \in Nat /\ Len(v) + 1 = 1
      BY <1>1, <1>3, <2>2
    <3> QED
      BY ONLY <3>1
  <2> QED
    BY <1>1, <2>3, EmptySeq
<1>11. ASSUME c = "#" PROVE Len(L) = 1
  <2>1. Has(w, "#")
    BY <1>3, <1>4, <1>11 DEF Has
  <2> QED
    BY <1>2, <1>4, <2>1 DEF Well
<1> QED
  BY <1>8, <1>9, <1>10, <1>11 DEF v

\* A level of a name that is skipped.
LevelEnds(s, n, e) ==
  /\ e \in n..Len(s) /\ (e = Len(s) \/ s[e + 1] = "/")
  /\ \A k \in (n + 1)..e : s[k] # "/"

\* Every level ends somewhere.
LEMMA LevelEndExists ==
  ASSUME NEW C, NEW s \in Seq(C), NEW n \in 1..Len(s)
  PROVE  \E e : LevelEnds(s, n, e)
<1> DEFINE N == Len(s)
           T == {e \in n..N : e = N \/ s[e + 1] = "/"}
<1>1. N \in Nat /\ n \in Nat /\ n <= N /\ n >= 1
  OBVIOUS
<1>2. T \in SUBSET Nat /\ T # {}
  <2>1. N \in T
    BY <1>1
  <2> QED
    BY <1>1, <2>1
<1>3. PICK e \in T : \A m \in T : e <= m
  <2> HIDE DEF T
  <2> QED
    BY <1>2, LeastOf
<1>4. e \in n..N /\ (e = N \/ s[e + 1] = "/")
  OBVIOUS
<1>5. ASSUME NEW k \in (n + 1)..e PROVE s[k] # "/"
  <2>1. k - 1 \in n..N /\ (k - 1) + 1 = k /\ ~(e <= k - 1)
    BY <1>1, <1>4
  <2>2. k - 1 \notin T
    BY <1>3, <2>1
  <2> QED
    BY <2>1, <2>2
<1> QED
  BY <1>4, <1>5 DEF LevelEnds

\* Behind the end of a level that is skipped the other levels are the same.
LEMMA LevelSkipped ==
  ASSUME NEW C, NEW s \in Seq(C), NEW n \in 1..Len(s), NEW e, LevelEnds(s, n, e), s[n] # "/"
  PROVE  LET L == LevelsFrom(s) IN
         /\ e + 1 \in 1..(Len(s) + 1)
         /\ L[n][1] # <<>> /\ L[e + 1][1] = <<>>
         /\ Len(L[n]) = Len(L[e + 1]) /\ \A k \in 2..Len(L[n]) : L[n][k] = L[e + 1][k]
<1> DEFINE L == LevelsFrom(s)
           N == Len(s)
           m == L[e + 1]
<1>1. N \in Nat /\ n \in Nat /\ e \in Nat /\ n >= 1 /\ n <= e /\ e <= N
  BY DEF LevelEnds
<1>2. e + 1 \in 1..(N + 1) /\ n \in 1..(N + 1) /\ n \in 1..(e + 1)
  BY <1>1
<1>3. \A i \in 1..(N + 1) : L[i] \in Split(C)
  BY LevelsDefined
<1>4. \A i \in 1..N : /\ s[i] = "/" => Apart(L[i], L[i + 1])
                      /\ s[i] # "/" => Grown(L[i], s[i], L[i + 1])
  BY LevelsAt
<1>5. L[N + 1] = << <<>> >>
  BY LevelsDefined
<1> HIDE DEF L
<1>6. m[1] = <<>>
  <2>1. CASE e = N
    BY <1>5, <2>1
  <2>2. CASE e # N /\ s[e + 1] = "/"
    <3>1. e + 1 \in 1..N
      BY <1>1, <2>2
    <3> QED
      BY <1>4, <2>2, <3>1 DEF Apart
  <2> QED
    BY <2>1, <2>2 DEF LevelEnds
<1> DEFINE S == {i \in 1..(e + 1) : i >= n => /\ Len(L[i]) = Len(m)
                                              /\ \A k \in 2..Len(m) : L[i][k] = m[k]}
<1>7. e + 1 \in S
  BY <1>1
<1>8. ASSUME NEW i \in 1..e, i + 1 \in S PROVE i \in S
  <2> SUFFICES ASSUME i >= n
               PROVE  Len(L[i]) = Len(m) /\ \A k \in 2..Len(m) : L[i][k] = m[k]
    BY <1>1
  <2>1. i + 1 >= n /\ i \in 1..N /\ (i = n \/ i \in (n + 1)..e)
    BY <1>1
  <2>2. s[i] # "/"
    BY <2>1 DEF LevelEnds
  <2>3. Grown(L[i], s[i], L[i + 1])
    BY <1>4, <2>1, <2>2
  <2>4. Len(L[i + 1]) = Len(m) /\ \A k \in 2..Len(m) : L[i + 1][k] = m[k]
    BY <1>8, <2>1
  <2> HIDE DEF m
  <2> QED
    BY <2>3, <2>4 DEF Grown
<1>9. n \in S
  <2> HIDE DEF S
  <2> QED
    BY <1>1, <1>2, <1>7, <1>8, Backwards
<1>10. Len(L[n]) = Len(m) /\ \A k \in 2..Len(m) : L[n][k] = m[k]
  BY <1>1, <1>9
<1>11. L[n][1] # <<>>
  <2>1. n \in 1..N /\ n + 1 \in 1..(N + 1) /\ s[n] \in C
    BY <1>1
  <2>2. Grown(L[n], s[n], L[n + 1]) /\ L[n + 1] \in Split(C)
    BY <1>3, <1>4, <2>1
  <2>3. L[n + 1][1] \in Seq(C)
    <3>1. /\ Len(L[n + 1]) \in Nat /\ Len(L[n + 1]) >= 1
          /\ \A i \in 1..Len(L[n + 1]) : L[n + 1][i] \in Seq(C)
      BY <2>2, SplitLen
    <3> QED
      BY <3>1
  <2>4. Len(<<s[n]>> \o L[n + 1][1]) = Len(L[n + 1][1]) + 1
    BY <2>1, <2>3, Prepended
  <2>5. Len(L[n + 1][1]) \in Nat
    BY <2>3
  <2>6. L[n][1] = <<s[n]>> \o L[n + 1][1]
    BY <2>2 DEF Grown
  <2>7. Len(L[n][1]) # 0
    BY <2>4, <2>5, <2>6
  <2> QED
    BY <2>7
<1> QED
  BY <1>2, <1>6, <1>10, <1>11 DEF L

-----------------------------------------------------------------------------
(* The loop, from the back.                                                  *)

\* What the loop makes of the rest of the filter from f and of the name from n; row is
\* what it makes of the rest from f + 1.
EndOf(name, n) ==
  CHOOSE m \in n..Len(name) : (m = Len(name) \/ name[m + 1] = "/")
                              /\ \A k \in (n + 1)..m : name[k] # "/"
MatchRest(filter, name, row, f, n) ==
  IF f > Len(filter) \/ n > Len(name) THEN f > Len(filter) /\ n > Len(name)
  ELSE IF name[n] = "/" /\ filter[f] # "/" THEN FALSE
  ELSE IF filter[f] = "#" THEN f = Len(filter)
  ELSE IF filter[f] = "+" THEN row[EndOf(name, n) + 1]
  ELSE filter[f] = name[n] /\ row[n + 1]

\* The CHOOSE of isTopicMatched finds the end of the level.
LEMMA EndOfIs ==
  ASSUME NEW C, NEW name \in Seq(C), NEW n \in 1..Len(name)
  PROVE  LevelEnds(name, n, EndOf(name, n)) /\ EndOf(name, n) + 1 \in 1..(Len(name) + 1)
<1> DEFINE P(m) == (m = Len(name) \/ name[m + 1] = "/") /\ \A k \in (n + 1)..m : name[k] # "/"
           e == EndOf(name, n)
<1>1. \E m \in n..Len(name) : P(m)
  BY LevelEndExists DEF LevelEnds
<1>2. e \in n..Len(name) /\ P(e)
  <2> HIDE DEF P
  <2>1. (CHOOSE m \in n..Len(name) : P(m)) \in n..Len(name) /\ P(CHOOSE m \in n..Len(name) : P(m))
    BY <1>1
  <2>2. e = CHOOSE m \in n..Len(name) : P(m)
    BY DEF EndOf, P
  <2> QED
    BY <2>1, <2>2
<1>3. Len(name) \in Nat /\ n \in Nat /\ n >= 1
  OBVIOUS
<1> HIDE DEF e
<1>4. e + 1 \in 1..(Len(name) + 1)
  BY <1>2, <1>3
<1> QED
  BY <1>2, <1>4 DEF LevelEnds, e

\* The loop answers yes or no.
LEMMA MatchRestBoolean ==
  ASSUME NEW C, NEW filter, NEW name \in Seq(C), NEW row \in [1..(Len(name) + 1) -> BOOLEAN],
         NEW f, NEW n \in 1..(Len(name) + 1)
  PROVE  MatchRest(filter, name, row, f, n) \in BOOLEAN
<1>1. CASE f > Len(filter) \/ n > Len(name)
  BY <1>1 DEF MatchRest
<1>2. CASE ~(f > Len(filter) \/ n > Len(name))
  <2>1. Len(name) \in Nat /\ n \in 1..Len(name) /\ n + 1 \in 1..(Len(name) + 1)
    BY <1>2
  <2>2. EndOf(name, n) + 1 \in 1..(Len(name) + 1)
    BY <2>1, EndOfIs
  <2>3. row[n + 1] \in BOOLEAN /\ row[EndOf(name, n) + 1] \in BOOLEAN
    BY <2>1, <2>2
  <2> QED
    BY <1>2, <2>3 DEF MatchRest
<1> QED
  BY <1>1, <1>2

\* isTopicMatched is what its recursion says.
LEMMA MatchedDefined ==
  ASSUME NEW B, NEW filter \in Seq(B), NEW C, NEW name \in Seq(C)
  PROVE  \E M : /\ isTopicMatched(filter, name) = M[1][1]
                /\ \A f \in 1..(Len(filter) + 1), n \in 1..(Len(name) + 1) :
                     M[f][n] = MatchRest(filter, name, M[f + 1], f, n)
<1> DEFINE F == Len(filter)
           N == Len(name)
           T == [1..(N + 1) -> BOOLEAN]
           Row(r, f) == [n \in 1..(N + 1) |-> MatchRest(filter, name, r, f, n)]
           b == [n \in 1..(N + 1) |-> n > N]
           H == [a \in T \X (1..F) |-> Row(a[1], a[2])]
           Is(g) == g = [f \in 1..(F + 1) |-> Row(g[f + 1], f)]
           M == CHOOSE g : Is(g)
<1>1. F \in Nat /\ N \in Nat
  OBVIOUS
<1>2. ASSUME NEW r \in T, NEW f PROVE Row(r, f) \in T
  BY MatchRestBoolean
<1>3. \A r, n : MatchRest(filter, name, r, F + 1, n) = (n > N)
  <2>1. F + 1 > F
    BY <1>1
  <2> QED
    BY <2>1 DEF MatchRest
<1>4. b \in T /\ \A r : Row(r, F + 1) = b
  <2>1. b \in T
    OBVIOUS
  <2>2. ASSUME NEW r PROVE Row(r, F + 1) = b
    <3> DEFINE v(n) == MatchRest(filter, name, r, F + 1, n)
    <3>1. \A n : v(n) = (n > N)
      BY <1>3
    <3> HIDE DEF v
    <3>2. [n \in 1..(N + 1) |-> v(n)] = b
      BY <3>1, Zenon
    <3> QED
      BY <3>2 DEF v
  <2> QED
    BY <2>1, <2>2
<1>5. H \in [T \X (1..F) -> T] /\ \A r \in T, f \in 1..F : H[<<r, f>>] = Row(r, f)
  <2> HIDE DEF T, Row
  <2>1. \A a \in T \X (1..F) : a[1] \in T
    OBVIOUS
  <2>2. \A a \in T \X (1..F) : Row(a[1], a[2]) \in T
    BY <1>2, <2>1
  <2> QED
    BY <2>2
<1>6. PICK g \in [1..(F + 1) -> T] : BackwardTo(g, F, b, H)
  <2> HIDE DEF T, b, H, F
  <2> QED
    BY <1>1, <1>4, <1>5, BackwardExists
<1>7. Is(g)
  <2> HIDE DEF Row, T, b, H, F
  <2>1. ASSUME NEW f \in 1..(F + 1) PROVE g[f] = Row(g[f + 1], f)
    <3>1. CASE f = F + 1
      BY <1>4, <1>6, <3>1 DEF BackwardTo
    <3>2. CASE f \in 1..F
      <4>1. f + 1 \in 1..(F + 1)
        BY <1>1, <3>2
      <4>2. g[f] = H[<<g[f + 1], f>>] /\ g[f + 1] \in T
        BY <1>6, <3>2, <4>1 DEF BackwardTo
      <4> QED
        BY <1>5, <3>2, <4>2
    <3>3. f = F + 1 \/ f \in 1..F
      BY <1>1
    <3> QED
      BY <3>1, <3>2, <3>3
  <2>2. g = [f \in 1..(F + 1) |-> g[f]]
    BY <1>6
  <2> QED
    BY <2>1, <2>2
<1> HIDE DEF Is
<1>8. Is(M)
  BY <1>7
<1>9. isTopicMatched(filter, name) = M[1][1]
  BY DEF isTopicMatched, M, Is, Row, MatchRest, EndOf
<1> HIDE DEF M
<1>10. ASSUME NEW f \in 1..(F + 1), NEW n \in 1..(N + 1)
       PROVE  M[f][n] = MatchRest(filter, name, M[f + 1], f, n)
  <2>1. M[f] = Row(M[f + 1], f)
    <3> HIDE DEF Row
    <3> QED
      BY <1>8 DEF Is
  <2> QED
    BY <2>1
<1> QED
  BY <1>9, <1>10

\* Where the name has ended a separator of the filter leaves a level without one.
LEMMA NotMeantShort ==
  ASSUME NEW C, NEW F \in Split(C), NEW N \in Split(C), Len(F) >= 2, Len(N) = 1
  PROVE  ~Meant(F, N)
<1>1. Len(F) \in Nat /\ Len(F) >= 2
  BY SplitLen
<1>2. ~AllSame(F, N)
  <2>1. Len(F) # 1
    <3>1. \A n \in Nat : n >= 2 => n # 1
      OBVIOUS
    <3> QED
      BY ONLY <1>1, <3>1
  <2> QED
    BY <2>1 DEF AllSame
<1>3. ASSUME SameToHash(F, N) PROVE OnNothing(F, N)
  <2>1. Len(F) \in 1..Len(F) /\ Len(F) > Len(N)
    <3>1. \A n \in Nat : n >= 2 => n \in 1..n /\ n > 1
      OBVIOUS
    <3> QED
      BY ONLY <1>1, <3>1, Len(N) = 1
  <2>2. F[Len(F)] = HASH
    BY <1>3 DEF SameToHash
  <2> QED
    BY <2>1, <2>2 DEF OnNothing
<1> QED
  BY <1>2, <1>3 DEF Meant

\* A level that begins with a character: what else it can be.
LEMMA Starting ==
  ASSUME NEW C, NEW c \in C, NEW w \in Seq(C)
  PROVE  /\ (<<c>> \o w)[1] = c /\ <<c>> \o w # <<>>
         /\ c # "+" => <<c>> \o w # PLUS
         /\ c # "#" => <<c>> \o w # HASH
         /\ w = <<>> => <<c>> \o w = <<c>>
<1>1. /\ <<c>> \o w \in Seq(C) /\ Len(<<c>> \o w) = Len(w) + 1 /\ (<<c>> \o w)[1] = c
      /\ \A k \in 1..Len(w) : (<<c>> \o w)[k + 1] = w[k]
  BY Prepended
<1>2. <<c>> \o w # <<>>
  <2>1. Len(w) \in Nat
    OBVIOUS
  <2>2. Len(<<c>> \o w) # 0
    BY <1>1, <2>1
  <2> QED
    BY <2>2
<1>3. /\ c # "+" => <<c>> \o w # PLUS
      /\ c # "#" => <<c>> \o w # HASH
  <2>1. PLUS[1] = "+" /\ HASH[1] = "#"
    BY DEF PLUS, HASH
  <2> QED
    BY <1>1, <2>1
<1>4. w = <<>> => <<c>> \o w = <<c>>
  BY ConcatEmptySeq
<1> QED
  BY <1>1, <1>2, <1>3, <1>4

\* Levels that begin with the same character are the same when the rest is.
LEMMA SameBehind ==
  ASSUME NEW C, NEW c \in C, NEW v \in Seq(C), NEW w \in Seq(C)
  PROVE  <<c>> \o v = <<c>> \o w <=> v = w
<1>1. /\ Len(<<c>> \o w) = Len(w) + 1
      /\ \A k \in 1..Len(w) : (<<c>> \o w)[k + 1] = w[k]
  BY Prepended
<1>2. ASSUME <<c>> \o v = <<c>> \o w PROVE v = w
  <2>1. /\ Len(<<c>> \o v) = Len(v) + 1
        /\ \A k \in 1..Len(v) : (<<c>> \o v)[k + 1] = v[k]
    BY Prepended
  <2>2. Len(v) \in Nat /\ Len(w) \in Nat
    OBVIOUS
  <2>3. Len(v) + 1 = Len(w) + 1
    BY <1>1, <1>2, <2>1
  <2>4. Len(v) = Len(w)
    BY ONLY <2>2, <2>3
  <2>5. \A k \in 1..Len(v) : v[k] = w[k]
    BY <1>1, <1>2, <2>1, <2>4
  <2> QED
    BY <2>4, <2>5, SeqEqual
<1> QED
  BY <1>2

\* A level is a wildcard exactly when it begins with one.
LEMMA StartingWild ==
  ASSUME NEW C, NEW c \in C, NEW v \in Seq(C), c \in {"+", "#"} => v = <<>>,
         NEW w, w = <<c>> \o v
  PROVE  /\ c # "+" => w # PLUS
         /\ c # "#" => w # HASH
         /\ c = "+" => w = PLUS
         /\ c = "#" => w = HASH
<1>1. /\ c # "+" => w # PLUS
      /\ c # "#" => w # HASH
      /\ v = <<>> => w = <<c>>
  BY Starting
<1>2. ASSUME c = "+" PROVE w = PLUS
  <2>1. w = <<c>>
    BY <1>1, <1>2
  <2> QED
    BY <1>2, <2>1 DEF PLUS
<1>3. ASSUME c = "#" PROVE w = HASH
  <2>1. w = <<c>>
    BY <1>1, <1>3
  <2> QED
    BY <1>3, <2>1 DEF HASH
<1> QED
  BY <1>1, <1>2, <1>3

\* How the levels begin where something is left.
LEMMA Leading ==
  ASSUME NEW C, NEW s \in Seq(C), NEW i \in 1..Len(s)
  PROVE  LET L == LevelsFrom(s) IN
         /\ s[i] = "/" => L[i][1] = <<>> /\ Len(L[i]) >= 2
         /\ s[i] # "/" => /\ L[i + 1][1] \in Seq(C) /\ L[i][1] = <<s[i]>> \o L[i + 1][1]
                          /\ Begins(L[i], L[i][1], L[i + 1]) /\ L[i][1] # <<>>
<1> DEFINE l == LevelsFrom(s)[i]  m == LevelsFrom(s)[i + 1]
<1>1. /\ l \in Split(C) /\ m \in Split(C) /\ s[i] \in C
      /\ s[i] = "/" => Apart(l, m)
      /\ s[i] # "/" => Grown(l, s[i], m)
  BY LevelsAt
<1> HIDE DEF l, m
<1>2. Len(m) \in Nat /\ Len(m) >= 1 /\ m[1] \in Seq(C)
  BY <1>1, SplitLen
<1>3. ASSUME s[i] = "/" PROVE l[1] = <<>> /\ Len(l) >= 2
  BY <1>1, <1>2, <1>3 DEF Apart
<1>4. ASSUME s[i] # "/"
      PROVE  l[1] = <<s[i]>> \o m[1] /\ Begins(l, l[1], m) /\ l[1] # <<>>
  <2>1. l[1] = <<s[i]>> \o m[1] /\ Begins(l, l[1], m)
    BY <1>1, <1>4 DEF Grown, Begins
  <2>2. <<s[i]>> \o m[1] # <<>>
    BY <1>1, <1>2, Starting
  <2> QED
    BY <2>1, <2>2
<1> QED
  BY <1>2, <1>3, <1>4 DEF l, m

\* One step of the loop: from filter[f] and name[n], or from the end of the name.
LEMMA LoopStep ==
  ASSUME NEW C, NEW filter \in Seq(C), NEW name \in Seq(C), NEW row,
         NEW f \in 1..Len(filter), NEW n \in 1..(Len(name) + 1),
         Well(LevelsFrom(filter)[f]),
         Well(LevelsFrom(filter)[f + 1]) =>
           \A k \in 1..(Len(name) + 1) :
             row[k] <=> Meant(LevelsFrom(filter)[f + 1], LevelsFrom(name)[k])
  PROVE  MatchRest(filter, name, row, f, n) <=> Meant(LevelsFrom(filter)[f], LevelsFrom(name)[n])
<1> DEFINE c == filter[f]
           d == name[n]
           FL == LevelsFrom(filter)
           NL == LevelsFrom(name)
           F1 == FL[f]
           F2 == FL[f + 1]
           N1 == NL[n]
           N2 == NL[n + 1]
           e == EndOf(name, n)
           rest == MatchRest(filter, name, row, f, n)
<1>1. Len(filter) \in Nat /\ Len(name) \in Nat /\ ~(f > Len(filter))
  OBVIOUS
<1>2. /\ F1 \in Split(C) /\ F2 \in Split(C) /\ c \in C
      /\ c = "/" => Apart(F1, F2)
      /\ c # "/" => Grown(F1, c, F2)
  BY LevelsAt
<1>3. /\ c = "/" => F1[1] = <<>> /\ Len(F1) >= 2
      /\ c # "/" => /\ F2[1] \in Seq(C) /\ F1[1] = <<c>> \o F2[1]
                    /\ Begins(F1, F1[1], F2) /\ F1[1] # <<>>
  <2>1. filter \in Seq(C) /\ f \in 1..Len(filter)
    OBVIOUS
  <2> QED
    BY ONLY <2>1, Leading
<1>4. n # Len(name) + 1 =>
        /\ n \in 1..Len(name) /\ N1 \in Split(C) /\ N2 \in Split(C) /\ d \in C
        /\ d = "/" => Apart(N1, N2) /\ N1[1] = <<>>
        /\ d # "/" => /\ N2[1] \in Seq(C) /\ N1[1] = <<d>> \o N2[1]
                      /\ Begins(N1, N1[1], N2) /\ N1[1] # <<>>
  <2> SUFFICES ASSUME n # Len(name) + 1
               PROVE  /\ n \in 1..Len(name) /\ N1 \in Split(C) /\ N2 \in Split(C) /\ d \in C
                      /\ d = "/" => Apart(N1, N2) /\ N1[1] = <<>>
                      /\ d # "/" => /\ N2[1] \in Seq(C) /\ N1[1] = <<d>> \o N2[1]
                                    /\ Begins(N1, N1[1], N2) /\ N1[1] # <<>>
    OBVIOUS
  <2>1. n \in 1..Len(name) /\ d \in C
    BY <1>1
  <2> QED
    BY <2>1, LevelsAt, Leading
<1>5. /\ Well(F2)
      /\ c # "/" => F2[1] \notin {PLUS, HASH}
      /\ c \in {"+", "#"} => F2[1] = <<>>
      /\ c = "#" => Len(F2) = 1
  <2>1. CASE c = "/"
    BY <1>2, <2>1, WellApart
  <2>2. CASE c # "/"
    BY <1>2, <2>2, WellGrown
  <2> QED
    BY <2>1, <2>2
<1>6. \A k \in 1..(Len(name) + 1) : row[k] <=> Meant(F2, NL[k])
  BY <1>5
<1>7. NL[Len(name) + 1] = << <<>> >> /\ NL[Len(name) + 1] \in Split(C)
  BY LevelsDefined
<1>8. c # "/" => /\ c # "+" => F1[1] # PLUS
                 /\ c # "#" => F1[1] # HASH
                 /\ c = "+" => F1[1] = PLUS
                 /\ c = "#" => F1[1] = HASH
  <2> SUFFICES ASSUME c # "/"
               PROVE  /\ c # "+" => F1[1] # PLUS
                      /\ c # "#" => F1[1] # HASH
                      /\ c = "+" => F1[1] = PLUS
                      /\ c = "#" => F1[1] = HASH
    OBVIOUS
  <2>1. c \in C /\ F2[1] \in Seq(C) /\ F1[1] = <<c>> \o F2[1]
    BY <1>2, <1>3
  <2>2. c \in {"+", "#"} => F2[1] = <<>>
    BY <1>5
  <2> HIDE DEF c, F1, F2
  <2> QED
    BY ONLY <2>1, <2>2, StartingWild
<1>9. rest <=> IF n > Len(name) THEN FALSE
               ELSE IF d = "/" /\ c # "/" THEN FALSE
               ELSE IF c = "#" THEN f = Len(filter)
               ELSE IF c = "+" THEN row[e + 1]
               ELSE c = d /\ row[n + 1]
  BY <1>1 DEF MatchRest
<1>10. c = "#" => f = Len(filter)
  <2> SUFFICES ASSUME c = "#", f # Len(filter) PROVE FALSE
    OBVIOUS
  <2>1. f + 1 \in 1..Len(filter) /\ filter \in Seq(C)
    BY <1>1
  <2>2. /\ filter[f + 1] = "/" => Len(F2) >= 2
        /\ filter[f + 1] # "/" => F2[1] # <<>>
    BY ONLY <2>1, Leading
  <2>3. Len(F2) = 1 /\ F2[1] = <<>>
    BY <1>5
  <2> QED
    BY ONLY <2>2, <2>3
<1>11. n # Len(name) + 1 =>
         /\ e + 1 \in 1..(Len(name) + 1) /\ LevelEnds(name, n, e)
         /\ n + 1 \in 1..(Len(name) + 1) /\ ~(n > Len(name))
  <2> SUFFICES ASSUME n # Len(name) + 1
               PROVE  /\ e + 1 \in 1..(Len(name) + 1) /\ LevelEnds(name, n, e)
                      /\ n + 1 \in 1..(Len(name) + 1) /\ ~(n > Len(name))
    OBVIOUS
  <2>1. n \in 1..Len(name) /\ n + 1 \in 1..(Len(name) + 1) /\ ~(n > Len(name))
    BY <1>1
  <2> QED
    BY <2>1, EndOfIs
<1>12. c = "+" /\ n # Len(name) + 1 /\ d # "/" =>
         /\ NL[e + 1] \in Split(C) /\ NL[e + 1][1] = <<>> /\ Begins(N1, N1[1], NL[e + 1])
  <2> SUFFICES ASSUME n # Len(name) + 1, d # "/"
               PROVE  /\ NL[e + 1] \in Split(C) /\ NL[e + 1][1] = <<>>
                      /\ Begins(N1, N1[1], NL[e + 1])
    OBVIOUS
  <2>1. NL[e + 1] \in Split(C)
    BY <1>11, LevelsDefined
  <2>2. /\ NL[e + 1][1] = <<>> /\ Len(N1) = Len(NL[e + 1])
        /\ \A k \in 2..Len(N1) : N1[k] = NL[e + 1][k]
    BY <1>4, <1>11, LevelSkipped
  <2> QED
    BY <2>1, <2>2 DEF Begins
<1>13. n > Len(name) <=> n = Len(name) + 1
  BY <1>1
<1> HIDE DEF rest, c, d, FL, NL, F1, F2, N1, N2, e
<1>14. CASE n = Len(name) + 1
  <2>1. N1 \in Split(C) /\ Len(N1) = 1 /\ N1[1] = <<>>
    BY <1>7, <1>14 DEF N1
  <2>2. ~Meant(F1, N1)
    <3>1. CASE c = "/"
      BY <1>2, <1>3, <2>1, <3>1, NotMeantShort
    <3>2. CASE c # "/"
      BY <1>2, <1>3, <2>1, <3>2, NotMeant
    <3> QED
      BY <3>1, <3>2
  <2> QED
    BY <1>9, <1>13, <1>14, <2>2 DEF rest, F1, N1, FL, NL
<1>15. CASE n # Len(name) + 1
  <2>0. ~(n > Len(name))
    BY <1>13, <1>15
  <2>1. CASE c = "/" /\ d = "/"
    <3>1. Meant(F1, N1) <=> Meant(F2, N2)
      BY <1>2, <1>4, <1>15, <2>1, MeantApart
    <3>2. rest <=> row[n + 1]
      BY <1>9, <2>0, <2>1
    <3>3. row[n + 1] <=> Meant(F2, N2)
      BY <1>6, <1>11, <1>15 DEF N2
    <3> QED
      BY <3>1, <3>2, <3>3 DEF rest, F1, N1, FL, NL
  <2>2. CASE c = "/" /\ d # "/"
    <3>1. ~Meant(F1, N1)
      <4>1. F1[1] = <<>> /\ N1[1] # <<>> /\ <<>> \notin {PLUS, HASH}
        BY <1>3, <1>4, <1>15, <2>2 DEF PLUS, HASH
      <4> QED
        BY <1>2, <1>4, <1>15, <4>1, NotMeant
    <3>2. ~rest
      BY <1>9, <2>0, <2>2
    <3> QED
      BY <3>1, <3>2 DEF rest, F1, N1, FL, NL
  <2>3. CASE c # "/" /\ d = "/"
    <3>1. ~Meant(F1, N1)
      BY <1>2, <1>3, <1>4, <1>15, <2>3, NotMeant
    <3>2. ~rest
      BY <1>9, <2>0, <2>3
    <3> QED
      BY <3>1, <3>2 DEF rest, F1, N1, FL, NL
  <2>4. CASE c # "/" /\ d # "/"
    <3>1. CASE c = "#"
      <4>1. Len(F1) = 1
        BY <1>3, <1>5, <2>4, <3>1 DEF Begins
      <4>2. Meant(F1, N1)
        BY <1>2, <1>4, <1>8, <1>15, <2>4, <3>1, <4>1, MeantByHash
      <4>3. rest
        BY <1>9, <1>10, <2>0, <2>4, <3>1
      <4> QED
        BY <4>2, <4>3 DEF rest, F1, N1, FL, NL
    <3>2. CASE c = "+"
      <4> DEFINE N3 == NL[e + 1]
      <4>1. N3 \in Split(C) /\ N3[1] = <<>> /\ Begins(N1, N1[1], N3) /\ N1[1] # <<>>
        BY <1>4, <1>12, <1>15, <2>4, <3>2
      <4>2. F2[1] = <<>> /\ F1[1] = PLUS /\ PLUS # HASH /\ F2[1] \notin {PLUS, HASH}
        BY <1>5, <1>8, <2>4, <3>2 DEF PLUS, HASH
      <4>3. row[e + 1] <=> Meant(F2, N3)
        BY <1>6, <1>11, <1>15
      <4> HIDE DEF N3
      <4>4. Begins(F1, PLUS, F2)
        BY <1>3, <2>4, <4>2
      <4>5. Meant(F1, N1) <=> Meant(F2, N3)
        BY <1>2, <4>1, <4>2, <4>4, MeantAgain
      <4>6. rest <=> row[e + 1]
        BY <1>9, <2>0, <2>4, <3>2
      <4> QED
        BY <4>3, <4>5, <4>6 DEF rest, F1, N1, FL, NL
    <3>3. CASE c \notin {"#", "+"} /\ c = d
      <4> DEFINE v == F1[1]  w == N1[1]
      <4>1. v # HASH /\ v # PLUS /\ F2[1] \notin {PLUS, HASH}
        BY <1>5, <1>8, <2>4, <3>3
      <4>2. Begins(F1, v, F2) /\ Begins(N1, w, N2)
        BY <1>3, <1>4, <1>15, <2>4
      <4>3. (v = PLUS \/ v = w) <=> F2[1] = N2[1]
        <5> DEFINE fl == F2[1]
                   nl == N2[1]
        <5>1. v = <<c>> \o fl /\ w = <<c>> \o nl
          BY <1>3, <1>4, <1>15, <2>4, <3>3
        <5>2. c \in C /\ fl \in Seq(C) /\ nl \in Seq(C)
          BY ONLY <1>2, <1>3, <1>4, <1>15, <2>4
        <5>3. v # PLUS
          BY ONLY <4>1
        <5> HIDE DEF fl, nl
        <5>4. <<c>> \o fl = <<c>> \o nl <=> fl = nl
          <6>1. ASSUME <<c>> \o fl = <<c>> \o nl PROVE fl = nl
            BY ONLY <5>2, <6>1, SameBehind
          <6>2. ASSUME fl = nl PROVE <<c>> \o fl = <<c>> \o nl
            BY ONLY <6>2
          <6> QED
            BY ONLY <6>1, <6>2
        <5>5. (v = PLUS \/ v = w) <=> fl = nl
          BY ONLY <5>1, <5>3, <5>4
        <5> QED
          BY ONLY <5>5 DEF fl, nl
      <4> HIDE DEF v, w
      <4>4. Meant(F1, N1) <=> Meant(F2, N2)
        BY <1>2, <1>4, <1>15, <4>1, <4>2, <4>3, MeantAgain
      <4>5. row[n + 1] <=> Meant(F2, N2)
        BY <1>6, <1>11, <1>15 DEF N2
      <4>6. rest <=> row[n + 1]
        BY <1>9, <2>0, <2>4, <3>3
      <4> QED
        BY <4>4, <4>5, <4>6 DEF rest, F1, N1, FL, NL
    <3>4. CASE c \notin {"#", "+"} /\ c # d
      <4>1. F1[1] \notin {PLUS, HASH}
        BY <1>8, <2>4, <3>4
      <4>2. F1[1][1] = c /\ N1[1][1] = d
        <5>1. /\ c \in C /\ F2[1] \in Seq(C) /\ F1[1] = <<c>> \o F2[1]
              /\ d \in C /\ N2[1] \in Seq(C) /\ N1[1] = <<d>> \o N2[1]
          BY <1>2, <1>3, <1>4, <1>15, <2>4
        <5>2. (<<c>> \o F2[1])[1] = c /\ (<<d>> \o N2[1])[1] = d
          BY ONLY <5>1, Starting
        <5> QED
          BY ONLY <5>1, <5>2
      <4>3. ~Meant(F1, N1)
        BY <1>2, <1>4, <1>15, <3>4, <4>1, <4>2, NotMeant
      <4>4. ~rest
        BY <1>9, <2>0, <2>4, <3>4
      <4> QED
        BY <4>3, <4>4 DEF rest, F1, N1, FL, NL
    <3> QED
      BY <3>1, <3>2, <3>3, <3>4
  <2> QED
    BY <2>1, <2>2, <2>3, <2>4
<1> QED
  BY <1>14, <1>15

\* The loop matches what is meant.
LEMMA MatchedByLevels ==
  ASSUME NEW C, NEW filter \in Seq(C), NEW name \in Seq(C), Well(LevelsFrom(filter)[1])
  PROVE  isTopicMatched(filter, name) <=> Meant(LevelsFrom(filter)[1], LevelsFrom(name)[1])
<1> DEFINE F == Len(filter)
           N == Len(name)
           FL == LevelsFrom(filter)
           NL == LevelsFrom(name)
<1>1. F \in Nat /\ N \in Nat /\ 1 \in 1..(F + 1) /\ 1 \in 1..(N + 1)
  OBVIOUS
<1>2. PICK M : /\ isTopicMatched(filter, name) = M[1][1]
               /\ \A f \in 1..(F + 1), n \in 1..(N + 1) :
                    M[f][n] = MatchRest(filter, name, M[f + 1], f, n)
  BY MatchedDefined
<1> DEFINE S == {f \in 1..(F + 1) :
                   Well(FL[f]) => \A n \in 1..(N + 1) : M[f][n] <=> Meant(FL[f], NL[n])}
<1>3. F + 1 \in S
  <2>1. F + 1 \in 1..(F + 1) /\ F + 1 > F
    BY <1>1
  <2>2. ASSUME NEW n \in 1..(N + 1) PROVE M[F + 1][n] <=> Meant(FL[F + 1], NL[n])
    <3>1. M[F + 1][n] <=> n > N
      BY <1>2, <2>1 DEF MatchRest
    <3>2. /\ FL[F + 1] = << <<>> >> /\ FL[F + 1] \in Split(C)
          /\ NL[N + 1] = << <<>> >> /\ NL[n] \in Split(C)
      BY <1>1, <2>1, LevelsDefined
    <3> DEFINE v == FL[F + 1]  w == NL[n]
    <3>5. Len(w) \in Nat
      BY <3>2, SplitLen
    <3>3. CASE n = N + 1
      <4>1. v = << <<>> >> /\ w = << <<>> >>
        BY <3>2, <3>3
      <4> HIDE DEF v, w
      <4>2. Meant(v, w)
        <5>1. v = w /\ Len(v) = 1 /\ v[1] = <<>> /\ v[1] \notin {PLUS, HASH}
          BY <4>1 DEF PLUS, HASH
        <5>2. AllSame(v, w)
          BY <5>1 DEF AllSame, Same
        <5>3. ~OnNothing(v, w)
          BY <5>1 DEF OnNothing
        <5> QED
          BY <5>2, <5>3 DEF Meant
      <4>3. n > N
        BY <1>1, <3>3
      <4> QED
        BY <3>1, <4>2, <4>3 DEF v, w
    <3>4. CASE n # N + 1
      <4>1. n \in 1..N /\ ~(n > N)
        BY <1>1, <3>4
      <4>2. ~AllSame(v, w) /\ ~SameToHash(v, w)
        <5>1. \/ NL[n][1] = <<>> /\ Len(NL[n]) >= 2
              \/ NL[n][1] # <<>>
          BY <4>1, Leading
        <5>2. v = << <<>> >> /\ (w[1] # <<>> \/ Len(w) >= 2)
          BY <3>2, <5>1
        <5> HIDE DEF v, w
        <5>3. Len(v) = 1 /\ v[1] = <<>> /\ v[1] \notin {PLUS, HASH}
          BY <5>2 DEF PLUS, HASH
        <5>4. ~SameToHash(v, w)
          BY <5>3 DEF SameToHash
        <5>5. ~AllSame(v, w)
          <6>1. CASE w[1] # <<>>
            BY <5>3, <6>1 DEF AllSame, Same
          <6>2. CASE Len(w) >= 2
            <7>1. \A m \in Nat : m >= 2 => m # 1
              OBVIOUS
            <7>2. Len(w) # 1
              BY ONLY <3>5, <6>2, <7>1
            <7> QED
              BY ONLY <5>3, <7>2 DEF AllSame
          <6> QED
            BY <5>2, <6>1, <6>2
        <5> QED
          BY <5>4, <5>5
      <4> QED
        BY <3>1, <4>1, <4>2 DEF Meant
    <3> QED
      BY <3>3, <3>4
  <2> QED
    BY <2>1, <2>2
<1>4. ASSUME NEW f \in 1..F, f + 1 \in S PROVE f \in S
  <2>1. f \in 1..(F + 1) /\ f + 1 \in 1..(F + 1)
    BY <1>1
  <2> SUFFICES ASSUME Well(FL[f]), NEW n \in 1..(N + 1)
               PROVE  M[f][n] <=> Meant(FL[f], NL[n])
    BY <2>1
  <2>2. Well(FL[f + 1]) => \A k \in 1..(N + 1) : M[f + 1][k] <=> Meant(FL[f + 1], NL[k])
    BY <1>4
  <2>3. M[f][n] = MatchRest(filter, name, M[f + 1], f, n)
    BY <1>2, <2>1
  <2>4. MatchRest(filter, name, M[f + 1], f, n) <=> Meant(FL[f], NL[n])
    <3> HIDE DEF S
    <3> QED
      BY <2>2, LoopStep
  <2> QED
    BY <2>3, <2>4
<1>5. 1 \in S
  <2> HIDE DEF S
  <2> QED
    BY <1>1, <1>3, <1>4, Backwards
<1>6. M[1][1] <=> Meant(FL[1], NL[1])
  BY <1>1, <1>5
<1> QED
  BY <1>2, <1>6

\* Equal strings have equal levels, and no wildcard is on nothing.
LEMMA EqualMeant ==
  ASSUME NEW C, NEW filter \in Seq(C), NEW name \in Seq(C),
         MQTTPacket_equals(name, filter), Well(LevelsFrom(filter)[1])
  PROVE  Meant(LevelsFrom(filter)[1], LevelsFrom(name)[1])
<1>1. name = filter
  BY SeqEqual DEF MQTTPacket_equals
<1> DEFINE L == LevelsFrom(filter)[1]
<1>2. L \in Split(C)
  <2>1. Len(filter) \in Nat
    OBVIOUS
  <2>2. 1 \in 1..(Len(filter) + 1)
    BY <2>1
  <2> QED
    BY <2>2, LevelsDefined
<1> HIDE DEF L
<1>3. Len(L) \in Nat
  BY <1>2, SplitLen
<1>4. AllSame(L, L)
  BY DEF AllSame, Same
<1>5. ~OnNothing(L, L)
  <2> SUFFICES ASSUME NEW i \in 1..Len(L), L[i] \in {PLUS, HASH}
               PROVE  ~(i > Len(L)) /\ L[i] # <<>>
    BY DEF OnNothing
  <2>1. ~(i > Len(L))
    BY <1>3
  <2>2. L[i] # <<>>
    <3>1. <<>> \notin {PLUS, HASH}
      BY DEF PLUS, HASH
    <3> QED
      BY <3>1
  <2> QED
    BY <2>1, <2>2
<1> QED
  BY <1>1, <1>4, <1>5 DEF Meant, L

\* What a filter means, and Meant.
LEMMA MeansMeant ==
  ASSUME NEW C, NEW filter \in Seq(C), NEW name \in Seq(C)
  PROVE  LET F == LevelsFrom(filter)[1]
             N == LevelsFrom(name)[1]
         IN /\ WellFormed(filter) <=> Well(F)
            /\ FilterMatches(filter, name) /\ ~WildcardOnNothing(filter, name) <=> Meant(F, N)
<1> DEFINE F == LevelsFrom(filter)[1]
           N == LevelsFrom(name)[1]
<1>1. F \in Split(C) /\ N \in Split(C)
  <2>1. Len(filter) \in Nat /\ Len(name) \in Nat
    OBVIOUS
  <2>2. 1 \in 1..(Len(filter) + 1) /\ 1 \in 1..(Len(name) + 1)
    BY <2>1
  <2> QED
    BY <2>2, LevelsDefined
<1>2. Levels(filter) = F /\ Levels(name) = N
  BY DEF Levels
<1> HIDE DEF F, N
<1>3. DOMAIN F = 1..Len(F) /\ Last(F) = F[Len(F)]
  BY <1>1 DEF Split, Last
<1>4. \A w, c : Contains(w, c) <=> Has(w, c)
  BY DEF Contains, Has
<1>5. WellFormed(filter) <=> Well(F)
  BY <1>2, <1>3, <1>4 DEF WellFormed, Well
<1>6. FilterMatches(filter, name) <=> AllSame(F, N) \/ SameToHash(F, N)
  BY <1>2, <1>3 DEF FilterMatches, AllSame, SameToHash, Same, PLUS, HASH
<1>7. WildcardOnNothing(filter, name) <=> OnNothing(F, N)
  BY <1>2, <1>3 DEF WildcardOnNothing, OnNothing, PLUS, HASH
<1> QED
  BY <1>5, <1>6, <1>7 DEF Meant, F, N

\* What deliverMessage tests is what the filter means.
LEMMA ForHandlerRight ==
  ASSUME NEW C, NEW filter \in Seq(C), NEW name \in Seq(C), WellFormed(filter)
  PROVE  ForHandler(filter, name) <=> /\ FilterMatches(filter, name)
                                      /\ ~WildcardOnNothing(filter, name)
BY MatchedByLevels, EqualMeant, MeansMeant DEF ForHandler

-----------------------------------------------------------------------------
(* The suffix of a topic, and its third level.                               *)

\* A level is alone exactly when no separator follows, and is then the rest.
LEMMA LastLevel ==
  ASSUME NEW C, NEW s \in Seq(C), NEW i \in 1..(Len(s) + 1)
  PROVE  LET l == LevelsFrom(s)[i] IN
         /\ Len(l) = 1 => /\ Len(l[1]) = Len(s) + 1 - i
                          /\ \A k \in i..Len(s) : l[1][k - i + 1] = s[k]
         /\ (\A k \in i..Len(s) : s[k] # "/") => Len(l) = 1
<1> DEFINE N == Len(s)
           L == LevelsFrom(s)
           P(j) == /\ Len(L[j]) = 1 => /\ Len(L[j][1]) = N + 1 - j
                                       /\ \A k \in j..N : L[j][1][k - j + 1] = s[k]
                   /\ (\A k \in j..N : s[k] # "/") => Len(L[j]) = 1
           S == {j \in 1..(N + 1) : P(j)}
<1>1. N \in Nat /\ 1..(N + 1) \subseteq Int
  OBVIOUS
<1>2. N + 1 \in S
  <2>1. L[N + 1] = << <<>> >> /\ Len(<<>>) = 0
    BY LevelsDefined
  <2>2. Len(L[N + 1]) = 1 /\ L[N + 1][1] = <<>>
    BY <2>1
  <2>3. N + 1 \in 1..(N + 1) /\ N + 1 - (N + 1) = 0 /\ \A k : k \notin (N + 1)..N
    BY <1>1
  <2> HIDE DEF L
  <2> QED
    BY <2>1, <2>2, <2>3
<1>3. ASSUME NEW j \in 1..N, j + 1 \in S PROVE j \in S
  <2> DEFINE l == L[j]  m == L[j + 1]
  <2>1. /\ l \in Split(C) /\ m \in Split(C) /\ s[j] \in C
        /\ s[j] = "/" => Apart(l, m)
        /\ s[j] # "/" => Grown(l, s[j], m)
    BY LevelsAt
  <2>2. P(j + 1)
    BY <1>3
  <2>3. Len(m) \in Nat /\ Len(m) >= 1 /\ m[1] \in Seq(C)
    BY <2>1, SplitLen
  <2>4. j \in 1..(N + 1) /\ j \in j..N /\ \A k \in (j + 1)..N : k \in j..N
    BY <1>1
  <2> HIDE DEF L, S
  <2>5. CASE s[j] = "/"
    <3>1. Len(l) # 1
      <4>1. Len(l) = Len(m) + 1
        BY <2>1, <2>5 DEF Apart
      <4> QED
        BY <2>3, <4>1
    <3>2. P(j)
      BY <2>4, <2>5, <3>1
    <3> QED
      BY <2>4, <3>2 DEF S
  <2>6. CASE s[j] # "/"
    <3>1. Len(l) = Len(m) /\ l[1] = <<s[j]>> \o m[1]
      BY <2>1, <2>6 DEF Grown
    <3>2. /\ Len(<<s[j]>> \o m[1]) = Len(m[1]) + 1 /\ (<<s[j]>> \o m[1])[1] = s[j]
          /\ \A k \in 1..Len(m[1]) : (<<s[j]>> \o m[1])[k + 1] = m[1][k]
      BY <2>1, <2>3, Prepended
    <3>3. (\A k \in j..N : s[k] # "/") => Len(l) = 1
      BY <2>2, <2>4, <3>1
    <3>4. ASSUME Len(l) = 1
          PROVE  Len(l[1]) = N + 1 - j /\ \A k \in j..N : l[1][k - j + 1] = s[k]
      <4>1. Len(m[1]) = N + 1 - (j + 1) /\ \A k \in (j + 1)..N : m[1][k - (j + 1) + 1] = s[k]
        BY <2>2, <3>1, <3>4
      <4>2. Len(l[1]) = N + 1 - j
        <5>1. Len(l[1]) = Len(m[1]) + 1
          BY ONLY <3>1, <3>2
        <5>2. N + 1 - (j + 1) + 1 = N + 1 - j
          BY <1>1
        <5> QED
          BY ONLY <4>1, <5>1, <5>2
      <4>3. ASSUME NEW k \in j..N PROVE l[1][k - j + 1] = s[k]
        <5>1. CASE k = j
          <6>1. k - j + 1 = 1
            BY <5>1
          <6> QED
            BY <3>1, <3>2, <5>1, <6>1
        <5>2. CASE k # j
          <6>1. /\ k \in (j + 1)..N /\ k - (j + 1) + 1 \in 1..(N + 1 - (j + 1))
                /\ (k - (j + 1) + 1) + 1 = k - j + 1
            BY <1>1, <5>2
          <6>2. k - (j + 1) + 1 \in 1..Len(m[1])
            BY <4>1, <6>1
          <6>3. (<<s[j]>> \o m[1])[(k - (j + 1) + 1) + 1] = m[1][k - (j + 1) + 1]
            BY ONLY <3>2, <6>2
          <6>4. l[1][k - j + 1] = m[1][k - (j + 1) + 1]
            BY ONLY <3>1, <6>1, <6>3
          <6>5. m[1][k - (j + 1) + 1] = s[k]
            BY ONLY <4>1, <6>1
          <6> QED
            BY ONLY <6>4, <6>5
        <5> QED
          BY <5>1, <5>2
      <4> QED
        BY <4>2, <4>3
    <3>5. P(j)
      BY <3>3, <3>4
    <3> QED
      BY <2>4, <3>5 DEF S
  <2> QED
    BY <2>5, <2>6
<1>4. i \in S
  <2> HIDE DEF S
  <2> QED
    BY <1>1, <1>2, <1>3, Backwards
<1> QED
  BY <1>4

\* What is behind the appid: the third level begins where the suffix does.
LEMMA ThirdLevel ==
  ASSUME NEW C, NEW s \in Seq(C), s[1] = "/", Len(Levels(s)) >= 3
  PROVE  \E p \in 2..Len(s) :
           /\ Suffix(s) = SubSeq(s, p + 1, Len(s))
           /\ Levels(s)[3] = LevelsFrom(s)[p + 1][1]
           /\ Len(Levels(s)) = Len(LevelsFrom(s)[p + 1]) + 2
<1> DEFINE N == Len(s)
           L == LevelsFrom(s)
           slashes == {i \in 2..N : s[i] = "/"}
<1>1. N \in Nat /\ Levels(s) = L[1]
  BY DEF Levels
<1>2. /\ \A i \in 1..(N + 1) : L[i] \in Split(C) /\ Len(L[i]) \in Nat /\ Len(L[i]) >= 1
      /\ L[N + 1] = << <<>> >> /\ Len(L[N + 1]) = 1
  <2>1. /\ \A i \in 1..(N + 1) : L[i] \in Split(C)
        /\ L[N + 1] = << <<>> >>
    BY LevelsDefined
  <2>2. Len(<< <<>> >>) = 1
    OBVIOUS
  <2> HIDE DEF L
  <2>3. Len(L[N + 1]) = 1
    BY ONLY <2>1, <2>2
  <2> QED
    BY <2>1, <2>3, SplitLen
<1>3. \A i \in 1..N : /\ s[i] = "/" => Apart(L[i], L[i + 1])
                      /\ s[i] # "/" => Grown(L[i], s[i], L[i + 1])
  BY LevelsAt
<1>4. 1 \in 1..N
  <2>1. N # 0
    <3>1. Len(L[1]) >= 3
      BY <1>1
    <3>2. N = 0 => N + 1 = 1
      BY <1>1
    <3>3. ~(1 >= 3)
      OBVIOUS
    <3> HIDE DEF L
    <3> QED
      BY ONLY <1>2, <3>1, <3>2, <3>3
  <2> QED
    BY <1>1, <2>1
<1>5. Apart(L[1], L[2])
  <2>1. 1 + 1 = 2
    OBVIOUS
  <2> HIDE DEF L
  <2> QED
    BY <1>3, <1>4, <2>1
<1>6. \A e : LevelEnds(s, 2, e) /\ 2 \in 1..N /\ s[2] # "/" =>
        /\ e + 1 \in 1..(N + 1) /\ Len(L[2]) = Len(L[e + 1])
        /\ \A k \in 2..Len(L[2]) : L[2][k] = L[e + 1][k]
  BY LevelSkipped
<1>7. Len(L[2]) >= 2 /\ Len(L[1]) = Len(L[2]) + 1 /\ L[1][3] = L[2][2]
  <2>1. 2 \in 1..(N + 1)
    BY <1>1, <1>4
  <2>2. Len(L[2]) \in Nat /\ Len(L[1]) >= 3 /\ Len(L[1]) = Len(L[2]) + 1
    BY <1>1, <1>2, <1>5, <2>1 DEF Apart
  <2> DEFINE n == Len(L[2])
  <2>3. Len(L[2]) >= 2 /\ 2 \in 1..Len(L[2]) /\ 2 + 1 = 3
    <3>1. \A n1 \in Nat : n1 + 1 >= 3 => n1 >= 2 /\ 2 \in 1..n1 /\ 2 + 1 = 3
      OBVIOUS
    <3>2. Len(L[2]) + 1 >= 3
      BY ONLY <2>2
    <3> QED
      BY ONLY <2>2, <3>1, <3>2
  <2>4. \A k \in 1..Len(L[2]) : L[1][k + 1] = L[2][k]
    BY <1>5 DEF Apart
  <2>5. L[1][2 + 1] = L[2][2]
    BY ONLY <2>3, <2>4
  <2> QED
    BY ONLY <2>2, <2>3, <2>5
<1> HIDE DEF L
<1>8. 2 \in 1..N
  <2>1. CASE N = 1
    <3>1. N + 1 = 2
      BY <2>1
    <3>2. Len(L[2]) = 1
      BY ONLY <1>2, <3>1
    <3> QED
      BY ONLY <1>7, <3>2
  <2>2. CASE N # 1
    <3>1. \A n \in Nat : 1 \in 1..n /\ n # 1 => 2 \in 1..n
      OBVIOUS
    <3> QED
      BY ONLY <1>1, <1>4, <2>2, <3>1
  <2> QED
    BY <2>1, <2>2
<1>9. PICK p \in slashes : \A j \in slashes : p <= j
  <2>1. slashes # {}
    <3> SUFFICES ASSUME slashes = {} PROVE FALSE
      OBVIOUS
    <3>1. s[2] # "/" /\ LevelEnds(s, 2, N)
      BY <1>1, <1>8 DEF LevelEnds
    <3>2. Len(L[2]) = 1
      BY <1>2, <1>6, <1>8, <3>1
    <3> QED
      BY ONLY <1>7, <3>2
  <2>2. slashes \in SUBSET Nat
    OBVIOUS
  <2> HIDE DEF slashes
  <2> QED
    BY <2>1, <2>2, LeastOf
<1>10. p \in 2..N /\ s[p] = "/" /\ \A k \in 2..(p - 1) : s[k] # "/"
  <2>1. p \in 2..N /\ s[p] = "/"
    OBVIOUS
  <2>2. ASSUME NEW k \in 2..(p - 1), s[k] = "/" PROVE FALSE
    <3>1. k \in slashes
      BY <1>1, <2>1, <2>2
    <3> QED
      BY <1>9, <2>1, <3>1
  <2> QED
    BY <2>1, <2>2
<1>11. Suffix(s) = SubSeq(s, p + 1, N)
  <2> DEFINE q == CHOOSE i \in slashes : \A j \in slashes : i <= j
  <2>1. q \in slashes /\ \A j \in slashes : q <= j
    <3> HIDE DEF slashes
    <3> QED
      BY <1>9
  <2>2. q = p
    <3>1. q <= p /\ p <= q /\ p \in Int /\ q \in Int
      BY <1>9, <2>1
    <3> HIDE DEF q
    <3> QED
      BY <3>1
  <2>3. Suffix(s) = SubSeq(s, 1 + q, N)
    <3>1. slashes # {}
      BY <1>9
    <3> QED
      BY <3>1 DEF Suffix
  <2>4. 1 + p = p + 1
    BY <1>10
  <2> HIDE DEF q
  <2> QED
    BY <2>2, <2>3, <2>4
<1>12. Len(L[2]) = Len(L[p]) /\ L[2][2] = L[p][2]
  <2>1. CASE p = 2
    BY <2>1
  <2>2. CASE p # 2
    <3>1. LevelEnds(s, 2, p - 1) /\ s[2] # "/" /\ (p - 1) + 1 = p
      BY <1>1, <1>10, <2>2 DEF LevelEnds
    <3>2. 2 \in 2..Len(L[2])
      <4>1. Len(L[2]) \in Nat
        BY <1>1, <1>2, <1>8
      <4>2. \A n \in Nat : n >= 2 => 2 \in 2..n
        OBVIOUS
      <4> QED
        BY ONLY <1>7, <4>1, <4>2
    <3> QED
      BY <1>6, <1>8, <3>1, <3>2
  <2> QED
    BY <2>1, <2>2
<1>13. Len(L[p]) = Len(L[p + 1]) + 1 /\ L[p][2] = L[p + 1][1]
  <2>1. p \in 1..N /\ p + 1 \in 1..(N + 1)
    BY <1>1, <1>10
  <2>2. Apart(L[p], L[p + 1])
    BY <1>3, <1>10, <2>1
  <2>3. Len(L[p + 1]) \in Nat /\ Len(L[p + 1]) >= 1
    BY <1>2, <2>1
  <2>4. 1 \in 1..Len(L[p + 1]) /\ 1 + 1 = 2
    <3>1. \A n \in Nat : n >= 1 => 1 \in 1..n
      OBVIOUS
    <3> QED
      BY ONLY <2>3, <3>1
  <2> QED
    BY ONLY <2>2, <2>4 DEF Apart
<1>14. Len(L[1]) = Len(L[p + 1]) + 2
  <2>1. Len(L[p + 1]) \in Nat
    BY <1>1, <1>2, <1>10
  <2>2. \A n \in Nat : (n + 1) + 1 = n + 2
    OBVIOUS
  <2> QED
    BY ONLY <1>7, <1>12, <1>13, <2>1, <2>2
<1>15. /\ p \in 2..Len(s) /\ Suffix(s) = SubSeq(s, p + 1, Len(s))
       /\ Levels(s)[3] = LevelsFrom(s)[p + 1][1]
       /\ Len(Levels(s)) = Len(LevelsFrom(s)[p + 1]) + 2
  BY ONLY <1>1, <1>7, <1>10, <1>11, <1>12, <1>13, <1>14 DEF L
<1> QED
  BY <1>15

\* The characters behind a position.
LEMMA SuffixAt ==
  ASSUME NEW C, NEW s \in Seq(C), NEW p \in 2..Len(s)
  PROVE  LET u == SubSeq(s, p + 1, Len(s)) IN
         /\ u \in Seq(C) /\ Len(u) \in Nat /\ Len(u) = Len(s) - p
         /\ \A k \in 1..Len(u) : u[k] = s[p + k]
OBVIOUS

\* A level of two characters.
LEMMA Pair ==
  ASSUME NEW C, NEW w \in Seq(C), NEW x, NEW y
  PROVE  w = <<x, y>> <=> Len(w) = 2 /\ w[1] = x /\ w[2] = y
<1>1. ASSUME Len(w) = 2, w[1] = x, w[2] = y PROVE w = <<x, y>>
  <2>0. \A t \in Seq(C) : Len(t) = 2 => t[1] \in C /\ t[2] \in C
    OBVIOUS
  <2>1. x \in C /\ y \in C
    BY <1>1, <2>0
  <2>2. <<x, y>> \in Seq(C) /\ Len(<<x, y>>) = 2 /\ <<x, y>>[1] = x /\ <<x, y>>[2] = y
    BY <2>1
  <2>3. \A k \in 1..2 : k = 1 \/ k = 2
    OBVIOUS
  <2> DEFINE v == <<x, y>>
  <2> HIDE DEF v
  <2>4. v \in Seq(C) /\ Len(v) = 2 /\ v[1] = x /\ v[2] = y
    BY <2>2 DEF v
  <2>5. \A k \in 1..Len(w) : w[k] = v[k]
    BY <1>1, <2>3, <2>4
  <2>6. w = v
    BY <1>1, <2>4, <2>5, SeqEqual
  <2> QED
    BY <2>6 DEF v
<1> QED
  BY <1>1

\* The first character of the suffix is that of the level, and a name of two characters
\* is all of the suffix when it is the last level.
LEMMA SuffixNamed ==
  ASSUME NEW C, NEW s \in Seq(C), NEW p \in 2..Len(s)
  PROVE  LET u == SubSeq(s, p + 1, Len(s))
             l == LevelsFrom(s)[p + 1]
         IN /\ u # <<>> /\ u[1] = "&" <=> l[1] # <<>> /\ l[1][1] = "&"
            /\ \A x : x # "/" => (u = <<"&", x>> <=> l[1] = <<"&", x>> /\ Len(l) = 1)
<1> DEFINE N == Len(s)
           L == LevelsFrom(s)
           u == SubSeq(s, p + 1, N)
           l == L[p + 1]
<1>1. N \in Nat /\ p \in Nat /\ p <= N /\ p + 1 \in 1..(N + 1)
  OBVIOUS
<1>2. /\ u \in Seq(C) /\ Len(u) \in Nat /\ Len(u) = N - p
      /\ \A k \in 1..Len(u) : u[k] = s[p + k]
  BY SuffixAt
<1>3. l \in Split(C) /\ l[1] \in Seq(C) /\ L[N + 1] = << <<>> >>
  <2>1. l \in Split(C) /\ L[N + 1] = << <<>> >>
    BY <1>1, LevelsDefined
  <2>2. \A i \in 1..Len(l) : l[i] \in Seq(C)
    BY <2>1, SplitLen
  <2>3. Len(l) \in Nat /\ Len(l) >= 1
    BY <2>1, SplitLen
  <2> HIDE DEF l, L
  <2>4. 1 \in 1..Len(l)
    BY <2>3
  <2> QED
    BY <2>1, <2>2, <2>4
<1>4. /\ Len(l) = 1 => /\ Len(l[1]) = N + 1 - (p + 1)
                       /\ \A k \in (p + 1)..N : l[1][k - (p + 1) + 1] = s[k]
      /\ (\A k \in (p + 1)..N : s[k] # "/") => Len(l) = 1
  BY <1>1, LastLevel
<1>5. p + 1 \in 1..N =>
        /\ s[p + 1] = "/" => l[1] = <<>>
        /\ s[p + 1] # "/" => /\ L[p + 1 + 1][1] \in Seq(C)
                             /\ l[1] = <<s[p + 1]>> \o L[p + 1 + 1][1] /\ l[1] # <<>>
  BY Leading
<1>6. u # <<>> /\ u[1] = "&" <=> l[1] # <<>> /\ l[1][1] = "&"
  <2>1. CASE p = N
    <3>1. Len(u) = 0
      BY <1>1, <1>2, <2>1
    <3>2. u = <<>>
      BY <1>2, <3>1, EmptySeq
    <3>3. l[1] = <<>>
      <4>1. l = << <<>> >>
        BY <1>3, <2>1
      <4> HIDE DEF l
      <4> QED
        BY <4>1
    <3> QED
      BY ONLY <3>2, <3>3
  <2>2. CASE p # N
    <3>1. p + 1 \in 1..N /\ 1 \in 1..Len(u) /\ Len(u) # 0
      BY <1>1, <1>2, <2>2
    <3>2. u[1] = s[p + 1] /\ u # <<>>
      <4>1. u[1] = s[p + 1]
        BY <1>2, <3>1
      <4>2. u # <<>>
        <5> HIDE DEF u
        <5> QED
          BY <3>1
      <4> QED
        BY <4>1, <4>2
    <3>3. CASE s[p + 1] = "/"
      <4>1. l[1] = <<>>
        BY <1>5, <3>1, <3>3
      <4> HIDE DEF u, l
      <4> QED
        BY <3>2, <3>3, <4>1
    <3>4. CASE s[p + 1] # "/"
      <4> DEFINE w == L[p + 1 + 1][1]
      <4>1. w \in Seq(C) /\ l[1] = <<s[p + 1]>> \o w /\ l[1] # <<>> /\ s[p + 1] \in C
        BY <1>5, <3>1, <3>4
      <4> HIDE DEF w, u, l
      <4>2. (<<s[p + 1]>> \o w)[1] = s[p + 1]
        BY <4>1, Prepended
      <4> QED
        BY ONLY <3>2, <4>1, <4>2
    <3> QED
      BY <3>3, <3>4
  <2> QED
    BY <2>1, <2>2
<1> HIDE DEF u, l, L
<1>7. ASSUME NEW x, x # "/"
      PROVE  u = <<"&", x>> <=> l[1] = <<"&", x>> /\ Len(l) = 1
  <2>1. u = <<"&", x>> <=> Len(u) = 2 /\ u[1] = "&" /\ u[2] = x
    <3>1. u \in Seq(C)
      BY <1>2
    <3> DEFINE a == "&"
    <3>2. \A b : u = <<a, b>> <=> Len(u) = 2 /\ u[1] = a /\ u[2] = b
      <4> HIDE DEF a
      <4> QED
        BY ONLY <3>1, Pair
    <3> QED
      BY ONLY <3>2
  <2>2. l[1] = <<"&", x>> <=> Len(l[1]) = 2 /\ l[1][1] = "&" /\ l[1][2] = x
    <3> DEFINE a == "&"  v == l[1]
    <3>1. v \in Seq(C)
      BY <1>3
    <3>2. \A b : v = <<a, b>> <=> Len(v) = 2 /\ v[1] = a /\ v[2] = b
      <4> HIDE DEF a, v
      <4> QED
        BY ONLY <3>1, Pair
    <3> QED
      BY ONLY <3>2
  <2>3. ASSUME N = p + 2
        PROVE  /\ (p + 1)..N = {p + 1, p + 2} /\ 1 \in 1..Len(u) /\ 2 \in 1..Len(u)
               /\ (p + 1) - (p + 1) + 1 = 1 /\ (p + 2) - (p + 1) + 1 = 2
    BY <1>1, <1>2, <2>3
  <2>4. Len(u) = 2 <=> N = p + 2
    BY <1>1, <1>2
  <2>5. N + 1 - (p + 1) = 2 <=> N = p + 2
    BY <1>1
  <2>6. N = p + 2 => u[1] = s[p + 1] /\ u[2] = s[p + 2]
    BY <1>2, <2>3
  <2>7. Len(l) = 1 /\ N = p + 2 => l[1][1] = s[p + 1] /\ l[1][2] = s[p + 2]
    BY <1>4, <2>3
  <2>8. ASSUME Len(u) = 2, u[1] = "&", u[2] = x
        PROVE  Len(l) = 1 /\ Len(l[1]) = 2 /\ l[1][1] = "&" /\ l[1][2] = x
    <3>1. \A k \in (p + 1)..N : s[k] # "/"
      BY <1>7, <2>3, <2>4, <2>6, <2>8
    <3> QED
      BY <1>4, <2>4, <2>5, <2>6, <2>7, <2>8, <3>1
  <2>9. ASSUME Len(l) = 1, Len(l[1]) = 2, l[1][1] = "&", l[1][2] = x
        PROVE  Len(u) = 2 /\ u[1] = "&" /\ u[2] = x
    BY <1>4, <2>4, <2>5, <2>6, <2>7, <2>9
  <2> QED
    BY ONLY <2>1, <2>2, <2>8, <2>9
<1> QED
  BY <1>6, <1>7 DEF u, l, L

\* Behind an appid the callback is the one the third level names.
LEMMA DispatchRight ==
  ASSUME NEW C, NEW topic \in Seq(C), NEW callbacks, topic[1] = "/", Len(Levels(topic)) >= 3
  PROVE  LET value == defaultMsgHandler(topic, callbacks)
             name == Levels(topic)[3]
             control == name # <<>> /\ name[1] = "&"
             exactly(nm) == name = nm /\ Len(Levels(topic)) = 3
         IN /\ value = "message" <=> ~control /\ "message" \in callbacks
            /\ value = "present" <=> exactly(<<"&", "P">>) /\ "present" \in callbacks
            /\ value = "absent" <=> exactly(<<"&", "A">>) /\ "absent" \in callbacks
<1> DEFINE N == Len(topic)
           name == Levels(topic)[3]
           all == Len(Levels(topic))
           u == Suffix(topic)
<1>1. PICK p \in 2..N :
        /\ Suffix(topic) = SubSeq(topic, p + 1, N)
        /\ Levels(topic)[3] = LevelsFrom(topic)[p + 1][1]
        /\ Len(Levels(topic)) = Len(LevelsFrom(topic)[p + 1]) + 2
  BY ThirdLevel
<1> DEFINE l == LevelsFrom(topic)[p + 1]
<1>2. /\ u # <<>> /\ u[1] = "&" <=> l[1] # <<>> /\ l[1][1] = "&"
      /\ \A x : x # "/" => (u = <<"&", x>> <=> l[1] = <<"&", x>> /\ Len(l) = 1)
  BY <1>1, SuffixNamed
<1>3. name = l[1] /\ all = Len(l) + 2 /\ Len(l) \in Nat
  <2>1. p + 1 \in 1..(N + 1)
    OBVIOUS
  <2>2. l \in Split(C)
    BY <2>1, LevelsDefined
  <2> QED
    BY <1>1, <2>2, SplitLen
<1> HIDE DEF l, name, all, u
<1>4. all = 3 <=> Len(l) = 1
  <2>1. \A n \in Nat : n + 2 = 3 <=> n = 1
    OBVIOUS
  <2> QED
    BY ONLY <1>3, <2>1
<1> DEFINE control == name # <<>> /\ name[1] = "&"
           P == name = <<"&", "P">> /\ all = 3
           A == name = <<"&", "A">> /\ all = 3
<1>5. /\ u # <<>> /\ u[1] = "&" <=> control
      /\ u = <<"&", "P">> <=> P
      /\ u = <<"&", "A">> <=> A
  <2>1. "P" # "/" /\ "A" # "/"
    OBVIOUS
  <2> QED
    BY <1>2, <1>3, <1>4, <2>1
<1>6. /\ P => control
      /\ A => control
      /\ ~(P /\ A)
  <2>1. \A x : <<"&", x>> # <<>> /\ <<"&", x>>[1] = "&" /\ <<"&", x>>[2] = x
    OBVIOUS
  <2> QED
    BY <2>1
<1> DEFINE chosen == IF control
                     THEN IF P THEN "present" ELSE IF A THEN "absent" ELSE "none"
                     ELSE "message"
<1>7. defaultMsgHandler(topic, callbacks) = IF chosen \in callbacks THEN chosen ELSE "none"
  <2>1. ~(topic # <<>> /\ topic[1] = "@")
    OBVIOUS
  <2> HIDE DEF control, P, A
  <2> QED
    BY <1>5, <2>1 DEF defaultMsgHandler, u
<1> DEFINE value == IF chosen \in callbacks THEN chosen ELSE "none"
<1>8. /\ value = "message" <=> ~control /\ "message" \in callbacks
      /\ value = "present" <=> P /\ "present" \in callbacks
      /\ value = "absent" <=> A /\ "absent" \in callbacks
  <2> HIDE DEF control, P, A
  <2> QED
    BY <1>6
<1> QED
  BY <1>7, <1>8 DEF name, all

-----------------------------------------------------------------------------
(* Answers of the authentication server, for any chunks of any lengths. The  *)
(* last lemmas, ReadAtOnce and AnswerRead, are what the theorem needs.       *)

LEMMA MinIs ==
  ASSUME NEW T \in SUBSET Nat, T # {}
  PROVE  /\ Min(T) \in T /\ \A n \in T : Min(T) <= n
         /\ \A m \in T : (\A n \in T : m <= n) => Min(T) = m
<1>1. PICK m \in T : \A n \in T : m <= n
  BY LeastOf
<1>2. Min(T) \in T /\ \A n \in T : Min(T) <= n
  BY <1>1, Zenon DEF Min
<1>3. ASSUME NEW k \in T, \A n \in T : k <= n PROVE Min(T) = k
  <2>1. Min(T) <= k /\ k <= Min(T) /\ Min(T) \in Nat /\ k \in Nat
    BY <1>2, <1>3
  <2> QED
    BY <2>1
<1> QED
  BY <1>2, <1>3

LEMMA EndsAre ==
  ASSUME NEW b \in Seq(Nat)
  PROVE  /\ Len(b) \in Nat /\ Ends(b) \in SUBSET Nat
         /\ \A i : i \in Ends(b) <=> /\ i \in Nat /\ i >= 1 /\ i + 1 <= Len(b)
                                     /\ b[i] = CR /\ b[i + 1] = LF
         /\ \A i, j \in Ends(b) : i < j => i + 2 <= j
<1>1. Len(b) \in Nat
  OBVIOUS
<1>2. \A i : i \in Ends(b) <=> i \in 1..(Len(b) - 1) /\ b[i] = CR /\ b[i + 1] = LF
  BY DEF Ends
<1>3. \A i : i \in 1..(Len(b) - 1) <=> i \in Nat /\ i >= 1 /\ i + 1 <= Len(b)
  BY <1>1
<1>4. \A i, j \in Ends(b) : i < j => i + 2 <= j
  <2> SUFFICES ASSUME NEW i \in Ends(b), NEW j \in Ends(b), i < j, ~(i + 2 <= j) PROVE FALSE
    OBVIOUS
  <2>1. i \in Nat /\ j \in Nat /\ b[i + 1] = 10 /\ b[j] = 13
    BY <1>2, <1>3 DEF CR, LF
  <2>2. j = i + 1
    BY <2>1
  <2> QED
    BY <2>1, <2>2
<1> QED
  BY <1>1, <1>2, <1>3, <1>4

\* The line that ends at i begins at k.
Starts(b, i, k) ==
  /\ k \in Nat /\ k >= 1
  /\ k = 1 \/ (k - 2 \in Ends(b) /\ k - 2 < i)
  /\ \A j \in Ends(b) : j < i => j + 2 <= k

LEMMA LineFromIs ==
  ASSUME NEW b \in Seq(Nat), NEW i \in Nat
  PROVE  Starts(b, i, LineFrom(b, i)) /\ \A k : Starts(b, i, k) => k = LineFrom(b, i)
<1> DEFINE before == {j \in Ends(b) : j < i}
           k0 == LineFrom(b, i)
<1>1. k0 = IF before = {} THEN 1 ELSE Max(before) + 2
  BY DEF LineFrom
<1>2. /\ \A j \in Ends(b) : j \in Nat /\ j >= 1
      /\ \A j, l \in Ends(b) : j < l => j + 2 <= l
  BY EndsAre
<1>3. Starts(b, i, k0)
  <2>1. CASE before = {}
    BY <1>1, <2>1 DEF Starts
  <2>2. CASE before # {}
    <3>1. before \in SUBSET (0..i)
      BY <1>2
    <3>2. PICK m \in before : \A j \in before : j <= m
      <4> HIDE DEF before
      <4> QED
        BY <2>2, <3>1, GreatestOf
    <3>3. Max(before) \in before /\ \A j \in before : Max(before) >= j
      <4>1. \A j \in before : m >= j
        BY <1>2, <3>2
      <4> HIDE DEF before
      <4> QED
        BY ONLY <3>2, <4>1, Zenon DEF Max
    <3> DEFINE x == Max(before)
    <3>4. k0 = x + 2 /\ x \in Ends(b) /\ x < i /\ x \in Nat /\ \A j \in Ends(b) : j < i => x >= j
      BY <1>1, <1>2, <2>2, <3>3
    <3> HIDE DEF x, k0
    <3>5. k0 \in Nat /\ k0 >= 1 /\ k0 - 2 = x
      BY <3>4
    <3>6. \A j \in Ends(b) : j < i => j + 2 <= k0
      BY <1>2, <3>4
    <3> QED
      BY <3>4, <3>5, <3>6 DEF Starts
  <2> QED
    BY <2>1, <2>2
<1> HIDE DEF k0
<1>4. ASSUME NEW k, Starts(b, i, k) PROVE k = k0
  <2>1. k \in Nat /\ k0 \in Nat /\ k >= 1 /\ k0 >= 1
    BY <1>3, <1>4 DEF Starts
  <2>2. k <= k0
    <3>1. CASE k = 1
      BY <2>1, <3>1
    <3>2. CASE k # 1
      <4>1. k - 2 \in Ends(b) /\ k - 2 < i
        BY <1>4, <3>2 DEF Starts
      <4>2. (k - 2) + 2 <= k0
        BY <1>3, <4>1 DEF Starts
      <4> QED
        BY <2>1, <4>2
    <3> QED
      BY <3>1, <3>2
  <2>3. k0 <= k
    <3>1. CASE k0 = 1
      BY <2>1, <3>1
    <3>2. CASE k0 # 1
      <4>1. k0 - 2 \in Ends(b) /\ k0 - 2 < i
        BY <1>3, <3>2 DEF Starts
      <4>2. (k0 - 2) + 2 <= k
        BY <1>4, <4>1 DEF Starts
      <4> QED
        BY <2>1, <4>2
    <3> QED
      BY <3>1, <3>2
  <2> QED
    BY <2>1, <2>2, <2>3
<1> QED
  BY <1>3, <1>4 DEF k0

LEMMA LineIs == ASSUME NEW b, NEW i PROVE Line(b, i) = SubSeq(b, LineFrom(b, i), i - 1)
BY DEF Line

LEMMA RestIsLine == ASSUME NEW b PROVE Rest(b) = Line(b, Len(b) + 1)
BY DEF Rest

LEMMA RestIs ==
  ASSUME NEW b
  PROVE  Rest(b) = SubSeq(b, LineFrom(b, Len(b) + 1), Len(b) + 1 - 1)
BY LineIs, RestIsLine

\* A stretch of s that is found in t, o further behind.
LEMMA SameCut ==
  ASSUME NEW s \in Seq(Nat), NEW t \in Seq(Nat), NEW o \in Nat,
         NEW a \in Nat, NEW z \in Nat, a >= 1, z <= Len(s), o + z <= Len(t), a <= z + 1,
         \A i \in a..z : s[i] = t[o + i]
  PROVE  SubSeq(s, a, z) = SubSeq(t, o + a, o + z)
<1> DEFINE u == SubSeq(s, a, z)  v == SubSeq(t, o + a, o + z)  m == z - a + 1
<1>0. Len(s) \in Nat /\ Len(t) \in Nat /\ m \in Nat
  OBVIOUS
<1>1. /\ u \in Seq(Nat) /\ Len(u) = m /\ \A i \in 1..m : u[i] = s[a + i - 1]
  <2>1. a \in Int /\ z \in Int /\ \A i \in a..z : s[i] \in Nat
    OBVIOUS
  <2>2. (IF a <= z THEN z - a + 1 ELSE 0) = m
    OBVIOUS
  <2> QED
    BY ONLY <2>1, <2>2, SubSeqProperties
<1>2. /\ v \in Seq(Nat) /\ Len(v) = m /\ \A i \in 1..m : v[i] = t[(o + a) + i - 1]
  <2> DEFINE aa == o + a  zz == o + z
  <2>1. aa \in Int /\ zz \in Int /\ \A i \in aa..zz : t[i] \in Nat
    BY <1>0
  <2>2. (IF aa <= zz THEN zz - aa + 1 ELSE 0) = m /\ zz - aa + 1 = m
    BY <1>0
  <2> HIDE DEF aa, zz, m
  <2>3. /\ SubSeq(t, aa, zz) \in Seq(Nat) /\ Len(SubSeq(t, aa, zz)) = m
        /\ \A i \in 1..m : SubSeq(t, aa, zz)[i] = t[aa + i - 1]
    BY ONLY <2>1, <2>2, SubSeqProperties
  <2> QED
    BY ONLY <2>3 DEF aa, zz
<1>3. ASSUME NEW i \in 1..m PROVE s[a + i - 1] = t[(o + a) + i - 1]
  <2>1. a + i - 1 \in a..z /\ o + (a + i - 1) = (o + a) + i - 1
    BY <1>0
  <2> HIDE DEF m
  <2> QED
    BY <2>1
<1> HIDE DEF u, v, m
<1>4. Len(u) = Len(v) /\ \A i \in 1..Len(u) : u[i] = v[i]
  BY ONLY <1>1, <1>2, <1>3
<1>5. u = v
  BY ONLY <1>1, <1>2, <1>4, SeqEqual
<1> QED
  BY ONLY <1>5 DEF u, v

\* d is b and a chunk more, q what is kept of b and the chunk; o is what is not kept.
More(b, c, d, q, o) ==
  /\ b \in Seq(Nat) /\ c \in Seq(Nat)
  /\ d = b \o c /\ q = Rest(b) \o c /\ o = LineFrom(b, Len(b) + 1) - 1

LEMMA RestAndMore ==
  ASSUME NEW b, NEW c, NEW d, NEW q, NEW o, More(b, c, d, q, o)
  PROVE  /\ b \in Seq(Nat) /\ d \in Seq(Nat) /\ q \in Seq(Nat)
         /\ Len(b) \in Nat /\ Len(c) \in Nat /\ o \in Nat /\ o <= Len(b)
         /\ Len(d) = Len(b) + Len(c) /\ Len(q) = Len(d) - o
         /\ Starts(b, Len(b) + 1, o + 1)
         /\ \A i \in 1..Len(b) : d[i] = b[i]
         /\ \A x \in 1..Len(q) : q[x] = d[o + x]
<1>1. /\ b \in Seq(Nat) /\ c \in Seq(Nat) /\ Len(b) \in Nat /\ Len(c) \in Nat
      /\ d = b \o c /\ q = Rest(b) \o c /\ o = LineFrom(b, Len(b) + 1) - 1
  BY DEF More
<1>2. Starts(b, Len(b) + 1, LineFrom(b, Len(b) + 1)) /\ Len(b) + 1 \in Nat
  BY <1>1, LineFromIs
<1> DEFINE k == LineFrom(b, Len(b) + 1)  r == SubSeq(b, k, Len(b))
<1>3. k = o + 1 /\ k \in Nat /\ k >= 1 /\ k <= Len(b) + 1
  <2>1. k \in Nat /\ k >= 1 /\ (k = 1 \/ k - 2 \in Ends(b))
    BY <1>2 DEF Starts
  <2>2. k - 2 \in Ends(b) => (k - 2) + 1 <= Len(b)
    BY <1>1, EndsAre
  <2> HIDE DEF k
  <2>3. k <= Len(b) + 1
    BY <1>1, <2>1, <2>2
  <2>4. k = o + 1
    BY <1>1, <2>1 DEF k
  <2> QED
    BY <2>1, <2>3, <2>4
<1>4. o \in Nat /\ o <= Len(b) /\ Starts(b, Len(b) + 1, o + 1)
  BY <1>1, <1>2, <1>3
<1>5. q = r \o c
  <2>1. Len(b) + 1 - 1 = Len(b)
    BY <1>1
  <2>2. Rest(b) = SubSeq(b, k, Len(b) + 1 - 1)
    BY RestIs
  <2> HIDE DEF k
  <2>3. Rest(b) = r
    BY ONLY <2>1, <2>2
  <2> QED
    BY ONLY <1>1, <2>3
<1> HIDE DEF k
<1>6. r \in Seq(Nat) /\ Len(r) = Len(b) - o /\ \A i \in 1..(Len(b) - o) : r[i] = b[k + i - 1]
  <2>1. k \in Int /\ Len(b) \in Int /\ \A i \in k..Len(b) : b[i] \in Nat
    BY <1>1, <1>3
  <2>2. (IF k <= Len(b) THEN Len(b) - k + 1 ELSE 0) = Len(b) - o /\ Len(b) - k + 1 = Len(b) - o
    BY <1>1, <1>3, <1>4
  <2> QED
    BY ONLY <2>1, <2>2, SubSeqProperties
<1> HIDE DEF r
<1>j. ASSUME NEW s \in Seq(Nat), NEW t \in Seq(Nat)
      PROVE  /\ s \o t \in Seq(Nat) /\ Len(s \o t) = Len(s) + Len(t)
             /\ \A i \in 1..Len(s) : (s \o t)[i] = s[i]
             /\ \A i \in 1..Len(t) : (s \o t)[Len(s) + i] = t[i]
  BY Joined, JoinedAt
<1>s. b \in Seq(Nat) /\ c \in Seq(Nat) /\ d = b \o c
  BY ONLY <1>1
<1>7. d \in Seq(Nat) /\ Len(d) = Len(b) + Len(c) /\ \A i \in 1..Len(b) : d[i] = b[i]
  BY ONLY <1>j, <1>s
<1>8. \A i \in 1..Len(c) : d[Len(b) + i] = c[i]
  BY ONLY <1>j, <1>s
<1>t. r \in Seq(Nat) /\ c \in Seq(Nat) /\ q = r \o c
  BY ONLY <1>5, <1>6, <1>s
<1>9. q \in Seq(Nat) /\ Len(q) = Len(r) + Len(c) /\ \A i \in 1..Len(r) : q[i] = r[i]
  BY ONLY <1>j, <1>t
<1>10. \A i \in 1..Len(c) : q[Len(r) + i] = c[i]
  BY ONLY <1>j, <1>t
<1>11. Len(q) = Len(d) - o
  BY <1>1, <1>4, <1>6, <1>7, <1>9
<1>12. ASSUME NEW x \in 1..Len(q) PROVE q[x] = d[o + x]
  <2> DEFINE B == Len(b)  C == Len(c)  R == Len(r)
  <2>0. /\ B \in Nat /\ C \in Nat /\ R \in Nat /\ o \in Nat /\ k \in Nat /\ x \in Nat
        /\ k = o + 1 /\ R = B - o /\ x >= 1 /\ x <= R + C
    BY <1>1, <1>3, <1>4, <1>6, <1>9
  <2> HIDE DEF B, C, R
  <2>1. CASE x <= R
    <3>1. x \in 1..R /\ o + x \in 1..B /\ k + x - 1 = o + x
      BY ONLY <2>0, <2>1
    <3>2. q[x] = r[x] /\ r[x] = b[k + x - 1] /\ d[o + x] = b[o + x]
      BY ONLY <1>6, <1>7, <1>9, <2>0, <3>1 DEF B, R
    <3> QED
      BY ONLY <3>1, <3>2
  <2>2. CASE x > R
    <3>1. x - R \in 1..C /\ R + (x - R) = x /\ B + (x - R) = o + x
      BY ONLY <2>0, <2>2
    <3>2. q[R + (x - R)] = c[x - R] /\ d[B + (x - R)] = c[x - R]
      BY ONLY <1>8, <1>10, <3>1 DEF B, C, R
    <3> QED
      BY ONLY <3>1, <3>2
  <2> QED
    BY ONLY <2>0, <2>1, <2>2
<1> QED
  BY <1>1, <1>4, <1>7, <1>9, <1>11, <1>12

LEMMA EndsOfMore ==
  ASSUME NEW b, NEW c, NEW d, NEW q, NEW o, More(b, c, d, q, o)
  PROVE  /\ \A i \in Ends(b) : i \in Ends(d) /\ i + 1 <= o
         /\ \A i \in Ends(d) : i <= o => i \in Ends(b)
         /\ \A x \in Nat : x >= 1 => (x \in Ends(q) <=> o + x \in Ends(d))
<1> DEFINE B == Len(b)  D == Len(d)  Q == Len(q)
<1>1. /\ b \in Seq(Nat) /\ d \in Seq(Nat) /\ q \in Seq(Nat)
      /\ B \in Nat /\ D \in Nat /\ Q \in Nat /\ o \in Nat /\ o <= B /\ B <= D /\ Q = D - o
      /\ Starts(b, B + 1, o + 1)
  <2>1. /\ b \in Seq(Nat) /\ d \in Seq(Nat) /\ q \in Seq(Nat)
        /\ B \in Nat /\ Len(c) \in Nat /\ o \in Nat /\ o <= B
        /\ D = B + Len(c) /\ Q = D - o /\ Starts(b, B + 1, o + 1)
    BY RestAndMore
  <2> HIDE DEF B, D, Q
  <2>2. D \in Nat /\ Q \in Nat /\ B <= D
    BY ONLY <2>1
  <2> QED
    BY ONLY <2>1, <2>2
<1>n. B \in Nat /\ D \in Nat /\ Q \in Nat /\ o \in Nat /\ o <= B /\ B <= D /\ Q = D - o
  BY ONLY <1>1
<1>b. \A i \in 1..B : d[i] = b[i]
  BY RestAndMore
<1>q. \A x \in 1..Q : q[x] = d[o + x]
  BY RestAndMore
<1>2. \A i : i \in Ends(b) <=> /\ i \in Nat /\ i >= 1 /\ i + 1 <= B
                               /\ b[i] = CR /\ b[i + 1] = LF
  BY <1>1, EndsAre
<1>3. \A i : i \in Ends(d) <=> /\ i \in Nat /\ i >= 1 /\ i + 1 <= D
                               /\ d[i] = CR /\ d[i + 1] = LF
  BY <1>1, EndsAre
<1>4. \A i : i \in Ends(q) <=> /\ i \in Nat /\ i >= 1 /\ i + 1 <= Q
                               /\ q[i] = CR /\ q[i + 1] = LF
  BY <1>1, EndsAre
<1>s. /\ o + 1 = 1 \/ (o + 1) - 2 \in Ends(b)
      /\ \A j \in Ends(b) : j < B + 1 => j + 2 <= o + 1
  BY <1>1 DEF Starts
<1> HIDE DEF B, D, Q
<1>5. ASSUME NEW i \in Ends(b) PROVE i \in Ends(d) /\ i + 1 <= o
  <2>1. i \in Nat /\ i >= 1 /\ i + 1 <= B /\ b[i] = CR /\ b[i + 1] = LF
    BY <1>2
  <2>2. i \in 1..B /\ i + 1 \in 1..B /\ i + 1 <= D /\ i < B + 1
    BY ONLY <1>n, <2>1
  <2>3. d[i] = CR /\ d[i + 1] = LF
    BY ONLY <1>b, <2>1, <2>2
  <2>4. i \in Ends(d)
    BY ONLY <1>3, <2>1, <2>2, <2>3
  <2>5. i + 2 <= o + 1
    BY <1>s, <2>2
  <2>6. i + 1 <= o
    BY ONLY <1>n, <2>1, <2>5
  <2> QED
    BY <2>4, <2>6
<1>6. ASSUME NEW i \in Ends(d), i <= o PROVE i \in Ends(b)
  <2>1. i \in Nat /\ i >= 1 /\ d[i] = CR /\ d[i + 1] = LF
    BY <1>3
  <2>2. i # o
    <3> SUFFICES ASSUME i = o PROVE FALSE
      OBVIOUS
    <3>1. o + 1 # 1 /\ ((o + 1) - 2) + 1 = o /\ o \in 1..B
      BY ONLY <1>n, <2>1, i = o
    <3>2. b[((o + 1) - 2) + 1] = LF
      BY ONLY <1>s, <1>2, <3>1
    <3>3. b[o] = LF
      BY ONLY <3>1, <3>2
    <3>4. d[o] = CR /\ d[o] = b[o]
      BY ONLY <1>b, <2>1, <3>1, i = o
    <3> QED
      BY ONLY <3>3, <3>4 DEF CR, LF
  <2>3. i + 1 <= B /\ i \in 1..B /\ i + 1 \in 1..B
    BY ONLY <1>n, <1>6, <2>1, <2>2
  <2>4. b[i] = CR /\ b[i + 1] = LF
    BY ONLY <1>b, <2>1, <2>3
  <2> QED
    BY ONLY <1>2, <2>1, <2>3, <2>4
<1>7. ASSUME NEW x \in Nat, x >= 1 PROVE x \in Ends(q) <=> o + x \in Ends(d)
  <2>0. x \in Nat /\ x >= 1
    BY <1>7
  <2>1. o + x \in Nat /\ o + x >= 1 /\ (x + 1 <= Q <=> (o + x) + 1 <= D)
        /\ o + (x + 1) = (o + x) + 1
    BY ONLY <1>n, <2>0
  <2>2. ASSUME x + 1 <= Q PROVE q[x] = d[o + x] /\ q[x + 1] = d[(o + x) + 1]
    <3>1. x \in 1..Q /\ x + 1 \in 1..Q
      BY ONLY <1>n, <2>0, <2>2
    <3>2. q[x] = d[o + x] /\ q[x + 1] = d[o + (x + 1)]
      BY ONLY <1>q, <3>1
    <3> QED
      BY ONLY <2>1, <3>2
  <2> QED
    BY ONLY <1>3, <1>4, <2>0, <2>1, <2>2
<1> QED
  BY <1>5, <1>6, <1>7

\* A line begins before its end, or where it ends when it is empty.
LEMMA LineBegins ==
  ASSUME NEW b \in Seq(Nat), NEW i, i \in Ends(b) \/ i = Len(b) + 1
  PROVE  /\ i \in Nat /\ i >= 1 /\ i - 1 <= Len(b) /\ i - 1 \in Nat
         /\ LineFrom(b, i) \in Nat /\ LineFrom(b, i) >= 1 /\ LineFrom(b, i) <= i
         /\ Starts(b, i, LineFrom(b, i))
<1>1. /\ Len(b) \in Nat
      /\ \A j : j \in Ends(b) => j \in Nat /\ j >= 1 /\ j + 1 <= Len(b)
      /\ \A j, l \in Ends(b) : j < l => j + 2 <= l
  BY EndsAre
<1>2. i \in Nat /\ i >= 1 /\ i - 1 <= Len(b) /\ i - 1 \in Nat
  BY <1>1
<1> DEFINE k == LineFrom(b, i)
<1>3. Starts(b, i, k)
  BY <1>2, LineFromIs
<1> HIDE DEF k
<1>4. k \in Nat /\ k >= 1 /\ (k = 1 \/ (k - 2 \in Ends(b) /\ k - 2 < i))
  BY <1>3 DEF Starts
<1>5. k <= i
  <2>1. CASE k = 1
    BY ONLY <1>2, <2>1
  <2>2. CASE k # 1 /\ i \in Ends(b)
    <3>1. (k - 2) + 2 <= i
      BY ONLY <1>1, <1>4, <2>2
    <3> QED
      BY ONLY <1>2, <1>4, <3>1
  <2>3. CASE k # 1 /\ i = Len(b) + 1
    <3>1. (k - 2) + 1 <= Len(b)
      BY ONLY <1>1, <1>4, <2>3
    <3> QED
      BY ONLY <1>1, <1>4, <2>3, <3>1
  <2> QED
    BY <2>1, <2>2, <2>3
<1> QED
  BY <1>2, <1>3, <1>4, <1>5 DEF k

LEMMA LinesOfMore ==
  ASSUME NEW b, NEW c, NEW d, NEW q, NEW o, More(b, c, d, q, o)
  PROVE  /\ \A i \in Ends(b) : Line(d, i) = Line(b, i)
         /\ \A x : x \in Ends(q) \/ x = Len(q) + 1 =>
              LineFrom(d, o + x) = o + LineFrom(q, x) /\ Line(d, o + x) = Line(q, x)
<1> DEFINE B == Len(b)  D == Len(d)  Q == Len(q)
<1>s. b \in Seq(Nat) /\ d \in Seq(Nat) /\ q \in Seq(Nat)
  BY RestAndMore
<1>n. B \in Nat /\ D \in Nat /\ Q \in Nat /\ o \in Nat /\ o <= B /\ B <= D /\ Q = D - o
  <2>1. B \in Nat /\ Len(c) \in Nat /\ o \in Nat /\ o <= B /\ D = B + Len(c) /\ Q = D - o
    BY RestAndMore
  <2> HIDE DEF B, D, Q
  <2> QED
    BY ONLY <2>1
<1>b. \A i \in 1..B : d[i] = b[i]
  BY RestAndMore
<1>q. \A x \in 1..Q : q[x] = d[o + x]
  BY RestAndMore
<1>o. o + 1 = 1 \/ (o + 1) - 2 \in Ends(b)
  <2>1. Starts(b, Len(b) + 1, o + 1)
    BY RestAndMore
  <2> QED
    BY <2>1 DEF Starts
<1>1. \A i \in Ends(b) : i \in Ends(d) /\ i + 1 <= o
  BY EndsOfMore
<1>2. \A i \in Ends(d) : i <= o => i \in Ends(b)
  BY EndsOfMore
<1>3. \A x \in Nat : x >= 1 => (x \in Ends(q) <=> o + x \in Ends(d))
  BY EndsOfMore
<1>e. (\A j \in Ends(b) : j \in Nat) /\ (\A j \in Ends(d) : j \in Nat)
      /\ (\A j \in Ends(q) : j \in Nat /\ j >= 1)
  BY <1>s, EndsAre
<1>4. ASSUME NEW i \in Ends(b) PROVE Line(d, i) = Line(b, i)
  <2> DEFINE k == LineFrom(b, i)
  <2>1. /\ i \in Nat /\ i >= 1 /\ i - 1 <= B /\ i - 1 \in Nat
        /\ k \in Nat /\ k >= 1 /\ k <= i /\ Starts(b, i, k)
    BY <1>s, LineBegins
  <2> HIDE DEF k, B, D, Q
  <2>2. Starts(d, i, k)
    <3>1. k = 1 \/ (k - 2 \in Ends(d) /\ k - 2 < i)
      BY <1>1, <2>1 DEF Starts
    <3>2. ASSUME NEW j \in Ends(d), j < i PROVE j + 2 <= k
      <4>1. i + 1 <= o /\ j \in Nat
        BY <1>1, <1>e
      <4>2. j <= o
        BY ONLY <1>n, <2>1, <3>2, <4>1
      <4>3. j \in Ends(b)
        BY ONLY <1>2, <3>2, <4>2
      <4> QED
        BY <2>1, <3>2, <4>3 DEF Starts
    <3> QED
      BY <2>1, <3>1, <3>2 DEF Starts
  <2>3. LineFrom(d, i) = k
    BY ONLY <1>s, <2>1, <2>2, LineFromIs
  <2>4. SubSeq(b, k, i - 1) = SubSeq(d, 0 + k, 0 + (i - 1))
    <3> DEFINE z == i - 1
    <3>1. k <= z + 1 /\ z \in Nat /\ z <= B /\ 0 + z <= D /\ 0 \in Nat
      BY ONLY <1>n, <2>1
    <3> HIDE DEF z
    <3>2. ASSUME NEW j \in k..z PROVE b[j] = d[0 + j]
      <4>1. j \in 1..B /\ 0 + j = j
        BY <1>n, <2>1, <3>1
      <4> QED
        BY <1>b, <4>1
    <3>3. SubSeq(b, k, z) = SubSeq(d, 0 + k, 0 + z)
      BY <1>s, <2>1, <3>1, <3>2, SameCut DEF B, D
    <3> QED
      BY <3>3 DEF z
  <2>5. 0 + k = k /\ 0 + (i - 1) = i - 1
    BY <2>1
  <2>6. Line(d, i) = SubSeq(d, k, i - 1)
    BY <2>3, LineIs
  <2>7. Line(b, i) = SubSeq(b, k, i - 1)
    BY LineIs DEF k
  <2> QED
    BY ONLY <2>4, <2>5, <2>6, <2>7
<1>5. ASSUME NEW x, x \in Ends(q) \/ x = Len(q) + 1
      PROVE  LineFrom(d, o + x) = o + LineFrom(q, x) /\ Line(d, o + x) = Line(q, x)
  <2> DEFINE k == LineFrom(q, x)
  <2>1. /\ x \in Nat /\ x >= 1 /\ x - 1 <= Q /\ x - 1 \in Nat
        /\ k \in Nat /\ k >= 1 /\ k <= x /\ Starts(q, x, k)
    BY <1>s, <1>5, LineBegins
  <2> HIDE DEF k, B, D, Q
  <2>2. Starts(d, o + x, o + k)
    <3>1. o + k \in Nat /\ o + k >= 1
      BY ONLY <1>n, <2>1
    <3>2. o + k = 1 \/ (o + k - 2 \in Ends(d) /\ o + k - 2 < o + x)
      <4>1. CASE k = 1 /\ o = 0
        BY <4>1
      <4>2. CASE k = 1 /\ o # 0
        <5>1. (o + 1) - 2 \in Ends(b) /\ (o + 1) - 2 = o + k - 2 /\ o + k - 2 < o + x
          BY ONLY <1>n, <1>o, <2>1, <4>2
        <5> QED
          BY <1>1, <5>1
      <4>3. CASE k # 1
        <5>1. k - 2 \in Ends(q) /\ k - 2 < x
          BY <2>1, <4>3 DEF Starts
        <5>2. k - 2 \in Nat /\ k - 2 >= 1
          BY <1>e, <5>1
        <5>3. o + (k - 2) \in Ends(d)
          BY <1>3, <5>1, <5>2
        <5>4. o + (k - 2) = o + k - 2 /\ o + k - 2 < o + x
          BY ONLY <1>n, <2>1, <5>1
        <5> QED
          BY ONLY <5>3, <5>4
      <4> QED
        BY <4>1, <4>2, <4>3
    <3>3. ASSUME NEW j \in Ends(d), j < o + x PROVE j + 2 <= o + k
      <4>0. j \in Nat
        BY <1>e
      <4>1. CASE j <= o
        <5>1. j + 1 <= o
          BY <1>1, <1>2, <4>1
        <5> QED
          BY ONLY <1>n, <2>1, <4>0, <5>1
      <4>2. CASE j > o
        <5>1. j - o \in Nat /\ j - o >= 1 /\ o + (j - o) = j /\ j - o < x
          BY ONLY <1>n, <2>1, <3>3, <4>0, <4>2
        <5>2. j - o \in Ends(q)
          BY ONLY <1>3, <3>3, <5>1
        <5>3. (j - o) + 2 <= k
          BY <2>1, <5>1, <5>2 DEF Starts
        <5> QED
          BY ONLY <1>n, <2>1, <4>0, <5>3
      <4> QED
        BY ONLY <1>n, <4>0, <4>1, <4>2
    <3> DEFINE X == o + x  K == o + k
    <3>4. /\ K \in Nat /\ K >= 1 /\ (K = 1 \/ (K - 2 \in Ends(d) /\ K - 2 < X))
          /\ \A j \in Ends(d) : j < X => j + 2 <= K
      <4>1. o \in Nat /\ x \in Nat /\ k \in Nat
        BY ONLY <1>n, <2>1
      <4>2. K \in Nat /\ K >= 1 /\ (K = 1 \/ (K - 2 \in Ends(d) /\ K - 2 < X))
        BY ONLY <3>1, <3>2, <4>1
      <4>3. ASSUME NEW j \in Ends(d), j < X PROVE j + 2 <= K
        BY ONLY <3>3, <4>1, <4>3
      <4> QED
        BY ONLY <4>2, <4>3
    <3> HIDE DEF X, K
    <3>5. Starts(d, X, K)
      BY ONLY <3>4 DEF Starts
    <3> QED
      BY ONLY <3>5 DEF X, K
  <2>3. LineFrom(d, o + x) = o + k
    <3>1. o + x \in Nat
      BY ONLY <1>n, <2>1
    <3> QED
      BY ONLY <1>s, <2>2, <3>1, LineFromIs
  <2>4. SubSeq(q, k, x - 1) = SubSeq(d, o + k, o + (x - 1))
    <3> DEFINE z == x - 1
    <3>1. k <= z + 1 /\ z \in Nat /\ z <= Q /\ o + z <= D /\ o \in Nat
      BY ONLY <1>n, <2>1
    <3> HIDE DEF z
    <3>2. ASSUME NEW j \in k..z PROVE q[j] = d[o + j]
      <4>1. j \in 1..Q
        BY <1>n, <2>1, <3>1
      <4> QED
        BY <1>q, <4>1
    <3>3. SubSeq(q, k, z) = SubSeq(d, o + k, o + z)
      BY <1>s, <2>1, <3>1, <3>2, SameCut DEF Q, D
    <3> QED
      BY <3>3 DEF z
  <2>5. o + (x - 1) = (o + x) - 1
    BY ONLY <1>n, <2>1
  <2>6. Line(d, o + x) = SubSeq(d, o + k, (o + x) - 1)
    BY <2>3, LineIs
  <2>7. Line(q, x) = SubSeq(q, k, x - 1)
    BY LineIs DEF k
  <2>8. Line(d, o + x) = Line(q, x)
    BY ONLY <2>4, <2>5, <2>6, <2>7
  <2> QED
    BY <2>3, <2>8 DEF k
<1> QED
  BY <1>4, <1>5

\* A line gives a number or INT_NULL.
LEMMA Parsed1 ==
  ASSUME NEW key, NEW line \in Seq(Nat)
  PROVE  headerParseLong(key, line) = INT_NULL \/ headerParseLong(key, line) \in Nat
<1>1. CASE line = <<>> \/ line[1] # key
  BY <1>1 DEF headerParseLong
<1>2. CASE ~(line = <<>> \/ line[1] # key) /\ Len(line) = 1
  BY <1>2 DEF headerParseLong
<1>3. CASE ~(line = <<>> \/ line[1] # key) /\ Len(line) # 1
  <2>1. headerParseLong(key, line) = line[2]
    BY ONLY <1>3 DEF headerParseLong
  <2>2. Len(line) >= 2 /\ Len(line) \in Nat
    <3>1. Len(line) \in Nat /\ (Len(line) = 0 => line = <<>>)
      OBVIOUS
    <3>2. Len(line) # 0 /\ Len(line) # 1
      BY <1>3, <3>1
    <3> DEFINE l == Len(line)
    <3> HIDE DEF l
    <3>3. l \in Nat /\ l # 0 /\ l # 1 => l >= 2 /\ l \in Nat
      OBVIOUS
    <3> QED
      BY ONLY <3>1, <3>2, <3>3 DEF l
  <2>3. line[2] \in Nat
    BY <2>2
  <2> QED
    BY <2>1, <2>3
<1> QED
  BY <1>1, <1>2, <1>3

LEMMA LinesTyped ==
  ASSUME NEW b \in Seq(Nat), NEW i, i \in Ends(b) \/ i = Len(b) + 1
  PROVE  /\ Line(b, i) \in Seq(Nat) /\ Len(Line(b, i)) = i - LineFrom(b, i)
         /\ \A k \in 1..(i - LineFrom(b, i)) : Line(b, i)[k] = b[LineFrom(b, i) + k - 1]
<1> DEFINE f == LineFrom(b, i)  z == i - 1
<1>1. /\ i \in Nat /\ i >= 1 /\ z <= Len(b) /\ z \in Nat
      /\ f \in Nat /\ f >= 1 /\ f <= i
  BY LineBegins
<1>2. Line(b, i) = SubSeq(b, f, z)
  BY LineIs
<1> HIDE DEF f
<1>3. f \in Int /\ z \in Int /\ \A k \in f..z : b[k] \in Nat
  BY <1>1
<1>4. (IF f <= z THEN z - f + 1 ELSE 0) = i - f /\ z - f + 1 = i - f
  BY <1>1
<1> HIDE DEF z
<1> QED
  BY ONLY <1>2, <1>3, <1>4, SubSeqProperties DEF f

\* What has been read, when it is read as one chunk.
AtOnce(b) ==
  [buff |-> Rest(b),
   header |-> \A i \in Ends(b) : Line(b, i) # <<>>,
   status |-> IF Ends(b) = {} THEN NoValue
              ELSE headerParseLong(STATUS, Line(b, Min(Ends(b)))),
   clen |-> IF Ends(b) = {} THEN NoValue
            ELSE IF Valued(b, LENGTH) = {} THEN INT_NULL ELSE ValueOf(b, LENGTH)]

StatusLine(b) == headerParseLong(STATUS, Line(b, Min(Ends(b))))
\* What Chunk makes of what is kept, with the values that were found before.
AfterChunk(q, status, clen) ==
  [buff |-> Rest(q),
   header |-> \A i \in Ends(q) : Line(q, i) # <<>>,
   status |-> IF status = NoValue /\ Ends(q) # {} THEN StatusLine(q) ELSE status,
   clen |-> IF clen >= 0 \/ Ends(q) = {} THEN clen
            ELSE IF Valued(q, LENGTH) = {} THEN INT_NULL ELSE ValueOf(q, LENGTH)]

LEMMA ChunkIs ==
  ASSUME NEW s, NEW c
  PROVE  /\ ~s.header => Chunk(s, c) = [s EXCEPT !.buff = s.buff \o c]
         /\ s.header => Chunk(s, c) = AfterChunk(s.buff \o c, s.status, s.clen)
BY DEF Chunk, AfterChunk, StatusLine

\* A chunk behind text without a complete line is as if it had come with it.
LEMMA ChunkBehindNone ==
  ASSUME NEW b, NEW c, NEW d, NEW q, NEW o, More(b, c, d, q, o), Ends(b) = {}
  PROVE  Chunk(AtOnce(b), c) = AtOnce(d)
<1>1. q = d
  <2>1. /\ d \in Seq(Nat) /\ q \in Seq(Nat) /\ Len(q) = Len(d) - o /\ o \in Nat
        /\ \A x \in 1..Len(q) : q[x] = d[o + x]
        /\ Starts(b, Len(b) + 1, o + 1)
    BY RestAndMore
  <2>2. o + 1 = 1 \/ (o + 1) - 2 \in Ends(b)
    BY <2>1 DEF Starts
  <2>3. o = 0
    BY <2>1, <2>2
  <2>4. Len(q) = Len(d) /\ \A x \in 1..Len(q) : q[x] = d[x]
    BY <2>1, <2>3
  <2> QED
    BY ONLY <2>1, <2>4, SeqEqual
<1>2. /\ AtOnce(b).header = TRUE /\ AtOnce(b).status = NoValue /\ AtOnce(b).clen = NoValue
      /\ AtOnce(b).buff = Rest(b)
  BY DEF AtOnce
<1>3. d = AtOnce(b).buff \o c
  BY <1>1, <1>2 DEF More
<1> DEFINE s == AtOnce(b)
<1> HIDE DEF s
<1>4. Chunk(s, c) = AfterChunk(d, NoValue, NoValue)
  <2>1. s.header /\ s.status = NoValue /\ s.clen = NoValue /\ s.buff \o c = d
    BY <1>2, <1>3 DEF s
  <2>2. s.header => Chunk(s, c) = AfterChunk(s.buff \o c, s.status, s.clen)
    BY ONLY ChunkIs
  <2> QED
    BY ONLY <2>1, <2>2
<1>5. ~(NoValue >= 0)
  BY DEF NoValue
<1>6. AfterChunk(d, NoValue, NoValue) = AtOnce(d)
  BY ONLY <1>5 DEF AtOnce, AfterChunk, StatusLine
<1> QED
  BY ONLY <1>4, <1>6 DEF s

\* A chunk behind complete lines of the header is as if it had come with them.
LEMMA ChunkBehindLines ==
  ASSUME NEW b, NEW c, NEW d, NEW q, NEW o, More(b, c, d, q, o), Ends(b) # {},
         AtOnce(b).header
  PROVE  Chunk(AtOnce(b), c) = AtOnce(d)
<1>s. /\ b \in Seq(Nat) /\ d \in Seq(Nat) /\ q \in Seq(Nat) /\ o \in Nat
      /\ Len(d) \in Nat /\ Len(q) \in Nat /\ Len(q) = Len(d) - o
  BY RestAndMore
<1>e. /\ Ends(b) \in SUBSET Nat /\ Ends(d) \in SUBSET Nat /\ Ends(q) \in SUBSET Nat
      /\ \A j \in Ends(q) : j >= 1
  BY <1>s, EndsAre
<1>1. \A i \in Ends(b) : i \in Ends(d) /\ i + 1 <= o
  BY EndsOfMore
<1>2. \A i \in Ends(d) : i <= o => i \in Ends(b)
  BY EndsOfMore
<1>3. \A x \in Ends(q) : o + x \in Ends(d)
  <2>1. \A x \in Nat : x >= 1 => (x \in Ends(q) <=> o + x \in Ends(d))
    BY EndsOfMore
  <2> QED
    BY <1>e, <2>1
<1>4. \A i \in Ends(d) : i \in Ends(b) \/ (i - o \in Ends(q) /\ o + (i - o) = i /\ i > o)
  <2>1. \A x \in Nat : x >= 1 => (x \in Ends(q) <=> o + x \in Ends(d))
    BY EndsOfMore
  <2> TAKE i \in Ends(d)
  <2>2. i \in Nat
    BY <1>e
  <2>3. CASE i <= o
    BY <1>2, <2>3
  <2>4. CASE i > o
    <3>1. i - o \in Nat /\ i - o >= 1 /\ o + (i - o) = i
      BY ONLY <1>s, <2>2, <2>4
    <3> QED
      BY ONLY <2>1, <2>4, <3>1, i \in Ends(d)
  <2> QED
    BY <1>s, <2>2, <2>3, <2>4
<1>5. \A i \in Ends(b) : Line(d, i) = Line(b, i)
  BY LinesOfMore
<1>6. \A x : x \in Ends(q) \/ x = Len(q) + 1 => Line(d, o + x) = Line(q, x)
  BY LinesOfMore
<1>7. Rest(d) = Rest(q)
  <2>1. o + (Len(q) + 1) = Len(d) + 1
    BY <1>s
  <2>2. Line(d, o + (Len(q) + 1)) = Line(q, Len(q) + 1)
    BY <1>6
  <2> QED
    BY ONLY <2>1, <2>2, RestIsLine
<1>8. (\A i \in Ends(d) : Line(d, i) # <<>>) <=> (\A i \in Ends(q) : Line(q, i) # <<>>)
  <2>1. \A i \in Ends(b) : Line(b, i) # <<>>
    BY DEF AtOnce
  <2> QED
    BY ONLY <1>1, <1>3, <1>4, <1>5, <1>6, <2>1
<1>9. Ends(d) # {} /\ Min(Ends(d)) = Min(Ends(b)) /\ Min(Ends(b)) \in Ends(b)
  <2> DEFINE m == Min(Ends(b))
  <2>1. m \in Ends(b) /\ \A j \in Ends(b) : m <= j
    BY ONLY <1>e, Ends(b) # {}, MinIs
  <2> HIDE DEF m
  <2>2. m \in Ends(d) /\ m \in Nat /\ m + 1 <= o
    BY ONLY <1>1, <1>e, <2>1
  <2>3. ASSUME NEW j \in Ends(d) PROVE m <= j
    <3>1. j \in Nat
      BY <1>e
    <3>2. CASE j \in Ends(b)
      BY <2>1, <3>2
    <3>3. CASE j > o
      BY ONLY <1>s, <2>2, <3>1, <3>3
    <3> QED
      BY <1>4, <3>2, <3>3
  <2>4. Min(Ends(d)) = m
    BY ONLY <1>e, <2>2, <2>3, MinIs
  <2> QED
    BY <2>1, <2>2, <2>4 DEF m
<1> DEFINE VB == Valued(b, LENGTH)  VD == Valued(d, LENGTH)  VQ == Valued(q, LENGTH)
           P(line) == headerParseLong(LENGTH, line)
<1>v. /\ \A i : i \in VB <=> i \in Ends(b) /\ P(Line(b, i)) # INT_NULL
      /\ \A i : i \in VD <=> i \in Ends(d) /\ P(Line(d, i)) # INT_NULL
      /\ \A i : i \in VQ <=> i \in Ends(q) /\ P(Line(q, i)) # INT_NULL
  BY DEF Valued
<1>w. /\ ValueOf(b, LENGTH) = P(Line(b, Min(VB))) /\ ValueOf(d, LENGTH) = P(Line(d, Min(VD)))
      /\ ValueOf(q, LENGTH) = P(Line(q, Min(VQ)))
  BY DEF ValueOf
<1> HIDE DEF VB, VD, VQ, P
<1>10. /\ \A i \in VB : i \in VD /\ i \in Ends(b)
       /\ \A x \in VQ : o + x \in VD
       /\ \A i \in VD : i \in VB \/ (i - o \in VQ /\ o + (i - o) = i /\ i > o)
  BY ONLY <1>1, <1>3, <1>4, <1>5, <1>6, <1>v
<1>t. VB \in SUBSET Nat /\ VD \in SUBSET Nat /\ VQ \in SUBSET Nat
  BY ONLY <1>e, <1>v
<1>11. ASSUME VB # {} PROVE VD # {} /\ ValueOf(d, LENGTH) = ValueOf(b, LENGTH)
                            /\ ValueOf(b, LENGTH) # INT_NULL
  <2> DEFINE m == Min(VB)
  <2>1. m \in VB /\ \A j \in VB : m <= j
    BY ONLY <1>t, <1>11, MinIs
  <2> HIDE DEF m
  <2>2. m \in VD /\ m \in Nat /\ m + 1 <= o /\ m \in Ends(b)
    BY ONLY <1>1, <1>10, <1>t, <2>1
  <2>3. ASSUME NEW j \in VD PROVE m <= j
    <3>1. j \in Nat
      BY <1>t
    <3>2. CASE j \in VB
      BY <2>1, <3>2
    <3>3. CASE j > o
      BY ONLY <1>s, <2>2, <3>1, <3>3
    <3> QED
      BY <1>10, <3>2, <3>3
  <2>4. Min(VD) = m
    BY ONLY <1>t, <2>2, <2>3, MinIs
  <2> QED
    BY ONLY <1>5, <1>v, <1>w, <2>1, <2>2, <2>4 DEF m
<1>12. ASSUME VB = {}, VQ # {} PROVE VD # {} /\ ValueOf(d, LENGTH) = ValueOf(q, LENGTH)
  <2> DEFINE m == Min(VQ)
  <2>1. m \in VQ /\ \A j \in VQ : m <= j
    BY ONLY <1>t, <1>12, MinIs
  <2> HIDE DEF m
  <2>2. o + m \in VD /\ m \in Nat /\ m \in Ends(q)
    BY ONLY <1>10, <1>t, <1>v, <2>1
  <2>3. ASSUME NEW j \in VD PROVE o + m <= j
    <3>1. j \in Nat /\ j - o \in VQ /\ o + (j - o) = j /\ m <= j - o
      BY <1>10, <1>12, <1>t, <2>1
    <3> QED
      BY ONLY <1>s, <2>2, <3>1
  <2>4. Min(VD) = o + m
    BY ONLY <1>t, <2>2, <2>3, MinIs
  <2>5. Line(d, o + m) = Line(q, m)
    BY ONLY <1>6, <2>2
  <2> QED
    BY ONLY <1>w, <2>2, <2>4, <2>5 DEF m
<1>13. ASSUME VB = {}, VQ = {} PROVE VD = {}
  BY ONLY <1>10, <1>13
<1> DEFINE s == AtOnce(b)
<1>14. /\ s.header = TRUE /\ s.buff = Rest(b)
       /\ s.status = headerParseLong(STATUS, Line(b, Min(Ends(b))))
       /\ s.clen = IF VB = {} THEN INT_NULL ELSE ValueOf(b, LENGTH)
  BY DEF AtOnce, VB
<1>15. q = s.buff \o c
  BY <1>14 DEF More
<1> HIDE DEF s
<1>16. Chunk(s, c) = AfterChunk(q, s.status, s.clen)
  <2>1. s.header => Chunk(s, c) = AfterChunk(s.buff \o c, s.status, s.clen)
    BY ONLY ChunkIs
  <2> QED
    BY ONLY <1>14, <1>15, <2>1
<1>17. s.status # NoValue
  <2>1. Line(b, Min(Ends(b))) \in Seq(Nat)
    BY <1>s, <1>9, LinesTyped
  <2> QED
    BY <1>14, <2>1, Parsed1 DEF NoValue, INT_NULL
<1>18. VB # {} => s.clen >= 0
  <2> SUFFICES ASSUME VB # {} PROVE s.clen >= 0
    OBVIOUS
  <2>1. Min(VB) \in VB
    BY ONLY <1>t, VB # {}, MinIs
  <2>2. Line(b, Min(VB)) \in Seq(Nat)
    BY <1>s, <1>v, <2>1, LinesTyped
  <2>3. P(Line(b, Min(VB))) = INT_NULL \/ P(Line(b, Min(VB))) \in Nat
    BY ONLY <2>2, Parsed1 DEF P
  <2>4. s.clen \in Nat
    BY ONLY <1>14, <1>v, <1>w, <2>1, <2>3, VB # {}
  <2> QED
    BY ONLY <2>4
<1>19. VB = {} => ~(s.clen >= 0) /\ s.clen = INT_NULL
  BY <1>14 DEF INT_NULL
<1>20. Ends(q) = {} => VQ = {}
  BY ONLY <1>v
<1> DEFINE cq == IF s.clen >= 0 \/ Ends(q) = {} THEN s.clen
                 ELSE IF VQ = {} THEN INT_NULL ELSE ValueOf(q, LENGTH)
           cd == IF VD = {} THEN INT_NULL ELSE ValueOf(d, LENGTH)
<1>21. cq = cd
  BY ONLY <1>11, <1>12, <1>13, <1>14, <1>18, <1>19, <1>20
<1>22. AtOnce(d) =
         [buff |-> Rest(d), header |-> \A i \in Ends(d) : Line(d, i) # <<>>,
          status |-> headerParseLong(STATUS, Line(d, Min(Ends(d)))), clen |-> cd]
  BY <1>9 DEF AtOnce, VD
<1>23. Line(d, Min(Ends(d))) = Line(b, Min(Ends(b)))
  BY ONLY <1>5, <1>9
<1> HIDE DEF cq, cd
<1>24. Chunk(s, c) = [buff |-> Rest(q), header |-> \A i \in Ends(q) : Line(q, i) # <<>>,
                      status |-> s.status, clen |-> cq]
  BY ONLY <1>16, <1>17 DEF cq, VQ, AfterChunk
<1> QED
  BY ONLY <1>7, <1>8, <1>14, <1>21, <1>22, <1>23, <1>24 DEF s

\* No line ends behind an empty one.
Quiet(b) == \A e, j \in Ends(b) : Line(b, e) = <<>> => j <= e

\* Of text whose prefix has the header's end, nothing more is a line.
LEMMA ChunkInBody ==
  ASSUME NEW b, NEW c, NEW d, NEW q, NEW o, More(b, c, d, q, o),
         ~AtOnce(b).header, Quiet(d)
  PROVE  Chunk(AtOnce(b), c) = AtOnce(d)
<1>s. /\ b \in Seq(Nat) /\ d \in Seq(Nat) /\ q \in Seq(Nat) /\ o \in Nat
      /\ Len(d) \in Nat /\ Len(q) \in Nat /\ Len(q) = Len(d) - o
  BY RestAndMore
<1>1. \A i \in Ends(b) : i \in Ends(d) /\ i + 1 <= o /\ Line(d, i) = Line(b, i) /\ i \in Nat
  <2>1. \A i \in Ends(b) : i \in Ends(d) /\ i + 1 <= o
    BY EndsOfMore
  <2>2. \A i \in Ends(b) : Line(d, i) = Line(b, i)
    BY LinesOfMore
  <2> QED
    BY <1>s, <2>1, <2>2, EndsAre
<1>2. \A i \in Ends(d) : i <= o => i \in Ends(b)
  BY EndsOfMore
<1>3. PICK e \in Ends(b) : Line(b, e) = <<>>
  <2>1. AtOnce(b).header = (\A i \in Ends(b) : Line(b, i) # <<>>)
    BY DEF AtOnce
  <2> QED
    BY <2>1
<1>4. Ends(d) = Ends(b)
  <2>1. ASSUME NEW j \in Ends(d) PROVE j \in Ends(b)
    <3>1. j <= e /\ e + 1 <= o /\ e \in Nat /\ j \in Nat
      BY <1>1, <1>3, <1>s, EndsAre DEF Quiet
    <3>2. j <= o
      BY ONLY <1>s, <3>1
    <3> QED
      BY <1>2, <3>2
  <2> QED
    BY <1>1, <2>1
<1>5. Ends(q) = {}
  <2> SUFFICES ASSUME NEW x \in Ends(q) PROVE FALSE
    OBVIOUS
  <2>1. x \in Nat /\ x >= 1
    BY <1>s, EndsAre
  <2>2. o + x \in Ends(d)
    BY <2>1, EndsOfMore
  <2>3. (o + x) + 1 <= o
    BY <1>1, <1>4, <2>2
  <2> QED
    BY ONLY <1>s, <2>1, <2>3
<1>6. Rest(d) = q
  <2> DEFINE Q == Len(q) D == Len(d)
  <2>n. Q \in Nat /\ D \in Nat /\ o \in Nat /\ Q = D - o
    BY <1>s
  <2>f. LineFrom(q, Q + 1) = 1
    <3>1. Q + 1 \in Nat
      BY <2>n
    <3>2. Starts(q, Q + 1, 1)
      BY <1>5 DEF Starts
    <3> HIDE DEF Q
    <3> QED
      BY ONLY <1>s, <3>1, <3>2, LineFromIs
  <2>1. o + (Q + 1) = D + 1 /\ Q + 1 - 1 = Q
    BY <2>n
  <2>2. Line(d, o + (Q + 1)) = Line(q, Q + 1)
    BY LinesOfMore
  <2>3. Line(q, Q + 1) = SubSeq(q, 1, Q + 1 - 1)
    BY <2>f, LineIs
  <2>4. SubSeq(q, 1, Q) = q
    BY <1>s
  <2> HIDE DEF Q
  <2>5. Rest(d) = Line(d, D + 1)
    BY RestIsLine
  <2> QED
    BY ONLY <2>1, <2>2, <2>3, <2>4, <2>5
<1> DEFINE VB == Valued(b, LENGTH)  VD == Valued(d, LENGTH)
<1>7. VB = VD /\ \A i \in VB : i \in Ends(b)
  BY <1>1, <1>4 DEF Valued
<1>8. Min(Ends(b)) \in Ends(b)
  BY <1>3, <1>s, EndsAre, MinIs
<1>9. VB # {} => Min(VB) \in VB
  <2>1. VB \in SUBSET Nat
    BY <1>1, <1>7
  <2> HIDE DEF VB
  <2> QED
    BY <2>1, MinIs
<1>10. VB # {} => ValueOf(b, LENGTH) = ValueOf(d, LENGTH)
  <2> SUFFICES ASSUME VB # {} PROVE ValueOf(b, LENGTH) = ValueOf(d, LENGTH)
    OBVIOUS
  <2>1. Line(d, Min(VB)) = Line(b, Min(VB))
    BY <1>1, <1>7, <1>9
  <2> QED
    BY <1>7, <2>1 DEF ValueOf
<1>11. AtOnce(d) = [AtOnce(b) EXCEPT !.buff = q]
  <2>1. (\A i \in Ends(d) : Line(d, i) # <<>>) <=> (\A i \in Ends(b) : Line(b, i) # <<>>)
    BY <1>1, <1>4
  <2>2. Line(d, Min(Ends(d))) = Line(b, Min(Ends(b)))
    BY <1>1, <1>4, <1>8
  <2> HIDE DEF VB, VD
  <2>3. (IF VD = {} THEN INT_NULL ELSE ValueOf(d, LENGTH))
          = (IF VB = {} THEN INT_NULL ELSE ValueOf(b, LENGTH))
    BY ONLY <1>7, <1>10
  <2> DEFINE h(x) == \A i \in Ends(x) : Line(x, i) # <<>>
             l(x) == Line(x, Min(Ends(x)))
             v(x, V) == IF V = {} THEN INT_NULL ELSE ValueOf(x, LENGTH)
             r(x, B, H, L, V) == [buff |-> B, header |-> H,
                                  status |-> IF Ends(x) = {} THEN NoValue ELSE headerParseLong(STATUS, L),
                                  clen |-> IF Ends(x) = {} THEN NoValue ELSE V]
  <2>4. h(d) = h(b) /\ l(d) = l(b) /\ v(d, VD) = v(b, VB)
    BY ONLY <2>1, <2>2, <2>3
  <2>5. AtOnce(b) = r(b, Rest(b), h(b), l(b), v(b, VB))
    BY DEF AtOnce, VB
  <2>6. AtOnce(d) = r(d, Rest(d), h(d), l(d), v(d, VD))
    BY DEF AtOnce, VD
  <2> HIDE DEF h, l, v
  <2>7. AtOnce(d) = r(b, q, h(b), l(b), v(b, VB))
    BY ONLY <1>4, <1>6, <2>4, <2>6
  <2> QED
    BY ONLY <2>5, <2>7
<1>12. AtOnce(b).buff \o c = q
  BY DEF AtOnce, More
<1>13. Chunk(AtOnce(b), c) = [AtOnce(b) EXCEPT !.buff = AtOnce(b).buff \o c]
  BY ONLY ~AtOnce(b).header, ChunkIs
<1> QED
  BY ONLY <1>11, <1>12, <1>13

LEMMA QuietBefore ==
  ASSUME NEW b, NEW c, NEW d, NEW q, NEW o, More(b, c, d, q, o), Quiet(d)
  PROVE  Quiet(b)
<1>1. \A i \in Ends(b) : i \in Ends(d)
  BY EndsOfMore
<1>2. \A i \in Ends(b) : Line(d, i) = Line(b, i)
  BY LinesOfMore
<1> QED
  BY <1>1, <1>2 DEF Quiet

LEMMA ChunkRead ==
  ASSUME NEW b \in Seq(Nat), NEW c \in Seq(Nat), Quiet(b \o c)
  PROVE  Quiet(b) /\ Chunk(AtOnce(b), c) = AtOnce(b \o c)
<1> DEFINE d == b \o c  q == Rest(b) \o c  o == LineFrom(b, Len(b) + 1) - 1
<1>1. More(b, c, d, q, o)
  BY DEF More
<1> HIDE DEF q, o
<1>2. Quiet(d)
  OBVIOUS
<1> HIDE DEF d
<1>3. Quiet(b)
  BY <1>1, <1>2, QuietBefore
<1>4. Chunk(AtOnce(b), c) = AtOnce(d)
  <2>1. CASE Ends(b) = {}
    BY <1>1, <2>1, ChunkBehindNone
  <2>2. CASE Ends(b) # {} /\ AtOnce(b).header
    BY <1>1, <2>2, ChunkBehindLines
  <2>3. CASE ~AtOnce(b).header
    BY <1>1, <1>2, <2>3, ChunkInBody
  <2> QED
    BY ONLY <2>1, <2>2, <2>3
<1> QED
  BY <1>3, <1>4 DEF d

LEMMA NothingRead == AtOnce(<<>>) = Start
<1> DEFINE b == <<>>
<1>1. b \in Seq(Nat) /\ Len(b) = 0
  OBVIOUS
<1>2. Ends(b) = {}
  <2> HIDE DEF b
  <2>1. \A i : i \in Ends(b) => i \in Nat /\ i >= 1 /\ i + 1 <= 0
    BY <1>1, EndsAre
  <2>2. \A i : ~(i \in Nat /\ i >= 1 /\ i + 1 <= 0)
    OBVIOUS
  <2> QED
    BY ONLY <2>1, <2>2
<1>3. LineFrom(b, 1) = 1
  <2>1. Starts(b, 1, 1)
    BY <1>2 DEF Starts
  <2> HIDE DEF b
  <2> QED
    BY <1>1, <2>1, LineFromIs
<1>4. Rest(b) = <<>>
  <2>1. Rest(b) = SubSeq(b, LineFrom(b, 0 + 1), 0 + 1 - 1)
    BY <1>1, RestIs
  <2>2. 0 + 1 = 1 /\ 0 + 1 - 1 = 0
    OBVIOUS
  <2>3. SubSeq(b, 1, 0) = <<>>
    OBVIOUS
  <2> HIDE DEF b
  <2> QED
    BY ONLY <1>3, <2>1, <2>2, <2>3
<1> QED
  BY <1>2, <1>4 DEF AtOnce, Start

\* What has come with the first n chunks.
FirstChunks(chunks, n) == FlattenSeq(SubSeq(chunks, 1, n))

LEMMA ReadSoFar ==
  ASSUME NEW chunks \in Seq(Seq(Nat))
  PROVE  /\ Len(chunks) \in Nat /\ FirstChunks(chunks, 0) = <<>>
         /\ FirstChunks(chunks, Len(chunks)) = FlattenSeq(chunks) /\ FlattenSeq(chunks) \in Seq(Nat)
         /\ \A n \in 1..Len(chunks) :
              FirstChunks(chunks, n) = FirstChunks(chunks, n - 1) \o chunks[n] /\ chunks[n] \in Seq(Nat)
         /\ \A n \in 0..Len(chunks) : FirstChunks(chunks, n) \in Seq(Nat)
<1> DEFINE N == Len(chunks)  T == Seq(Nat)
<1>1. N \in Nat /\ chunks \in Seq(T)
  OBVIOUS
<1>2. FirstChunks(chunks, 0) = <<>>
  <2>1. SubSeq(chunks, 1, 0) = <<>>
    BY <1>1
  <2> QED
    BY <2>1, FlattenAppend DEF FirstChunks
<1>3. FirstChunks(chunks, N) = FlattenSeq(chunks)
  <2>1. SubSeq(chunks, 1, N) = chunks
    BY <1>1
  <2> QED
    BY <2>1 DEF FirstChunks
<1>4. ASSUME NEW n \in 1..N
      PROVE  FirstChunks(chunks, n) = FirstChunks(chunks, n - 1) \o chunks[n] /\ chunks[n] \in Seq(Nat)
  <2> DEFINE s == SubSeq(chunks, 1, n - 1)  e == chunks[n]  t == SubSeq(chunks, 1, n)
  <2>n. n \in Nat /\ n >= 1 /\ n <= N /\ n - 1 \in Nat /\ N \in Nat
    BY <1>1
  <2>1. e \in T
    BY <1>1
  <2> HIDE DEF T, N
  <2>2. s \in Seq(T) /\ Len(s) = n - 1 /\ \A i \in 1..(n - 1) : s[i] = chunks[i]
    <3>1. 1 \in Int /\ n - 1 \in Int /\ \A i \in 1..(n - 1) : chunks[i] \in T
      BY <1>1, <2>n DEF N
    <3>2. (IF 1 <= n - 1 THEN (n - 1) - 1 + 1 ELSE 0) = n - 1
      BY <2>n
    <3>3. s \in Seq(T) /\ Len(s) = n - 1 /\ \A i \in 1..(n - 1) : s[i] = chunks[1 + i - 1]
      BY ONLY <3>1, <3>2, SubSeqProperties
    <3>4. \A i \in 1..(n - 1) : 1 + i - 1 = i
      BY <2>n
    <3> QED
      BY ONLY <3>3, <3>4
  <2>3. t \in Seq(T) /\ Len(t) = n /\ \A i \in 1..n : t[i] = chunks[i]
    <3>1. 1 \in Int /\ n \in Int /\ \A i \in 1..n : chunks[i] \in T
      BY <1>1, <2>n DEF N
    <3>2. (IF 1 <= n THEN n - 1 + 1 ELSE 0) = n
      BY <2>n
    <3>3. t \in Seq(T) /\ Len(t) = n /\ \A i \in 1..n : t[i] = chunks[1 + i - 1]
      BY ONLY <3>1, <3>2, SubSeqProperties
    <3>4. \A i \in 1..n : 1 + i - 1 = i
      BY <2>n
    <3> QED
      BY ONLY <3>3, <3>4
  <2>e. e = chunks[n]
    OBVIOUS
  <2> HIDE DEF s, e, t
  <2>4. t = Append(s, e)
    <3>1. /\ Append(s, e) \in Seq(T) /\ Len(Append(s, e)) = Len(s) + 1
          /\ Append(s, e)[Len(s) + 1] = e /\ \A i \in 1..Len(s) : Append(s, e)[i] = s[i]
      BY <2>1, <2>2, AppendProperties
    <3>2. Len(s) + 1 = n
      BY <2>2, <2>n
    <3>3. ASSUME NEW i \in 1..n PROVE t[i] = Append(s, e)[i]
      <4>1. CASE i = n
        BY <2>3, <2>e, <3>1, <3>2, <4>1
      <4>2. CASE i # n
        <5>1. i \in 1..(n - 1) /\ i \in 1..Len(s)
          BY <2>2, <2>n, <4>2
        <5> QED
          BY ONLY <2>2, <2>3, <3>1, <3>3, <5>1
      <4> QED
        BY <4>1, <4>2
    <3>4. Len(t) = Len(Append(s, e)) /\ \A i \in 1..Len(t) : t[i] = Append(s, e)[i]
      BY ONLY <2>3, <3>1, <3>2, <3>3
    <3> QED
      BY ONLY <2>3, <3>1, <3>4, SeqEqual
  <2>5. FlattenSeq(t) = FlattenSeq(s) \o e
    <3>1. CASE s = <<>>
      <4>1. FlattenSeq(Append(<<>>, e)) = e /\ FlattenSeq(<<>>) = <<>>
        BY <2>1, FlattenAppend DEF T
      <4>2. <<>> \o e = e
        BY <2>1 DEF T
      <4> QED
        BY <2>4, <3>1, <4>1, <4>2
    <3>2. CASE s # <<>>
      BY <2>1, <2>2, <2>4, <3>2, FlattenAppend DEF T
    <3> QED
      BY <3>1, <3>2
  <2> QED
    BY <2>1, <2>5 DEF FirstChunks, s, e, t, T
<1>5. ASSUME NEW n \in 0..N PROVE FirstChunks(chunks, n) \in Seq(Nat)
  <2> DEFINE S == {k \in Nat : k <= N => FirstChunks(chunks, k) \in T}
  <2>1. 0 \in S
    <3>1. <<>> \in T
      OBVIOUS
    <3> HIDE DEF T
    <3> QED
      BY <1>2, <3>1
  <2>2. ASSUME NEW k \in Nat, k \in S PROVE k + 1 \in S
    <3> SUFFICES ASSUME k + 1 <= N PROVE FirstChunks(chunks, k + 1) \in T
      OBVIOUS
    <3>1. k <= N /\ k + 1 \in 1..N /\ (k + 1) - 1 = k
      BY <1>1
    <3>2. FirstChunks(chunks, k) \in T
      BY <2>2, <3>1
    <3>3. FirstChunks(chunks, k + 1) = FirstChunks(chunks, k) \o chunks[k + 1] /\ chunks[k + 1] \in T
      BY ONLY <1>4, <3>1 DEF T
    <3> QED
      BY ONLY <3>2, <3>3, Joined DEF T
  <2> HIDE DEF S
  <2>3. n \in S
    <3>1. Nat \subseteq S
      BY ONLY <2>1, <2>2, NatSet
    <3> QED
      BY <3>1
  <2> QED
    BY <2>3 DEF S
<1> QED
  <2>1. N \in 0..N
    BY <1>1
  <2> QED
    BY <1>1, <1>2, <1>3, <1>4, <1>5, <2>1

\* What getHTTPResponse makes of the state after the last chunk.
Finished(s) ==
  [httpstatus |-> s.status,
   body |-> IF s.clen >= 0 /\ s.clen < Len(s.buff) THEN SubSeq(s.buff, 1, s.clen) ELSE s.buff]

LEMMA ReadAtOnce ==
  ASSUME NEW chunks \in Seq(Seq(Nat)), Quiet(FlattenSeq(chunks))
  PROVE  getHTTPResponse(chunks) = Finished(AtOnce(FlattenSeq(chunks)))
<1> DEFINE N == Len(chunks)  P(n) == FirstChunks(chunks, n)
           Rec(f) == f = [n \in 0..N |-> IF n = 0 THEN Start ELSE Chunk(f[n - 1], chunks[n])]
           F == [n \in 0..N |-> AtOnce(P(n))]
           state == CHOOSE f : Rec(f)
<1>1. /\ N \in Nat /\ P(0) = <<>> /\ P(N) = FlattenSeq(chunks)
      /\ \A n \in 1..N : P(n) = P(n - 1) \o chunks[n] /\ chunks[n] \in Seq(Nat)
      /\ \A n \in 0..N : P(n) \in Seq(Nat)
  BY ReadSoFar
<1>a. getHTTPResponse(chunks) = Finished(state[N])
  BY Zenon DEF getHTTPResponse, Finished
<1> HIDE DEF N, P
<1>2. ASSUME NEW n \in 1..N, Quiet(P(n))
      PROVE  Quiet(P(n - 1)) /\ Chunk(AtOnce(P(n - 1)), chunks[n]) = AtOnce(P(n))
  <2>1. n - 1 \in 0..N
    BY <1>1
  <2>2. P(n - 1) \in Seq(Nat) /\ chunks[n] \in Seq(Nat) /\ P(n) = P(n - 1) \o chunks[n]
    BY <1>1, <2>1
  <2>3. Quiet(P(n - 1) \o chunks[n])
    BY <1>2, <2>2
  <2> QED
    BY ONLY <2>2, <2>3, ChunkRead
<1>3. \A n \in 0..N : Quiet(P(n))
  <2> DEFINE S == {i \in 1..(N + 1) : Quiet(P(i - 1))}
  <2>1. N + 1 \in S
    <3>1. N + 1 \in 1..(N + 1) /\ (N + 1) - 1 = N
      BY <1>1
    <3> QED
      BY <1>1, <3>1
  <2>2. ASSUME NEW i \in 1..N, i + 1 \in S PROVE i \in S
    <3>1. (i + 1) - 1 = i /\ i \in 1..(N + 1)
      BY <1>1
    <3>2. Quiet(P(i))
      BY <2>2, <3>1
    <3> QED
      BY <1>2, <3>1, <3>2
  <2> HIDE DEF S
  <2>3. 1..(N + 1) \subseteq S
    BY ONLY <1>1, <2>1, <2>2, Backwards
  <2>4. ASSUME NEW n \in 0..N PROVE Quiet(P(n))
    <3>1. n + 1 \in 1..(N + 1) /\ (n + 1) - 1 = n
      BY <1>1
    <3>2. n + 1 \in S
      BY <2>3, <3>1
    <3> QED
      BY <3>1, <3>2 DEF S
  <2> QED
    BY <2>4
<1>4. \A n \in 1..N : Chunk(AtOnce(P(n - 1)), chunks[n]) = AtOnce(P(n))
  <2> TAKE n \in 1..N
  <2>1. n \in 0..N
    BY <1>1
  <2> QED
    BY <1>2, <1>3, <2>1
<1>5. AtOnce(P(0)) = Start
  BY <1>1, NothingRead
<1>6. Rec(F)
  <2> DEFINE G == [n \in 0..N |-> IF n = 0 THEN Start ELSE Chunk(F[n - 1], chunks[n])]
  <2>1. ASSUME NEW n \in 0..N
        PROVE  AtOnce(P(n)) = IF n = 0 THEN Start ELSE Chunk(F[n - 1], chunks[n])
    <3>1. CASE n = 0
      BY <1>5, <3>1
    <3>2. CASE n # 0
      <4>1. n \in 1..N /\ n - 1 \in 0..N
        BY <1>1, <3>2
      <4>2. F[n - 1] = AtOnce(P(n - 1))
        BY <4>1
      <4> QED
        BY ONLY <1>4, <3>2, <4>1, <4>2
    <3> QED
      BY <3>1, <3>2
  <2> QED
    BY <2>1
<1> HIDE DEF F
<1>7. Rec(state)
  BY ONLY <1>6, Zenon
<1> HIDE DEF state
<1>8. state[N] = AtOnce(P(N))
  <2> DEFINE S == {n \in Nat : n <= N => state[n] = AtOnce(P(n))}
  <2>0. \A n \in 0..N : state[n] = IF n = 0 THEN Start ELSE Chunk(state[n - 1], chunks[n])
    <3> DEFINE A(n) == IF n = 0 THEN Start ELSE Chunk(state[n - 1], chunks[n])
    <3>1. state = [n \in 0..N |-> A(n)]
      BY <1>7
    <3> HIDE DEF A
    <3>2. \A n \in 0..N : state[n] = A(n)
      BY <3>1
    <3> QED
      BY <3>2 DEF A
  <2>1. 0 \in S
    <3>1. 0 \in 0..N
      BY <1>1
    <3> QED
      BY <1>5, <2>0, <3>1
  <2>2. ASSUME NEW n \in Nat, n \in S PROVE n + 1 \in S
    <3> SUFFICES ASSUME n + 1 <= N PROVE state[n + 1] = AtOnce(P(n + 1))
      OBVIOUS
    <3>1. n + 1 \in 0..N /\ n + 1 \in 1..N /\ (n + 1) - 1 = n /\ n + 1 # 0 /\ n <= N
      BY <1>1
    <3>2. state[n] = AtOnce(P(n))
      BY <2>2, <3>1
    <3>3. state[n + 1] = Chunk(state[n], chunks[n + 1])
      BY <2>0, <3>1
    <3> QED
      BY <1>4, <3>1, <3>2, <3>3
  <2> HIDE DEF S
  <2>3. N \in S
    <3>1. Nat \subseteq S
      BY ONLY <2>1, <2>2, NatSet
    <3> QED
      BY <1>1, <3>1
  <2> QED
    BY <1>1, <2>3 DEF S
<1> QED
  BY ONLY <1>1, <1>8, <1>a

\* A line is empty when it ends where it begins.
LEMMA EmptyLine ==
  ASSUME NEW b \in Seq(Nat), NEW i \in Ends(b)
  PROVE  /\ Line(b, i) = <<>> <=> LineFrom(b, i) = i
         /\ i \in EmptyLines(b) <=> LineFrom(b, i) = i
<1> DEFINE k == LineFrom(b, i)
<1>1. /\ i \in Nat /\ i >= 1 /\ k \in Nat /\ k >= 1 /\ k <= i /\ Starts(b, i, k)
  BY LineBegins
<1>2. Line(b, i) \in Seq(Nat) /\ Len(Line(b, i)) = i - k
  BY LinesTyped
<1> HIDE DEF k
<1>3. Line(b, i) = <<>> <=> k = i
  <2>1. Line(b, i) = <<>> <=> Len(Line(b, i)) = 0
    BY ONLY <1>2, EmptySeq
  <2> QED
    BY ONLY <1>1, <1>2, <2>1
<1>4. i \in EmptyLines(b) <=> k = i
  <2>1. k = 1 \/ (k - 2 \in Ends(b) /\ k - 2 < i)
    BY <1>1 DEF Starts
  <2>2. \A j \in Ends(b) : j < i => j + 2 <= k
    BY <1>1 DEF Starts
  <2>3. i \in EmptyLines(b) <=> i = 1 \/ i - 2 \in Ends(b)
    BY DEF EmptyLines
  <2>4. i - 2 \in Ends(b) => k = i
    <3>1. ASSUME i - 2 \in Ends(b) PROVE (i - 2) + 2 <= k
      BY <1>1, <2>2, <3>1
    <3> QED
      BY ONLY <1>1, <3>1
  <2>5. i = 1 => k = i
    BY ONLY <1>1
  <2> QED
    BY ONLY <2>1, <2>3, <2>4, <2>5
<1> QED
  BY <1>3, <1>4 DEF k

\* Behind the empty line there is no further end when the body has none.
LEMMA HeaderAndBody ==
  ASSUME NEW T \in Seq(Nat), EmptyLines(T) # {}, Ends(Body(T)) = {}
  PROVE  /\ Quiet(T) /\ Rest(T) = Body(T) /\ EmptyLines(T) # {} /\ EmptyLines(T) \in SUBSET Ends(T)
         /\ Min(EmptyLines(T)) \in EmptyLines(T) /\ Min(EmptyLines(T)) \in Nat /\ Min(EmptyLines(T)) >= 1
         /\ Min(EmptyLines(T)) + 1 <= Len(T)
         /\ \A j \in Ends(T) : j <= Min(EmptyLines(T))
<1> DEFINE e == Min(EmptyLines(T))  L == Len(T)
<1>1. /\ L \in Nat /\ Ends(T) \in SUBSET Nat
      /\ \A i : i \in Ends(T) <=> /\ i \in Nat /\ i >= 1 /\ i + 1 <= L
                                  /\ T[i] = CR /\ T[i + 1] = LF
      /\ \A i, j \in Ends(T) : i < j => i + 2 <= j
  BY EndsAre
<1>2. EmptyLines(T) \in SUBSET Ends(T)
  BY DEF EmptyLines
<1>3. e \in EmptyLines(T) /\ \A j \in EmptyLines(T) : e <= j
  <2>1. EmptyLines(T) \in SUBSET Nat
    BY <1>1, <1>2
  <2> QED
    BY ONLY <2>1, EmptyLines(T) # {}, MinIs
<1> DEFINE f == e + 2
<1>b. Body(T) = SubSeq(T, f, L)
  BY DEF Body, BodyBegins
<1> HIDE DEF e, L
<1>4. e \in Nat /\ e >= 1 /\ e + 1 <= L /\ e \in Ends(T) /\ L \in Nat
  BY <1>1, <1>2, <1>3
<1>5. f \in Nat /\ f >= 1 /\ f <= L + 1
  BY ONLY <1>4
<1> HIDE DEF f
<1> DEFINE B == SubSeq(T, f, L)  m == L - f + 1
<1>6. B \in Seq(Nat) /\ Len(B) = m /\ \A i \in 1..m : B[i] = T[f + i - 1]
  <2>1. f \in Int /\ L \in Int /\ \A i \in f..L : T[i] \in Nat
    <3>1. \A i \in f..L : i \in 1..L
      BY ONLY <1>5, <1>4
    <3>2. \A i \in 1..L : T[i] \in Nat
      BY DEF L
    <3> QED
      BY <1>4, <1>5, <3>1, <3>2
  <2>2. (IF f <= L THEN L - f + 1 ELSE 0) = m
    BY <1>4, <1>5
  <2> QED
    BY ONLY <2>1, <2>2, SubSeqProperties
<1>7. ASSUME NEW j \in Ends(T) PROVE j <= e
  <2> SUFFICES ASSUME ~(j <= e) PROVE FALSE
    OBVIOUS
  <2>1. j \in Nat /\ j >= 1 /\ j + 1 <= L /\ T[j] = CR /\ T[j + 1] = LF /\ e + 2 <= j
    BY <1>1, <1>4
  <2> DEFINE x == j - f + 1
  <2>2. /\ x \in Nat /\ x >= 1 /\ x + 1 <= m /\ x \in 1..m /\ x + 1 \in 1..m
        /\ f + x - 1 = j /\ f + (x + 1) - 1 = j + 1
    BY ONLY <1>4, <1>5, <2>1 DEF f
  <2> HIDE DEF x, m, B
  <2>3. B[x] = CR /\ B[x + 1] = LF
    BY ONLY <1>6, <2>1, <2>2
  <2>4. x \in Ends(B)
    BY ONLY <1>6, <2>2, <2>3, EndsAre
  <2> QED
    BY <1>b, <2>4 DEF B
<1>8. Quiet(T)
  <2> SUFFICES ASSUME NEW i \in Ends(T), NEW j \in Ends(T), Line(T, i) = <<>> PROVE j <= i
    BY DEF Quiet
  <2>1. i \in EmptyLines(T)
    BY EmptyLine
  <2>2. j <= e /\ e <= i
    BY <1>3, <1>7, <2>1
  <2> QED
    BY <1>1, <1>4, <2>2
<1>9. Rest(T) = Body(T)
  <2>1. Starts(T, L + 1, f)
    <3>1. f - 2 = e /\ e < L + 1
      BY ONLY <1>4 DEF f
    <3>2. \A j \in Ends(T) : j + 2 <= f
      BY <1>1, <1>4, <1>7 DEF f
    <3> QED
      BY <1>4, <1>5, <3>1, <3>2 DEF Starts
  <2>2. LineFrom(T, L + 1) = f
    BY <1>4, <2>1, LineFromIs
  <2>3. L + 1 - 1 = L
    BY <1>4
  <2>4. Rest(T) = SubSeq(T, LineFrom(T, L + 1), L + 1 - 1)
    BY RestIs DEF L
  <2> QED
    BY ONLY <1>b, <2>2, <2>3, <2>4
<1> QED
  BY <1>2, <1>3, <1>4, <1>7, <1>8, <1>9 DEF e, L

\* What a line gives, by where it begins.
LEMMA LineGives ==
  ASSUME NEW T \in Seq(Nat), NEW i \in Ends(T), NEW key \in {STATUS, LENGTH}
  PROVE  LET k == LineFrom(T, i) IN
         /\ headerParseLong(key, Line(T, i)) = IF T[k] # key THEN INT_NULL ELSE Number(T, k)
         /\ T[k] = key => k < i /\ Number(T, k) \in Nat
<1> DEFINE k == LineFrom(T, i)  l == Line(T, i)  n == Len(l)
<1>1. /\ i \in Nat /\ k \in Nat /\ k >= 1 /\ k <= i /\ Starts(T, i, k)
  BY LineBegins
<1>2. l \in Seq(Nat) /\ Len(l) = i - k /\ \A x \in 1..(i - k) : l[x] = T[k + x - 1]
  BY LinesTyped
<1>3. i + 1 <= Len(T) /\ T[i] = CR /\ Len(T) \in Nat
  BY EndsAre
<1>4. key # CR
  BY DEF STATUS, LENGTH, CR
<1> HIDE DEF k, l
<1>5. headerParseLong(key, l)
        = IF l = <<>> \/ l[1] # key THEN INT_NULL ELSE IF Len(l) = 1 THEN 0 ELSE l[2]
  BY DEF headerParseLong
<1>6. CASE k = i
  <2>1. T[k] # key
    BY <1>3, <1>4, <1>6
  <2>2. l = <<>>
    <3>1. Len(l) = 0
      BY <1>1, <1>2, <1>6
    <3> QED
      BY <1>2, <3>1, EmptySeq
  <2> QED
    BY <1>5, <2>1, <2>2 DEF k, l
<1>7. CASE k # i
  <2>1. k < i /\ 1 \in 1..(i - k) /\ k + 1 - 1 = k /\ n \in Nat /\ n >= 1
    BY <1>1, <1>2, <1>7
  <2>2. l[1] = T[k] /\ l # <<>>
    <3>1. l[1] = T[k + 1 - 1]
      BY ONLY <1>2, <2>1
    <3>2. l # <<>>
      BY <1>2, <2>1, EmptySeq
    <3> QED
      BY ONLY <2>1, <3>1, <3>2
  <2>3. n = 1 <=> k + 1 \in Ends(T)
    <3>1. n = 1 <=> k + 1 = i
      BY <1>1, <1>2
    <3>2. ASSUME k + 1 \in Ends(T), k + 1 # i PROVE FALSE
      <4>1. k + 1 < i
        BY <1>1, <2>1, <3>2
      <4>2. (k + 1) + 2 <= k
        BY <1>1, <3>2, <4>1 DEF Starts
      <4> QED
        BY <1>1, <4>2
    <3> QED
      BY <3>1, <3>2
  <2>4. ASSUME n # 1 PROVE l[2] = T[k + 1] /\ T[k + 1] \in Nat
    <3>1. n = i - k /\ n >= 1 /\ n \in Nat
      BY ONLY <1>2, <2>1 DEF n
    <3> HIDE DEF n
    <3>2. 2 \in 1..(i - k) /\ k + 2 - 1 = k + 1 /\ k + 1 \in 1..Len(T)
      BY <1>1, <1>3, <2>4, <3>1
    <3> QED
      BY <1>2, <3>2
  <2>5. Number(T, k) = IF n = 1 THEN 0 ELSE l[2]
    BY ONLY <2>3, <2>4 DEF Number
  <2>6. Number(T, k) \in Nat
    BY <2>4, <2>5
  <2> QED
    BY <1>5, <2>1, <2>2, <2>5, <2>6 DEF k, l
<1> QED
  BY <1>6, <1>7

LEMMA GivenIs ==
  ASSUME NEW T, NEW key, NEW e \in Nat, e = Min(EmptyLines(T))
  PROVE  \A k : k \in Given(T, key) <=>
           k \in 1..e /\ T[k] = key /\ (k = 1 \/ k - 2 \in Ends(T))
<1> DEFINE f == BodyBegins(T)
<1>1. f = e + 2
  BY DEF BodyBegins
<1>2. \A k : k \in Given(T, key) <=>
        k \in 1..(f - 2) /\ T[k] = key /\ (k = 1 \/ k - 2 \in Ends(T))
  BY DEF Given
<1> HIDE DEF f
<1>3. f - 2 = e
  BY ONLY <1>1
<1> QED
  BY ONLY <1>2, <1>3

\* The lines that begin with a key, by where they begin.
LEMMA GivenLines ==
  ASSUME NEW T \in Seq(Nat), EmptyLines(T) # {}, Ends(Body(T)) = {},
         NEW key \in {STATUS, LENGTH}
  PROVE  /\ \A i \in Valued(T, key) : LineFrom(T, i) \in Given(T, key)
         /\ \A k \in Given(T, key) : \E i \in Valued(T, key) : LineFrom(T, i) = k
         /\ Given(T, key) \in SUBSET Nat
<1> DEFINE e == Min(EmptyLines(T))
<1>1. /\ e \in EmptyLines(T) /\ e \in Nat /\ e >= 1 /\ e + 1 <= Len(T)
      /\ EmptyLines(T) \in SUBSET Ends(T) /\ \A j \in Ends(T) : j <= e
  BY HeaderAndBody
<1>2. \A k : k \in Given(T, key) <=>
        k \in 1..e /\ T[k] = key /\ (k = 1 \/ k - 2 \in Ends(T))
  BY <1>1, GivenIs
<1> HIDE DEF e
<1>3. \A k : k \in 1..e <=> k \in Nat /\ k >= 1 /\ k <= e
  BY <1>1
<1>4. \A i : i \in Valued(T, key) <=>
        i \in Ends(T) /\ headerParseLong(key, Line(T, i)) # INT_NULL
  BY DEF Valued
<1>5. \A j \in Ends(T) : j \in Nat /\ j >= 1 /\ T[j] = CR
  BY EndsAre
<1>6. \A i, j \in Ends(T) : i < j => i + 2 <= j
  BY EndsAre
<1>7. ASSUME NEW i \in Valued(T, key) PROVE LineFrom(T, i) \in Given(T, key)
  <2> DEFINE k == LineFrom(T, i)
  <2>0. i \in Ends(T)
    BY <1>4
  <2>1. i \in Nat /\ k \in Nat /\ k >= 1 /\ k <= i /\ Starts(T, i, k)
    BY <2>0, LineBegins
  <2>2. T[k] = key
    BY <1>4, <2>0, LineGives
  <2> HIDE DEF k
  <2>3. k <= e
    BY <1>1, <2>0, <2>1
  <2>4. k = 1 \/ k - 2 \in Ends(T)
    BY <2>1 DEF Starts
  <2>5. k \in Given(T, key)
    BY ONLY <1>2, <1>3, <2>1, <2>2, <2>3, <2>4
  <2> QED
    BY <2>5 DEF k
<1>8. ASSUME NEW k \in Given(T, key)
      PROVE  \E i \in Valued(T, key) : LineFrom(T, i) = k
  <2>1. k \in Nat /\ k >= 1 /\ k <= e /\ T[k] = key /\ (k = 1 \/ k - 2 \in Ends(T))
    BY <1>2, <1>3
  <2> DEFINE later == {j \in Ends(T) : j >= k}
  <2>2. later \in SUBSET Nat /\ later # {}
    BY <1>1, <1>5, <2>1
  <2>3. PICK i \in later : \A j \in later : i <= j
    <3> HIDE DEF later
    <3> QED
      BY <2>2, LeastOf
  <2>4. i \in Ends(T) /\ i \in Nat /\ i >= k
    BY <1>5, <2>3
  <2>5. ASSUME NEW j \in Ends(T), j < i PROVE j + 2 <= k
    <3>1. j \in Nat /\ j >= 1
      BY <1>5
    <3>2. j < k
      <4>1. ASSUME j >= k PROVE FALSE
        <5>1. i <= j
          BY <2>3, <4>1
        <5> QED
          BY <2>4, <2>5, <3>1, <5>1
      <4> QED
        BY <2>1, <3>1, <4>1
    <3>3. CASE k = 1
      BY <3>1, <3>2, <3>3
    <3>4. CASE k # 1
      <4>1. k - 2 \in Ends(T)
        BY <2>1, <3>4
      <4>2. k - 2 < j => (k - 2) + 2 <= j
        BY <1>6, <4>1
      <4>3. k - 2 \in Nat
        BY <1>5, <4>1
      <4> QED
        BY ONLY <2>1, <3>1, <3>2, <4>2, <4>3
    <3> QED
      BY <3>3, <3>4
  <2>6. Starts(T, i, k)
    <3>1. k = 1 \/ (k - 2 \in Ends(T) /\ k - 2 < i)
      BY <2>1, <2>4
    <3> QED
      BY <2>1, <2>5, <3>1 DEF Starts
  <2>7. LineFrom(T, i) = k
    BY <2>4, <2>6, LineFromIs
  <2>8. headerParseLong(key, Line(T, i)) = Number(T, k) /\ Number(T, k) \in Nat
    BY <2>1, <2>4, <2>7, LineGives
  <2>9. i \in Valued(T, key)
    BY <1>4, <2>4, <2>8 DEF INT_NULL
  <2> QED
    BY <2>7, <2>9
<1>9. Given(T, key) \in SUBSET Nat
  BY <1>2, <1>3
<1> QED
  BY <1>7, <1>8, <1>9

LEMMA AnswerRead ==
  ASSUME NEW T \in Seq(Nat), EmptyLines(T) # {}, Ends(Body(T)) = {}
  PROVE  /\ AtOnce(T).buff = Body(T)
         /\ AtOnce(T).status = IF 1 \in Given(T, STATUS) THEN Number(T, 1) ELSE INT_NULL
         /\ AtOnce(T).clen = IF Given(T, LENGTH) = {} THEN INT_NULL
                             ELSE Number(T, Min(Given(T, LENGTH)))
         /\ Given(T, LENGTH) # {} => Number(T, Min(Given(T, LENGTH))) \in Nat
<1>k. STATUS \in {STATUS, LENGTH} /\ LENGTH \in {STATUS, LENGTH}
  OBVIOUS
<1>1. /\ Rest(T) = Body(T) /\ EmptyLines(T) \in SUBSET Ends(T)
      /\ Min(EmptyLines(T)) \in EmptyLines(T) /\ Min(EmptyLines(T)) >= 1 /\ Min(EmptyLines(T)) \in Nat
  BY HeaderAndBody
<1>2. Ends(T) # {} /\ Ends(T) \in SUBSET Nat
  BY <1>1, EndsAre
<1>3. AtOnce(T).buff = Body(T)
  BY <1>1 DEF AtOnce
<1> DEFINE m == Min(Ends(T))
<1>4. m \in Ends(T) /\ m \in Nat /\ \A j \in Ends(T) : m <= j
  BY <1>2, MinIs
<1>5. AtOnce(T).status = headerParseLong(STATUS, Line(T, m))
  BY <1>2 DEF AtOnce
<1> HIDE DEF m
<1>6. LineFrom(T, m) = 1
  <2>1. ASSUME NEW j \in Ends(T), j < m PROVE FALSE
    <3>1. m <= j /\ j \in Nat
      BY <1>2, <1>4
    <3> QED
      BY <1>4, <2>1, <3>1
  <2>2. Starts(T, m, 1)
    BY <2>1 DEF Starts
  <2> QED
    BY <1>4, <2>2, LineFromIs
<1>7. 1 \in Given(T, STATUS) <=> T[1] = STATUS
  <2>1. 1 \in 1..Min(EmptyLines(T))
    BY <1>1
  <2> QED
    BY ONLY <1>1, <2>1, GivenIs
<1>8. AtOnce(T).status = IF 1 \in Given(T, STATUS) THEN Number(T, 1) ELSE INT_NULL
  <2>1. headerParseLong(STATUS, Line(T, m))
          = IF T[1] # STATUS THEN INT_NULL ELSE Number(T, 1)
    BY <1>4, <1>6, <1>k, LineGives
  <2> QED
    BY ONLY <1>5, <1>7, <2>1
<1> DEFINE V == Valued(T, LENGTH)  G == Given(T, LENGTH)
<1>9. AtOnce(T).clen = IF V = {} THEN INT_NULL ELSE headerParseLong(LENGTH, Line(T, Min(V)))
  BY <1>2 DEF AtOnce, ValueOf
<1>10. \A i \in V : i \in Ends(T) /\ headerParseLong(LENGTH, Line(T, i)) # INT_NULL
  BY DEF Valued
<1>11. /\ \A i \in V : LineFrom(T, i) \in G
       /\ \A k \in G : \E i \in V : LineFrom(T, i) = k
       /\ G \in SUBSET Nat
  BY <1>k, GivenLines
<1> HIDE DEF V, G
<1>12. V = {} <=> G = {}
  BY <1>11
<1>13. ASSUME V # {}
       PROVE  /\ headerParseLong(LENGTH, Line(T, Min(V))) = Number(T, Min(G))
              /\ Number(T, Min(G)) \in Nat
  <2> DEFINE x == Min(V)
  <2>1. x \in V /\ \A i \in V : x <= i
    <3>1. V \in SUBSET Nat
      BY <1>2, <1>10
    <3> QED
      BY <1>13, <3>1, MinIs
  <2> HIDE DEF x
  <2>2. x \in Ends(T) /\ x \in Nat /\ LineFrom(T, x) <= x /\ LineFrom(T, x) \in Nat
    BY <1>10, <2>1, LineBegins
  <2>3. ASSUME NEW k \in G PROVE LineFrom(T, x) <= k
    <3>1. PICK i \in V : LineFrom(T, i) = k
      BY <1>11
    <3>2. i \in Ends(T) /\ i \in Nat /\ Starts(T, i, k) /\ x <= i /\ k \in Nat
      BY <1>10, <2>1, <3>1, LineBegins
    <3>3. CASE i = x
      BY <2>2, <3>1, <3>3
    <3>4. CASE i # x
      <4>1. x < i
        BY <2>2, <3>2, <3>4
      <4>2. x + 2 <= k
        BY <2>2, <3>2, <4>1 DEF Starts
      <4> QED
        BY ONLY <2>2, <3>2, <4>2
    <3> QED
      BY <3>3, <3>4
  <2>4. Min(G) = LineFrom(T, x)
    <3> DEFINE f == LineFrom(T, x)
    <3>1. f \in G /\ \A k \in G : f <= k
      BY <1>11, <2>1, <2>3
    <3> HIDE DEF f
    <3>2. Min(G) = f
      BY ONLY <1>11, <3>1, MinIs
    <3> QED
      BY <3>2 DEF f
  <2>5. headerParseLong(LENGTH, Line(T, x)) = Number(T, Min(G)) /\ Number(T, Min(G)) \in Nat
    <3> DEFINE f == LineFrom(T, x)
    <3>1. headerParseLong(LENGTH, Line(T, x)) # INT_NULL
      BY <1>10, <2>1
    <3>2. /\ headerParseLong(LENGTH, Line(T, x))
               = IF T[f] # LENGTH THEN INT_NULL ELSE Number(T, f)
          /\ T[f] = LENGTH => Number(T, f) \in Nat
      BY <1>k, <2>2, LineGives
    <3> HIDE DEF f
    <3>3. headerParseLong(LENGTH, Line(T, x)) = Number(T, f) /\ Number(T, f) \in Nat
      BY ONLY <3>1, <3>2
    <3> QED
      BY <2>4, <3>3 DEF f
  <2> QED
    BY <2>5 DEF x
<1> QED
  BY <1>3, <1>8, <1>9, <1>12, <1>13 DEF G

-----------------------------------------------------------------------------
USE HalfAssumption, MicroAssumption

-----------------------------------------------------------------------------
(* The timers.                                                             *)

(* The difference of two readings of the counter is the time between them,   *)
(* as long as that is less than a turn, whatever wrapped.                    *)
LEMMA Difference ==
  ASSUME NEW a \in Ticks, NEW d \in Ticks, NEW e \in Ticks
  PROVE  /\ Plus(a, d) \in Ticks
         /\ e <= d => Minus(Plus(a, d), Plus(a, e)) = d - e
         /\ e > d => Minus(Plus(a, d), Plus(a, e)) = d - e + Word
BY DEF Ticks, Word, Plus, Minus

(* A timer whose timeout is less than half a turn of the counter is expired  *)
(* exactly when more ticks than its timeout have gone by, until half a turn  *)
(* after its end (MQTTESP8266.c:35).                                         *)
LEMMA ExpiredAfterTimeout ==
  ASSUME NEW start \in Ticks, NEW timeout \in Nat, InTicks(timeout) < Half,
         NEW elapsed \in Ticks, elapsed <= InTicks(timeout) + Half
  PROVE  expired(countdown_ms(start, timeout), Plus(start, elapsed))
           <=> elapsed > InTicks(timeout)
<1> DEFINE d == timeout \div portTICK_RATE_MS
<1>1. d \in Nat /\ d \in Ticks /\ elapsed \in Nat /\ InTicks(timeout) = d
  BY DEF portTICK_RATE_MS, Ticks, Word, InTicks
<1>2. CASE elapsed <= d
  BY <1>1, <1>2, Difference DEF expired, countdown_ms, int32_t, Word
<1>3. CASE elapsed > d
  <2>1. Minus(Plus(start, d), Plus(start, elapsed)) = d - elapsed + Word
    BY <1>1, <1>3, Difference
  <2>2. d - elapsed + Word >= Half /\ d - elapsed < 0
    BY <1>1, <1>3 DEF Word
  <2>3. QED
    BY <1>1, <1>3, <2>1, <2>2 DEF expired, countdown_ms, int32_t, Word
<1>4. QED
  BY <1>1, <1>2, <1>3

(* What is left of a running timer is never overestimated, so a select that  *)
(* waits for it ends in time, in ticks or in seconds (MQTTESP8266.c:57, 73). *)
LEMMA WaitsNoLonger ==
  ASSUME NEW start \in Ticks, NEW timeout \in Nat, InTicks(timeout) < Half,
         NEW elapsed \in Ticks, elapsed <= InTicks(timeout),
         NEW ticks \in Waits(left_ms(countdown_ms(start, timeout), Plus(start, elapsed)))
  PROVE  ticks <= InTicks(timeout) - elapsed
<1> DEFINE d == timeout \div portTICK_RATE_MS
           left == left_ms(countdown_ms(start, timeout), Plus(start, elapsed))
<1>1. d \in Nat /\ d \in Ticks /\ elapsed \in Nat /\ InTicks(timeout) = d
  BY DEF portTICK_RATE_MS, Ticks, Word, InTicks
<1>2. left = (d - elapsed) \div portTICK_RATE_MS
  BY <1>1, Difference DEF left_ms, countdown_ms, int32_t, Word
<1>3. \A n \in Nat : ((n \div 10) \div 10) * 100 <= n /\ (n \div 10) \div 10 <= n
  OBVIOUS
<1>4. ticks = left \div 10 \/ ticks = (left \div 10) * 100
  BY DEF Waits, tv_sec, TicksPerSecond, portTICK_RATE_MS
<1>5. QED
  BY <1>1, <1>2, <1>3, <1>4 DEF portTICK_RATE_MS

-----------------------------------------------------------------------------
(* The clock.                                                              *)

(* Division and remainder put the dividend together.                         *)
LEMMA Division ==
  ASSUME NEW m \in Nat \ {0}, NEW a \in Nat
  PROVE  /\ a \div m \in Nat /\ a % m \in 0..(m - 1)
         /\ a = m * (a \div m) + (a % m)
OBVIOUS

\* A quotient of naturals is a natural.
LEMMA Quotient ==
  ASSUME NEW m \in Nat \ {0}, NEW a \in Nat, NEW q \in Int, NEW r \in 0..(m - 1),
         a = m * q + r
  PROVE  a \div m = q
OBVIOUS

(* Of a product the larger factor decides, the other one being positive.     *)
LEMMA Between ==
  ASSUME NEW m \in Nat \ {0}, NEW e \in Int, NEW t \in Nat,
         m * e < 2 * m, m * e > 0 - m * (t + 1)
  PROVE  e \in (0 - t)..1
<1>1. ASSUME e >= 2 PROVE FALSE
  <2>1. m * e >= m * 2
    BY <1>1
  <2> QED
    BY <2>1
<1>2. ASSUME e <= 0 - (t + 1) PROVE FALSE
  <2>1. m * e <= m * (0 - (t + 1))
    BY <1>2
  <2> QED
    BY <2>1
<1> QED
  BY <1>1, <1>2

(* By how much the clock is wrong: rounding makes it a second fast, or as    *)
(* many seconds slow as there were turns, and every turn loses its seconds.  *)
LEMMA ClockError ==
  ASSUME NEW set \in Nat, NEW now \in Nat, set <= now
  PROVE  LET turns == now \div MicroWord - set \div MicroWord
             elapsed == (now - set) \div Second
             lost == turns * (MicroWord \div Second)
         IN /\ secs(now) \in Nat /\ secs(set) \in Nat /\ elapsed \in Nat /\ lost \in Nat
            /\ secs(now) - secs(set) - elapsed + lost \in (0 - turns)..1
<1> DEFINE W == MicroWord
           S == Second
           turns == now \div W - set \div W
           elapsed == (now - set) \div S
           k == W \div S
           lost == turns * k
           error == secs(now) - secs(set) - elapsed + lost
<1>1. /\ W \in Nat \ {0} /\ S \in Nat \ {0}
      /\ now % W \in Nat /\ set % W \in Nat /\ now - set \in Nat
  BY Division
<1> DEFINE xn == now % W   qn == now \div W
           xs == set % W   qs == set \div W
<1>2. /\ xn \in Nat /\ now = W * qn + xn /\ qn \in Nat /\ xn < W
      /\ xs \in Nat /\ set = W * qs + xs /\ qs \in Nat /\ xs < W
  <2>1. /\ qn \in Nat /\ xn \in 0..(W - 1) /\ now = W * qn + xn
        /\ qs \in Nat /\ xs \in 0..(W - 1) /\ set = W * qs + xs
    BY ONLY <1>1, set \in Nat, now \in Nat, Division
  <2> HIDE DEF xn, xs, qn, qs
  <2> QED
    BY <1>1, <2>1
<1> DEFINE rn == xn % S   rs == xs % S   re == (now - set) % S   y == W % S
<1>3. /\ rn \in 0..(S - 1) /\ rs \in 0..(S - 1) /\ re \in 0..(S - 1) /\ y \in 0..(S - 1)
      /\ secs(now) \in Nat /\ secs(set) \in Nat /\ elapsed \in Nat /\ k \in Nat
      /\ xn = S * secs(now) + rn /\ xs = S * secs(set) + rs
      /\ now - set = S * elapsed + re /\ W = S * k + y
  <2>1. xn \div S = secs(now) /\ xs \div S = secs(set)
    BY DEF secs, system_get_time
  <2>2. \A a \in Nat : /\ a \div S \in Nat /\ a % S \in 0..(S - 1)
                        /\ a = S * (a \div S) + (a % S)
    BY <1>1, Division
  <2> HIDE DEF xn, xs
  <2> QED
    BY <1>1, <1>2, <2>1, <2>2
<1>4. turns \in Nat
  <2>1. qn >= qs
    <3> HIDE DEF qn, qs, xn, xs
    <3>1. ASSUME qn < qs PROVE FALSE
      <4>1. W * (qn + 1) <= W * qs
        BY <1>1, <1>2, <3>1
      <4> QED
        BY <1>1, <1>2, <4>1
    <3> QED
      BY <1>2, <3>1
  <2> QED
    BY <1>2, <2>1
<1>5. now - set = W * turns + xn - xs
  <2>1. turns = qn - qs
    OBVIOUS
  <2> HIDE DEF turns, xn, xs, qn, qs
  <2> QED
    BY <1>1, <1>2, <2>1
<1> HIDE DEF W, S, turns, elapsed, k, xn, xs, qn, qs, rn, rs, re, y
<1>6. lost \in Nat /\ error \in Int
  BY <1>3, <1>4
<1>7. S * error = rs - rn + re - turns * y
  <2>1. S * error = S * secs(now) - S * secs(set) - S * elapsed + S * lost
    BY <1>1, <1>3, <1>6
  <2>2. S * lost = turns * (W - y)
    BY <1>1, <1>3, <1>4
  <2>3. S * error = (xn - rn) - (xs - rs) - (now - set - re) + turns * (W - y)
    <3>1. /\ S * secs(now) = xn - rn /\ S * secs(set) = xs - rs
          /\ S * elapsed = now - set - re
      BY <1>1, <1>2, <1>3
    <3> HIDE DEF error
    <3> QED
      BY <2>1, <2>2, <3>1
  <2>4. turns * (W - y) = W * turns - turns * y
    BY <1>1, <1>3, <1>4
  <2> HIDE DEF error
  <2> QED
    BY <1>1, <1>2, <1>3, <1>4, <1>5, <2>3, <2>4
<1>8. turns * y >= 0 /\ turns * y <= turns * (S - 1)
  BY <1>1, <1>3, <1>4
<1>9. S * error < 2 * S /\ S * error > 0 - S * (turns + 1)
  <2>1. turns * (S - 1) = S * turns - turns
    BY <1>1, <1>4
  <2> HIDE DEF error
  <2> QED
    BY <1>1, <1>3, <1>4, <1>7, <1>8, <2>1
<1>10. error \in (0 - turns)..1
  <2> HIDE DEF error
  <2> QED
    BY <1>1, <1>4, <1>6, <1>9, Between
<1> QED
  BY <1>3, <1>6, <1>10 DEF W, S, turns, elapsed, k

USE RadixAssumption

-----------------------------------------------------------------------------
(* The length field.                                                       *)

(* MQTTPacket_encode is what its recursion says, for every length.           *)
LEMMA Encode ==
  /\ MQTTPacket_encode \in [Nat -> Seq(Nat)]
  /\ \A n \in Nat : n < Radix => MQTTPacket_encode[n] = <<n>>
  /\ \A n \in Nat : n >= Radix => MQTTPacket_encode[n] =
       <<Radix + (n % Radix)>> \o MQTTPacket_encode[n \div Radix]
<1>1. MQTTPacket_encode = CHOOSE f : Positional(f, Radix)
  BY DEF MQTTPacket_encode, Positional
<1>2. Positional(MQTTPacket_encode, Radix)
  BY <1>1, PositionalExists
<1>3. QED
  BY <1>2, PositionalDigits

Digit == 0..(Radix - 1)

(* The lengths of one digit, two, three and four.                            *)
LEMMA OneDigit ==
  ASSUME NEW n \in Nat, n < Radix
  PROVE  /\ n \in Digit
         /\ Len(MQTTPacket_encode[n]) = 1 /\ MQTTPacket_encode[n][1] = n
<1>1. MQTTPacket_encode[n] = <<n>>
  BY Encode
<1> QED
  BY <1>1 DEF Digit

\* A length of more than one digit: the first one, and those of the quotient.
LEMMA Longer ==
  ASSUME NEW n \in Nat, n >= Radix, NEW bound \in Nat, n < bound * Radix
  PROVE  \E q \in Nat, d \in Digit :
           /\ q >= 1 /\ q < bound /\ n = d + q * Radix
           /\ Len(MQTTPacket_encode[n]) = Len(MQTTPacket_encode[q]) + 1
           /\ MQTTPacket_encode[n][1] = Radix + d
           /\ \A i \in 1..Len(MQTTPacket_encode[q]) :
                MQTTPacket_encode[n][i + 1] = MQTTPacket_encode[q][i]
<1> DEFINE q == n \div Radix  d == n % Radix
<1>0. q \in Nat /\ d \in 0..(Radix - 1) /\ n = q * Radix + d
  BY ONLY RadixAssumption, n \in Nat, Digits
<1>2. MQTTPacket_encode[n] = <<Radix + d>> \o MQTTPacket_encode[q]
  BY Encode
<1> HIDE DEF q, d
<1>1. q \in Nat /\ d \in Digit /\ n = d + q * Radix
  BY <1>0 DEF Digit
<1>3. q # 0
  <2>1. ASSUME q = 0 PROVE FALSE
    BY <1>1, <2>1 DEF Digit
  <2> QED
    BY <2>1
<1>4. q < bound
  <2>1. ASSUME q >= bound PROVE FALSE
    <3>1. q * Radix >= bound * Radix
      BY <1>1, <2>1
    <3> QED
      BY <1>1, <3>1 DEF Digit
  <2> QED
    BY <1>1, <2>1
<1>5. /\ Len(MQTTPacket_encode[n]) = Len(MQTTPacket_encode[q]) + 1
      /\ MQTTPacket_encode[n][1] = Radix + d
      /\ \A i \in 1..Len(MQTTPacket_encode[q]) :
           MQTTPacket_encode[n][i + 1] = MQTTPacket_encode[q][i]
  <2>0. MQTTPacket_encode \in [Nat -> Seq(Nat)]
    BY Encode
  <2>1. MQTTPacket_encode[q] \in Seq(Nat) /\ <<Radix + d>> \in Seq(Nat)
    BY <1>1, <2>0 DEF Digit
  <2>2. \A i \in 1..Len(MQTTPacket_encode[q]) : 1 + i > 1 /\ (1 + i) - 1 = i
    BY <2>1
  <2> QED
    BY ONLY <1>2, <2>1, <2>2, ConcatProperties
<1> QED
  BY <1>1, <1>3, <1>4, <1>5

\* The digits of a length below the square of the radix.
LEMMA TwoDigits ==
  ASSUME NEW n \in Nat, n >= Radix, n < Radix2
  PROVE  \E d1 \in Digit, d2 \in Digit :
           /\ n = d1 + d2 * Radix /\ Len(MQTTPacket_encode[n]) = 2
           /\ MQTTPacket_encode[n][1] = Radix + d1 /\ MQTTPacket_encode[n][2] = d2
<1>1. PICK q \in Nat, d \in Digit :
           /\ q >= 1 /\ q < Radix /\ n = d + q * Radix
           /\ Len(MQTTPacket_encode[n]) = Len(MQTTPacket_encode[q]) + 1
           /\ MQTTPacket_encode[n][1] = Radix + d
           /\ \A i \in 1..Len(MQTTPacket_encode[q]) :
                MQTTPacket_encode[n][i + 1] = MQTTPacket_encode[q][i]
  BY Longer DEF Radix2
<1>2. q \in Digit /\ Len(MQTTPacket_encode[q]) = 1 /\ MQTTPacket_encode[q][1] = q
  BY <1>1, OneDigit
<1>3. MQTTPacket_encode[n][2] = q
  BY <1>1, <1>2
<1> QED
  BY <1>1, <1>2, <1>3

\* The digits of a length below its cube.
LEMMA ThreeDigits ==
  ASSUME NEW n \in Nat, n >= Radix2, n < Radix3
  PROVE  \E d1 \in Digit, d2 \in Digit, d3 \in Digit :
           /\ n = d1 + d2 * Radix + d3 * Radix2 /\ Len(MQTTPacket_encode[n]) = 3
           /\ MQTTPacket_encode[n][1] = Radix + d1 /\ MQTTPacket_encode[n][2] = Radix + d2
           /\ MQTTPacket_encode[n][3] = d3
<1>0. Radix2 \in Nat /\ Radix2 >= Radix
  BY DEF Radix2
<1>1. PICK q \in Nat, d \in Digit :
           /\ q >= 1 /\ q < Radix2 /\ n = d + q * Radix
           /\ Len(MQTTPacket_encode[n]) = Len(MQTTPacket_encode[q]) + 1
           /\ MQTTPacket_encode[n][1] = Radix + d
           /\ \A i \in 1..Len(MQTTPacket_encode[q]) :
                MQTTPacket_encode[n][i + 1] = MQTTPacket_encode[q][i]
  <2>1. n < Radix2 * Radix /\ n >= Radix
    BY <1>0 DEF Radix3
  <2> QED
    BY ONLY n \in Nat, <1>0, <2>1, Longer
<1>2. q >= Radix
  <2>1. ASSUME q < Radix PROVE FALSE
    <3>1. q * Radix <= (Radix - 1) * Radix
      BY <2>1
    <3>2. (Radix - 1) * Radix = Radix2 - Radix
      BY DEF Radix2
    <3>3. q * Radix <= Radix2 - Radix /\ d < Radix
      BY ONLY <3>1, <3>2, d \in Digit, RadixAssumption DEF Digit
    <3> QED
      BY <1>0, <1>1, <3>3 DEF Digit
  <2> QED
    BY <2>1
<1>3. PICK d2 \in Digit, d3 \in Digit :
        /\ q = d2 + d3 * Radix /\ Len(MQTTPacket_encode[q]) = 2
        /\ MQTTPacket_encode[q][1] = Radix + d2 /\ MQTTPacket_encode[q][2] = d3
  BY <1>1, <1>2, TwoDigits
<1>4. MQTTPacket_encode[n][2] = Radix + d2 /\ MQTTPacket_encode[n][3] = d3
  BY <1>1, <1>3
<1>5. n = d + d2 * Radix + d3 * Radix2
  BY <1>1, <1>3 DEF Digit, Radix2
<1> QED
  BY <1>1, <1>3, <1>4, <1>5

\* The digits of a length below its fourth power.
LEMMA FourDigits ==
  ASSUME NEW n \in Nat, n >= Radix3, n < Radix3 * Radix
  PROVE  \E d1 \in Digit, d2 \in Digit, d3 \in Digit, d4 \in Digit :
           /\ n = d1 + d2 * Radix + d3 * Radix2 + d4 * Radix3
           /\ Len(MQTTPacket_encode[n]) = 4
           /\ MQTTPacket_encode[n][1] = Radix + d1 /\ MQTTPacket_encode[n][2] = Radix + d2
           /\ MQTTPacket_encode[n][3] = Radix + d3 /\ MQTTPacket_encode[n][4] = d4
<1>0. Radix2 \in Nat /\ Radix2 >= Radix /\ Radix3 \in Nat /\ Radix3 >= Radix2
  BY DEF Radix2, Radix3
<1>1. PICK q \in Nat, d \in Digit :
           /\ q >= 1 /\ q < Radix3 /\ n = d + q * Radix
           /\ Len(MQTTPacket_encode[n]) = Len(MQTTPacket_encode[q]) + 1
           /\ MQTTPacket_encode[n][1] = Radix + d
           /\ \A i \in 1..Len(MQTTPacket_encode[q]) :
                MQTTPacket_encode[n][i + 1] = MQTTPacket_encode[q][i]
  <2>1. n >= Radix
    BY <1>0
  <2> QED
    BY ONLY n \in Nat, n < Radix3 * Radix, <1>0, <2>1, Longer
<1>2. q >= Radix2
  <2>1. ASSUME q < Radix2 PROVE FALSE
    <3>1. q * Radix <= (Radix2 - 1) * Radix
      BY <1>0, <2>1
    <3>2. (Radix2 - 1) * Radix = Radix3 - Radix
      BY <1>0 DEF Radix3
    <3> QED
      BY <1>0, <1>1, <3>1, <3>2 DEF Digit
  <2> QED
    BY <1>0, <2>1
<1>3. PICK d2 \in Digit, d3 \in Digit, d4 \in Digit :
        /\ q = d2 + d3 * Radix + d4 * Radix2 /\ Len(MQTTPacket_encode[q]) = 3
        /\ MQTTPacket_encode[q][1] = Radix + d2 /\ MQTTPacket_encode[q][2] = Radix + d3
        /\ MQTTPacket_encode[q][3] = d4
  BY <1>1, <1>2, ThreeDigits
<1>4. /\ MQTTPacket_encode[n][2] = Radix + d2 /\ MQTTPacket_encode[n][3] = Radix + d3
      /\ MQTTPacket_encode[n][4] = d4
  BY <1>1, <1>3
<1>5. q * Radix = d2 * Radix + d3 * Radix2 + d4 * Radix3
  BY <1>3 DEF Digit, Radix2, Radix3
<1>6. n = d + d2 * Radix + d3 * Radix2 + d4 * Radix3
  BY <1>0, <1>1, <1>5 DEF Digit
<1> QED
  BY <1>1, <1>3, <1>4, <1>6

(* MQTTPacket_decode, where the last digit is the n-th byte.                 *)
LEMMA DecodeAt ==
  ASSUME NEW buf, NEW n \in 1..4, \A j \in 1..n : buf[j] \in Nat,
         \A j \in 1..(n - 1) : buf[j] >= Radix, buf[n] < Radix
  PROVE  LET d(k) == buf[k] % Radix IN
         /\ MQTTPacket_decode(buf).len = n
         /\ n = 1 => MQTTPacket_decode(buf).value = d(1)
         /\ n = 2 => MQTTPacket_decode(buf).value = d(1) + d(2) * Radix
         /\ n = 3 => MQTTPacket_decode(buf).value = d(1) + d(2) * Radix + d(3) * Radix2
         /\ n = 4 => MQTTPacket_decode(buf).value =
                       d(1) + d(2) * Radix + d(3) * Radix2 + d(4) * Radix3
<1> DEFINE last == {k \in 1..MaxDigits : buf[k] < Radix /\ \A j \in 1..(k - 1) : buf[j] >= Radix}
           m == IF last = {} THEN MaxDigits ELSE CHOOSE k \in last : TRUE
           d(k) == buf[k] % Radix
           value == IF m = 1 THEN d(1)
               ELSE IF m = 2 THEN d(1) + d(2) * Radix
               ELSE IF m = 3 THEN d(1) + d(2) * Radix + d(3) * Radix2
               ELSE d(1) + d(2) * Radix + d(3) * Radix2 + d(4) * Radix3
<1>1. MQTTPacket_decode(buf) = [value |-> value, len |-> IF last = {} THEN MaxDigits + 1 ELSE m]
  BY DEF MQTTPacket_decode
<1>2. last = {n}
  <2>1. n \in last
    BY DEF MaxDigits
  <2>2. ASSUME NEW k \in last PROVE k = n
    <3>1. CASE k < n
      BY <3>1
    <3>2. CASE k > n
      BY <3>2
    <3> QED
      BY <3>1, <3>2
  <2> QED
    BY <2>1, <2>2
<1>3. m = n /\ last # {}
  BY <1>2
<1>4. MQTTPacket_decode(buf).len = n /\ MQTTPacket_decode(buf).value = value
  BY <1>1, <1>3
<1> HIDE DEF last, m, d
<1> QED
  BY <1>3, <1>4 DEF d

LEMMA Remainders ==
  ASSUME NEW d \in Digit
  PROVE  d % Radix = d /\ (Radix + d) % Radix = d /\ Radix + d >= Radix /\ d < Radix
         /\ Radix + d \in Nat
BY DEF Digit

(* The length field of every packet that can be announced is read back.      *)
LEMMA DecodeEncode ==
  ASSUME NEW n \in 0..Longest, NEW buf,
         \A i \in 1..Len(MQTTPacket_encode[n]) : buf[i] = MQTTPacket_encode[n][i]
  PROVE  /\ Len(MQTTPacket_encode[n]) \in 1..4
         /\ MQTTPacket_decode(buf).len = Len(MQTTPacket_encode[n])
         /\ MQTTPacket_decode(buf).value = n
<1>0. n \in Nat /\ n < Radix3 * Radix /\ Radix2 \in Nat /\ Radix3 \in Nat
  BY DEF Longest, Radix2, Radix3
<1>1. CASE n < Radix
  <2>1. n \in Digit /\ Len(MQTTPacket_encode[n]) = 1 /\ buf[1] = n
    BY <1>0, <1>1, OneDigit
  <2>2. MQTTPacket_decode(buf).len = 1 /\ MQTTPacket_decode(buf).value = buf[1] % Radix
    BY <1>0, <1>1, <2>1, DecodeAt
  <2> QED
    BY <2>1, <2>2, Remainders
<1>2. CASE n >= Radix /\ n < Radix2
  <2>1. PICK d1 \in Digit, d2 \in Digit :
           /\ n = d1 + d2 * Radix /\ Len(MQTTPacket_encode[n]) = 2
           /\ MQTTPacket_encode[n][1] = Radix + d1 /\ MQTTPacket_encode[n][2] = d2
    BY <1>0, <1>2, TwoDigits
  <2>2. buf[1] = Radix + d1 /\ buf[2] = d2 /\ d1 \in Nat /\ d2 \in Nat
    BY <2>1 DEF Digit
  <2>3. /\ \A j \in 1..2 : buf[j] \in Nat
        /\ \A j \in 1..(2 - 1) : buf[j] >= Radix
        /\ buf[2] < Radix
    <3>1. buf[1] \in Nat /\ buf[2] \in Nat
      BY <2>2
    <3>2. buf[1] >= Radix /\ buf[2] < Radix
      BY ONLY <2>2, Remainders
    <3> QED
      BY ONLY <3>1, <3>2
  <2>4. /\ MQTTPacket_decode(buf).len = 2
        /\ MQTTPacket_decode(buf).value = (buf[1] % Radix) + (buf[2] % Radix) * Radix
    BY <2>3, DecodeAt
  <2> QED
    BY <2>1, <2>2, <2>4, Remainders
<1>3. CASE n >= Radix2 /\ n < Radix3
  <2>1. PICK d1 \in Digit, d2 \in Digit, d3 \in Digit :
           /\ n = d1 + d2 * Radix + d3 * Radix2 /\ Len(MQTTPacket_encode[n]) = 3
           /\ MQTTPacket_encode[n][1] = Radix + d1 /\ MQTTPacket_encode[n][2] = Radix + d2
           /\ MQTTPacket_encode[n][3] = d3
    BY <1>0, <1>3, ThreeDigits
  <2>2. buf[1] = Radix + d1 /\ buf[2] = Radix + d2 /\ buf[3] = d3
        /\ d1 \in Nat /\ d2 \in Nat /\ d3 \in Nat
    BY <2>1 DEF Digit
  <2>3. /\ \A j \in 1..3 : buf[j] \in Nat
        /\ \A j \in 1..(3 - 1) : buf[j] >= Radix
        /\ buf[3] < Radix
    <3>1. buf[1] \in Nat /\ buf[2] \in Nat /\ buf[3] \in Nat
      BY <2>2
    <3>2. buf[1] >= Radix /\ buf[2] >= Radix /\ buf[3] < Radix
      BY ONLY <2>2, Remainders
    <3> QED
      BY ONLY <3>1, <3>2
  <2>4. /\ MQTTPacket_decode(buf).len = 3
        /\ MQTTPacket_decode(buf).value =
             (buf[1] % Radix) + (buf[2] % Radix) * Radix + (buf[3] % Radix) * Radix2
    BY <2>3, DecodeAt
  <2> QED
    BY <2>1, <2>2, <2>4, Remainders
<1>4. CASE n >= Radix3
  <2>1. PICK d1 \in Digit, d2 \in Digit, d3 \in Digit, d4 \in Digit :
           /\ n = d1 + d2 * Radix + d3 * Radix2 + d4 * Radix3
           /\ Len(MQTTPacket_encode[n]) = 4
           /\ MQTTPacket_encode[n][1] = Radix + d1 /\ MQTTPacket_encode[n][2] = Radix + d2
           /\ MQTTPacket_encode[n][3] = Radix + d3 /\ MQTTPacket_encode[n][4] = d4
    BY <1>0, <1>4, FourDigits
  <2>2. buf[1] = Radix + d1 /\ buf[2] = Radix + d2 /\ buf[3] = Radix + d3 /\ buf[4] = d4
        /\ d1 \in Nat /\ d2 \in Nat /\ d3 \in Nat /\ d4 \in Nat
    BY <2>1 DEF Digit
  <2>3. /\ \A j \in 1..4 : buf[j] \in Nat
        /\ \A j \in 1..(4 - 1) : buf[j] >= Radix
        /\ buf[4] < Radix
    <3>1. buf[1] \in Nat /\ buf[2] \in Nat /\ buf[3] \in Nat /\ buf[4] \in Nat
      BY <2>2
    <3>2. buf[1] >= Radix /\ buf[2] >= Radix /\ buf[3] >= Radix /\ buf[4] < Radix
      BY ONLY <2>2, Remainders
    <3> QED
      BY ONLY <3>1, <3>2
  <2>4. /\ MQTTPacket_decode(buf).len = 4
        /\ MQTTPacket_decode(buf).value =
             (buf[1] % Radix) + (buf[2] % Radix) * Radix + (buf[3] % Radix) * Radix2
               + (buf[4] % Radix) * Radix3
    BY <2>3, DecodeAt
  <2> QED
    BY <2>1, <2>2, <2>4, Remainders
<1> QED
  BY <1>0, <1>1, <1>2, <1>3, <1>4

\* Where one more digit is needed.
LEMMA EdgesOfDigits ==
  ASSUME NEW n \in Nat, NEW r1 \in Nat, NEW r2 \in Nat, NEW r3 \in Nat,
         r1 + 1 < r2, r2 + 1 < r3, NEW L, NEW counted,
         /\ n < r1 => L = 1
         /\ n >= r1 /\ n < r2 => L = 2
         /\ n >= r2 /\ n < r3 => L = 3
         /\ n >= r3 => L = 4,
         \/ n + 1 < r1 /\ counted = n + 2
         \/ n + 1 >= r1 /\ n + 1 < r2 /\ counted = n + 3
         \/ n + 1 >= r2 /\ n + 1 < r3 - 1 /\ counted = n + 4
         \/ n + 1 >= r3 - 1 /\ counted = n + 5
  PROVE  counted - (1 + L + n) \in 0..1
OBVIOUS

(* The length that is compared with the buffer is the packet's, or one more. *)
LEMMA LengthCounted ==
  ASSUME NEW n \in 0..Longest
  PROVE  MQTTPacket_len(n) - (1 + Len(MQTTPacket_encode[n]) + n) \in 0..1
<1>0. /\ n \in Nat /\ n < Radix3 * Radix
      /\ Radix2 \in Nat /\ Radix3 \in Nat /\ Radix < Radix2 /\ Radix2 < Radix3
      /\ Radix + 1 < Radix2 /\ Radix2 + 1 < Radix3 /\ Radix3 >= 8
  BY DEF Longest, Radix2, Radix3
<1>1. /\ n < Radix => Len(MQTTPacket_encode[n]) = 1
      /\ n >= Radix /\ n < Radix2 => Len(MQTTPacket_encode[n]) = 2
      /\ n >= Radix2 /\ n < Radix3 => Len(MQTTPacket_encode[n]) = 3
      /\ n >= Radix3 => Len(MQTTPacket_encode[n]) = 4
  BY <1>0, OneDigit, TwoDigits, ThreeDigits, FourDigits
<1>2. Len(MQTTPacket_encode[n]) \in 1..4
  BY <1>0, <1>1
<1>3. \/ n + 1 < Radix /\ MQTTPacket_len(n) = n + 2
      \/ n + 1 >= Radix /\ n + 1 < Radix2 /\ MQTTPacket_len(n) = n + 3
      \/ n + 1 >= Radix2 /\ n + 1 < Radix3 - 1 /\ MQTTPacket_len(n) = n + 4
      \/ n + 1 >= Radix3 - 1 /\ MQTTPacket_len(n) = n + 5
  BY <1>0 DEF MQTTPacket_len
<1> DEFINE L == Len(MQTTPacket_encode[n])  counted == MQTTPacket_len(n)
<1>4. Radix \in Nat
  OBVIOUS
<1>5. /\ n < Radix => L = 1
      /\ n >= Radix /\ n < Radix2 => L = 2
      /\ n >= Radix2 /\ n < Radix3 => L = 3
      /\ n >= Radix3 => L = 4
  BY <1>1
<1>6. \/ n + 1 < Radix /\ counted = n + 2
      \/ n + 1 >= Radix /\ n + 1 < Radix2 /\ counted = n + 3
      \/ n + 1 >= Radix2 /\ n + 1 < Radix3 - 1 /\ counted = n + 4
      \/ n + 1 >= Radix3 - 1 /\ counted = n + 5
  BY <1>3
<1> HIDE DEF L, counted
<1>7. counted - (1 + L + n) \in 0..1
  BY ONLY <1>0, <1>4, <1>5, <1>6, EdgesOfDigits
<1> QED
  BY <1>7 DEF L, counted

LEMMA LongNotCounted ==
  ASSUME NEW n \in Nat, NEW buflen \in 0..Longest, MQTTPacket_len(n) <= buflen
  PROVE  n \in 0..Longest
BY DEF MQTTPacket_len, Longest, Radix2, Radix3

\* A packet with a header, the length n and its fields, and what a reader makes of it
\* when something is behind it.
Laid(packet, behind, h, n, fields, T) ==
  LET buf == packet \o behind
      L == Len(MQTTPacket_encode[n])
  IN /\ L \in 1..4 /\ Len(packet) = 1 + L + Len(fields)
     /\ buf[1] = h /\ Short(buf) = L
     /\ Begin(buf) = 2 + L /\ EndData(buf) = 2 + L + n
     /\ \A i \in 1..Len(fields) : buf[1 + L + i] = fields[i]
     /\ buf \in Seq(T) /\ Len(buf) = 1 + L + Len(fields) + Len(behind)
     /\ MQTTPacket_decode(Tail(packet) \o behind).len = L
     /\ MQTTPacket_decode(Tail(packet) \o behind).value = n

(* A packet: its length field and its fields are where they belong, whatever *)
(* is behind it.                                                             *)
LEMMA Contents ==
  ASSUME NEW T, Nat \subseteq T, NEW h \in T, NEW n \in 0..Longest,
         NEW fields \in Seq(T), NEW behind \in Seq(T)
  PROVE  Laid(<<h>> \o MQTTPacket_encode[n] \o fields, behind, h, n, fields, T)
<1> DEFINE e == MQTTPacket_encode[n]
           L == Len(e)
           s == <<h>> \o e
           packet == s \o fields
           buf == packet \o behind
<1>1. e \in Seq(T) /\ <<h>> \in Seq(T)
  <2>0. MQTTPacket_encode \in [Nat -> Seq(Nat)]
    BY Encode
  <2>1. e \in Seq(Nat)
    BY <2>0
  <2> DEFINE N == Nat
  <2>3. e \in Seq(N) /\ N \subseteq T
    BY <2>1
  <2> HIDE DEF e, N
  <2>2. e \in Seq(T)
    BY ONLY <2>3, SeqMonotonic
  <2> QED
    BY <2>2
<1>2. L \in Nat /\ Len(fields) \in Nat /\ Len(behind) \in Nat
  BY <1>1
<1> HIDE DEF e
<1>3. /\ s \in Seq(T) /\ Len(s) = 1 + L /\ s[1] = h
      /\ \A i \in 1..L : s[1 + i] = e[i]
  <2>1. Len(<<h>>) = 1 /\ <<h>>[1] = h
    OBVIOUS
  <2>2. s \in Seq(T) /\ Len(s) = 1 + L
    BY ONLY <1>1, <2>1, ConcatProperties
  <2>3. \A i \in 1..(1 + L) : s[i] = IF i <= 1 THEN <<h>>[i] ELSE e[i - 1]
    BY ONLY <1>1, <2>1, ConcatProperties
  <2>4. s[1] = h
    BY ONLY <1>2, <2>1, <2>3
  <2>5. ASSUME NEW i \in 1..L PROVE s[1 + i] = e[i]
    <3>1. 1 + i \in 1..(1 + L) /\ ~(1 + i <= 1) /\ (1 + i) - 1 = i
      BY <1>2
    <3> QED
      BY ONLY <2>3, <3>1
  <2> QED
    BY <2>2, <2>4, <2>5
<1> HIDE DEF s
<1>4. /\ packet \in Seq(T) /\ Len(packet) = 1 + L + Len(fields)
      /\ \A i \in 1..(1 + L) : packet[i] = s[i]
      /\ \A i \in 1..Len(fields) : packet[1 + L + i] = fields[i]
  <2>1. packet \in Seq(T) /\ Len(packet) = 1 + L + Len(fields)
    BY ONLY <1>3, fields \in Seq(T), ConcatProperties
  <2>2. \A i \in 1..(1 + L + Len(fields)) :
          packet[i] = IF i <= 1 + L THEN s[i] ELSE fields[i - (1 + L)]
    BY ONLY <1>3, fields \in Seq(T), ConcatProperties
  <2>3. ASSUME NEW i \in 1..(1 + L) PROVE packet[i] = s[i]
    <3>1. i \in 1..(1 + L + Len(fields)) /\ i <= 1 + L
      BY <1>2
    <3> QED
      BY ONLY <2>2, <3>1
  <2>4. ASSUME NEW i \in 1..Len(fields) PROVE packet[1 + L + i] = fields[i]
    <3>1. /\ 1 + L + i \in 1..(1 + L + Len(fields)) /\ ~(1 + L + i <= 1 + L)
          /\ (1 + L + i) - (1 + L) = i
      BY <1>2
    <3> QED
      BY ONLY <2>2, <3>1
  <2> QED
    BY <2>1, <2>3, <2>4
<1> HIDE DEF packet
<1>5. /\ buf \in Seq(T) /\ Len(buf) = 1 + L + Len(fields) + Len(behind)
      /\ \A i \in 1..(1 + L + Len(fields)) : buf[i] = packet[i]
  <2>1. buf \in Seq(T) /\ Len(buf) = 1 + L + Len(fields) + Len(behind)
    BY ONLY <1>4, behind \in Seq(T), ConcatProperties
  <2>2. \A i \in 1..(1 + L + Len(fields) + Len(behind)) :
          buf[i] = IF i <= 1 + L + Len(fields) THEN packet[i]
                   ELSE behind[i - (1 + L + Len(fields))]
    BY ONLY <1>4, behind \in Seq(T), ConcatProperties
  <2>3. ASSUME NEW i \in 1..(1 + L + Len(fields)) PROVE buf[i] = packet[i]
    <3>1. i \in 1..(1 + L + Len(fields) + Len(behind)) /\ i <= 1 + L + Len(fields)
      BY <1>2
    <3> QED
      BY ONLY <2>2, <3>1
  <2> QED
    BY <2>1, <2>3
<1> HIDE DEF buf
<1>6. /\ \A i \in 1..L : Tail(buf)[i] = e[i]
      /\ \A i \in 1..L : (Tail(packet) \o behind)[i] = e[i]
  <2>1. ASSUME NEW i \in 1..L PROVE Tail(buf)[i] = e[i]
    <3>1. Len(buf) \in Nat /\ i \in 1..(Len(buf) - 1) /\ buf # <<>>
      BY <1>2, <1>5
    <3>2. Tail(buf)[i] = buf[i + 1]
      BY ONLY <1>5, <3>1, HeadTailProperties
    <3>3. i + 1 \in 1..(1 + L + Len(fields)) /\ i + 1 \in 1..(1 + L) /\ i + 1 = 1 + i
      BY <1>2
    <3> QED
      BY <1>3, <1>4, <1>5, <3>2, <3>3
  <2>2. ASSUME NEW i \in 1..L PROVE (Tail(packet) \o behind)[i] = e[i]
    <3>1. Len(packet) \in Nat /\ i \in 1..(Len(packet) - 1) /\ packet # <<>>
      BY <1>2, <1>4
    <3>2. /\ Tail(packet)[i] = packet[i + 1] /\ Tail(packet) \in Seq(T)
          /\ Len(Tail(packet)) = Len(packet) - 1
      BY ONLY <1>4, <3>1, HeadTailProperties
    <3> DEFINE t == Tail(packet)
    <3> HIDE DEF t
    <3>3. (t \o behind)[i] = t[i]
      <4>1. t \in Seq(T) /\ i \in 1..(Len(t) + Len(behind)) /\ i <= Len(t)
        BY <1>2, <3>1, <3>2 DEF t
      <4> QED
        BY ONLY <4>1, behind \in Seq(T), ConcatProperties
    <3>4. i + 1 \in 1..(1 + L + Len(fields)) /\ i + 1 \in 1..(1 + L) /\ i + 1 = 1 + i
      BY <1>2
    <3> QED
      BY <1>3, <1>4, <3>2, <3>3, <3>4 DEF t
  <2> QED
    BY <2>1, <2>2
<1>7. /\ L \in 1..4
      /\ MQTTPacket_decode(Tail(buf)).len = L /\ MQTTPacket_decode(Tail(buf)).value = n
      /\ MQTTPacket_decode(Tail(packet) \o behind).len = L
      /\ MQTTPacket_decode(Tail(packet) \o behind).value = n
  BY ONLY <1>6, n \in 0..Longest, DecodeEncode DEF e
<1>8. buf[1] = h /\ \A i \in 1..Len(fields) : buf[1 + L + i] = fields[i]
  <2>1. 1 \in 1..(1 + L) /\ 1 \in 1..(1 + L + Len(fields))
        /\ \A i \in 1..Len(fields) : 1 + L + i \in 1..(1 + L + Len(fields))
    BY <1>2
  <2> QED
    BY <1>3, <1>4, <1>5, <2>1
<1>9. Short(buf) = L /\ Begin(buf) = 2 + L /\ EndData(buf) = 2 + L + n
  BY <1>7 DEF Short, Begin, EndData
<1> QED
  BY <1>4, <1>5, <1>7, <1>8, <1>9 DEF Laid, e, s, packet, buf

-----------------------------------------------------------------------------
(* What the parsers make of a packet of the broker.                        *)

\* The fields of a packet of the broker are where a parser looks for them.
LEMMA PacketOfBroker ==
  ASSUME NEW type, NEW qos, NEW fields \in Seq(Nat), Len(fields) <= Longest
  PROVE  LET buf == FromBroker(type, qos, fields)
             n == Len(fields)
         IN /\ buf[1] = Header(type, 0, qos, 0)
            /\ Begin(buf) \in Nat /\ EndData(buf) = Begin(buf) + n
            /\ n >= 2 => readInt(buf, Begin(buf)) = readInt(fields, 1)
            /\ n >= 2 => buf[Begin(buf) + 1] = fields[2]
            /\ n >= 2 => SubSeq(buf, Begin(buf) + 2, EndData(buf) - 1) = SubSeq(fields, 3, n)
<1> DEFINE h == Header(type, 0, qos, 0)
           T == Nat \cup {h}
           n == Len(fields)
           L == Len(MQTTPacket_encode[n])
           buf == FromBroker(type, qos, fields)
<1>1. n \in 0..Longest /\ n \in Nat
  BY DEF Longest, Radix3, Radix2
<1>n. n = Len(fields)
  OBVIOUS
<1>2. fields \in Seq(T) /\ Stale \in Seq(T) /\ h \in T /\ Nat \subseteq T
  <2>1. Nat \subseteq T /\ h \in T
    OBVIOUS
  <2> DEFINE N == Nat
  <2>2. fields \in Seq(N) /\ Stale \in Seq(N) /\ N \subseteq T
    BY <2>1, StaleAssumption
  <2> HIDE DEF N, T
  <2>3. fields \in Seq(T) /\ Stale \in Seq(T)
    BY ONLY <2>2, SeqMonotonic
  <2> QED
    BY <2>1, <2>3
<1>3. buf = <<h>> \o MQTTPacket_encode[n] \o fields \o Stale
  BY DEF FromBroker
<1> HIDE DEF T, h, n
<1>4. /\ L \in 1..4 /\ buf[1] = h
      /\ Begin(buf) = 2 + L /\ EndData(buf) = 2 + L + n
      /\ \A i \in 1..n : buf[1 + L + i] = fields[i]
      /\ buf \in Seq(T) /\ Len(buf) = 1 + L + n + Len(Stale)
  <2> DEFINE packet == <<h>> \o MQTTPacket_encode[n] \o fields
  <2>1. Laid(packet, Stale, h, n, fields, T)
    BY ONLY <1>1, <1>2, Contents
  <2>2. packet \o Stale = buf
    BY <1>3
  <2> HIDE DEF packet, buf
  <2> QED
    BY ONLY <2>1, <2>2, <1>n DEF Laid, L
<1> HIDE DEF buf, L
<1>5. ASSUME n >= 2
      PROVE  /\ readInt(buf, Begin(buf)) = readInt(fields, 1)
             /\ buf[Begin(buf) + 1] = fields[2]
             /\ SubSeq(buf, Begin(buf) + 2, EndData(buf) - 1) = SubSeq(fields, 3, n)
  <2>1. /\ 1 \in 1..n /\ 2 \in 1..n /\ 1 + L + 1 = 2 + L /\ 1 + L + 2 = 2 + L + 1
        /\ L \in Nat
    BY <1>1, <1>4, <1>5
  <2>2. buf[2 + L] = fields[1] /\ buf[2 + L + 1] = fields[2]
    BY <1>4, <2>1
  <2>3. SubSeq(buf, 4 + L, 1 + L + n) = SubSeq(fields, 3, n)
    <3>1. /\ Len(Stale) \in Nat
          /\ 4 + L \in 1..(Len(buf) + 1) /\ 1 + L + n \in (4 + L - 1)..Len(buf)
          /\ 3 \in 1..(n + 1) /\ n \in (3 - 1)..n /\ (1 + L + n) - (4 + L) = n - 3
      <4>1. \A a \in Nat, b \in Nat, c \in Nat : a >= 2 =>
              /\ 4 + b \in 1..(1 + b + a + c + 1) /\ 1 + b + a \in (4 + b - 1)..(1 + b + a + c)
              /\ 3 \in 1..(a + 1) /\ a \in (3 - 1)..a /\ (1 + b + a) - (4 + b) = a - 3
        OBVIOUS
      <4>2. Len(Stale) \in Nat
        BY StaleAssumption
      <4>3. n \in Nat /\ n >= 2 /\ L \in Nat /\ Len(buf) = 1 + L + n + Len(Stale)
        BY <1>1, <1>4, <1>5, <2>1
      <4> QED
        BY ONLY <4>1, <4>2, <4>3
    <3>2. ASSUME NEW i \in 0..(n - 3) PROVE buf[4 + L + i] = fields[3 + i]
      <4>1. 4 + L + i = 1 + L + (3 + i) /\ 3 + i \in 1..n
        <5>1. \A a \in Nat, b \in Nat : \A j \in 0..(a - 3) :
                4 + b + j = 1 + b + (3 + j) /\ 3 + j \in 1..a
          OBVIOUS
        <5>2. n \in Nat /\ L \in Nat /\ i \in 0..(n - 3)
          BY <1>1, <2>1
        <5> QED
          BY ONLY <5>1, <5>2
      <4> QED
        BY <1>4, <4>1
    <3>3. \A i \in 0..((1 + L + n) - (4 + L)) : buf[4 + L + i] = fields[3 + i]
      BY <3>1, <3>2
    <3> QED
      <4> DEFINE a == 4 + L
                 b == 1 + L + n
                 u == SubSeq(buf, a, b)
                 v == SubSeq(fields, 3, n)
      <4>1. /\ buf \in Seq(T) /\ fields \in Seq(T)
            /\ a \in 1..(Len(buf) + 1) /\ b \in (a - 1)..Len(buf)
            /\ 3 \in 1..(Len(fields) + 1) /\ n \in (3 - 1)..Len(fields)
        BY ONLY <1>2, <1>4, <1>n, <3>1
      <4>2. b - a = n - 3 /\ \A i \in 0..(n - 3) : buf[a + i] = fields[3 + i]
        BY ONLY <3>1, <3>2
      <4>3. n \in Nat /\ a \in Nat /\ b \in Int /\ Len(buf) \in Nat
        BY ONLY <1>1, <1>4, <2>1, <3>1
      <4> HIDE DEF a, b
      <4>4. u \in Seq(T) /\ Len(u) = b - a + 1 /\ \A i \in 1..(b - a + 1) : u[i] = buf[a + i - 1]
        <5>1. a \in Int /\ b \in Int /\ \A i \in a..b : buf[i] \in T
          BY ONLY <4>1, <4>3
        <5>2. (IF a <= b THEN b - a + 1 ELSE 0) = b - a + 1
          BY ONLY <4>1, <4>3
        <5> QED
          BY ONLY <5>1, <5>2, SubSeqProperties
      <4>5. v \in Seq(T) /\ Len(v) = n - 3 + 1 /\ \A i \in 1..(n - 3 + 1) : v[i] = fields[3 + i - 1]
        BY ONLY <4>1, SubSeqProperties
      <4> HIDE DEF u, v
      <4>6. ASSUME NEW i \in 1..(n - 3 + 1) PROVE buf[a + i - 1] = fields[3 + i - 1]
        <5>1. i - 1 \in 0..(n - 3) /\ a + (i - 1) = a + i - 1 /\ 3 + (i - 1) = 3 + i - 1
          BY <4>3
        <5> QED
          BY ONLY <4>2, <5>1
      <4>7. Len(u) = Len(v) /\ \A i \in 1..Len(u) : u[i] = v[i]
        BY ONLY <4>2, <4>4, <4>5, <4>6
      <4>8. u = v
        BY ONLY <4>4, <4>5, <4>7, SeqEqual
      <4> QED
        BY ONLY <4>8 DEF a, b, u, v
  <2>4. /\ Begin(buf) + 2 = 4 + L /\ EndData(buf) - 1 = 1 + L + n
        /\ Begin(buf) = 2 + L
    BY <1>1, <1>4, <2>1
  <2>5. readInt(buf, Begin(buf)) = readInt(fields, 1)
    BY ONLY <2>2, <2>4 DEF readInt
  <2> QED
    BY ONLY <2>2, <2>3, <2>4, <2>5
<1>6. Begin(buf) \in Nat /\ EndData(buf) = Begin(buf) + n
  BY <1>1, <1>4
<1> QED
  BY <1>4, <1>5, <1>6 DEF buf, h, n

\* An UNSUBACK or PUBACK is parsed when its id is in it.
LEMMA AcksParsed ==
  ASSUME NEW type \in {"PUBACK", "UNSUBACK"}, NEW fields \in Seq(Nat), Len(fields) <= Longest
  PROVE  LET buf == FromBroker(type, 0, fields)
             v == IF type = "PUBACK" THEN MQTTDeserialize_ack(buf)
                  ELSE MQTTDeserialize_unsuback(buf)
         IN /\ v.parsed <=> Len(fields) >= 2
            /\ Len(fields) >= 2 => v.rc = 1 /\ v.packetid = readInt(fields, 1)
<1> DEFINE buf == FromBroker(type, 0, fields)
<1>1. /\ buf[1].type = type
      /\ EndData(buf) - Begin(buf) = Len(fields)
      /\ Len(fields) >= 2 => readInt(buf, Begin(buf)) = readInt(fields, 1)
  <2>1. /\ buf[1] = Header(type, 0, 0, 0)
        /\ Begin(buf) \in Nat /\ EndData(buf) = Begin(buf) + Len(fields)
        /\ Len(fields) >= 2 => readInt(buf, Begin(buf)) = readInt(fields, 1)
    BY PacketOfBroker
  <2> HIDE DEF buf
  <2>2. Len(fields) \in Nat
    OBVIOUS
  <2> QED
    BY <2>1, <2>2 DEF Header
<1> HIDE DEF buf
<1>2. Len(fields) \in Nat
  OBVIOUS
<1>3. CASE Len(fields) < 2
  <2>1. MQTTDeserialize_ack(buf) = [rc |-> Short(buf), parsed |-> FALSE]
    BY <1>1, <1>3 DEF MQTTDeserialize_ack, Unparsed
  <2> QED
    BY <1>1, <1>2, <1>3, <2>1 DEF MQTTDeserialize_unsuback, buf
<1>4. CASE Len(fields) >= 2
  <2>1. MQTTDeserialize_ack(buf) =
          [rc |-> 1, parsed |-> TRUE, packettype |-> buf[1].type, dup |-> buf[1].dup,
           packetid |-> readInt(fields, 1)]
    BY <1>1, <1>2, <1>4 DEF MQTTDeserialize_ack
  <2> QED
    BY <1>1, <1>2, <1>4, <2>1 DEF MQTTDeserialize_unsuback, buf
<1> QED
  BY <1>2, <1>3, <1>4

\* A SUBACK is parsed when it has an id and at most two codes.
LEMMA SubackParsed ==
  ASSUME NEW fields \in Seq(Nat), Len(fields) <= Longest
  PROVE  LET v == MQTTDeserialize_suback(FromBroker("SUBACK", 0, fields), 1)
             n == Len(fields)
         IN /\ v.parsed <=> (n >= 2 /\ n <= 4)
            /\ n >= 2 /\ n <= 4 => /\ v.rc = 1 /\ v.packetid = readInt(fields, 1)
                             /\ v.codes = SubSeq(fields, 3, n)
<1> DEFINE buf == FromBroker("SUBACK", 0, fields)
           n == Len(fields)
           v == MQTTDeserialize_suback(buf, 1)
           codes == SubSeq(buf, Begin(buf) + 2, EndData(buf) - 1)
<1>1. n \in Nat
  OBVIOUS
<1>2. /\ buf[1].type = "SUBACK" /\ EndData(buf) - Begin(buf) = n
      /\ n >= 2 => readInt(buf, Begin(buf)) = readInt(fields, 1)
      /\ n >= 2 => codes = SubSeq(fields, 3, n)
  <2>1. /\ buf[1] = Header("SUBACK", 0, 0, 0)
        /\ Begin(buf) \in Nat /\ EndData(buf) = Begin(buf) + n
        /\ n >= 2 => readInt(buf, Begin(buf)) = readInt(fields, 1)
        /\ n >= 2 => codes = SubSeq(fields, 3, n)
    BY PacketOfBroker
  <2> HIDE DEF buf, codes
  <2> QED
    BY <1>1, <2>1 DEF Header
<1>3. n >= 2 => Len(codes) = n - 2
  <2>1. ASSUME n >= 2 PROVE Len(SubSeq(fields, 3, n)) = n - 2
    <3>1. 3 \in 1..(n + 1) /\ n \in (3 - 1)..n /\ n - 3 + 1 = n - 2
      BY <1>1, <2>1
    <3> QED
      BY <3>1, SubSeqProperties
  <2> HIDE DEF codes, buf
  <2> QED
    BY <1>2, <2>1
<1>4. v = IF buf[1].type # "SUBACK" THEN Unparsed(0)
          ELSE IF EndData(buf) - Begin(buf) < 2 THEN Unparsed(Short(buf))
          ELSE IF Len(codes) > 1 + 1 THEN Unparsed(-1)
          ELSE [rc |-> 1, parsed |-> TRUE, packetid |-> readInt(buf, Begin(buf)),
                codes |-> codes]
  BY DEF MQTTDeserialize_suback
<1> HIDE DEF buf, v, codes
<1>5. ASSUME n < 2
      PROVE  (v.parsed <=> (n >= 2 /\ n <= 4))
             /\ (n >= 2 /\ n <= 4 => /\ v.rc = 1 /\ v.packetid = readInt(fields, 1)
                                /\ v.codes = SubSeq(fields, 3, n))
  <2>1. v = [rc |-> Short(buf), parsed |-> FALSE]
    <3>1. buf[1].type = "SUBACK" /\ EndData(buf) - Begin(buf) < 2
      BY <1>2, <1>5
    <3> QED
      BY ONLY <1>4, <3>1 DEF Unparsed
  <2>2. ~v.parsed /\ ~(n >= 2 /\ n <= 4)
    BY <1>1, <1>5, <2>1
  <2> QED
    BY <2>2
<1>6. ASSUME n > 4
      PROVE  (v.parsed <=> (n >= 2 /\ n <= 4))
             /\ (n >= 2 /\ n <= 4 => /\ v.rc = 1 /\ v.packetid = readInt(fields, 1)
                                /\ v.codes = SubSeq(fields, 3, n))
  <2>1. v = [rc |-> -1, parsed |-> FALSE]
    <3>1. /\ buf[1].type = "SUBACK" /\ ~(EndData(buf) - Begin(buf) < 2)
          /\ Len(codes) > 1 + 1
      BY <1>1, <1>2, <1>3, <1>6
    <3> QED
      BY ONLY <1>4, <3>1 DEF Unparsed
  <2>2. ~v.parsed /\ ~(n >= 2 /\ n <= 4)
    BY <1>1, <1>6, <2>1
  <2> QED
    BY <2>2
<1>7. ASSUME n >= 2 /\ n <= 4
      PROVE  (v.parsed <=> (n >= 2 /\ n <= 4))
             /\ (n >= 2 /\ n <= 4 => /\ v.rc = 1 /\ v.packetid = readInt(fields, 1)
                                /\ v.codes = SubSeq(fields, 3, n))
  <2>1. v = [rc |-> 1, parsed |-> TRUE, packetid |-> readInt(fields, 1),
             codes |-> SubSeq(fields, 3, n)]
    <3>1. /\ buf[1].type = "SUBACK" /\ ~(EndData(buf) - Begin(buf) < 2)
          /\ ~(Len(codes) > 1 + 1)
      BY <1>1, <1>2, <1>3, <1>7
    <3>2. readInt(buf, Begin(buf)) = readInt(fields, 1) /\ codes = SubSeq(fields, 3, n)
      BY <1>2, <1>7
    <3> QED
      BY ONLY <1>4, <3>1, <3>2
  <2>2. v.parsed /\ v.rc = 1 /\ v.packetid = readInt(fields, 1)
        /\ v.codes = SubSeq(fields, 3, n)
    BY <2>1
  <2> QED
    BY <1>7, <2>2
<1>8. n < 2 \/ n > 4 \/ (n >= 2 /\ n <= 4)
  BY <1>1
<1>9. (v.parsed <=> (n >= 2 /\ n <= 4))
      /\ (n >= 2 /\ n <= 4 => /\ v.rc = 1 /\ v.packetid = readInt(fields, 1)
                         /\ v.codes = SubSeq(fields, 3, n))
  BY <1>5, <1>6, <1>7, <1>8
<1> QED
  BY <1>9 DEF v, buf

\* A CONNACK is parsed when its code is in it.
LEMMA ConnackParsed ==
  ASSUME NEW fields \in Seq(Nat), Len(fields) <= Longest
  PROVE  LET v == MQTTDeserialize_connack(FromBroker("CONNACK", 0, fields)) IN
         /\ v.parsed <=> Len(fields) >= 2
         /\ Len(fields) >= 2 => v.rc = 1 /\ v.connack_rc = fields[2]
<1> DEFINE buf == FromBroker("CONNACK", 0, fields)
           n == Len(fields)
           v == MQTTDeserialize_connack(buf)
<1>1. n \in Nat
  OBVIOUS
<1>2. /\ buf[1].type = "CONNACK" /\ EndData(buf) - Begin(buf) = n
      /\ n >= 2 => buf[Begin(buf) + 1] = fields[2]
  <2>1. /\ buf[1] = Header("CONNACK", 0, 0, 0)
        /\ Begin(buf) \in Nat /\ EndData(buf) = Begin(buf) + n
        /\ n >= 2 => buf[Begin(buf) + 1] = fields[2]
    BY PacketOfBroker
  <2> HIDE DEF buf
  <2> QED
    BY <1>1, <2>1 DEF Header
<1>3. v = IF buf[1].type # "CONNACK" THEN Unparsed(0)
          ELSE IF EndData(buf) - Begin(buf) < 2 THEN Unparsed(Short(buf))
          ELSE [rc |-> 1, parsed |-> TRUE, connack_rc |-> buf[Begin(buf) + 1]]
  BY DEF MQTTDeserialize_connack
<1> HIDE DEF buf, v
<1>4. CASE n < 2
  <2>1. v = [rc |-> Short(buf), parsed |-> FALSE]
    BY <1>1, <1>2, <1>3, <1>4 DEF Unparsed
  <2> QED
    BY <1>1, <1>4, <2>1 DEF v, buf
<1>5. CASE n >= 2
  <2>1. v = [rc |-> 1, parsed |-> TRUE, connack_rc |-> fields[2]]
    <3>1. ~(n < 2)
      BY <1>1, <1>5
    <3> QED
      BY <1>2, <1>3, <1>5, <3>1
  <2> QED
    BY <1>5, <2>1 DEF v, buf
<1> QED
  BY <1>1, <1>4, <1>5

\* A PUBLISH is parsed when its topic is in it.
LEMMA PublishParsed ==
  ASSUME NEW qos, NEW fields \in Seq(Nat), Len(fields) <= Longest
  PROVE  LET v == MQTTDeserialize_publish(FromBroker("PUBLISH", qos, fields))
             n == Len(fields)
         IN /\ v.parsed <=> (n >= 2 /\ 2 + readInt(fields, 1) <= n)
            /\ v.parsed => v.rc = 1
<1> DEFINE buf == FromBroker("PUBLISH", qos, fields)
           n == Len(fields)
           v == MQTTDeserialize_publish(buf)
           topic == readMQTTLenString(buf, Begin(buf), EndData(buf))
           first == IF buf[1].qos > 0 THEN topic.cur + 2 ELSE topic.cur
<1>1. n \in Nat
  OBVIOUS
<1>2. /\ buf[1].type = "PUBLISH"
      /\ Begin(buf) \in Nat /\ EndData(buf) = Begin(buf) + n
      /\ n >= 2 => readInt(buf, Begin(buf)) = readInt(fields, 1)
  <2>1. /\ buf[1] = Header("PUBLISH", 0, qos, 0)
        /\ Begin(buf) \in Nat /\ EndData(buf) = Begin(buf) + n
        /\ n >= 2 => readInt(buf, Begin(buf)) = readInt(fields, 1)
    BY PacketOfBroker
  <2> HIDE DEF buf
  <2> QED
    BY <1>1, <2>1 DEF Header
<1>3. v = IF buf[1].type # "PUBLISH" THEN Unparsed(0)
          ELSE IF ~topic.ok THEN Unparsed(Short(buf))
          ELSE [rc |-> 1, parsed |-> TRUE, dup |-> buf[1].dup, qos |-> buf[1].qos,
                retained |-> buf[1].retain,
                packetid |-> IF buf[1].qos > 0 THEN readInt(buf, topic.cur) ELSE 0,
                topic |-> topic.string, payloadlen |-> EndData(buf) - first,
                payload |-> SubSeq(buf, first, EndData(buf) - 1)]
  BY DEF MQTTDeserialize_publish
<1> HIDE DEF buf, v
<1>4. topic.ok <=> (n >= 2 /\ 2 + readInt(fields, 1) <= n)
  <2>1. CASE n < 2
    <3>1. EndData(buf) - Begin(buf) <= 1
      BY <1>1, <1>2, <2>1
    <3>2. topic = [ok |-> FALSE, string |-> <<>>, cur |-> Begin(buf)]
      BY ONLY <3>1 DEF readMQTTLenString
    <3> HIDE DEF topic
    <3> QED
      BY <1>1, <2>1, <3>2
  <2>2. CASE n >= 2
    <3> DEFINE len == readInt(fields, 1)
    <3>0. len \in Nat
      <4>1. fields[1] \in Nat /\ fields[2] \in Nat
        BY <1>1, <2>2
      <4> QED
        BY <4>1 DEF readInt, Byte
    <3>1. ~(EndData(buf) - Begin(buf) <= 1) /\ readInt(buf, Begin(buf)) = len
      <4>1. \A a \in Nat, b \in Nat : a >= 2 => ~((b + a) - b <= 1)
        OBVIOUS
      <4>2. ~(EndData(buf) - Begin(buf) <= 1)
        BY ONLY <1>1, <1>2, <2>2, <4>1
      <4> QED
        BY <1>2, <2>2, <4>2
    <3> HIDE DEF len
    <3>2. topic = IF Begin(buf) + 2 + len > EndData(buf)
                  THEN [ok |-> FALSE, string |-> <<>>, cur |-> Begin(buf) + 2]
                  ELSE [ok |-> TRUE,
                        string |-> SubSeq(buf, Begin(buf) + 2, Begin(buf) + 1 + len),
                        cur |-> Begin(buf) + 2 + len]
      BY ONLY <3>1 DEF readMQTTLenString
    <3> HIDE DEF topic
    <3>3. CASE 2 + len > n
      <4>1. Begin(buf) + 2 + len > EndData(buf)
        BY <1>1, <1>2, <3>0, <3>3
      <4>2. topic = [ok |-> FALSE, string |-> <<>>, cur |-> Begin(buf) + 2]
        BY ONLY <3>2, <4>1
      <4> QED
        BY <1>1, <3>0, <3>3, <4>2 DEF len
    <3>4. CASE 2 + len <= n
      <4>1. ~(Begin(buf) + 2 + len > EndData(buf))
        BY <1>1, <1>2, <3>0, <3>4
      <4>2. topic = [ok |-> TRUE,
                     string |-> SubSeq(buf, Begin(buf) + 2, Begin(buf) + 1 + len),
                     cur |-> Begin(buf) + 2 + len]
        BY ONLY <3>2, <4>1
      <4> QED
        BY <2>2, <3>4, <4>2 DEF len
    <3> QED
      BY <1>1, <3>0, <3>3, <3>4
  <2> QED
    BY <1>1, <2>1, <2>2
<1> HIDE DEF topic, first
<1>5. ASSUME ~topic.ok PROVE ~v.parsed
  <2>1. v = [rc |-> Short(buf), parsed |-> FALSE]
    BY ONLY <1>2, <1>3, <1>5 DEF Unparsed
  <2> QED
    BY ONLY <2>1
<1>6. ASSUME topic.ok PROVE v.parsed /\ v.rc = 1
  <2>1. v = [rc |-> 1, parsed |-> TRUE, dup |-> buf[1].dup, qos |-> buf[1].qos,
                retained |-> buf[1].retain,
                packetid |-> IF buf[1].qos > 0 THEN readInt(buf, topic.cur) ELSE 0,
                topic |-> topic.string, payloadlen |-> EndData(buf) - first,
                payload |-> SubSeq(buf, first, EndData(buf) - 1)]
    BY ONLY <1>2, <1>3, <1>6
  <2> QED
    BY ONLY <2>1
<1>7. /\ v.parsed <=> (n >= 2 /\ 2 + readInt(fields, 1) <= n)
      /\ v.parsed => v.rc = 1
  BY ONLY <1>4, <1>5, <1>6
<1> QED
  BY <1>7 DEF v, buf

-----------------------------------------------------------------------------
(* A packet is refused or written whole.                                   *)

\* What a serialiser does with a buffer that is too short.
LEMMA Refused ==
  ASSUME NEW n \in Nat, NEW buflen \in 0..Longest, MQTTPacket_len(n) > buflen
  PROVE  Needs(n) + 1 > buflen
<1> DEFINE L == Len(MQTTPacket_encode[n])
           counted == MQTTPacket_len(n)
<1>1. L \in Nat
  <2>1. MQTTPacket_encode \in [Nat -> Seq(Nat)]
    BY Encode
  <2>2. MQTTPacket_encode[n] \in Seq(Nat)
    BY <2>1
  <2> QED
    BY <2>2
<1>2. Needs(n) = 1 + L + n
  BY DEF Needs
<1>3. counted > buflen
  OBVIOUS
<1>4. counted \in Int
  BY DEF MQTTPacket_len
<1>5. n \in 0..Longest => counted - (1 + L + n) \in 0..1
  BY LengthCounted
<1>6. Longest \in Int
  BY DEF Longest, Radix2, Radix3
<1> HIDE DEF L, counted
<1>7. CASE n \in 0..Longest
  BY <1>1, <1>2, <1>3, <1>4, <1>5, <1>7
<1>8. CASE n > Longest
  BY <1>1, <1>2, <1>6, <1>8
<1> QED
  BY <1>6, <1>7, <1>8

LEMMA StaleOf ==
  ASSUME NEW T, Nat \subseteq T PROVE Stale \in Seq(T)
<1> DEFINE N == Nat
<1>1. N \subseteq T /\ Stale \in Seq(N)
  BY StaleAssumption
<1> HIDE DEF N
<1> QED
  BY ONLY <1>1, SeqMonotonic

(* A packet is refused or written whole, by the length it announces.         *)
Written(v, h, n, fields, buflen) ==
  LET L == Len(MQTTPacket_encode[n]) IN
  /\ v.rc = TooShort <=> MQTTPacket_len(n) > buflen
  /\ v.rc # TooShort =>
       /\ n \in 0..Longest /\ L \in 1..4
       /\ v.buf = <<h>> \o MQTTPacket_encode[n] \o fields
       /\ v.rc = 1 + L + Len(fields) /\ 1 + L + n <= buflen

\* A serialiser refuses, or writes header, length field and fields.
LEMMA PacketWritten ==
  ASSUME NEW T, Nat \subseteq T, NEW h \in T, NEW n \in Nat, NEW fields \in Seq(T),
         NEW buflen \in 0..Longest
  PROVE  Written(Packet(h, n, fields, buflen), h, n, fields, buflen)
<1> DEFINE v == Packet(h, n, fields, buflen)
           L == Len(MQTTPacket_encode[n])
           packet == <<h>> \o MQTTPacket_encode[n] \o fields
           counted == MQTTPacket_len(n)
<1>1. v = IF counted > buflen THEN [rc |-> TooShort, buf |-> <<>>]
          ELSE [rc |-> Len(packet), buf |-> packet]
  BY DEF Packet
<1>2. counted \in Int
  BY DEF MQTTPacket_len
<1>3. ASSUME counted <= buflen
      PROVE  /\ n \in 0..Longest /\ L \in 1..4 /\ Len(packet) = 1 + L + Len(fields)
             /\ counted - (1 + L + n) \in 0..1
  <2>1. n \in 0..Longest
    BY <1>3, LongNotCounted
  <2>2. Laid(packet, Stale, h, n, fields, T)
    BY ONLY Nat \subseteq T, h \in T, <2>1, fields \in Seq(T), StaleOf, Contents
  <2>3. L \in 1..4 /\ Len(packet) = 1 + L + Len(fields)
    BY ONLY <2>2 DEF Laid
  <2>4. counted - (1 + L + n) \in 0..1
    BY <2>1, LengthCounted
  <2> QED
    BY <2>1, <2>3, <2>4
<1>4. Len(fields) \in Nat
  OBVIOUS
<1> HIDE DEF v, L, packet, counted
<1>5. CASE counted > buflen
  <2>1. v.rc = TooShort
    BY <1>1, <1>5
  <2> QED
    BY <1>5, <2>1 DEF Written, v, L, packet, counted
<1>6. CASE counted <= buflen
  <2>1. v.rc = Len(packet) /\ v.buf = packet /\ ~(counted > buflen)
    BY <1>1, <1>2, <1>6
  <2>2. Len(packet) \in Nat /\ 1 + L + n <= buflen
    BY <1>2, <1>3, <1>4, <1>6
  <2>3. v.rc # TooShort
    BY <2>1, <2>2 DEF TooShort
  <2> QED
    BY <1>3, <1>6, <2>1, <2>2, <2>3 DEF Written, v, L, packet, counted
<1> QED
  BY <1>2, <1>5, <1>6

(* When its fields are as long as it announces, it says so of itself.        *)
Whole(v, buflen) ==
  v.rc # TooShort =>
    LET field == MQTTPacket_decode(Tail(v.buf) \o Stale) IN
    v.rc <= buflen /\ v.rc = 1 + field.len + field.value

\* So its packet is whole, when the fields are as long as was said.
LEMMA PacketWhole ==
  ASSUME NEW T, Nat \subseteq T, NEW h \in T, NEW n \in Nat, NEW fields \in Seq(T),
         Len(fields) = n, NEW buflen \in 0..Longest
  PROVE  Whole(Packet(h, n, fields, buflen), buflen)
<1> DEFINE v == Packet(h, n, fields, buflen)
           L == Len(MQTTPacket_encode[n])
           packet == <<h>> \o MQTTPacket_encode[n] \o fields
           field == MQTTPacket_decode(Tail(packet) \o Stale)
<1>1. Written(v, h, n, fields, buflen)
  BY ONLY Nat \subseteq T, h \in T, n \in Nat, fields \in Seq(T), buflen \in 0..Longest,
          PacketWritten
<1>2. ASSUME n \in 0..Longest PROVE Laid(packet, Stale, h, n, fields, T)
  BY ONLY <1>2, Nat \subseteq T, h \in T, fields \in Seq(T), StaleOf, Contents
<1>3. n \in 0..Longest => field.len = L /\ field.value = n
  BY ONLY <1>2 DEF Laid
<1>4. v.rc # TooShort =>
        n \in 0..Longest /\ L \in 1..4 /\ v.buf = packet
        /\ v.rc = 1 + L + n /\ 1 + L + n <= buflen
  BY ONLY <1>1, Len(fields) = n DEF Written
<1> HIDE DEF v, L, packet
<1> QED
  BY <1>3, <1>4 DEF Whole, v, packet

-----------------------------------------------------------------------------
(* Numbers and strings.                                                    *)

\* A number is two bytes that are read back.
LEMMA IntWritten ==
  ASSUME NEW n \in Nat
  PROVE  /\ writeInt(n) \in Seq(Nat) /\ Len(writeInt(n)) = 2
         /\ n < Byte * Byte => readInt(writeInt(n), 1) = n
<1>1. Byte \in Nat /\ Byte > 0
  BY DEF Byte
<1> DEFINE q == n \div Byte  r == n % Byte
<1>2. q \in Nat /\ r \in 0..(Byte - 1) /\ n = q * Byte + r
  BY ONLY <1>1, n \in Nat, Digits, Byte >= 2, RadixAssumption DEF Byte
<1>3. writeInt(n) = <<q % Byte, r>>
  BY DEF writeInt
<1> HIDE DEF q, r
<1>4. q % Byte \in Nat /\ r \in Nat
  BY <1>1, <1>2
<1>5. ASSUME n < Byte * Byte PROVE q % Byte = q
  <2>1. ASSUME q >= Byte PROVE FALSE
    <3>1. q * Byte >= Byte * Byte
      BY <1>1, <1>2, <2>1
    <3> QED
      BY <1>1, <1>2, <1>5, <3>1
  <2>2. q < Byte
    BY <1>1, <1>2, <2>1
  <2> QED
    BY ONLY <1>1, <1>2, <2>2
<1>6. n < Byte * Byte => readInt(writeInt(n), 1) = n
  BY <1>1, <1>2, <1>3, <1>5 DEF readInt
<1> QED
  BY <1>3, <1>4, <1>6

\* A string is its length and its characters.
LEMMA StringWritten ==
  ASSUME NEW str, IsMQTTString(str)
  PROVE  /\ MQTTstrlen(str) \in Nat /\ writeMQTTString(str) \in Seq(Nat)
         /\ Len(writeMQTTString(str)) = 2 + MQTTstrlen(str)
         /\ str # NoString =>
              LET s == IF str.cstring # NULL THEN str.cstring[1] ELSE str.data[1] IN
              s \in Seq(Nat) /\ MQTTstrlen(str) = Len(s) /\ IsSet(str)
              /\ writeMQTTString(str) = writeInt(Len(s)) \o s
<1> DEFINE S == Seq(Nat)
<1>0. /\ str.cstring \in Seq(S) /\ str.data \in Seq(S)
      /\ Len(str.cstring) \in Nat /\ Len(str.data) \in Nat
      /\ Len(str.cstring) + Len(str.data) <= 1
      /\ str = [cstring |-> str.cstring, data |-> str.data]
  BY DEF IsMQTTString
<1>1. ASSUME NEW s \in Seq(Nat)
      PROVE  /\ Len(s) \in Nat /\ writeInt(Len(s)) \o s \in Seq(Nat)
             /\ Len(writeInt(Len(s)) \o s) = 2 + Len(s)
             /\ ~(Len(s) > 0) => writeInt(Len(s)) \o s = writeInt(0)
  <2>1. Len(s) \in Nat
    OBVIOUS
  <2>2. writeInt(Len(s)) \in Seq(Nat) /\ Len(writeInt(Len(s))) = 2
    BY <2>1, IntWritten
  <2>3. ASSUME ~(Len(s) > 0) PROVE writeInt(Len(s)) \o s = writeInt(0)
    <3>1. Len(s) = 0 /\ s = <<>>
      BY <2>1, <2>3
    <3>2. writeInt(Len(s)) \o <<>> = writeInt(Len(s))
      BY <2>2
    <3> QED
      BY <3>1, <3>2
  <2> DEFINE w == writeInt(Len(s))
  <2> HIDE DEF w
  <2>4. w \o s \in Seq(Nat) /\ Len(w \o s) = 2 + Len(s)
    <3> DEFINE N == Nat
    <3>1. w \in Seq(N) /\ s \in Seq(N) /\ Len(w) = 2
      BY <2>2 DEF w
    <3> HIDE DEF N
    <3>2. w \o s \in Seq(N) /\ Len(w \o s) = 2 + Len(s)
      BY ONLY <3>1, Joined
    <3> QED
      BY <3>2 DEF N
  <2> QED
    BY <2>1, <2>3, <2>4 DEF w
<1>2. CASE str.data # NULL
  <2>1. Len(str.data) = 1 /\ Len(str.cstring) = 0 /\ str.cstring = NULL
    <3> DEFINE m == Len(str.data)  k == Len(str.cstring)
    <3> HIDE DEF S
    <3>1. m # 0 /\ (k = 0 => str.cstring = NULL)
      BY <1>0, <1>2, EmptySeq DEF NULL
    <3>2. m \in Nat /\ k \in Nat /\ k + m <= 1
      BY <1>0
    <3> HIDE DEF m, k
    <3>3. m = 1 /\ k = 0
      BY ONLY <3>1, <3>2
    <3> QED
      BY ONLY <3>1, <3>3 DEF m, k
  <2> DEFINE s == str.data[1]
  <2>2. s \in Seq(Nat)
    BY <1>0, <2>1
  <2>3. LenOf(str) = Len(s) /\ MQTTstrlen(str) = Len(s)
    BY <1>2, <2>1 DEF LenOf, MQTTstrlen
  <2>4. writeMQTTString(str) = IF Len(s) > 0 THEN writeInt(Len(s)) \o s ELSE writeInt(0)
    BY <2>1, <2>3 DEF writeMQTTString
  <2> HIDE DEF s
  <2>5. writeMQTTString(str) = writeInt(Len(s)) \o s
    BY <1>1, <2>2, <2>4
  <2>6. IsSet(str)
    BY <1>2 DEF IsSet
  <2> QED
    BY <1>1, <2>1, <2>2, <2>3, <2>5, <2>6 DEF s
<1>3. CASE str.data = NULL /\ str.cstring # NULL
  <2>1. Len(str.cstring) = 1
    <3> DEFINE m == Len(str.data)  k == Len(str.cstring)
    <3> HIDE DEF S
    <3>1. k # 0
      BY <1>0, <1>3, EmptySeq DEF NULL
    <3>2. m \in Nat /\ k \in Nat /\ k + m <= 1
      BY <1>0
    <3> HIDE DEF m, k
    <3>3. k = 1
      BY ONLY <3>1, <3>2
    <3> QED
      BY ONLY <3>3 DEF k
  <2> DEFINE s == str.cstring[1]
  <2>2. s \in Seq(Nat)
    BY <1>0, <2>1
  <2>3. LenOf(str) = 0 /\ MQTTstrlen(str) = Len(s)
    BY <1>3, <2>1 DEF LenOf, MQTTstrlen
  <2>4. writeMQTTString(str) = writeInt(Len(s)) \o s
    <3>1. ~(LenOf(str) > 0)
      BY ONLY <2>3
    <3> QED
      BY ONLY <1>3, <3>1 DEF writeMQTTString, writeCString
  <2> HIDE DEF s
  <2>6. IsSet(str)
    BY <1>3 DEF IsSet
  <2> QED
    BY <1>1, <1>3, <2>2, <2>3, <2>4, <2>6 DEF s
<1>4. CASE str.data = NULL /\ str.cstring = NULL
  <2>1. str = NoString
    BY <1>0, <1>4 DEF NoString
  <2>2. LenOf(str) = 0 /\ MQTTstrlen(str) = 0 /\ writeMQTTString(str) = writeInt(0)
    BY <1>4 DEF LenOf, MQTTstrlen, writeMQTTString
  <2>3. writeInt(0) \in Seq(Nat) /\ Len(writeInt(0)) = 2
    BY IntWritten
  <2> QED
    BY <2>1, <2>2, <2>3
<1> QED
  BY <1>2, <1>3, <1>4

-----------------------------------------------------------------------------
(* PUBLISH, written and read back.                                         *)

(* The fields of a PUBLISH: the length of the topic, the topic, the id, the  *)
(* payload.                                                                  *)
IdOf(p) == IF p.qos > 0 THEN writeInt(p.packetid) ELSE <<>>
PublishFields(p) == writeMQTTString(p.topic) \o IdOf(p) \o p.payload
TopicOf(p) == IF p.topic.cstring # NULL THEN p.topic.cstring[1] ELSE p.topic.data[1]

Publication(p) ==
  /\ IsMQTTString(p.topic) /\ p.topic # NoString
  /\ MQTTstrlen(p.topic) < Byte * Byte /\ p.payload \in Seq(Nat)
  /\ p.qos \in Nat /\ p.packetid \in 0..(Byte * Byte - 1)

\* Where the topic, the id and the payload of a publication are.
LEMMA PublishFieldsAt ==
  ASSUME NEW p, Publication(p)
  PROVE  LET fields == PublishFields(p)
             s == TopicOf(p)
             n == MQTTSerialize_publishLength(p.qos, p.topic, p.payload)
             k == IF p.qos > 0 THEN 2 ELSE 0
         IN /\ s \in Seq(Nat) /\ Len(s) \in Nat
            /\ fields \in Seq(Nat) /\ n \in Nat /\ Len(fields) = n
            /\ n = 2 + Len(s) + k + Len(p.payload)
            /\ readInt(fields, 1) = Len(s)
            /\ \A i \in 1..Len(s) : fields[2 + i] = s[i]
            /\ p.qos > 0 => readInt(fields, 3 + Len(s)) = p.packetid
            /\ \A i \in 1..Len(p.payload) : fields[2 + Len(s) + k + i] = p.payload[i]
<1> DEFINE s == TopicOf(p)  id == IdOf(p)  payload == p.payload
           k == IF p.qos > 0 THEN 2 ELSE 0
           n == MQTTSerialize_publishLength(p.qos, p.topic, p.payload)
           w == writeInt(Len(s))
           fields == PublishFields(p)
<1>1. /\ s \in Seq(Nat) /\ MQTTstrlen(p.topic) = Len(s) /\ Len(s) < Byte * Byte
      /\ writeMQTTString(p.topic) = w \o s /\ Len(s) \in Nat
  <2>1. s \in Seq(Nat) /\ MQTTstrlen(p.topic) = Len(s) /\ writeMQTTString(p.topic) = w \o s
    BY StringWritten DEF Publication, TopicOf
  <2> HIDE DEF s
  <2>2. Len(s) \in Nat
    BY <2>1
  <2> QED
    BY <2>1, <2>2 DEF Publication
<1> HIDE DEF s
<1>2. w \in Seq(Nat) /\ Len(w) = 2 /\ readInt(w, 1) = Len(s)
  BY <1>1, IntWritten
<1>3. id \in Seq(Nat) /\ Len(id) = k /\ (p.qos > 0 => readInt(id, 1) = p.packetid)
  <2>1. p.packetid \in Nat /\ p.packetid < Byte * Byte
    BY DEF Publication, Byte
  <2>2. CASE p.qos > 0
    <3>1. id = writeInt(p.packetid) /\ k = 2
      BY <2>2 DEF IdOf
    <3> QED
      BY <2>1, <3>1, IntWritten
  <2>3. CASE ~(p.qos > 0)
    <3>1. id = <<>> /\ k = 0
      BY <2>3 DEF IdOf
    <3> HIDE DEF id, k
    <3>2. id \in Seq(Nat) /\ Len(id) = 0
      BY ONLY <3>1
    <3> QED
      BY <2>3, <3>1, <3>2
  <2> QED
    BY <2>2, <2>3
<1>4. payload \in Seq(Nat) /\ Len(payload) \in Nat /\ p.qos \in Nat
  BY DEF Publication
<1>5. fields = w \o s \o id \o payload
  BY ONLY <1>1 DEF PublishFields
<1>6. n = 2 + Len(s) + k + Len(payload)
  <2>1. n = 2 + Len(s) + Len(payload) + k
    BY <1>1 DEF MQTTSerialize_publishLength
  <2>2. k \in Nat
    OBVIOUS
  <2>3. Len(s) \in Nat /\ Len(payload) \in Nat
    BY <1>1, <1>4
  <2> HIDE DEF n, k, payload
  <2> QED
    BY ONLY <2>1, <2>2, <2>3
<1>k. k \in Nat /\ (p.qos > 0 => k = 2)
  OBVIOUS
<1> HIDE DEF id, payload, k, n, w, fields
<1>7. /\ fields \in Seq(Nat) /\ Len(fields) = Len(w) + Len(s) + Len(id) + Len(payload)
      /\ \A i \in 1..Len(w) : fields[i] = w[i]
      /\ \A i \in 1..Len(s) : fields[Len(w) + i] = s[i]
      /\ \A i \in 1..Len(id) : fields[Len(w) + Len(s) + i] = id[i]
      /\ \A i \in 1..Len(payload) : fields[Len(w) + Len(s) + Len(id) + i] = payload[i]
  <2> DEFINE N == Nat
  <2>1. w \in Seq(N) /\ s \in Seq(N) /\ id \in Seq(N) /\ payload \in Seq(N)
    BY <1>1, <1>2, <1>3, <1>4
  <2> HIDE DEF N
  <2> DEFINE f == w \o s \o id \o payload
  <2>2. Four(f, w, s, id, payload, N)
    BY ONLY <2>1, FourJoined
  <2>3. fields = f
    BY <1>5
  <2> HIDE DEF f
  <2> QED
    BY ONLY <2>2, <2>3 DEF N, Four
<1>8. readInt(fields, 1) = Len(s)
  <2>1. fields[1] = w[1] /\ fields[2] = w[2]
    BY <1>2, <1>7
  <2> QED
    BY <1>2, <2>1 DEF readInt
<1>9. p.qos > 0 => readInt(fields, 3 + Len(s)) = p.packetid
  <2> SUFFICES ASSUME p.qos > 0 PROVE readInt(fields, 3 + Len(s)) = p.packetid
    OBVIOUS
  <2>1. Len(id) = 2 /\ 1 \in 1..Len(id) /\ 2 \in 1..Len(id)
    BY <1>3, <1>k
  <2>2. fields[2 + Len(s) + 1] = id[1] /\ fields[2 + Len(s) + 2] = id[2]
    BY ONLY <1>2, <1>7, <2>1
  <2>3. 3 + Len(s) = 2 + Len(s) + 1 /\ 3 + Len(s) + 1 = 2 + Len(s) + 2
    BY <1>1
  <2>4. readInt(fields, 3 + Len(s)) = Byte * id[1] + id[2]
    BY ONLY <2>2, <2>3 DEF readInt
  <2>5. readInt(id, 1) = Byte * id[1] + id[2]
    BY DEF readInt
  <2> QED
    BY <1>3, <2>4, <2>5
<1>10. /\ \A i \in 1..Len(s) : fields[2 + i] = s[i]
       /\ \A i \in 1..Len(payload) : fields[2 + Len(s) + k + i] = payload[i]
  BY ONLY <1>2, <1>3, <1>7
<1>11. n \in Nat /\ Len(fields) = n
  BY <1>1, <1>2, <1>3, <1>4, <1>6, <1>7, <1>k
<1> QED
  BY <1>1, <1>6, <1>7, <1>8, <1>9, <1>10, <1>11 DEF s, payload, k, n, fields

\* A string is read back from where it was written.
LEMMA StringRead ==
  ASSUME NEW buf, NEW cur \in Nat, NEW end \in Nat, NEW len \in Nat,
         readInt(buf, cur) = len, cur + 2 + len <= end
  PROVE  readMQTTLenString(buf, cur, end) =
           [ok |-> TRUE, string |-> SubSeq(buf, cur + 2, cur + 1 + len), cur |-> cur + 2 + len]
<1>1. ~(end - cur <= 1) /\ ~(cur + 2 + len > end)
  OBVIOUS
<1> QED
  BY <1>1 DEF readMQTTLenString

PublishHeader(p) == Header("PUBLISH", p.dup, p.qos, p.retained)

\* A publication is written as header, length field and its fields.
LEMMA PublishPacket ==
  ASSUME NEW p, Publication(p), NEW buflen \in 0..Longest
  PROVE  LET n == MQTTSerialize_publishLength(p.qos, p.topic, p.payload)
             h == PublishHeader(p)
             v == MQTTSerialize_publish(p, buflen)
         IN /\ Written(v, h, n, PublishFields(p), buflen)
            /\ v.rc # TooShort =>
                 Laid(v.buf, Stale, h, n, PublishFields(p), Nat \cup {h})
<1> DEFINE h == PublishHeader(p)
           T == Nat \cup {h}
           n == MQTTSerialize_publishLength(p.qos, p.topic, p.payload)
           fields == PublishFields(p)
           v == MQTTSerialize_publish(p, buflen)
<1>1. v = Packet(h, n, fields, buflen)
  BY DEF MQTTSerialize_publish, PublishHeader, PublishFields, IdOf
<1>2. n \in Nat /\ fields \in Seq(Nat)
  BY PublishFieldsAt
<1>3. Nat \subseteq T /\ h \in T
  OBVIOUS
<1> HIDE DEF h, T, n, fields, v
<1>4. fields \in Seq(T)
  BY ONLY <1>2, <1>3, Lifted
<1>5. Written(v, h, n, fields, buflen)
  BY ONLY <1>1, <1>2, <1>3, <1>4, buflen \in 0..Longest, PacketWritten
<1>6. ASSUME v.rc # TooShort PROVE Laid(v.buf, Stale, h, n, fields, T)
  <2> DEFINE packet == <<h>> \o MQTTPacket_encode[n] \o fields
  <2>1. n \in 0..Longest /\ v.buf = packet
    BY ONLY <1>5, <1>6 DEF Written
  <2>2. Laid(packet, Stale, h, n, fields, T)
    BY ONLY <1>3, <1>4, <2>1, StaleOf, Contents
  <2> QED
    BY ONLY <2>1, <2>2
<1> QED
  BY <1>5, <1>6 DEF h, T, n, fields, v

(* A publication that was written is read back, whatever is behind it.       *)
LEMMA PublishedIsRead ==
  ASSUME NEW p, Publication(p), NEW buflen \in 0..Longest,
         MQTTSerialize_publish(p, buflen).rc # TooShort
  PROVE  LET got == MQTTDeserialize_publish(MQTTSerialize_publish(p, buflen).buf \o Stale)
         IN /\ got.rc = 1 /\ got.topic = TopicOf(p) /\ got.payload = p.payload
            /\ got.dup = p.dup /\ got.qos = p.qos /\ got.retained = p.retained
            /\ p.qos > 0 => got.packetid = p.packetid
<1> DEFINE h == PublishHeader(p)
           T == Nat \cup {h}
           s == TopicOf(p)
           payload == p.payload
           k == IF p.qos > 0 THEN 2 ELSE 0
           n == MQTTSerialize_publishLength(p.qos, p.topic, p.payload)
           fields == PublishFields(p)
           L == Len(MQTTPacket_encode[n])
           packet == MQTTSerialize_publish(p, buflen).buf
           buf == packet \o Stale
           got == MQTTDeserialize_publish(buf)
           len == Len(s)
<1>1. /\ s \in Seq(Nat) /\ len \in Nat /\ n \in Nat /\ Len(fields) = n
      /\ n = 2 + len + k + Len(payload) /\ readInt(fields, 1) = len
      /\ \A i \in 1..len : fields[2 + i] = s[i]
      /\ p.qos > 0 => readInt(fields, 3 + len) = p.packetid
      /\ \A i \in 1..Len(payload) : fields[2 + len + k + i] = payload[i]
  BY PublishFieldsAt
<1>2. payload \in Seq(Nat) /\ Len(payload) \in Nat /\ Len(Stale) \in Nat
  BY StaleAssumption DEF Publication
<1>3. k \in Nat /\ (p.qos > 0 => k = 2) /\ (~(p.qos > 0) => k = 0)
  OBVIOUS
<1>4. Laid(packet, Stale, h, n, fields, T)
  BY PublishPacket
<1>5. /\ h.type = "PUBLISH" /\ h.dup = p.dup /\ h.qos = p.qos /\ h.retain = p.retained
      /\ Nat \subseteq T
  BY DEF PublishHeader, Header
<1> HIDE DEF h, T, s, payload, k, n, fields, L, packet, len
<1>6. /\ L \in 1..4 /\ buf[1] = h
      /\ Begin(buf) = 2 + L /\ EndData(buf) = 2 + L + n
      /\ \A i \in 1..n : buf[1 + L + i] = fields[i]
      /\ buf \in Seq(T) /\ Len(buf) = 1 + L + n + Len(Stale)
  BY ONLY <1>1, <1>4 DEF Laid, L
<1> DEFINE topic == readMQTTLenString(buf, Begin(buf), EndData(buf))
           first == IF buf[1].qos > 0 THEN topic.cur + 2 ELSE topic.cur
<1>7. got = IF buf[1].type # "PUBLISH" THEN Unparsed(0)
            ELSE IF ~topic.ok THEN Unparsed(Short(buf))
            ELSE [rc |-> 1, parsed |-> TRUE, dup |-> buf[1].dup, qos |-> buf[1].qos,
                  retained |-> buf[1].retain,
                  packetid |-> IF buf[1].qos > 0 THEN readInt(buf, topic.cur) ELSE 0,
                  topic |-> topic.string, payloadlen |-> EndData(buf) - first,
                  payload |-> SubSeq(buf, first, EndData(buf) - 1)]
  BY DEF MQTTDeserialize_publish
<1> HIDE DEF buf, got
\* Two bytes that follow each other in the fields are read as they are there.
<1>8. ASSUME NEW i \in 1..(n - 1) PROVE readInt(buf, 1 + L + i) = readInt(fields, i)
  <2>1. /\ i \in 1..n /\ i + 1 \in 1..n /\ 1 + L + (i + 1) = (1 + L + i) + 1
    <3>1. \A a \in Nat, b \in 1..4 : \A j \in 1..(a - 1) :
            j \in 1..a /\ j + 1 \in 1..a /\ 1 + b + (j + 1) = (1 + b + j) + 1
      OBVIOUS
    <3>2. n \in Nat /\ L \in 1..4 /\ i \in 1..(n - 1)
      BY <1>1, <1>6
    <3> QED
      BY ONLY <3>1, <3>2
  <2>2. buf[1 + L + i] = fields[i] /\ buf[(1 + L + i) + 1] = fields[i + 1]
    BY ONLY <1>6, <2>1
  <2> QED
    BY ONLY <2>2 DEF readInt
<1>9. topic = [ok |-> TRUE, string |-> s, cur |-> 4 + L + len]
  <2>1. readInt(buf, 2 + L) = len
    <3>1. \A a \in Nat, b \in Nat, c \in Nat : 1 \in 1..(2 + a + b + c - 1)
      OBVIOUS
    <3>2. 1 \in 1..(n - 1)
      BY ONLY <1>1, <1>2, <1>3, <3>1
    <3>3. \A a \in 1..4 : 2 + a = 1 + a + 1
      OBVIOUS
    <3>4. 2 + L = 1 + L + 1
      BY ONLY <1>6, <3>3
    <3> QED
      BY ONLY <1>1, <1>8, <3>2, <3>4
  <2>2. /\ 2 + L \in Nat /\ 2 + L + n \in Nat /\ 2 + L + 2 + len <= 2 + L + n
        /\ 2 + L + 2 = 4 + L /\ 2 + L + 1 + len = 4 + L + len - 1
        /\ 2 + L + 2 + len = 4 + L + len
    BY <1>1, <1>2, <1>3, <1>6
  <2>3. topic = [ok |-> TRUE, string |-> SubSeq(buf, 2 + L + 2, 2 + L + 1 + len),
                 cur |-> 2 + L + 2 + len]
    <3> DEFINE from == 2 + L  end == 2 + L + n
    <3>1. Begin(buf) = from /\ EndData(buf) = end /\ from \in Nat /\ end \in Nat
          /\ readInt(buf, from) = len /\ from + 2 + len <= end
      BY ONLY <1>6, <2>1, <2>2
    <3>2. /\ from + 2 = 2 + L + 2 /\ from + 1 + len = 2 + L + 1 + len
          /\ from + 2 + len = 2 + L + 2 + len
      OBVIOUS
    <3> HIDE DEF from, end
    <3>3. topic = [ok |-> TRUE, string |-> SubSeq(buf, from + 2, from + 1 + len),
                   cur |-> from + 2 + len]
      BY ONLY <1>1, <3>1, StringRead
    <3> QED
      BY ONLY <3>2, <3>3
  <2>4. SubSeq(buf, 4 + L, 4 + L + len - 1) = s
    <3> DEFINE at == 4 + L
    <3>1. at \in Nat /\ at >= 1 /\ at + len <= Len(buf) + 1
      <4>1. /\ L \in 1..4 /\ len \in Nat /\ k \in Nat /\ Len(payload) \in Nat
            /\ Len(Stale) \in Nat /\ n = 2 + len + k + Len(payload)
            /\ Len(buf) = 1 + L + n + Len(Stale)
        BY ONLY <1>1, <1>2, <1>3, <1>6
      <4> HIDE DEF buf
      <4> QED
        BY ONLY <4>1
    <3>2. \A i \in 1..len : 2 + i \in 1..n /\ 1 + L + (2 + i) = at - 1 + i
      BY <1>1, <1>2, <1>3, <1>6
    <3> HIDE DEF at
    <3>3. \A i \in 1..len : buf[at - 1 + i] = s[i]
      BY ONLY <1>1, <1>6, <3>2
    <3>4. at + Len(s) <= Len(buf) + 1 /\ \A i \in 1..Len(s) : buf[at - 1 + i] = s[i]
      BY ONLY <3>1, <3>3 DEF len
    <3>5. SubSeq(buf, at, at + Len(s) - 1) = s
      BY ONLY <1>1, <1>5, <1>6, <3>1, <3>4, CutOut
    <3> QED
      BY <3>5 DEF at, len
  <2> HIDE DEF topic
  <2> QED
    BY ONLY <2>2, <2>3, <2>4
<1>10. p.qos > 0 => readInt(buf, topic.cur) = p.packetid
  <2> SUFFICES ASSUME p.qos > 0 PROVE readInt(buf, topic.cur) = p.packetid
    OBVIOUS
  <2>1. 3 + len \in 1..(n - 1) /\ 1 + L + (3 + len) = 4 + L + len
    BY <1>1, <1>2, <1>3, <1>6
  <2>2. topic.cur = 4 + L + len
    BY ONLY <1>9
  <2> HIDE DEF topic
  <2>3. readInt(buf, 4 + L + len) = readInt(fields, 3 + len)
    BY ONLY <1>8, <2>1
  <2> QED
    BY <1>1, <2>2, <2>3
<1>11. first = 4 + L + len + k
  <2>1. topic.cur = 4 + L + len /\ buf[1].qos = p.qos
    BY ONLY <1>5, <1>6, <1>9
  <2> HIDE DEF topic
  <2> QED
    BY <1>1, <1>3, <1>6, <2>1
<1> HIDE DEF topic, first
<1>12. SubSeq(buf, first, EndData(buf) - 1) = payload
  <2>1. /\ first \in Nat /\ first >= 1 /\ first + Len(payload) <= Len(buf) + 1
        /\ EndData(buf) - 1 = first + Len(payload) - 1
    BY <1>1, <1>2, <1>3, <1>6, <1>11
  <2>2. ASSUME NEW i \in 1..Len(payload) PROVE buf[first - 1 + i] = payload[i]
    <3>1. 2 + len + k + i \in 1..n /\ 1 + L + (2 + len + k + i) = first - 1 + i
      BY <1>1, <1>2, <1>3, <1>6, <1>11
    <3> QED
      BY ONLY <1>1, <1>6, <2>2, <3>1
  <2>3. SubSeq(buf, first, first + Len(payload) - 1) = payload
    BY ONLY <1>2, <1>5, <1>6, <2>1, <2>2, CutOut
  <2> QED
    BY ONLY <2>1, <2>3
<1>13. got = [rc |-> 1, parsed |-> TRUE, dup |-> p.dup, qos |-> p.qos,
              retained |-> p.retained,
              packetid |-> IF p.qos > 0 THEN readInt(buf, topic.cur) ELSE 0,
              topic |-> s, payloadlen |-> EndData(buf) - first, payload |-> payload]
  <2>1. topic.ok /\ topic.string = s
    BY ONLY <1>9
  <2> QED
    BY ONLY <1>5, <1>6, <1>7, <1>12, <2>1
<1>14. /\ got.rc = 1 /\ got.topic = s /\ got.payload = payload
       /\ got.dup = p.dup /\ got.qos = p.qos /\ got.retained = p.retained
       /\ p.qos > 0 => got.packetid = p.packetid
  BY ONLY <1>10, <1>13
<1> QED
  BY <1>14 DEF got, buf, packet, s, payload

-----------------------------------------------------------------------------
(* Lists of topics.                                                        *)

TopicList(topics) ==
  /\ topics \in Seq([cstring : Seq(Seq(Nat)), data : Seq(Seq(Nat))])
  /\ \A i \in DOMAIN topics : IsMQTTString(topics[i])

\* The lengths of the topics with what follows each, added up from 2.
Lengths(f, w, topics, suffix) ==
  /\ Sums(f, 2, w, Len(topics))
  /\ \A i \in DOMAIN topics : w[i] = 2 + MQTTstrlen(topics[i]) + Len(suffix)

(* The bytes of a list of topics are as many as the sum that is announced.   *)
LEMMA TopicsWritten ==
  ASSUME NEW topics, TopicList(topics), NEW suffix \in Seq(Nat), NEW w, NEW f,
         Lengths(f, w, topics, suffix)
  PROVE  /\ Topics(topics, suffix) \in Seq(Nat)
         /\ f[Len(topics)] = 2 + Len(Topics(topics, suffix))
<1> DEFINE s == [i \in DOMAIN topics |-> writeMQTTString(topics[i]) \o suffix]
           n == Len(topics)
<1>1. n \in Nat /\ DOMAIN topics = 1..n
  BY DEF TopicList
<1>2. ASSUME NEW i \in 1..n
      PROVE  /\ writeMQTTString(topics[i]) \o suffix \in Seq(Nat)
             /\ Len(writeMQTTString(topics[i]) \o suffix) = w[i]
  <2> DEFINE N == Nat  x == writeMQTTString(topics[i])  k == MQTTstrlen(topics[i])
  <2>1. k \in Nat /\ x \in Seq(N) /\ suffix \in Seq(N) /\ Len(x) = 2 + k
    BY <1>1, StringWritten DEF TopicList
  <2>2. w[i] = 2 + k + Len(suffix)
    BY <1>1 DEF Lengths
  <2> HIDE DEF N, x, k
  <2>3. x \o suffix \in Seq(N) /\ Len(x \o suffix) = Len(x) + Len(suffix)
    BY ONLY <2>1, Joined
  <2> QED
    BY <2>1, <2>2, <2>3 DEF N, x
<1>3. /\ s \in Seq(Seq(Nat)) /\ Len(s) = n
      /\ \A i \in 1..n : s[i] = writeMQTTString(topics[i]) \o suffix
  <2> DEFINE B == Seq(Nat)  e(i) == writeMQTTString(topics[i]) \o suffix
  <2>1. \A i \in 1..n : e(i) \in B
    BY <1>2
  <2>2. s = [i \in 1..n |-> e(i)]
    BY <1>1
  <2> HIDE DEF B, e, s, n
  <2>3. s \in [1..n -> B] /\ \A i \in 1..n : s[i] = e(i)
    BY ONLY <2>1, <2>2
  <2>4. s \in Seq(B) /\ Len(s) = n
    BY ONLY <1>1, <2>3
  <2> QED
    BY <2>3, <2>4 DEF B, e
<1>4. Topics(topics, suffix) = FlattenSeq(s)
  BY DEF Topics
<1> HIDE DEF s, n
<1>5. Sums(f, 2, w, Len(s)) /\ \A i \in 1..Len(s) : w[i] = Len(s[i])
  BY <1>2, <1>3 DEF n, Lengths
<1>6. FlattenSeq(s) \in Seq(Nat) /\ f[Len(s)] = 2 + Len(FlattenSeq(s))
  <2> DEFINE b == 2
  <2>1. b \in Nat /\ Sums(f, b, w, Len(s))
    BY <1>5
  <2> HIDE DEF b
  <2>2. FlattenSeq(s) \in Seq(Nat) /\ f[Len(s)] = b + Len(FlattenSeq(s))
    BY ONLY <1>3, <1>5, <2>1, SumOfLengths
  <2> QED
    BY <2>2 DEF b
<1> QED
  BY <1>3, <1>4, <1>6 DEF n

\* The length a SUBSCRIBE announces is that of its fields.
LEMMA SubscribeLength ==
  ASSUME NEW topics, TopicList(topics), NEW qos \in Nat
  PROVE  /\ Topics(topics, <<qos>>) \in Seq(Nat)
         /\ MQTTSerialize_subscribeLength(topics) = 2 + Len(Topics(topics, <<qos>>))
<1> DEFINE n == Len(topics)
           body(f) == f = [i \in 0..n |->
             IF i = 0 THEN 2 ELSE f[i - 1] + (2 + MQTTstrlen(topics[i]) + 1)]
           w == [i \in 1..n |-> 2 + MQTTstrlen(topics[i]) + 1]
           len == CHOOSE f : body(f)
<1>1. n \in Nat /\ DOMAIN topics = 1..n /\ 2 \in Nat
  BY DEF TopicList
<1>2. \A i \in 1..n : MQTTstrlen(topics[i]) \in Nat
  BY <1>1, StringWritten DEF TopicList
<1>3. \A i \in 1..n : w[i] = 2 + MQTTstrlen(topics[i]) + 1 /\ w[i] \in Nat
  BY <1>2
<1>4. \A f : body(f) <=> Sums(f, 2, w, n)
  <2> TAKE f
  <2>1. [i \in 0..n |-> IF i = 0 THEN 2 ELSE f[i - 1] + (2 + MQTTstrlen(topics[i]) + 1)]
          = [i \in 0..n |-> IF i = 0 THEN 2 ELSE f[i - 1] + w[i]]
    <3>1. ASSUME NEW i \in 0..n, i # 0 PROVE w[i] = 2 + MQTTstrlen(topics[i]) + 1
      BY <1>1, <1>3, <3>1
    <3> HIDE DEF w
    <3> QED
      BY <3>1
  <2> HIDE DEF w
  <2> QED
    BY <2>1 DEF Sums
<1> HIDE DEF w, body
<1>5. \E f : body(f)
  BY <1>1, <1>3, <1>4, SumsExist
<1>6. Sums(len, 2, w, n)
  BY <1>4, <1>5
<1>7. MQTTSerialize_subscribeLength(topics) = len[n]
  BY DEF MQTTSerialize_subscribeLength, body
<1> HIDE DEF len
<1>8. <<qos>> \in Seq(Nat) /\ Len(<<qos>>) = 1
  OBVIOUS
<1> DEFINE suffix == <<qos>>
<1>9. \A i \in DOMAIN topics : w[i] = 2 + MQTTstrlen(topics[i]) + Len(suffix)
  BY <1>1, <1>3, <1>8
<1>10. Lengths(len, w, topics, suffix) /\ suffix \in Seq(Nat)
  BY <1>6, <1>8, <1>9 DEF Lengths
<1> HIDE DEF suffix
<1>11. /\ Topics(topics, suffix) \in Seq(Nat)
       /\ len[Len(topics)] = 2 + Len(Topics(topics, suffix))
  BY ONLY TopicList(topics), <1>10, TopicsWritten
<1> QED
  BY <1>7, <1>11 DEF suffix
\* The length an UNSUBSCRIBE announces is that of its fields.
LEMMA UnsubscribeLength ==
  ASSUME NEW topics, TopicList(topics)
  PROVE  /\ Topics(topics, <<>>) \in Seq(Nat)
         /\ MQTTSerialize_unsubscribeLength(topics) = 2 + Len(Topics(topics, <<>>))
<1> DEFINE n == Len(topics)
           body(f) == f = [i \in 0..n |->
             IF i = 0 THEN 2 ELSE f[i - 1] + (2 + MQTTstrlen(topics[i]))]
           w == [i \in 1..n |-> 2 + MQTTstrlen(topics[i])]
           len == CHOOSE f : body(f)
<1>1. n \in Nat /\ DOMAIN topics = 1..n /\ 2 \in Nat
  BY DEF TopicList
<1>2. \A i \in 1..n : MQTTstrlen(topics[i]) \in Nat
  BY <1>1, StringWritten DEF TopicList
<1>3. \A i \in 1..n : w[i] = 2 + MQTTstrlen(topics[i]) /\ w[i] \in Nat
  BY <1>2
<1>4. \A f : body(f) <=> Sums(f, 2, w, n)
  <2> TAKE f
  <2>1. [i \in 0..n |-> IF i = 0 THEN 2 ELSE f[i - 1] + (2 + MQTTstrlen(topics[i]))]
          = [i \in 0..n |-> IF i = 0 THEN 2 ELSE f[i - 1] + w[i]]
    <3>1. ASSUME NEW i \in 0..n, i # 0 PROVE w[i] = 2 + MQTTstrlen(topics[i])
      BY <1>1, <1>3, <3>1
    <3> HIDE DEF w
    <3> QED
      BY <3>1
  <2> HIDE DEF w
  <2> QED
    BY <2>1 DEF Sums
<1> HIDE DEF w, body
<1>5. \E f : body(f)
  BY <1>1, <1>3, <1>4, SumsExist
<1>6. Sums(len, 2, w, n)
  BY <1>4, <1>5
<1>7. MQTTSerialize_unsubscribeLength(topics) = len[n]
  BY DEF MQTTSerialize_unsubscribeLength, body
<1> HIDE DEF len
<1>8. <<>> \in Seq(Nat) /\ Len(<<>>) = 0
  OBVIOUS
<1> DEFINE suffix == <<>>
<1>9. \A i \in DOMAIN topics : w[i] = 2 + MQTTstrlen(topics[i]) + Len(suffix)
  BY <1>1, <1>3, <1>8
<1>10. Lengths(len, w, topics, suffix) /\ suffix \in Seq(Nat)
  BY <1>6, <1>8, <1>9 DEF Lengths
<1> HIDE DEF suffix
<1>11. /\ Topics(topics, suffix) \in Seq(Nat)
       /\ len[Len(topics)] = 2 + Len(Topics(topics, suffix))
  BY ONLY TopicList(topics), <1>10, TopicsWritten
<1> QED
  BY <1>7, <1>11 DEF suffix

-----------------------------------------------------------------------------
(* Every serialiser writes as many bytes as it announces.                  *)

\* Bytes of this length, and a longer sequence of them with a record among them.
Bytes(s, n, T) == s \in Seq(T) /\ n \in Nat /\ Len(s) = n

\* Bytes behind bytes.
LEMMA BytesJoined ==
  ASSUME NEW T, NEW s, NEW t, NEW m, NEW n, Bytes(s, m, T), Bytes(t, n, T)
  PROVE  Bytes(s \o t, m + n, T)
<1>1. s \in Seq(T) /\ t \in Seq(T) /\ m \in Nat /\ n \in Nat /\ Len(s) = m /\ Len(t) = n
  BY DEF Bytes
<1>2. s \o t \in Seq(T) /\ Len(s \o t) = Len(s) + Len(t)
  BY ONLY <1>1, Joined
<1> QED
  BY <1>1, <1>2 DEF Bytes

\* A number has two bytes.
LEMMA IntBytes ==
  ASSUME NEW T, Nat \subseteq T, NEW n \in Nat PROVE Bytes(writeInt(n), 2, T)
<1>1. writeInt(n) \in Seq(Nat) /\ Len(writeInt(n)) = 2
  BY IntWritten
<1>2. writeInt(n) \in Seq(T)
  BY <1>1, Lifted
<1> QED
  BY <1>1, <1>2 DEF Bytes

\* A string has two bytes and its own.
LEMMA StringBytes ==
  ASSUME NEW T, Nat \subseteq T, NEW str, IsMQTTString(str)
  PROVE  Bytes(writeMQTTString(str), 2 + MQTTstrlen(str), T) /\ MQTTstrlen(str) \in Nat
<1>1. /\ MQTTstrlen(str) \in Nat /\ writeMQTTString(str) \in Seq(Nat)
      /\ Len(writeMQTTString(str)) = 2 + MQTTstrlen(str)
  BY StringWritten
<1>2. writeMQTTString(str) \in Seq(T)
  BY <1>1, Lifted
<1> QED
  BY <1>1, <1>2 DEF Bytes

LEMMA NoBytes ==
  ASSUME NEW T PROVE Bytes(<<>>, 0, T)
BY DEF Bytes

(* The fixed ones: a packet of so few bytes has one byte of length.          *)
LEMMA FixedWhole ==
  ASSUME NEW T, Nat \subseteq T, NEW h \in T, NEW n \in Nat, n < Radix,
         NEW fields, Bytes(fields, n, T), NEW buflen \in Nat
  PROVE  Whole(Fixed(h, n, fields, 2 + n, buflen), buflen)
<1> DEFINE packet == <<h>> \o MQTTPacket_encode[n] \o fields
           v == Fixed(h, n, fields, 2 + n, buflen)
           field == MQTTPacket_decode(Tail(packet) \o Stale)
           L == Len(MQTTPacket_encode[n])
<1>1. n \in 0..Longest
  BY DEF Longest, Radix2, Radix3
<1>2. L = 1
  BY OneDigit
<1>3. fields \in Seq(T) /\ Len(fields) = n
  BY DEF Bytes
<1>4. Laid(packet, Stale, h, n, fields, T)
  BY ONLY <1>1, <1>3, Nat \subseteq T, h \in T, StaleOf, Contents
<1>5. Len(packet) = 1 + L + n /\ field.len = L /\ field.value = n
  BY ONLY <1>3, <1>4 DEF Laid
<1>6. v = IF buflen < 2 + n THEN [rc |-> TooShort, buf |-> <<>>]
          ELSE [rc |-> Len(packet), buf |-> packet]
  BY DEF Fixed
<1> HIDE DEF packet, v, L
<1>7. ASSUME v.rc # TooShort PROVE v.buf = packet /\ v.rc = 2 + n /\ 2 + n <= buflen
  <2>1. ~(buflen < 2 + n)
    BY ONLY <1>6, <1>7
  <2>2. v.buf = packet /\ v.rc = Len(packet)
    BY ONLY <1>6, <2>1
  <2> QED
    BY <1>2, <1>5, <2>1, <2>2
<1>8. field.len = 1 /\ field.value = n
  BY ONLY <1>2, <1>5
<1> HIDE DEF field
<1>9. v.rc # TooShort =>
        v.buf = packet /\ v.rc <= buflen /\ v.rc = 1 + field.len + field.value
  BY <1>7, <1>8
<1> QED
  BY ONLY <1>9 DEF Whole, v, packet, field

\* A serialiser that counts its bytes right writes a whole packet.
LEMMA BytesWhole ==
  ASSUME NEW T, Nat \subseteq T, NEW h \in T, NEW n, NEW fields, Bytes(fields, n, T),
         NEW buflen \in 0..Longest
  PROVE  Whole(Packet(h, n, fields, buflen), buflen)
<1>1. fields \in Seq(T) /\ Len(fields) = n /\ n \in Nat
  BY DEF Bytes
<1> QED
  BY ONLY <1>1, Nat \subseteq T, h \in T, buflen \in 0..Longest, PacketWhole

\* Acknowledgements are whole.
LEMMA AckWhole ==
  ASSUME NEW type, NEW packetid \in Nat, NEW buflen \in 0..Longest
  PROVE  Whole(MQTTSerialize_ack(type, 0, packetid, buflen), buflen)
<1> DEFINE h == Header(type, 0, IF type = "PUBREL" THEN 1 ELSE 0, 0)
           T == Nat \cup {h}
           two == 2
<1>1. Nat \subseteq T /\ h \in T /\ two \in Nat /\ two < Radix /\ buflen \in Nat
  BY StaleAssumption DEF Longest, Radix2, Radix3
<1>2. MQTTSerialize_ack(type, 0, packetid, buflen) =
        Fixed(h, two, writeInt(packetid), 2 + two, buflen)
  BY DEF MQTTSerialize_ack
<1>3. Bytes(writeInt(packetid), two, T)
  <2> HIDE DEF T
  <2> QED
    BY <1>1, IntBytes
<1> HIDE DEF T, h, two
<1> QED
  BY ONLY <1>1, <1>2, <1>3, FixedWhole

\* Packets without fields are whole.
LEMMA ZeroWhole ==
  ASSUME NEW type, NEW buflen \in 0..Longest
  PROVE  Whole(MQTTSerialize_zero(type, buflen), buflen)
<1> DEFINE h == Header(type, 0, 0, 0)
           T == Nat \cup {h}
           none == 0
           fields == <<>>
<1>1. Nat \subseteq T /\ h \in T /\ none \in Nat /\ none < Radix /\ buflen \in Nat
  BY DEF Longest, Radix2, Radix3
<1>2. MQTTSerialize_zero(type, buflen) = Fixed(h, none, fields, 2 + none, buflen)
  BY DEF MQTTSerialize_zero
<1>3. Bytes(fields, none, T)
  BY NoBytes
<1> HIDE DEF T, h, none, fields
<1> QED
  BY ONLY <1>1, <1>2, <1>3, FixedWhole

\* Publications are whole.
LEMMA PublishWhole ==
  ASSUME NEW p, Publication(p), NEW buflen \in 0..Longest
  PROVE  Whole(MQTTSerialize_publish(p, buflen), buflen)
<1> DEFINE h == PublishHeader(p)
           T == Nat \cup {h}
           n == MQTTSerialize_publishLength(p.qos, p.topic, p.payload)
           fields == PublishFields(p)
<1>1. MQTTSerialize_publish(p, buflen) = Packet(h, n, fields, buflen)
  BY DEF MQTTSerialize_publish, PublishHeader, PublishFields, IdOf
<1>2. n \in Nat /\ fields \in Seq(Nat) /\ Len(fields) = n
  BY PublishFieldsAt
<1>3. Nat \subseteq T /\ h \in T
  OBVIOUS
<1> HIDE DEF h, T, n, fields
<1>4. Bytes(fields, n, T)
  BY <1>2, <1>3, Lifted DEF Bytes
<1> QED
  BY ONLY <1>1, <1>3, <1>4, buflen \in 0..Longest, BytesWhole

\* SUBSCRIBE and UNSUBSCRIBE are whole.
LEMMA SubscribeWhole ==
  ASSUME NEW topics, TopicList(topics), NEW packetid \in Nat, NEW qos \in Nat,
         NEW buflen \in 0..Longest
  PROVE  /\ Whole(MQTTSerialize_subscribe(0, packetid, topics, qos, buflen), buflen)
         /\ Whole(MQTTSerialize_unsubscribe(0, packetid, topics, buflen), buflen)
<1>1. ASSUME NEW h, NEW suffix, NEW n,
             Topics(topics, suffix) \in Seq(Nat), n = 2 + Len(Topics(topics, suffix))
      PROVE  Whole(Packet(h, n, writeInt(packetid) \o Topics(topics, suffix), buflen), buflen)
  <2> DEFINE T == Nat \cup {h}
             t == Topics(topics, suffix)
  <2>1. Nat \subseteq T /\ h \in T /\ t \in Seq(Nat)
    BY <1>1
  <2>2. n = 2 + Len(t)
    BY <1>1
  <2> HIDE DEF T, t
  <2>3. Len(t) \in Nat
    BY <2>1
  <2>4. Bytes(t, Len(t), T) /\ Bytes(writeInt(packetid), 2, T)
    BY <2>1, <2>3, Lifted, IntBytes DEF Bytes
  <2>5. Bytes(writeInt(packetid) \o t, 2 + Len(t), T)
    BY ONLY <2>4, BytesJoined
  <2>6. Bytes(writeInt(packetid) \o t, n, T)
    BY ONLY <2>2, <2>5
  <2>7. Whole(Packet(h, n, writeInt(packetid) \o t, buflen), buflen)
    BY ONLY <2>1, <2>6, buflen \in 0..Longest, BytesWhole
  <2> QED
    BY <2>7 DEF t
<1>2. Whole(MQTTSerialize_subscribe(0, packetid, topics, qos, buflen), buflen)
  BY <1>1, SubscribeLength DEF MQTTSerialize_subscribe
<1>3. Whole(MQTTSerialize_unsubscribe(0, packetid, topics, buflen), buflen)
  BY <1>1, UnsubscribeLength DEF MQTTSerialize_unsubscribe
<1> QED
  BY <1>2, <1>3

\* The name and version of the protocol.
LEMMA ProtocolBytes ==
  ASSUME NEW T, Nat \subseteq T
  PROVE  Bytes(Protocol(3), 9, T) /\ Bytes(Protocol(4), 7, T)
<1> DEFINE s3 == <<77, 81, 73, 115, 100, 112>>  s4 == <<77, 81, 84, 84>>
           v3 == <<3>>  v4 == <<4>>
<1>1. Len(s3) = 6 /\ Len(s4) = 4
  OBVIOUS
<1>2. Protocol(3) = writeInt(6) \o s3 \o v3 /\ Protocol(4) = writeInt(4) \o s4 \o v4
  BY <1>1 DEF Protocol, writeCString
<1>3. s3 \in Seq(Nat) /\ s4 \in Seq(Nat) /\ v3 \in Seq(Nat) /\ v4 \in Seq(Nat)
      /\ Len(v3) = 1 /\ Len(v4) = 1
  OBVIOUS
<1> HIDE DEF s3, s4, v3, v4
<1>4. Bytes(s3, 6, T) /\ Bytes(s4, 4, T) /\ Bytes(v3, 1, T) /\ Bytes(v4, 1, T)
  BY <1>1, <1>3, Lifted DEF Bytes
<1>5. Bytes(writeInt(6), 2, T) /\ Bytes(writeInt(4), 2, T)
  BY IntBytes
<1> DEFINE x3 == writeInt(6) \o s3  x4 == writeInt(4) \o s4
<1>6. Bytes(x3, 2 + 6, T) /\ Bytes(x4, 2 + 4, T)
  BY <1>4, <1>5, BytesJoined
<1> HIDE DEF x3, x4
<1>7. Bytes(x3 \o v3, (2 + 6) + 1, T) /\ Bytes(x4 \o v4, (2 + 4) + 1, T)
  BY <1>4, <1>6, BytesJoined
<1>8. (2 + 6) + 1 = 9 /\ (2 + 4) + 1 = 7
  OBVIOUS
<1> QED
  BY ONLY <1>2, <1>7, <1>8 DEF x3, x4

(* The fields of a CONNECT and what connectLength counts for each.           *)
LEMMA ConnectWhole ==
  ASSUME NEW o, o.MQTTVersion \in {3, 4}, o.keepAliveInterval \in Nat,
         \A str \in {o.clientID, o.topicName, o.message, o.username, o.password} :
           IsMQTTString(str),
         NEW buflen \in 0..Longest
  PROVE  Whole(MQTTSerialize_connect(o, buflen), buflen)
<1> DEFINE h == Header("CONNECT", 0, 0, 0)
           flags == MQTTConnectFlags(o)
           T == Nat \cup {h, flags}
           protocol == Protocol(o.MQTTVersion)
           alive == writeInt(o.keepAliveInterval)
           id == writeMQTTString(o.clientID)
           will == IF o.willFlag THEN writeMQTTString(o.topicName) \o writeMQTTString(o.message)
                   ELSE <<>>
           name == IF IsSet(o.username) THEN writeMQTTString(o.username) ELSE <<>>
           pass == IF IsSet(o.password) THEN writeMQTTString(o.password) ELSE <<>>
           first == IF o.MQTTVersion = 3 THEN 12 ELSE IF o.MQTTVersion = 4 THEN 10 ELSE 0
           c == MQTTstrlen(o.clientID)
           lenWill == IF o.willFlag THEN MQTTstrlen(o.topicName) + 2 + MQTTstrlen(o.message) + 2
                      ELSE 0
           lenName == IF IsSet(o.username) THEN MQTTstrlen(o.username) + 2 ELSE 0
           lenPass == IF IsSet(o.password) THEN MQTTstrlen(o.password) + 2 ELSE 0
           fields == protocol \o <<flags>> \o alive \o id \o will \o name \o pass
           n == MQTTSerialize_connectLength(o)
<1>1. MQTTSerialize_connect(o, buflen) = Packet(h, n, fields, buflen)
  BY DEF MQTTSerialize_connect
<1>2. n = first + c + 2 + lenWill + lenName + lenPass
  BY DEF MQTTSerialize_connectLength
<1>3. Nat \subseteq T /\ h \in T /\ flags \in T
  OBVIOUS
<1> HIDE DEF T, h, flags
<1>4. ASSUME NEW str, IsMQTTString(str)
      PROVE  Bytes(writeMQTTString(str), MQTTstrlen(str) + 2, T) /\ MQTTstrlen(str) \in Nat
  <2>1. Bytes(writeMQTTString(str), 2 + MQTTstrlen(str), T) /\ MQTTstrlen(str) \in Nat
    BY <1>3, <1>4, StringBytes
  <2>2. 2 + MQTTstrlen(str) = MQTTstrlen(str) + 2
    BY ONLY <2>1
  <2> QED
    BY ONLY <2>1, <2>2
<1>5. Bytes(protocol, first - 3, T) /\ first \in Nat
  <2>1. Bytes(Protocol(3), 9, T) /\ Bytes(Protocol(4), 7, T)
    BY <1>3, ProtocolBytes
  <2>2. CASE o.MQTTVersion = 3
    BY <2>1, <2>2
  <2>3. CASE o.MQTTVersion = 4
    BY <2>1, <2>3
  <2> QED
    BY <2>2, <2>3
<1>6. Bytes(<<flags>>, 1, T)
  BY <1>3 DEF Bytes
<1>7. Bytes(alive, 2, T)
  BY <1>3, IntBytes
<1>8. Bytes(id, c + 2, T) /\ c \in Nat
  BY <1>4
<1>9. Bytes(will, lenWill, T) /\ lenWill \in Nat
  <2>1. CASE o.willFlag
    <3> DEFINE t == MQTTstrlen(o.topicName)  m == MQTTstrlen(o.message)
               x == writeMQTTString(o.topicName)  y == writeMQTTString(o.message)
    <3>1. Bytes(x, t + 2, T) /\ Bytes(y, m + 2, T) /\ t \in Nat /\ m \in Nat
      BY <1>4
    <3>2. will = x \o y /\ lenWill = t + 2 + m + 2
      BY <2>1
    <3> HIDE DEF x, y, t, m, will, lenWill
    <3>3. Bytes(x \o y, (t + 2) + (m + 2), T)
      BY ONLY <3>1, BytesJoined
    <3>4. (t + 2) + (m + 2) = lenWill /\ lenWill \in Nat
      BY ONLY <3>1, <3>2
    <3> QED
      BY ONLY <3>2, <3>3, <3>4
  <2>2. CASE ~o.willFlag
    <3>1. will = <<>> /\ lenWill = 0
      BY <2>2
    <3> HIDE DEF will, lenWill
    <3> QED
      BY ONLY <3>1, NoBytes
  <2> QED
    BY <2>1, <2>2
<1>10. ASSUME NEW str, IsMQTTString(str)
       PROVE  LET s == IF IsSet(str) THEN writeMQTTString(str) ELSE <<>>
                  k == IF IsSet(str) THEN MQTTstrlen(str) + 2 ELSE 0
              IN Bytes(s, k, T) /\ k \in Nat
  <2>1. CASE IsSet(str)
    BY <1>4, <1>10, <2>1
  <2>2. CASE ~IsSet(str)
    BY <2>2, NoBytes
  <2> QED
    BY <2>1, <2>2
<1>11. Bytes(name, lenName, T) /\ lenName \in Nat
  BY <1>10
<1>12. Bytes(pass, lenPass, T) /\ lenPass \in Nat
  BY <1>10
<1> HIDE DEF protocol, alive, id, will, name, pass, first, c, lenWill, lenName, lenPass, n
<1> DEFINE f1 == protocol \o <<flags>>
           f2 == f1 \o alive
           f3 == f2 \o id
           f4 == f3 \o will
           f5 == f4 \o name
<1>13. Bytes(f1, (first - 3) + 1, T)
  BY ONLY <1>5, <1>6, BytesJoined
<1>14. fields = f5 \o pass
  OBVIOUS
<1> HIDE DEF fields, f1
<1>15. Bytes(f2, ((first - 3) + 1) + 2, T)
  BY ONLY <1>7, <1>13, BytesJoined
<1> HIDE DEF f2
<1>16. Bytes(f3, (((first - 3) + 1) + 2) + (c + 2), T)
  BY ONLY <1>8, <1>15, BytesJoined
<1> HIDE DEF f3
<1>17. Bytes(f4, ((((first - 3) + 1) + 2) + (c + 2)) + lenWill, T)
  BY ONLY <1>9, <1>16, BytesJoined
<1> HIDE DEF f4
<1>18. Bytes(f5, (((((first - 3) + 1) + 2) + (c + 2)) + lenWill) + lenName, T)
  BY ONLY <1>11, <1>17, BytesJoined
<1> HIDE DEF f5
<1>19. Bytes(fields, ((((((first - 3) + 1) + 2) + (c + 2)) + lenWill) + lenName) + lenPass, T)
  BY ONLY <1>12, <1>14, <1>18, BytesJoined
<1>20. ((((((first - 3) + 1) + 2) + (c + 2)) + lenWill) + lenName) + lenPass = n
  BY ONLY <1>2, <1>5, <1>8, <1>9, <1>11, <1>12
<1>21. Bytes(fields, n, T)
  BY ONLY <1>19, <1>20
<1>22. Whole(Packet(h, n, fields, buflen), buflen)
  BY ONLY <1>3, <1>21, buflen \in 0..Longest, BytesWhole
<1> QED
  BY <1>1, <1>22

-----------------------------------------------------------------------------
(* What a call returned stays what the function gives.                     *)

Timed(c) ==
  LET end_time == countdown_ms(c.start, c.timeout)
      now == Plus(c.start, c.elapsed)
  IN [expired |-> expired(end_time, now), waits |-> Waits(left_ms(end_time, now))]

Serialised(c) ==
  /\ c.fn = "connect" => result = <<MQTTSerialize_connect(c.options, c.buflen)>>
  /\ c.fn = "publish" => result = <<MQTTSerialize_publish(c.p, c.buflen)>>
  /\ c.fn = "subscribe" =>
       result = <<MQTTSerialize_subscribe(0, c.packetid, c.topics, c.qos, c.buflen)>>
  /\ c.fn = "unsubscribe" =>
       result = <<MQTTSerialize_unsubscribe(0, c.packetid, c.topics, c.buflen)>>
  /\ c.fn = "ack" => result = <<MQTTSerialize_ack(c.type, 0, c.packetid, c.buflen)>>
  /\ c.fn = "zero" => result = <<MQTTSerialize_zero(c.type, c.buflen)>>

Parsed(c) ==
  /\ c.fn = "PUBLISH" =>
       result = <<MQTTDeserialize_publish(FromBroker("PUBLISH", c.qos, c.fields))>>
  /\ c.fn = "SUBACK" =>
       result = <<MQTTDeserialize_suback(FromBroker("SUBACK", 0, c.fields), 1)>>
  /\ c.fn = "UNSUBACK" =>
       result = <<MQTTDeserialize_unsuback(FromBroker("UNSUBACK", 0, c.fields))>>
  /\ c.fn = "PUBACK" =>
       result = <<MQTTDeserialize_ack(FromBroker("PUBACK", 0, c.fields))>>
  /\ c.fn = "CONNACK" =>
       result = <<MQTTDeserialize_connack(FromBroker("CONNACK", 0, c.fields))>>

AnswerInv ==
  /\ call \in Input
  /\ result # Pending =>
       /\ Serialised(call) /\ Parsed(call)
       /\ call.fn = "match" => result = <<ForHandler(call.filter, call.name)>>
       /\ call.fn = "dispatch" => result = <<defaultMsgHandler(call.topic, call.callbacks)>>
       /\ call.fn = "timer" => result = <<Timed(call)>>
       /\ call.fn = "clock" => result = <<getTime(call.ts, call.set, call.now)>>
       /\ call.fn = "http" => result = <<getHTTPResponse(call.chunks)>>

LEMMA AnswerInvHolds == Spec => []AnswerInv
<1>1. Init => AnswerInv
  BY DEF Init, AnswerInv
<1>2. AnswerInv /\ [Next]_vars => AnswerInv'
  <2> SUFFICES ASSUME AnswerInv, [Next]_vars PROVE AnswerInv'
    OBVIOUS
  <2> USE DEF AnswerInv, Serialised, Parsed, Returns
  <2>1. CASE Connect BY <2>1 DEF Connect
  <2>2. CASE Publish BY <2>2 DEF Publish
  <2>3. CASE Subscribe BY <2>3 DEF Subscribe
  <2>4. CASE Unsubscribe BY <2>4 DEF Unsubscribe
  <2>5. CASE Ack BY <2>5 DEF Ack
  <2>6. CASE Zero BY <2>6 DEF Zero
  <2>7. CASE ParsePublish BY <2>7 DEF ParsePublish
  <2>8. CASE ParseSuback BY <2>8 DEF ParseSuback
  <2>9. CASE ParseUnsuback BY <2>9 DEF ParseUnsuback
  <2>10. CASE ParseAck BY <2>10 DEF ParseAck
  <2>11. CASE ParseConnack BY <2>11 DEF ParseConnack
  <2>12. CASE Match BY <2>12 DEF Match
  <2>13. CASE Dispatch BY <2>13 DEF Dispatch
  <2>14. CASE TimerRead BY <2>14 DEF TimerRead, Timed
  <2>15. CASE Clock BY <2>15 DEF Clock
  <2>16. CASE Http BY <2>16 DEF Http
  <2>17. CASE UNCHANGED vars BY <2>17 DEF vars, Timed
  <2> QED
    BY <2>1, <2>2, <2>3, <2>4, <2>5, <2>6, <2>7, <2>8, <2>9, <2>10, <2>11, <2>12, <2>13,
       <2>14, <2>15, <2>16, <2>17 DEF Next
<1> QED
  BY <1>1, <1>2, PTL DEF Spec

(* A packet of the broker is parsed exactly when its fields are in it, and   *)
(* gives these fields, whatever the read buffer holds behind it.             *)
THEOREM PacketsAreParsed == Spec => []FieldsParsed
<1>1. AnswerInv => FieldsParsed
  <2> DEFINE n == Len(call.fields)
  <2> SUFFICES ASSUME AnswerInv, Returned(Parsers)
               PROVE  /\ Value.parsed <=> HasFields
                      /\ Value.parsed => Value.rc = 1
                      /\ Value.parsed /\ call.fn \in {"SUBACK", "UNSUBACK", "PUBACK"} =>
                           Value.packetid = readInt(call.fields, 1)
                      /\ Value.parsed /\ call.fn = "SUBACK" =>
                           Value.codes = SubSeq(call.fields, 3, n)
                      /\ Value.parsed /\ call.fn = "CONNACK" =>
                           Value.connack_rc = call.fields[2]
    BY DEF FieldsParsed
  <2>1. call.fields \in Seq(Nat) /\ Len(call.fields) <= Longest /\ n \in Nat
    <3>1. call.fields \in Seq(Nat) /\ Len(call.fields) <= Longest
      BY InputAssumption DEF AnswerInv, Returned
    <3> QED
      BY <3>1
  <2>2. Parsed(call)
    BY DEF AnswerInv, Returned
  <2>3. CASE call.fn = "PUBLISH"
    <3>1. Value = MQTTDeserialize_publish(FromBroker("PUBLISH", call.qos, call.fields))
      BY <2>2, <2>3 DEF Parsed, Value
    <3>2. /\ Value.parsed <=> (n >= 2 /\ 2 + readInt(call.fields, 1) <= n)
          /\ Value.parsed => Value.rc = 1
      BY <2>1, <3>1, PublishParsed
    <3> QED
      BY <2>3, <3>2 DEF HasFields
  <2>4. CASE call.fn = "SUBACK"
    <3>1. Value = MQTTDeserialize_suback(FromBroker("SUBACK", 0, call.fields), 1)
      BY <2>2, <2>4 DEF Parsed, Value
    <3>2. /\ Value.parsed <=> (n >= 2 /\ n <= 4)
          /\ n >= 2 /\ n <= 4 => /\ Value.rc = 1
                                 /\ Value.packetid = readInt(call.fields, 1)
                                 /\ Value.codes = SubSeq(call.fields, 3, n)
      BY <2>1, <3>1, SubackParsed
    <3> QED
      BY <2>4, <3>2 DEF HasFields
  <2>5. CASE call.fn = "UNSUBACK" \/ call.fn = "PUBACK"
    <3>1. Value = IF call.fn = "PUBACK"
                  THEN MQTTDeserialize_ack(FromBroker(call.fn, 0, call.fields))
                  ELSE MQTTDeserialize_unsuback(FromBroker(call.fn, 0, call.fields))
      BY <2>2, <2>5 DEF Parsed, Value
    <3>2. call.fn \in {"PUBACK", "UNSUBACK"}
      BY <2>5
    <3>3. /\ Value.parsed <=> n >= 2
          /\ n >= 2 => Value.rc = 1 /\ Value.packetid = readInt(call.fields, 1)
      BY <2>1, <3>1, <3>2, AcksParsed
    <3> QED
      BY <2>5, <3>3 DEF HasFields
  <2>6. CASE call.fn = "CONNACK"
    <3>1. Value = MQTTDeserialize_connack(FromBroker("CONNACK", 0, call.fields))
      BY <2>2, <2>6 DEF Parsed, Value
    <3>2. /\ Value.parsed <=> n >= 2
          /\ n >= 2 => Value.rc = 1 /\ Value.connack_rc = call.fields[2]
      BY <2>1, <3>1, ConnackParsed
    <3> QED
      BY <2>6, <3>2 DEF HasFields
  <2> QED
    BY <2>3, <2>4, <2>5, <2>6 DEF Returned, Parsers
<1> QED
  BY <1>1, AnswerInvHolds, PTL

(* A packet that is serialised fits the buffer it was given, and is as long  *)
(* as it says, whatever the read buffer holds behind its length field.       *)
THEOREM PacketsAreWhole == Spec => []SerialisedWhole
<1>1. AnswerInv => SerialisedWhole
  <2> SUFFICES ASSUME AnswerInv, Returned(Serialisers) PROVE Whole(Value, call.buflen)
    BY DEF SerialisedWhole, Whole
  <2>0. /\ Serialised(call) /\ call \in Input /\ call.fn \in Serialisers
        /\ call.buflen \in 0..Longest
    BY SerialiserAssumption DEF AnswerInv, Returned
  <2>1. CASE call.fn = "connect"
    <3>1. Value = MQTTSerialize_connect(call.options, call.buflen)
      BY <2>0, <2>1 DEF Serialised, Value
    <3>2. /\ call.options.MQTTVersion \in {3, 4} /\ call.options.keepAliveInterval \in Nat
          /\ \A str \in {call.options.clientID, call.options.topicName,
                          call.options.message, call.options.username,
                          call.options.password} : IsMQTTString(str)
      BY <2>0, <2>1, SerialiserAssumption
    <3> QED
      BY <2>0, <3>1, <3>2, ConnectWhole
  <2>2. CASE call.fn = "publish"
    <3>1. Value = MQTTSerialize_publish(call.p, call.buflen)
      BY <2>0, <2>2 DEF Serialised, Value
    <3>2. Publication(call.p)
      BY <2>0, <2>2, SerialiserAssumption DEF Publication
    <3> QED
      BY <2>0, <3>1, <3>2, PublishWhole
  <2>3. CASE call.fn = "subscribe" \/ call.fn = "unsubscribe"
    <3>1. /\ call.fn = "subscribe" =>
               Value = MQTTSerialize_subscribe(0, call.packetid, call.topics, call.qos, call.buflen)
          /\ call.fn = "unsubscribe" =>
               Value = MQTTSerialize_unsubscribe(0, call.packetid, call.topics, call.buflen)
      BY <2>0 DEF Serialised, Value
    <3>2. TopicList(call.topics) /\ call.packetid \in Nat /\ call.qos \in Nat
      BY <2>0, <2>3, SerialiserAssumption DEF TopicList
    <3>3. /\ Whole(MQTTSerialize_subscribe(0, call.packetid, call.topics, call.qos, call.buflen),
                   call.buflen)
          /\ Whole(MQTTSerialize_unsubscribe(0, call.packetid, call.topics, call.buflen),
                   call.buflen)
      BY <2>0, <3>2, SubscribeWhole
    <3> QED
      BY ONLY <2>3, <3>1, <3>3
  <2>4. CASE call.fn = "ack"
    <3>1. Value = MQTTSerialize_ack(call.type, 0, call.packetid, call.buflen)
      BY <2>0, <2>4 DEF Serialised, Value
    <3>2. call.packetid \in Nat
      BY <2>0, <2>4, SerialiserAssumption
    <3> QED
      BY <2>0, <3>1, <3>2, AckWhole
  <2>5. CASE call.fn = "zero"
    <3>1. Value = MQTTSerialize_zero(call.type, call.buflen)
      BY <2>0, <2>5 DEF Serialised, Value
    <3> QED
      BY <2>0, <3>1, ZeroWhole
  <2> QED
    BY ONLY <2>0, <2>1, <2>2, <2>3, <2>4, <2>5 DEF Serialisers
<1> QED
  BY <1>1, AnswerInvHolds, PTL

(* A packet is refused only when it does not fit, or fills the buffer to the *)
(* last byte.                                                                *)
THEOREM OnlyLongRefused == Spec => []RefusedWhenLong
<1>1. AnswerInv => RefusedWhenLong
  <2> DEFINE n == MQTTSerialize_publishLength(call.p.qos, call.p.topic, call.p.payload)
             v == MQTTSerialize_publish(call.p, call.buflen)
  <2> SUFFICES ASSUME AnswerInv, Returned({"publish"}), Value.rc = TooShort
               PROVE  Needs(n) + 1 > call.buflen
    BY DEF RefusedWhenLong
  <2>1. Publication(call.p) /\ call.buflen \in 0..Longest
    BY SerialiserAssumption DEF AnswerInv, Returned, Serialisers, Publication
  <2>2. Value = v
    BY DEF AnswerInv, Returned, Value, Serialised
  <2>3. Written(v, PublishHeader(call.p), n, PublishFields(call.p), call.buflen)
    BY <2>1, PublishPacket
  <2>4. n \in Nat
    BY <2>1, PublishFieldsAt
  <2> HIDE DEF v, n
  <2>5. MQTTPacket_len(n) > call.buflen
    BY <2>2, <2>3 DEF Written
  <2> QED
    BY <2>1, <2>4, <2>5, Refused
<1> QED
  BY <1>1, AnswerInvHolds, PTL

(* Parsing what was serialised gives the message back, whatever is behind    *)
(* the packet in the buffer.                                                 *)
THEOREM PublicationsComeBack == Spec => []PublishComesBack
<1>1. AnswerInv => PublishComesBack
  <2> DEFINE got == MQTTDeserialize_publish(Value.buf \o Stale)
             str == IF call.p.topic.cstring # NULL THEN call.p.topic.cstring[1]
                    ELSE call.p.topic.data[1]
  <2> SUFFICES ASSUME AnswerInv, Returned({"publish"}), Value.rc # TooShort
               PROVE  /\ got.rc = 1 /\ got.topic = str /\ got.payload = call.p.payload
                      /\ got.dup = call.p.dup /\ got.qos = call.p.qos
                      /\ got.retained = call.p.retained
                      /\ call.p.qos > 0 => got.packetid = call.p.packetid
    BY DEF PublishComesBack
  <2>1. Publication(call.p) /\ call.buflen \in 0..Longest
    BY SerialiserAssumption DEF AnswerInv, Returned, Serialisers, Publication
  <2>2. Value = MQTTSerialize_publish(call.p, call.buflen)
    BY DEF AnswerInv, Returned, Value, Serialised
  <2>3. str = TopicOf(call.p)
    BY DEF TopicOf
  <2> HIDE DEF str
  <2> QED
    BY <2>1, <2>2, <2>3, PublishedIsRead
<1> QED
  BY <1>1, AnswerInvHolds, PTL

(* Whatever the filter, as long as a wildcard is alone in its level, and      *)
(* whatever the name: a handler gets what its filter means, unless a wildcard *)
(* stands for nothing.                                                        *)
THEOREM HandlersByLevels == Spec => []HandlerByLevels
<1>1. AnswerInv => HandlerByLevels
  <2> SUFFICES ASSUME AnswerInv, Returned({"match"}), WellFormed(call.filter)
               PROVE  Value <=> /\ FilterMatches(call.filter, call.name)
                                /\ ~WildcardOnNothing(call.filter, call.name)
    BY DEF HandlerByLevels
  <2>1. /\ call.filter \in Seq(STRING) /\ call.name \in Seq(STRING)
        /\ result = <<ForHandler(call.filter, call.name)>>
    BY InputAssumption DEF AnswerInv, Returned
  <2>2. Value = ForHandler(call.filter, call.name)
    BY <2>1 DEF Value
  <2> DEFINE filter == call.filter  name == call.name
  <2>3. filter \in Seq(STRING) /\ name \in Seq(STRING) /\ WellFormed(filter)
    BY <2>1
  <2> HIDE DEF filter, name
  <2>4. ForHandler(filter, name) <=> /\ FilterMatches(filter, name)
                                     /\ ~WildcardOnNothing(filter, name)
    BY ONLY <2>3, ForHandlerRight
  <2> QED
    BY ONLY <2>2, <2>4 DEF filter, name
<1> QED
  BY <1>1, AnswerInvHolds, PTL

(* Whatever is behind the appid: a message reaches cb_message, a control      *)
(* message the callback of its name, when the callback is set.                *)
THEOREM CallbacksByName == Spec => []DispatchedByName
<1>1. AnswerInv => DispatchedByName
  <2> SUFFICES ASSUME AnswerInv, Returned({"dispatch"})
               PROVE  DispatchedByName
    BY DEF DispatchedByName
  <2>1. call.topic \in Seq(STRING) /\ Value = defaultMsgHandler(call.topic, call.callbacks)
    BY InputAssumption DEF AnswerInv, Returned, Value
  <2>2. Value \in {"error", "info"} => call.topic[1] = "@"
    BY <2>1 DEF defaultMsgHandler
  <2> DEFINE topic == call.topic  callbacks == call.callbacks
             name == Levels(topic)[3]
             control == name # <<>> /\ name[1] = "&"
             exactly(nm) == name = nm /\ Len(Levels(topic)) = 3
  <2>3. ASSUME topic[1] = "/", Len(Levels(topic)) >= 3
        PROVE  /\ Value = "message" <=> ~control /\ "message" \in callbacks
               /\ Value = "present" <=> exactly(<<"&", "P">>) /\ "present" \in callbacks
               /\ Value = "absent" <=> exactly(<<"&", "A">>) /\ "absent" \in callbacks
    <3>1. topic \in Seq(STRING) /\ Value = defaultMsgHandler(topic, callbacks)
      BY <2>1
    <3> HIDE DEF topic, callbacks
    <3> QED
      BY ONLY <2>3, <3>1, DispatchRight
  <2> QED
    BY <2>2, <2>3 DEF DispatchedByName, BehindAppid, Name
<1> QED
  BY <1>1, AnswerInvHolds, PTL

(* A timer is expired exactly when more ticks than its timeout have gone by, *)
(* whatever the counter wrapped in between (MQTTESP8266.c:32).               *)
THEOREM TimersExpireRight == Spec => []ExpiryRight
<1>1. AnswerInv => ExpiryRight
  <2> SUFFICES ASSUME AnswerInv, Returned({"timer"}),
                      call.elapsed <= InTicks(call.timeout) + Half
               PROVE  Value.expired <=> call.elapsed > InTicks(call.timeout)
    BY DEF ExpiryRight
  <2>1. /\ call.start \in Ticks /\ call.elapsed \in Ticks
        /\ call.timeout \in Nat /\ InTicks(call.timeout) < Half
    BY InputAssumption DEF AnswerInv, Returned
  <2>2. Value.expired <=> expired(countdown_ms(call.start, call.timeout),
                                  Plus(call.start, call.elapsed))
    BY DEF AnswerInv, Returned, Value, Timed
  <2> QED
    BY <2>1, <2>2, ExpiredAfterTimeout
<1> QED
  BY <1>1, AnswerInvHolds, PTL

(* select waits no longer than the timer has left, in either reading of its  *)
(* tv_sec (MQTTESP8266.c:57 and 73).                                         *)
THEOREM WaitsEndInTime == Spec => []WaitEndsInTime
<1>1. AnswerInv => WaitEndsInTime
  <2> SUFFICES ASSUME AnswerInv, Returned({"timer"}),
                      call.elapsed <= InTicks(call.timeout),
                      NEW ticks \in Value.waits
               PROVE  ticks <= InTicks(call.timeout) - call.elapsed
    BY DEF WaitEndsInTime
  <2>1. /\ call.start \in Ticks /\ call.elapsed \in Ticks
        /\ call.timeout \in Nat /\ InTicks(call.timeout) < Half
    BY InputAssumption DEF AnswerInv, Returned
  <2>2. Value.waits = Waits(left_ms(countdown_ms(call.start, call.timeout),
                                    Plus(call.start, call.elapsed)))
    BY DEF AnswerInv, Returned, Value, Timed
  <2> QED
    BY <2>1, <2>2, WaitsNoLonger
<1> QED
  BY <1>1, AnswerInvHolds, PTL

(* The clock is right to a second until the microseconds wrap; every turn    *)
(* since it was set takes the seconds of a turn off, and at most one second  *)
(* more (ESPTime.c:18).                                                      *)
THEOREM ClockErrs == Spec => []ClockRight
<1>1. AnswerInv => ClockRight
  <2> DEFINE elapsed == (call.now - call.set) \div Second
             lost == Turns * (MicroWord \div Second)
  <2> SUFFICES ASSUME AnswerInv, Returned({"clock"})
               PROVE  \E error \in (0 - Turns)..1 :
                        Value = (call.ts + elapsed + error - lost) % MicroWord
    BY DEF ClockRight
  <2>1. call.ts \in Nat /\ call.set \in Nat /\ call.now \in Nat /\ call.set <= call.now
    BY InputAssumption DEF AnswerInv, Returned
  <2> DEFINE error == secs(call.now) - secs(call.set) - elapsed + lost
  <2>2. /\ secs(call.now) \in Nat /\ secs(call.set) \in Nat /\ elapsed \in Nat /\ lost \in Nat
        /\ error \in (0 - Turns)..1
    BY <2>1, ClockError DEF Turns
  <2>3. Value = (secs(call.now) + call.ts - secs(call.set)) % MicroWord
    BY DEF AnswerInv, Returned, Value, getTime
  <2> HIDE DEF elapsed, lost
  <2>4. call.ts + elapsed + error - lost = secs(call.now) + call.ts - secs(call.set)
    BY <2>1, <2>2
  <2>5. Value = (call.ts + elapsed + error - lost) % MicroWord
    BY <2>3, <2>4
  <2> QED
    BY <2>2, <2>5
<1> QED
  BY <1>1, AnswerInvHolds, PTL

(* However the answer is cut into chunks, its status, what it announced and   *)
(* its body are read as if it had come at once, when no CRLF is in the body.  *)
THEOREM AnswersReadAtOnce == Spec => []ChunksInvisible
<1>1. AnswerInv => ChunksInvisible
  <2> DEFINE text == FlattenSeq(call.chunks)  body == Body(text)
  <2> SUFFICES ASSUME AnswerInv, Returned({"http"}), EmptyLines(text) # {}, Ends(body) = {}
      PROVE  /\ Value.httpstatus = IF 1 \in Given(text, STATUS) THEN Number(text, 1) ELSE INT_NULL
             /\ Value.body = IF Announced(text) < Len(body)
                             THEN SubSeq(body, 1, Announced(text)) ELSE body
    BY DEF ChunksInvisible
  <2> DEFINE chunks == call.chunks
  <2>1. chunks \in Seq(Seq(Nat)) /\ Value = getHTTPResponse(chunks)
    BY InputAssumption DEF AnswerInv, Returned, Value
  <2>2. text \in Seq(Nat)
    BY <2>1, ReadSoFar
  <2> HIDE DEF text, chunks
  <2>3. Quiet(text)
    BY <2>2, HeaderAndBody
  <2>4. Value = Finished(AtOnce(text))
    BY <2>1, <2>3, ReadAtOnce DEF text, chunks
  <2> DEFINE s == AtOnce(text)
  <2>5. /\ s.buff = body
        /\ s.status = IF 1 \in Given(text, STATUS) THEN Number(text, 1) ELSE INT_NULL
        /\ s.clen = IF Given(text, LENGTH) = {} THEN INT_NULL
                    ELSE Number(text, Min(Given(text, LENGTH)))
        /\ Given(text, LENGTH) # {} => Number(text, Min(Given(text, LENGTH))) \in Nat
    BY <2>2, AnswerRead
  <2> HIDE DEF s
  <2>6. /\ Value.httpstatus = s.status
        /\ Value.body = IF s.clen >= 0 /\ s.clen < Len(s.buff) THEN SubSeq(s.buff, 1, s.clen)
                        ELSE s.buff
    BY ONLY <2>4 DEF Finished, s
  <2> HIDE DEF body
  <2>7. Value.body = IF Announced(text) < Len(body) THEN SubSeq(body, 1, Announced(text)) ELSE body
    <3>1. CASE Given(text, LENGTH) = {}
      <4>1. Announced(text) = Len(body) /\ s.clen = INT_NULL /\ ~(INT_NULL >= 0)
        BY ONLY <2>5, <3>1 DEF Announced, body, INT_NULL
      <4>2. Len(body) \in Nat
        <5>1. EmptyLines(text) # {} /\ Rest(text) = body
          BY <2>2, HeaderAndBody DEF body
        <5> QED
          BY <2>2, <5>1, RestIsLine, LinesTyped
      <4>3. ~(Announced(text) < Len(body))
        BY ONLY <4>1, <4>2
      <4> QED
        BY ONLY <2>5, <2>6, <4>1, <4>3
    <3>2. CASE Given(text, LENGTH) # {}
      <4>1. Announced(text) = s.clen /\ s.clen \in Nat
        BY ONLY <2>5, <3>2 DEF Announced
      <4>2. s.clen >= 0
        BY ONLY <4>1
      <4> QED
        BY ONLY <2>5, <2>6, <4>1, <4>2
    <3> QED
      BY ONLY <3>1, <3>2
  <2> QED
    BY ONLY <2>5, <2>6, <2>7
<1> QED
  BY <1>1, AnswerInvHolds, PTL
=============================================================================
