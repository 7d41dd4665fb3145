---------------------------- MODULE SequenceFacts ----------------------------
(***************************************************************************)
(* What the proof modules share: induction on the naturals, functions      *)
(* defined by recursion, filtered and shortened sequences, bounded stores. *)
(***************************************************************************)
EXTENDS TtlStore, Integers, SequencesExt, SequenceTheorems, FiniteSetTheorems, TLAPS

(* A set of naturals has a least element. *)
LEMMA LeastNatural ==
  ASSUME NEW T \in SUBSET Nat, T # {}
  PROVE  \E x \in T : \A y \in T : x <= y
<1> DEFINE less == {ss \in Nat \X Nat : ss[1] < ss[2]}
<1>1. OpToRel(<, Nat) = less
  BY Zenon DEF OpToRel
<1>2. PICK x \in T : \A y \in T : ~(<<y, x>> \in OpToRel(<, Nat))
  BY NatLessThanWellFounded, WFMin
<1>3. ASSUME NEW y \in T PROVE x <= y
  <2>1. <<y, x>> \notin less
    BY Zenon, <1>1, <1>2
  <2> QED
    BY <2>1
<1> QED
  BY <1>3

(* Induction, for a property given as a set. *)
LEMMA Induction ==
  ASSUME NEW T, 0 \in T, \A n \in Nat : n \in T => n + 1 \in T
  PROVE  Nat \subseteq T
<1> SUFFICES ASSUME Nat \ T # {} PROVE FALSE
  OBVIOUS
<1>1. PICK x \in Nat \ T : \A y \in Nat \ T : x <= y
  BY LeastNatural
<1>2. x - 1 \in Nat /\ x - 1 \in T
  BY <1>1
<1> QED
  BY <1>1, <1>2

(* A function can be defined by recursion on the naturals up to a bound. *)
LEMMA RecursionExists ==
  ASSUME NEW A, NEW a \in A, NEW m \in Nat, NEW g \in [1..m -> [A -> A]]
  PROVE  \E f \in [0..m -> A] : f[0] = a /\ \A i \in 1..m : f[i] = g[i][f[i - 1]]
<1> DEFINE Good(n, f) == f[0] = a /\ \A i \in 1..n : f[i] = g[i][f[i - 1]]
           T == {n \in Nat : n <= m => \E f \in [0..n -> A] : Good(n, f)}
<1>1. 0 \in T
  <2> DEFINE f == [i \in 0..0 |-> a]
  <2>1. f \in [0..0 -> A] /\ Good(0, f)
    OBVIOUS
  <2> QED
    BY <2>1
<1>2. ASSUME NEW n \in Nat, n \in T PROVE n + 1 \in T
  <2> SUFFICES ASSUME n + 1 <= m PROVE \E f \in [0..(n + 1) -> A] : Good(n + 1, f)
    OBVIOUS
  <2>1. PICK f \in [0..n -> A] : Good(n, f)
    BY <1>2
  <2> DEFINE h == [i \in 0..(n + 1) |-> IF i = n + 1 THEN g[n + 1][f[n]] ELSE f[i]]
  <2>2. g[n + 1] \in [A -> A] /\ f[n] \in A
    OBVIOUS
  <2>3. h \in [0..(n + 1) -> A]
    BY <2>2
  <2>4. h[0] = a
    BY <2>1
  <2>5. ASSUME NEW i \in 1..(n + 1) PROVE h[i] = g[i][h[i - 1]]
    <3>1. CASE i = n + 1
      BY <3>1
    <3>2. CASE i # n + 1
      <4>1. i \in 1..n /\ i - 1 \in 0..n
        BY <3>2
      <4>2. h[i] = f[i] /\ h[i - 1] = f[i - 1]
        BY <4>1
      <4> QED
        BY <2>1, <4>1, <4>2
    <3> QED
      BY <3>1, <3>2
  <2> QED
    BY <2>3, <2>4, <2>5
<1> HIDE DEF T
<1>3. m \in T
  BY <1>1, <1>2, Induction
<1> QED
  BY <1>3 DEF T

-----------------------------------------------------------------------------
(* The equations of the definition of Kept. *)
KeptUpTo(f, s, T) ==
  /\ f[0] = << >>
  /\ \A i \in 1..Len(s) : f[i] = IF s[i] \in T THEN Append(f[i - 1], s[i]) ELSE f[i - 1]
  /\ Kept(s, T) = f[Len(s)]

(* Kept satisfies them. *)
LEMMA KeptRecursion ==
  ASSUME NEW S, NEW s \in Seq(S), NEW T
  PROVE  \E f \in [0..Len(s) -> Seq(S)] : KeptUpTo(f, s, T)
<1> DEFINE g == [i \in 1..Len(s) |-> [z \in Seq(S) |-> IF s[i] \in T THEN Append(z, s[i]) ELSE z]]
           Is(f) == f = [i \in 0..Len(s) |->
                          IF i = 0 THEN << >>
                          ELSE IF s[i] \in T THEN Append(f[i - 1], s[i]) ELSE f[i - 1]]
<1>1. g \in [1..Len(s) -> [Seq(S) -> Seq(S)]] /\ << >> \in Seq(S) /\ Len(s) \in Nat
  OBVIOUS
<1> HIDE DEF g
<1>2. PICK f \in [0..Len(s) -> Seq(S)] : f[0] = << >> /\ \A i \in 1..Len(s) : f[i] = g[i][f[i - 1]]
  <2> DEFINE A == Seq(S)
             m == Len(s)
             e == << >>
  <2>1. e \in A /\ m \in Nat /\ g \in [1..m -> [A -> A]]
    BY <1>1
  <2> HIDE DEF A, m, e
  <2>2. \E f \in [0..m -> A] : f[0] = e /\ \A i \in 1..m : f[i] = g[i][f[i - 1]]
    BY SMTT(30), <2>1, RecursionExists
  <2> QED
    BY <2>2 DEF A, m, e
<1>3. ASSUME NEW i \in 1..Len(s) PROVE f[i] = IF s[i] \in T THEN Append(f[i - 1], s[i]) ELSE f[i - 1]
  <2>1. i - 1 \in 0..Len(s)
    OBVIOUS
  <2> QED
    BY <1>2, <2>1 DEF g
<1>4. Is(f)
  <2>1. ASSUME NEW i \in 0..Len(s)
        PROVE  f[i] = IF i = 0 THEN << >> ELSE IF s[i] \in T THEN Append(f[i - 1], s[i]) ELSE f[i - 1]
    <3>1. CASE i = 0
      BY <1>2, <3>1
    <3>2. CASE i # 0
      <4>1. i \in 1..Len(s)
        BY <3>2
      <4> QED
        BY <1>3, <3>2, <4>1
    <3> QED
      BY <3>1, <3>2
  <2> QED
    BY <2>1
<1> DEFINE c == CHOOSE h : Is(h)
<1>5. Is(c)
  BY <1>4, Zenon
<1>6. Kept(s, T) = c[Len(s)]
  BY Zenon DEF Kept
<1> HIDE DEF c
<1>7. /\ c[0] = << >>
      /\ \A i \in 1..Len(s) : c[i] = IF s[i] \in T THEN Append(c[i - 1], s[i]) ELSE c[i - 1]
  <2>1. 0 \in 0..Len(s) /\ \A i \in 1..Len(s) : i \in 0..Len(s) /\ i # 0
    OBVIOUS
  <2> QED
    BY Zenon, <1>5, <2>1
<1>8. ASSUME NEW n \in 0..Len(s) PROVE c[n] = f[n]
  <2> DEFINE Q == {n_1 \in Nat : n_1 <= Len(s) => c[n_1] = f[n_1]}
  <2>1. 0 \in Q
    BY <1>2, <1>7
  <2>2. ASSUME NEW k \in Nat, k \in Q PROVE k + 1 \in Q
    BY <1>3, <1>7, <2>2
  <2> HIDE DEF Q
  <2>3. n \in Q
    BY <2>1, <2>2, Induction
  <2> QED
    BY <2>3 DEF Q
<1> QED
  BY <1>2, <1>3, <1>6, <1>8 DEF KeptUpTo

(* A property of sequences that appending preserves holds of them all. *)
LEMMA AppendInduction ==
  ASSUME NEW S, NEW Q, << >> \in Q, \A s \in Seq(S), x \in S : s \in Q => Append(s, x) \in Q
  PROVE  Seq(S) \subseteq Q
<1> DEFINE T == {n \in Nat : \A s \in Seq(S) : Len(s) = n => s \in Q}
<1>1. 0 \in T
  BY EmptySeq
<1>2. ASSUME NEW n \in Nat, n \in T PROVE n + 1 \in T
  <2> SUFFICES ASSUME NEW s \in Seq(S), Len(s) = n + 1 PROVE s \in Q
    OBVIOUS
  <2>1. s # << >>
    OBVIOUS
  <2>2. PICK t \in Seq(S), x \in S : s = Append(t, x)
    BY <2>1, SequenceEmptyOrAppend
  <2>3. Len(t) = n
    BY <2>2, AppendProperties
  <2> QED
    BY <1>2, <2>2, <2>3
<1> HIDE DEF T
<1>3. ASSUME NEW s \in Seq(S) PROVE s \in Q
  <2>1. Len(s) \in T
    BY <1>1, <1>2, Induction, LenProperties
  <2> QED
    BY <2>1 DEF T
<1> QED
  BY <1>3

(* Nothing is kept of nothing. *)
LEMMA KeptEmpty ==
  ASSUME NEW T
  PROVE  Kept(<< >>, T) = << >>
<1>1. << >> \in Seq({}) /\ Len(<< >>) = 0
  BY EmptySeq
<1>2. PICK f : KeptUpTo(f, << >>, T)
  BY <1>1, KeptRecursion
<1> QED
  BY <1>1, <1>2 DEF KeptUpTo

(* An element is looked at when its turn comes. *)
LEMMA KeptAppend ==
  ASSUME NEW S, NEW s \in Seq(S), NEW x \in S, NEW T
  PROVE  /\ Kept(s, T) \in Seq(S)
         /\ x \in T => Kept(Append(s, x), T) = Append(Kept(s, T), x)
         /\ x \notin T => Kept(Append(s, x), T) = Kept(s, T)
<1> DEFINE a == Append(s, x)
           n == Len(s)
<1>1. a \in Seq(S) /\ Len(a) = n + 1 /\ n \in Nat /\ a[n + 1] = x /\ \A i \in 1..n : a[i] = s[i]
  BY AppendProperties
<1> HIDE DEF a
<1>2. PICK f \in [0..Len(s) -> Seq(S)] : KeptUpTo(f, s, T)
  BY KeptRecursion
<1>3. PICK h \in [0..Len(a) -> Seq(S)] : KeptUpTo(h, a, T)
  BY <1>1, KeptRecursion
<1> DEFINE Q == {k \in Nat : k <= n => h[k] = f[k]}
<1>4. 0 \in Q
  BY <1>2, <1>3 DEF KeptUpTo
<1>5. ASSUME NEW k \in Nat, k \in Q PROVE k + 1 \in Q
  <2> SUFFICES ASSUME k + 1 <= n PROVE h[k + 1] = f[k + 1]
    OBVIOUS
  <2>1. k + 1 \in 1..n /\ k + 1 \in 1..Len(a) /\ (k + 1) - 1 = k /\ h[k] = f[k]
    BY <1>1, <1>5
  <2>2. h[k + 1] = IF s[k + 1] \in T THEN Append(h[k], s[k + 1]) ELSE h[k]
    BY <1>1, <1>3, <2>1 DEF KeptUpTo
  <2>3. f[k + 1] = IF s[k + 1] \in T THEN Append(f[k], s[k + 1]) ELSE f[k]
    BY <1>2, <2>1 DEF KeptUpTo
  <2> QED
    BY <2>1, <2>2, <2>3
<1> HIDE DEF Q
<1>6. n \in Q
  BY <1>1, <1>4, <1>5, Induction
<1>7. h[n] = f[n]
  BY <1>1, <1>6 DEF Q
<1>8. Kept(a, T) = IF x \in T THEN Append(h[n], x) ELSE h[n]
  BY <1>1, <1>3 DEF KeptUpTo
<1> QED
  BY <1>1, <1>2, <1>7, <1>8 DEF a, KeptUpTo

(* What is kept: the elements that are in T and no others. *)
LEMMA KeptElements ==
  ASSUME NEW S, NEW s \in Seq(S), NEW T
  PROVE  /\ Kept(s, T) \in Seq(S) /\ Len(Kept(s, T)) <= Len(s)
         /\ \A i \in 1..Len(Kept(s, T)) : Kept(s, T)[i] \in T /\ \E j \in 1..Len(s) : s[j] = Kept(s, T)[i]
         /\ \A j \in 1..Len(s) : s[j] \in T => \E i \in 1..Len(Kept(s, T)) : Kept(s, T)[i] = s[j]
<1> DEFINE Right(k, z) ==
             /\ k \in Seq(S) /\ Len(k) <= Len(z)
             /\ \A i \in 1..Len(k) : k[i] \in T /\ \E j \in 1..Len(z) : z[j] = k[i]
             /\ \A j \in 1..Len(z) : z[j] \in T => \E i \in 1..Len(k) : k[i] = z[j]
           Q == {z \in Seq(S) : Right(Kept(z, T), z)}
<1>1. << >> \in Q
  <2>1. Kept(<< >>, T) = << >> /\ << >> \in Seq(S) /\ Len(<< >>) = 0
    BY KeptEmpty, EmptySeq
  <2>2. Right(<< >>, << >>)
    BY <2>1
  <2> QED
    BY <2>1, <2>2
<1>2. ASSUME NEW z \in Seq(S), NEW x \in S, z \in Q PROVE Append(z, x) \in Q
  <2> DEFINE k == Kept(z, T)
             a == Append(z, x)
  <2>1. Right(k, z)
    BY <1>2
  <2>2. a \in Seq(S) /\ Len(a) = Len(z) + 1 /\ a[Len(a)] = x /\ (\A j \in 1..Len(z) : a[j] = z[j])
    BY AppendProperties
  <2> HIDE DEF k, a
  <2>3. CASE x \in T
    <3> DEFINE b == Append(k, x)
    <3>1. Kept(a, T) = b
      BY <2>3, KeptAppend DEF a, k
    <3>2. b \in Seq(S) /\ Len(b) = Len(k) + 1 /\ b[Len(b)] = x /\ (\A j \in 1..Len(k) : b[j] = k[j])
      BY <2>1, AppendProperties
    <3> HIDE DEF b
    <3>3. ASSUME NEW i \in 1..Len(b) PROVE b[i] \in T /\ \E j \in 1..Len(a) : a[j] = b[i]
      <4>1. CASE i = Len(b)
        BY <2>2, <2>3, <3>2, <4>1
      <4>2. CASE i # Len(b)
        <5>1. i \in 1..Len(k) /\ b[i] = k[i]
          BY <2>1, <3>2, <4>2
        <5>2. PICK j \in 1..Len(z) : z[j] = k[i]
          BY <2>1, <5>1
        <5>3. j \in 1..Len(a) /\ a[j] = z[j]
          BY <2>2
        <5> QED
          BY <2>1, <5>1, <5>2, <5>3
      <4> QED
        BY <4>1, <4>2
    <3>4. ASSUME NEW j \in 1..Len(a), a[j] \in T PROVE \E i \in 1..Len(b) : b[i] = a[j]
      <4>1. CASE j = Len(a)
        BY SMTT(30), <2>1, <2>2, <3>2, <4>1
      <4>2. CASE j # Len(a)
        <5>1. j \in 1..Len(z) /\ a[j] = z[j]
          BY <2>2, <4>2
        <5>2. PICK i \in 1..Len(k) : k[i] = z[j]
          BY <2>1, <3>4, <5>1
        <5>3. i \in 1..Len(b) /\ b[i] = k[i]
          BY <2>1, <3>2
        <5> QED
          BY <5>1, <5>2, <5>3
      <4> QED
        BY <4>1, <4>2
    <3>5. Len(b) <= Len(a)
      BY <2>1, <2>2, <3>2
    <3> QED
      BY <2>2, <3>1, <3>2, <3>3, <3>4, <3>5 DEF a
  <2>4. CASE x \notin T
    <3>1. Kept(a, T) = k
      BY <2>4, KeptAppend DEF a, k
    <3>2. ASSUME NEW i \in 1..Len(k) PROVE k[i] \in T /\ \E j \in 1..Len(a) : a[j] = k[i]
      <4>1. PICK j \in 1..Len(z) : z[j] = k[i]
        BY <2>1
      <4>2. j \in 1..Len(a) /\ a[j] = z[j]
        BY <2>2
      <4> QED
        BY <2>1, <4>1, <4>2
    <3>3. ASSUME NEW j \in 1..Len(a), a[j] \in T PROVE \E i \in 1..Len(k) : k[i] = a[j]
      <4>1. j \in 1..Len(z) /\ a[j] = z[j]
        BY <2>2, <2>4, <3>3
      <4> QED
        BY <2>1, <3>3, <4>1
    <3>4. Len(k) <= Len(a)
      BY <2>1, <2>2
    <3> QED
      BY <2>1, <2>2, <3>1, <3>2, <3>3, <3>4 DEF a
  <2> QED
    BY <2>3, <2>4
<1> HIDE DEF Q
<1>3. s \in Q
  BY <1>1, <1>2, AppendInduction
<1> QED
  BY <1>3 DEF Q

(* Appending to a concatenation appends to its second part. *)
LEMMA AppendConcat ==
  ASSUME NEW S, NEW a \in Seq(S), NEW b \in Seq(S), NEW x \in S
  PROVE  a \o Append(b, x) = Append(a \o b, x)
<1> DEFINE l == Append(a \o b, x)
           r == a \o Append(b, x)
<1>1. a \o b \in Seq(S) /\ Len(a \o b) = Len(a) + Len(b) /\ Append(b, x) \in Seq(S) /\ Len(Append(b, x)) = Len(b) + 1
  OBVIOUS
<1>2. l \in Seq(S) /\ Len(l) = Len(a) + Len(b) + 1
  BY <1>1
<1>3. r \in Seq(S) /\ Len(r) = Len(a) + Len(b) + 1
  BY <1>1
<1>4. ASSUME NEW i \in 1..(Len(a) + Len(b) + 1) PROVE l[i] = r[i]
  <2>1. CASE i \in 1..Len(a)
    BY <1>1, <2>1
  <2>2. CASE i \in (Len(a) + 1)..(Len(a) + Len(b))
    BY <1>1, <2>2
  <2>3. CASE i = Len(a) + Len(b) + 1
    BY <1>1, <2>3
  <2> QED
    BY <2>1, <2>2, <2>3
<1> HIDE DEF l, r
<1>5. l = r
  BY <1>2, <1>3, <1>4, SeqEqual
<1> QED
  BY <1>5 DEF l, r

(* Keeping distributes over concatenation. *)
LEMMA KeptConcat ==
  ASSUME NEW S, NEW s \in Seq(S), NEW t \in Seq(S), NEW T
  PROVE  Kept(s \o t, T) = Kept(s, T) \o Kept(t, T)
<1> DEFINE Q == {u \in Seq(S) : Kept(s \o u, T) = Kept(s, T) \o Kept(u, T)}
<1>1. << >> \in Q
  <2>1. Kept(s, T) \in Seq(S)
    BY KeptElements
  <2> QED
    BY <2>1, KeptEmpty, ConcatEmptySeq, EmptySeq
<1> HIDE DEF Q
<1>2. ASSUME NEW z \in Seq(S), NEW x \in S, z \in Q PROVE Append(z, x) \in Q
  <2>1. Kept(s, T) \in Seq(S) /\ Kept(z, T) \in Seq(S) /\ s \o z \in Seq(S) /\ Append(z, x) \in Seq(S)
    BY KeptElements, ConcatProperties, AppendProperties
  <2>3. s \o Append(z, x) = Append(s \o z, x)
    BY SMTT(30), AppendConcat
  <2>4. Kept(s \o Append(z, x), T) = IF x \in T THEN Append(Kept(s, T) \o Kept(z, T), x) ELSE Kept(s, T) \o Kept(z, T)
    <3>1. Kept(Append(s \o z, x), T) = IF x \in T THEN Append(Kept(s \o z, T), x) ELSE Kept(s \o z, T)
      <4>1. ASSUME NEW w \in Seq(S), x \in T PROVE Kept(Append(w, x), T) = Append(Kept(w, T), x)
        BY <4>1, KeptAppend
      <4>2. ASSUME NEW w \in Seq(S), x \notin T PROVE Kept(Append(w, x), T) = Kept(w, T)
        BY <4>2, KeptAppend
      <4> QED
        BY Zenon, <2>1, <4>1, <4>2
    <3>2. Kept(s \o z, T) = Kept(s, T) \o Kept(z, T)
      BY <1>2 DEF Q
    <3> QED
      BY <2>3, <3>1, <3>2
  <2>5. Kept(Append(z, x), T) = IF x \in T THEN Append(Kept(z, T), x) ELSE Kept(z, T)
    BY SMTT(30), KeptAppend
  <2>6. Append(Kept(s, T) \o Kept(z, T), x) = Kept(s, T) \o Append(Kept(z, T), x)
    <3>1. ASSUME NEW a \in Seq(S), NEW b \in Seq(S) PROVE a \o Append(b, x) = Append(a \o b, x)
      BY SMTT(30), AppendConcat
    <3> QED
      BY Zenon, <2>1, <3>1
  <2> QED
    BY <2>1, <2>4, <2>5, <2>6 DEF Q
<1>3. t \in Q
  BY <1>1, <1>2, AppendInduction
<1> QED
  BY <1>3 DEF Q

(* Nothing is kept of a sequence without elements in T. *)
LEMMA KeptNone ==
  ASSUME NEW S, NEW s \in Seq(S), NEW T, \A i \in 1..Len(s) : s[i] \notin T
  PROVE  Kept(s, T) = << >>
<1>1. Kept(s, T) \in Seq(S) /\ \A i \in 1..Len(Kept(s, T)) : Kept(s, T)[i] \in T /\ \E j \in 1..Len(s) : s[j] = Kept(s, T)[i]
  BY KeptElements
<1>2. Len(Kept(s, T)) = 0
  BY <1>1
<1> QED
  BY <1>1, <1>2, EmptySeq

-----------------------------------------------------------------------------
(* One element removed. *)

(* Concatenation, in the form the next lemma needs. *)
LEMMA ConcatFacts ==
  ASSUME NEW S, NEW p \in Seq(S), NEW q \in Seq(S)
  PROVE  p \o q \in Seq(S) /\ Len(p \o q) = Len(p) + Len(q)
  OBVIOUS

(* Removing one element of a sequence leaves elements of the sequence. *)
LEMMA RemoveAtFacts ==
  ASSUME NEW S, NEW s \in Seq(S), NEW i \in 1..Len(s)
  PROVE  /\ RemoveAt(s, i) \in Seq(S)
         /\ Len(RemoveAt(s, i)) = Len(s) - 1
         /\ \A j \in 1..(Len(s) - 1) :
              RemoveAt(s, i)[j] = IF j < i THEN s[j] ELSE s[j + 1]
<1> DEFINE p == SubSeq(s, 1, i - 1)
           q == SubSeq(s, i + 1, Len(s))
<1>1. /\ p \in Seq(S) /\ Len(p) = i - 1
      /\ \A j \in 1..(i - 1) : p[j] = s[j]
  OBVIOUS
<1>2. /\ q \in Seq(S) /\ Len(q) = Len(s) - i
      /\ \A j \in 1..(Len(s) - i) : q[j] = s[i + j]
  OBVIOUS
<1>3. RemoveAt(s, i) = p \o q
  BY DEF RemoveAt
<1> HIDE DEF p, q
<1>4. /\ p \o q \in Seq(S)
      /\ Len(p \o q) = Len(s) - 1
  <2>1. p \o q \in Seq(S) /\ Len(p \o q) = Len(p) + Len(q)
    BY <1>1, <1>2, ConcatFacts
  <2>2. QED
    BY <2>1, <1>1, <1>2
<1>5. ASSUME NEW j \in 1..(Len(s) - 1)
      PROVE  (p \o q)[j] = IF j < i THEN s[j] ELSE s[j + 1]
  <2>1. CASE j < i
    BY <2>1, <1>1, <1>2
  <2>2. CASE ~(j < i)
    <3>1. (p \o q)[j] = q[j - (i - 1)]
      BY <2>2, <1>1, <1>2
    <3>2. q[j - (i - 1)] = s[i + (j - (i - 1))]
      BY <2>2, <1>2
    <3>3. QED
      BY <2>2, <3>1, <3>2
  <2>3. QED
    BY <2>1, <2>2
<1>6. QED
  BY <1>3, <1>4, <1>5

(* Removing an element: if it is not kept anyway, what is kept stays; if   *)
(* it is the first that is kept, the others are.                           *)
LEMMA KeptRemove ==
  ASSUME NEW S, NEW s \in Seq(S), NEW i \in 1..Len(s), NEW T, NEW u, u = RemoveAt(s, i)
  PROVE  /\ Kept(u, T) \in Seq(S) /\ Kept(s, T) \in Seq(S)
         /\ s[i] \notin T => Kept(u, T) = Kept(s, T)
         /\ s[i] \in T /\ (\A j \in 1..(i - 1) : s[j] \notin T)
              => Kept(s, T) # << >> /\ Head(Kept(s, T)) = s[i] /\ Tail(Kept(s, T)) = Kept(u, T)
<1> DEFINE p == SubSeq(s, 1, i - 1)
           q == SubSeq(s, i + 1, Len(s))
           x == s[i]
           a == Append(p, x)
<1>1. p \in Seq(S) /\ Len(p) = i - 1 /\ \A j \in 1..(i - 1) : p[j] = s[j]
  OBVIOUS
<1>2. q \in Seq(S) /\ Len(q) = Len(s) - i /\ \A j \in 1..(Len(s) - i) : q[j] = s[i + j]
  OBVIOUS
<1>3. x \in S /\ u = p \o q
  BY DEF RemoveAt
<1> HIDE DEF p, q
<1>4. a \in Seq(S) /\ Len(a) = i /\ (\A j \in 1..(i - 1) : a[j] = s[j]) /\ a[i] = s[i]
  BY <1>1, <1>3, AppendProperties
<1> HIDE DEF x
<1>5. s = a \o q
  <2> HIDE DEF a
  <2>1. a \o q \in Seq(S) /\ Len(a \o q) = Len(s)
    BY <1>2, <1>4, ConcatFacts
  <2>2. ASSUME NEW j \in 1..Len(s) PROVE (a \o q)[j] = s[j]
    <3>1. CASE j <= i
      BY <1>2, <1>4, <2>1, <3>1
    <3>2. CASE ~(j <= i)
      <4>1. (a \o q)[j] = q[j - i] /\ j - i \in 1..(Len(s) - i)
        BY <1>2, <1>4, <2>1, <3>2
      <4> QED
        BY <1>2, <3>2, <4>1
    <3> QED
      BY <3>1, <3>2
  <2> QED
    BY <2>1, <2>2, SeqEqual
<1>6. Kept(u, T) = Kept(p, T) \o Kept(q, T)
  <2>1. Kept(p \o q, T) = Kept(p, T) \o Kept(q, T)
    BY SMTT(30), <1>1, <1>2, KeptConcat
  <2> QED
    BY <1>3, <2>1
<1>7. Kept(s, T) = Kept(a, T) \o Kept(q, T)
  <2> HIDE DEF a
  <2>1. Kept(a \o q, T) = Kept(a, T) \o Kept(q, T)
    BY <1>2, <1>4, KeptConcat
  <2> QED
    BY <1>5, <2>1
<1>8. /\ x \in T => Kept(a, T) = Append(Kept(p, T), x)
      /\ x \notin T => Kept(a, T) = Kept(p, T)
  <2> HIDE DEF a
  <2>1. ASSUME NEW w \in Seq(S), x \in T PROVE Kept(Append(w, x), T) = Append(Kept(w, T), x)
    BY <1>3, <2>1, KeptAppend
  <2>2. ASSUME NEW w \in Seq(S), x \notin T PROVE Kept(Append(w, x), T) = Kept(w, T)
    BY <1>3, <2>2, KeptAppend
  <2> QED
    BY Zenon, <1>1, <2>1, <2>2 DEF a
<1>9. Kept(q, T) \in Seq(S) /\ Kept(p, T) \in Seq(S)
  BY <1>1, <1>2, KeptElements
<1> HIDE DEF a
<1>10. Kept(s, T) \in Seq(S)
  BY KeptElements
<1>11. Kept(u, T) \in Seq(S)
  BY <1>6, <1>9, ConcatFacts
<1>12. ASSUME x \in T, \A j \in 1..(i - 1) : s[j] \notin T
       PROVE  Kept(s, T) # << >> /\ Head(Kept(s, T)) = x /\ Tail(Kept(s, T)) = Kept(u, T)
  <2>1. Kept(p, T) = << >>
    BY <1>1, <1>12, KeptNone
  <2> DEFINE k == Kept(q, T)
  <2>2. Kept(u, T) = k /\ Kept(s, T) = Append(<< >>, x) \o k /\ k \in Seq(S)
    <3>1. << >> \o k = k
      BY <1>9, ConcatEmptySeq
    <3> QED
      BY <1>6, <1>7, <1>8, <1>9, <1>12, <2>1, <3>1
  <2> HIDE DEF k
  <2>3. Append(<< >>, x) = <<x>> /\ x \in S
    BY <1>3
  <2>4. <<x>> \o k # << >> /\ Head(<<x>> \o k) = x /\ Tail(<<x>> \o k) = k
    <3> DEFINE w == <<x>> \o k
    <3>1. <<x>> \in Seq(S) /\ Len(<<x>>) = 1 /\ <<x>>[1] = x
      BY <2>3
    <3>2. w \in Seq(S) /\ Len(w) = Len(k) + 1 /\ w[1] = x /\ \A j \in 1..Len(k) : w[j + 1] = k[j]
      BY <2>2, <3>1, ConcatProperties
    <3>3. Len(k) \in Nat
      BY <2>2
    <3> HIDE DEF w
    <3>4. w # << >> /\ Head(w) = x
      BY <3>2, <3>3
    <3>5. Tail(w) \in Seq(S) /\ Len(Tail(w)) = Len(k) /\ \A j \in 1..Len(Tail(w)) : Tail(w)[j] = w[j + 1]
      BY <3>2, <3>3, <3>4, HeadTailProperties
    <3>6. Tail(w) = k
      BY <2>2, <3>2, <3>5, SeqEqual
    <3> QED
      BY <3>4, <3>6 DEF w
  <2> QED
    BY <2>2, <2>3, <2>4
<1> QED
  BY <1>6, <1>7, <1>8, <1>10, <1>11, <1>12 DEF x

-----------------------------------------------------------------------------
(* The bounded stores with expiry. *)

HasEntry(s, e) == \E i \in 1..Len(s) : s[i] = e

(* What has not expired is kept. *)
LEMMA UnexpiredFacts ==
  ASSUME NEW E, NEW store \in Seq(E), NEW t
  PROVE  /\ Unexpired(store, t) \in Seq(E)
         /\ \A e : HasEntry(store, e) /\ e.exp > t => HasEntry(Unexpired(store, t), e)
<1> DEFINE T == {store[i] : i \in {j \in DOMAIN store : store[j].exp > t}}
<1>1. Unexpired(store, t) = Kept(store, T)
  BY Zenon DEF Unexpired
<1>2. ASSUME NEW e, HasEntry(store, e), e.exp > t PROVE e \in T
  BY <1>2 DEF HasEntry
<1> HIDE DEF T
<1>3. /\ Kept(store, T) \in Seq(E)
      /\ \A j \in 1..Len(store) : store[j] \in T => \E i \in 1..Len(Kept(store, T)) : Kept(store, T)[i] = store[j]
  BY KeptElements
<1>4. ASSUME NEW e, HasEntry(store, e), e.exp > t PROVE HasEntry(Kept(store, T), e)
  BY <1>2, <1>3, <1>4 DEF HasEntry
<1> QED
  BY <1>1, <1>3, <1>4

(* delete: every other entry stays. *)
LEMMA WithoutKeyFacts ==
  ASSUME NEW E, NEW store \in Seq(E), NEW k
  PROVE  /\ WithoutKey(store, k) \in Seq(E)
         /\ \A e : HasEntry(store, e) /\ e.key # k => HasEntry(WithoutKey(store, k), e)
<1> DEFINE T == {store[i] : i \in {j \in DOMAIN store : store[j].key # k}}
<1>1. WithoutKey(store, k) = Kept(store, T)
  BY Zenon DEF WithoutKey
<1>2. ASSUME NEW e, HasEntry(store, e), e.key # k PROVE e \in T
  BY <1>2 DEF HasEntry
<1> HIDE DEF T
<1>3. /\ Kept(store, T) \in Seq(E)
      /\ \A j \in 1..Len(store) : store[j] \in T => \E i \in 1..Len(Kept(store, T)) : Kept(store, T)[i] = store[j]
  BY KeptElements
<1>4. ASSUME NEW e, HasEntry(store, e), e.key # k PROVE HasEntry(Kept(store, T), e)
  BY <1>2, <1>3, <1>4 DEF HasEntry
<1> QED
  BY <1>1, <1>3, <1>4

(* set of a Map. *)
LEMMA PutFacts ==
  ASSUME NEW E, NEW store \in Seq(E), NEW k, NEW x, [key |-> k, exp |-> x] \in E,
         NEW s, s = Put(store, k, x)
  PROVE  /\ s \in Seq(E)
         /\ HasEntry(s, [key |-> k, exp |-> x])
         /\ \A e : HasEntry(store, e) /\ e.key # k => HasEntry(s, e)
<1> DEFINE new == [key |-> k, exp |-> x]
<1>0. new \in E /\ DOMAIN store = 1..Len(store) /\ Len(store) \in Nat
  OBVIOUS
<1>1. CASE \E i \in DOMAIN store : store[i].key = k
  <2> DEFINE p == [i \in 1..Len(store) |-> IF store[i].key = k THEN new ELSE store[i]]
  <2>1. s = p
    BY <1>0, <1>1 DEF Put
  <2>2. p \in Seq(E) /\ Len(p) = Len(store)
    BY <1>0
  <2>3. PICK i \in 1..Len(store) : store[i].key = k
    BY <1>0, <1>1
  <2>4. i \in 1..Len(p) /\ p[i] = new
    BY <2>2, <2>3
  <2>5. ASSUME NEW j \in 1..Len(store), store[j].key # k PROVE j \in 1..Len(p) /\ p[j] = store[j]
    BY <2>2, <2>5
  <2> HIDE DEF p
  <2> QED
    BY <2>1, <2>2, <2>4, <2>5 DEF HasEntry
<1>2. CASE ~\E i \in DOMAIN store : store[i].key = k
  <2> DEFINE p == Append(store, new)
  <2>1. s = p
    BY <1>2 DEF Put
  <2>2. p \in Seq(E) /\ Len(p) = Len(store) + 1 /\ p[Len(p)] = new /\ \A j \in 1..Len(store) : p[j] = store[j]
    BY <1>0, AppendProperties
  <2> HIDE DEF p
  <2>3. Len(p) \in 1..Len(p) /\ \A j \in 1..Len(store) : j \in 1..Len(p)
    BY <1>0, <2>2
  <2> QED
    BY <2>1, <2>2, <2>3 DEF HasEntry
<1> QED
  BY <1>1, <1>2

(* SET of Redis: the new key is there, and every other that has not expired. *)
LEMMA SetKeyFacts ==
  ASSUME NEW E, NEW store \in Seq(E), NEW k, NEW x, [key |-> k, exp |-> x] \in E, NEW t,
         NEW s, s = SetKey(store, k, x, t)
  PROVE  /\ s \in Seq(E)
         /\ HasEntry(s, [key |-> k, exp |-> x])
         /\ \A e : HasEntry(store, e) /\ e.exp > t /\ e.key # k => HasEntry(s, e)
<1>1. /\ Unexpired(store, t) \in Seq(E)
      /\ \A e : HasEntry(store, e) /\ e.exp > t => HasEntry(Unexpired(store, t), e)
  BY UnexpiredFacts
<1>2. s = Put(Unexpired(store, t), k, x)
  BY DEF SetKey
<1> QED
  BY <1>1, <1>2, PutFacts

(* add: the new key is there, and every other that has not expired and was *)
(* not pushed out.                                                         *)
LEMMA AddKeyFacts ==
  ASSUME NEW E, NEW store \in Seq(E), NEW k, NEW x, [key |-> k, exp |-> x] \in E, NEW t, NEW cap \in Nat \ {0},
         NEW s, s = AddKey(store, k, x, t, cap)
  PROVE  /\ s \in Seq(E)
         /\ HasEntry(s, [key |-> k, exp |-> x])
         /\ \A e : HasEntry(store, e) /\ e.exp > t /\ e.key # k /\ e.key \notin Evicted(store, k, t, cap) => HasEntry(s, e)
<1> DEFINE kept == Unexpired(store, t)
           n == Len(kept)
           room == IF n < cap THEN kept ELSE SubSeq(kept, n - cap + 2, n)
<1>1. s = Put(room, k, x)
  BY Zenon DEF AddKey
<1>2. kept \in Seq(E) /\ n \in Nat
  BY UnexpiredFacts, LenProperties
<1>3. Evicted(store, k, t, cap) = {kept[i].key : i \in 1..(IF n < cap THEN 0 ELSE n - cap + 1)} \ {k}
  BY Zenon DEF Evicted
<1> HIDE DEF kept
<1>4. room \in Seq(E)
  BY <1>2
<1>5. ASSUME NEW e, HasEntry(store, e), e.exp > t, e.key # k, e.key \notin Evicted(store, k, t, cap)
      PROVE  HasEntry(room, e)
  <2>1. PICK i \in 1..n : kept[i] = e
    BY <1>5, UnexpiredFacts DEF kept, HasEntry
  <2>2. CASE n < cap
    BY <2>1, <2>2 DEF HasEntry
  <2>3. CASE ~(n < cap)
    <3>1. i \notin 1..(n - cap + 1)
      BY <1>3, <1>5, <2>1, <2>3
    <3>2. i \in (n - cap + 2)..n
      BY <1>2, <3>1
    <3>3. Len(SubSeq(kept, n - cap + 2, n)) = cap - 1
      BY <1>2, <2>3
    <3>4. SubSeq(kept, n - cap + 2, n)[i - (n - cap + 1)] = kept[i]
      BY <1>2, <2>3, <3>2
    <3>5. i - (n - cap + 1) \in 1..(cap - 1)
      BY <1>2, <2>3, <3>2
    <3> DEFINE h == i - (n - cap + 1)
    <3>6. h \in 1..Len(room) /\ room[h] = e
      BY <2>1, <2>3, <3>3, <3>4, <3>5
    <3> HIDE DEF h
    <3> QED
      BY <3>6 DEF HasEntry
  <2> QED
    BY <2>2, <2>3
<1> HIDE DEF room
<1>6. s \in Seq(E) /\ HasEntry(s, [key |-> k, exp |-> x]) /\ \A e : HasEntry(room, e) /\ e.key # k => HasEntry(s, e)
  BY <1>1, <1>4, PutFacts
<1> QED
  BY <1>5, <1>6
=============================================================================
