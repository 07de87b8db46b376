---------------------------- MODULE EngineProofs ----------------------------
(***************************************************************************)
(* For every vocabulary, every project and every entry: what a view of an  *)
(* entry shows, and what the index of links holds, against what the fences *)
(* around each line say.                                                   *)
(*                                                                         *)
(* The lines of a document have a level, the fences open before them, and  *)
(* everything is told by levels.  First the sequences that the engine is   *)
(* written with; then the parse of a document, which returns the blocks at *)
(* each level; then what is rendered from these blocks, and what is        *)
(* indexed.                                                                *)
(***************************************************************************)
EXTENDS EntryViews, FiniteSetTheorems, SequenceTheorems, TLAPS

-----------------------------------------------------------------------------
(* Induction, and the least and the greatest of some numbers.              *)

LEMMA SetOfNaturals ==
  ASSUME NEW S, 0 \in S, \A n \in Nat : n \in S => n + 1 \in S
  PROVE  \A n \in Nat : n \in S
  <1> DEFINE T == Nat \ S
             R == {ss \in Nat \X Nat : ss[1] < ss[2]}
  <1> SUFFICES ASSUME T # {} PROVE FALSE
    OBVIOUS
  <1>1. IsWellFoundedOn(R, Nat)
    BY NatLessThanWellFounded DEF OpToRel
  <1>2. PICK x \in T : \A y \in T : ~ (<<y, x>> \in R)
    <2> HIDE DEF R
    <2> QED  BY <1>1, WFMin
  <1>3. x # 0 /\ x \in Nat
    OBVIOUS
  <1>4. x - 1 \in Nat /\ <<x - 1, x>> \in R
    BY <1>3
  <1>5. x - 1 \in S
    BY <1>2, <1>4
  <1>6. (x - 1) + 1 = x
    BY <1>3
  <1> QED  BY <1>4, <1>5, <1>6

LEMMA LeastOf ==
  ASSUME NEW S, S \subseteq Nat, S # {}
  PROVE  Least(S) \in S /\ \A m \in S : Least(S) <= m
  <1> DEFINE R == {ss \in Nat \X Nat : ss[1] < ss[2]}
  <1>1. IsWellFoundedOn(R, Nat)
    BY NatLessThanWellFounded DEF OpToRel
  <1>2. PICK x \in S : \A y \in S : ~ (<<y, x>> \in R)
    <2> HIDE DEF R
    <2> QED  BY <1>1, WFMin
  <1>3. ASSUME NEW y \in S, ~(x <= y)
        PROVE  FALSE
    <2>1. x \in Nat /\ y \in Nat /\ y < x
      BY <1>3
    <2>2. <<y, x>> \in R
      BY <2>1
    <2> QED  BY <1>2, <2>2
  <1>4. x \in S /\ \A y \in S : x <= y
    BY <1>3
  <1> QED  BY <1>4 DEF Least

LEMMA GreatestOf ==
  ASSUME NEW n \in Nat, NEW S, S \subseteq 0 .. n, S # {}
  PROVE  Greatest(S) \in S /\ \A m \in S : Greatest(S) >= m
  <1> DEFINE T == {n - m : m \in S}
  <1>1. T \subseteq Nat /\ T # {}
    <2>1. \A m \in S : n - m \in Nat
      OBVIOUS
    <2> QED  BY <2>1
  <1>2. Least(T) \in T /\ \A m \in T : Least(T) <= m
    <2> HIDE DEF T
    <2> QED  BY <1>1, LeastOf
  <1>3. PICK x \in S : Least(T) = n - x
    BY <1>2
  <1>4. ASSUME NEW m \in S
        PROVE  x >= m
    <2>1. n - m \in T
      OBVIOUS
    <2>2. n - x <= n - m
      BY <1>2, <1>3, <2>1
    <2> QED  BY <2>2
  <1>5. \E y \in S : \A m \in S : y >= m
    BY <1>4
  <1> QED  BY <1>5 DEF Greatest

LEMMA GreatestIs ==
  ASSUME NEW n \in Nat, NEW S, S \subseteq 0 .. n, NEW x \in S, \A m \in S : m <= x
  PROVE  Greatest(S) = x
  <1>1. Greatest(S) \in S /\ \A m \in S : Greatest(S) >= m
    BY GreatestOf
  <1>2. Greatest(S) <= x /\ Greatest(S) >= x
    BY <1>1
  <1>3. Greatest(S) \in Nat /\ x \in Nat
    <2>1. S \subseteq Nat
      OBVIOUS
    <2> QED  BY <1>1, <2>1
  <1> QED  BY <1>2, <1>3

LEMMA LeastIs ==
  ASSUME NEW S, S \subseteq Nat, NEW x \in S, \A m \in S : x <= m
  PROVE  Least(S) = x
  <1>1. Least(S) \in S /\ \A m \in S : Least(S) <= m
    BY LeastOf
  <1>2. Least(S) \in Nat /\ x \in Nat /\ Least(S) <= x /\ x <= Least(S)
    BY <1>1
  <1> QED  BY <1>2

-----------------------------------------------------------------------------
(* Sequences of sequences, one after the other.                            *)

LEMMA FlattenEmpty == FlattenSeq(<< >>) = << >>
  BY DEF FlattenSeq

\* The recursive function in FlattenSeq exists.
LEMMA FlattenFunction ==
  ASSUME NEW ss, Len(ss) \in Nat \ {0}
  PROVE  \E f : /\ f = [i \in 1 .. Len(ss) |-> IF i = 1 THEN ss[i] ELSE f[i - 1] \o ss[i]]
                /\ FlattenSeq(ss) = f[Len(ss)]
  <1> DEFINE Is(f, k) == f = [i \in 1 .. k |-> IF i = 1 THEN ss[i] ELSE f[i - 1] \o ss[i]]
             flat[i \in 1 .. Len(ss)] == IF i = 1 THEN ss[i] ELSE flat[i - 1] \o ss[i]
             S == {k \in Nat : \E f : Is(f, k)}
  <1>1. flat = CHOOSE f : Is(f, Len(ss))
    BY DEF flat
  <1>2. FlattenSeq(ss) = flat[Len(ss)]
    BY DEF FlattenSeq
  <1> HIDE DEF flat
  <1>3. 0 \in S
    <2> DEFINE f == [i \in 1 .. 0 |-> IF i = 1 THEN ss[i] ELSE {}]
    <2>1. Is(f, 0)
      OBVIOUS
    <2> HIDE DEF f, Is
    <2> QED  BY <2>1
  <1>4. ASSUME NEW k \in Nat, k \in S
        PROVE  k + 1 \in S
    <2>1. PICK f : Is(f, k)
      BY <1>4
    <2> DEFINE g == [i \in 1 .. k + 1 |->
                       IF i <= k THEN f[i] ELSE IF i = 1 THEN ss[i] ELSE f[k] \o ss[i]]
               h == [i \in 1 .. k + 1 |-> IF i = 1 THEN ss[i] ELSE g[i - 1] \o ss[i]]
    <2>2. ASSUME NEW i \in 1 .. k + 1
          PROVE  g[i] = h[i]
      <3>1. CASE i = 1
        <4>1. h[i] = ss[i]
          BY <3>1
        <4>2. g[i] = ss[i]
          <5>1. CASE 1 <= k
            BY <3>1, <5>1, <2>1
          <5>2. CASE k = 0
            BY <3>1, <5>2
          <5> QED  BY <5>1, <5>2
        <4> QED  BY <4>1, <4>2
      <3>2. CASE i # 1 /\ i <= k
        <4>1. i - 1 \in 1 .. k /\ i \in 1 .. k
          BY <3>2
        <4>2. g[i - 1] = f[i - 1] /\ g[i] = f[i]
          BY <4>1
        <4>3. f[i] = f[i - 1] \o ss[i]
          BY <2>1, <4>1, <3>2
        <4> HIDE DEF g
        <4> QED  BY <3>2, <4>2, <4>3
      <3>3. CASE i # 1 /\ i = k + 1
        <4>1. k \in 1 .. k /\ i - 1 = k /\ ~(i <= k)
          BY <3>3
        <4>2. g[k] = f[k]
          BY <4>1
        <4>3. g[i] = f[k] \o ss[i]
          BY <3>3, <4>1
        <4> HIDE DEF g
        <4> QED  BY <3>3, <4>1, <4>2, <4>3
      <3> QED  BY <3>1, <3>2, <3>3
    <2>3. g = h
      <3>1. DOMAIN g = 1 .. k + 1 /\ DOMAIN h = 1 .. k + 1
        OBVIOUS
      <3> QED  BY <2>2, <3>1
    <2>4. Is(g, k + 1)
      BY <2>3
    <2> HIDE DEF g, h, Is
    <2> QED  BY <2>4
  <1>5. Len(ss) \in S
    <2> HIDE DEF S
    <2> QED  BY <1>3, <1>4, SetOfNaturals
  <1>6. Is(flat, Len(ss))
    <2> HIDE DEF Is
    <2> QED  BY <1>1, <1>5
  <1> QED  BY <1>2, <1>6

LEMMA FlattenTyped ==
  ASSUME NEW T, NEW ss \in Seq(Seq(T))
  PROVE  FlattenSeq(ss) \in Seq(T)
  <1>1. CASE Len(ss) = 0
    <2>1. ss = << >>
      BY <1>1
    <2>2. << >> \in Seq(T)
      OBVIOUS
    <2> QED  BY <2>1, <2>2, FlattenEmpty
  <1>2. CASE Len(ss) # 0
    <2>0. Len(ss) \in Nat \ {0}
      BY <1>2
    <2>1. PICK f : /\ f = [i \in 1 .. Len(ss) |-> IF i = 1 THEN ss[i] ELSE f[i - 1] \o ss[i]]
                   /\ FlattenSeq(ss) = f[Len(ss)]
      BY <2>0, FlattenFunction
    <2> DEFINE S == {k \in Nat : k + 1 \in 1 .. Len(ss) => f[k + 1] \in Seq(T)}
    <2>2. 0 \in S
      <3>1. f[1] = ss[1]
        BY <2>0, <2>1
      <3> QED  BY <3>1
    <2>3. ASSUME NEW k \in Nat, k \in S
          PROVE  k + 1 \in S
      <3> SUFFICES ASSUME k + 2 \in 1 .. Len(ss) PROVE f[k + 2] \in Seq(T)
        OBVIOUS
      <3>0. k + 2 # 1 /\ (k + 2) - 1 = k + 1
        OBVIOUS
      <3>1. f[k + 2] = f[k + 1] \o ss[k + 2]
        BY <2>1, <3>0
      <3>2. f[k + 1] \in Seq(T)
        BY <2>3
      <3>3. ss[k + 2] \in Seq(T)
        OBVIOUS
      <3> HIDE <2>1
      <3> QED  BY <3>1, <3>2, <3>3
    <2>4. Len(ss) - 1 \in S
      <3>1. Len(ss) - 1 \in Nat
        BY <2>0
      <3> HIDE DEF S
      <3> QED  BY <2>2, <2>3, <3>1, SetOfNaturals
    <2> QED  BY <2>0, <2>1, <2>4
  <1> QED  BY <1>1, <1>2

LEMMA FlattenOne ==
  ASSUME NEW s
  PROVE  FlattenSeq(<<s>>) = s
  <1> DEFINE ss == <<s>>
  <1>1. Len(ss) = 1 /\ ss[1] = s
    OBVIOUS
  <1> HIDE DEF ss
  <1>2. PICK f : /\ f = [i \in 1 .. Len(ss) |-> IF i = 1 THEN ss[i] ELSE f[i - 1] \o ss[i]]
                 /\ FlattenSeq(ss) = f[Len(ss)]
    <2>1. Len(ss) \in Nat \ {0}
      BY <1>1
    <2> QED  BY <2>1, FlattenFunction
  <1>3. FlattenSeq(ss) = s
    BY <1>1, <1>2
  <1> QED  BY <1>3 DEF ss

LEMMA FlattenMore ==
  ASSUME NEW T, NEW ss \in Seq(Seq(T)), NEW s \in Seq(T)
  PROVE  FlattenSeq(Append(ss, s)) = FlattenSeq(ss) \o s
  <1>1. CASE Len(ss) = 0
    <2>1. ss = << >> /\ Append(ss, s) = <<s>>
      BY <1>1
    <2>2. << >> \o s = s
      OBVIOUS
    <2> QED  BY <2>1, <2>2, FlattenEmpty, FlattenOne
  <1>2. CASE Len(ss) # 0
    <2> DEFINE n == Len(ss)
               tt == Append(ss, s)
    <2>0. n \in Nat \ {0} /\ Len(tt) = n + 1 /\ tt[n + 1] = s /\ \A i \in 1 .. n : tt[i] = ss[i]
      BY <1>2
    <2>1. PICK f : /\ f = [i \in 1 .. Len(ss) |-> IF i = 1 THEN ss[i] ELSE f[i - 1] \o ss[i]]
                   /\ FlattenSeq(ss) = f[Len(ss)]
      BY <2>0, FlattenFunction
    <2>2. PICK g : /\ g = [i \in 1 .. Len(tt) |-> IF i = 1 THEN tt[i] ELSE g[i - 1] \o tt[i]]
                   /\ FlattenSeq(tt) = g[Len(tt)]
      <3>1. Len(tt) \in Nat \ {0}
        BY <2>0
      <3> HIDE DEF tt
      <3> QED  BY <3>1, FlattenFunction
    <2> HIDE DEF n, tt
    <2> DEFINE S == {k \in Nat : k + 1 \in 1 .. n => f[k + 1] = g[k + 1]}
    <2>3. 0 \in S
      <3>1. f[1] = ss[1] /\ g[1] = tt[1]
        BY <2>0, <2>1, <2>2 DEF n
      <3> QED  BY <2>0, <3>1
    <2>4. ASSUME NEW k \in Nat, k \in S
          PROVE  k + 1 \in S
      <3> SUFFICES ASSUME k + 2 \in 1 .. n PROVE f[k + 2] = g[k + 2]
        OBVIOUS
      <3>0. k + 2 # 1 /\ (k + 2) - 1 = k + 1 /\ k + 2 \in 1 .. n + 1
        BY <2>0
      <3>1. f[k + 2] = f[k + 1] \o ss[k + 2]
        BY <2>1, <3>0 DEF n
      <3>2. g[k + 2] = g[k + 1] \o tt[k + 2]
        <4>1. k + 2 \in 1 .. Len(tt)
          BY <2>0, <3>0
        <4> QED  BY <2>2, <3>0, <4>1
      <3>3. ss[k + 2] = tt[k + 2]
        BY <2>0
      <3>4. f[k + 1] = g[k + 1]
        BY <2>0, <2>4
      <3> QED  BY <3>1, <3>2, <3>3, <3>4
    <2>5. n - 1 \in S
      <3>1. n - 1 \in Nat
        BY <2>0
      <3> HIDE DEF S
      <3>2. \A k \in Nat : k \in S
        BY <2>3, <2>4, SetOfNaturals
      <3> QED  BY <3>1, <3>2
    <2>6. f[n] = g[n]
      BY <2>0, <2>5
    <2>7. g[n + 1] = g[n] \o tt[n + 1]
      <3>1. n \in Nat \ {0} /\ Len(tt) = n + 1
        BY <2>0
      <3>2. n + 1 \in 1 .. Len(tt) /\ n + 1 # 1 /\ (n + 1) - 1 = n
        <4> HIDE DEF S
        <4> QED  BY <3>1
      <3> QED  BY <2>2, <3>2
    <2> QED  BY <2>0, <2>1, <2>2, <2>6, <2>7 DEF n, tt
  <1> QED  BY <1>1, <1>2

LEMMA FrontLast ==
  ASSUME NEW T, NEW s \in Seq(T), NEW n \in Nat, Len(s) = n + 1
  PROVE  /\ SubSeq(s, 1, n) \in Seq(T) /\ Len(SubSeq(s, 1, n)) = n
         /\ \A i \in 1 .. n : SubSeq(s, 1, n)[i] = s[i]
         /\ s[n + 1] \in T
         /\ s = Append(SubSeq(s, 1, n), s[n + 1])
  <1>1. /\ SubSeq(s, 1, n) \in Seq(T) /\ Len(SubSeq(s, 1, n)) = n
        /\ \A i \in 1 .. n : SubSeq(s, 1, n)[i] = s[i]
    OBVIOUS
  <1>2. s[n + 1] \in T
    OBVIOUS
  <1>3. s = Append(SubSeq(s, 1, n), s[n + 1])
    <2> DEFINE t == Append(SubSeq(s, 1, n), s[n + 1])
    <2>1. t \in Seq(T) /\ Len(t) = n + 1
      BY <1>1, <1>2
    <2>2. \A i \in 1 .. n + 1 : t[i] = s[i]
      BY <1>1, <1>2
    <2> QED  BY <2>1, <2>2
  <1> QED  BY <1>1, <1>2, <1>3

-----------------------------------------------------------------------------
(* What stays so when sequences follow one another.                        *)

\* Each element is in relation R to all that follow it.
Sorted(s, R) == \A i, j \in DOMAIN s : i < j => <<s[i], s[j]>> \in R

Less == {p \in Nat \X Nat : p[1] < p[2]}

\* What a function makes of each element.
Each(s, f) == [k \in DOMAIN s |-> f[s[k]]]

LEMMA ConcatSet ==
  ASSUME NEW T, NEW s \in Seq(T), NEW t \in Seq(T)
  PROVE  ToSet(s \o t) = ToSet(s) \cup ToSet(t)
  <1> DEFINE u == s \o t
  <1>1. /\ u \in Seq(T) /\ Len(u) = Len(s) + Len(t)
        /\ \A i \in 1 .. Len(s) : u[i] = s[i]
        /\ \A i \in 1 .. Len(t) : u[Len(s) + i] = t[i]
    OBVIOUS
  <1>2. ASSUME NEW x \in ToSet(u)
        PROVE  x \in ToSet(s) \cup ToSet(t)
    <2>1. PICK i \in 1 .. Len(u) : x = u[i]
      BY <1>1 DEF ToSet
    <2>2. CASE i <= Len(s)
      BY <1>1, <2>1, <2>2 DEF ToSet
    <2>3. CASE i > Len(s)
      <3>1. i - Len(s) \in 1 .. Len(t) /\ Len(s) + (i - Len(s)) = i
        BY <1>1, <2>1, <2>3
      <3>2. x = t[i - Len(s)]
        BY <1>1, <2>1, <3>1
      <3> QED  BY <3>1, <3>2 DEF ToSet
    <2> QED  BY <1>1, <2>1, <2>2, <2>3
  <1>3. ASSUME NEW x \in ToSet(s)
        PROVE  x \in ToSet(u)
    <2>1. PICK i \in 1 .. Len(s) : x = s[i]
      BY DEF ToSet
    <2>2. i \in DOMAIN u /\ x = u[i]
      BY <1>1, <2>1
    <2> QED  BY <2>2 DEF ToSet
  <1>4. ASSUME NEW x \in ToSet(t)
        PROVE  x \in ToSet(u)
    <2>1. PICK i \in 1 .. Len(t) : x = t[i]
      BY DEF ToSet
    <2>2. Len(s) + i \in DOMAIN u /\ x = u[Len(s) + i]
      BY <1>1, <2>1
    <2> QED  BY <2>2 DEF ToSet
  <1> QED  BY <1>2, <1>3, <1>4 DEF u

LEMMA ConcatSorted ==
  ASSUME NEW T, NEW s \in Seq(T), NEW t \in Seq(T), NEW R, Sorted(s, R), Sorted(t, R),
         \A x \in ToSet(s), y \in ToSet(t) : <<x, y>> \in R
  PROVE  Sorted(s \o t, R)
  <1> DEFINE u == s \o t
  <1>1. /\ u \in Seq(T) /\ Len(u) = Len(s) + Len(t)
        /\ \A i \in 1 .. Len(s) : u[i] = s[i]
        /\ \A i \in 1 .. Len(t) : u[Len(s) + i] = t[i]
    OBVIOUS
  <1> SUFFICES ASSUME NEW i \in DOMAIN u, NEW j \in DOMAIN u, i < j
               PROVE  <<u[i], u[j]>> \in R
    BY DEF Sorted
  <1> HIDE DEF u
  <1>2. i \in 1 .. Len(u) /\ j \in 1 .. Len(u)
    BY <1>1
  <1>3. \A k \in 1 .. Len(u) : k > Len(s) =>
           k - Len(s) \in 1 .. Len(t) /\ u[k] = t[k - Len(s)]
    <2> SUFFICES ASSUME NEW k \in 1 .. Len(u), k > Len(s)
                 PROVE  k - Len(s) \in 1 .. Len(t) /\ u[k] = t[k - Len(s)]
      OBVIOUS
    <2>1. k - Len(s) \in 1 .. Len(t) /\ Len(s) + (k - Len(s)) = k
      BY <1>1
    <2> QED  BY <1>1, <2>1
  <1>4. CASE j <= Len(s)
    <2>1. i \in 1 .. Len(s) /\ j \in 1 .. Len(s)
      BY <1>2, <1>4
    <2>2. u[i] = s[i] /\ u[j] = s[j]
      BY <1>1, <2>1
    <2> QED  BY <2>1, <2>2 DEF Sorted
  <1>5. CASE i > Len(s)
    <2>1. j > Len(s)
      BY <1>2, <1>5
    <2>2. /\ i - Len(s) \in 1 .. Len(t) /\ j - Len(s) \in 1 .. Len(t)
          /\ u[i] = t[i - Len(s)] /\ u[j] = t[j - Len(s)]
      BY <1>2, <1>3, <1>5, <2>1
    <2>3. i - Len(s) < j - Len(s)
      BY <1>2
    <2> QED  BY <2>2, <2>3 DEF Sorted
  <1>6. CASE i <= Len(s) /\ j > Len(s)
    <2>1. i \in 1 .. Len(s) /\ u[i] = s[i]
      BY <1>1, <1>2, <1>6
    <2>2. j - Len(s) \in 1 .. Len(t) /\ u[j] = t[j - Len(s)]
      BY <1>2, <1>3, <1>6
    <2> QED  BY <2>1, <2>2 DEF ToSet
  <1> QED  BY <1>2, <1>4, <1>5, <1>6

\* Both of these go from all but the last sequence to all.
LEMMA FlattenElements ==
  ASSUME NEW T, NEW ss \in Seq(Seq(T))
  PROVE  \A x : x \in ToSet(FlattenSeq(ss)) <=> \E i \in DOMAIN ss : x \in ToSet(ss[i])
  <1> DEFINE In(x, rr) == \E i \in DOMAIN rr : x \in ToSet(rr[i])
             S == {n \in Nat : \A rr \in Seq(Seq(T)) :
                     Len(rr) = n => \A x : x \in ToSet(FlattenSeq(rr)) <=> In(x, rr)}
  <1>1. 0 \in S
    <2> SUFFICES ASSUME NEW rr \in Seq(Seq(T)), Len(rr) = 0
                 PROVE  \A x : x \in ToSet(FlattenSeq(rr)) <=> In(x, rr)
      OBVIOUS
    <2>1. rr = << >>
      OBVIOUS
    <2>2. ToSet(<< >>) = {} /\ \A x : ~In(x, << >>)
      BY DEF ToSet
    <2> HIDE DEF In
    <2> QED  BY <2>1, <2>2, FlattenEmpty
  <1>2. ASSUME NEW n \in Nat, n \in S
        PROVE  n + 1 \in S
    <2> SUFFICES ASSUME NEW rr \in Seq(Seq(T)), Len(rr) = n + 1
                 PROVE  \A x : x \in ToSet(FlattenSeq(rr)) <=> In(x, rr)
      OBVIOUS
    <2> DEFINE front == SubSeq(rr, 1, n)
               last == rr[n + 1]
    <2>1. /\ front \in Seq(Seq(T)) /\ Len(front) = n /\ \A i \in 1 .. n : front[i] = rr[i]
          /\ last \in Seq(T) /\ rr = Append(front, last)
      BY FrontLast
    <2> HIDE DEF front
    <2>2. FlattenSeq(rr) = FlattenSeq(front) \o last
      <3> HIDE DEF last
      <3> QED  BY <2>1, FlattenMore
    <2>3. FlattenSeq(front) \in Seq(T)
      BY <2>1, FlattenTyped
    <2>4. \A x : x \in ToSet(FlattenSeq(front)) <=> In(x, front)
      <3> HIDE DEF In
      <3> QED  BY <1>2, <2>1
    <2>5. ToSet(FlattenSeq(rr)) = ToSet(FlattenSeq(front)) \cup ToSet(last)
      <3> HIDE DEF last
      <3> QED  BY <2>1, <2>2, <2>3, ConcatSet
    <2>6. DOMAIN rr = 1 .. n + 1 /\ DOMAIN front = 1 .. n
      BY <2>1
    <2>7. ASSUME NEW x
          PROVE  In(x, rr) <=> In(x, front) \/ x \in ToSet(last)
      <3>1. \A i : i \in 1 .. n + 1 <=> i \in 1 .. n \/ i = n + 1
        OBVIOUS
      <3> QED  BY <2>1, <2>6, <3>1
    <2> HIDE DEF In
    <2> QED  BY <2>4, <2>5, <2>7
  <1>3. Len(ss) \in S
    <2>1. Len(ss) \in Nat
      OBVIOUS
    <2> HIDE DEF S
    <2> QED  BY <1>1, <1>2, <2>1, SetOfNaturals
  <1> QED  BY <1>3

LEMMA FlattenSorted ==
  ASSUME NEW T, NEW ss \in Seq(Seq(T)), NEW R, \A i \in DOMAIN ss : Sorted(ss[i], R),
         \A i, j \in DOMAIN ss : i < j =>
            \A x \in ToSet(ss[i]), y \in ToSet(ss[j]) : <<x, y>> \in R
  PROVE  Sorted(FlattenSeq(ss), R)
  <1> DEFINE P(rr) == /\ \A i \in DOMAIN rr : Sorted(rr[i], R)
                      /\ \A i, j \in DOMAIN rr : i < j =>
                            \A x \in ToSet(rr[i]), y \in ToSet(rr[j]) : <<x, y>> \in R
             S == {n \in Nat : \A rr \in Seq(Seq(T)) :
                     Len(rr) = n /\ P(rr) => Sorted(FlattenSeq(rr), R)}
  <1>1. 0 \in S
    <2> SUFFICES ASSUME NEW rr \in Seq(Seq(T)), Len(rr) = 0
                 PROVE  Sorted(FlattenSeq(rr), R)
      OBVIOUS
    <2>1. rr = << >>
      OBVIOUS
    <2>2. Sorted(<< >>, R)
      BY DEF Sorted
    <2> QED  BY <2>1, <2>2, FlattenEmpty
  <1>2. ASSUME NEW n \in Nat, n \in S
        PROVE  n + 1 \in S
    <2> SUFFICES ASSUME NEW rr \in Seq(Seq(T)), Len(rr) = n + 1, P(rr)
                 PROVE  Sorted(FlattenSeq(rr), R)
      OBVIOUS
    <2> DEFINE front == SubSeq(rr, 1, n)
               last == rr[n + 1]
    <2>1. /\ front \in Seq(Seq(T)) /\ Len(front) = n /\ \A i \in 1 .. n : front[i] = rr[i]
          /\ last \in Seq(T) /\ rr = Append(front, last)
      BY FrontLast
    <2>2. FlattenSeq(rr) = FlattenSeq(front) \o last
      <3> HIDE DEF front, last
      <3> QED  BY <2>1, FlattenMore
    <2>3. FlattenSeq(front) \in Seq(T)
      <3> HIDE DEF front, last
      <3> QED  BY <2>1, FlattenTyped
    <2>4. DOMAIN rr = 1 .. n + 1 /\ DOMAIN front = 1 .. n
      <3> HIDE DEF front, last
      <3> QED  BY <2>1
    <2>5. P(front)
      <3> HIDE DEF front, last
      <3>1. 1 .. n \subseteq 1 .. n + 1
        OBVIOUS
      <3> QED  BY <2>1, <2>4, <3>1
    <2>6. Sorted(FlattenSeq(front), R)
      <3> HIDE DEF front, last, P
      <3> QED  BY <1>2, <2>1, <2>5
    <2>7. \A x \in ToSet(FlattenSeq(front)), y \in ToSet(last) : <<x, y>> \in R
      <3> SUFFICES ASSUME NEW x \in ToSet(FlattenSeq(front)), NEW y \in ToSet(last)
                   PROVE  <<x, y>> \in R
        OBVIOUS
      <3>1. PICK i \in 1 .. n : x \in ToSet(front[i])
        <4>0. front \in Seq(Seq(T))
          BY <2>1
        <4> HIDE DEF front, last
        <4>1. \E i \in DOMAIN front : x \in ToSet(front[i])
          BY <4>0, FlattenElements
        <4> QED  BY <2>4, <4>1
      <3>2. x \in ToSet(rr[i]) /\ i \in DOMAIN rr /\ n + 1 \in DOMAIN rr /\ i < n + 1
        <4> HIDE DEF front, last
        <4> QED  BY <2>1, <2>4, <3>1
      <3> HIDE DEF front
      <3> QED  BY <3>2
    <2>8. Sorted(last, R)
      <3>1. n + 1 \in DOMAIN rr
        BY <2>4
      <3> QED  BY <3>1
    <2> HIDE DEF front, last
    <2> QED  BY <2>1, <2>2, <2>3, <2>6, <2>7, <2>8, ConcatSorted
  <1>3. Len(ss) \in S
    <2> HIDE DEF S
    <2> QED  BY <1>1, <1>2, SetOfNaturals
  <1>4. P(ss)
    OBVIOUS
  <1> HIDE DEF P
  <1> QED  BY <1>3, <1>4

LEMMA FlattenEach ==
  ASSUME NEW T, NEW U, NEW ss \in Seq(Seq(T)), NEW f \in [T -> U]
  PROVE  /\ FlattenSeq([i \in DOMAIN ss |-> Each(ss[i], f)]) = Each(FlattenSeq(ss), f)
         /\ Each(FlattenSeq(ss), f) \in Seq(U)
  <1> DEFINE All(rr) == [i \in DOMAIN rr |-> Each(rr[i], f)]
             S == {n \in Nat : \A rr \in Seq(Seq(T)) :
                     Len(rr) = n => FlattenSeq(All(rr)) = Each(FlattenSeq(rr), f)}
  <1>0. ASSUME NEW s \in Seq(T)
        PROVE  /\ Each(s, f) \in Seq(U) /\ Len(Each(s, f)) = Len(s)
               /\ \A k \in 1 .. Len(s) : Each(s, f)[k] = f[s[k]]
    BY DEF Each
  <1>1. 0 \in S
    <2> SUFFICES ASSUME NEW rr \in Seq(Seq(T)), Len(rr) = 0
                 PROVE  FlattenSeq(All(rr)) = Each(FlattenSeq(rr), f)
      OBVIOUS
    <2>1. rr = << >>
      OBVIOUS
    <2>2. Each(<< >>, f) = << >> /\ All(<< >>) = << >>
      BY DEF Each
    <2> HIDE DEF All
    <2> QED  BY <2>1, <2>2, FlattenEmpty
  <1>2. ASSUME NEW n \in Nat, n \in S
        PROVE  n + 1 \in S
    <2> SUFFICES ASSUME NEW rr \in Seq(Seq(T)), Len(rr) = n + 1
                 PROVE  FlattenSeq(All(rr)) = Each(FlattenSeq(rr), f)
      OBVIOUS
    <2> DEFINE front == SubSeq(rr, 1, n)
               last == rr[n + 1]
    <2>1. /\ front \in Seq(Seq(T)) /\ Len(front) = n /\ \A i \in 1 .. n : front[i] = rr[i]
          /\ last \in Seq(T) /\ rr = Append(front, last)
      BY FrontLast
    <2> HIDE DEF front, last
    <2>2. FlattenSeq(rr) = FlattenSeq(front) \o last
      BY <2>1, FlattenMore
    <2>3. FlattenSeq(front) \in Seq(T)
      BY <2>1, FlattenTyped
    <2>4. DOMAIN rr = 1 .. n + 1 /\ DOMAIN front = 1 .. n
      BY <2>1
    <2>5. All(front) \in Seq(Seq(U)) /\ Len(All(front)) = n
      <3>1. \A i \in 1 .. n : Each(front[i], f) \in Seq(U)
        <4>1. \A i \in 1 .. n : front[i] \in Seq(T)
          BY <2>1
        <4> QED  BY <1>0, <4>1
      <3> QED  BY <2>4, <3>1
    <2>6. All(rr) = Append(All(front), Each(last, f))
      <3> DEFINE l == All(rr)
                 r == Append(All(front), Each(last, f))
      <3>1. DOMAIN l = 1 .. n + 1 /\ DOMAIN r = 1 .. n + 1
        <4> HIDE DEF All
        <4>0. Each(last, f) \in Seq(U)
          BY <1>0, <2>1
        <4>1. Len(r) = n + 1 /\ DOMAIN r = 1 .. n + 1
          BY <2>5, <4>0
        <4>2. DOMAIN l = 1 .. n + 1
          BY <2>4 DEF All
        <4> QED  BY <4>1, <4>2
      <3>2. ASSUME NEW i \in 1 .. n + 1
            PROVE  l[i] = r[i]
        <4>1. l[i] = Each(rr[i], f)
          BY <2>4
        <4>2. CASE i = n + 1
          <5>1. rr[i] = last
            BY <4>2 DEF last
          <5>2. r[i] = Each(last, f)
            <6> HIDE DEF All
            <6> QED  BY <2>5, <4>2
          <5> QED  BY <4>1, <5>1, <5>2
        <4>3. CASE i # n + 1
          <5>1. i \in 1 .. n
            BY <4>3
          <5>2. r[i] = All(front)[i]
            <6> HIDE DEF All
            <6> QED  BY <2>5, <5>1
          <5>3. All(front)[i] = Each(front[i], f)
            BY <2>4, <5>1
          <5>4. front[i] = rr[i]
            BY <2>1, <5>1
          <5> QED  BY <4>1, <5>2, <5>3, <5>4
        <4> QED  BY <4>2, <4>3
      <3>3. l \in [1 .. n + 1 -> Seq(U)] /\ r \in [1 .. n + 1 -> Seq(U)]
        <4>1. Each(last, f) \in Seq(U)
          BY <1>0, <2>1
        <4>2. r \in Seq(Seq(U)) /\ Len(r) = n + 1
          <5> HIDE DEF All
          <5> QED  BY <2>5, <4>1
        <4>3. r \in [1 .. n + 1 -> Seq(U)]
          <5> HIDE DEF r
          <5> QED  BY <4>2
        <4>4. \A i \in 1 .. n + 1 : Each(rr[i], f) \in Seq(U)
          <5>1. \A i \in 1 .. n + 1 : rr[i] \in Seq(T)
            OBVIOUS
          <5> QED  BY <1>0, <5>1
        <4>5. l \in [1 .. n + 1 -> Seq(U)]
          BY <2>4, <4>4
        <4> QED  BY <4>3, <4>5
      <3> HIDE DEF l, r
      <3>4. l = r
        BY <3>2, <3>3
      <3> QED  BY <3>4 DEF l, r
    <2>7. FlattenSeq(All(rr)) = FlattenSeq(All(front)) \o Each(last, f)
      <3>1. Each(last, f) \in Seq(U)
        BY <1>0, <2>1
      <3> HIDE DEF All
      <3> QED  BY <2>5, <2>6, <3>1, FlattenMore
    <2>8. FlattenSeq(All(front)) = Each(FlattenSeq(front), f)
      <3> HIDE DEF All
      <3> QED  BY <1>2, <2>1
    <2>9. ASSUME NEW s \in Seq(T), NEW t \in Seq(T)
          PROVE  Each(s, f) \o Each(t, f) = Each(s \o t, f)
      <3>1. /\ s \o t \in Seq(T) /\ Len(s \o t) = Len(s) + Len(t)
            /\ \A k \in 1 .. Len(s) + Len(t) :
                  (s \o t)[k] = IF k <= Len(s) THEN s[k] ELSE t[k - Len(s)]
        OBVIOUS
      <3> DEFINE l == Each(s, f) \o Each(t, f)
                 r == Each(s \o t, f)
      <3>2. /\ r \in Seq(U) /\ Len(r) = Len(s) + Len(t)
            /\ \A k \in 1 .. Len(s) + Len(t) : r[k] = f[(s \o t)[k]]
        BY <1>0, <3>1
      <3>3. /\ l \in Seq(U) /\ Len(l) = Len(s) + Len(t)
            /\ \A k \in 1 .. Len(s) + Len(t) :
                  l[k] = IF k <= Len(s) THEN Each(s, f)[k] ELSE Each(t, f)[k - Len(s)]
        <4>1. Each(s, f) \in Seq(U) /\ Each(t, f) \in Seq(U)
              /\ Len(Each(s, f)) = Len(s) /\ Len(Each(t, f)) = Len(t)
          BY <1>0
        <4> QED  BY <4>1
      <3>4. ASSUME NEW k \in 1 .. Len(s) + Len(t)
            PROVE  l[k] = r[k]
        <4> HIDE DEF l, r
        <4>1. CASE k <= Len(s)
          <5>1. k \in 1 .. Len(s)
            BY <4>1
          <5>2. Each(s, f)[k] = f[s[k]]
            BY <1>0, <5>1
          <5> QED  BY <3>1, <3>2, <3>3, <4>1, <5>2
        <4>2. CASE k > Len(s)
          <5>1. k - Len(s) \in 1 .. Len(t) /\ ~(k <= Len(s))
            BY <4>2
          <5>2. Each(t, f)[k - Len(s)] = f[t[k - Len(s)]]
            BY <1>0, <5>1
          <5> QED  BY <3>1, <3>2, <3>3, <5>1, <5>2
        <4> QED  BY <4>1, <4>2
      <3> HIDE DEF l, r
      <3>5. l = r
        BY <3>2, <3>3, <3>4
      <3> QED  BY <3>5 DEF l, r
    <2> QED
      BY <2>1, <2>2, <2>3, <2>7, <2>8, <2>9
  <1>3. Len(ss) \in S
    <2>1. Len(ss) \in Nat
      OBVIOUS
    <2> HIDE DEF S
    <2> QED  BY <1>1, <1>2, <2>1, SetOfNaturals
  <1>4. Each(FlattenSeq(ss), f) \in Seq(U)
    BY <1>0, FlattenTyped
  <1> QED  BY <1>3, <1>4

LEMMA FlattenNothing ==
  ASSUME NEW T, NEW ss \in Seq(Seq(T)), \A i \in DOMAIN ss : ss[i] = << >>
  PROVE  FlattenSeq(ss) = << >>
  <1>1. FlattenSeq(ss) \in Seq(T)
    BY FlattenTyped
  <1>2. \A x : x \notin ToSet(FlattenSeq(ss))
    <2>1. ToSet(<< >>) = {}
      BY DEF ToSet
    <2> QED  BY <2>1, FlattenElements
  <1>3. ASSUME FlattenSeq(ss) # << >>
        PROVE  FALSE
    <2>1. 1 \in DOMAIN FlattenSeq(ss)
      BY <1>1, <1>3
    <2>2. FlattenSeq(ss)[1] \in ToSet(FlattenSeq(ss))
      BY <2>1 DEF ToSet
    <2> QED  BY <1>2, <2>2
  <1> QED  BY <1>3

LEMMA ConcatThree ==
  ASSUME NEW T, NEW s \in Seq(T), NEW t \in Seq(T), NEW u \in Seq(T)
  PROVE  (s \o t) \o u = s \o (t \o u) /\ t \o u \in Seq(T)
  OBVIOUS

LEMMA FlattenFirst ==
  ASSUME NEW T, NEW ss \in Seq(Seq(T)), ss # << >>
  PROVE  \E t \in Seq(T) : FlattenSeq(ss) = ss[1] \o t
  <1> DEFINE P(rr) == \E t \in Seq(T) : FlattenSeq(rr) = rr[1] \o t
             S == {n \in Nat : \A rr \in Seq(Seq(T)) : Len(rr) = n + 1 => P(rr)}
  <1>1. 0 \in S
    <2> SUFFICES ASSUME NEW rr \in Seq(Seq(T)), Len(rr) = 0 + 1
                 PROVE  P(rr)
      <3> HIDE DEF P
      <3> QED  OBVIOUS
    <2>1. rr = <<rr[1]>> /\ rr[1] \in Seq(T)
      <3>1. Len(rr) = 1
        OBVIOUS
      <3>2. rr[1] \in Seq(T)
        <4>1. 1 \in 1 .. Len(rr)
          BY <3>1
        <4> QED  BY <4>1, ElementOfSeq
      <3>3. <<rr[1]>> \in Seq(Seq(T)) /\ Len(<<rr[1]>>) = 1 /\ <<rr[1]>>[1] = rr[1]
        BY <3>2
      <3>4. \A i \in 1 .. Len(rr) : rr[i] = <<rr[1]>>[i]
        BY <3>1, <3>3
      <3> QED  BY <3>1, <3>2, <3>3, <3>4, SeqEqual
    <2>2. FlattenSeq(rr) = rr[1]
      BY <2>1, FlattenOne
    <2>3. rr[1] \o << >> = rr[1] /\ << >> \in Seq(T)
      BY <2>1
    <2> QED  BY <2>2, <2>3
  <1>2. ASSUME NEW n \in Nat, n \in S
        PROVE  n + 1 \in S
    <2> SUFFICES ASSUME NEW rr \in Seq(Seq(T)), Len(rr) = (n + 1) + 1
                 PROVE  P(rr)
      <3> HIDE DEF P
      <3> QED  OBVIOUS
    <2> DEFINE front == SubSeq(rr, 1, n + 1)
               last == rr[(n + 1) + 1]
    <2>1. /\ front \in Seq(Seq(T)) /\ Len(front) = n + 1
          /\ \A i \in 1 .. n + 1 : front[i] = rr[i]
          /\ last \in Seq(T) /\ rr = Append(front, last)
      BY FrontLast
    <2> HIDE DEF front, last
    <2>2. FlattenSeq(rr) = FlattenSeq(front) \o last
      BY <2>1, FlattenMore
    <2>3. PICK t \in Seq(T) : FlattenSeq(front) = front[1] \o t
      BY <1>2, <2>1
    <2>4. front[1] = rr[1] /\ rr[1] \in Seq(T)
      BY <2>1
    <2> DEFINE first == rr[1]
    <2> HIDE DEF first
    <2>5. first \in Seq(T) /\ t \in Seq(T) /\ last \in Seq(T)
      BY <2>1, <2>4 DEF first
    <2>6. (first \o t) \o last = first \o (t \o last) /\ t \o last \in Seq(T)
      BY <2>5, ConcatThree
    <2> QED  BY <2>2, <2>3, <2>4, <2>6 DEF first
  <1>3. Len(ss) - 1 \in S
    <2>1. Len(ss) - 1 \in Nat
      OBVIOUS
    <2> HIDE DEF S
    <2> QED  BY <1>1, <1>2, <2>1, SetOfNaturals
  <1>4. Len(ss) = (Len(ss) - 1) + 1
    OBVIOUS
  <1> QED  BY <1>3, <1>4

LEMMA AmongIs ==
  ASSUME NEW T, NEW s \in Seq(T), NEW S
  PROVE  /\ Among(s, S) \in Seq(T)
         /\ \A x : x \in ToSet(Among(s, S)) <=> x \in ToSet(s) /\ x \in S
         /\ \A R : Sorted(s, R) => Sorted(Among(s, S), R)
  <1> DEFINE ss == [i \in DOMAIN s |-> IF s[i] \in S THEN <<s[i]>> ELSE << >>]
  <1>1. Among(s, S) = FlattenSeq(ss)
    BY DEF Among
  <1>2. ss \in Seq(Seq(T)) /\ DOMAIN ss = DOMAIN s
    <2>1. \A i \in 1 .. Len(s) : s[i] \in T
      OBVIOUS
    <2>2. \A i \in 1 .. Len(s) : (IF s[i] \in S THEN <<s[i]>> ELSE << >>) \in Seq(T)
      BY <2>1
    <2> DEFINE n == Len(s)
    <2>3. n \in Nat /\ DOMAIN s = 1 .. n
      OBVIOUS
    <2>4. ss = [i \in 1 .. n |-> IF s[i] \in S THEN <<s[i]>> ELSE << >>]
      BY <2>3
    <2>5. ss \in [1 .. n -> Seq(T)]
      BY <2>2, <2>4
    <2> HIDE DEF ss, n
    <2>6. ss \in Seq(Seq(T))
      BY <2>3, <2>5
    <2> QED  BY <2>3, <2>5, <2>6
  <1>3. \A i \in DOMAIN s : \A x : x \in ToSet(ss[i]) <=> x = s[i] /\ x \in S
    <2>1. ToSet(<< >>) = {} /\ \A y : ToSet(<<y>>) = {y}
      BY DEF ToSet
    <2> QED  BY <2>1
  <1>4. \A i \in DOMAIN s : \A R : Sorted(ss[i], R)
    <2>1. \A R : Sorted(<< >>, R) /\ \A y : Sorted(<<y>>, R)
      BY DEF Sorted
    <2> QED  BY <2>1
  <1> HIDE DEF ss
  <1>5. \A x : x \in ToSet(Among(s, S)) <=> x \in ToSet(s) /\ x \in S
    <2>1. \A x : x \in ToSet(Among(s, S)) <=> \E i \in DOMAIN s : x \in ToSet(ss[i])
      BY <1>1, <1>2, FlattenElements
    <2>2. \A x : x \in ToSet(s) <=> \E i \in DOMAIN s : x = s[i]
      BY DEF ToSet
    <2> QED  BY <1>3, <2>1, <2>2
  <1>6. ASSUME NEW R, Sorted(s, R)
        PROVE  Sorted(Among(s, S), R)
    <2>1. \A i, j \in DOMAIN ss : i < j => \A x \in ToSet(ss[i]), y \in ToSet(ss[j]) : <<x, y>> \in R
      BY <1>2, <1>3, <1>6 DEF Sorted
    <2> QED  BY <1>1, <1>2, <1>4, <2>1, FlattenSorted
  <1> QED  BY <1>1, <1>2, <1>5, <1>6, FlattenTyped

LEMMA CountOf ==
  ASSUME NEW s \in Seq(Nat), Sorted(s, Less), NEW k \in 0 .. Len(s)
  PROVE  Cardinality({s[i] : i \in 1 .. k}) = k
  <1> DEFINE T == {s[i] : i \in 1 .. k}
             f == [i \in 1 .. k |-> s[i]]
  <1>1. IsFiniteSet(1 .. k) /\ Cardinality(1 .. k) = k
    BY FS_Interval
  <1>2. f \in Bijection(1 .. k, T)
    <2>1. \A i, j \in 1 .. k : i # j => s[i] # s[j]
      <3> SUFFICES ASSUME NEW i \in 1 .. k, NEW j \in 1 .. k, i < j
                   PROVE  s[i] # s[j]
        OBVIOUS
      <3>1. <<s[i], s[j]>> \in Less
        BY DEF Sorted
      <3> QED  BY <3>1 DEF Less
    <2> QED  BY <2>1 DEF Bijection, Injection, Surjection, IsInjective
  <1>3. ExistsBijection(1 .. k, T)
    BY <1>2 DEF ExistsBijection
  <1> QED  BY <1>1, <1>3, FS_Bijection

LEMMA InOrderIs ==
  ASSUME NEW s \in Seq(Nat), Sorted(s, Less)
  PROVE  InOrder(ToSet(s)) = s
  <1> DEFINE n == Len(s)
             S == ToSet(s)
             At(k) == CHOOSE i \in S : Cardinality({j \in S : j < i}) = k - 1
             r == [k \in 1 .. n |-> At(k)]
  <1>1. \A i, j \in 1 .. n : i < j <=> s[i] < s[j]
    <2>1. ASSUME NEW i \in 1 .. n, NEW j \in 1 .. n, i < j
          PROVE  s[i] < s[j]
      <3>1. <<s[i], s[j]>> \in Less
        BY <2>1 DEF Sorted
      <3> QED  BY <3>1 DEF Less
    <2>2. \A i \in 1 .. n : s[i] \in Nat
      OBVIOUS
    <2> QED  BY <2>1, <2>2
  <1>2. S = {s[i] : i \in 1 .. n}
    BY DEF ToSet
  <1>3. Cardinality(S) = n
    BY <1>2, CountOf
  <1>3a. InOrder(S) = r
    BY <1>3 DEF InOrder
  <1>4. ASSUME NEW k \in 1 .. n
        PROVE  Cardinality({j \in S : j < s[k]}) = k - 1
    <2>1. {j \in S : j < s[k]} = {s[i] : i \in 1 .. k - 1}
      <3>1. \A i \in 1 .. n : i < k <=> i \in 1 .. k - 1
        OBVIOUS
      <3>2. 1 .. k - 1 \subseteq 1 .. n
        OBVIOUS
      <3> HIDE DEF n, S
      <3>3. ASSUME NEW i \in 1 .. k - 1
            PROVE  s[i] \in S /\ s[i] < s[k]
        BY <1>1, <1>2, <3>1, <3>2
      <3>4. ASSUME NEW j \in S, j < s[k]
            PROVE  \E i \in 1 .. k - 1 : j = s[i]
        <4>1. PICK i \in 1 .. n : j = s[i]
          BY <1>2
        <4> QED  BY <1>1, <3>1, <3>4, <4>1
      <3> QED  BY <3>3, <3>4
    <2>2. k - 1 \in 0 .. Len(s)
      OBVIOUS
    <2> QED  BY <2>1, <2>2, CountOf
  <1>5. ASSUME NEW k \in 1 .. n
        PROVE  At(k) = s[k]
    <2> DEFINE Is(i) == Cardinality({j \in S : j < i}) = k - 1
    <2>1. At(k) = CHOOSE i \in S : Is(i)
      OBVIOUS
    <2>2. s[k] \in S /\ Is(s[k])
      BY <1>2, <1>4
    <2>3. ASSUME NEW i \in S, Is(i)
          PROVE  i = s[k]
      <3>1. PICK m \in 1 .. n : i = s[m]
        BY <1>2
      <3>2. m - 1 = k - 1
        BY <1>4, <2>3, <3>1
      <3> QED  BY <3>1, <3>2
    <2> HIDE DEF Is, At, S
    <2> QED  BY <2>1, <2>2, <2>3
  <1>6. s = [k \in 1 .. n |-> s[k]]
    OBVIOUS
  <1>7. r = [k \in 1 .. n |-> s[k]]
    <2> HIDE DEF At, n
    <2> QED  BY <1>5
  <1> HIDE DEF n, r, S
  <1> QED  BY <1>6, <1>7, <1>3a DEF S

\* A set of numbers is listed in order by one sequence only.
LEMMA SortedOnce ==
  ASSUME NEW s \in Seq(Nat), NEW t \in Seq(Nat), Sorted(s, Less), Sorted(t, Less),
         \A x : x \in ToSet(s) <=> x \in ToSet(t)
  PROVE  s = t
  <1>1. ToSet(s) = ToSet(t)
    OBVIOUS
  <1> QED  BY <1>1, InOrderIs

-----------------------------------------------------------------------------
(* Documents: the levels of their lines.                                   *)

LEMMA LineIs ==
  ASSUME NEW line \in AnyLine
  PROVE  /\ line.kind \in {"text", "secret", "card", "close"}
         /\ line = Close <=> line.kind = "close"
         /\ line = Secret <=> line.kind = "secret"
         /\ \A f : line = Card(f) <=> line.kind = "card" /\ line.facet = f
         /\ Opens(line) <=> line.kind \in {"secret", "card"}
         /\ line.kind # "text" => line.to = NoLink
         /\ line.kind = "card" => line.facet \in CardFacets
         /\ line.kind # "card" => line.facet = NoFacet
         /\ line.to \in Names \cup {NoLink}
  <1>1. CASE \E to \in Names \cup {NoLink} : line = Text(to)
    BY <1>1 DEF Text, Close, Secret, Card, Opens
  <1>2. CASE \E f \in CardFacets : line = Card(f)
    BY <1>2 DEF Text, Close, Secret, Card, Opens
  <1>3. CASE line \in {Secret, Close}
    BY <1>3 DEF Text, Close, Secret, Card, Opens
  <1> QED  BY <1>1, <1>2, <1>3 DEF AnyLine

LEMMA LevelTyped ==
  ASSUME NEW doc \in Seq(AnyLine), NEW i \in 1 .. Len(doc) + 1
  PROVE  Level(doc, i) \in Int /\ Level(doc, 1) = 0
  <1>1. IsFiniteSet(1 .. i - 1) /\ IsFiniteSet(1 .. 1 - 1)
    BY FS_Interval
  <1>2. /\ Cardinality({k \in 1 .. i - 1 : Opens(doc[k])}) \in Nat
        /\ Cardinality({k \in 1 .. i - 1 : doc[k] = Close}) \in Nat
    BY <1>1, FS_Subset, FS_CardinalityType
  <1>3. /\ {k \in 1 .. 1 - 1 : Opens(doc[k])} = {}
        /\ {k \in 1 .. 1 - 1 : doc[k] = Close} = {}
    OBVIOUS
  <1> QED  BY <1>2, <1>3, FS_EmptySet DEF Level

LEMMA LevelStep ==
  ASSUME NEW doc \in Seq(AnyLine), NEW i \in 1 .. Len(doc)
  PROVE  Level(doc, i + 1) =
           Level(doc, i) + (IF Opens(doc[i]) THEN 1 ELSE IF doc[i].kind = "close" THEN -1 ELSE 0)
  <1> DEFINE up(n) == {k \in 1 .. n : Opens(doc[k])}
             down(n) == {k \in 1 .. n : doc[k] = Close}
  <1>1. IsFiniteSet(1 .. i - 1)
    BY FS_Interval
  <1>2. IsFiniteSet(up(i - 1)) /\ IsFiniteSet(down(i - 1))
    BY <1>1, FS_Subset
  <1>3. Cardinality(up(i - 1)) \in Nat /\ Cardinality(down(i - 1)) \in Nat
    <2> HIDE DEF up, down
    <2> QED  BY <1>2, FS_CardinalityType
  <1>4. i \notin up(i - 1) /\ i \notin down(i - 1)
    OBVIOUS
  <1>5. \A k : k \in 1 .. i <=> k \in 1 .. i - 1 \/ k = i
    OBVIOUS
  <1>6. up(i) = IF Opens(doc[i]) THEN up(i - 1) \cup {i} ELSE up(i - 1)
    BY <1>5
  <1>7. down(i) = IF doc[i] = Close THEN down(i - 1) \cup {i} ELSE down(i - 1)
    BY <1>5
  <1>8. Cardinality(up(i)) = IF Opens(doc[i]) THEN Cardinality(up(i - 1)) + 1
                                              ELSE Cardinality(up(i - 1))
    <2> HIDE DEF up
    <2> QED  BY <1>2, <1>4, <1>6, FS_AddElement
  <1>9. Cardinality(down(i)) = IF doc[i] = Close THEN Cardinality(down(i - 1)) + 1
                                                 ELSE Cardinality(down(i - 1))
    <2> HIDE DEF down
    <2> QED  BY <1>2, <1>4, <1>7, FS_AddElement
  <1>10. /\ Level(doc, i) = Cardinality(up(i - 1)) - Cardinality(down(i - 1))
         /\ Level(doc, i + 1) = Cardinality(up(i)) - Cardinality(down(i))
    <2>1. (i + 1) - 1 = i
      OBVIOUS
    <2> QED  BY <2>1 DEF Level
  <1>11. /\ doc[i] = Close <=> doc[i].kind = "close"
         /\ Opens(doc[i]) => doc[i].kind # "close"
    <2>1. doc[i] \in AnyLine
      OBVIOUS
    <2> QED  BY <2>1, LineIs
  <1> HIDE DEF up, down
  <1> QED  BY <1>3, <1>8, <1>9, <1>10, <1>11

\* Through text the level stays.
LEMMA LevelOfText ==
  ASSUME NEW doc \in Seq(AnyLine), NEW a \in 1 .. Len(doc), NEW b \in a .. Len(doc),
         \A k \in a .. b : doc[k].kind = "text"
  PROVE  \A k \in a .. b + 1 : Level(doc, k) = Level(doc, a)
  <1> SUFFICES ASSUME NEW k \in a .. b + 1
               PROVE  Level(doc, k) = Level(doc, a)
    OBVIOUS
  <1>1. \A m \in a .. k - 1 : ~Opens(doc[m]) /\ doc[m] # Close
    <2>1. \A m \in a .. k - 1 : m \in a .. b /\ doc[m] \in AnyLine
      OBVIOUS
    <2> QED  BY <2>1, LineIs
  <1>2. \A m : m \in 1 .. k - 1 <=> m \in 1 .. a - 1 \/ m \in a .. k - 1
    OBVIOUS
  <1>3. {m \in 1 .. k - 1 : Opens(doc[m])} = {m \in 1 .. a - 1 : Opens(doc[m])}
    BY <1>1, <1>2
  <1>4. {m \in 1 .. k - 1 : doc[m] = Close} = {m \in 1 .. a - 1 : doc[m] = Close}
    BY <1>1, <1>2
  <1> QED  BY <1>3, <1>4 DEF Level

\* Where the level has risen above c, a fence at level c was opened and is still open.
LEMMA OpenBefore ==
  ASSUME NEW doc \in Seq(AnyLine), NEW i \in 1 .. Len(doc) + 1, NEW a \in 1 .. i,
         NEW c \in Int, Level(doc, a) <= c, c < Level(doc, i)
  PROVE  \E k \in a .. i - 1 : /\ Opens(doc[k]) /\ Level(doc, k) = c
                               /\ \A m \in k + 1 .. i : c < Level(doc, m)
  <1> DEFINE S == {m \in a .. i : Level(doc, m) <= c}
             k == Greatest(S)
  <1>1. S \subseteq 0 .. i /\ S # {} /\ i \in Nat
    OBVIOUS
  <1>2. k \in S /\ \A m \in S : k >= m
    <2> HIDE DEF S
    <2> QED  BY <1>1, GreatestOf
  <1> HIDE DEF k
  <1>3. \A m \in 1 .. Len(doc) + 1 : Level(doc, m) \in Int
    BY LevelTyped
  <1>4. k \in a .. i - 1 /\ k \in 1 .. Len(doc) /\ k + 1 \in a .. i
    <2>1. k # i
      BY <1>2, <1>3
    <2> QED  BY <1>2, <2>1
  <1>5. \A m \in k + 1 .. i : c < Level(doc, m)
    <2> SUFFICES ASSUME NEW m \in k + 1 .. i
                 PROVE  c < Level(doc, m)
      OBVIOUS
    <2>1. m \in a .. i /\ m \in 1 .. Len(doc) + 1 /\ ~(k >= m)
      BY <1>4
    <2>2. m \notin S
      BY <1>2, <2>1
    <2> QED  BY <1>3, <2>1, <2>2
  <1>6. Opens(doc[k]) /\ Level(doc, k) = c
    <2>1. Level(doc, k + 1) > c
      BY <1>4, <1>5
    <2>2. Level(doc, k) <= c
      BY <1>2
    <2>3. Level(doc, k) \in Int /\ Level(doc, k + 1) \in Int
      BY <1>3, <1>4
    <2>4. Level(doc, k + 1) =
           Level(doc, k) + (IF Opens(doc[k]) THEN 1 ELSE IF doc[k].kind = "close" THEN -1 ELSE 0)
      BY <1>4, LevelStep
    <2> QED  BY <2>1, <2>2, <2>3, <2>4
  <1> QED  BY <1>4, <1>5, <1>6

LEMMA ProseEndIs ==
  ASSUME NEW doc \in Seq(AnyLine), NEW i \in 1 .. Len(doc), doc[i].kind = "text"
  PROVE  /\ ProseEnd(doc, i) \in i .. Len(doc)
         /\ \A k \in i .. ProseEnd(doc, i) : doc[k].kind = "text"
         /\ ProseEnd(doc, i) = Len(doc) \/ doc[ProseEnd(doc, i) + 1].kind # "text"
  <1> DEFINE S == {j \in i .. Len(doc) : \A k \in i .. j : doc[k].kind = "text"}
             p == Greatest(S)
  <1>1. S \subseteq 0 .. Len(doc) /\ S # {} /\ Len(doc) \in Nat
    <2>1. i \in S
      OBVIOUS
    <2> QED  BY <2>1
  <1>2. p \in S /\ \A m \in S : p >= m
    <2> HIDE DEF S
    <2> QED  BY <1>1, GreatestOf
  <1> HIDE DEF p
  <1>3. p = Len(doc) \/ doc[p + 1].kind # "text"
    <2> SUFFICES ASSUME p # Len(doc), doc[p + 1].kind = "text"
                 PROVE  FALSE
      OBVIOUS
    <2>1. p + 1 \in i .. Len(doc)
      BY <1>2
    <2>2. \A k \in i .. p + 1 : k \in i .. p \/ k = p + 1
      BY <1>2
    <2>3. p + 1 \in S
      BY <1>2, <2>1, <2>2
    <2>4. p >= p + 1
      BY <1>2, <2>3
    <2> QED  BY <2>1, <2>4, <1>2
  <1> QED  BY <1>2, <1>3 DEF ProseEnd

-----------------------------------------------------------------------------
(* What parseBlocks returns, by the levels of the lines.                   *)

\* The lines from i on after which the level is below that at i: the first ends the block
\* that line i is in.
Falls(doc, i) == {k \in i .. Len(doc) : Level(doc, k + 1) < Level(doc, i)}

\* The fences from line i on that are never closed.
LeftOpen(doc, i) ==
    {j \in i .. Len(doc) : Opens(doc[j]) /\ \A k \in j + 1 .. Len(doc) + 1 : Level(doc, j) < Level(doc, k)}

\* Where a block begins, for who reads from line i.
Begins(doc, i, k) ==
    Opens(doc[k]) \/ (doc[k].kind = "text" /\ (k = i \/ doc[k - 1].kind # "text"))

Starts(doc, i, e) == {k \in i .. e - 1 : Level(doc, k) = Level(doc, i) /\ Begins(doc, i, k)}

\* A sequence has the elements of a set in order.
Lists(s, S) == s \in Seq(Nat) /\ Sorted(s, Less) /\ \A x : x \in ToSet(s) <=> x \in S

ParseIs(doc, i, open, r) ==
    /\ r = [blocks |-> r.blocks, next |-> r.next, bad |-> r.bad]
    /\ r.bad # 0 => r.blocks = << >>
    /\ IF Falls(doc, i) # {}
       THEN IF open = 0 THEN r.bad = Least(Falls(doc, i))
            ELSE /\ r.bad = 0 /\ r.next = Least(Falls(doc, i)) + 1
                 /\ Lists(r.blocks, Starts(doc, i, Least(Falls(doc, i))))
       ELSE IF LeftOpen(doc, i) # {} THEN r.bad = Greatest(LeftOpen(doc, i))
       ELSE IF open # 0 THEN r.bad = open
       ELSE /\ r.bad = 0 /\ r.next = Len(doc) + 1
            /\ Lists(r.blocks, Starts(doc, i, Len(doc) + 1))

LEMMA ListsFirst ==
  ASSUME NEW i \in Nat, NEW s, NEW S, Lists(s, S), \A x \in S : i < x
  PROVE  Lists(<<i>> \o s, {i} \cup S)
  <1>1. <<i>> \in Seq(Nat) /\ s \in Seq(Nat)
    BY DEF Lists
  <1>2. Sorted(<<i>>, Less)
    BY DEF Sorted
  <1>3. ToSet(<<i>>) = {i}
    BY DEF ToSet
  <1>4. \A x \in ToSet(<<i>>), y \in ToSet(s) : <<x, y>> \in Less
    <2> SUFFICES ASSUME NEW y \in ToSet(s) PROVE <<i, y>> \in Less
      BY <1>3
    <2>1. y \in Nat
      BY <1>1 DEF ToSet
    <2>2. i < y
      BY DEF Lists
    <2> QED  BY <2>1, <2>2 DEF Less
  <1>5. Sorted(<<i>> \o s, Less)
    <2>1. Sorted(s, Less)
      BY DEF Lists
    <2> QED  BY <1>1, <1>2, <1>4, <2>1, ConcatSorted
  <1>6. ToSet(<<i>> \o s) = ToSet(<<i>>) \cup ToSet(s)
    <2>1. \A a, b \in Seq(Nat) : ToSet(a \o b) = ToSet(a) \cup ToSet(b)
      BY ConcatSet
    <2> QED  BY <1>1, <2>1
  <1>7. <<i>> \o s \in Seq(Nat)
    BY <1>1
  <1> QED  BY <1>3, <1>5, <1>6, <1>7 DEF Lists

LEMMA ListsNothing == Lists(<< >>, {})
  BY DEF Lists, Sorted, ToSet

LEMMA ListsSame ==
  ASSUME NEW s, NEW S, NEW T, Lists(s, S), \A x : x \in S <=> x \in T
  PROVE  Lists(s, T)
  BY DEF Lists

\* The step from the results of a later line to those of an earlier one, when what lies
\* between is all of one block of the level of i.
LEMMA ParseBefore ==
  ASSUME NEW doc \in Seq(AnyLine), NEW i \in 1 .. Len(doc), NEW m \in i + 1 .. Len(doc) + 1,
         NEW open \in 0 .. Len(doc), NEW rest, ParseIs(doc, m, open, rest),
         Level(doc, m) = Level(doc, i),
         \A k \in i .. m : Level(doc, i) <= Level(doc, k),
         Begins(doc, i, i),
         \A k \in i + 1 .. m - 1 : ~(Level(doc, k) = Level(doc, i) /\ Begins(doc, i, k)),
         m <= Len(doc) => Begins(doc, i, m) = Begins(doc, m, m),
         \A j \in i .. m - 1 : j \notin LeftOpen(doc, i)
  PROVE  ParseIs(doc, i, open, IF rest.bad # 0 THEN rest ELSE Parsed(<<i>> \o rest.blocks, rest.next))
  <1> DEFINE r == IF rest.bad # 0 THEN rest ELSE Parsed(<<i>> \o rest.blocks, rest.next)
  <1> SUFFICES ParseIs(doc, i, open, r)
    OBVIOUS
  <1>0. \A k \in 1 .. Len(doc) + 1 : Level(doc, k) \in Int
    BY LevelTyped
  <1>1. Falls(doc, i) = Falls(doc, m)
    <2>1. ASSUME NEW k \in i .. m - 1
          PROVE  ~(Level(doc, k + 1) < Level(doc, i))
      <3>1. k + 1 \in i .. m /\ k + 1 \in 1 .. Len(doc) + 1
        OBVIOUS
      <3>2. Level(doc, i) <= Level(doc, k + 1) /\ Level(doc, i) \in Int /\ Level(doc, k + 1) \in Int
        BY <1>0, <3>1
      <3> QED  BY <3>2
    <2>2. \A k : k \in i .. Len(doc) <=> k \in i .. m - 1 \/ k \in m .. Len(doc)
      OBVIOUS
    <2> QED  BY <2>1, <2>2 DEF Falls
  <1>2. LeftOpen(doc, i) = LeftOpen(doc, m)
    <2>1. \A k : k \in i .. Len(doc) <=> k \in i .. m - 1 \/ k \in m .. Len(doc)
      OBVIOUS
    <2> QED  BY <2>1 DEF LeftOpen
  <1>3. ASSUME NEW e \in m .. Len(doc) + 1
        PROVE  Starts(doc, i, e) = {i} \cup Starts(doc, m, e)
    <2>1. \A k : k \in i .. e - 1 <=> k = i \/ k \in i + 1 .. m - 1 \/ k \in m .. e - 1
      OBVIOUS
    <2>2. ASSUME NEW k \in m .. e - 1
          PROVE  Begins(doc, i, k) = Begins(doc, m, k)
      <3>1. CASE k = m
        BY <3>1
      <3>2. CASE k # m
        <4>1. k # i /\ k # m
          BY <3>2
        <4> QED  BY <4>1 DEF Begins
      <3> QED  BY <3>1, <3>2
    <2> QED  BY <2>1, <2>2 DEF Starts
  <1>4. ASSUME NEW e \in m .. Len(doc) + 1, Lists(rest.blocks, Starts(doc, m, e))
        PROVE  Lists(<<i>> \o rest.blocks, Starts(doc, i, e))
    <2>1. \A x \in Starts(doc, m, e) : i < x
      BY DEF Starts
    <2>2. i \in Nat
      OBVIOUS
    <2>3. Lists(<<i>> \o rest.blocks, {i} \cup Starts(doc, m, e))
      BY <1>4, <2>1, <2>2, ListsFirst
    <2> QED  BY <1>3, <2>3
  <1>5. CASE rest.bad # 0
    <2>1. r = rest
      BY <1>5
    <2>2. ParseIs(doc, i, open, rest)
      BY <1>1, <1>2, <1>5 DEF ParseIs
    <2> QED  BY <2>1, <2>2
  <1>6. CASE rest.bad = 0
    <2>1. r = [blocks |-> <<i>> \o rest.blocks, next |-> rest.next, bad |-> 0]
      BY <1>6 DEF Parsed
    <2> HIDE DEF r
    <2>2. CASE Falls(doc, i) # {}
      <3> DEFINE e == Least(Falls(doc, m))
      <3>1. e \in m .. Len(doc)
        <4>1. Falls(doc, m) \subseteq Nat /\ Falls(doc, m) \subseteq m .. Len(doc)
          BY DEF Falls
        <4> QED  BY <1>1, <2>2, <4>1, LeastOf
      <3>2. open # 0 /\ rest.next = e + 1 /\ Lists(rest.blocks, Starts(doc, m, e))
        <4>1. open # 0
          BY <1>1, <1>6, <2>2, <3>1 DEF ParseIs
        <4> QED  BY <4>1, <1>1, <2>2 DEF ParseIs
      <3>3. e \in m .. Len(doc) + 1
        BY <3>1
      <3> HIDE DEF e
      <3>4. Lists(<<i>> \o rest.blocks, Starts(doc, i, e))
        BY <1>4, <3>2, <3>3
      <3> QED  BY <1>1, <2>1, <2>2, <3>2, <3>4 DEF ParseIs, e
    <2>3. CASE Falls(doc, i) = {}
      <3>1. LeftOpen(doc, m) = {} 
        <4> SUFFICES ASSUME LeftOpen(doc, m) # {} PROVE FALSE
          OBVIOUS
        <4>1. LeftOpen(doc, m) \subseteq 0 .. Len(doc) /\ Len(doc) \in Nat /\ 0 \notin LeftOpen(doc, m)
          BY DEF LeftOpen
        <4>2. Greatest(LeftOpen(doc, m)) \in LeftOpen(doc, m)
          BY <4>1, GreatestOf
        <4>3. rest.bad = Greatest(LeftOpen(doc, m))
          BY <1>1, <2>3 DEF ParseIs
        <4> QED  BY <1>6, <4>1, <4>2, <4>3
      <3>2. open = 0 /\ rest.next = Len(doc) + 1 /\ Lists(rest.blocks, Starts(doc, m, Len(doc) + 1))
        BY <1>1, <1>6, <2>3, <3>1 DEF ParseIs
      <3>3. Len(doc) + 1 \in m .. Len(doc) + 1
        OBVIOUS
      <3>4. Lists(<<i>> \o rest.blocks, Starts(doc, i, Len(doc) + 1))
        BY <1>4, <3>2, <3>3
      <3> QED  BY <1>1, <1>2, <2>1, <2>3, <3>1, <3>2, <3>4 DEF ParseIs
    <2> QED  BY <2>2, <2>3
  <1>7. rest.bad = 0 \/ rest.bad # 0
    OBVIOUS
  <1> QED  BY <1>5, <1>6

LEMMA ParseBlocksIs ==
  ASSUME NEW doc \in Seq(AnyLine), NEW parse, NEW i \in 1 .. Len(doc) + 1, NEW open \in 0 .. Len(doc),
         \A j \in i + 1 .. Len(doc) + 1, o \in 0 .. Len(doc) : ParseIs(doc, j, o, parse[j][o])
  PROVE  ParseIs(doc, i, open, ParseBlocks(doc, parse, i, open))
  <1> DEFINE r == ParseBlocks(doc, parse, i, open)
  <1> SUFFICES ParseIs(doc, i, open, r)
    OBVIOUS
  <1>0. \A k \in 1 .. Len(doc) + 1 : Level(doc, k) \in Int
    BY LevelTyped
  <1>1. CASE i = Len(doc) + 1
    <2>1. i > Len(doc)
      BY <1>1
    <2>2. r = IF open # 0 THEN Malformed(open) ELSE Parsed(<< >>, i)
      BY <2>1 DEF ParseBlocks
    <2>3. Falls(doc, i) = {} /\ LeftOpen(doc, i) = {} /\ Starts(doc, i, Len(doc) + 1) = {}
      BY <1>1 DEF Falls, LeftOpen, Starts
    <2> HIDE DEF r
    <2>4. CASE open # 0
      BY <2>2, <2>3, <2>4 DEF ParseIs, Malformed
    <2>5. CASE open = 0
      <3>1. r = [blocks |-> << >>, next |-> i, bad |-> 0]
        BY <2>2, <2>5 DEF Parsed
      <3>2. /\ r.blocks = << >> /\ r.next = Len(doc) + 1 /\ r.bad = 0
            /\ r = [blocks |-> r.blocks, next |-> r.next, bad |-> r.bad]
        BY <1>1, <3>1
      <3>3. Lists(r.blocks, Starts(doc, i, Len(doc) + 1))
        BY <2>3, <3>2, ListsNothing
      <3> QED  BY <2>3, <2>5, <3>2, <3>3 DEF ParseIs
    <2> QED  BY <2>4, <2>5
  <1>2. CASE i \in 1 .. Len(doc)
    <2>0. ~(i > Len(doc)) /\ doc[i] \in AnyLine
      BY <1>2
    <2>1. CASE doc[i].kind = "close"
      <3>1. r = IF open = 0 THEN Malformed(i) ELSE Parsed(<< >>, i + 1)
        BY <2>0, <2>1 DEF ParseBlocks
      <3>2. Level(doc, i + 1) = Level(doc, i) - 1
        <4>1. ~Opens(doc[i])
          BY <2>0, <2>1, LineIs
        <4>2. Level(doc, i) \in Int
          BY <1>0
        <4> QED  BY <1>2, <2>1, <4>1, <4>2, LevelStep
      <3>3. i \in Falls(doc, i)
        <4>1. Level(doc, i) \in Int
          BY <1>0
        <4>2. Level(doc, i + 1) < Level(doc, i)
          BY <3>2, <4>1
        <4> QED  BY <1>2, <4>2 DEF Falls
      <3>4. Least(Falls(doc, i)) = i
        <4>1. Falls(doc, i) \subseteq Nat /\ \A k \in Falls(doc, i) : i <= k
          BY <1>2 DEF Falls
        <4> QED  BY <3>3, <4>1, LeastIs
      <3>5. Starts(doc, i, i) = {}
        BY <1>2 DEF Starts
      <3> HIDE DEF r
      <3>6. CASE open # 0
        BY <3>1, <3>3, <3>4, <3>5, <3>6, ListsNothing DEF ParseIs, Parsed
      <3>7. CASE open = 0
        BY <3>1, <3>3, <3>4, <3>7 DEF ParseIs, Malformed
      <3> QED  BY <3>6, <3>7
    <2>2. CASE doc[i].kind = "text"
      <3> DEFINE p == ProseEnd(doc, i)
                 m == p + 1
                 rest == parse[m][open]
      <3>1. /\ p \in i .. Len(doc) /\ \A k \in i .. p : doc[k].kind = "text"
            /\ p = Len(doc) \/ doc[p + 1].kind # "text"
        BY <1>2, <2>2, ProseEndIs
      <3>2. r = IF rest.bad # 0 THEN rest ELSE Parsed(<<i>> \o rest.blocks, rest.next)
        BY <2>0, <2>2 DEF ParseBlocks
      <3> HIDE DEF p, r
      <3>3. m \in i + 1 .. Len(doc) + 1
        BY <3>1
      <3>4. ParseIs(doc, m, open, rest)
        BY <3>3
      <3>5. \A k \in i .. p + 1 : Level(doc, k) = Level(doc, i)
        BY <1>2, <3>1, LevelOfText
      <3>6. Level(doc, m) = Level(doc, i) /\ \A k \in i .. m : Level(doc, i) <= Level(doc, k)
        <4>1. m \in i .. p + 1 /\ Level(doc, i) \in Int
          BY <1>0, <3>1
        <4> QED  BY <3>5, <4>1
      <3>7. Begins(doc, i, i)
        BY <2>2 DEF Begins
      <3>8. ASSUME NEW k \in i + 1 .. m - 1
            PROVE  ~(Level(doc, k) = Level(doc, i) /\ Begins(doc, i, k))
        <4>1. k \in i .. p /\ k - 1 \in i .. p /\ k # i
          BY <3>1
        <4>2. doc[k].kind = "text" /\ doc[k - 1].kind = "text" /\ doc[k] \in AnyLine
          BY <3>1, <4>1
        <4>3. ~Opens(doc[k])
          BY <4>2, LineIs
        <4> QED  BY <4>1, <4>2, <4>3 DEF Begins
      <3>9. m <= Len(doc) => Begins(doc, i, m) = Begins(doc, m, m)
        <4> SUFFICES ASSUME m <= Len(doc) PROVE Begins(doc, i, m) = Begins(doc, m, m)
          OBVIOUS
        <4>1. doc[m].kind # "text"
          BY <3>1
        <4> QED  BY <4>1 DEF Begins
      <3>10. \A j \in i .. m - 1 : j \notin LeftOpen(doc, i)
        <4> SUFFICES ASSUME NEW j \in i .. m - 1 PROVE ~Opens(doc[j])
          BY DEF LeftOpen
        <4>1. doc[j].kind = "text" /\ doc[j] \in AnyLine
          BY <3>1
        <4> QED  BY <4>1, LineIs
      <3> HIDE DEF m, rest
      <3> QED  BY <1>2, <3>2, <3>3, <3>4, <3>6, <3>7, <3>8, <3>9, <3>10, ParseBefore DEF r
    <2>3. CASE doc[i].kind \notin {"close", "text"}
      <3> DEFINE nested == parse[i + 1][i]
      <3>1. r = IF nested.bad # 0 THEN nested
                ELSE LET rest == parse[nested.next][open]
                     IN IF rest.bad # 0 THEN rest ELSE Parsed(<<i>> \o rest.blocks, rest.next)
        BY <2>0, <2>3 DEF ParseBlocks
      <3>2. Opens(doc[i])
        BY <2>0, <2>3, LineIs
      <3>3. i + 1 \in 1 .. Len(doc) + 1 /\ i + 1 \in i + 1 .. Len(doc) + 1 /\ i \in 0 .. Len(doc) /\ i # 0
        BY <1>2
      <3>4. Level(doc, i + 1) = Level(doc, i) + 1
        BY <1>2, <3>2, LevelStep
      <3>5. ParseIs(doc, i + 1, i, nested)
        BY <3>3
      <3>6. Level(doc, i) \in Int
        BY <1>0
      <3> HIDE DEF r, nested
      <3>7. CASE Falls(doc, i + 1) # {}
        <4> DEFINE e == Least(Falls(doc, i + 1))
                   m == e + 1
                   rest == parse[m][open]
        <4>1. e \in Falls(doc, i + 1) /\ \A k \in Falls(doc, i + 1) : e <= k
          <5>1. Falls(doc, i + 1) \subseteq Nat
            BY <1>2 DEF Falls
          <5> QED  BY <3>7, <5>1, LeastOf
        <4>2. nested.bad = 0 /\ nested.next = m
          BY <3>3, <3>5, <3>7 DEF ParseIs
        <4> HIDE DEF e
        <4>3. e \in i + 1 .. Len(doc) /\ Level(doc, m) < Level(doc, i + 1)
          BY <4>1 DEF Falls
        <4>4. r = IF rest.bad # 0 THEN rest ELSE Parsed(<<i>> \o rest.blocks, rest.next)
          BY <3>1, <4>2
        <4>5. m \in i + 1 .. Len(doc) + 1
          BY <4>3
        <4>6. ParseIs(doc, m, open, rest)
          BY <4>5
        <4>7. \A k \in i + 1 .. e : Level(doc, i) < Level(doc, k)
          <5> SUFFICES ASSUME NEW k \in i + 1 .. e PROVE Level(doc, i) < Level(doc, k)
            OBVIOUS
          <5>1. CASE k = i + 1
            BY <3>4, <3>6, <5>1
          <5>2. CASE k # i + 1
            <6>1. k - 1 \in i + 1 .. Len(doc) /\ ~(e <= k - 1) /\ (k - 1) + 1 = k
              BY <4>3, <5>2
            <6>2. k - 1 \notin Falls(doc, i + 1)
              BY <4>1, <6>1
            <6>3. ~(Level(doc, k) < Level(doc, i + 1))
              BY <6>1, <6>2 DEF Falls
            <6>4. Level(doc, k) \in Int
              BY <1>0, <4>3
            <6> QED  BY <3>4, <3>6, <6>3, <6>4
          <5> QED  BY <5>1, <5>2
        <4>8. Level(doc, m) = Level(doc, i) /\ doc[e].kind = "close"
          <5>1. e \in i + 1 .. e /\ e \in 1 .. Len(doc) /\ e \in 1 .. Len(doc) + 1 /\ m \in 1 .. Len(doc) + 1
            BY <4>3
          <5>2. Level(doc, i) < Level(doc, e)
            BY <4>7, <5>1
          <5>3. Level(doc, e) \in Int /\ Level(doc, m) \in Int
            BY <1>0, <5>1
          <5>4. Level(doc, m) = Level(doc, e) + (IF Opens(doc[e]) THEN 1 ELSE IF doc[e].kind = "close" THEN -1 ELSE 0)
            BY <5>1, LevelStep
          <5> QED  BY <3>4, <3>6, <4>3, <5>2, <5>3, <5>4
        <4>9. \A k \in i .. m : Level(doc, i) <= Level(doc, k)
          <5> SUFFICES ASSUME NEW k \in i .. m PROVE Level(doc, i) <= Level(doc, k)
            OBVIOUS
          <5>1. k = i \/ k = m \/ k \in i + 1 .. e
            BY <4>3
          <5>2. Level(doc, k) \in Int
            BY <1>0, <4>3
          <5> QED  BY <3>6, <4>7, <4>8, <5>1, <5>2
        <4>10. Begins(doc, i, i)
          BY <3>2 DEF Begins
        <4>11. \A k \in i + 1 .. m - 1 : ~(Level(doc, k) = Level(doc, i) /\ Begins(doc, i, k))
          <5> SUFFICES ASSUME NEW k \in i + 1 .. m - 1 PROVE Level(doc, k) # Level(doc, i)
            OBVIOUS
          <5>1. k \in i + 1 .. e /\ k \in 1 .. Len(doc) + 1
            BY <4>3
          <5>2. Level(doc, k) \in Int
            BY <1>0, <5>1
          <5> QED  BY <3>6, <4>7, <5>1, <5>2
        <4>12. m <= Len(doc) => Begins(doc, i, m) = Begins(doc, m, m)
          <5>1. m # i /\ m - 1 = e
            BY <4>3
          <5> QED  BY <4>8, <5>1 DEF Begins
        <4>13. ASSUME NEW j \in i .. m - 1
               PROVE  j \notin LeftOpen(doc, i)
          <5>1. m \in j + 1 .. Len(doc) + 1 /\ j \in i .. m /\ j \in 1 .. Len(doc) + 1
            BY <4>3
          <5>2. ~(Level(doc, j) < Level(doc, m))
            <6>1. Level(doc, j) \in Int
              BY <1>0, <5>1
            <6> QED  BY <3>6, <4>8, <4>9, <5>1, <6>1
          <5> QED  BY <5>1, <5>2 DEF LeftOpen
        <4> HIDE DEF m, rest
        <4> QED  BY <1>2, <4>4, <4>5, <4>6, <4>8, <4>9, <4>10, <4>11, <4>12, <4>13, ParseBefore DEF r
      <3>8. CASE Falls(doc, i + 1) = {}
        <4>1. \A k \in i + 1 .. Len(doc) + 1 : Level(doc, i) < Level(doc, k)
          <5> SUFFICES ASSUME NEW k \in i + 1 .. Len(doc) + 1 PROVE Level(doc, i) < Level(doc, k)
            OBVIOUS
          <5>1. CASE k = i + 1
            BY <3>4, <3>6, <5>1
          <5>2. CASE k # i + 1
            <6>1. k - 1 \in i + 1 .. Len(doc) /\ (k - 1) + 1 = k
              BY <5>2
            <6>2. ~(Level(doc, k) < Level(doc, i + 1))
              BY <3>8, <6>1 DEF Falls
            <6>3. Level(doc, k) \in Int
              BY <1>0
            <6> QED  BY <3>4, <3>6, <6>2, <6>3
          <5> QED  BY <5>1, <5>2
        <4>2. LeftOpen(doc, i) = {i} \cup LeftOpen(doc, i + 1)
          <5>1. i \in LeftOpen(doc, i)
            BY <1>2, <3>2, <4>1 DEF LeftOpen
          <5>2. \A k : k \in i .. Len(doc) <=> k = i \/ k \in i + 1 .. Len(doc)
            BY <1>2
          <5> QED  BY <5>1, <5>2 DEF LeftOpen
        <4>3. Falls(doc, i) = {}
          <5> SUFFICES ASSUME NEW k \in i .. Len(doc) PROVE ~(Level(doc, k + 1) < Level(doc, i))
            BY DEF Falls
          <5>1. k + 1 \in i + 1 .. Len(doc) + 1 /\ k + 1 \in 1 .. Len(doc) + 1
            OBVIOUS
          <5>2. Level(doc, k + 1) \in Int
            BY <1>0, <5>1
          <5> QED  BY <3>6, <4>1, <5>1, <5>2
        <4>4. LeftOpen(doc, i + 1) \subseteq 0 .. Len(doc) /\ Len(doc) \in Nat /\ \A k \in LeftOpen(doc, i + 1) : i < k
          BY DEF LeftOpen
        <4>5. nested.bad = Greatest(LeftOpen(doc, i)) /\ nested.bad # 0
          <5>1. CASE LeftOpen(doc, i + 1) = {}
            <6>1. nested.bad = i
              BY <3>3, <3>5, <3>8, <5>1 DEF ParseIs
            <6>2. LeftOpen(doc, i) = {i}
              BY <4>2, <5>1
            <6>3. Greatest({i}) = i
              <7>1. {i} \subseteq 0 .. Len(doc) /\ i \in {i} /\ \A k \in {i} : k <= i
                BY <1>2
              <7> QED  BY <4>4, <7>1, GreatestIs
            <6> QED  BY <3>3, <6>1, <6>2, <6>3
          <5>2. CASE LeftOpen(doc, i + 1) # {}
            <6> DEFINE g == Greatest(LeftOpen(doc, i + 1))
            <6>1. nested.bad = g
              BY <3>3, <3>5, <3>8, <5>2 DEF ParseIs
            <6>2. g \in LeftOpen(doc, i + 1) /\ \A k \in LeftOpen(doc, i + 1) : g >= k
              BY <4>4, <5>2, GreatestOf
            <6> HIDE DEF g
            <6>3. g \in LeftOpen(doc, i) /\ \A k \in LeftOpen(doc, i) : k <= g
              <7>1. i < g /\ i \in Nat /\ g \in Nat /\ \A k \in LeftOpen(doc, i + 1) : k \in Nat
                BY <4>4, <6>2
              <7> QED  BY <4>2, <6>2, <7>1
            <6>4. LeftOpen(doc, i) \subseteq 0 .. Len(doc)
              BY <3>3, <4>2, <4>4
            <6>5. Greatest(LeftOpen(doc, i)) = g
              BY <4>4, <6>3, <6>4, GreatestIs
            <6>6. g # 0
              BY <4>4, <6>2
            <6> QED  BY <6>1, <6>5, <6>6
          <5> QED  BY <5>1, <5>2
        <4>6. r = nested
          BY <3>1, <4>5
        <4>7. LeftOpen(doc, i) # {}
          BY <4>2
        <4> QED  BY <3>5, <4>3, <4>5, <4>6, <4>7 DEF ParseIs, r
      <3> QED  BY <3>7, <3>8
    <2> QED  BY <2>1, <2>2, <2>3
  <1> QED  BY <1>1, <1>2

LEMMA FallsLeast ==
  ASSUME NEW doc \in Seq(AnyLine), NEW i \in 1 .. Len(doc) + 1, Falls(doc, i) # {}
  PROVE  /\ Least(Falls(doc, i)) \in i .. Len(doc)
         /\ Level(doc, Least(Falls(doc, i)) + 1) < Level(doc, i)
         /\ \A k \in i .. Least(Falls(doc, i)) : Level(doc, i) <= Level(doc, k)
  <1> DEFINE e == Least(Falls(doc, i))
  <1>1. Falls(doc, i) \subseteq Nat
    BY DEF Falls
  <1>2. e \in Falls(doc, i) /\ \A k \in Falls(doc, i) : e <= k
    BY <1>1, LeastOf
  <1> HIDE DEF e
  <1>3. e \in i .. Len(doc) /\ Level(doc, e + 1) < Level(doc, i)
    BY <1>2 DEF Falls
  <1>4. ASSUME NEW k \in i .. e
        PROVE  Level(doc, i) <= Level(doc, k)
    <2>1. Level(doc, k) \in Int /\ Level(doc, i) \in Int
      BY <1>3, LevelTyped
    <2>2. CASE k = i
      BY <2>1, <2>2
    <2>3. CASE k # i
      <3>1. k - 1 \in i .. Len(doc) /\ (k - 1) + 1 = k /\ ~(e <= k - 1)
        BY <1>3, <2>3
      <3>2. ~(Level(doc, k) < Level(doc, i))
        BY <1>2, <3>1 DEF Falls
      <3> QED  BY <2>1, <3>2
    <2> QED  BY <2>2, <2>3
  <1> QED  BY <1>3, <1>4 DEF e

LEMMA NextIs ==
  ASSUME NEW doc \in Seq(AnyLine), NEW i \in 1 .. Len(doc) + 1, NEW open \in 1 .. Len(doc),
         NEW r, ParseIs(doc, i, open, r), r.bad = 0
  PROVE  Falls(doc, i) # {} /\ r.next \in i + 1 .. Len(doc) + 1
  <1>1. Falls(doc, i) # {}
    <2> SUFFICES ASSUME Falls(doc, i) = {} PROVE FALSE
      OBVIOUS
    <2>1. LeftOpen(doc, i) # {}
      BY DEF ParseIs
    <2>2. LeftOpen(doc, i) \subseteq 0 .. Len(doc) /\ Len(doc) \in Nat /\ 0 \notin LeftOpen(doc, i)
      BY DEF LeftOpen
    <2>3. Greatest(LeftOpen(doc, i)) \in LeftOpen(doc, i)
      BY <2>1, <2>2, GreatestOf
    <2>4. r.bad = Greatest(LeftOpen(doc, i))
      BY <2>1 DEF ParseIs
    <2> QED  BY <2>2, <2>3, <2>4
  <1>2. r.next = Least(Falls(doc, i)) + 1
    BY <1>1 DEF ParseIs
  <1>3. Least(Falls(doc, i)) \in i .. Len(doc)
    BY <1>1, FallsLeast
  <1> QED  BY <1>1, <1>2, <1>3

\* parseBlocks from line i only looks at what it returns from later lines.
LEMMA ParseBlocksLocal ==
  ASSUME NEW doc \in Seq(AnyLine), NEW f, NEW g, NEW i \in 1 .. Len(doc) + 1, NEW open \in 0 .. Len(doc),
         \A j \in i + 1 .. Len(doc) + 1 : f[j] = g[j],
         \A j \in i + 1 .. Len(doc) + 1, o \in 0 .. Len(doc) : ParseIs(doc, j, o, f[j][o])
  PROVE  ParseBlocks(doc, f, i, open) = ParseBlocks(doc, g, i, open)
  <1>1. CASE i > Len(doc)
    BY <1>1 DEF ParseBlocks
  <1>2. CASE ~(i > Len(doc))
    <2>0. i \in 1 .. Len(doc)
      BY <1>2
    <2>1. CASE doc[i].kind = "close"
      BY <1>2, <2>1 DEF ParseBlocks
    <2>2. CASE doc[i].kind = "text"
      <3>1. ProseEnd(doc, i) \in i .. Len(doc)
        BY <2>0, <2>2, ProseEndIs
      <3>2. f[ProseEnd(doc, i) + 1] = g[ProseEnd(doc, i) + 1]
        BY <3>1
      <3> QED  BY <1>2, <2>2, <3>2 DEF ParseBlocks
    <2>3. CASE doc[i].kind \notin {"close", "text"}
      <3>1. i + 1 \in i + 1 .. Len(doc) + 1 /\ i \in 0 .. Len(doc) /\ i \in 1 .. Len(doc)
            /\ i + 1 \in 1 .. Len(doc) + 1
        BY <2>0
      <3>2. f[i + 1] = g[i + 1] /\ ParseIs(doc, i + 1, i, f[i + 1][i])
        BY <3>1
      <3>3. CASE f[i + 1][i].bad # 0
        BY <1>2, <2>3, <3>2, <3>3 DEF ParseBlocks
      <3>4. CASE f[i + 1][i].bad = 0
        <4>1. f[i + 1][i].next \in (i + 1) + 1 .. Len(doc) + 1
          BY <3>1, <3>2, <3>4, NextIs
        <4>2. f[f[i + 1][i].next] = g[f[i + 1][i].next]
          BY <4>1
        <4> QED  BY <1>2, <2>3, <3>2, <3>4, <4>2 DEF ParseBlocks
      <3> QED  BY <3>3, <3>4
    <2> QED  BY <2>1, <2>2, <2>3
  <1> QED  BY <1>1, <1>2

LEMMA ParsesIs ==
  ASSUME NEW doc \in Seq(AnyLine)
  PROVE  \A i \in 1 .. Len(doc) + 1, open \in 0 .. Len(doc) :
            ParseIs(doc, i, open, Parses(doc)[i][open])
  <1> DEFINE n == Len(doc)
             Row1(f, i) == [open \in 0 .. n |-> ParseBlocks(doc, f, i, open)]
             Is(f, m) == f = [i \in m .. n + 1 |-> Row1(f, i)]
             Right(f, m) == \A i \in m .. n + 1, open \in 0 .. n : ParseIs(doc, i, open, f[i][open])
             S == {k \in Nat : k <= n + 1 => \E f : Is(f, (n + 2) - k)}
  <1>0. n \in Nat
    OBVIOUS
  <1>1. ASSUME NEW m \in 1 .. n + 2, NEW f, Is(f, m)
        PROVE  Right(f, m)
    <2> DEFINE W == {i \in m .. n + 1 : ~\A open \in 0 .. n : ParseIs(doc, i, open, f[i][open])}
               w == Greatest(W)
    <2> SUFFICES ASSUME W # {} PROVE FALSE
      OBVIOUS
    <2>1. W \subseteq 0 .. n + 1 /\ n + 1 \in Nat
      OBVIOUS
    <2>2. w \in W /\ \A k \in W : w >= k
      <3> HIDE DEF W
      <3> QED  BY <2>1, GreatestOf
    <2> HIDE DEF w
    <2>3. w \in m .. n + 1 /\ w \in 1 .. Len(doc) + 1
      BY <2>2
    <2>4. \A j \in w + 1 .. Len(doc) + 1 : j \notin W
      <3>1. \A j \in w + 1 .. Len(doc) + 1 : ~(w >= j)
        BY <2>3
      <3> HIDE DEF W
      <3> QED  BY <2>2, <3>1
    <2>5. \A j \in w + 1 .. Len(doc) + 1, o \in 0 .. Len(doc) : ParseIs(doc, j, o, f[j][o])
      <3>1. \A j \in w + 1 .. Len(doc) + 1 : j \in m .. n + 1
        BY <2>3
      <3> QED  BY <2>4, <3>1
    <2>6. \A open \in 0 .. n : f[w][open] = ParseBlocks(doc, f, w, open)
      <3>1. f[w] = Row1(f, w)
        <4> HIDE DEF Row1
        <4> QED  BY <1>1, <2>3
      <3> QED  BY <3>1
    <2>7. \A open \in 0 .. n : ParseIs(doc, w, open, ParseBlocks(doc, f, w, open))
      BY <2>3, <2>5, ParseBlocksIs
    <2> QED  BY <2>2, <2>6, <2>7
  <1>2. 0 \in S
    <2> DEFINE f == [i \in n + 2 .. n + 1 |-> {}]
    <2>1. f = [i \in n + 2 .. n + 1 |-> Row1(f, i)]
      <3>1. n + 2 .. n + 1 = {}
        BY <1>0
      <3> QED  BY <3>1
    <2>2. Is(f, (n + 2) - 0)
      BY <1>0, <2>1
    <2> HIDE DEF f, Is
    <2> QED  BY <2>2
  <1>3. ASSUME NEW k \in Nat, k \in S
        PROVE  k + 1 \in S
    <2> SUFFICES ASSUME k + 1 <= n + 1
                 PROVE  \E g : Is(g, (n + 2) - (k + 1))
      <3> HIDE DEF Is
      <3> QED  OBVIOUS
    <2> DEFINE m == (n + 2) - k
               w == (n + 2) - (k + 1)
    <2>1. m \in 1 .. n + 2 /\ w \in 1 .. n + 1 /\ m = w + 1 /\ k <= n + 1
      BY <1>0
    <2>2. PICK f : Is(f, m)
      <3> HIDE DEF Is
      <3> QED  BY <1>3, <2>1
    <2> HIDE DEF m, w
    <2>3. Right(f, m)
      <3> HIDE DEF Is, Right
      <3> QED  BY <1>1, <2>1, <2>2
    <2> DEFINE g == [i \in w .. n + 1 |-> IF i = w THEN Row1(f, w) ELSE f[i]]
    <2>4. \A j \in m .. n + 1 : g[j] = f[j]
      BY <1>0, <2>1
    <2>5. ASSUME NEW i \in w .. n + 1
          PROVE  g[i] = Row1(g, i)
      <3>1. \A open \in 0 .. n : ParseBlocks(doc, f, i, open) = ParseBlocks(doc, g, i, open)
        <4> SUFFICES ASSUME NEW open \in 0 .. Len(doc)
                     PROVE  ParseBlocks(doc, f, i, open) = ParseBlocks(doc, g, i, open)
          OBVIOUS
        <4>1. i \in 1 .. Len(doc) + 1 /\ \A j \in i + 1 .. Len(doc) + 1 : j \in m .. n + 1
          BY <2>1
        <4>2. /\ \A j \in i + 1 .. Len(doc) + 1 : f[j] = g[j]
              /\ \A j \in i + 1 .. Len(doc) + 1, o \in 0 .. Len(doc) : ParseIs(doc, j, o, f[j][o])
          BY <2>3, <2>4, <4>1
        <4> HIDE DEF g
        <4> QED  BY <4>1, <4>2, ParseBlocksLocal
      <3>2. Row1(f, i) = Row1(g, i)
        <4> HIDE DEF g
        <4> QED  BY <3>1
      <3>3. g[i] = Row1(f, i)
        <4>1. CASE i = w
          BY <4>1
        <4>2. CASE i # w
          <5>1. i \in m .. n + 1
            BY <1>0, <2>1, <4>2
          <5>2. f[i] = Row1(f, i)
            BY <2>2, <5>1
          <5> QED  BY <4>2, <5>2
        <4> QED  BY <4>1, <4>2
      <3> HIDE DEF g, Row1
      <3> QED  BY <3>2, <3>3
    <2>6. Is(g, w)
      <3> DEFINE h == [i \in w .. n + 1 |-> Row1(g, i)]
      <3>1. \A i \in w .. n + 1 : g[i] = h[i]
        <4> HIDE DEF g, Row1
        <4> QED  BY <2>5
      <3>2. DOMAIN g = w .. n + 1 /\ DOMAIN h = w .. n + 1
        OBVIOUS
      <3>3. g = h
        <4>1. g = [i \in w .. n + 1 |-> g[i]]
          OBVIOUS
        <4> HIDE DEF g, Row1
        <4> QED  BY <2>5, <4>1
      <3> HIDE DEF g
      <3> QED  BY <3>3
    <2> HIDE DEF g, Is
    <2> QED  BY <2>6 DEF w
  <1>4. \E f : Is(f, 1)
    <2>1. n + 1 \in S
      <3>1. n + 1 \in Nat
        BY <1>0
      <3> HIDE DEF S
      <3> QED  BY <1>2, <1>3, <3>1, SetOfNaturals
    <2>2. (n + 2) - (n + 1) = 1 /\ n + 1 <= n + 1
      BY <1>0
    <2> HIDE DEF Is, n
    <2> QED  BY <2>1, <2>2
  <1> DEFINE parse[i \in 1 .. Len(doc) + 1] ==
                [open \in 0 .. Len(doc) |-> ParseBlocks(doc, parse, i, open)]
  <1>5. parse = CHOOSE f : Is(f, 1)
    BY DEF parse
  <1>6. Parses(doc) = parse
    BY DEF Parses
  <1> HIDE DEF parse
  <1>7. Is(parse, 1)
    <2> HIDE DEF Is
    <2> QED  BY <1>4, <1>5
  <1>8. Right(parse, 1)
    <2>1. 1 \in 1 .. n + 2
      BY <1>0
    <2> HIDE DEF Is, Right
    <2> QED  BY <1>1, <1>7, <2>1
  <1> QED  BY <1>6, <1>8

-----------------------------------------------------------------------------
(* Documents that parse, and those that do not.                            *)

Tops(doc) == Starts(doc, 1, Len(doc) + 1)

\* Where the fence at line j is closed.
EndOf(doc, j) == Least(Falls(doc, j + 1))

\* The last line of the block that begins at line j.
LastOf(doc, j) == IF Opens(doc[j]) THEN EndOf(doc, j) ELSE ProseEnd(doc, j)

LEMMA ParseOfBalanced ==
  ASSUME NEW doc \in Seq(AnyLine), Balanced(doc)
  PROVE  Parse(doc).bad = 0 /\ Lists(Parse(doc).blocks, Tops(doc))
  <1>1. ParseIs(doc, 1, 0, Parse(doc))
    <2>1. 1 \in 1 .. Len(doc) + 1 /\ 0 \in 0 .. Len(doc)
      OBVIOUS
    <2> QED  BY <2>1, ParsesIs DEF Parse
  <1>2. \A k \in 1 .. Len(doc) + 1 : Level(doc, k) \in Int /\ Level(doc, k) >= 0
    BY LevelTyped DEF Balanced
  <1>3. Level(doc, 1) = 0 /\ Level(doc, Len(doc) + 1) = 0
    <2>1. 1 \in 1 .. Len(doc) + 1
      OBVIOUS
    <2> QED  BY <2>1, LevelTyped DEF Balanced
  <1>4. Falls(doc, 1) = {}
    <2> SUFFICES ASSUME NEW k \in 1 .. Len(doc) PROVE ~(Level(doc, k + 1) < Level(doc, 1))
      BY DEF Falls
    <2>1. k + 1 \in 1 .. Len(doc) + 1
      OBVIOUS
    <2> QED  BY <1>2, <1>3, <2>1
  <1>5. LeftOpen(doc, 1) = {}
    <2> SUFFICES ASSUME NEW j \in 1 .. Len(doc) PROVE ~(Level(doc, j) < Level(doc, Len(doc) + 1))
      BY DEF LeftOpen
    <2>1. j \in 1 .. Len(doc) + 1
      OBVIOUS
    <2> QED  BY <1>2, <1>3, <2>1
  <1> QED  BY <1>1, <1>4, <1>5 DEF ParseIs, Tops

LEMMA ParseOfUnbalanced ==
  ASSUME NEW doc \in Seq(AnyLine), ~Balanced(doc)
  PROVE  /\ Parse(doc).bad # 0 /\ Parse(doc).blocks = << >>
         /\ Parse(doc).bad = IF Falls(doc, 1) # {} THEN Least(Falls(doc, 1))
                             ELSE Greatest(LeftOpen(doc, 1))
  <1>1. ParseIs(doc, 1, 0, Parse(doc))
    <2>1. 1 \in 1 .. Len(doc) + 1 /\ 0 \in 0 .. Len(doc)
      OBVIOUS
    <2> QED  BY <2>1, ParsesIs DEF Parse
  <1>2. \A k \in 1 .. Len(doc) + 1 : Level(doc, k) \in Int
    BY LevelTyped
  <1>3. Level(doc, 1) = 0
    <2>1. 1 \in 1 .. Len(doc) + 1
      OBVIOUS
    <2> QED  BY <2>1, LevelTyped
  <1>4. CASE Falls(doc, 1) # {}
    <2>1. Least(Falls(doc, 1)) \in 1 .. Len(doc)
      <3>1. 1 \in 1 .. Len(doc) + 1
        OBVIOUS
      <3> QED  BY <1>4, <3>1, FallsLeast
    <2>2. Parse(doc).bad = Least(Falls(doc, 1))
      BY <1>1, <1>4 DEF ParseIs
    <2> QED  BY <1>1, <1>4, <2>1, <2>2 DEF ParseIs
  <1>5. CASE Falls(doc, 1) = {}
    <2>1. \A k \in 1 .. Len(doc) + 1 : Level(doc, k) >= 0
      <3> SUFFICES ASSUME NEW k \in 1 .. Len(doc) + 1 PROVE Level(doc, k) >= 0
        OBVIOUS
      <3>1. CASE k = 1
        BY <1>3, <3>1
      <3>2. CASE k # 1
        <4>1. k - 1 \in 1 .. Len(doc) /\ (k - 1) + 1 = k
          BY <3>2
        <4>2. ~(Level(doc, k) < Level(doc, 1))
          BY <1>5, <4>1 DEF Falls
        <4> QED  BY <1>2, <1>3, <4>2
      <3> QED  BY <3>1, <3>2
    <2>2. 0 < Level(doc, Len(doc) + 1)
      <3>1. Len(doc) + 1 \in 1 .. Len(doc) + 1
        OBVIOUS
      <3>2. Level(doc, Len(doc) + 1) # 0
        BY <2>1 DEF Balanced
      <3> QED  BY <1>2, <2>1, <3>1, <3>2
    <2>3. LeftOpen(doc, 1) # {}
      <3> DEFINE n == Len(doc) + 1
      <3>1. n \in 1 .. Len(doc) + 1 /\ 1 \in 1 .. n /\ 0 \in Int
        OBVIOUS
      <3>2. Level(doc, 1) <= 0 /\ 0 < Level(doc, n)
        BY <1>3, <2>2
      <3> HIDE DEF n
      <3>3. PICK k \in 1 .. n - 1 : /\ Opens(doc[k]) /\ Level(doc, k) = 0
                                    /\ \A m \in k + 1 .. n : 0 < Level(doc, m)
        BY <3>1, <3>2, OpenBefore
      <3>4. k \in LeftOpen(doc, 1)
        BY <3>3 DEF LeftOpen, n
      <3> QED  BY <3>4
    <2>4. LeftOpen(doc, 1) \subseteq 0 .. Len(doc) /\ Len(doc) \in Nat /\ 0 \notin LeftOpen(doc, 1)
      BY DEF LeftOpen
    <2>5. Greatest(LeftOpen(doc, 1)) \in LeftOpen(doc, 1)
      BY <2>3, <2>4, GreatestOf
    <2>6. Parse(doc).bad = Greatest(LeftOpen(doc, 1))
      BY <1>1, <1>5, <2>3 DEF ParseIs
    <2>7. Parse(doc).bad # 0
      BY <2>4, <2>5, <2>6
    <2> QED  BY <1>1, <1>5, <2>6, <2>7 DEF ParseIs
  <1> QED  BY <1>4, <1>5

-----------------------------------------------------------------------------
(* The blocks of a document that parses.                                   *)

LEMMA FenceIs ==
  ASSUME NEW doc \in Seq(AnyLine), Balanced(doc), NEW j \in DOMAIN doc, Opens(doc[j])
  PROVE  /\ EndOf(doc, j) \in j + 1 .. Len(doc)
         /\ Level(doc, j + 1) = Level(doc, j) + 1
         /\ Level(doc, EndOf(doc, j) + 1) = Level(doc, j)
         /\ \A k \in j + 1 .. EndOf(doc, j) : Level(doc, j) < Level(doc, k)
         /\ doc[EndOf(doc, j)].kind = "close"
         /\ Lists(Within(doc, j), Starts(doc, j + 1, EndOf(doc, j)))
  <1>1. j \in 1 .. Len(doc) /\ j + 1 \in 1 .. Len(doc) + 1 /\ j \in 0 .. Len(doc) /\ j # 0
    OBVIOUS
  <1>2. \A k \in 1 .. Len(doc) + 1 : Level(doc, k) \in Int /\ Level(doc, k) >= 0
    BY LevelTyped DEF Balanced
  <1>3. Level(doc, Len(doc) + 1) = 0
    BY DEF Balanced
  <1>4. Level(doc, j + 1) = Level(doc, j) + 1
    BY <1>1, LevelStep
  <1>5. Falls(doc, j + 1) # {}
    <2>1. Level(doc, Len(doc) + 1) < Level(doc, j + 1)
      BY <1>1, <1>2, <1>3, <1>4
    <2>2. j + 1 # Len(doc) + 1
      BY <1>1, <1>2, <2>1
    <2>3. Len(doc) \in j + 1 .. Len(doc)
      BY <1>1, <2>2
    <2>4. Len(doc) \in Falls(doc, j + 1)
      BY <2>1, <2>3 DEF Falls
    <2> QED  BY <2>4
  <1> DEFINE e == EndOf(doc, j)
  <1>6. /\ e \in j + 1 .. Len(doc)
        /\ Level(doc, e + 1) < Level(doc, j + 1)
        /\ \A k \in j + 1 .. e : Level(doc, j + 1) <= Level(doc, k)
    BY <1>1, <1>5, FallsLeast DEF EndOf
  <1> HIDE DEF e
  <1>7. \A k \in j + 1 .. e : Level(doc, j) < Level(doc, k)
    <2> SUFFICES ASSUME NEW k \in j + 1 .. e PROVE Level(doc, j) < Level(doc, k)
      OBVIOUS
    <2>1. k \in 1 .. Len(doc) + 1 /\ j \in 1 .. Len(doc) + 1
      BY <1>1, <1>6
    <2> QED  BY <1>2, <1>4, <1>6, <2>1
  <1>8. Level(doc, e + 1) = Level(doc, j) /\ doc[e].kind = "close"
    <2>1. e \in 1 .. Len(doc) /\ e \in 1 .. Len(doc) + 1 /\ e + 1 \in 1 .. Len(doc) + 1 /\ e \in j + 1 .. e
          /\ j \in 1 .. Len(doc) + 1
      BY <1>1, <1>6
    <2>2. Level(doc, e + 1) = Level(doc, e) + (IF Opens(doc[e]) THEN 1 ELSE IF doc[e].kind = "close" THEN -1 ELSE 0)
      BY <2>1, LevelStep
    <2>3. Level(doc, j) < Level(doc, e)
      BY <1>7, <2>1
    <2>4. Level(doc, j) \in Int /\ Level(doc, e) \in Int /\ Level(doc, e + 1) \in Int
      BY <1>2, <2>1
    <2> QED  BY <1>4, <1>6, <2>2, <2>3, <2>4
  <1>9. Lists(Within(doc, j), Starts(doc, j + 1, e))
    <2>1. ParseIs(doc, j + 1, j, Parses(doc)[j + 1][j])
      BY <1>1, ParsesIs
    <2> QED  BY <1>1, <1>5, <2>1 DEF ParseIs, Within, e, EndOf
  <1> QED  BY <1>4, <1>6, <1>7, <1>8, <1>9 DEF e

\* A line is in a block as long as the level stays above that of its fence.
LEMMA InsideIs ==
  ASSUME NEW doc \in Seq(AnyLine), Balanced(doc), NEW j \in DOMAIN doc, Opens(doc[j]),
         NEW i \in DOMAIN doc, j < i
  PROVE  i <= EndOf(doc, j) <=> \A m \in j + 1 .. i : Level(doc, j) < Level(doc, m)
  <1> DEFINE e == EndOf(doc, j)
  <1>1. /\ e \in j + 1 .. Len(doc) /\ Level(doc, e + 1) = Level(doc, j)
        /\ \A k \in j + 1 .. e : Level(doc, j) < Level(doc, k)
    BY FenceIs
  <1> HIDE DEF e
  <1>2. Level(doc, j) \in Int
    <2>1. j \in 1 .. Len(doc) + 1
      OBVIOUS
    <2> QED  BY <2>1, LevelTyped
  <1>3. CASE i <= e
    <2>1. \A m \in j + 1 .. i : m \in j + 1 .. e
      BY <1>1, <1>3
    <2> QED  BY <1>1, <1>3, <2>1 DEF e
  <1>4. CASE ~(i <= e)
    <2>1. e + 1 \in j + 1 .. i
      BY <1>1, <1>4
    <2>2. ~(Level(doc, j) < Level(doc, e + 1))
      BY <1>1, <1>2
    <2> QED  BY <1>4, <2>1, <2>2 DEF e
  <1> QED  BY <1>3, <1>4

LEMMA DirectlyIs ==
  ASSUME NEW doc \in Seq(AnyLine), Balanced(doc), NEW j \in DOMAIN doc, Opens(doc[j]), NEW i
  PROVE  i \in Directly(doc, j) <=>
           /\ i \in j + 1 .. EndOf(doc, j) - 1 /\ doc[i].kind = "text"
           /\ Level(doc, i) = Level(doc, j) + 1
  <1>0. \A k \in 1 .. Len(doc) + 1 : Level(doc, k) \in Int
    BY LevelTyped
  <1> DEFINE e == EndOf(doc, j)
  <1>1. /\ e \in j + 1 .. Len(doc) /\ doc[e].kind = "close" /\ Level(doc, e + 1) = Level(doc, j)
        /\ \A k \in j + 1 .. e : Level(doc, j) < Level(doc, k)
        /\ Level(doc, j + 1) = Level(doc, j) + 1
    BY FenceIs
  <1> HIDE DEF e
  <1>2. ASSUME i \in j + 1 .. e - 1, doc[i].kind = "text", Level(doc, i) = Level(doc, j) + 1
        PROVE  i \in Directly(doc, j)
    <2>1. i \in DOMAIN doc /\ i \in Nat /\ i \in 1 .. Len(doc) + 1 /\ j \in 1 .. i - 1
      BY <1>1, <1>2
    <2>2. j \in Around(doc, i)
      <3>1. \A k \in j + 1 .. i : k \in j + 1 .. e
        BY <1>1, <1>2
      <3> QED  BY <1>1, <2>1, <3>1 DEF Around
    <2>3. ASSUME NEW k \in Around(doc, i)
          PROVE  k <= j
      <3> SUFFICES ASSUME k > j PROVE FALSE
        BY <2>1 DEF Around
      <3>1. k \in j + 1 .. e /\ k \in 1 .. Len(doc) + 1 /\ i \in k + 1 .. i
        BY <1>2, <1>1, <2>1 DEF Around
      <3>2. Level(doc, j) < Level(doc, k) /\ Level(doc, k) < Level(doc, i)
        BY <1>1, <3>1 DEF Around
      <3>3. Level(doc, j) \in Int /\ Level(doc, k) \in Int
        <4>1. j \in 1 .. Len(doc) + 1
          OBVIOUS
        <4> QED  BY <1>0, <3>1, <4>1
      <3> QED  BY <1>2, <3>2, <3>3
    <2>4. Around(doc, i) \subseteq 0 .. i
      BY <2>1 DEF Around
    <2>5. Greatest(Around(doc, i)) = j
      BY <2>1, <2>2, <2>3, <2>4, GreatestIs
    <2> QED  BY <1>2, <2>1, <2>2, <2>5 DEF Directly, TextLines
  <1>3. ASSUME i \in Directly(doc, j)
        PROVE  i \in j + 1 .. e - 1 /\ doc[i].kind = "text" /\ Level(doc, i) = Level(doc, j) + 1
    <2>1. i \in 1 .. Len(doc) /\ doc[i].kind = "text" /\ Around(doc, i) # {} /\ Greatest(Around(doc, i)) = j
      BY <1>3 DEF Directly, TextLines
    <2>2. Around(doc, i) \subseteq 0 .. i /\ i \in Nat
      BY <2>1 DEF Around
    <2>3. j \in Around(doc, i) /\ \A k \in Around(doc, i) : j >= k
      BY <2>1, <2>2, GreatestOf
    <2>4. j \in 1 .. i - 1 /\ \A k \in j + 1 .. i : Level(doc, k) > Level(doc, j)
      BY <2>3 DEF Around
    <2>5. i <= e
      <3>1. j < i /\ i \in DOMAIN doc
        BY <2>1, <2>4
      <3>2. \A m \in j + 1 .. i : Level(doc, j) < Level(doc, m)
        <4> SUFFICES ASSUME NEW m \in j + 1 .. i PROVE Level(doc, j) < Level(doc, m)
          OBVIOUS
        <4>1. m \in 1 .. Len(doc) + 1 /\ j \in 1 .. Len(doc) + 1
          BY <2>1, <2>4
        <4> QED  BY <1>0, <2>4, <4>1
      <3> QED  BY <3>1, <3>2, InsideIs DEF e
    <2>6. i \in j + 1 .. e - 1
      BY <1>1, <2>1, <2>4, <2>5
    <2>7. Level(doc, i) = Level(doc, j) + 1
      <3> SUFFICES ASSUME Level(doc, i) # Level(doc, j) + 1 PROVE FALSE
        OBVIOUS
      <3>1. i \in 1 .. Len(doc) + 1 /\ j + 1 \in 1 .. i /\ j \in 1 .. Len(doc) + 1 /\ i \in j + 1 .. i
        BY <2>1, <2>4
      <3>2. Level(doc, j) + 1 \in Int /\ Level(doc, j + 1) <= Level(doc, j) + 1 /\ Level(doc, j) + 1 < Level(doc, i)
        BY <1>0, <1>1, <2>4, <3>1
      <3>3. PICK k \in j + 1 .. i - 1 : /\ Opens(doc[k]) /\ Level(doc, k) = Level(doc, j) + 1
                                        /\ \A m \in k + 1 .. i : Level(doc, j) + 1 < Level(doc, m)
        BY <3>1, <3>2, OpenBefore
      <3>4. k \in Around(doc, i)
        <4>1. k \in 1 .. i - 1
          BY <3>1
        <4>2. \A m \in k + 1 .. i : Level(doc, m) > Level(doc, k)
          <5> SUFFICES ASSUME NEW m \in k + 1 .. i PROVE Level(doc, m) > Level(doc, k)
            OBVIOUS
          <5>1. m \in 1 .. Len(doc) + 1
            BY <2>1, <3>1
          <5>2. Level(doc, m) \in Int /\ Level(doc, k) \in Int
            BY <1>0, <3>2, <3>3, <5>1
          <5> QED  BY <3>3, <5>2
        <4> QED  BY <3>3, <4>1, <4>2 DEF Around
      <3>5. j >= k /\ k \in j + 1 .. i - 1 /\ j \in Int
        BY <2>3, <3>4
      <3> QED  BY <3>5
    <2> QED  BY <2>1, <2>6, <2>7
  <1> QED  BY <1>2, <1>3 DEF e

LEMMA ListsFlatten ==
  ASSUME NEW n \in Nat, NEW ss, NEW SS, NEW S, DOMAIN ss = 1 .. n, ss = [i \in 1 .. n |-> ss[i]],
         \A i \in 1 .. n : Lists(ss[i], SS[i]),
         \A i, j \in 1 .. n : i < j => \A x \in SS[i], y \in SS[j] : x < y,
         \A x : x \in S <=> \E i \in 1 .. n : x \in SS[i]
  PROVE  Lists(FlattenSeq(ss), S) /\ ss \in Seq(Seq(Nat))
  <1>1. ss \in Seq(Seq(Nat))
    <2>1. \A i \in 1 .. n : ss[i] \in Seq(Nat)
      BY DEF Lists
    <2>2. ss \in [1 .. n -> Seq(Nat)]
      BY <2>1
    <2> QED  BY <2>2
  <1>2. FlattenSeq(ss) \in Seq(Nat)
    BY <1>1, FlattenTyped
  <1>3. \A x : x \in ToSet(FlattenSeq(ss)) <=> x \in S
    <2>1. \A x : x \in ToSet(FlattenSeq(ss)) <=> \E i \in DOMAIN ss : x \in ToSet(ss[i])
      BY <1>1, FlattenElements
    <2> QED  BY <2>1 DEF Lists
  <1>4. Sorted(FlattenSeq(ss), Less)
    <2>1. \A i \in DOMAIN ss : Sorted(ss[i], Less)
      BY DEF Lists
    <2>2. \A i, j \in DOMAIN ss : i < j => \A x \in ToSet(ss[i]), y \in ToSet(ss[j]) : <<x, y>> \in Less
      <3> SUFFICES ASSUME NEW i \in DOMAIN ss, NEW j \in DOMAIN ss, i < j,
                          NEW x \in ToSet(ss[i]), NEW y \in ToSet(ss[j])
                   PROVE  <<x, y>> \in Less
        OBVIOUS
      <3>1. x \in SS[i] /\ y \in SS[j]
        BY DEF Lists
      <3>2. x \in Nat /\ y \in Nat
        BY DEF Lists, ToSet
      <3> QED  BY <3>1, <3>2 DEF Less
    <2> QED  BY <1>1, <2>1, <2>2, FlattenSorted
  <1> QED  BY <1>1, <1>2, <1>3, <1>4 DEF Lists

LEMMA ListsAmong ==
  ASSUME NEW s, NEW S, NEW T, Lists(s, S)
  PROVE  Lists(Among(s, T), S \cap T)
  <1>1. s \in Seq(Nat)
    BY DEF Lists
  <1>2. /\ Among(s, T) \in Seq(Nat)
        /\ \A x : x \in ToSet(Among(s, T)) <=> x \in ToSet(s) /\ x \in T
        /\ \A R : Sorted(s, R) => Sorted(Among(s, T), R)
    BY <1>1, AmongIs
  <1> QED  BY <1>2 DEF Lists

\* What the k-th element of a listing is.
LEMMA ListsAt ==
  ASSUME NEW s, NEW S, Lists(s, S)
  PROVE  /\ s \in Seq(Nat) /\ Len(s) \in Nat /\ DOMAIN s = 1 .. Len(s)
         /\ s = [i \in 1 .. Len(s) |-> s[i]]
         /\ \A i \in 1 .. Len(s) : s[i] \in S /\ s[i] \in Nat
         /\ \A i, j \in 1 .. Len(s) : i < j => s[i] < s[j]
         /\ \A x \in S : x \in Nat /\ \E i \in 1 .. Len(s) : x = s[i]
  <1>1. s \in Seq(Nat) /\ Len(s) \in Nat /\ DOMAIN s = 1 .. Len(s)
    BY DEF Lists
  <1>2. s = [i \in 1 .. Len(s) |-> s[i]]
    BY <1>1
  <1>3. \A i \in 1 .. Len(s) : s[i] \in S /\ s[i] \in Nat
    BY <1>1 DEF Lists, ToSet
  <1>4. \A i, j \in 1 .. Len(s) : i < j => s[i] < s[j]
    <2>1. \A i, j \in 1 .. Len(s) : i < j => <<s[i], s[j]>> \in Less
      BY <1>1 DEF Lists, Sorted
    <2> QED  BY <2>1 DEF Less
  <1>5. \A x \in S : x \in Nat /\ \E i \in 1 .. Len(s) : x = s[i]
    BY <1>1, <1>3 DEF Lists, ToSet
  <1> QED  BY <1>1, <1>2, <1>3, <1>4, <1>5

-----------------------------------------------------------------------------
(* The content of a block.                                                 *)

LEMMA ProseLinesIs ==
  ASSUME NEW doc \in Seq(AnyLine), NEW k \in DOMAIN doc, doc[k].kind = "text"
  PROVE  Lists(ProseLines(doc, k), k .. ProseEnd(doc, k))
  <1> DEFINE p == ProseEnd(doc, k)
             n == p - k + 1
             s == ProseLines(doc, k)
  <1>1. p \in k .. Len(doc) /\ k \in Nat /\ k >= 1
    BY ProseEndIs
  <1>2. s = [i \in 1 .. n |-> k + i - 1]
    BY DEF ProseLines
  <1> HIDE DEF p, s
  <1>3. n \in Nat /\ \A i \in 1 .. n : k + i - 1 \in Nat
    BY <1>1
  <1>4. s \in Seq(Nat) /\ DOMAIN s = 1 .. n
    BY <1>2, <1>3
  <1>5. Sorted(s, Less)
    <2> SUFFICES ASSUME NEW i \in 1 .. n, NEW j \in 1 .. n, i < j
                 PROVE  <<k + i - 1, k + j - 1>> \in Less
      BY <1>2, <1>4 DEF Sorted
    <2> QED  BY <1>1, <1>3 DEF Less
  <1>6. \A x : x \in ToSet(s) <=> x \in k .. p
    <2>1. \A x \in k .. p : x - k + 1 \in 1 .. n /\ k + (x - k + 1) - 1 = x
      BY <1>1
    <2>2. \A i \in 1 .. n : k + i - 1 \in k .. p
      BY <1>1
    <2> HIDE DEF n
    <2> QED  BY <1>2, <1>4, <2>1, <2>2 DEF ToSet
  <1> QED  BY <1>4, <1>5, <1>6 DEF Lists, p, s

\* Prose ends before the next block begins, and all text is in prose.
LEMMA RunEnds ==
  ASSUME NEW doc \in Seq(AnyLine), NEW a \in 1 .. Len(doc) + 1, NEW k \in a .. Len(doc),
         doc[k].kind = "text", NEW m \in k + 1 .. Len(doc), Begins(doc, a, m)
  PROVE  ProseEnd(doc, k) < m
  <1>1. /\ ProseEnd(doc, k) \in k .. Len(doc)
        /\ \A q \in k .. ProseEnd(doc, k) : doc[q].kind = "text"
    BY ProseEndIs
  <1> SUFFICES ASSUME m <= ProseEnd(doc, k) PROVE FALSE
    BY <1>1
  <1>2. m \in k .. ProseEnd(doc, k) /\ m - 1 \in k .. ProseEnd(doc, k) /\ m # a
    BY <1>1
  <1>3. doc[m].kind = "text" /\ doc[m - 1].kind = "text" /\ doc[m] \in AnyLine
    BY <1>1, <1>2
  <1>4. ~Opens(doc[m])
    BY <1>3, LineIs
  <1> QED  BY <1>2, <1>3, <1>4 DEF Begins

LEMMA RunOf ==
  ASSUME NEW doc \in Seq(AnyLine), NEW a \in 1 .. Len(doc), NEW i \in a .. Len(doc),
         doc[i].kind = "text"
  PROVE  \E k \in a .. i : /\ doc[k].kind = "text" /\ Begins(doc, a, k)
                           /\ Level(doc, k) = Level(doc, i) /\ i \in k .. ProseEnd(doc, k)
  <1> DEFINE S == {m \in a .. i : \A q \in m .. i : doc[q].kind = "text"}
             k == Least(S)
  <1>1. S \subseteq Nat /\ S # {}
    <2>1. i \in S
      OBVIOUS
    <2> QED  BY <2>1
  <1>2. k \in S /\ \A m \in S : k <= m
    <2> HIDE DEF S
    <2> QED  BY <1>1, LeastOf
  <1> HIDE DEF k
  <1>3. k \in a .. i /\ k \in 1 .. Len(doc) /\ \A q \in k .. i : doc[q].kind = "text"
    BY <1>2
  <1>4. doc[k].kind = "text"
    BY <1>3
  <1>5. Begins(doc, a, k)
    <2> SUFFICES ASSUME k # a, doc[k - 1].kind = "text" PROVE FALSE
      BY <1>4 DEF Begins
    <2>1. k - 1 \in a .. i /\ \A q \in k - 1 .. i : q = k - 1 \/ q \in k .. i
      BY <1>3
    <2>2. k - 1 \in S
      BY <1>3, <2>1
    <2>3. k <= k - 1
      BY <1>2, <2>2
    <2> QED  BY <1>3, <2>3
  <1>6. Level(doc, k) = Level(doc, i)
    <2>1. i \in k .. Len(doc) /\ i \in k .. i + 1
      BY <1>3
    <2> QED  BY <1>3, <2>1, LevelOfText
  <1>7. i \in k .. ProseEnd(doc, k)
    <2>1. /\ ProseEnd(doc, k) \in k .. Len(doc)
          /\ ProseEnd(doc, k) = Len(doc) \/ doc[ProseEnd(doc, k) + 1].kind # "text"
      BY <1>3, <1>4, ProseEndIs
    <2>2. ASSUME ~(i <= ProseEnd(doc, k))
          PROVE  FALSE
      <3>1. ProseEnd(doc, k) + 1 \in k .. i /\ ProseEnd(doc, k) # Len(doc)
        <4>1. k \in Int /\ i \in Int /\ Len(doc) \in Int /\ i <= Len(doc)
          BY <1>3
        <4> QED  BY <2>1, <2>2, <4>1
      <3> QED  BY <1>3, <2>1, <3>1
    <2> QED  BY <1>3, <2>1, <2>2
  <1> QED  BY <1>3, <1>4, <1>5, <1>6, <1>7

LEMMA BlockBefore ==
  ASSUME NEW doc \in Seq(AnyLine), Balanced(doc), NEW a \in 1 .. Len(doc) + 1,
         NEW e \in a .. Len(doc) + 1, NEW b \in Starts(doc, a, e)
  PROVE  /\ b \in a .. Len(doc) /\ b \in DOMAIN doc /\ (Opens(doc[b]) <=> doc[b].kind # "text")
         /\ LastOf(doc, b) \in b .. Len(doc)
         /\ \A c \in Starts(doc, a, e) : b < c => LastOf(doc, b) < c
  <1>1. b \in a .. Len(doc) /\ b \in DOMAIN doc /\ doc[b] \in AnyLine
    BY DEF Starts
  <1>2. Opens(doc[b]) <=> doc[b].kind # "text"
    <2>1. Opens(doc[b]) \/ doc[b].kind = "text"
      BY DEF Starts, Begins
    <2> QED  BY <1>1, <2>1, LineIs
  <1>3. CASE Opens(doc[b])
    <2>1. EndOf(doc, b) \in b + 1 .. Len(doc) /\ \A k \in b + 1 .. EndOf(doc, b) : Level(doc, b) < Level(doc, k)
      BY <1>1, <1>3, FenceIs
    <2>2. ASSUME NEW c \in Starts(doc, a, e), b < c, ~(EndOf(doc, b) < c)
          PROVE  FALSE
      <3>1. c \in b + 1 .. EndOf(doc, b) /\ b \in 1 .. Len(doc) + 1
        BY <1>1, <2>1, <2>2 DEF Starts
      <3>2. Level(doc, b) < Level(doc, c) /\ Level(doc, b) = Level(doc, c)
        BY <2>1, <3>1 DEF Starts
      <3>3. Level(doc, b) \in Int
        BY <3>1, LevelTyped
      <3> QED  BY <3>2, <3>3
    <2>3. \A c \in Starts(doc, a, e) : c \in Int
      BY DEF Starts
    <2> QED  BY <1>1, <1>2, <1>3, <2>1, <2>2, <2>3 DEF LastOf
  <1>4. CASE doc[b].kind = "text"
    <2>1. ProseEnd(doc, b) \in b .. Len(doc)
      BY <1>1, <1>4, ProseEndIs
    <2>2. ASSUME NEW c \in Starts(doc, a, e), b < c
          PROVE  ProseEnd(doc, b) < c
      <3>1. c \in b + 1 .. Len(doc) /\ Begins(doc, a, c)
        BY <1>1, <2>2 DEF Starts
      <3> QED  BY <1>1, <1>4, <3>1, RunEnds
    <2> QED  BY <1>1, <1>2, <1>4, <2>1, <2>2 DEF LastOf
  <1> QED  BY <1>2, <1>3, <1>4

\* The lines of text that are a block's own.
ContentOf(doc, b) == IF Opens(doc[b]) THEN Directly(doc, b) ELSE b .. ProseEnd(doc, b)

LEMMA ContentIs ==
  ASSUME NEW doc \in Seq(AnyLine), Balanced(doc), NEW b \in DOMAIN doc, doc[b].kind # "close"
  PROVE  Lists(Content(doc, b), ContentOf(doc, b)) /\ \A i \in ContentOf(doc, b) :
           i \in b .. LastOf(doc, b) /\ i \in DOMAIN doc /\ doc[i].kind = "text"
  <1>0. doc[b] \in AnyLine
    OBVIOUS
  <1>1. CASE ~Opens(doc[b])
    <2>1. doc[b].kind = "text"
      BY <1>0, <1>1, LineIs
    <2>2. /\ ProseEnd(doc, b) \in b .. Len(doc)
          /\ \A k \in b .. ProseEnd(doc, b) : doc[k].kind = "text"
      BY <2>1, ProseEndIs
    <2> QED  BY <1>1, <2>1, <2>2, ProseLinesIs DEF Content, ContentOf, LastOf
  <1>2. CASE Opens(doc[b])
    <2> DEFINE e == EndOf(doc, b)
               prose == Among(Within(doc, b), TextLines(doc))
               P == Starts(doc, b + 1, e) \cap TextLines(doc)
               n == Len(prose)
               ss == [i \in 1 .. n |-> ProseLines(doc, prose[i])]
               SS == [i \in 1 .. n |-> prose[i] .. ProseEnd(doc, prose[i])]
    <2>1. /\ e \in b + 1 .. Len(doc) /\ Level(doc, b + 1) = Level(doc, b) + 1
          /\ Lists(Within(doc, b), Starts(doc, b + 1, e)) /\ doc[e].kind = "close"
      BY <1>2, FenceIs
    <2> HIDE DEF e
    <2>2. Lists(prose, P)
      BY <2>1, ListsAmong
    <2> HIDE DEF prose
    <2>3. /\ prose \in Seq(Nat) /\ n \in Nat /\ DOMAIN prose = 1 .. n
          /\ \A i \in 1 .. n : prose[i] \in P
          /\ \A i, j \in 1 .. n : i < j => prose[i] < prose[j]
          /\ \A x \in P : \E i \in 1 .. n : x = prose[i]
      <3> HIDE DEF P
      <3> QED  BY <2>2, ListsAt
    <2>4. Content(doc, b) = FlattenSeq(ss)
      BY <1>2, <2>3 DEF Content, prose
    <2> HIDE DEF n
    <2>5. ASSUME NEW k \in P
          PROVE  /\ k \in DOMAIN doc /\ doc[k].kind = "text" /\ ProseEnd(doc, k) \in k .. e - 1
                 /\ \A q \in k .. ProseEnd(doc, k) : doc[q].kind = "text"
                 /\ k \in b + 1 .. e - 1 /\ k \in Starts(doc, b + 1, e)
      <3>1. k \in b + 1 .. e - 1 /\ k \in DOMAIN doc /\ doc[k].kind = "text"
        BY DEF TextLines, Starts
      <3>2. /\ ProseEnd(doc, k) \in k .. Len(doc)
            /\ \A q \in k .. ProseEnd(doc, k) : doc[q].kind = "text"
        BY <3>1, ProseEndIs
      <3>3. ProseEnd(doc, k) < e
        <4> SUFFICES ASSUME ~(ProseEnd(doc, k) < e) PROVE FALSE
          OBVIOUS
        <4>1. e \in k .. ProseEnd(doc, k)
          BY <2>1, <3>1, <3>2
        <4> QED  BY <2>1, <3>2, <4>1
      <3> QED  BY <2>1, <3>1, <3>2, <3>3
    <2>6. b + 1 \in 1 .. Len(doc) + 1 /\ e \in b + 1 .. Len(doc) + 1 /\ b + 1 \in 1 .. Len(doc)
      BY <2>1
    <2>7. \A i \in 1 .. n : Lists(ss[i], SS[i])
      <3> SUFFICES ASSUME NEW i \in 1 .. n
                   PROVE  Lists(ProseLines(doc, prose[i]), prose[i] .. ProseEnd(doc, prose[i]))
        OBVIOUS
      <3>1. prose[i] \in P
        BY <2>3
      <3> QED  BY <2>5, <3>1, ProseLinesIs
    <2>8. \A i, j \in 1 .. n : i < j => \A x \in SS[i], y \in SS[j] : x < y
      <3> SUFFICES ASSUME NEW i \in 1 .. n, NEW j \in 1 .. n, i < j
                   PROVE  \A x \in prose[i] .. ProseEnd(doc, prose[i]), y \in prose[j] .. ProseEnd(doc, prose[j]) : x < y
        OBVIOUS
      <3>1. prose[i] \in P /\ prose[j] \in P /\ prose[i] < prose[j]
        BY <2>3
      <3>2. ~Opens(doc[prose[i]])
        <4>1. doc[prose[i]].kind = "text" /\ doc[prose[i]] \in AnyLine
          BY <2>5, <3>1
        <4> QED  BY <4>1, LineIs
      <3>3. LastOf(doc, prose[i]) < prose[j]
        BY <2>5, <2>6, <3>1, BlockBefore
      <3>4. ProseEnd(doc, prose[i]) < prose[j]
        BY <3>2, <3>3 DEF LastOf
      <3>5. ProseEnd(doc, prose[i]) \in Int /\ prose[j] \in Int
        BY <2>5, <3>1
      <3> QED  BY <3>4, <3>5
    <2>9. \A x : x \in Directly(doc, b) <=> \E i \in 1 .. n : x \in SS[i]
      <3>1. ASSUME NEW x \in Directly(doc, b)
            PROVE  \E i \in 1 .. n : x \in SS[i]
        <4>1. /\ x \in b + 1 .. e - 1 /\ doc[x].kind = "text"
              /\ Level(doc, x) = Level(doc, b) + 1
          BY <1>2, DirectlyIs DEF e
        <4>2. x \in b + 1 .. Len(doc)
          BY <2>1, <4>1
        <4>3. PICK k \in b + 1 .. x : /\ doc[k].kind = "text" /\ Begins(doc, b + 1, k)
                               /\ Level(doc, k) = Level(doc, x) /\ x \in k .. ProseEnd(doc, k)
          BY <2>6, <4>1, <4>2, RunOf
        <4>4. k \in P
          <5>1. k \in b + 1 .. e - 1 /\ k \in DOMAIN doc
            BY <2>1, <4>1
          <5> QED  BY <2>1, <4>1, <4>3, <5>1 DEF Starts, TextLines
        <4>5. PICK i \in 1 .. n : k = prose[i]
          BY <2>3, <4>4
        <4>6. x \in SS[i]
          BY <4>3, <4>5
        <4> QED  BY <4>6
      <3>2. ASSUME NEW i \in 1 .. n, NEW x \in SS[i]
            PROVE  x \in Directly(doc, b)
        <4> DEFINE k == prose[i]
        <4>1. k \in P /\ x \in k .. ProseEnd(doc, k)
          BY <2>3
        <4> HIDE DEF k
        <4>2. /\ k \in DOMAIN doc /\ doc[k].kind = "text" /\ ProseEnd(doc, k) \in k .. e - 1
              /\ \A q \in k .. ProseEnd(doc, k) : doc[q].kind = "text"
              /\ k \in b + 1 .. e - 1 /\ Level(doc, k) = Level(doc, b + 1)
          BY <2>5, <4>1 DEF Starts
        <4>3. x \in b + 1 .. e - 1 /\ doc[x].kind = "text"
          BY <4>1, <4>2, <2>1
        <4>4. Level(doc, x) = Level(doc, k)
          <5>1. k \in 1 .. Len(doc) /\ ProseEnd(doc, k) \in k .. Len(doc) /\ x \in k .. ProseEnd(doc, k) + 1
            BY <4>1, <4>2, <2>1
          <5> QED  BY <4>2, <5>1, LevelOfText
        <4> QED  BY <1>2, <2>1, <4>2, <4>3, <4>4, DirectlyIs DEF e
      <3> QED  BY <3>1, <3>2
    <2>10. Lists(FlattenSeq(ss), Directly(doc, b))
      <3>1. DOMAIN ss = 1 .. n /\ ss = [i \in 1 .. n |-> ss[i]]
        OBVIOUS
      <3> HIDE DEF ss, SS
      <3> QED  BY <2>3, <2>7, <2>8, <2>9, <3>1, ListsFlatten
    <2>11. \A i \in Directly(doc, b) : i \in b .. e /\ i \in DOMAIN doc /\ doc[i].kind = "text"
      <3> SUFFICES ASSUME NEW i \in Directly(doc, b)
                   PROVE  i \in b .. e /\ i \in DOMAIN doc /\ doc[i].kind = "text"
        OBVIOUS
      <3>1. i \in b + 1 .. e - 1 /\ doc[i].kind = "text"
        BY <1>2, DirectlyIs DEF e
      <3> QED  BY <2>1, <3>1
    <2> QED  BY <1>2, <2>4, <2>10, <2>11 DEF ContentOf, LastOf, e
  <1> QED  BY <1>1, <1>2

-----------------------------------------------------------------------------
(* Functions by recursion from later arguments to earlier ones.            *)

\* What step makes of an argument and a function only depends on the values at later
\* arguments.
LooksAhead(step, n, V) ==
    /\ step \in [1 .. n -> [[1 .. n -> V] -> V]]
    /\ \A b \in 1 .. n, g, h \in [1 .. n -> V] :
          (\A k \in b + 1 .. n : g[k] = h[k]) => step[b][g] = step[b][h]

Solves(f, step, n, V) == f \in [1 .. n -> V] /\ \A b \in 1 .. n : f[b] = step[b][f]

LEMMA RecursionFromLater ==
  ASSUME NEW n \in Nat, NEW V, V # {}, NEW step, LooksAhead(step, n, V)
  PROVE  \E f : Solves(f, step, n, V)
  <1>0. /\ step \in [1 .. n -> [[1 .. n -> V] -> V]]
        /\ \A b \in 1 .. n, g, h \in [1 .. n -> V] :
              (\A k \in b + 1 .. n : g[k] = h[k]) => step[b][g] = step[b][h]
    BY DEF LooksAhead
  <1> DEFINE Is(f, m) == \A b \in m .. n : f[b] = step[b][f]
             S == {k \in Nat : k <= n => \E f \in [1 .. n -> V] : Is(f, (n + 1) - k)}
  <1>1. 0 \in S
    <2>1. PICK v \in V : TRUE
      OBVIOUS
    <2>2. [b \in 1 .. n |-> v] \in [1 .. n -> V]
      OBVIOUS
    <2>3. Is([b \in 1 .. n |-> v], (n + 1) - 0)
      OBVIOUS
    <2> HIDE DEF Is
    <2> QED  BY <2>2, <2>3
  <1>2. ASSUME NEW k \in Nat, k \in S
        PROVE  k + 1 \in S
    <2> SUFFICES ASSUME k + 1 <= n
                 PROVE  \E f \in [1 .. n -> V] : Is(f, (n + 1) - (k + 1))
      <3> HIDE DEF Is
      <3> QED  OBVIOUS
    <2> DEFINE w == (n + 1) - (k + 1)
    <2>1. w \in 1 .. n /\ (n + 1) - k = w + 1
      <3> HIDE DEF S, Is
      <3> QED  OBVIOUS
    <2>2. PICK f \in [1 .. n -> V] : Is(f, w + 1)
      <3>1. k <= n
        OBVIOUS
      <3> HIDE DEF Is, w
      <3> QED  BY <1>2, <2>1, <3>1
    <2> HIDE DEF w
    <2> DEFINE v == step[w][f]
               h == [f EXCEPT ![w] = v]
    <2>3. step[w] \in [[1 .. n -> V] -> V]
      BY <1>0, <2>1
    <2>4. v \in V
      BY <2>3
    <2> HIDE DEF v
    <2>5. h \in [1 .. n -> V] /\ h[w] = v /\ \A k1 \in 1 .. n : k1 # w => h[k1] = f[k1]
      BY <2>1, <2>4
    <2> HIDE DEF h
    <2>6. ASSUME NEW b \in w .. n
          PROVE  h[b] = step[b][h]
      <3>1. b \in 1 .. n /\ \A k1 \in b + 1 .. n : k1 \in 1 .. n /\ k1 # w
        BY <2>1
      <3>2. step[b][f] = step[b][h]
        BY <1>0, <2>5, <3>1
      <3>3. CASE b = w
        BY <2>5, <3>2, <3>3 DEF v
      <3>4. CASE b # w
        <4>1. b \in w + 1 .. n
          BY <2>1, <3>4
        <4> QED  BY <2>2, <2>5, <3>1, <3>2, <3>4, <4>1
      <3> QED  BY <3>3, <3>4
    <2> QED  BY <2>5, <2>6 DEF w
  <1>3. n \in S
    <2> HIDE DEF S
    <2> QED  BY <1>1, <1>2, SetOfNaturals
  <1>4. (n + 1) - n = 1
    OBVIOUS
  <1>5. \E f \in [1 .. n -> V] : Is(f, (n + 1) - n)
    <2> HIDE DEF Is
    <2> QED  BY <1>3
  <1> QED  BY <1>4, <1>5 DEF Solves

-----------------------------------------------------------------------------
(* The blocks in a block, and all of them.                                 *)

\* From line a to line e are the insides of a block, or the whole document.
Room(doc, a, e) ==
    /\ a \in 1 .. Len(doc) + 1 /\ e \in a .. Len(doc) + 1
    /\ \A m \in a .. e : Level(doc, a) <= Level(doc, m)
    /\ e <= Len(doc) => Level(doc, e + 1) < Level(doc, a)

LEMMA RoomOfFence ==
  ASSUME NEW doc \in Seq(AnyLine), Balanced(doc), NEW b \in DOMAIN doc, Opens(doc[b])
  PROVE  Room(doc, b + 1, EndOf(doc, b))
  <1> DEFINE e == EndOf(doc, b)
  <1>1. /\ e \in b + 1 .. Len(doc) /\ Level(doc, b + 1) = Level(doc, b) + 1
        /\ Level(doc, e + 1) = Level(doc, b)
        /\ \A k \in b + 1 .. e : Level(doc, b) < Level(doc, k)
    BY FenceIs
  <1>2. \A k \in 1 .. Len(doc) + 1 : Level(doc, k) \in Int
    BY LevelTyped
  <1> HIDE DEF e
  <1>3. b \in 1 .. Len(doc) /\ b + 1 \in 1 .. Len(doc) + 1 /\ e \in b + 1 .. Len(doc) + 1
    BY <1>1
  <1>4. \A m \in b + 1 .. e : m \in 1 .. Len(doc) + 1 /\ b \in 1 .. Len(doc) + 1
    BY <1>1
  <1> QED  BY <1>1, <1>2, <1>3, <1>4 DEF Room, e

LEMMA RoomOfAll ==
  ASSUME NEW doc \in Seq(AnyLine), Balanced(doc)
  PROVE  Room(doc, 1, Len(doc) + 1)
  <1>1. 1 \in 1 .. Len(doc) + 1 /\ Len(doc) + 1 \in 1 .. Len(doc) + 1 /\ ~(Len(doc) + 1 <= Len(doc))
    OBVIOUS
  <1>2. Level(doc, 1) = 0
    BY <1>1, LevelTyped
  <1> QED  BY <1>1, <1>2 DEF Room, Balanced

\* The blocks of a room end in it, and every line but those that close is in one.
LEMMA RoomIs ==
  ASSUME NEW doc \in Seq(AnyLine), Balanced(doc), NEW a, NEW e, Room(doc, a, e)
  PROVE  /\ \A b \in Starts(doc, a, e) : LastOf(doc, b) \in b .. e - 1
         /\ \A k \in a .. e - 1 : doc[k].kind # "close" =>
               \E b \in Starts(doc, a, e) : k \in b .. LastOf(doc, b)
  <1>0. \A k \in 1 .. Len(doc) + 1 : Level(doc, k) \in Int
    BY LevelTyped
  <1>1. /\ a \in 1 .. Len(doc) + 1 /\ e \in a .. Len(doc) + 1
        /\ \A m \in a .. e : Level(doc, a) <= Level(doc, m) /\ m \in 1 .. Len(doc) + 1
        /\ e <= Len(doc) => Level(doc, e + 1) < Level(doc, a)
    BY DEF Room
  <1>2. ASSUME NEW b \in Starts(doc, a, e)
        PROVE  LastOf(doc, b) \in b .. e - 1
    <2>1. /\ b \in a .. Len(doc) /\ b \in DOMAIN doc /\ (Opens(doc[b]) <=> doc[b].kind # "text")
          /\ LastOf(doc, b) \in b .. Len(doc)
      BY <1>1, BlockBefore
    <2>2. b \in a .. e - 1 /\ Level(doc, b) = Level(doc, a)
      BY DEF Starts
    <2> SUFFICES ASSUME ~(LastOf(doc, b) < e) PROVE FALSE
      BY <1>1, <2>1
    <2>3. e \in b + 1 .. LastOf(doc, b) /\ e \in DOMAIN doc /\ e \in 1 .. Len(doc) /\ e <= Len(doc)
      BY <1>1, <2>1, <2>2
    <2>4. doc[b] \in AnyLine /\ doc[e] \in AnyLine
      BY <2>1, <2>3
    <2>5. CASE Opens(doc[b])
      <3>1. /\ Level(doc, LastOf(doc, b) + 1) = Level(doc, b)
            /\ \A k \in b + 1 .. LastOf(doc, b) : Level(doc, b) < Level(doc, k)
        BY <2>1, <2>5, FenceIs DEF LastOf
      <3>2. CASE e = LastOf(doc, b)
        BY <1>0, <1>1, <2>2, <2>3, <3>1, <3>2
      <3>3. CASE e # LastOf(doc, b)
        <4>1. e + 1 \in b + 1 .. LastOf(doc, b) /\ e + 1 \in 1 .. Len(doc) + 1
          BY <2>1, <2>3, <3>3
        <4> QED  BY <1>0, <1>1, <2>2, <2>3, <3>1, <4>1
      <3> QED  BY <3>2, <3>3
    <2>6. CASE ~Opens(doc[b])
      <3>1. doc[b].kind = "text"
        BY <2>1, <2>6
      <3>2. doc[e].kind = "text"
        <4>1. \A k \in b .. ProseEnd(doc, b) : doc[k].kind = "text"
          BY <2>1, <3>1, ProseEndIs
        <4>2. e \in b .. LastOf(doc, b)
          BY <2>1, <2>3
        <4> QED  BY <2>6, <4>1, <4>2 DEF LastOf
      <3>3. Level(doc, e + 1) = Level(doc, e)
        <4>1. ~Opens(doc[e])
          BY <2>4, <3>2, LineIs
        <4> QED  BY <1>0, <2>3, <3>2, <4>1, LevelStep
      <3>4. e \in a .. e
        BY <1>1
      <3>5. Level(doc, a) <= Level(doc, e) /\ Level(doc, e) \in Int /\ Level(doc, a) \in Int
        BY <1>0, <1>1, <3>4
      <3> QED  BY <1>1, <2>3, <3>3, <3>5
    <2> QED  BY <2>5, <2>6
  <1>3. ASSUME NEW k \in a .. e - 1, doc[k].kind # "close"
        PROVE  \E b \in Starts(doc, a, e) : k \in b .. LastOf(doc, b)
    <2>1. k \in DOMAIN doc /\ k \in 1 .. Len(doc) /\ k \in 1 .. Len(doc) + 1 /\ k \in a .. e
      BY <1>1
    <2>2. doc[k] \in AnyLine /\ Level(doc, a) <= Level(doc, k)
          /\ Level(doc, a) \in Int /\ Level(doc, k) \in Int
      BY <1>0, <1>1, <2>1
    <2>3. CASE Level(doc, a) < Level(doc, k)
      <3>1. PICK b \in a .. k - 1 : /\ Opens(doc[b]) /\ Level(doc, b) = Level(doc, a)
                                    /\ \A m \in b + 1 .. k : Level(doc, a) < Level(doc, m)
        <4>1. a \in 1 .. k
          BY <1>1
        <4>2. k \in 1 .. Len(doc) + 1
          BY <2>1
        <4> HIDE DEF Opens
        <4> QED  BY <2>2, <2>3, <4>1, <4>2, OpenBefore
      <3>2. b \in Starts(doc, a, e) /\ b \in DOMAIN doc /\ b < k
        <4>1. b \in a .. e - 1
          BY <1>1, <3>1
        <4> QED  BY <1>1, <3>1, <4>1 DEF Starts, Begins
      <3>3. k <= EndOf(doc, b)
        BY <2>1, <3>1, <3>2, InsideIs
      <3>4. EndOf(doc, b) \in Int
        BY <3>1, <3>2, FenceIs
      <3>5. k \in b .. LastOf(doc, b)
        BY <1>1, <3>1, <3>3, <3>4 DEF LastOf
      <3> QED  BY <3>2, <3>5
    <2>4. CASE Level(doc, k) = Level(doc, a)
      <3>1. CASE Opens(doc[k])
        <4>1. k \in Starts(doc, a, e)
          BY <2>4, <3>1 DEF Starts, Begins
        <4>2. LastOf(doc, k) \in k .. e - 1
          BY <1>2, <4>1
        <4> QED  BY <4>1, <4>2
      <3>2. CASE ~Opens(doc[k])
        <4>1. doc[k].kind = "text"
          BY <1>3, <2>2, <3>2, LineIs
        <4>2. a \in 1 .. Len(doc) /\ k \in a .. Len(doc)
          BY <1>1, <2>1
        <4>3. PICK b \in a .. k : /\ doc[b].kind = "text" /\ Begins(doc, a, b)
                                  /\ Level(doc, b) = Level(doc, k) /\ k \in b .. ProseEnd(doc, b)
          BY <4>1, <4>2, RunOf
        <4>4. b \in DOMAIN doc /\ b \in a .. e - 1
          BY <1>1, <2>1
        <4>5. doc[b] \in AnyLine
          BY <4>4
        <4>6. ~Opens(doc[b])
          BY <4>3, <4>5, LineIs
        <4>7. b \in Starts(doc, a, e)
          BY <2>4, <4>3, <4>4 DEF Starts
        <4>8. k \in b .. LastOf(doc, b)
          BY <4>3, <4>6 DEF LastOf
        <4> QED  BY <4>7, <4>8
      <3> QED  BY <3>1, <3>2
    <2> QED  BY <2>2, <2>3, <2>4
  <1> QED  BY <1>2, <1>3

\* The fences directly in the block that begins at line b.
Nested(doc, b) ==
    IF Opens(doc[b]) THEN {k \in Starts(doc, b + 1, EndOf(doc, b)) : Opens(doc[k])} ELSE {}

LEMMA BlocksIs ==
  ASSUME NEW doc \in Seq(AnyLine), Balanced(doc), NEW b \in DOMAIN doc
  PROVE  /\ Lists(Blocks(doc, b), Nested(doc, b))
         /\ \A k \in Nested(doc, b) : /\ k \in b + 1 .. Len(doc) /\ k \in DOMAIN doc /\ Opens(doc[k])
                                      /\ doc[k].kind # "close"
                                      /\ Opens(doc[b]) /\ k \in Starts(doc, b + 1, EndOf(doc, b))
                                      /\ LastOf(doc, k) < LastOf(doc, b)
  <1>1. CASE ~Opens(doc[b])
    BY <1>1, ListsNothing DEF Blocks, Nested
  <1>2. CASE Opens(doc[b])
    <2> DEFINE e == EndOf(doc, b)
               S == Starts(doc, b + 1, e)
    <2>1. Lists(Within(doc, b), S) /\ e \in b + 1 .. Len(doc) /\ Room(doc, b + 1, e)
      BY <1>2, FenceIs, RoomOfFence
    <2>2. Blocks(doc, b) = Among(Within(doc, b), DOMAIN doc \ TextLines(doc))
      BY <1>2 DEF Blocks
    <2>3. Nested(doc, b) = {k \in S : Opens(doc[k])}
      BY <1>2 DEF Nested
    <2> HIDE DEF e
    <2>4. Lists(Blocks(doc, b), S \cap (DOMAIN doc \ TextLines(doc)))
      BY <2>1, <2>2, ListsAmong
    <2>5. b + 1 \in 1 .. Len(doc) + 1 /\ e \in b + 1 .. Len(doc) + 1
      BY <2>1
    <2>6. \A k \in S : k \in b + 1 .. Len(doc) /\ k \in DOMAIN doc /\ (Opens(doc[k]) <=> doc[k].kind # "text")
      BY <2>5, BlockBefore
    <2>7. \A x : x \in S \cap (DOMAIN doc \ TextLines(doc)) <=> x \in Nested(doc, b)
      BY <2>3, <2>6 DEF TextLines
    <2>8. Lists(Blocks(doc, b), Nested(doc, b))
      <3> HIDE DEF S
      <3> QED  BY <2>4, <2>7, ListsSame
    <2>9. \A k \in S : LastOf(doc, k) \in k .. e - 1
      BY <2>1, RoomIs
    <2>10. \A k \in S : LastOf(doc, k) < LastOf(doc, b)
      <3>1. LastOf(doc, b) = e
        BY <1>2 DEF LastOf, e
      <3> QED  BY <2>1, <2>9, <3>1
    <2>11. \A k \in S : Opens(doc[k]) => doc[k].kind # "close"
      BY DEF Opens
    <2> QED  BY <1>2, <2>3, <2>6, <2>8, <2>10, <2>11 DEF e
  <1> QED  BY <1>1, <1>2

\* The block that begins at line b, and the fences in it.
Subtree(doc, b) == {b} \cup {k \in b + 1 .. LastOf(doc, b) : Opens(doc[k])}

FlatBlock(doc, flat, b) ==
    LET nested == Blocks(doc, b)
    IN <<b>> \o FlattenSeq([i \in DOMAIN nested |-> flat[nested[i]]])

LEMMA FlatExists ==
  ASSUME NEW doc \in Seq(AnyLine), Balanced(doc)
  PROVE  \E flat : flat = [block \in DOMAIN doc |-> FlatBlock(doc, flat, block)]
  <1> DEFINE n == Len(doc)
             V == Seq(Nat)
             step == [b \in 1 .. n |-> [g \in [1 .. n -> V] |-> FlatBlock(doc, g, b)]]
  <1>0. n \in Nat /\ DOMAIN doc = 1 .. n
    OBVIOUS
  <1>1. V # {}
    <2>1. << >> \in V
      OBVIOUS
    <2> QED  BY <2>1
  <1>2. ASSUME NEW b \in 1 .. n
        PROVE  /\ Len(Blocks(doc, b)) \in Nat /\ DOMAIN Blocks(doc, b) = 1 .. Len(Blocks(doc, b))
               /\ \A i \in DOMAIN Blocks(doc, b) : Blocks(doc, b)[i] \in b + 1 .. n
    <2>1. b \in DOMAIN doc
      OBVIOUS
    <2>2. /\ Lists(Blocks(doc, b), Nested(doc, b))
          /\ \A k \in Nested(doc, b) : k \in b + 1 .. Len(doc)
      BY <2>1, BlocksIs
    <2> QED  BY <2>2, ListsAt
  <1>3. ASSUME NEW b \in 1 .. n, NEW g \in [1 .. n -> V]
        PROVE  /\ step[b][g] = FlatBlock(doc, g, b)
               /\ FlatBlock(doc, g, b) \in V
    <2> DEFINE nested == Blocks(doc, b)
               ss == [i \in DOMAIN nested |-> g[nested[i]]]
    <2>2. step[b][g] = FlatBlock(doc, g, b)
      <3> HIDE DEF V
      <3> QED  OBVIOUS
    <2>3. ss \in Seq(V)
      <3>1. \A i \in DOMAIN nested : nested[i] \in 1 .. n
        BY <1>2
      <3>2. ss \in [1 .. Len(nested) -> V]
        <4> HIDE DEF nested, V
        <4> QED  BY <1>2, <3>1 DEF nested
      <3> QED  BY <1>2, <3>2
    <2>4. FlattenSeq(ss) \in V
      BY <2>3, FlattenTyped
    <2>5. <<b>> \in V
      OBVIOUS
    <2>6. FlatBlock(doc, g, b) = <<b>> \o FlattenSeq(ss)
      BY DEF FlatBlock
    <2> HIDE DEF ss
    <2> QED  BY <2>2, <2>4, <2>5, <2>6
  <1>4. step \in [1 .. n -> [[1 .. n -> V] -> V]]
    <2> HIDE DEF V, n
    <2> QED  BY <1>3
  <1>5. ASSUME NEW b \in 1 .. n, NEW g \in [1 .. n -> V], NEW h \in [1 .. n -> V],
               \A k \in b + 1 .. n : g[k] = h[k]
        PROVE  step[b][g] = step[b][h]
    <2>1. \A i \in DOMAIN Blocks(doc, b) : g[Blocks(doc, b)[i]] = h[Blocks(doc, b)[i]]
      BY <1>2, <1>5
    <2>2. FlatBlock(doc, g, b) = FlatBlock(doc, h, b)
      BY <2>1 DEF FlatBlock
    <2> HIDE DEF step, V
    <2> QED  BY <1>3, <2>2
  <1> HIDE DEF step
  <1>6. PICK f : Solves(f, step, n, V)
    <2> HIDE DEF V, n
    <2>1. LooksAhead(step, n, V)
      BY <1>4, <1>5 DEF LooksAhead
    <2> QED  BY <1>0, <1>1, <2>1, RecursionFromLater
  <1>7. \A b \in 1 .. n : f[b] = FlatBlock(doc, f, b)
    BY <1>3, <1>6 DEF Solves
  <1>8. f = [block \in DOMAIN doc |-> FlatBlock(doc, f, block)]
    <2> HIDE DEF V, n
    <2>1. f = [b \in 1 .. n |-> f[b]]
      BY <1>6 DEF Solves
    <2> QED  BY <1>0, <1>7, <2>1
  <1> QED  BY <1>8

\* The fences in some blocks that follow each other, in the order of the lines.
LEMMA SubtreesAre ==
  ASSUME NEW doc \in Seq(AnyLine), Balanced(doc), NEW a, NEW e, Room(doc, a, e),
         NEW S, S \subseteq Starts(doc, a, e), NEW s, Lists(s, S), NEW flat,
         \A b \in S : Lists(flat[b], Subtree(doc, b))
  PROVE  Lists(FlattenSeq([i \in DOMAIN s |-> flat[s[i]]]), UNION {Subtree(doc, b) : b \in S})
  <1> DEFINE n == Len(s)
             ss == [i \in 1 .. n |-> flat[s[i]]]
             SS == [i \in 1 .. n |-> Subtree(doc, s[i])]
             U == UNION {Subtree(doc, b) : b \in S}
  <1>1. /\ n \in Nat /\ DOMAIN s = 1 .. n /\ \A i \in 1 .. n : s[i] \in S
        /\ \A i, j \in 1 .. n : i < j => s[i] < s[j]
        /\ \A x \in S : \E i \in 1 .. n : x = s[i]
    BY ListsAt
  <1>2. a \in 1 .. Len(doc) + 1 /\ e \in a .. Len(doc) + 1
    BY DEF Room
  <1>3. ASSUME NEW b \in S, NEW c \in S, b < c, NEW x \in Subtree(doc, b), NEW y \in Subtree(doc, c)
        PROVE  x < y
    <2>1. LastOf(doc, b) \in b .. Len(doc) /\ LastOf(doc, b) < c /\ b \in Int /\ c \in Int
      BY <1>2, <1>3, BlockBefore
    <2>2. x <= LastOf(doc, b) /\ x \in Int
      BY <2>1 DEF Subtree
    <2>3. c <= y /\ y \in Int
      <3>1. y = c \/ y \in c + 1 .. LastOf(doc, c)
        BY DEF Subtree
      <3> QED  BY <2>1, <3>1
    <2> QED  BY <2>1, <2>2, <2>3
  <1>4. \A i \in 1 .. n : Lists(ss[i], SS[i])
    BY <1>1
  <1>5. \A i, j \in 1 .. n : i < j => \A x \in SS[i], y \in SS[j] : x < y
    BY <1>1, <1>3
  <1>6. \A x : x \in U <=> \E i \in 1 .. n : x \in SS[i]
    BY <1>1
  <1>7. DOMAIN ss = 1 .. n /\ ss = [i \in 1 .. n |-> ss[i]]
    OBVIOUS
  <1>8. [i \in DOMAIN s |-> flat[s[i]]] = ss
    BY <1>1
  <1> HIDE DEF ss, SS, U, n
  <1>9. Lists(FlattenSeq(ss), U)
    BY <1>1, <1>4, <1>5, <1>6, <1>7, ListsFlatten
  <1> QED  BY <1>8, <1>9 DEF U

\* The fences of a room are those of its blocks.
LEMMA FencesOfRoom ==
  ASSUME NEW doc \in Seq(AnyLine), Balanced(doc), NEW a, NEW e, Room(doc, a, e),
         NEW S, S = Starts(doc, a, e) \/ S = {b \in Starts(doc, a, e) : Opens(doc[b])}, NEW k
  PROVE  (\E b \in S : k \in Subtree(doc, b)) <=>
         k \in S \/ (k \in a .. e - 1 /\ Opens(doc[k]))
  <1>1. a \in 1 .. Len(doc) + 1 /\ e \in a .. Len(doc) + 1
    BY DEF Room
  <1>2. \A b \in S : b \in Starts(doc, a, e)
    OBVIOUS
  <1>3. ASSUME NEW b \in S, k \in Subtree(doc, b)
        PROVE  k \in S \/ (k \in a .. e - 1 /\ Opens(doc[k]))
    <2>1. LastOf(doc, b) \in b .. e - 1 /\ b \in a .. e - 1
      BY <1>2, RoomIs DEF Starts
    <2>2. k = b \/ (k \in b + 1 .. LastOf(doc, b) /\ Opens(doc[k]))
      BY <1>3 DEF Subtree
    <2> QED  BY <1>1, <1>3, <2>1, <2>2
  <1>4. \A b \in S : b \in Subtree(doc, b)
    BY DEF Subtree
  <1>5. ASSUME k \in a .. e - 1, Opens(doc[k])
        PROVE  \E b \in S : k \in Subtree(doc, b)
    <2>1. k \in 1 .. Len(doc) /\ k \in DOMAIN doc /\ doc[k].kind # "close"
      BY <1>1, <1>5 DEF Opens
    <2>2. PICK b \in Starts(doc, a, e) : k \in b .. LastOf(doc, b)
      BY <1>5, <2>1, RoomIs
    <2>3. b \in DOMAIN doc /\ doc[b] \in AnyLine /\ (Opens(doc[b]) <=> doc[b].kind # "text")
      <3>1. b \in DOMAIN doc /\ (Opens(doc[b]) <=> doc[b].kind # "text")
        BY <1>1, BlockBefore
      <3> QED  BY <3>1
    <2>4. Opens(doc[b])
      <3> SUFFICES ASSUME ~Opens(doc[b]) PROVE FALSE
        OBVIOUS
      <3>1. doc[b].kind = "text" /\ k \in b .. ProseEnd(doc, b)
        BY <2>2, <2>3 DEF LastOf
      <3>2. doc[k].kind = "text"
        <4>1. b \in 1 .. Len(doc)
          BY <2>3
        <4> QED  BY <3>1, <4>1, ProseEndIs
      <3> QED  BY <1>5, <3>2 DEF Opens
    <2>5. b \in S
      BY <2>4
    <2>6. k \in Subtree(doc, b)
      <3>1. k = b \/ k \in b + 1 .. LastOf(doc, b)
        BY <1>1, <1>5, <2>2, <2>3
      <3> QED  BY <1>5, <3>1 DEF Subtree
    <2> QED  BY <2>5, <2>6
  <1> QED  BY <1>3, <1>4, <1>5

LEMMA FlatBlockIs ==
  ASSUME NEW doc \in Seq(AnyLine), Balanced(doc), NEW flat,
         flat = [block \in DOMAIN doc |-> FlatBlock(doc, flat, block)]
  PROVE  \A b \in DOMAIN doc : doc[b].kind # "close" => Lists(flat[b], Subtree(doc, b))
  <1> DEFINE W == {b \in DOMAIN doc : doc[b].kind # "close" /\ ~Lists(flat[b], Subtree(doc, b))}
             b == Greatest(W)
  <1> SUFFICES ASSUME W # {} PROVE FALSE
    OBVIOUS
  <1>1. W \subseteq 0 .. Len(doc) /\ Len(doc) \in Nat
    OBVIOUS
  <1>2. b \in W /\ \A k \in W : b >= k
    <2> HIDE DEF W
    <2> QED  BY <1>1, GreatestOf
  <1> HIDE DEF b
  <1>3. b \in DOMAIN doc /\ b \in 1 .. Len(doc) /\ doc[b].kind # "close" /\ ~Lists(flat[b], Subtree(doc, b))
    BY <1>2
  <1>4. \A k \in b + 1 .. Len(doc) : doc[k].kind # "close" => Lists(flat[k], Subtree(doc, k))
    <2> SUFFICES ASSUME NEW k \in b + 1 .. Len(doc), k \in W PROVE FALSE
      BY <1>3
    <2> HIDE DEF W
    <2> QED  BY <1>2, <1>3
  <1> DEFINE nested == Blocks(doc, b)
             rest == FlattenSeq([i \in DOMAIN nested |-> flat[nested[i]]])
  <1>5. flat[b] = <<b>> \o rest
    <2>1. flat[b] = FlatBlock(doc, flat, b)
      BY <1>3
    <2> QED  BY <2>1 DEF FlatBlock
  <1>6. /\ Lists(nested, Nested(doc, b))
        /\ \A k \in Nested(doc, b) : /\ k \in b + 1 .. Len(doc) /\ k \in DOMAIN doc /\ Opens(doc[k])
                                     /\ doc[k].kind # "close"
                                     /\ Opens(doc[b]) /\ k \in Starts(doc, b + 1, EndOf(doc, b))
    BY <1>3, BlocksIs
  <1> HIDE DEF nested
  <1>7. CASE ~Opens(doc[b])
    <2>1. nested = << >>
      BY <1>7 DEF Blocks, nested
    <2>2. rest = << >>
      <3>1. [i \in DOMAIN nested |-> flat[nested[i]]] = << >>
        BY <2>1
      <3> QED  BY <3>1, FlattenEmpty
    <2>3. doc[b].kind = "text"
      <3>1. doc[b] \in AnyLine
        BY <1>3
      <3> QED  BY <1>3, <1>7, <3>1, LineIs
    <2>4. \A k \in b + 1 .. LastOf(doc, b) : ~Opens(doc[k])
      <3>1. \A k \in b .. ProseEnd(doc, b) : doc[k].kind = "text"
        BY <1>3, <2>3, ProseEndIs
      <3>2. \A k \in b + 1 .. LastOf(doc, b) : k \in b .. ProseEnd(doc, b)
        BY <1>3, <1>7 DEF LastOf
      <3> QED  BY <3>1, <3>2 DEF Opens
    <2>5. \A x : x \in {b} \cup {} <=> x \in Subtree(doc, b)
      BY <2>4 DEF Subtree
    <2>6. Lists(<<b>> \o << >>, {b} \cup {})
      <3>1. b \in Nat
        BY <1>3
      <3> QED  BY <3>1, ListsNothing, ListsFirst
    <2>7. Lists(flat[b], {b} \cup {})
      <3> HIDE DEF rest
      <3> QED  BY <1>5, <2>2, <2>6
    <2>8. Lists(flat[b], Subtree(doc, b))
      BY <2>5, <2>7, ListsSame
    <2> QED  BY <1>3, <2>8
  <1>8. CASE Opens(doc[b])
    <2> DEFINE e == EndOf(doc, b)
               S == Nested(doc, b)
               U == UNION {Subtree(doc, k) : k \in S}
    <2>1. Room(doc, b + 1, e) /\ e \in b + 1 .. Len(doc) /\ doc[e].kind = "close"
      BY <1>3, <1>8, RoomOfFence, FenceIs
    <2>2. S = {k \in Starts(doc, b + 1, e) : Opens(doc[k])}
      BY <1>8 DEF Nested
    <2>3. LastOf(doc, b) = e
      BY <1>8 DEF LastOf
    <2>4. \A k \in S : Lists(flat[k], Subtree(doc, k))
      BY <1>4, <1>6
    <2> HIDE DEF e, S
    <2>5. S \subseteq Starts(doc, b + 1, e)
      BY <2>2
    <2>6. Lists(rest, U)
      BY <1>6, <2>1, <2>4, <2>5, SubtreesAre DEF S
    <2>7. \A x : x \in U <=> x \in b + 1 .. e - 1 /\ Opens(doc[x])
      <3> SUFFICES ASSUME NEW x PROVE x \in U <=> x \in b + 1 .. e - 1 /\ Opens(doc[x])
        OBVIOUS
      <3>1. (\E k \in S : x \in Subtree(doc, k)) <=> x \in S \/ (x \in b + 1 .. e - 1 /\ Opens(doc[x]))
        BY <2>1, <2>2, FencesOfRoom
      <3>2. x \in S => x \in b + 1 .. e - 1 /\ Opens(doc[x])
        BY <2>2 DEF Starts
      <3> QED  BY <3>1, <3>2
    <2>8. \A x \in U : b < x
      BY <1>3, <2>7
    <2>9. Lists(<<b>> \o rest, {b} \cup U)
      <3>1. b \in Nat
        BY <1>3
      <3> HIDE DEF rest, U
      <3> QED  BY <2>6, <2>8, <3>1, ListsFirst
    <2>10. \A x : x \in {b} \cup U <=> x \in Subtree(doc, b)
      <3>1. \A x : x \in b + 1 .. e /\ Opens(doc[x]) <=> x \in b + 1 .. e - 1 /\ Opens(doc[x])
        <4>1. ~Opens(doc[e])
          BY <2>1 DEF Opens
        <4>2. \A x : x \in b + 1 .. e <=> x \in b + 1 .. e - 1 \/ x = e
          BY <1>3, <2>1
        <4> QED  BY <4>1, <4>2
      <3> HIDE DEF U
      <3> QED  BY <2>3, <2>7, <3>1 DEF Subtree
    <2>11. Lists(flat[b], Subtree(doc, b))
      <3> HIDE DEF rest, U
      <3> QED  BY <1>5, <2>9, <2>10, ListsSame
    <2> QED  BY <1>3, <2>11
  <1> QED  BY <1>7, <1>8

\* Flat: the blocks of the whole document, and all the fences in them.
LEMMA FlatIs ==
  ASSUME NEW doc \in Seq(AnyLine), Balanced(doc)
  PROVE  Lists(Flat(doc, Parse(doc).blocks), Tops(doc) \cup {k \in DOMAIN doc : Opens(doc[k])})
  <1> DEFINE flat[block \in DOMAIN doc] ==
                LET nested == Blocks(doc, block)
                IN <<block>> \o FlattenSeq([i \in DOMAIN nested |-> flat[nested[i]]])
             s == Parse(doc).blocks
             F == CHOOSE f : f = [block \in DOMAIN doc |-> FlatBlock(doc, f, block)]
  <1>1. flat = F
    BY DEF flat, FlatBlock
  <1>2. Flat(doc, s) = FlattenSeq([i \in DOMAIN s |-> flat[s[i]]])
    BY DEF Flat, flat
  <1> HIDE DEF flat
  <1>3. F = [block \in DOMAIN doc |-> FlatBlock(doc, F, block)]
    BY FlatExists
  <1> HIDE DEF F
  <1>4. \A b \in DOMAIN doc : doc[b].kind # "close" => Lists(F[b], Subtree(doc, b))
    BY <1>3, FlatBlockIs
  <1>5. Lists(s, Tops(doc)) /\ Room(doc, 1, Len(doc) + 1)
    BY ParseOfBalanced, RoomOfAll
  <1> HIDE DEF s
  <1>6. \A b \in Tops(doc) : b \in DOMAIN doc /\ doc[b].kind # "close"
    <2> SUFFICES ASSUME NEW b \in Tops(doc) PROVE b \in DOMAIN doc /\ doc[b].kind # "close"
      OBVIOUS
    <2>1. b \in DOMAIN doc /\ Begins(doc, 1, b)
      BY DEF Tops, Starts
    <2> QED  BY <2>1 DEF Begins, Opens
  <1> DEFINE U == UNION {Subtree(doc, b) : b \in Tops(doc)}
  <1>7. Lists(FlattenSeq([i \in DOMAIN s |-> F[s[i]]]), U)
    <2>1. Tops(doc) \subseteq Starts(doc, 1, Len(doc) + 1)
      BY DEF Tops
    <2> QED  BY <1>4, <1>5, <1>6, <2>1, SubtreesAre
  <1>8. \A x : x \in U <=> x \in Tops(doc) \cup {k \in DOMAIN doc : Opens(doc[k])}
    <2> SUFFICES ASSUME NEW x PROVE x \in U <=> x \in Tops(doc) \cup {k \in DOMAIN doc : Opens(doc[k])}
      OBVIOUS
    <2>1. (\E b \in Tops(doc) : x \in Subtree(doc, b)) <=>
            x \in Tops(doc) \/ (x \in 1 .. (Len(doc) + 1) - 1 /\ Opens(doc[x]))
      <3>1. Tops(doc) = Starts(doc, 1, Len(doc) + 1)
        BY DEF Tops
      <3> QED  BY <1>5, <3>1, FencesOfRoom
    <2>2. 1 .. (Len(doc) + 1) - 1 = DOMAIN doc
      OBVIOUS
    <2> QED  BY <2>1, <2>2
  <1> HIDE DEF U
  <1> QED  BY <1>1, <1>2, <1>7, <1>8, ListsSame DEF s

-----------------------------------------------------------------------------
(* The text of the views dm and player.                                    *)

LEMMA ListsIs ==
  ASSUME NEW s, NEW S, Lists(s, S)
  PROVE  InOrder(S) = s
  <1>1. s \in Seq(Nat) /\ Sorted(s, Less) /\ \A x : x \in ToSet(s) <=> x \in S
    BY DEF Lists
  <1>2. ToSet(s) = S
    BY <1>1
  <1> QED  BY <1>1, <1>2, InOrderIs

LEMMA AroundTop ==
  ASSUME NEW doc \in Seq(AnyLine), Balanced(doc), NEW b \in Tops(doc), NEW i \in ContentOf(doc, b)
  PROVE  \A j : j \in Around(doc, i) <=> Opens(doc[b]) /\ j = b
  <1>0. \A k \in 1 .. Len(doc) + 1 : Level(doc, k) \in Int /\ Level(doc, k) >= 0
    BY LevelTyped DEF Balanced
  <1>1. b \in DOMAIN doc /\ b \in 1 .. Len(doc) /\ Level(doc, b) = Level(doc, 1) /\ Begins(doc, 1, b)
    BY DEF Tops, Starts
  <1>2. Level(doc, b) = 0
    <2>1. 1 \in 1 .. Len(doc) + 1
      OBVIOUS
    <2> QED  BY <1>1, <2>1, LevelTyped
  <1>3. doc[b].kind # "close" /\ doc[b] \in AnyLine
    BY <1>1 DEF Begins, Opens
  <1>4. i \in b .. LastOf(doc, b) /\ i \in DOMAIN doc /\ i \in 1 .. Len(doc) /\ doc[i].kind = "text"
    <2>1. i \in b .. LastOf(doc, b) /\ i \in DOMAIN doc /\ doc[i].kind = "text"
      BY <1>1, <1>3, ContentIs
    <2> QED  BY <2>1
  <1>5. CASE ~Opens(doc[b])
    <2>1. doc[b].kind = "text"
      BY <1>3, <1>5, LineIs
    <2>2. /\ ProseEnd(doc, b) \in b .. Len(doc)
          /\ \A k \in b .. ProseEnd(doc, b) : doc[k].kind = "text"
      BY <1>1, <2>1, ProseEndIs
    <2>3. Level(doc, i) = 0
      <3>1. i \in b .. ProseEnd(doc, b) + 1
        BY <1>4, <1>5, <2>2 DEF LastOf
      <3> QED  BY <1>1, <1>2, <2>2, <3>1, LevelOfText
    <2>4. ASSUME NEW j \in Around(doc, i)
          PROVE  FALSE
      <3>1. j \in 1 .. i - 1 /\ Level(doc, i) > Level(doc, j)
        BY <1>4 DEF Around
      <3>2. j \in 1 .. Len(doc) + 1
        BY <1>4, <3>1
      <3> QED  BY <1>0, <2>3, <3>1, <3>2
    <2> QED  BY <1>5, <2>4
  <1>6. CASE Opens(doc[b])
    <2>1. i \in b + 1 .. EndOf(doc, b) - 1 /\ Level(doc, i) = 1
      BY <1>1, <1>2, <1>6, DirectlyIs DEF ContentOf
    <2>2. b < i /\ i <= EndOf(doc, b)
      <3>1. EndOf(doc, b) \in Int
        BY <1>1, <1>6, FenceIs
      <3> QED  BY <1>1, <2>1, <3>1
    <2>3. b \in Around(doc, i)
      <3>1. \A m \in b + 1 .. i : Level(doc, b) < Level(doc, m)
        BY <1>1, <1>4, <1>6, <2>2, InsideIs
      <3>2. b \in 1 .. i - 1
        BY <1>1, <1>4, <2>2
      <3>3. \A m \in b + 1 .. i : Level(doc, m) > Level(doc, b)
        <4> SUFFICES ASSUME NEW m \in b + 1 .. i PROVE Level(doc, m) > Level(doc, b)
          OBVIOUS
        <4>1. m \in 1 .. Len(doc) + 1
          BY <1>1, <1>4
        <4> QED  BY <1>0, <1>2, <3>1, <4>1
      <3> QED  BY <1>6, <3>2, <3>3 DEF Around
    <2>4. ASSUME NEW j \in Around(doc, i)
          PROVE  j = b
      <3>1. /\ j \in 1 .. i - 1 /\ j \in 1 .. Len(doc) + 1 /\ Level(doc, i) > Level(doc, j)
            /\ \A k \in j + 1 .. i : Level(doc, k) > Level(doc, j)
        BY <1>4 DEF Around
      <3>2. Level(doc, j) = 0
        BY <1>0, <2>1, <3>1
      <3>3. ~(j < b)
        <4> SUFFICES ASSUME j < b PROVE FALSE
          OBVIOUS
        <4>1. b \in j + 1 .. i
          BY <1>1, <1>4, <2>2, <3>1
        <4> QED  BY <1>2, <3>1, <3>2, <4>1
      <3>4. ~(b < j)
        <4> SUFFICES ASSUME b < j PROVE FALSE
          OBVIOUS
        <4>1. j \in b + 1 .. i
          BY <1>1, <1>4, <3>1
        <4>2. Level(doc, b) < Level(doc, j)
          BY <1>1, <1>4, <1>6, <2>2, <4>1, InsideIs
        <4> QED  BY <1>2, <3>2, <4>2
      <3> QED  BY <1>1, <3>1, <3>3, <3>4
    <2> QED  BY <1>6, <2>3, <2>4
  <1> QED  BY <1>5, <1>6

\* What dm (player: without secrets) shows are the contents of the blocks of the document.
LEMMA VisibleIs ==
  ASSUME NEW doc \in Seq(AnyLine), Balanced(doc), NEW kind \in {"dm", "player"}, NEW i
  PROVE  i \in Visible(doc, kind) <=>
           \E b \in Tops(doc) : (kind = "player" => doc[b].kind # "secret") /\ i \in ContentOf(doc, b)
  <1>0. \A k \in 1 .. Len(doc) + 1 : Level(doc, k) \in Int /\ Level(doc, k) >= 0
    BY LevelTyped DEF Balanced
  <1>00. Level(doc, 1) = 0
    <2>1. 1 \in 1 .. Len(doc) + 1
      OBVIOUS
    <2> QED  BY <2>1, LevelTyped
  <1>1. ASSUME NEW b \in Tops(doc)
        PROVE  b \in DOMAIN doc /\ doc[b] \in AnyLine /\ doc[b].kind # "close" /\ Level(doc, b) = 0
    <2>1. b \in DOMAIN doc /\ Begins(doc, 1, b) /\ Level(doc, b) = Level(doc, 1)
      BY DEF Tops, Starts
    <2> QED  BY <1>00, <2>1 DEF Begins, Opens
  <1>2. ASSUME NEW b \in Tops(doc), kind = "player" => doc[b].kind # "secret", i \in ContentOf(doc, b)
        PROVE  i \in Visible(doc, kind)
    <2>1. i \in TextLines(doc)
      BY <1>1, <1>2, ContentIs DEF TextLines
    <2>2. \A j : j \in Around(doc, i) <=> Opens(doc[b]) /\ j = b
      BY <1>2, AroundTop
    <2>3. doc[b] # Secret \/ doc[b].kind = "secret"
      BY <1>1, LineIs
    <2>4. kind = "player" => \A j \in Around(doc, i) : doc[j] # Secret
      BY <1>2, <2>2, <2>3
    <2> QED  BY <2>1, <2>2, <2>4 DEF Visible
  <1>3. ASSUME i \in Visible(doc, kind)
        PROVE  \E b \in Tops(doc) : (kind = "player" => doc[b].kind # "secret") /\ i \in ContentOf(doc, b)
    <2>1. /\ i \in DOMAIN doc /\ doc[i].kind = "text" /\ i \in 1 .. (Len(doc) + 1) - 1
          /\ i \in 1 .. Len(doc) /\ i \in 1 .. Len(doc) + 1
          /\ \A j, k \in Around(doc, i) : j = k
          /\ kind = "player" => \A j \in Around(doc, i) : doc[j] # Secret
      BY <1>3 DEF Visible, TextLines
    <2>2. Room(doc, 1, Len(doc) + 1)
      BY RoomOfAll
    <2>3. PICK b \in Tops(doc) : i \in b .. LastOf(doc, b)
      BY <2>1, <2>2, RoomIs DEF Tops
    <2>4. i \in ContentOf(doc, b)
      <3>1. CASE ~Opens(doc[b])
        BY <2>3, <3>1 DEF ContentOf, LastOf
      <3>2. CASE Opens(doc[b])
        <4>1. i # b /\ b < i /\ i <= EndOf(doc, b) /\ EndOf(doc, b) \in b + 1 .. Len(doc)
              /\ doc[EndOf(doc, b)].kind = "close"
          <5>1. i # b
            BY <2>1, <3>2 DEF Opens
          <5>2. EndOf(doc, b) \in b + 1 .. Len(doc) /\ doc[EndOf(doc, b)].kind = "close"
            BY <1>1, <3>2, FenceIs
          <5>3. b \in Int
            BY <1>1
          <5> QED  BY <2>3, <3>2, <5>1, <5>2, <5>3 DEF LastOf
        <4>2. \A m \in b + 1 .. i : Level(doc, b) < Level(doc, m)
          BY <1>1, <2>1, <3>2, <4>1, InsideIs
        <4>3. b \in 1 .. i - 1 /\ b + 1 \in 1 .. i /\ i \in b + 1 .. i
          BY <1>1, <2>1, <4>1
        <4>4. b \in Around(doc, i)
          <5>1. \A m \in b + 1 .. i : Level(doc, m) > Level(doc, b)
            <6> SUFFICES ASSUME NEW m \in b + 1 .. i PROVE Level(doc, m) > Level(doc, b)
              OBVIOUS
            <6>1. m \in 1 .. Len(doc) + 1
              BY <2>1, <4>3
            <6> QED  BY <1>0, <1>1, <4>2, <6>1
          <5> QED  BY <3>2, <4>3, <5>1 DEF Around
        <4>5. Level(doc, b + 1) = 1
          BY <1>1, <3>2, FenceIs
        <4>6. ~(1 < Level(doc, i))
          <5> SUFFICES ASSUME 1 < Level(doc, i) PROVE FALSE
            OBVIOUS
          <5>1. PICK j \in b + 1 .. i - 1 : /\ Opens(doc[j]) /\ Level(doc, j) = 1
                                            /\ \A m \in j + 1 .. i : 1 < Level(doc, m)
            <6>1. Level(doc, b + 1) <= 1 /\ 1 \in Int
              BY <4>5
            <6> QED  BY <2>1, <4>3, <6>1, OpenBefore
          <5>2. j \in Around(doc, i)
            <6>1. j \in 1 .. i - 1
              BY <4>3, <5>1
            <6>2. \A m \in j + 1 .. i : Level(doc, m) > Level(doc, j)
              <7> SUFFICES ASSUME NEW m \in j + 1 .. i PROVE Level(doc, m) > Level(doc, j)
                OBVIOUS
              <7>1. m \in 1 .. Len(doc) + 1
                BY <2>1, <6>1
              <7> QED  BY <1>0, <5>1, <7>1
            <6> QED  BY <5>1, <6>1, <6>2 DEF Around
          <5>3. j # b
            BY <4>3, <5>1
          <5> QED  BY <2>1, <4>4, <5>2, <5>3
        <4>7. Level(doc, i) = Level(doc, b) + 1
          <5>1. Level(doc, b) < Level(doc, i)
            BY <4>2, <4>3
          <5> QED  BY <1>0, <1>1, <2>1, <4>6, <5>1
        <4>8. i \in b + 1 .. EndOf(doc, b) - 1
          <5>1. i # EndOf(doc, b)
            BY <2>1, <4>1
          <5>2. b \in Int
            BY <1>1
          <5> QED  BY <2>1, <4>1, <5>1, <5>2
        <4> QED  BY <1>1, <2>1, <3>2, <4>7, <4>8, DirectlyIs DEF ContentOf
      <3> QED  BY <3>1, <3>2
    <2>5. kind = "player" => doc[b].kind # "secret"
      <3> SUFFICES ASSUME kind = "player", doc[b].kind = "secret" PROVE FALSE
        OBVIOUS
      <3>1. Opens(doc[b]) /\ doc[b] = Secret
        <4>1. Opens(doc[b])
          BY DEF Opens
        <4> QED  BY <1>1, <4>1, LineIs
      <3>2. b \in Around(doc, i)
        BY <2>4, <3>1, AroundTop
      <3> QED  BY <2>1, <3>1, <3>2
    <2> QED  BY <2>4, <2>5
  <1> QED  BY <1>2, <1>3

\* The contents of some blocks of the document, one after the other.
LEMMA ContentsAre ==
  ASSUME NEW doc \in Seq(AnyLine), Balanced(doc), NEW S, S \subseteq Tops(doc), NEW s, Lists(s, S)
  PROVE  /\ Lists(FlattenSeq([i \in DOMAIN s |-> Content(doc, s[i])]), UNION {ContentOf(doc, b) : b \in S})
         /\ [i \in DOMAIN s |-> Content(doc, s[i])] \in Seq(Seq(DOMAIN doc))
  <1> DEFINE n == Len(s)
             ss == [i \in 1 .. n |-> Content(doc, s[i])]
             SS == [i \in 1 .. n |-> ContentOf(doc, s[i])]
             U == UNION {ContentOf(doc, b) : b \in S}
  <1>1. /\ n \in Nat /\ DOMAIN s = 1 .. n /\ \A i \in 1 .. n : s[i] \in S
        /\ \A i, j \in 1 .. n : i < j => s[i] < s[j]
        /\ \A x \in S : \E i \in 1 .. n : x = s[i]
    BY ListsAt
  <1>2. ASSUME NEW b \in S
        PROVE  /\ b \in DOMAIN doc /\ b \in Starts(doc, 1, Len(doc) + 1)
               /\ Lists(Content(doc, b), ContentOf(doc, b))
               /\ \A i \in ContentOf(doc, b) : i \in b .. LastOf(doc, b) /\ i \in DOMAIN doc
    <2>1. b \in DOMAIN doc /\ Begins(doc, 1, b) /\ b \in Starts(doc, 1, Len(doc) + 1)
      BY DEF Tops, Starts
    <2>2. doc[b].kind # "close"
      BY <2>1 DEF Begins, Opens
    <2> QED  BY <2>1, <2>2, ContentIs
  <1>3. ASSUME NEW b \in S, NEW c \in S, b < c, NEW x \in ContentOf(doc, b), NEW y \in ContentOf(doc, c)
        PROVE  x < y
    <2>1. LastOf(doc, b) \in b .. Len(doc) /\ LastOf(doc, b) < c /\ b \in Int /\ c \in Int
      <3>1. 1 \in 1 .. Len(doc) + 1 /\ Len(doc) + 1 \in 1 .. Len(doc) + 1
        OBVIOUS
      <3> QED  BY <1>2, <1>3, <3>1, BlockBefore
    <2>2. x \in b .. LastOf(doc, b) /\ y \in c .. LastOf(doc, c)
      BY <1>2
    <2> QED  BY <2>1, <2>2
  <1>4. \A i \in 1 .. n : Lists(ss[i], SS[i])
    BY <1>1, <1>2
  <1>5. \A i, j \in 1 .. n : i < j => \A x \in SS[i], y \in SS[j] : x < y
    BY <1>1, <1>3
  <1>6. \A x : x \in U <=> \E i \in 1 .. n : x \in SS[i]
    BY <1>1
  <1>7. DOMAIN ss = 1 .. n /\ ss = [i \in 1 .. n |-> ss[i]]
    OBVIOUS
  <1>8. [i \in DOMAIN s |-> Content(doc, s[i])] = ss
    BY <1>1
  <1>9. ss \in Seq(Seq(DOMAIN doc))
    <2>1. ASSUME NEW i \in 1 .. n
          PROVE  ss[i] \in Seq(DOMAIN doc)
      <3>1. Lists(Content(doc, s[i]), ContentOf(doc, s[i])) /\ \A k \in ContentOf(doc, s[i]) : k \in DOMAIN doc
        BY <1>1, <1>2
      <3> DEFINE c == Content(doc, s[i])
      <3>2. /\ c \in Seq(Nat) /\ Len(c) \in Nat /\ DOMAIN c = 1 .. Len(c)
            /\ \A k \in 1 .. Len(c) : c[k] \in ContentOf(doc, s[i])
        BY <3>1, ListsAt
      <3>3. ss[i] = c
        OBVIOUS
      <3> HIDE DEF c, ss
      <3>4. c \in [1 .. Len(c) -> DOMAIN doc]
        BY <3>1, <3>2
      <3> QED  BY <3>2, <3>3, <3>4
    <2>2. ss \in [1 .. n -> Seq(DOMAIN doc)]
      BY <2>1
    <2> HIDE DEF ss, n
    <2> QED  BY <1>1, <2>2
  <1> HIDE DEF ss, SS, U, n
  <1>10. Lists(FlattenSeq(ss), U)
    BY <1>1, <1>4, <1>5, <1>6, <1>7, ListsFlatten
  <1> QED  BY <1>8, <1>9, <1>10 DEF U

-----------------------------------------------------------------------------
(* Cards.                                                                  *)

LEMMA CollectIs ==
  ASSUME NEW doc \in Seq(AnyLine), Balanced(doc), NEW f
  PROVE  /\ Lists(CollectCards(doc, Parse(doc).blocks, f), CardsOf(doc, f))
         /\ CollectCards(doc, Parse(doc).blocks, f) = InOrder(CardsOf(doc, f))
  <1> DEFINE flat == Flat(doc, Parse(doc).blocks)
             F == Tops(doc) \cup {k \in DOMAIN doc : Opens(doc[k])}
             C == {b \in DOMAIN doc : doc[b] = Card(f)}
             s == CollectCards(doc, Parse(doc).blocks, f)
  <1>1. Lists(flat, F)
    BY FlatIs
  <1>2. s = Among(flat, C)
    BY DEF CollectCards
  <1>3. Lists(s, F \cap C)
    <2> HIDE DEF flat, F, C, s
    <2> QED  BY <1>1, <1>2, ListsAmong
  <1>4. \A x : x \in F \cap C <=> x \in CardsOf(doc, f)
    <2>1. Opens(Card(f))
      BY DEF Opens, Card
    <2> QED  BY <2>1 DEF CardsOf
  <1> HIDE DEF F, C, s
  <1>5. Lists(s, CardsOf(doc, f))
    BY <1>3, <1>4, ListsSame
  <1>6. InOrder(CardsOf(doc, f)) = s
    BY <1>5, ListsIs
  <1> QED  BY <1>5, <1>6 DEF s

LEMMA CollectNothing ==
  ASSUME NEW doc, NEW f
  PROVE  CollectCards(doc, << >>, f) = << >> /\ Flat(doc, << >>) = << >>
  <1> DEFINE flat[block \in DOMAIN doc] ==
                LET nested == Blocks(doc, block)
                IN <<block>> \o FlattenSeq([i \in DOMAIN nested |-> flat[nested[i]]])
  <1>1. Flat(doc, << >>) = FlattenSeq([i \in DOMAIN << >> |-> flat[<< >>[i]]])
    BY DEF Flat, flat
  <1> HIDE DEF flat
  <1>2. [i \in DOMAIN << >> |-> flat[<< >>[i]]] = << >>
    OBVIOUS
  <1>3. Flat(doc, << >>) = << >>
    BY <1>1, <1>2, FlattenEmpty
  <1> DEFINE S == {b \in DOMAIN doc : doc[b] = Card(f)}
  <1>4. Among(<< >>, S) = << >>
    <2>1. [i \in DOMAIN << >> |-> IF << >>[i] \in S THEN << << >>[i] >> ELSE << >>] = << >>
      OBVIOUS
    <2> QED  BY <2>1, FlattenEmpty DEF Among
  <1> QED  BY <1>3, <1>4 DEF CollectCards

LEMMA ValidFacetsAre ==
  ASSUME NEW doc \in Seq(AnyLine), Balanced(doc)
  PROVE  ValidFacets(doc, Parse(doc).blocks, Vocabulary) <=> DeclaredFacets(doc)
  <1> DEFINE flat == Flat(doc, Parse(doc).blocks)
             F == Tops(doc) \cup {k \in DOMAIN doc : Opens(doc[k])}
  <1>1. \A x : x \in ToSet(flat) <=> x \in F
    <2>1. Lists(flat, F)
      BY FlatIs
    <2> HIDE DEF flat, F
    <2> QED  BY <2>1 DEF Lists
  <1>2. ASSUME NEW b \in F PROVE b \in DOMAIN doc
    BY DEF Tops, Starts
  <1>3. \A b \in DOMAIN doc : doc[b].kind = "card" => b \in F
    BY DEF Opens
  <1> HIDE DEF F, flat
  <1>4. ValidFacets(doc, Parse(doc).blocks, Vocabulary) <=>
          \A b \in ToSet(flat) : doc[b].kind = "card" => doc[b].facet \in Vocabulary
    BY DEF ValidFacets, flat
  <1> QED  BY <1>1, <1>2, <1>3, <1>4 DEF DeclaredFacets

\* The first card is at the least line, and its content the text directly in it.
LEMMA CardContentIs ==
  ASSUME NEW doc \in Seq(AnyLine), Balanced(doc), NEW f, CardsOf(doc, f) # {}
  PROVE  CardContent(doc, f) = InOrder(Directly(doc, Least(CardsOf(doc, f))))
  <1> DEFINE s == CardsIn(doc, f)
             j == Least(CardsOf(doc, f))
  <1>1. Lists(s, CardsOf(doc, f))
    BY CollectIs DEF CardsIn
  <1> HIDE DEF s
  <1>2. /\ s \in Seq(Nat) /\ Len(s) \in Nat /\ DOMAIN s = 1 .. Len(s)
        /\ \A i \in 1 .. Len(s) : s[i] \in CardsOf(doc, f) /\ s[i] \in Nat
        /\ \A i, k \in 1 .. Len(s) : i < k => s[i] < s[k]
        /\ \A x \in CardsOf(doc, f) : x \in Nat /\ \E i \in 1 .. Len(s) : x = s[i]
    BY <1>1, ListsAt
  <1>3. 1 \in 1 .. Len(s)
    BY <1>2
  <1>4. \A x \in CardsOf(doc, f) : s[1] <= x
    <2> SUFFICES ASSUME NEW i \in 1 .. Len(s) PROVE s[1] <= s[i]
      BY <1>2
    <2>1. i = 1 \/ 1 < i
      OBVIOUS
    <2> QED  BY <1>2, <1>3, <2>1
  <1>5. j = s[1]
    <2>1. CardsOf(doc, f) \subseteq Nat /\ s[1] \in CardsOf(doc, f)
      BY <1>2, <1>3
    <2> QED  BY <1>4, <2>1, LeastIs
  <1>6. Head(s) = s[1]
    BY <1>2, <1>3
  <1>7. j \in DOMAIN doc /\ doc[j] = Card(f)
    BY <1>2, <1>3, <1>5 DEF CardsOf
  <1> HIDE DEF j
  <1>8. Opens(doc[j]) /\ doc[j].kind # "close"
    BY <1>7 DEF Opens, Card
  <1>9. Lists(Content(doc, j), Directly(doc, j))
    BY <1>7, <1>8, ContentIs DEF ContentOf
  <1>10. InOrder(Directly(doc, j)) = Content(doc, j)
    BY <1>9, ListsIs
  <1>11. CardContent(doc, f) = Content(doc, j)
    BY <1>5, <1>6 DEF CardContent, s
  <1> QED  BY <1>10, <1>11 DEF j

LEMMA CardsInIs ==
  ASSUME NEW doc \in Seq(AnyLine), NEW f
  PROVE  CardsIn(doc, f) # << >> <=> Balanced(doc) /\ CardsOf(doc, f) # {}
  <1>1. CASE Balanced(doc)
    <2> DEFINE s == CardsIn(doc, f)
    <2>1. Lists(s, CardsOf(doc, f))
      BY <1>1, CollectIs DEF CardsIn
    <2> HIDE DEF s
    <2>2. /\ s \in Seq(Nat) /\ Len(s) \in Nat
          /\ \A i \in 1 .. Len(s) : s[i] \in CardsOf(doc, f)
          /\ \A x \in CardsOf(doc, f) : \E i \in 1 .. Len(s) : x = s[i]
      BY <2>1, ListsAt
    <2>3. s # << >> => 1 \in 1 .. Len(s)
      BY <2>2
    <2>4. s = << >> => 1 .. Len(s) = {}
      OBVIOUS
    <2>5. s # << >> <=> CardsOf(doc, f) # {}
      BY <2>2, <2>3, <2>4
    <2> QED  BY <1>1, <2>5 DEF s
  <1>2. CASE ~Balanced(doc)
    BY <1>2, ParseOfUnbalanced, CollectNothing DEF CardsIn
  <1> QED  BY <1>1, <1>2

-----------------------------------------------------------------------------
(* Links.                                                                  *)

LEMMA ProjectIs ==
  ASSUME project \in Projects, NEW entry \in DOMAIN project
  PROVE  project[entry] \in Seq(AnyLine) /\ entry \in Names
  BY ViewsAssumption

\* What becomes of a link in a card view.
LEMMA DecisionIs ==
  ASSUME project \in Projects, NEW to, NEW f, NEW quick
  PROVE  Decision(project, to, View("card", f, quick), 0) =
           IF HasCard(to, f) THEN "expanded" ELSE IF to \in DOMAIN project THEN "lacks" ELSE "gone"
  <1> DEFINE view == View("card", f, quick)
  <1>1. view.kind = "card" /\ view.facet = f
    BY DEF View
  <1> HIDE DEF view
  <1>2. CASE to \notin DOMAIN project
    BY <1>2 DEF Decision, HasCard
  <1>3. CASE to \in DOMAIN project
    <2>1. project[to] \in Seq(AnyLine)
      BY <1>3, ProjectIs
    <2>2. CardsIn(project[to], f) # << >> <=> HasCard(to, f)
      BY <1>3, <2>1, CardsInIs DEF HasCard
    <2> QED  BY <1>1, <1>3, <2>2 DEF Decision, view
  <1> QED  BY <1>2, <1>3

LEMMA InlineOfCard ==
  ASSUME project \in Projects, NEW to, NEW f, NEW quick
  PROVE  /\ Inline(project, to, View("card", f, quick), 0, "links") = CardLink(to, f)
         /\ Inline(project, to, View("card", f, quick), 1, "links") = IF to = NoLink THEN "none" ELSE "link"
  <1>1. View("card", f, quick).kind = "card"
    BY DEF View
  <1>2. Decision(project, to, View("card", f, quick), 1) = "gone"
    BY DEF Decision
  <1>3. Inline(project, to, View("card", f, quick), 0, "links") = CardLink(to, f)
    <2>1. HasCard(to, f) => to \in DOMAIN project
      BY DEF HasCard
    <2> QED  BY <1>1, <2>1, DecisionIs DEF Inline, CardLink
  <1> QED  BY <1>1, <1>2, <1>3 DEF Inline

LEMMA InlineOfOther ==
  ASSUME NEW p, NEW to, NEW kind \in {"dm", "player"}, NEW quick, NEW depth, NEW renderer
  PROVE  /\ Decision(p, to, View(kind, NoFacet, quick), depth) = "gone"
         /\ Inline(p, to, View(kind, NoFacet, quick), depth, renderer) =
              IF to = NoLink THEN "none"
              ELSE IF kind = "player" \/ renderer = "labels" THEN "label" ELSE "link"
  <1>1. View(kind, NoFacet, quick).kind = kind
    BY DEF View
  <1>2. Decision(p, to, View(kind, NoFacet, quick), depth) = "gone"
    BY <1>1 DEF Decision
  <1> QED  BY <1>1, <1>2 DEF Inline

-----------------------------------------------------------------------------
(* Rendering.                                                              *)

\* How a line of an entry is shown.
ShownAs(entry, view, renderer) ==
    [l \in DOMAIN project[entry] |->
        [entry |-> entry, line |-> l, link |-> Inline(project, project[entry][l].to, view, 0, renderer)]]

LEMMA RenderBlockOther ==
  ASSUME project \in Projects, NEW entry \in DOMAIN project, NEW kind \in {"dm", "player"}, NEW quick,
         NEW renderer, NEW b, Content(project[entry], b) \in Seq(DOMAIN project[entry])
  PROVE  RenderBlock(project, entry, b, View(kind, NoFacet, quick), renderer)
         = Each(Content(project[entry], b), ShownAs(entry, View(kind, NoFacet, quick), renderer))
  <1> DEFINE doc == project[entry]
             view == View(kind, NoFacet, quick)
             F == ShownAs(entry, view, renderer)
             T == {F[l] : l \in DOMAIN doc}
             lines == Content(doc, b)
             none(i) == LET to == doc[lines[i]].to
                        IN IF doc[b].kind = "card" /\ Decision(project, to, view, 0) = "expanded"
                           THEN Lines(project, to, CardContent(project[to], view.facet), view, 1, renderer)
                           ELSE << >>
             ss == [i \in DOMAIN lines |-> none(i)]
  <1>1. lines \in Seq(DOMAIN doc) /\ Len(lines) \in Nat /\ DOMAIN lines = 1 .. Len(lines)
        /\ \A i \in DOMAIN lines : lines[i] \in DOMAIN doc
    OBVIOUS
  <1>2. \A to : Decision(project, to, view, 0) = "gone"
    <2> SUFFICES ASSUME NEW to PROVE Decision(project, to, view, 0) = "gone"
      OBVIOUS
    <2>1. view.kind = kind
      BY DEF View
    <2> HIDE DEF view
    <2> QED  BY <2>1 DEF Decision
  <1>3. RenderBlock(project, entry, b, view, renderer) = Lines(project, entry, lines, view, 0, renderer) \o FlattenSeq(ss)
    BY DEF RenderBlock
  <1> HIDE DEF view
  <1>4. \A i \in DOMAIN lines : none(i) = << >>
    BY <1>2
  <1> HIDE DEF none
  <1>5. FlattenSeq(ss) = << >>
    <2>1. ss \in [1 .. Len(lines) -> Seq(T)] /\ DOMAIN ss = 1 .. Len(lines)
      <3>1. << >> \in Seq(T)
        OBVIOUS
      <3> HIDE DEF T, lines
      <3> QED  BY <1>1, <1>4, <3>1
    <2>2. ss \in Seq(Seq(T)) /\ \A i \in DOMAIN ss : ss[i] = << >>
      <3> HIDE DEF T, lines
      <3> QED  BY <1>1, <1>4, <2>1
    <2> HIDE DEF ss, T
    <2> QED  BY <2>2, FlattenNothing
  <1>6. Lines(project, entry, lines, view, 0, renderer) = Each(lines, F)
    <2>1. \A i \in DOMAIN lines : F[lines[i]] =
            [entry |-> entry, line |-> lines[i], link |-> Inline(project, doc[lines[i]].to, view, 0, renderer)]
      <3> HIDE DEF lines
      <3> QED  BY <1>1 DEF ShownAs
    <2> HIDE DEF lines, F
    <2> QED  BY <2>1 DEF Lines, Each
  <1>7. Each(lines, F) \in Seq(T)
    <2>1. \A i \in DOMAIN lines : F[lines[i]] \in T
      <3> HIDE DEF lines, F
      <3> QED  BY <1>1
    <2>2. Each(lines, F) \in [1 .. Len(lines) -> T]
      <3> HIDE DEF lines, F, T
      <3> QED  BY <1>1, <2>1 DEF Each
    <2> HIDE DEF T, lines
    <2> QED  BY <1>1, <2>2
  <1> HIDE DEF ss, lines, F, T
  <1>8. Each(lines, F) \o << >> = Each(lines, F)
    BY <1>7
  <1> QED  BY <1>3, <1>5, <1>6, <1>8 DEF lines, F, view

\* Blocks s of the document, those in S, are rendered as their contents, in order.
RenderedAs(entry, view, renderer, s, S) ==
    LET F == ShownAs(entry, view, renderer)
        T == {F[l] : l \in DOMAIN project[entry]}
    IN /\ Render(project, entry, s, view, renderer)
          = Each(InOrder(UNION {ContentOf(project[entry], b) : b \in S}), F)
       /\ [i \in DOMAIN s |-> RenderBlock(project, entry, s[i], view, renderer)] \in Seq(Seq(T))
       /\ Render(project, entry, s, view, renderer) \in Seq(T)

LEMMA RenderOther ==
  ASSUME project \in Projects, NEW entry \in DOMAIN project, Balanced(project[entry]),
         NEW kind \in {"dm", "player"}, NEW quick, NEW renderer,
         NEW S, S \subseteq Tops(project[entry]), NEW s, Lists(s, S)
  PROVE  RenderedAs(entry, View(kind, NoFacet, quick), renderer, s, S)
  <1> DEFINE doc == project[entry]
             view == View(kind, NoFacet, quick)
             F == ShownAs(entry, view, renderer)
             T == {F[l] : l \in DOMAIN doc}
             ss == [i \in DOMAIN s |-> Content(doc, s[i])]
             U == UNION {ContentOf(doc, b) : b \in S}
             rr == [i \in DOMAIN s |-> RenderBlock(project, entry, s[i], view, renderer)]
  <1>1. doc \in Seq(AnyLine)
    BY ProjectIs
  <1>2. Lists(FlattenSeq(ss), U) /\ ss \in Seq(Seq(DOMAIN doc))
    BY <1>1, ContentsAre
  <1>3. Len(s) \in Nat /\ DOMAIN s = 1 .. Len(s)
    BY ListsAt
  <1>4. DOMAIN ss = DOMAIN s /\ \A i \in DOMAIN s : ss[i] = Content(doc, s[i])
    OBVIOUS
  <1>5. \A i \in DOMAIN s : Content(doc, s[i]) \in Seq(DOMAIN doc)
    BY <1>2, <1>4
  <1>6. \A i \in DOMAIN s : rr[i] = Each(ss[i], F)
    <2> SUFFICES ASSUME NEW i \in DOMAIN s
                 PROVE  RenderBlock(project, entry, s[i], view, renderer) = Each(Content(doc, s[i]), F)
      BY <1>4
    <2> QED  BY <1>5, RenderBlockOther
  <1>7. rr = [i \in DOMAIN ss |-> Each(ss[i], F)]
    BY <1>4, <1>6
  <1> HIDE DEF ss, rr
  <1>8. F \in [DOMAIN doc -> T]
    <2>1. F = [l \in DOMAIN doc |-> F[l]]
      BY DEF ShownAs
    <2> HIDE DEF F
    <2> QED  BY <2>1
  <1> HIDE DEF F, T
  <1>9. /\ FlattenSeq([i \in DOMAIN ss |-> Each(ss[i], F)]) = Each(FlattenSeq(ss), F)
        /\ Each(FlattenSeq(ss), F) \in Seq(T)
    BY <1>2, <1>8, FlattenEach
  <1>10. InOrder(U) = FlattenSeq(ss)
    BY <1>2, ListsIs
  <1>11. Render(project, entry, s, view, renderer) = FlattenSeq(rr)
    BY DEF Render, rr
  <1>12. rr \in Seq(Seq(T))
    <2>1. \A i \in DOMAIN ss : Each(ss[i], F) \in Seq(T)
      <3> SUFFICES ASSUME NEW i \in DOMAIN ss PROVE Each(ss[i], F) \in Seq(T)
        OBVIOUS
      <3>1. ss[i] \in Seq(DOMAIN doc)
        BY <1>4, <1>5
      <3> DEFINE c == ss[i]
      <3>2. c \in Seq(DOMAIN doc) /\ Len(c) \in Nat /\ DOMAIN c = 1 .. Len(c) /\ \A k \in DOMAIN c : c[k] \in DOMAIN doc
        BY <3>1
      <3> HIDE DEF c
      <3>3. \A k \in DOMAIN c : F[c[k]] \in T
        BY <1>8, <3>2
      <3>4. Each(c, F) \in [1 .. Len(c) -> T]
        BY <3>2, <3>3 DEF Each
      <3>5. Each(c, F) \in Seq(T)
        BY <3>2, <3>4
      <3> QED  BY <3>5 DEF c
    <2>2. rr \in [1 .. Len(s) -> Seq(T)]
      BY <1>3, <1>4, <1>7, <2>1
    <2> QED  BY <1>3, <2>2
  <1>13. Render(project, entry, s, view, renderer) = Each(InOrder(U), F)
    BY <1>7, <1>9, <1>10, <1>11
  <1>14. Render(project, entry, s, view, renderer) \in Seq(T)
    BY <1>7, <1>9, <1>11
  <1> QED  BY <1>12, <1>13, <1>14 DEF rr, F, T, U, RenderedAs

\* A card view: the cards at their lines, each with what it is to show.
LEMMA RenderCard ==
  ASSUME project \in Projects, NEW entry \in DOMAIN project, Balanced(project[entry]),
         NEW f, NEW b \in CardsOf(project[entry], f)
  PROVE  RenderBlock(project, entry, b, View("card", f, FALSE), "links") = ShownCard(entry, b, f)
  <1> DEFINE doc == project[entry]
             view == View("card", f, FALSE)
             own == InOrder(Directly(doc, b))
             more(i) == IF HasCard(doc[own[i]].to, f) THEN Expansion(doc[own[i]].to, f) ELSE << >>
             rendered(i) == LET to == doc[own[i]].to
                            IN IF doc[b].kind = "card" /\ Decision(project, to, view, 0) = "expanded"
                               THEN Lines(project, to, CardContent(project[to], view.facet), view, 1, "links")
                               ELSE << >>
  <1>1. doc \in Seq(AnyLine)
    BY ProjectIs
  <1>2. b \in DOMAIN doc /\ doc[b].kind = "card" /\ Opens(doc[b]) /\ doc[b].kind # "close"
    BY DEF CardsOf, Card, Opens
  <1>3. Content(doc, b) = own
    <2>1. Lists(Content(doc, b), Directly(doc, b))
      BY <1>1, <1>2, ContentIs DEF ContentOf
    <2> QED  BY <2>1, ListsIs
  <1>4. Lines(project, entry, own, view, 0, "links") =
          [k \in DOMAIN own |-> Shown(entry, own[k], CardLink(doc[own[k]].to, f))]
    <2>1. \A to : Inline(project, to, view, 0, "links") = CardLink(to, f)
      BY InlineOfCard
    <2> HIDE DEF own, view
    <2> QED  BY <2>1 DEF Lines, Shown
  <1>5. ASSUME NEW to, HasCard(to, f)
        PROVE  Lines(project, to, CardContent(project[to], f), view, 1, "links") = Expansion(to, f)
    <2>1. to \in DOMAIN project /\ Balanced(project[to]) /\ CardsOf(project[to], f) # {}
      BY <1>5 DEF HasCard
    <2>2. project[to] \in Seq(AnyLine)
      BY <2>1, ProjectIs
    <2> DEFINE lines == InOrder(Directly(project[to], Least(CardsOf(project[to], f))))
    <2>3. CardContent(project[to], f) = lines
      BY <2>1, <2>2, CardContentIs
    <2>4. \A x : Inline(project, x, view, 1, "links") = IF x = NoLink THEN "none" ELSE "link"
      BY InlineOfCard
    <2>5. Expansion(to, f) =
            [k \in DOMAIN lines |->
               Shown(to, lines[k], IF project[to][lines[k]].to = NoLink THEN "none" ELSE "link")]
      BY DEF Expansion
    <2> HIDE DEF lines, view
    <2> QED  BY <2>3, <2>4, <2>5 DEF Lines, Shown
  <1>6. view.facet = f
    BY DEF View
  <1>7. ASSUME NEW to
        PROVE  (IF doc[b].kind = "card" /\ Decision(project, to, view, 0) = "expanded"
                THEN Lines(project, to, CardContent(project[to], view.facet), view, 1, "links")
                ELSE << >>)
               = IF HasCard(to, f) THEN Expansion(to, f) ELSE << >>
    <2>1. Decision(project, to, view, 0) = "expanded" <=> HasCard(to, f)
      BY DecisionIs
    <2> HIDE DEF view
    <2> QED  BY <1>2, <1>5, <1>6, <2>1
  <1>8. RenderBlock(project, entry, b, view, "links") =
          Lines(project, entry, own, view, 0, "links") \o FlattenSeq([i \in DOMAIN own |-> rendered(i)])
    <2> HIDE DEF own
    <2> QED  BY <1>3 DEF RenderBlock
  <1>9. ShownCard(entry, b, f) =
          [k \in DOMAIN own |-> Shown(entry, own[k], CardLink(doc[own[k]].to, f))]
          \o FlattenSeq([i \in DOMAIN own |-> more(i)])
    BY DEF ShownCard
  <1>10. \A i \in DOMAIN own : rendered(i) = more(i)
    <2> HIDE DEF own, view
    <2> QED  BY <1>7
  <1> HIDE DEF more, rendered
  <1>11. [i \in DOMAIN own |-> rendered(i)] = [i \in DOMAIN own |-> more(i)]
    <2> HIDE DEF own
    <2> QED  BY <1>10
  <1> HIDE DEF own, view
  <1> QED  BY <1>4, <1>8, <1>9, <1>11 DEF view

-----------------------------------------------------------------------------
(* What a request for an entry is answered.                                *)

LEMMA FragmentOfUnbalanced ==
  ASSUME project \in Projects, NEW entry \in DOMAIN project, ~Balanced(project[entry]), NEW view
  PROVE  /\ Load(project, entry, view, Vocabulary) = Error("400")
         /\ Fragment(project, entry, view, Vocabulary) = Error("400")
  <1>1. Parse(project[entry]).bad # 0
    BY ProjectIs, ParseOfUnbalanced
  <1>2. Load(project, entry, view, Vocabulary) = Error("400")
    BY <1>1 DEF Load
  <1> QED  BY <1>2 DEF Fragment, Error

LEMMA LoadOfBalanced ==
  ASSUME project \in Projects, NEW entry \in DOMAIN project, Balanced(project[entry]), NEW view
  PROVE  Load(project, entry, view, Vocabulary) =
           IF ~DeclaredFacets(project[entry]) \/ (view.kind = "card" /\ view.facet \notin Vocabulary)
           THEN Error("422")
           ELSE Answer(Filter(project[entry], Parse(project[entry]).blocks, view))
  <1>1. project[entry] \in Seq(AnyLine)
    BY ProjectIs
  <1>2. Parse(project[entry]).bad = 0
    BY <1>1, ParseOfBalanced
  <1>3. ValidFacets(project[entry], Parse(project[entry]).blocks, Vocabulary) <=> DeclaredFacets(project[entry])
    BY <1>1, ValidFacetsAre
  <1> QED  BY <1>2, <1>3 DEF Load, Unknown

\* The blocks that dm and player are left with.
TopsOf(doc, kind) == {b \in Tops(doc) : kind = "player" => doc[b].kind # "secret"}

LEMMA FilterIs ==
  ASSUME NEW doc \in Seq(AnyLine), Balanced(doc), NEW kind \in {"dm", "player"}
  PROVE  /\ Lists(Filter(doc, Parse(doc).blocks, View(kind, NoFacet, FALSE)), TopsOf(doc, kind))
         /\ Filter(doc, Parse(doc).blocks, View(kind, NoFacet, TRUE))
              = LET s == Filter(doc, Parse(doc).blocks, View(kind, NoFacet, FALSE))
                IN IF s = << >> THEN << >> ELSE <<s[1]>>
  <1> DEFINE blocks == Parse(doc).blocks
             kept == IF kind = "player" THEN StripSecrets(doc, blocks) ELSE blocks
  <1>1. Lists(blocks, Tops(doc))
    BY ParseOfBalanced
  <1> HIDE DEF blocks
  <1>2. \A b \in Tops(doc) : b \in DOMAIN doc
    BY DEF Tops, Starts
  <1>3. Lists(kept, TopsOf(doc, kind))
    <2>1. CASE kind = "dm"
      <3>1. \A x : x \in Tops(doc) <=> x \in TopsOf(doc, kind)
        BY <2>1 DEF TopsOf
      <3>2. kept = blocks
        BY <2>1
      <3> QED  BY <1>1, <3>1, <3>2, ListsSame
    <2>2. CASE kind = "player"
      <3> DEFINE N == {b \in DOMAIN doc : doc[b].kind # "secret"}
      <3>1. kept = Among(blocks, N)
        BY <2>2 DEF StripSecrets
      <3>2. \A x : x \in Tops(doc) \cap N <=> x \in TopsOf(doc, kind)
        BY <1>2, <2>2 DEF TopsOf
      <3> HIDE DEF N, kept
      <3>3. Lists(kept, Tops(doc) \cap N)
        BY <1>1, <3>1, ListsAmong
      <3> QED  BY <3>2, <3>3, ListsSame
    <2> QED  BY <2>1, <2>2
  <1>4. ASSUME NEW quick \in BOOLEAN
        PROVE  Filter(doc, blocks, View(kind, NoFacet, quick)) =
                 IF quick /\ kept # << >> THEN <<Head(kept)>> ELSE kept
    <2> DEFINE view == View(kind, NoFacet, quick)
    <2>1. view.kind = kind /\ view.quick = quick
      BY DEF View
    <2> HIDE DEF view
    <2>2. Filter(doc, blocks, view) = Quick(kept, view)
      BY <2>1 DEF Filter
    <2> HIDE DEF kept
    <2> QED  BY <2>1, <2>2 DEF Quick, view
  <1>5. kept \in Seq(Nat)
    BY <1>3 DEF Lists
  <1> HIDE DEF kept
  <1>6. kept # << >> => Head(kept) = kept[1]
    BY <1>5
  <1>7. Filter(doc, blocks, View(kind, NoFacet, FALSE)) = kept
    BY <1>4
  <1>8. Filter(doc, blocks, View(kind, NoFacet, TRUE)) = IF kept # << >> THEN <<Head(kept)>> ELSE kept
    BY <1>4
  <1>9. Filter(doc, blocks, View(kind, NoFacet, TRUE)) = IF kept = << >> THEN << >> ELSE <<kept[1]>>
    BY <1>6, <1>8
  <1> QED  BY <1>3, <1>7, <1>9 DEF blocks

LEMMA ViewIs ==
  /\ \A kind \in {"dm", "player"}, quick \in BOOLEAN : ParseView(kind, "", quick) = View(kind, NoFacet, quick)
  /\ \A f \in Vocabulary \cup CardFacets : ParseView("", f, FALSE) = View("card", f, FALSE)
  <1>1. \A f \in Vocabulary \cup CardFacets : f # ""
    BY ViewsAssumption DEF NoFacet
  <1>2. \A kind \in {"dm", "player"}, quick \in BOOLEAN : ParseView(kind, "", quick) = View(kind, NoFacet, quick)
    BY DEF ParseView
  <1> QED  BY <1>1, <1>2 DEF ParseView

\* Blocks s are rendered as the lines that are visible, in order.
VisibleAs(entry, kind, view, renderer, s) ==
    /\ Render(project, entry, s, view, renderer)
         = Each(InOrder(Visible(project[entry], kind)), ShownAs(entry, view, renderer))
    /\ \A i \in DOMAIN InOrder(Visible(project[entry], kind)) :
         InOrder(Visible(project[entry], kind))[i] \in DOMAIN project[entry]
    /\ InOrder(Visible(project[entry], kind)) \in Seq(Nat)

\* The text of dm or player, whatever the renderer.
LEMMA RenderVisible ==
  ASSUME project \in Projects, NEW entry \in DOMAIN project, Balanced(project[entry]),
         NEW kind \in {"dm", "player"}, NEW kind2 \in {"dm", "player"}, NEW renderer, NEW s,
         Lists(s, TopsOf(project[entry], kind))
  PROVE  VisibleAs(entry, kind, View(kind2, NoFacet, FALSE), renderer, s)
  <1> DEFINE doc == project[entry]
             S == TopsOf(doc, kind)
             U == UNION {ContentOf(doc, b) : b \in S}
  <1>1. doc \in Seq(AnyLine)
    BY ProjectIs
  <1>2. S \subseteq Tops(doc)
    BY DEF TopsOf
  <1>3. Render(project, entry, s, View(kind2, NoFacet, FALSE), renderer)
          = Each(InOrder(U), ShownAs(entry, View(kind2, NoFacet, FALSE), renderer))
    <2> DEFINE view == View(kind2, NoFacet, FALSE)
               F == ShownAs(entry, view, renderer)
               T == {F[l] : l \in DOMAIN project[entry]}
    <2>1. Lists(s, S) /\ S \subseteq Tops(project[entry])
      BY <1>2
    <2> HIDE DEF S
    <2>2. RenderedAs(entry, view, renderer, s, S)
      BY <2>1, RenderOther
    <2> QED  BY <2>2 DEF RenderedAs
  <1>4. U = Visible(doc, kind)
    <2>1. \A i : i \in U <=> i \in Visible(doc, kind)
      <3> SUFFICES ASSUME NEW i PROVE i \in U <=> i \in Visible(doc, kind)
        OBVIOUS
      <3>1. i \in Visible(doc, kind) <=>
              \E b \in Tops(doc) : (kind = "player" => doc[b].kind # "secret") /\ i \in ContentOf(doc, b)
        BY <1>1, VisibleIs
      <3> QED  BY <3>1 DEF TopsOf
    <2> QED  BY <2>1
  <1>5. Lists(FlattenSeq([i \in DOMAIN s |-> Content(doc, s[i])]), U)
    BY <1>1, <1>2, ContentsAre
  <1> HIDE DEF U
  <1>6. InOrder(U) = FlattenSeq([i \in DOMAIN s |-> Content(doc, s[i])])
    BY <1>5, ListsIs
  <1>7. Lists(InOrder(U), U)
    BY <1>5, <1>6
  <1>8. InOrder(U) \in Seq(Nat) /\ \A i \in DOMAIN InOrder(U) : InOrder(U)[i] \in U
    BY <1>7, ListsAt
  <1>9. \A i \in Visible(doc, kind) : i \in DOMAIN doc
    BY DEF Visible, TextLines
  <1> QED  BY <1>3, <1>4, <1>8, <1>9 DEF VisibleAs

LEMMA FragmentOther ==
  ASSUME project \in Projects, NEW entry \in DOMAIN project, NEW kind \in {"dm", "player"}
  PROVE  Fragment(project, entry, ParseView(kind, "", FALSE), Vocabulary) = Expected(entry, kind, NoFacet)
  <1> DEFINE doc == project[entry]
             view == View(kind, NoFacet, FALSE)
  <1>0. ParseView(kind, "", FALSE) = view
    BY ViewIs
  <1>1. doc \in Seq(AnyLine)
    BY ProjectIs
  <1>2. CASE ~Balanced(doc)
    <2>1. Fragment(project, entry, view, Vocabulary) = Error("400")
      BY <1>2, FragmentOfUnbalanced
    <2>2. Expected(entry, kind, NoFacet) = Error("400")
      BY <1>2 DEF Expected
    <2> QED  BY <1>0, <2>1, <2>2
  <1>3. CASE Balanced(doc) /\ ~DeclaredFacets(doc)
    <2>1. Load(project, entry, view, Vocabulary) = Error("422")
      BY <1>3, LoadOfBalanced
    <2>2. Fragment(project, entry, view, Vocabulary) = Error("422")
      <3> HIDE DEF view
      <3> QED  BY <2>1 DEF Fragment, Error
    <2>3. Expected(entry, kind, NoFacet) = Error("422")
      BY <1>3 DEF Expected
    <2> QED  BY <1>0, <2>2, <2>3
  <1>4. CASE Balanced(doc) /\ DeclaredFacets(doc)
    <2> DEFINE s == Filter(doc, Parse(doc).blocks, view)
               V == Visible(doc, kind)
               seq == InOrder(V)
               F == ShownAs(entry, view, "links")
    <2>1. Load(project, entry, view, Vocabulary) = Answer(s)
      <3>1. view.kind # "card"
        BY DEF View
      <3> HIDE DEF view
      <3> QED  BY <1>4, <3>1, LoadOfBalanced
    <2>2. Fragment(project, entry, view, Vocabulary) = Answer(Render(project, entry, s, view, "links"))
      <3> HIDE DEF s, view
      <3> QED  BY <2>1 DEF Fragment, Answer
    <2>3. Lists(s, TopsOf(doc, kind))
      BY <1>1, <1>4, FilterIs
    <2>4. Render(project, entry, s, view, "links") = Each(seq, F) /\ \A i \in DOMAIN seq : seq[i] \in DOMAIN doc
      <3> HIDE DEF s
      <3>1. VisibleAs(entry, kind, view, "links", s)
        BY <1>4, <2>3, RenderVisible
      <3> QED  BY <3>1 DEF VisibleAs
    <2>5. \A i \in DOMAIN seq : F[seq[i]] =
            Shown(entry, seq[i], IF doc[seq[i]].to = NoLink THEN "none"
                                 ELSE IF kind = "player" THEN "label" ELSE "link")
      <3>1. \A to : Inline(project, to, view, 0, "links") =
              IF to = NoLink THEN "none" ELSE IF kind = "player" THEN "label" ELSE "link"
        <4> SUFFICES ASSUME NEW to
                     PROVE  Inline(project, to, view, 0, "links") =
                              IF to = NoLink THEN "none" ELSE IF kind = "player" THEN "label" ELSE "link"
          OBVIOUS
        <4>1. view.kind = kind
          BY DEF View
        <4> HIDE DEF view
        <4>2. Decision(project, to, view, 0) = "gone"
          BY <4>1 DEF Decision
        <4> QED  BY <4>1, <4>2 DEF Inline
      <3> HIDE DEF seq, view
      <3> QED  BY <2>4, <3>1 DEF ShownAs, Shown
    <2>6. Each(seq, F) = ShownLines(entry, V, IF kind = "player" THEN "label" ELSE "link")
      <3>1. ShownLines(entry, V, IF kind = "player" THEN "label" ELSE "link") =
              [k \in DOMAIN seq |-> Shown(entry, seq[k], IF doc[seq[k]].to = NoLink THEN "none"
                                                         ELSE IF kind = "player" THEN "label" ELSE "link")]
        BY DEF ShownLines
      <3> HIDE DEF seq, F
      <3> QED  BY <2>5, <3>1 DEF Each
    <2>7. Expected(entry, kind, NoFacet) = Answer(ShownLines(entry, V, IF kind = "player" THEN "label" ELSE "link"))
      BY <1>4 DEF Expected
    <2> HIDE DEF s, F, seq, view
    <2> QED  BY <1>0, <2>2, <2>4, <2>6, <2>7
  <1> QED  BY <1>2, <1>3, <1>4

LEMMA FragmentCard ==
  ASSUME project \in Projects, NEW entry \in DOMAIN project, NEW f \in Vocabulary \cup CardFacets
  PROVE  Fragment(project, entry, ParseView("", f, FALSE), Vocabulary) = Expected(entry, "card", f)
  <1> DEFINE doc == project[entry]
             view == View("card", f, FALSE)
  <1>0. ParseView("", f, FALSE) = view
    BY ViewIs
  <1>1. doc \in Seq(AnyLine)
    BY ProjectIs
  <1>v. view.kind = "card" /\ view.facet = f /\ view.quick = FALSE
    BY DEF View
  <1>2. CASE ~Balanced(doc)
    <2>1. Fragment(project, entry, view, Vocabulary) = Error("400")
      BY <1>2, FragmentOfUnbalanced
    <2>2. Expected(entry, "card", f) = Error("400")
      BY <1>2 DEF Expected
    <2> QED  BY <1>0, <2>1, <2>2
  <1>3. CASE Balanced(doc) /\ (~DeclaredFacets(doc) \/ f \notin Vocabulary)
    <2>1. Load(project, entry, view, Vocabulary) = Error("422")
      <3> HIDE DEF view
      <3> QED  BY <1>3, <1>v, LoadOfBalanced
    <2>2. Fragment(project, entry, view, Vocabulary) = Error("422")
      <3> HIDE DEF view
      <3> QED  BY <2>1 DEF Fragment, Error
    <2>3. Expected(entry, "card", f) = Error("422")
      BY <1>3 DEF Expected
    <2> QED  BY <1>0, <2>2, <2>3
  <1>4. CASE Balanced(doc) /\ DeclaredFacets(doc) /\ f \in Vocabulary
    <2> DEFINE s == CollectCards(doc, Parse(doc).blocks, f)
               cards == InOrder(CardsOf(doc, f))
    <2>0. s = cards /\ Lists(s, CardsOf(doc, f))
      BY <1>1, <1>4, CollectIs
    <2>1. Load(project, entry, view, Vocabulary) = Answer(s)
      <3>1. Filter(doc, Parse(doc).blocks, view) = s
        <4> HIDE DEF view
        <4> QED  BY <1>v DEF Filter, Quick
      <3> HIDE DEF view
      <3> QED  BY <1>4, <1>v, <3>1, LoadOfBalanced
    <2>2. Fragment(project, entry, view, Vocabulary) = Answer(Render(project, entry, s, view, "links"))
      <3> HIDE DEF s, view
      <3> QED  BY <2>1 DEF Fragment, Answer
    <2>3. Render(project, entry, s, view, "links") =
            FlattenSeq([i \in DOMAIN cards |-> RenderBlock(project, entry, cards[i], view, "links")])
      <3> HIDE DEF s, cards
      <3> QED  BY <2>0 DEF Render
    <2>4. \A i \in DOMAIN cards : cards[i] \in CardsOf(doc, f)
      <3> HIDE DEF s, cards
      <3> QED  BY <2>0, ListsAt
    <2>5. \A i \in DOMAIN cards : RenderBlock(project, entry, cards[i], view, "links") = ShownCard(entry, cards[i], f)
      <3> HIDE DEF cards
      <3> QED  BY <1>4, <2>4, RenderCard
    <2>6. Expected(entry, "card", f) = Answer(FlattenSeq([k \in DOMAIN cards |-> ShownCard(entry, cards[k], f)]))
      BY <1>4 DEF Expected
    <2> HIDE DEF s, cards, view
    <2> QED  BY <1>0, <2>2, <2>3, <2>5, <2>6 DEF view
  <1> QED  BY <1>2, <1>3, <1>4

\* A line as dm and player show it.
ShownLine == [entry : Names, line : Nat, link : {"none", "label", "link"}]

\* Those lines of an entry, in order.
LinesAre(r, entry, lines, renderer) ==
    /\ r \in Seq(ShownLine) /\ Len(r) \in Nat /\ DOMAIN r = 1 .. Len(r)
    /\ Len(r) = Len(lines)
    /\ \A i \in 1 .. Len(r) : /\ r[i].entry = entry /\ r[i].line = lines[i]
                              /\ renderer = "labels" => r[i].link \in {"none", "label"}

LEMMA RenderedLines ==
  ASSUME project \in Projects, NEW entry \in DOMAIN project, Balanced(project[entry]),
         NEW kind \in {"dm", "player"}, NEW kind2 \in {"dm", "player"}, NEW renderer, NEW s,
         Lists(s, TopsOf(project[entry], kind))
  PROVE  LinesAre(Render(project, entry, s, View(kind2, NoFacet, FALSE), renderer), entry,
                  InOrder(Visible(project[entry], kind)), renderer)
  <1> DEFINE view == View(kind2, NoFacet, FALSE)
             r == Render(project, entry, s, view, renderer)
             lines == InOrder(Visible(project[entry], kind))
             F == ShownAs(entry, view, renderer)
  <1>1. r = Each(lines, F) /\ (\A i \in DOMAIN lines : lines[i] \in DOMAIN project[entry]) /\ lines \in Seq(Nat)
    <2>1. VisibleAs(entry, kind, view, renderer, s)
      BY RenderVisible
    <2> QED  BY <2>1 DEF VisibleAs
  <1>2. \A to : Inline(project, to, view, 0, renderer) =
            IF to = NoLink THEN "none" ELSE IF kind2 = "player" \/ renderer = "labels" THEN "label" ELSE "link"
    <2> SUFFICES ASSUME NEW to
                 PROVE  Inline(project, to, view, 0, renderer) =
                          IF to = NoLink THEN "none"
                          ELSE IF kind2 = "player" \/ renderer = "labels" THEN "label" ELSE "link"
      OBVIOUS
    <2>1. view.kind = kind2
      BY DEF View
    <2> HIDE DEF view
    <2>2. Decision(project, to, view, 0) = "gone"
      BY <2>1 DEF Decision
    <2> QED  BY <2>1, <2>2 DEF Inline
  <1> HIDE DEF view, lines
  <1>3. Len(lines) \in Nat /\ DOMAIN lines = 1 .. Len(lines) /\ \A i \in 1 .. Len(lines) : lines[i] \in Nat
    BY <1>1
  <1>4. \A i \in 1 .. Len(lines) : F[lines[i]] =
          [entry |-> entry, line |-> lines[i], link |-> Inline(project, project[entry][lines[i]].to, view, 0, renderer)]
    BY <1>1, <1>3 DEF ShownAs
  <1>5. entry \in Names
    BY ProjectIs
  <1>6. \A i \in 1 .. Len(lines) : F[lines[i]] \in ShownLine
    <2> SUFFICES ASSUME NEW i \in 1 .. Len(lines) PROVE F[lines[i]] \in ShownLine
      OBVIOUS
    <2> DEFINE link == Inline(project, project[entry][lines[i]].to, view, 0, renderer)
    <2>1. link \in {"none", "label", "link"}
      BY <1>2
    <2>2. F[lines[i]] = [entry |-> entry, line |-> lines[i], link |-> link]
      BY <1>4
    <2>3. lines[i] \in Nat
      BY <1>3
    <2> HIDE DEF link, F
    <2> QED  BY <1>5, <2>1, <2>2, <2>3 DEF ShownLine
  <1>7. \A i \in 1 .. Len(lines) :
          /\ F[lines[i]].entry = entry /\ F[lines[i]].line = lines[i]
          /\ renderer = "labels" => F[lines[i]].link \in {"none", "label"}
    <2> SUFFICES ASSUME NEW i \in 1 .. Len(lines)
                 PROVE  /\ F[lines[i]].entry = entry /\ F[lines[i]].line = lines[i]
                        /\ renderer = "labels" => F[lines[i]].link \in {"none", "label"}
      OBVIOUS
    <2> DEFINE link == Inline(project, project[entry][lines[i]].to, view, 0, renderer)
    <2>1. renderer = "labels" => link \in {"none", "label"}
      BY <1>2
    <2>2. F[lines[i]] = [entry |-> entry, line |-> lines[i], link |-> link]
      BY <1>4
    <2> HIDE DEF link, F
    <2> QED  BY <2>1, <2>2
  <1> HIDE DEF F
  <1>8. r = [i \in 1 .. Len(lines) |-> F[lines[i]]]
    BY <1>1, <1>3 DEF Each
  <1> HIDE DEF r
  <1>9. r \in [1 .. Len(lines) -> ShownLine]
    BY <1>6, <1>8
  <1>10. r \in Seq(ShownLine) /\ Len(r) = Len(lines)
    BY <1>3, <1>9
  <1>11. \A i \in 1 .. Len(lines) : r[i] = F[lines[i]]
    BY <1>8
  <1>12. LinesAre(r, entry, lines, renderer)
    BY <1>3, <1>7, <1>10, <1>11 DEF LinesAre
  <1> QED  BY <1>12 DEF r, lines, view

LEMMA ConcatAt ==
  ASSUME NEW T, NEW a \in Seq(T), NEW b \in Seq(T)
  PROVE  /\ DOMAIN (a \o b) = 1 .. Len(a) + Len(b) /\ Len(a) \in Nat /\ Len(b) \in Nat
         /\ \A i \in 1 .. Len(a) + Len(b) : (a \o b)[i] = IF i <= Len(a) THEN a[i] ELSE b[i - Len(a)]
  OBVIOUS

\* Two sequences show the same lines of the same entries.
SamePlaces(a, c) ==
    /\ a \in Seq(ShownLine) /\ c \in Seq(ShownLine) /\ Len(a) = Len(c)
    /\ \A i \in 1 .. Len(a) : a[i].entry = c[i].entry /\ a[i].line = c[i].line

LEMMA PlainConcat ==
  ASSUME NEW a, NEW b, NEW c, NEW d, SamePlaces(a, c), SamePlaces(b, d)
  PROVE  Plain(a \o b) = Plain(c \o d)
  <1>0. /\ a \in Seq(ShownLine) /\ b \in Seq(ShownLine) /\ c \in Seq(ShownLine) /\ d \in Seq(ShownLine)
        /\ Len(a) = Len(c) /\ Len(b) = Len(d)
        /\ \A i \in 1 .. Len(a) : a[i].entry = c[i].entry /\ a[i].line = c[i].line
        /\ \A i \in 1 .. Len(b) : b[i].entry = d[i].entry /\ b[i].line = d[i].line
    BY DEF SamePlaces
  <1>1. /\ DOMAIN (a \o b) = 1 .. Len(a) + Len(b) /\ DOMAIN (c \o d) = 1 .. Len(a) + Len(b)
        /\ \A i \in 1 .. Len(a) + Len(b) :
              /\ (a \o b)[i] = IF i <= Len(a) THEN a[i] ELSE b[i - Len(a)]
              /\ (c \o d)[i] = IF i <= Len(a) THEN c[i] ELSE d[i - Len(a)]
    <2>1. /\ DOMAIN (a \o b) = 1 .. Len(a) + Len(b) /\ Len(a) \in Nat /\ Len(b) \in Nat
          /\ \A i \in 1 .. Len(a) + Len(b) : (a \o b)[i] = IF i <= Len(a) THEN a[i] ELSE b[i - Len(a)]
      BY <1>0, ConcatAt
    <2>2. /\ DOMAIN (c \o d) = 1 .. Len(c) + Len(d)
          /\ \A i \in 1 .. Len(c) + Len(d) : (c \o d)[i] = IF i <= Len(c) THEN c[i] ELSE d[i - Len(c)]
      BY <1>0, ConcatAt
    <2> QED  BY <1>0, <2>1, <2>2
  <1> DEFINE x == a \o b
             y == c \o d
  <1>2. ASSUME NEW i \in 1 .. Len(a) + Len(b)
        PROVE  <<x[i].entry, x[i].line>> = <<y[i].entry, y[i].line>>
    <2>1. Len(a) \in Nat /\ Len(b) \in Nat
      BY <1>0
    <2>2. CASE i <= Len(a)
      <3>1. i \in 1 .. Len(a) /\ x[i] = a[i] /\ y[i] = c[i]
        BY <1>1, <2>2
      <3> HIDE DEF x, y
      <3> QED  BY <1>0, <3>1
    <2>3. CASE ~(i <= Len(a))
      <3>1. i - Len(a) \in 1 .. Len(b)
        BY <2>1, <2>3
      <3>2. x[i] = b[i - Len(a)] /\ y[i] = d[i - Len(a)]
        BY <1>1, <2>3
      <3> HIDE DEF x, y
      <3> QED  BY <1>0, <3>1, <3>2
    <2> QED  BY <2>2, <2>3
  <1>3. DOMAIN x = DOMAIN y /\ DOMAIN x = 1 .. Len(a) + Len(b)
    BY <1>1
  <1> HIDE DEF x, y
  <1>4. Plain(x) = Plain(y)
    BY <1>2, <1>3 DEF Plain
  <1> QED  BY <1>4 DEF x, y

LEMMA ConcatPrefix ==
  ASSUME NEW T, NEW a \in Seq(T), NEW t \in Seq(T)
  PROVE  IsPrefix(a, a \o t)
  <1>1. /\ Len(a) \in Nat /\ Len(t) \in Nat /\ Len(a \o t) = Len(a) + Len(t) /\ a \o t \in Seq(T)
        /\ \A i \in 1 .. Len(a) : (a \o t)[i] = a[i]
    OBVIOUS
  <1> DEFINE c == a \o t
  <1>2. SubSeq(a, 1, Len(a)) = SubSeq(c, 1, Len(a))
    <2>1. SubSeq(a, 1, Len(a)) = [i \in 1 .. Len(a) |-> a[i]]
      OBVIOUS
    <2>2. SubSeq(c, 1, Len(a)) = [i \in 1 .. Len(a) |-> c[i]]
      <3> HIDE DEF c
      <3> QED  BY <1>1 DEF c
    <2> QED  BY <1>1, <2>1, <2>2
  <1> QED  BY <1>1, <1>2 DEF IsPrefix

\* What is answered for dm or player: an error of the document, or its blocks rendered.
Why(doc) == IF ~Balanced(doc) THEN "400" ELSE IF ~DeclaredFacets(doc) THEN "422" ELSE "none"

AnsweredAs(entry, view) ==
    LET doc == project[entry]
        s == Filter(doc, Parse(doc).blocks, view)
    IN /\ Why(doc) # "none" => /\ Load(project, entry, view, Vocabulary) = Error(Why(doc))
                               /\ Fragment(project, entry, view, Vocabulary) = Error(Why(doc))
       /\ Why(doc) = "none" => /\ Balanced(doc)
                               /\ Load(project, entry, view, Vocabulary) = Answer(s)
                               /\ Fragment(project, entry, view, Vocabulary)
                                    = Answer(Render(project, entry, s, view, "links"))

LEMMA AnswersOther ==
  ASSUME project \in Projects, NEW entry \in DOMAIN project, NEW kind \in {"dm", "player"}, NEW quick \in BOOLEAN
  PROVE  AnsweredAs(entry, View(kind, NoFacet, quick))
  <1> DEFINE doc == project[entry]
             view == View(kind, NoFacet, quick)
             s == Filter(doc, Parse(doc).blocks, view)
  <1>0. view.kind # "card"
    BY DEF View
  <1>2. ~Balanced(doc) => /\ Load(project, entry, view, Vocabulary) = Error("400")
                          /\ Fragment(project, entry, view, Vocabulary) = Error("400")
    BY FragmentOfUnbalanced
  <1>3. Balanced(doc) => Load(project, entry, view, Vocabulary) =
                           IF ~DeclaredFacets(doc) THEN Error("422") ELSE Answer(s)
    <2> HIDE DEF view
    <2> QED  BY <1>0, LoadOfBalanced
  <1> HIDE DEF s, view
  <1>4. Balanced(doc) => Fragment(project, entry, view, Vocabulary) =
                           IF ~DeclaredFacets(doc) THEN Error("422")
                           ELSE Answer(Render(project, entry, s, view, "links"))
    BY <1>3 DEF Fragment, Error, Answer
  <1> QED  BY <1>2, <1>3, <1>4 DEF view, s, AnsweredAs, Why

\* A quick view.
LEMMA QuickIs ==
  ASSUME project \in Projects, NEW entry \in DOMAIN project, NEW kind \in {"dm", "player"}
  PROVE  LET full == Fragment(project, entry, ParseView(kind, "", FALSE), Vocabulary)
             quick == Fragment(project, entry, ParseView(kind, "", TRUE), Vocabulary)
         IN quick.error = full.error /\ IsPrefix(quick.shown, full.shown)
  <1> DEFINE doc == project[entry]
             vf == View(kind, NoFacet, FALSE)
             vq == View(kind, NoFacet, TRUE)
             full == Fragment(project, entry, ParseView(kind, "", FALSE), Vocabulary)
             quick == Fragment(project, entry, ParseView(kind, "", TRUE), Vocabulary)
             s == Filter(doc, Parse(doc).blocks, vf)
             q == Filter(doc, Parse(doc).blocks, vq)
  <1>1. full = Fragment(project, entry, vf, Vocabulary) /\ quick = Fragment(project, entry, vq, Vocabulary)
    BY ViewIs
  <1>2. AnsweredAs(entry, vf) /\ AnsweredAs(entry, vq)
    BY AnswersOther
  <1>3. CASE Why(doc) # "none"
    <2>1. full = Error(Why(doc)) /\ quick = Error(Why(doc))
      <3> HIDE DEF vf, vq, full, quick
      <3> QED  BY <1>1, <1>2, <1>3 DEF AnsweredAs
    <2>2. IsPrefix(<< >>, << >>)
      BY DEF IsPrefix
    <2> HIDE DEF full, quick
    <2>3. quick.error = full.error /\ IsPrefix(quick.shown, full.shown)
      BY <2>1, <2>2 DEF Error
    <2> QED  BY <2>3 DEF full, quick
  <1>4. CASE Why(doc) = "none"
    <2>1. /\ Balanced(doc)
          /\ full = Answer(Render(project, entry, s, vf, "links"))
          /\ quick = Answer(Render(project, entry, q, vq, "links"))
      <3> HIDE DEF vf, vq, full, quick
      <3> QED  BY <1>1, <1>2, <1>4 DEF AnsweredAs, s, q
    <2>2. doc \in Seq(AnyLine)
      BY ProjectIs
    <2>3. Lists(s, TopsOf(doc, kind)) /\ q = IF s = << >> THEN << >> ELSE <<s[1]>>
      BY <2>1, <2>2, FilterIs
    <2> HIDE DEF s, q
    <2>4. RenderedAs(entry, vf, "links", s, TopsOf(doc, kind))
      <3>1. TopsOf(doc, kind) \subseteq Tops(doc)
        BY DEF TopsOf
      <3> QED  BY <2>1, <2>3, <3>1, RenderOther
    <2> DEFINE T == {ShownAs(entry, vf, "links")[l] : l \in DOMAIN doc}
               rr == [i \in DOMAIN s |-> RenderBlock(project, entry, s[i], vf, "links")]
    <2>5. rr \in Seq(Seq(T)) /\ Render(project, entry, s, vf, "links") = FlattenSeq(rr)
      <3> HIDE DEF vf
      <3> QED  BY <2>4 DEF RenderedAs, Render
    <2>6. IsPrefix(Render(project, entry, q, vq, "links"), Render(project, entry, s, vf, "links"))
      <3>1. CASE s = << >>
        <4>1. q = << >>
          BY <2>3, <3>1
        <4>2. [i \in DOMAIN q |-> RenderBlock(project, entry, q[i], vq, "links")] = << >>
          BY <4>1
        <4>3. Render(project, entry, q, vq, "links") = << >>
          BY <4>2, FlattenEmpty DEF Render
        <4>4. rr = << >>
          BY <3>1
        <4>5. Render(project, entry, s, vf, "links") = << >>
          <5> HIDE DEF rr, vf
          <5> QED  BY <2>5, <4>4, FlattenEmpty
        <4>6. IsPrefix(<< >>, << >>)
          BY DEF IsPrefix
        <4> HIDE DEF vf, vq
        <4> QED  BY <4>3, <4>5, <4>6
      <3>2. CASE s # << >>
        <4> DEFINE b == s[1]
                   first == RenderBlock(project, entry, b, vf, "links")
        <4>1. s \in Seq(Nat) /\ 1 \in DOMAIN s /\ b \in TopsOf(doc, kind)
          <5>1. /\ s \in Seq(Nat) /\ Len(s) \in Nat /\ DOMAIN s = 1 .. Len(s)
                /\ \A i \in 1 .. Len(s) : s[i] \in TopsOf(doc, kind)
            BY <2>3, ListsAt
          <5>2. 1 \in 1 .. Len(s)
            BY <3>2, <5>1
          <5> QED  BY <5>1, <5>2
        <4>2. rr # << >> /\ rr[1] = first
          <5>1. DOMAIN rr = DOMAIN s /\ \A i \in DOMAIN s : rr[i] = RenderBlock(project, entry, s[i], vf, "links")
            OBVIOUS
          <5> HIDE DEF rr, vf
          <5> QED  BY <4>1, <5>1
        <4> HIDE DEF b
        <4>3. q = <<b>>
          BY <2>3, <3>2 DEF b
        <4>4. Render(project, entry, q, vq, "links") = RenderBlock(project, entry, b, vq, "links")
          <5>1. [i \in DOMAIN q |-> RenderBlock(project, entry, q[i], vq, "links")]
                  = <<RenderBlock(project, entry, b, vq, "links")>>
            <6> HIDE DEF vq
            <6> QED  BY <4>3
          <5> QED  BY <5>1, FlattenOne DEF Render
        <4>5. Content(doc, b) \in Seq(DOMAIN doc)
          <5> DEFINE c == Content(doc, b)
          <5>1. b \in DOMAIN doc /\ doc[b].kind # "close"
            BY <4>1 DEF TopsOf, Tops, Starts, Begins, Opens
          <5>2. Lists(c, ContentOf(doc, b)) /\ \A i \in ContentOf(doc, b) : i \in DOMAIN doc
            BY <2>1, <2>2, <5>1, ContentIs
          <5> HIDE DEF c
          <5>3. /\ c \in Seq(Nat) /\ Len(c) \in Nat /\ DOMAIN c = 1 .. Len(c)
                /\ \A i \in 1 .. Len(c) : c[i] \in DOMAIN doc
            BY <5>2, ListsAt
          <5>4. c \in [1 .. Len(c) -> DOMAIN doc]
            BY <5>3
          <5>5. c \in Seq(DOMAIN doc)
            BY <5>3, <5>4
          <5> QED  BY <5>5 DEF c
        <4>6. first = Each(Content(doc, b), ShownAs(entry, vf, "links"))
              /\ RenderBlock(project, entry, b, vq, "links") = Each(Content(doc, b), ShownAs(entry, vq, "links"))
          <5>0. ASSUME NEW k
                PROVE  RenderBlock(project, entry, b, View(kind, NoFacet, k), "links")
                       = Each(Content(doc, b), ShownAs(entry, View(kind, NoFacet, k), "links"))
            BY <4>5, RenderBlockOther
          <5>1. first = Each(Content(doc, b), ShownAs(entry, vf, "links"))
            BY <5>0
          <5>2. RenderBlock(project, entry, b, vq, "links") = Each(Content(doc, b), ShownAs(entry, vq, "links"))
            BY <5>0
          <5> QED  BY <5>1, <5>2
        <4>7. ShownAs(entry, vf, "links") = ShownAs(entry, vq, "links")
          <5>1. \A to : Inline(project, to, vf, 0, "links") = Inline(project, to, vq, 0, "links")
            <6>1. vf.kind = kind /\ vq.kind = kind
              BY DEF View
            <6> HIDE DEF vf, vq
            <6>2. \A to : Decision(project, to, vf, 0) = Decision(project, to, vq, 0)
              <7> SUFFICES ASSUME NEW to PROVE Decision(project, to, vf, 0) = Decision(project, to, vq, 0)
                OBVIOUS
              <7>1. kind # "card"
                OBVIOUS
              <7> QED  BY <6>1, <7>1 DEF Decision
            <6> QED  BY <6>1, <6>2 DEF Inline
          <5> HIDE DEF vf, vq
          <5> QED  BY <5>1 DEF ShownAs
        <4>8. Render(project, entry, q, vq, "links") = first
          <5> HIDE DEF vf, vq, first
          <5> QED  BY <4>4, <4>6, <4>7
        <4>9. PICK t \in Seq(T) : FlattenSeq(rr) = rr[1] \o t
          <5> HIDE DEF rr, T
          <5> QED  BY <2>5, <4>2, FlattenFirst
        <4>10. rr[1] \in Seq(T)
          <5>1. 1 \in DOMAIN rr
            BY <4>1
          <5> HIDE DEF rr, T
          <5> QED  BY <2>5, <5>1
        <4> HIDE DEF rr, T, first, vf, vq
        <4>11. IsPrefix(rr[1], rr[1] \o t)
          BY <4>10, ConcatPrefix
        <4> QED  BY <2>5, <4>2, <4>8, <4>9, <4>11
      <3> QED  BY <3>1, <3>2
    <2> HIDE DEF full, quick, vf, vq
    <2>7. quick.error = full.error /\ IsPrefix(quick.shown, full.shown)
      BY <2>1, <2>6 DEF Answer
    <2> QED  BY <2>7 DEF full, quick
  <1> QED  BY <1>3, <1>4

\* Two entries in a PDF.
LEMMA BundleIs ==
  ASSUME project \in Projects, NEW entry \in DOMAIN project, NEW other \in DOMAIN project,
         NEW kind \in {"dm", "player"}
  PROVE  LET full == Fragment(project, entry, ParseView(kind, "", FALSE), Vocabulary)
             second == Fragment(project, other, ParseView(kind, "", FALSE), Vocabulary)
             pdf == Bundle(project, <<entry, other>>, ParseView(kind, "", FALSE), Vocabulary)
         IN /\ pdf.error = IF full.error # "none" THEN full.error ELSE second.error
            /\ pdf.error = "none" =>
                 /\ Plain(pdf.shown) = Plain(full.shown \o second.shown)
                 /\ \A i \in DOMAIN pdf.shown : pdf.shown[i].link \in {"none", "label"}
  <1> DEFINE view == View(kind, NoFacet, FALSE)
             dm == View("dm", NoFacet, FALSE)
             full == Fragment(project, entry, ParseView(kind, "", FALSE), Vocabulary)
             second == Fragment(project, other, ParseView(kind, "", FALSE), Vocabulary)
             pdf == Bundle(project, <<entry, other>>, ParseView(kind, "", FALSE), Vocabulary)
             entries == <<entry, other>>
             loaded(i) == Load(project, entries[i], view, Vocabulary)
             bad == {i \in DOMAIN entries : loaded(i).error # "none"}
             s1 == Filter(project[entry], Parse(project[entry]).blocks, view)
             s2 == Filter(project[other], Parse(project[other]).blocks, view)
  <1>1. ParseView(kind, "", FALSE) = view
    BY ViewIs
  <1>2. AnsweredAs(entry, view) /\ AnsweredAs(other, view)
    BY AnswersOther
  <1>3. pdf = IF bad # {} THEN loaded(CHOOSE i \in bad : \A j \in bad : i <= j)
              ELSE Answer(FlattenSeq([i \in DOMAIN entries |->
                            Render(project, entries[i], loaded(i).shown, dm, "labels")]))
    <2> HIDE DEF view
    <2>1. pdf = Bundle(project, entries, view, Vocabulary)
      BY <1>1
    <2> HIDE DEF entries, pdf, dm
    <2> QED  BY <2>1 DEF Bundle, dm
  <1>4. full = Fragment(project, entry, view, Vocabulary) /\ second = Fragment(project, other, view, Vocabulary)
    BY <1>1
  <1>5. DOMAIN entries = {1, 2} /\ entries[1] = entry /\ entries[2] = other
    OBVIOUS
  <1> HIDE DEF entries, view, dm, full, second, pdf
  <1>6. loaded(1) = Load(project, entry, view, Vocabulary) /\ loaded(2) = Load(project, other, view, Vocabulary)
    BY <1>5
  <1>7. loaded(1).error = full.error /\ loaded(2).error = second.error
        /\ full.error = Why(project[entry]) /\ second.error = Why(project[other])
    BY <1>2, <1>4, <1>6 DEF AnsweredAs, Error, Answer
  <1> HIDE DEF loaded
  <1>8. CASE full.error # "none"
    <2>1. 1 \in bad /\ \A j \in bad : 1 <= j
      BY <1>5, <1>7, <1>8
    <2>2. \A i \in bad : (\A j \in bad : i <= j) => i = 1
      BY <1>5, <2>1
    <2>3. (CHOOSE i \in bad : \A j \in bad : i <= j) = 1
      <3> HIDE DEF bad
      <3> QED  BY <2>1, <2>2
    <2>4. pdf = loaded(1)
      <3> HIDE DEF bad
      <3> QED  BY <1>3, <2>1, <2>3
    <2> QED  BY <1>7, <1>8, <2>4 DEF full, second, pdf
  <1>9. CASE full.error = "none" /\ second.error # "none"
    <2>1. bad = {2}
      BY <1>5, <1>7, <1>9
    <2>2. (CHOOSE i \in bad : \A j \in bad : i <= j) = 2
      BY <2>1
    <2>3. pdf = loaded(2)
      <3> HIDE DEF bad
      <3> QED  BY <1>3, <2>1, <2>2
    <2> QED  BY <1>7, <1>9, <2>3 DEF full, second, pdf
  <1>10. CASE full.error = "none" /\ second.error = "none"
    <2>1. bad = {}
      BY <1>5, <1>7, <1>10
    <2>2. /\ Balanced(project[entry]) /\ Balanced(project[other])
          /\ loaded(1) = Answer(s1) /\ loaded(2) = Answer(s2)
          /\ full = Answer(Render(project, entry, s1, view, "links"))
          /\ second = Answer(Render(project, other, s2, view, "links"))
      BY <1>2, <1>4, <1>6, <1>7, <1>10 DEF AnsweredAs
    <2>3. Lists(s1, TopsOf(project[entry], kind)) /\ Lists(s2, TopsOf(project[other], kind))
      BY <2>2, ProjectIs, FilterIs DEF view
    <2> HIDE DEF s1, s2
    <2> DEFINE r1 == Render(project, entry, s1, dm, "labels")
               r2 == Render(project, other, s2, dm, "labels")
               f1 == Render(project, entry, s1, view, "links")
               f2 == Render(project, other, s2, view, "links")
               l1 == InOrder(Visible(project[entry], kind))
               l2 == InOrder(Visible(project[other], kind))
    <2>4. LinesAre(r1, entry, l1, "labels") /\ LinesAre(r2, other, l2, "labels")
      BY <2>2, <2>3, RenderedLines DEF dm
    <2>5. LinesAre(f1, entry, l1, "links") /\ LinesAre(f2, other, l2, "links")
      BY <2>2, <2>3, RenderedLines DEF view
    <2>6. pdf = Answer(FlattenSeq([i \in DOMAIN entries |->
                            Render(project, entries[i], loaded(i).shown, dm, "labels")]))
      <3> HIDE DEF bad
      <3> QED  BY <1>3, <2>1
    <2>7. [i \in DOMAIN entries |-> Render(project, entries[i], loaded(i).shown, dm, "labels")]
            = <<r1, r2>>
      <3>1. loaded(1).shown = s1 /\ loaded(2).shown = s2
        BY <2>2 DEF Answer
      <3>2. DOMAIN <<r1, r2>> = {1, 2}
        OBVIOUS
      <3> QED  BY <1>5, <3>1, <3>2
    <2> HIDE DEF r1, r2, f1, f2, l1, l2
    <2>8. r1 \in Seq(ShownLine) /\ r2 \in Seq(ShownLine) /\ f1 \in Seq(ShownLine) /\ f2 \in Seq(ShownLine)
      BY <2>4, <2>5 DEF LinesAre
    <2>9. FlattenSeq(<<r1, r2>>) = r1 \o r2
      <3>1. <<r1, r2>> = Append(<<r1>>, r2) /\ <<r1>> \in Seq(Seq(ShownLine))
        BY <2>8
      <3>2. FlattenSeq(<<r1>>) = r1
        BY FlattenOne
      <3> QED  BY <2>8, <3>1, <3>2, FlattenMore
    <2>10. pdf.shown = r1 \o r2 /\ pdf.error = "none" /\ full.shown = f1 /\ second.shown = f2
      BY <2>2, <2>6, <2>7, <2>9 DEF Answer, f1, f2
    <2>11. Plain(r1 \o r2) = Plain(f1 \o f2)
      <3>1. SamePlaces(r1, f1)
        BY <2>4, <2>5, <2>8 DEF LinesAre, SamePlaces
      <3>2. SamePlaces(r2, f2)
        BY <2>4, <2>5, <2>8 DEF LinesAre, SamePlaces
      <3> QED  BY <3>1, <3>2, PlainConcat
    <2>12. \A i \in DOMAIN (r1 \o r2) : (r1 \o r2)[i].link \in {"none", "label"}
      <3> DEFINE u == r1 \o r2
      <3>1. /\ DOMAIN u = 1 .. Len(r1) + Len(r2) /\ Len(r1) \in Nat /\ Len(r2) \in Nat
            /\ \A i \in 1 .. Len(r1) + Len(r2) : u[i] = IF i <= Len(r1) THEN r1[i] ELSE r2[i - Len(r1)]
        BY <2>8, ConcatAt
      <3> HIDE DEF u
      <3>2. (\A i \in 1 .. Len(r1) : r1[i].link \in {"none", "label"})
            /\ \A i \in 1 .. Len(r2) : r2[i].link \in {"none", "label"}
        BY <2>4 DEF LinesAre
      <3>3. ASSUME NEW i \in DOMAIN u
            PROVE  u[i].link \in {"none", "label"}
        <4>1. CASE i <= Len(r1)
          <5>1. i \in 1 .. Len(r1) /\ u[i] = r1[i]
            BY <3>1, <4>1
          <5> QED  BY <3>2, <5>1
        <4>2. CASE ~(i <= Len(r1))
          <5>1. i - Len(r1) \in 1 .. Len(r2) /\ u[i] = r2[i - Len(r1)]
            BY <3>1, <4>2
          <5> QED  BY <3>2, <5>1
        <4> QED  BY <4>1, <4>2
      <3> QED  BY <3>3 DEF u
    <2>13. /\ pdf.error = IF full.error # "none" THEN full.error ELSE second.error
           /\ Plain(pdf.shown) = Plain(full.shown \o second.shown)
           /\ \A i \in DOMAIN pdf.shown : pdf.shown[i].link \in {"none", "label"}
      BY <1>10, <2>10, <2>11, <2>12
    <2> QED  BY <2>13 DEF full, second, pdf
  <1> QED  BY <1>8, <1>9, <1>10 DEF full, second

\* Every view, every quick view and every PDF of two entries shows what it is to show
\* (ViewsAreExact), in every project: any entries, with documents of any length.
THEOREM ShowsExactly == ViewsSpec => []ViewsAreExact
  <1>1. project \in Projects => ViewsAreExact
    <2> SUFFICES ASSUME project \in Projects PROVE ViewsAreExact
      OBVIOUS
    <2>1. ViewsAreAsNested
      BY FragmentOther, FragmentCard DEF ViewsAreAsNested
    <2>2. ExcerptsAreOfViews
      <3> SUFFICES ASSUME NEW entry \in DOMAIN project, NEW other \in DOMAIN project, NEW view \in {"dm", "player"}
                   PROVE  LET full == Fragment(project, entry, ParseView(view, "", FALSE), Vocabulary)
                              quick == Fragment(project, entry, ParseView(view, "", TRUE), Vocabulary)
                              second == Fragment(project, other, ParseView(view, "", FALSE), Vocabulary)
                              pdf == Bundle(project, <<entry, other>>, ParseView(view, "", FALSE), Vocabulary)
                          IN /\ quick.error = full.error /\ IsPrefix(quick.shown, full.shown)
                             /\ pdf.error = IF full.error # "none" THEN full.error ELSE second.error
                             /\ pdf.error = "none" =>
                                  /\ Plain(pdf.shown) = Plain(full.shown \o second.shown)
                                  /\ \A i \in DOMAIN pdf.shown : pdf.shown[i].link \in {"none", "label"}
        BY DEF ExcerptsAreOfViews
      <3> DEFINE full == Fragment(project, entry, ParseView(view, "", FALSE), Vocabulary)
                 quick == Fragment(project, entry, ParseView(view, "", TRUE), Vocabulary)
                 second == Fragment(project, other, ParseView(view, "", FALSE), Vocabulary)
                 pdf == Bundle(project, <<entry, other>>, ParseView(view, "", FALSE), Vocabulary)
      <3>1. quick.error = full.error /\ IsPrefix(quick.shown, full.shown)
        BY QuickIs
      <3>2. /\ pdf.error = IF full.error # "none" THEN full.error ELSE second.error
            /\ pdf.error = "none" =>
                 /\ Plain(pdf.shown) = Plain(full.shown \o second.shown)
                 /\ \A i \in DOMAIN pdf.shown : pdf.shown[i].link \in {"none", "label"}
        BY BundleIs
      <3> HIDE DEF full, quick, second, pdf
      <3>3. /\ quick.error = full.error /\ IsPrefix(quick.shown, full.shown)
            /\ pdf.error = IF full.error # "none" THEN full.error ELSE second.error
            /\ pdf.error = "none" =>
                 /\ Plain(pdf.shown) = Plain(full.shown \o second.shown)
                 /\ \A i \in DOMAIN pdf.shown : pdf.shown[i].link \in {"none", "label"}
        BY <3>1, <3>2
      <3> QED  BY <3>3 DEF full, quick, second, pdf
    <2> QED  BY <2>1, <2>2 DEF ViewsAreExact
  <1>2. ViewsSpec => [](project \in Projects)
    <2>1. project \in Projects /\ [project' \in Projects]_project => (project \in Projects)'
      OBVIOUS
    <2> QED  BY <2>1, PTL DEF ViewsSpec
  <1> QED  BY <1>1, <1>2, PTL

-----------------------------------------------------------------------------
(* The index of links.                                                     *)

LEMMA EachConcat ==
  ASSUME NEW T, NEW a \in Seq(T), NEW b \in Seq(T), NEW g
  PROVE  Each(a \o b, g) = Each(a, g) \o Each(b, g)
  <1> DEFINE c == a \o b
             U == {g[x] : x \in T}
             ea == Each(a, g)
             eb == Each(b, g)
  <1>1. /\ DOMAIN c = 1 .. Len(a) + Len(b) /\ Len(a) \in Nat /\ Len(b) \in Nat
        /\ \A i \in 1 .. Len(a) + Len(b) : c[i] = IF i <= Len(a) THEN a[i] ELSE b[i - Len(a)]
    BY ConcatAt
  <1>2. /\ ea \in Seq(U) /\ Len(ea) = Len(a) /\ \A i \in 1 .. Len(a) : ea[i] = g[a[i]]
        /\ eb \in Seq(U) /\ Len(eb) = Len(b) /\ \A i \in 1 .. Len(b) : eb[i] = g[b[i]]
    BY DEF Each
  <1> HIDE DEF c, ea, eb, U
  <1>3. /\ DOMAIN (ea \o eb) = 1 .. Len(a) + Len(b)
        /\ \A i \in 1 .. Len(a) + Len(b) : (ea \o eb)[i] = IF i <= Len(a) THEN ea[i] ELSE eb[i - Len(a)]
    <2>1. ea \in Seq(U) /\ eb \in Seq(U) /\ Len(ea) = Len(a) /\ Len(eb) = Len(b)
      BY <1>2
    <2>2. /\ DOMAIN (ea \o eb) = 1 .. Len(ea) + Len(eb)
          /\ \A i \in 1 .. Len(ea) + Len(eb) : (ea \o eb)[i] = IF i <= Len(ea) THEN ea[i] ELSE eb[i - Len(ea)]
      <3> HIDE DEF U
      <3>1. \A x, y \in Seq(U) :
              /\ DOMAIN (x \o y) = 1 .. Len(x) + Len(y)
              /\ \A i \in 1 .. Len(x) + Len(y) : (x \o y)[i] = IF i <= Len(x) THEN x[i] ELSE y[i - Len(x)]
        BY ConcatAt
      <3> QED  BY <2>1, <3>1
    <2> QED  BY <2>1, <2>2
  <1> DEFINE d == ea \o eb
  <1>4. d = [i \in 1 .. Len(a) + Len(b) |-> d[i]]
    <2>1. d \in Seq(U)
      BY <1>2
    <2>2. DOMAIN d = 1 .. Len(a) + Len(b)
      BY <1>3
    <2> HIDE DEF d
    <2>3. d = [i \in DOMAIN d |-> d[i]]
      BY <2>1
    <2> QED  BY <2>2, <2>3
  <1>5. \A i \in 1 .. Len(a) + Len(b) : d[i] = g[c[i]]
    <2> SUFFICES ASSUME NEW i \in 1 .. Len(a) + Len(b) PROVE d[i] = g[c[i]]
      OBVIOUS
    <2>1. CASE i <= Len(a)
      <3>1. i \in 1 .. Len(a)
        BY <2>1
      <3> QED  BY <1>1, <1>2, <1>3, <2>1, <3>1
    <2>2. CASE ~(i <= Len(a))
      <3>1. i - Len(a) \in 1 .. Len(b)
        BY <1>1, <2>2
      <3>2. d[i] = eb[i - Len(a)]
        BY <1>3, <2>2
      <3>3. c[i] = b[i - Len(a)]
        BY <1>1, <2>2
      <3> HIDE DEF d
      <3> QED  BY <1>2, <3>1, <3>2, <3>3
    <2> QED  BY <2>1, <2>2
  <1> HIDE DEF d
  <1>6. Each(c, g) = [i \in 1 .. Len(a) + Len(b) |-> g[c[i]]]
    BY <1>1 DEF Each
  <1>7. Each(c, g) = d
    BY <1>4, <1>5, <1>6
  <1> QED  BY <1>7 DEF c, d, ea, eb

Differ == {p \in Nat \X Nat : p[1] # p[2]}

\* A sequence has the elements of a set, each once.
Counts(s, S) == s \in Seq(Nat) /\ Sorted(s, Differ) /\ \A x : x \in ToSet(s) <=> x \in S

LEMMA CountsOfLists ==
  ASSUME NEW s, NEW S, Lists(s, S)
  PROVE  Counts(s, S)
  <1>1. \A p \in Less : p \in Differ
    BY DEF Less, Differ
  <1> QED  BY <1>1 DEF Lists, Counts, Sorted

LEMMA CountsConcat ==
  ASSUME NEW s, NEW S, Counts(s, S), NEW t, NEW T, Counts(t, T), \A x \in S : x \notin T
  PROVE  Counts(s \o t, S \cup T)
  <1>1. s \in Seq(Nat) /\ t \in Seq(Nat) /\ s \o t \in Seq(Nat)
    BY DEF Counts
  <1>2. ToSet(s \o t) = ToSet(s) \cup ToSet(t)
    BY <1>1, ConcatSet
  <1>3. \A x \in ToSet(s), y \in ToSet(t) : <<x, y>> \in Differ
    <2> SUFFICES ASSUME NEW x \in ToSet(s), NEW y \in ToSet(t) PROVE <<x, y>> \in Differ
      OBVIOUS
    <2>1. x \in S /\ y \in T
      BY DEF Counts
    <2>2. x \in Nat /\ y \in Nat
      BY <1>1 DEF ToSet
    <2> QED  BY <2>1, <2>2 DEF Differ
  <1>4. Sorted(s \o t, Differ)
    <2>1. Sorted(s, Differ) /\ Sorted(t, Differ)
      BY DEF Counts
    <2> QED  BY <1>1, <1>3, <2>1, ConcatSorted
  <1> QED  BY <1>1, <1>2, <1>4 DEF Counts

LEMMA CountsFlatten ==
  ASSUME NEW n \in Nat, NEW ss, NEW SS, NEW S, DOMAIN ss = 1 .. n, ss = [i \in 1 .. n |-> ss[i]],
         \A i \in 1 .. n : Counts(ss[i], SS[i]),
         \A i, j \in 1 .. n : i < j => \A x \in SS[i] : x \notin SS[j],
         \A x : x \in S <=> \E i \in 1 .. n : x \in SS[i]
  PROVE  Counts(FlattenSeq(ss), S) /\ ss \in Seq(Seq(Nat))
  <1>1. ss \in Seq(Seq(Nat))
    <2>1. \A i \in 1 .. n : ss[i] \in Seq(Nat)
      BY DEF Counts
    <2>2. ss \in [1 .. n -> Seq(Nat)]
      BY <2>1
    <2> QED  BY <2>2
  <1>2. FlattenSeq(ss) \in Seq(Nat)
    BY <1>1, FlattenTyped
  <1>3. \A x : x \in ToSet(FlattenSeq(ss)) <=> x \in S
    <2>1. \A x : x \in ToSet(FlattenSeq(ss)) <=> \E i \in DOMAIN ss : x \in ToSet(ss[i])
      BY <1>1, FlattenElements
    <2> QED  BY <2>1 DEF Counts
  <1>4. Sorted(FlattenSeq(ss), Differ)
    <2>1. \A i \in DOMAIN ss : Sorted(ss[i], Differ)
      BY DEF Counts
    <2>2. \A i, j \in DOMAIN ss : i < j => \A x \in ToSet(ss[i]), y \in ToSet(ss[j]) : <<x, y>> \in Differ
      <3> SUFFICES ASSUME NEW i \in DOMAIN ss, NEW j \in DOMAIN ss, i < j,
                          NEW x \in ToSet(ss[i]), NEW y \in ToSet(ss[j])
                   PROVE  <<x, y>> \in Differ
        OBVIOUS
      <3>1. x \in SS[i] /\ y \in SS[j]
        BY DEF Counts
      <3>2. x \in Nat /\ y \in Nat
        BY DEF Counts, ToSet
      <3>3. x # y
        BY <3>1
      <3> QED  BY <3>2, <3>3 DEF Differ
    <2> QED  BY <1>1, <2>1, <2>2, FlattenSorted
  <1> QED  BY <1>1, <1>2, <1>3, <1>4 DEF Counts

-----------------------------------------------------------------------------
(* The facet of a link.                                                    *)

\* The facet of the nearest card around line i from line b on, or else f.
FacetFrom(doc, b, f, i) ==
    LET cards == {j \in Around(doc, i) : j >= b /\ doc[j].kind = "card"}
    IN IF cards = {} THEN f ELSE doc[Greatest(cards)].facet

OwnFacet(doc, b, f) == IF doc[b].kind = "card" THEN doc[b].facet ELSE f

LEMMA AroundTyped ==
  ASSUME NEW doc \in Seq(AnyLine), NEW i \in DOMAIN doc
  PROVE  /\ Around(doc, i) \subseteq 0 .. i /\ i \in Nat
         /\ \A j \in Around(doc, i) : j \in DOMAIN doc /\ j < i /\ Opens(doc[j])
  BY DEF Around

LEMMA FacetOfContent ==
  ASSUME NEW doc \in Seq(AnyLine), Balanced(doc), NEW b \in DOMAIN doc, doc[b].kind # "close",
         NEW f, NEW i \in ContentOf(doc, b)
  PROVE  FacetFrom(doc, b, f, i) = OwnFacet(doc, b, f)
  <1>0. i \in DOMAIN doc /\ doc[i].kind = "text" /\ i \in b .. LastOf(doc, b)
    BY ContentIs
  <1>1. /\ Around(doc, i) \subseteq 0 .. i /\ i \in Nat
        /\ \A j \in Around(doc, i) : j \in DOMAIN doc /\ j < i /\ Opens(doc[j])
    BY <1>0, AroundTyped
  <1>2. CASE Opens(doc[b])
    <2>1. Around(doc, i) # {} /\ Greatest(Around(doc, i)) = b
      BY <1>2 DEF ContentOf, Directly
    <2>2. b \in Around(doc, i) /\ \A j \in Around(doc, i) : b >= j
      BY <1>1, <2>1, GreatestOf
    <2> DEFINE cards == {j \in Around(doc, i) : j >= b /\ doc[j].kind = "card"}
    <2>3. cards = IF doc[b].kind = "card" THEN {b} ELSE {}
      <3>1. \A j \in Around(doc, i) : j >= b => j = b
        BY <1>1, <2>2
      <3>2. b >= b
        BY <1>1, <2>2
      <3> QED  BY <2>2, <3>1, <3>2
    <2>4. Greatest({b}) = b
      <3>1. b \in {b} /\ {b} \subseteq 0 .. i /\ \A m \in {b} : m <= b
        BY <1>1, <2>2
      <3> QED  BY <1>1, <3>1, GreatestIs
    <2> QED  BY <2>3, <2>4 DEF FacetFrom, OwnFacet
  <1>3. CASE ~Opens(doc[b])
    <2>1. doc[b].kind = "text"
      BY <1>3, LineIs
    <2>2. \A k \in b .. ProseEnd(doc, b) : doc[k].kind = "text"
      BY <2>1, ProseEndIs
    <2>3. \A j \in Around(doc, i) : ~(j >= b)
      <3> SUFFICES ASSUME NEW j \in Around(doc, i), j >= b PROVE FALSE
        OBVIOUS
      <3>1. j \in b .. ProseEnd(doc, b)
        <4>1. j \in Nat /\ j < i /\ i \in b .. ProseEnd(doc, b) /\ b \in Nat /\ ProseEnd(doc, b) \in Int
          BY <1>0, <1>1, <1>3, <2>1, ProseEndIs DEF LastOf
        <4> QED  BY <4>1
      <3> QED  BY <1>1, <2>2, <3>1 DEF Opens
    <2>4. {j \in Around(doc, i) : j >= b /\ doc[j].kind = "card"} = {}
      BY <2>3
    <2>5. doc[b].kind # "card"
      BY <2>1
    <2> QED  BY <2>4, <2>5 DEF FacetFrom, OwnFacet
  <1> QED  BY <1>2, <1>3

LEMMA FacetOfNested ==
  ASSUME NEW doc \in Seq(AnyLine), Balanced(doc), NEW b \in DOMAIN doc, NEW f, NEW x \in Nested(doc, b),
         NEW i \in x .. LastOf(doc, x), i \in DOMAIN doc, doc[i].kind = "text"
  PROVE  FacetFrom(doc, b, f, i) = FacetFrom(doc, x, OwnFacet(doc, b, f), i)
  <1>0. /\ Opens(doc[b]) /\ x \in b + 1 .. Len(doc) /\ x \in DOMAIN doc /\ Opens(doc[x])
        /\ x \in Starts(doc, b + 1, EndOf(doc, b)) /\ LastOf(doc, x) < LastOf(doc, b)
    BY BlocksIs
  <1>1. /\ Around(doc, i) \subseteq 0 .. i /\ i \in Nat
        /\ \A j \in Around(doc, i) : j \in DOMAIN doc /\ j < i /\ Opens(doc[j])
    BY AroundTyped
  <1>2. \A k \in 1 .. Len(doc) + 1 : Level(doc, k) \in Int
    BY LevelTyped
  <1>3. /\ EndOf(doc, b) \in b + 1 .. Len(doc) /\ Level(doc, b + 1) = Level(doc, b) + 1
        /\ \A k \in b + 1 .. EndOf(doc, b) : Level(doc, b) < Level(doc, k)
    BY <1>0, FenceIs
  <1>4. x \in b + 1 .. EndOf(doc, b) - 1 /\ Level(doc, x) = Level(doc, b) + 1
    BY <1>0, <1>3 DEF Starts
  <1>5. EndOf(doc, x) \in x + 1 .. Len(doc) /\ LastOf(doc, x) = EndOf(doc, x) /\ LastOf(doc, b) = EndOf(doc, b)
    BY <1>0, FenceIs DEF LastOf
  <1>6. b < x /\ x <= i /\ i <= EndOf(doc, b) /\ b < i /\ b \in Nat /\ x \in Nat
    BY <1>0, <1>3, <1>5
  <1>7. b \in Around(doc, i)
    <2>1. \A m \in b + 1 .. i : Level(doc, m) > Level(doc, b)
      <3> SUFFICES ASSUME NEW m \in b + 1 .. i PROVE Level(doc, m) > Level(doc, b)
        OBVIOUS
      <3>1. m \in b + 1 .. EndOf(doc, b) /\ m \in 1 .. Len(doc) + 1 /\ b \in 1 .. Len(doc) + 1
        BY <1>3, <1>6
      <3> QED  BY <1>2, <1>3, <3>1
    <2>2. b \in 1 .. i - 1
      BY <1>1, <1>6
    <2> QED  BY <1>0, <2>1, <2>2 DEF Around
  <1>8. ASSUME NEW j \in Around(doc, i), b < j
        PROVE  j >= x
    <2> SUFFICES ASSUME j < x PROVE FALSE
      BY <1>1, <1>6
    <2>1. x \in j + 1 .. i /\ j \in b + 1 .. EndOf(doc, b) /\ j \in 1 .. Len(doc) + 1
          /\ x \in 1 .. Len(doc) + 1 /\ b \in 1 .. Len(doc) + 1
      BY <1>1, <1>3, <1>4, <1>6, <1>8
    <2>2. Level(doc, x) > Level(doc, j)
      BY <2>1 DEF Around
    <2>3. Level(doc, b) < Level(doc, j)
      BY <1>3, <2>1
    <2> QED  BY <1>2, <1>4, <2>1, <2>2, <2>3
  <1> DEFINE cb == {j \in Around(doc, i) : j >= b /\ doc[j].kind = "card"}
             cx == {j \in Around(doc, i) : j >= x /\ doc[j].kind = "card"}
  <1>9. \A j : j \in cb <=> j \in cx \/ (j = b /\ doc[b].kind = "card")
    <2> SUFFICES ASSUME NEW j \in Around(doc, i)
                 PROVE  j >= b <=> j >= x \/ j = b
      BY <1>7
    <2>1. j \in Nat
      BY <1>1
    <2> QED  BY <1>6, <1>8, <2>1
  <1>10. cb \subseteq 0 .. i /\ cx \subseteq 0 .. i
    BY <1>1
  <1>11. \A j \in cx : j > b
    BY <1>1, <1>6
  <1>12. FacetFrom(doc, b, f, i) = (IF cb = {} THEN f ELSE doc[Greatest(cb)].facet)
        /\ FacetFrom(doc, x, OwnFacet(doc, b, f), i)
             = (IF cx = {} THEN OwnFacet(doc, b, f) ELSE doc[Greatest(cx)].facet)
    BY DEF FacetFrom
  <1> HIDE DEF cb, cx
  <1>13. CASE cx # {}
    <2>1. Greatest(cx) \in cx /\ \A m \in cx : Greatest(cx) >= m
      BY <1>1, <1>10, <1>13, GreatestOf
    <2> DEFINE g == Greatest(cx)
    <2>2. g \in cb /\ \A m \in cb : m <= g
      <3>1. \A m \in cx : m \in Nat
        BY <1>10
      <3> QED  BY <1>6, <1>9, <1>11, <2>1, <3>1
    <2>3. Greatest(cb) = g
      <3> HIDE DEF g
      <3> QED  BY <1>1, <1>10, <2>2, GreatestIs
    <2> QED  BY <1>12, <1>13, <2>2, <2>3
  <1>14. CASE cx = {} /\ doc[b].kind = "card"
    <2>1. cb = {b}
      BY <1>9, <1>14
    <2>2. Greatest(cb) = b
      <3>1. b \in cb /\ \A m \in cb : m <= b
        BY <1>6, <2>1
      <3> QED  BY <1>1, <1>10, <3>1, GreatestIs
    <2> QED  BY <1>12, <1>14, <2>1, <2>2 DEF OwnFacet
  <1>15. CASE cx = {} /\ doc[b].kind # "card"
    <2>1. cb = {}
      BY <1>9, <1>15
    <2> QED  BY <1>12, <1>15, <2>1 DEF OwnFacet
  <1> QED  BY <1>13, <1>14, <1>15

LEMMA FacetOfTop ==
  ASSUME NEW doc \in Seq(AnyLine), Balanced(doc), NEW b \in Tops(doc),
         NEW i \in b .. LastOf(doc, b), i \in DOMAIN doc
  PROVE  FacetFrom(doc, b, NoFacet, i) = NearestFacet(doc, i)
  <1>0. \A k \in 1 .. Len(doc) + 1 : Level(doc, k) \in Int /\ Level(doc, k) >= 0
    BY LevelTyped DEF Balanced
  <1>1. /\ Around(doc, i) \subseteq 0 .. i /\ i \in Nat
        /\ \A j \in Around(doc, i) : j \in DOMAIN doc /\ j < i /\ Opens(doc[j])
    BY AroundTyped
  <1>2. b \in DOMAIN doc /\ Level(doc, b) = 0
    <2>1. b \in DOMAIN doc /\ Level(doc, b) = Level(doc, 1)
      BY DEF Tops, Starts
    <2>2. 1 \in 1 .. Len(doc) + 1
      OBVIOUS
    <2> QED  BY <2>1, <2>2, LevelTyped
  <1>3. ASSUME NEW j \in Around(doc, i)
        PROVE  j >= b
    <2> SUFFICES ASSUME j < b PROVE FALSE
      BY <1>1, <1>2
    <2>1. b \in j + 1 .. i /\ j \in 1 .. Len(doc) + 1
      BY <1>1, <1>2
    <2>2. Level(doc, b) > Level(doc, j)
      BY <2>1 DEF Around
    <2> QED  BY <1>0, <1>2, <2>1, <2>2
  <1>4. {j \in Around(doc, i) : j >= b /\ doc[j].kind = "card"} = {j \in Around(doc, i) : doc[j].kind = "card"}
    BY <1>3
  <1> QED  BY <1>4 DEF FacetFrom, NearestFacet

FacetsIn(doc) == {NoFacet} \cup {doc[k].facet : k \in DOMAIN doc}

ExtractBlock(doc, extract, block) ==
    [facet \in FacetsIn(doc) |->
       LET own == IF doc[block].kind = "card" THEN doc[block].facet ELSE facet
           nested == Blocks(doc, block)
       IN Links(doc, block, own) \o FlattenSeq([i \in DOMAIN nested |-> extract[nested[i]][own]])]

LEMMA ExtractExists ==
  ASSUME NEW doc \in Seq(AnyLine), Balanced(doc)
  PROVE  \E extract : extract = [block \in DOMAIN doc |-> ExtractBlock(doc, extract, block)]
  <1> DEFINE n == Len(doc)
             Is(f, m) == f = [b \in m .. n |-> ExtractBlock(doc, f, b)]
             S == {k \in Nat : k <= n => \E f : Is(f, (n + 1) - k)}
  <1>0. n \in Nat /\ DOMAIN doc = 1 .. n
    OBVIOUS
  <1>1. ASSUME NEW b \in 1 .. n, NEW f, NEW g, \A k \in b + 1 .. n : f[k] = g[k]
        PROVE  ExtractBlock(doc, f, b) = ExtractBlock(doc, g, b)
    <2> DEFINE nested == Blocks(doc, b)
    <2>1. \A i \in DOMAIN nested : nested[i] \in b + 1 .. n
      <3>1. b \in DOMAIN doc
        OBVIOUS
      <3>2. /\ Lists(nested, Nested(doc, b))
            /\ \A k \in Nested(doc, b) : k \in b + 1 .. Len(doc)
        BY <3>1, BlocksIs
      <3> HIDE DEF nested
      <3> QED  BY <3>2, ListsAt
    <2>2. \A i \in DOMAIN nested : f[nested[i]] = g[nested[i]]
      <3> HIDE DEF nested
      <3> QED  BY <1>1, <2>1
    <2>3. \A own : [i \in DOMAIN nested |-> f[nested[i]][own]] = [i \in DOMAIN nested |-> g[nested[i]][own]]
      <3> HIDE DEF nested
      <3> QED  BY <2>2
    <2> DEFINE own(facet) == IF doc[b].kind = "card" THEN doc[b].facet ELSE facet
               under(h, facet) ==
                 Links(doc, b, own(facet)) \o FlattenSeq([i \in DOMAIN nested |-> h[nested[i]][own(facet)]])
    <2>4. \A h : ExtractBlock(doc, h, b) = [facet \in FacetsIn(doc) |-> under(h, facet)]
      BY DEF ExtractBlock
    <2>5. \A facet : under(f, facet) = under(g, facet)
      <3> SUFFICES ASSUME NEW facet PROVE under(f, facet) = under(g, facet)
        OBVIOUS
      <3>1. [i \in DOMAIN nested |-> f[nested[i]][own(facet)]] = [i \in DOMAIN nested |-> g[nested[i]][own(facet)]]
        <4> HIDE DEF nested, own
        <4> QED  BY <2>3
      <3> HIDE DEF nested, own
      <3> QED  BY <3>1
    <2> HIDE DEF under
    <2> QED  BY <2>4, <2>5
  <1>2. 0 \in S
    <2>1. Is([b \in n + 1 .. n |-> 0], (n + 1) - 0)
      <3>1. n + 1 .. n = {} /\ (n + 1) - 0 = n + 1
        BY <1>0
      <3> HIDE DEF n
      <3> QED  BY <3>1
    <2> HIDE DEF Is, n
    <2> QED  BY <2>1
  <1>3. ASSUME NEW k \in Nat, k \in S
        PROVE  k + 1 \in S
    <2> HIDE DEF n
    <2> SUFFICES ASSUME k + 1 <= n
                 PROVE  \E f : Is(f, (n + 1) - (k + 1))
      <3> HIDE DEF Is
      <3> QED  OBVIOUS
    <2> DEFINE w == (n + 1) - (k + 1)
    <2>1. w \in 1 .. n /\ (n + 1) - k = w + 1
      <3> HIDE DEF S, Is
      <3> QED  BY <1>0
    <2>2. PICK f : Is(f, w + 1)
      <3>1. k <= n
        BY <1>0
      <3> HIDE DEF Is, w
      <3> QED  BY <1>3, <2>1, <3>1
    <2> HIDE DEF w
    <2> DEFINE g == [b \in w .. n |-> IF b = w THEN ExtractBlock(doc, f, w) ELSE f[b]]
    <2>3. \A b \in w + 1 .. n : b \in w .. n /\ b # w /\ f[b] = ExtractBlock(doc, f, b)
      <3>1. \A b \in w + 1 .. n : b \in w .. n /\ b # w
        BY <1>0, <2>1
      <3>2. f = [b \in w + 1 .. n |-> ExtractBlock(doc, f, b)]
        BY <2>2
      <3>3. \A b \in w + 1 .. n : f[b] = ExtractBlock(doc, f, b)
        BY <3>2
      <3> QED  BY <3>1, <3>3
    <2>4. \A b \in w + 1 .. n : f[b] = g[b]
      BY <2>3
    <2>5. g[w] = ExtractBlock(doc, f, w)
      <3>1. w \in w .. n
        BY <1>0, <2>1
      <3> QED  BY <3>1
    <2>6. DOMAIN g = w .. n /\ g = [b \in w .. n |-> g[b]]
      OBVIOUS
    <2> HIDE DEF g
    <2>7. ASSUME NEW b \in w .. n
          PROVE  g[b] = ExtractBlock(doc, g, b)
      <3>1. b \in 1 .. n /\ \A j \in b + 1 .. n : j \in w + 1 .. n
        BY <1>0, <2>1
      <3>2. ExtractBlock(doc, f, b) = ExtractBlock(doc, g, b)
        BY <1>1, <2>4, <3>1
      <3>3. b = w \/ b \in w + 1 .. n
        BY <1>0, <2>1
      <3> QED  BY <2>3, <2>4, <2>5, <3>2, <3>3
    <2>8. Is(g, w)
      BY <2>6, <2>7
    <2> HIDE DEF Is
    <2> QED  BY <2>8 DEF w
  <1>4. n \in S
    <2> HIDE DEF S
    <2> QED  BY <1>0, <1>2, <1>3, SetOfNaturals
  <1>5. \E f : Is(f, 1)
    <2>1. (n + 1) - n = 1 /\ n <= n
      BY <1>0
    <2> HIDE DEF Is, n
    <2> QED  BY <1>4, <2>1
  <1> QED  BY <1>0, <1>5

-----------------------------------------------------------------------------
(* Every link once, with the facet of the nearest card.                    *)

LinkedIn(doc, b) == {i \in b .. LastOf(doc, b) : i \in DOMAIN doc /\ doc[i].to # NoLink}

LinkAt(doc, b, f) == [i \in DOMAIN doc |-> [to |-> doc[i].to, facet |-> FacetFrom(doc, b, f, i)]]

Indexed(doc, b, f, r) == \E s : Counts(s, LinkedIn(doc, b)) /\ r = Each(s, LinkAt(doc, b, f))

LEMMA LinkedIsText ==
  ASSUME NEW doc \in Seq(AnyLine), NEW i \in DOMAIN doc, doc[i].to # NoLink
  PROVE  doc[i].kind = "text"
  <1>1. doc[i] \in AnyLine
    OBVIOUS
  <1> QED  BY <1>1, LineIs

\* The same elements make the same of functions that agree on them.
LEMMA EachSame ==
  ASSUME NEW s, NEW S, Counts(s, S), NEW g, NEW h, \A x \in S : g[x] = h[x]
  PROVE  Each(s, g) = Each(s, h)
  <1>1. \A k \in DOMAIN s : s[k] \in S
    BY DEF Counts, ToSet
  <1> QED  BY <1>1 DEF Each

LEMMA LinksIs ==
  ASSUME NEW doc \in Seq(AnyLine), Balanced(doc), NEW b \in DOMAIN doc, doc[b].kind # "close", NEW f
  PROVE  \E s : /\ Counts(s, {i \in ContentOf(doc, b) : doc[i].to # NoLink})
                /\ Links(doc, b, OwnFacet(doc, b, f)) = Each(s, LinkAt(doc, b, f))
  <1> DEFINE K == {k \in DOMAIN doc : doc[k].to # NoLink}
             s == Among(Content(doc, b), K)
             own == OwnFacet(doc, b, f)
             C == {i \in ContentOf(doc, b) : doc[i].to # NoLink}
  <1>1. Lists(Content(doc, b), ContentOf(doc, b)) /\ \A i \in ContentOf(doc, b) : i \in DOMAIN doc
    BY ContentIs
  <1>2. Lists(s, ContentOf(doc, b) \cap K)
    <2> HIDE DEF K
    <2> QED  BY <1>1, ListsAmong
  <1>3. \A x : x \in ContentOf(doc, b) \cap K <=> x \in C
    BY <1>1
  <1>4. Links(doc, b, own) = [k \in DOMAIN s |-> [to |-> doc[s[k]].to, facet |-> own]]
    BY DEF Links
  <1> HIDE DEF s, K, C
  <1>5. Lists(s, C)
    BY <1>2, <1>3, ListsSame
  <1>6. Counts(s, C)
    BY <1>5, CountsOfLists
  <1>7. \A k \in DOMAIN s : s[k] \in DOMAIN doc /\ s[k] \in ContentOf(doc, b)
    <2>1. \A k \in DOMAIN s : s[k] \in C
      BY <1>5, ListsAt
    <2> QED  BY <1>1, <2>1 DEF C
  <1>8. \A k \in DOMAIN s : LinkAt(doc, b, f)[s[k]] = [to |-> doc[s[k]].to, facet |-> own]
    <2>1. \A k \in DOMAIN s : FacetFrom(doc, b, f, s[k]) = own
      BY <1>7, FacetOfContent
    <2> HIDE DEF own
    <2> QED  BY <1>7, <2>1 DEF LinkAt
  <1>9. Links(doc, b, own) = Each(s, LinkAt(doc, b, f))
    BY <1>4, <1>8 DEF Each
  <1> QED  BY <1>6, <1>9 DEF C

\* What extract has of some blocks is their links, each once.
Gathered(doc, S, blocks, extract, f, g) ==
    \E s : /\ Counts(s, UNION {LinkedIn(doc, x) : x \in S})
           /\ FlattenSeq([i \in DOMAIN blocks |-> extract[blocks[i]][f]]) = Each(s, g)

LEMMA BlocksIndexed ==
  ASSUME NEW doc \in Seq(AnyLine), Balanced(doc), NEW a, NEW e, Room(doc, a, e),
         NEW S, S \subseteq Starts(doc, a, e), NEW blocks, Lists(blocks, S), NEW f, NEW extract,
         \A x \in S : Indexed(doc, x, f, extract[x][f]), NEW g,
         \A x \in S : \A i \in LinkedIn(doc, x) : g[i] = LinkAt(doc, x, f)[i]
  PROVE  Gathered(doc, S, blocks, extract, f, g)
  <1> DEFINE n == Len(blocks)
             P(x, s) == Counts(s, LinkedIn(doc, x)) /\ extract[x][f] = Each(s, LinkAt(doc, x, f))
             At(x) == CHOOSE s : P(x, s)
             ss == [i \in 1 .. n |-> At(blocks[i])]
             SS == [i \in 1 .. n |-> LinkedIn(doc, blocks[i])]
             U == UNION {LinkedIn(doc, x) : x \in S}
  <1>1. /\ n \in Nat /\ DOMAIN blocks = 1 .. n /\ \A i \in 1 .. n : blocks[i] \in S
        /\ \A i, j \in 1 .. n : i < j => blocks[i] < blocks[j]
        /\ \A x \in S : \E i \in 1 .. n : x = blocks[i]
    BY ListsAt
  <1>2. a \in 1 .. Len(doc) + 1 /\ e \in a .. Len(doc) + 1
    BY DEF Room
  <1>3. ASSUME NEW x \in S PROVE P(x, At(x))
    <2>1. \E s : P(x, s)
      BY DEF Indexed
    <2> HIDE DEF P
    <2> QED  BY <2>1
  <1>4. ASSUME NEW b \in S, NEW c \in S, b < c, NEW x \in LinkedIn(doc, b), x \in LinkedIn(doc, c)
        PROVE  FALSE
    <2>1. LastOf(doc, b) \in b .. Len(doc) /\ LastOf(doc, b) < c /\ b \in Int /\ c \in Int
      BY <1>2, <1>4, BlockBefore
    <2>2. x \in b .. LastOf(doc, b) /\ x \in c .. LastOf(doc, c)
      BY <1>4 DEF LinkedIn
    <2> QED  BY <2>1, <2>2
  <1> HIDE DEF At, n
  <1>5. \A i \in 1 .. n : Counts(ss[i], SS[i])
    BY <1>1, <1>3
  <1>6. \A i, j \in 1 .. n : i < j => \A x \in SS[i] : x \notin SS[j]
    BY <1>1, <1>4
  <1>7. \A x : x \in U <=> \E i \in 1 .. n : x \in SS[i]
    BY <1>1
  <1>8. DOMAIN ss = 1 .. n /\ ss = [i \in 1 .. n |-> ss[i]]
    OBVIOUS
  <1>9. \A i \in 1 .. n : extract[blocks[i]][f] = Each(ss[i], g)
    <2> SUFFICES ASSUME NEW i \in 1 .. n PROVE extract[blocks[i]][f] = Each(ss[i], g)
      OBVIOUS
    <2> DEFINE x == blocks[i]
               s == At(x)
    <2>1. x \in S /\ P(x, s) /\ ss[i] = s
      BY <1>1, <1>3
    <2>2. \A y \in LinkedIn(doc, x) : LinkAt(doc, x, f)[y] = g[y]
      BY <2>1
    <2> HIDE DEF x, s
    <2>3. Each(s, LinkAt(doc, x, f)) = Each(s, g)
      BY <2>1, <2>2, EachSame
    <2> QED  BY <2>1, <2>3 DEF x
  <1>10. [i \in DOMAIN blocks |-> extract[blocks[i]][f]] = [i \in DOMAIN ss |-> Each(ss[i], g)]
    BY <1>1, <1>8, <1>9
  <1> HIDE DEF ss, SS, U
  <1>11. Counts(FlattenSeq(ss), U) /\ ss \in Seq(Seq(Nat))
    BY <1>1, <1>5, <1>6, <1>7, <1>8, CountsFlatten
  <1> DEFINE h == [k \in Nat |-> g[k]]
             V == {h[k] : k \in Nat}
  <1>12. h \in [Nat -> V]
    OBVIOUS
  <1>13. \A k \in Nat : h[k] = g[k]
    OBVIOUS
  <1> HIDE DEF h, V
  <1>14. /\ FlattenSeq([i \in DOMAIN ss |-> Each(ss[i], h)]) = Each(FlattenSeq(ss), h)
         /\ Each(FlattenSeq(ss), h) \in Seq(V)
    <2>1. ss \in Seq(Seq(Nat))
      BY <1>11
    <2> QED  BY <1>12, <2>1, FlattenEach
  <1>15. \A s \in Seq(Nat) : Each(s, h) = Each(s, g)
    <2> SUFFICES ASSUME NEW s \in Seq(Nat) PROVE Each(s, h) = Each(s, g)
      OBVIOUS
    <2>1. \A k \in DOMAIN s : h[s[k]] = g[s[k]]
      BY <1>13
    <2> QED  BY <2>1 DEF Each
  <1>16. FlattenSeq(ss) \in Seq(Nat) /\ \A i \in DOMAIN ss : ss[i] \in Seq(Nat)
    BY <1>11 DEF Counts
  <1>17. [i \in DOMAIN ss |-> Each(ss[i], h)] = [i \in DOMAIN ss |-> Each(ss[i], g)]
    BY <1>15, <1>16
  <1>18. FlattenSeq([i \in DOMAIN blocks |-> extract[blocks[i]][f]]) = Each(FlattenSeq(ss), g)
    BY <1>10, <1>14, <1>15, <1>16, <1>17
  <1> QED  BY <1>11, <1>18 DEF U, Gathered

\* The links of a block that lists them: of its content, then of the blocks in it.
IndexedBy(doc, extract, b) == \A f \in FacetsIn(doc) : Indexed(doc, b, f, extract[b][f])

LEMMA OwnFacetTyped ==
  ASSUME NEW doc \in Seq(AnyLine), NEW b \in DOMAIN doc, NEW f \in FacetsIn(doc)
  PROVE  OwnFacet(doc, b, f) \in FacetsIn(doc)
  BY DEF OwnFacet, FacetsIn

\* What is linked in a fence is linked in its content or in one of its blocks, never in both.
LEMMA LinkedParts ==
  ASSUME NEW doc \in Seq(AnyLine), Balanced(doc), NEW b \in DOMAIN doc, Opens(doc[b]), NEW i
  PROVE  /\ i \in LinkedIn(doc, b) <=>
              \/ i \in ContentOf(doc, b) /\ doc[i].to # NoLink
              \/ \E x \in Nested(doc, b) : i \in LinkedIn(doc, x)
         /\ i \in ContentOf(doc, b) => \A x \in Nested(doc, b) : i \notin LinkedIn(doc, x)
  <1> DEFINE e == EndOf(doc, b)
  <1>0. \A k \in 1 .. Len(doc) + 1 : Level(doc, k) \in Int
    BY LevelTyped
  <1>1. /\ e \in b + 1 .. Len(doc) /\ Level(doc, b + 1) = Level(doc, b) + 1
        /\ doc[e].kind = "close" /\ LastOf(doc, b) = e
    BY FenceIs DEF LastOf
  <1>2. \A j \in DOMAIN doc : doc[j].to # NoLink => doc[j].kind = "text"
    BY LinkedIsText
  <1>3. \A j \in ContentOf(doc, b) : /\ j \in b .. e /\ j \in DOMAIN doc
                                     /\ doc[j].kind = "text" /\ Level(doc, j) = Level(doc, b) + 1
    <2> SUFFICES ASSUME NEW j \in ContentOf(doc, b)
                 PROVE  /\ j \in b .. e /\ j \in DOMAIN doc
                        /\ doc[j].kind = "text" /\ Level(doc, j) = Level(doc, b) + 1
      OBVIOUS
    <2>1. doc[b].kind # "close"
      BY DEF Opens
    <2>2. j \in b .. LastOf(doc, b) /\ j \in DOMAIN doc
      BY <2>1, ContentIs
    <2>3. j \in Directly(doc, b)
      BY DEF ContentOf
    <2> QED  BY <1>1, <2>2, <2>3, DirectlyIs
  <1>4. ASSUME NEW x \in Nested(doc, b)
        PROVE  /\ x \in DOMAIN doc /\ x \in b + 1 .. Len(doc) /\ Opens(doc[x])
               /\ LastOf(doc, x) \in x .. Len(doc) /\ LastOf(doc, x) < e
               /\ \A j \in LinkedIn(doc, x) : Level(doc, j) > Level(doc, b) + 1
    <2>1. /\ x \in b + 1 .. Len(doc) /\ x \in DOMAIN doc /\ Opens(doc[x])
          /\ x \in Starts(doc, b + 1, e) /\ LastOf(doc, x) < LastOf(doc, b)
      BY BlocksIs
    <2>2. EndOf(doc, x) \in x + 1 .. Len(doc) /\ LastOf(doc, x) = EndOf(doc, x)
      BY <2>1, FenceIs DEF LastOf
    <2>3. Level(doc, x) = Level(doc, b) + 1
      BY <1>1, <2>1 DEF Starts
    <2>4. ASSUME NEW j \in LinkedIn(doc, x) PROVE Level(doc, j) > Level(doc, b) + 1
      <3>1. j \in x .. LastOf(doc, x) /\ j \in DOMAIN doc /\ doc[j].kind = "text"
        BY <1>2 DEF LinkedIn
      <3>2. j # x
        BY <2>1, <3>1 DEF Opens
      <3>3. x < j /\ j <= EndOf(doc, x) /\ j \in x + 1 .. j
        BY <2>1, <2>2, <3>1, <3>2
      <3>4. Level(doc, x) < Level(doc, j)
        BY <2>1, <3>1, <3>3, InsideIs
      <3>5. Level(doc, x) \in Int /\ Level(doc, j) \in Int
        BY <1>0, <2>1, <3>1
      <3> QED  BY <2>3, <3>4, <3>5
    <2> QED  BY <1>1, <2>1, <2>2, <2>4
  <1>5. ASSUME i \in LinkedIn(doc, b)
        PROVE  \/ i \in ContentOf(doc, b)
               \/ \E x \in Nested(doc, b) : i \in LinkedIn(doc, x)
    <2>1. i \in b .. e /\ i \in DOMAIN doc /\ doc[i].to # NoLink /\ doc[i].kind = "text"
      BY <1>1, <1>2, <1>5 DEF LinkedIn
    <2>2. i \in b + 1 .. e - 1 /\ i \in b + 1 .. Len(doc)
      <3>1. i # b /\ i # e
        BY <1>1, <2>1 DEF Opens
      <3> QED  BY <1>1, <2>1, <3>1
    <2>3. Room(doc, b + 1, e)
      BY RoomOfFence
    <2>4. PICK x \in Starts(doc, b + 1, e) : i \in x .. LastOf(doc, x)
      <3>1. doc[i].kind # "close"
        BY <2>1
      <3> HIDE DEF e
      <3> QED  BY <2>2, <2>3, <3>1, RoomIs
    <2>5. x \in b + 1 .. e - 1 /\ x \in DOMAIN doc /\ Level(doc, x) = Level(doc, b + 1)
      BY <1>1 DEF Starts
    <2>6. CASE Opens(doc[x])
      <3>1. x \in Nested(doc, b)
        BY <2>6 DEF Nested
      <3>2. i \in LinkedIn(doc, x)
        BY <2>1, <2>4 DEF LinkedIn
      <3> QED  BY <3>1, <3>2
    <2>7. CASE ~Opens(doc[x])
      <3>1. doc[x].kind = "text"
        BY <2>7 DEF Starts, Begins
      <3>2. /\ ProseEnd(doc, x) \in x .. Len(doc) /\ LastOf(doc, x) = ProseEnd(doc, x)
            /\ \A k \in x .. ProseEnd(doc, x) : doc[k].kind = "text"
        BY <2>5, <2>7, <3>1, ProseEndIs DEF LastOf
      <3>3. i \in x .. ProseEnd(doc, x) + 1
        BY <2>4, <3>2
      <3>4. Level(doc, i) = Level(doc, x)
        <4>1. x \in 1 .. Len(doc)
          BY <2>5
        <4> QED  BY <3>2, <3>3, <4>1, LevelOfText
      <3>5. i \in Directly(doc, b)
        BY <1>1, <2>1, <2>2, <2>5, <3>4, DirectlyIs
      <3> QED  BY <3>5 DEF ContentOf
    <2> QED  BY <2>6, <2>7
  <1>6. ASSUME i \in ContentOf(doc, b), doc[i].to # NoLink PROVE i \in LinkedIn(doc, b)
    BY <1>1, <1>3, <1>6 DEF LinkedIn
  <1>7. ASSUME NEW x \in Nested(doc, b), i \in LinkedIn(doc, x) PROVE i \in LinkedIn(doc, b)
    <2>1. i \in x .. LastOf(doc, x) /\ i \in DOMAIN doc /\ doc[i].to # NoLink
      BY <1>7 DEF LinkedIn
    <2>2. i \in b .. e
      BY <1>1, <1>4, <2>1
    <2> QED  BY <1>1, <2>1, <2>2 DEF LinkedIn
  <1>8. ASSUME i \in ContentOf(doc, b), NEW x \in Nested(doc, b), i \in LinkedIn(doc, x) PROVE FALSE
    <2>1. Level(doc, i) = Level(doc, b) + 1 /\ i \in 1 .. Len(doc) + 1 /\ b \in 1 .. Len(doc) + 1
      BY <1>3, <1>8
    <2> QED  BY <1>0, <1>4, <1>8, <2>1
  <1>9. i \in LinkedIn(doc, b) => doc[i].to # NoLink
    BY DEF LinkedIn
  <1> QED  BY <1>5, <1>6, <1>7, <1>8, <1>9

LEMMA IndexedFence ==
  ASSUME NEW doc \in Seq(AnyLine), Balanced(doc), NEW b \in DOMAIN doc, Opens(doc[b]), NEW extract,
         \A x \in Nested(doc, b) : IndexedBy(doc, extract, x), NEW f \in FacetsIn(doc)
  PROVE  Indexed(doc, b, f, ExtractBlock(doc, extract, b)[f])
  <1> DEFINE own == OwnFacet(doc, b, f)
             g == LinkAt(doc, b, f)
             S == Nested(doc, b)
             nested == Blocks(doc, b)
             C == {i \in ContentOf(doc, b) : doc[i].to # NoLink}
             U == UNION {LinkedIn(doc, x) : x \in S}
             rest == FlattenSeq([i \in DOMAIN nested |-> extract[nested[i]][own]])
  <1>0. doc[b].kind # "close" /\ own \in FacetsIn(doc)
    BY OwnFacetTyped DEF Opens
  <1>1. ExtractBlock(doc, extract, b)[f] = Links(doc, b, own) \o rest
    BY DEF ExtractBlock, OwnFacet
  <1>2. Lists(nested, S) /\ S \subseteq Starts(doc, b + 1, EndOf(doc, b))
    <2>1. Lists(nested, S) /\ \A x \in S : x \in Starts(doc, b + 1, EndOf(doc, b))
      BY BlocksIs
    <2> QED  BY <2>1
  <1>3. Room(doc, b + 1, EndOf(doc, b))
    BY RoomOfFence
  <1>4. \A x \in S : Indexed(doc, x, own, extract[x][own])
    BY <1>0 DEF IndexedBy
  <1>5. \A x \in S : \A i \in LinkedIn(doc, x) : g[i] = LinkAt(doc, x, own)[i]
    <2> SUFFICES ASSUME NEW x \in S, NEW i \in LinkedIn(doc, x)
                 PROVE  g[i] = LinkAt(doc, x, own)[i]
      OBVIOUS
    <2>1. i \in x .. LastOf(doc, x) /\ i \in DOMAIN doc /\ doc[i].to # NoLink
      BY DEF LinkedIn
    <2>2. doc[i].kind = "text"
      BY <2>1, LinkedIsText
    <2>3. FacetFrom(doc, b, f, i) = FacetFrom(doc, x, own, i)
      BY <2>1, <2>2, FacetOfNested
    <2> QED  BY <2>1, <2>3 DEF LinkAt
  <1>6. PICK s1 : Counts(s1, C) /\ Links(doc, b, own) = Each(s1, g)
    BY <1>0, LinksIs
  <1> HIDE DEF own, g, S, nested, C, rest
  <1>7. PICK s2 : Counts(s2, UNION {LinkedIn(doc, x) : x \in S}) /\ rest = Each(s2, g)
    <2>1. Gathered(doc, S, nested, extract, own, g)
      BY <1>2, <1>3, <1>4, <1>5, BlocksIndexed
    <2> QED  BY <2>1 DEF rest, Gathered
  <1>8. Counts(s2, U)
    BY <1>7
  <1>9. \A i : i \in U <=> \E x \in S : i \in LinkedIn(doc, x)
    OBVIOUS
  <1> HIDE DEF U
  <1>10. \A i \in C : i \notin U
    BY <1>9, LinkedParts DEF C, S
  <1>11. Counts(s1 \o s2, C \cup U)
    BY <1>6, <1>8, <1>10, CountsConcat
  <1>12. \A i : i \in C \cup U <=> i \in LinkedIn(doc, b)
    BY <1>9, LinkedParts DEF C, S
  <1>13. Counts(s1 \o s2, LinkedIn(doc, b))
    BY <1>11, <1>12 DEF Counts
  <1>14. Each(s1 \o s2, g) = Each(s1, g) \o Each(s2, g)
    <2>1. s1 \in Seq(Nat) /\ s2 \in Seq(Nat)
      BY <1>6, <1>8 DEF Counts
    <2> QED  BY <2>1, EachConcat
  <1>15. ExtractBlock(doc, extract, b)[f] = Each(s1 \o s2, g)
    BY <1>1, <1>6, <1>7, <1>14
  <1> QED  BY <1>13, <1>15 DEF Indexed, g

LEMMA IndexedProse ==
  ASSUME NEW doc \in Seq(AnyLine), Balanced(doc), NEW b \in DOMAIN doc, doc[b].kind = "text", NEW extract,
         NEW f \in FacetsIn(doc)
  PROVE  Indexed(doc, b, f, ExtractBlock(doc, extract, b)[f])
  <1> DEFINE own == OwnFacet(doc, b, f)
             g == LinkAt(doc, b, f)
             nested == Blocks(doc, b)
             C == {i \in ContentOf(doc, b) : doc[i].to # NoLink}
             rest == FlattenSeq([i \in DOMAIN nested |-> extract[nested[i]][own]])
  <1>0. doc[b].kind # "close" /\ ~Opens(doc[b])
    BY DEF Opens
  <1>1. ExtractBlock(doc, extract, b)[f] = Links(doc, b, own) \o rest
    BY DEF ExtractBlock, OwnFacet
  <1>2. rest = << >>
    <2>1. nested = << >>
      BY <1>0 DEF Blocks
    <2>2. [i \in DOMAIN nested |-> extract[nested[i]][own]] = << >>
      BY <2>1
    <2> QED  BY <2>2, FlattenEmpty
  <1>3. PICK s1 : Counts(s1, C) /\ Links(doc, b, own) = Each(s1, g)
    BY <1>0, LinksIs
  <1>4. Each(s1, g) \o << >> = Each(s1, g)
    <2> DEFINE T == {g[x] : x \in Nat}
               r == Each(s1, g)
    <2>1. s1 \in Seq(Nat)
      BY <1>3 DEF Counts
    <2> HIDE DEF g
    <2>2. r \in Seq(T)
      <3>1. /\ DOMAIN s1 = 1 .. Len(s1) /\ Len(s1) \in Nat
            /\ \A k \in 1 .. Len(s1) : s1[k] \in Nat
        BY <2>1
      <3>2. \A k \in 1 .. Len(s1) : g[s1[k]] \in T
        BY <3>1
      <3> HIDE DEF T
      <3>3. r = [k \in 1 .. Len(s1) |-> g[s1[k]]]
        BY <3>1 DEF Each
      <3> HIDE DEF r
      <3> QED  BY <3>1, <3>2, <3>3
    <2> HIDE DEF r, T
    <2>3. r \o << >> = r
      BY <2>2
    <2> QED  BY <2>3 DEF r
  <1>5. \A i : i \in C <=> i \in LinkedIn(doc, b)
    <2>1. LastOf(doc, b) = ProseEnd(doc, b) /\ ContentOf(doc, b) = b .. ProseEnd(doc, b)
      BY <1>0 DEF LastOf, ContentOf
    <2>2. \A i \in b .. ProseEnd(doc, b) : i \in DOMAIN doc
      BY ProseEndIs
    <2> QED  BY <2>1, <2>2 DEF LinkedIn
  <1>6. Counts(s1, LinkedIn(doc, b))
    BY <1>3, <1>5 DEF Counts
  <1>7. ExtractBlock(doc, extract, b)[f] = Each(s1, g)
    <2> HIDE DEF own, g, rest
    <2> QED  BY <1>1, <1>2, <1>3, <1>4
  <1> QED  BY <1>6, <1>7 DEF Indexed

LEMMA IndexedIs ==
  ASSUME NEW doc \in Seq(AnyLine), Balanced(doc), NEW extract,
         extract = [block \in DOMAIN doc |-> ExtractBlock(doc, extract, block)]
  PROVE  \A b \in DOMAIN doc : doc[b].kind # "close" => IndexedBy(doc, extract, b)
  <1> DEFINE W == {b \in DOMAIN doc : doc[b].kind # "close" /\ ~IndexedBy(doc, extract, b)}
             b == Greatest(W)
  <1> SUFFICES ASSUME W # {} PROVE FALSE
    OBVIOUS
  <1>1. W \subseteq 0 .. Len(doc) /\ Len(doc) \in Nat
    OBVIOUS
  <1>2. b \in W /\ \A k \in W : b >= k
    <2> HIDE DEF W
    <2> QED  BY <1>1, GreatestOf
  <1> HIDE DEF b
  <1>3. b \in DOMAIN doc /\ b \in 1 .. Len(doc) /\ doc[b].kind # "close" /\ ~IndexedBy(doc, extract, b)
    BY <1>2
  <1>4. \A k \in b + 1 .. Len(doc) : doc[k].kind # "close" => IndexedBy(doc, extract, k)
    <2> SUFFICES ASSUME NEW k \in b + 1 .. Len(doc), k \in W PROVE FALSE
      BY <1>3
    <2> HIDE DEF W
    <2> QED  BY <1>2, <1>3
  <1>5. \A x \in Nested(doc, b) : IndexedBy(doc, extract, x)
    <2>1. \A x \in Nested(doc, b) : x \in b + 1 .. Len(doc) /\ doc[x].kind # "close"
      BY <1>3, BlocksIs
    <2> QED  BY <1>4, <2>1
  <1>6. extract[b] = ExtractBlock(doc, extract, b)
    BY <1>3
  <1>7. \A f \in FacetsIn(doc) : Indexed(doc, b, f, ExtractBlock(doc, extract, b)[f])
    <2>1. doc[b] \in AnyLine
      BY <1>3
    <2>2. Opens(doc[b]) \/ doc[b].kind = "text"
      BY <1>3, <2>1, LineIs
    <2> QED  BY <1>3, <1>5, <2>2, IndexedFence, IndexedProse
  <1> QED  BY <1>3, <1>6, <1>7 DEF IndexedBy

LinkOf(doc) == [i \in DOMAIN doc |-> [to |-> doc[i].to, facet |-> NearestFacet(doc, i)]]

\* The index: every link once, in some order, under the facet of the nearest card.
IndexOf(doc, links) ==
    \E s : Counts(s, {i \in DOMAIN doc : doc[i].to # NoLink}) /\ links = Each(s, LinkOf(doc))

LEMMA ExtractIs ==
  ASSUME NEW doc \in Seq(AnyLine), Balanced(doc)
  PROVE  IndexOf(doc, Extract(doc, Parse(doc)))
  <1> DEFINE extract[block \in DOMAIN doc] ==
                [facet \in {NoFacet} \cup {doc[k].facet : k \in DOMAIN doc} |->
                   LET own == IF doc[block].kind = "card" THEN doc[block].facet ELSE facet
                       nested == Blocks(doc, block)
                   IN Links(doc, block, own)
                      \o FlattenSeq([i \in DOMAIN nested |-> extract[nested[i]][own]])]
             s == Parse(doc).blocks
             F == CHOOSE f : f = [block \in DOMAIN doc |-> ExtractBlock(doc, f, block)]
             L == {i \in DOMAIN doc : doc[i].to # NoLink}
             g == LinkOf(doc)
             S == Tops(doc)
  <1>1. extract = F
    BY DEF extract, ExtractBlock, FacetsIn
  <1>2. Extract(doc, Parse(doc)) = FlattenSeq([i \in DOMAIN s |-> extract[s[i]][NoFacet]])
    BY DEF Extract, ExtractBlocks, extract
  <1> HIDE DEF extract
  <1>3. F = [block \in DOMAIN doc |-> ExtractBlock(doc, F, block)]
    BY ExtractExists
  <1> HIDE DEF F
  <1>4. \A b \in DOMAIN doc : doc[b].kind # "close" => IndexedBy(doc, F, b)
    BY <1>3, IndexedIs
  <1>5. Lists(s, S) /\ Room(doc, 1, Len(doc) + 1)
    BY ParseOfBalanced, RoomOfAll
  <1>6. S \subseteq Starts(doc, 1, Len(doc) + 1)
    BY DEF Tops
  <1>7. \A b \in S : b \in DOMAIN doc /\ doc[b].kind # "close"
    <2> SUFFICES ASSUME NEW b \in Tops(doc) PROVE b \in DOMAIN doc /\ doc[b].kind # "close"
      OBVIOUS
    <2>1. b \in DOMAIN doc /\ Begins(doc, 1, b)
      BY DEF Tops, Starts
    <2> QED  BY <2>1 DEF Begins, Opens
  <1>8. \A b \in S : Indexed(doc, b, NoFacet, F[b][NoFacet])
    BY <1>4, <1>7 DEF IndexedBy, FacetsIn
  <1>9. \A b \in S : \A i \in LinkedIn(doc, b) : g[i] = LinkAt(doc, b, NoFacet)[i]
    <2> SUFFICES ASSUME NEW b \in S, NEW i \in LinkedIn(doc, b)
                 PROVE  g[i] = LinkAt(doc, b, NoFacet)[i]
      OBVIOUS
    <2>1. i \in b .. LastOf(doc, b) /\ i \in DOMAIN doc
      BY DEF LinkedIn
    <2>2. FacetFrom(doc, b, NoFacet, i) = NearestFacet(doc, i)
      BY <2>1, FacetOfTop
    <2> QED  BY <2>1, <2>2 DEF LinkAt, LinkOf
  <1> HIDE DEF s, g, S
  <1>10. Gathered(doc, S, s, F, NoFacet, g)
    BY <1>5, <1>6, <1>8, <1>9, BlocksIndexed
  <1>11. \A i : i \in UNION {LinkedIn(doc, x) : x \in S} <=> i \in L
    <2> SUFFICES ASSUME NEW i
                 PROVE  (\E x \in S : i \in LinkedIn(doc, x)) <=> i \in L
      OBVIOUS
    <2>1. (\E x \in S : i \in LinkedIn(doc, x)) => i \in L
      BY DEF LinkedIn
    <2>2. ASSUME i \in L PROVE \E x \in S : i \in LinkedIn(doc, x)
      <3>1. i \in DOMAIN doc /\ doc[i].to # NoLink
        BY <2>2
      <3>2. doc[i].kind # "close"
        <4>1. doc[i].kind = "text"
          BY <3>1, LinkedIsText
        <4> QED  BY <4>1
      <3>3. i \in 1 .. (Len(doc) + 1) - 1
        BY <3>1
      <3>4. \E x \in Starts(doc, 1, Len(doc) + 1) : i \in x .. LastOf(doc, x)
        BY <1>5, <3>2, <3>3, RoomIs
      <3> QED  BY <3>1, <3>4 DEF LinkedIn, S, Tops
    <2> QED  BY <2>1, <2>2
  <1> HIDE DEF L
  <1>12. PICK q : /\ Counts(q, UNION {LinkedIn(doc, x) : x \in S})
                  /\ FlattenSeq([i \in DOMAIN s |-> F[s[i]][NoFacet]]) = Each(q, g)
    BY <1>10 DEF Gathered
  <1>13. Counts(q, L)
    BY <1>11, <1>12 DEF Counts
  <1>14. Extract(doc, Parse(doc)) = Each(q, g)
    BY <1>1, <1>2, <1>12
  <1> QED  BY <1>13, <1>14 DEF IndexOf, L, g

\* As often in the index as in the document.
LEMMA IndexCounts ==
  ASSUME NEW doc \in Seq(AnyLine), NEW links, IndexOf(doc, links), NEW to, to # NoLink, NEW f
  PROVE  Cardinality({k \in DOMAIN links : links[k] = [to |-> to, facet |-> f]})
         = Cardinality({i \in DOMAIN doc : doc[i].to = to /\ NearestFacet(doc, i) = f})
  <1> DEFINE D == {k \in DOMAIN links : links[k] = [to |-> to, facet |-> f]}
             T == {i \in DOMAIN doc : doc[i].to = to /\ NearestFacet(doc, i) = f}
  <1>1. PICK s : Counts(s, {i \in DOMAIN doc : doc[i].to # NoLink}) /\ links = Each(s, LinkOf(doc))
    BY DEF IndexOf
  <1>2. /\ s \in Seq(Nat) /\ Len(s) \in Nat /\ DOMAIN s = 1 .. Len(s)
        /\ \A i, j \in DOMAIN s : i < j => s[i] # s[j]
        /\ \A k \in DOMAIN s : s[k] \in DOMAIN doc
        /\ \A i \in DOMAIN doc : doc[i].to # NoLink => \E k \in DOMAIN s : s[k] = i
    <2>1. s \in Seq(Nat)
      BY <1>1 DEF Counts
    <2>2. \A i, j \in DOMAIN s : i < j => s[i] # s[j]
      BY <1>1 DEF Counts, Sorted, Differ
    <2>3. \A k \in DOMAIN s : s[k] \in DOMAIN doc
      BY <1>1 DEF Counts, ToSet
    <2>4. \A i \in DOMAIN doc : doc[i].to # NoLink => \E k \in DOMAIN s : s[k] = i
      BY <1>1 DEF Counts, ToSet
    <2>5. Len(s) \in Nat /\ DOMAIN s = 1 .. Len(s)
      BY <2>1
    <2> QED  BY <2>1, <2>2, <2>3, <2>4, <2>5
  <1>3. \A k \in DOMAIN s : /\ links[k].to = doc[s[k]].to /\ links[k].facet = NearestFacet(doc, s[k])
                            /\ links[k] = [to |-> doc[s[k]].to, facet |-> NearestFacet(doc, s[k])]
    BY <1>1, <1>2 DEF Each, LinkOf
  <1>4. DOMAIN links = DOMAIN s
    BY <1>1 DEF Each
  <1>5. \A k \in DOMAIN s : k \in D <=> s[k] \in T
    <2> SUFFICES ASSUME NEW k \in DOMAIN s
                 PROVE  links[k] = [to |-> to, facet |-> f]
                          <=> doc[s[k]].to = to /\ NearestFacet(doc, s[k]) = f
      BY <1>2, <1>4
    <2>1. ASSUME links[k] = [to |-> to, facet |-> f]
          PROVE  doc[s[k]].to = to /\ NearestFacet(doc, s[k]) = f
      <3>1. links[k].to = to /\ links[k].facet = f
        BY <2>1
      <3> QED  BY <1>3, <3>1
    <2>2. ASSUME doc[s[k]].to = to /\ NearestFacet(doc, s[k]) = f
          PROVE  links[k] = [to |-> to, facet |-> f]
      BY <1>3, <2>2
    <2> QED  BY <2>1, <2>2
  <1>6. \A i \in T : \E k \in D : s[k] = i
    <2> SUFFICES ASSUME NEW i \in T PROVE \E k \in D : s[k] = i
      OBVIOUS
    <2>1. i \in DOMAIN doc /\ doc[i].to # NoLink
      OBVIOUS
    <2> QED  BY <1>2, <1>5, <2>1
  <1>7. D \subseteq DOMAIN s
    BY <1>4
  <1> HIDE DEF D, T
  <1> DEFINE h == [k \in D |-> s[k]]
  <1>8. h \in Bijection(D, T)
    <2>1. h \in [D -> T]
      BY <1>5, <1>7
    <2>2. \A i, j \in D : h[i] = h[j] => i = j
      <3> SUFFICES ASSUME NEW i \in D, NEW j \in D, s[i] = s[j], i # j PROVE FALSE
        OBVIOUS
      <3>1. i \in 1 .. Len(s) /\ j \in 1 .. Len(s)
        BY <1>2, <1>7
      <3>2. i < j \/ j < i
        BY <1>2, <3>1
      <3> QED  BY <1>2, <3>1, <3>2
    <2>3. \A x \in T : \E k \in D : h[k] = x
      BY <1>6
    <2> HIDE DEF h
    <2> QED  BY <2>1, <2>2, <2>3 DEF Bijection, Injection, Surjection, IsInjective
  <1>9. ExistsBijection(D, T)
    BY <1>8 DEF ExistsBijection
  <1>10. IsFiniteSet(D)
    <2>1. IsFiniteSet(1 .. Len(s))
      BY <1>2, FS_Interval
    <2>2. D \subseteq 1 .. Len(s)
      BY <1>2, <1>7
    <2> QED  BY <2>1, <2>2, FS_Subset
  <1>11. Cardinality(D) = Cardinality(T)
    BY <1>9, <1>10, FS_Bijection
  <1> QED  BY <1>11 DEF D, T

LEMMA IndexIs ==
  ASSUME project \in Projects
  PROVE  LinksAreIndexed
  <1> SUFFICES ASSUME NEW entry \in DOMAIN project
               PROVE  LET doc == project[entry]
                          parsed == Parse(doc)
                          links == Extract(doc, parsed)
                          strays == {i \in DOMAIN doc : Level(doc, i + 1) < 0}
                          open == {j \in DOMAIN doc : Opens(doc[j]) /\
                                      \A k \in j + 1 .. Len(doc) + 1 : Level(doc, k) > Level(doc, j)}
                      IN IF Balanced(doc)
                         THEN /\ parsed.bad = 0
                              /\ \A to \in Names, f \in CardFacets \cup {NoFacet} :
                                    Cardinality({k \in DOMAIN links : links[k] = [to |-> to, facet |-> f]})
                                    = Cardinality({i \in DOMAIN doc : doc[i].to = to /\ NearestFacet(doc, i) = f})
                         ELSE parsed.bad = IF strays # {} THEN Least(strays) ELSE Greatest(open)
    BY DEF LinksAreIndexed
  <1> DEFINE doc == project[entry]
             links == Extract(doc, Parse(doc))
             strays == {i \in DOMAIN doc : Level(doc, i + 1) < 0}
             open == {j \in DOMAIN doc : Opens(doc[j]) /\
                        \A k \in j + 1 .. Len(doc) + 1 : Level(doc, k) > Level(doc, j)}
  <1>1. doc \in Seq(AnyLine)
    BY ProjectIs
  <1> HIDE DEF doc, links
  <1>2. ASSUME Balanced(doc)
        PROVE  /\ Parse(doc).bad = 0
               /\ \A to \in Names, f \in CardFacets \cup {NoFacet} :
                     Cardinality({k \in DOMAIN links : links[k] = [to |-> to, facet |-> f]})
                     = Cardinality({i \in DOMAIN doc : doc[i].to = to /\ NearestFacet(doc, i) = f})
    <2>1. Parse(doc).bad = 0
      BY <1>1, <1>2, ParseOfBalanced
    <2>2. IndexOf(doc, links)
      BY <1>1, <1>2, ExtractIs DEF links
    <2>3. \A to \in Names : to # NoLink
      BY ViewsAssumption
    <2> QED  BY <1>1, <2>1, <2>2, <2>3, IndexCounts
  <1>3. ASSUME ~Balanced(doc)
        PROVE  Parse(doc).bad = IF strays # {} THEN Least(strays) ELSE Greatest(open)
    <2>1. 1 \in 1 .. Len(doc) + 1 /\ DOMAIN doc = 1 .. Len(doc)
      BY <1>1
    <2>2. Level(doc, 1) = 0 /\ \A k \in 1 .. Len(doc) + 1 : Level(doc, k) \in Int
      BY <1>1, <2>1, LevelTyped
    <2>3. Falls(doc, 1) = strays
      BY <2>1, <2>2 DEF Falls
    <2>4. LeftOpen(doc, 1) = open
      <3>1. \A j \in 1 .. Len(doc), k \in 1 .. Len(doc) + 1 :
               Level(doc, j) < Level(doc, k) <=> Level(doc, k) > Level(doc, j)
        BY <1>1, <2>2
      <3>2. \A j \in 1 .. Len(doc) : j + 1 .. Len(doc) + 1 \subseteq 1 .. Len(doc) + 1
        BY <1>1
      <3> QED  BY <2>1, <3>1, <3>2 DEF LeftOpen
    <2>5. Parse(doc).bad = IF Falls(doc, 1) # {} THEN Least(Falls(doc, 1)) ELSE Greatest(LeftOpen(doc, 1))
      BY <1>1, <1>3, ParseOfUnbalanced
    <2> QED  BY <2>3, <2>4, <2>5
  <1> QED  BY <1>2, <1>3 DEF doc, links

\* The index holds every link of an entry exactly as often as it is written, under the
\* facet of the nearest card around it, and refuses a body at the fence that breaks it.
THEOREM IndexesExactly == ViewsSpec => []LinksAreIndexed
  <1>1. project \in Projects => LinksAreIndexed
    BY IndexIs
  <1>2. ViewsSpec => [](project \in Projects)
    <2>1. project \in Projects /\ [project' \in Projects]_project => (project \in Projects)'
      OBVIOUS
    <2> QED  BY <2>1, PTL DEF ViewsSpec
  <1> QED  BY <1>1, <1>2, PTL
=============================================================================
