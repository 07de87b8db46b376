--------------------------- MODULE ContentProofs ----------------------------
(***************************************************************************)
(* For every batch, in every mode, into every project: what ImportPlan     *)
(* decides.  Then, for every number of entries, texts, batches, requests   *)
(* and workers: what EntryStore says of the tables, the bodies and the     *)
(* links.  Then, for every number of facets: what FacetVocabulary says of  *)
(* the bodies.                                                             *)
(*                                                                         *)
(* For every number of legacy entries, with any titles, in any projects:   *)
(* what ContentMigration says of the cutover.                              *)
(***************************************************************************)
EXTENDS EntryStore, ProjectImports, FacetVocabulary, ContentMigration, FiniteSetTheorems, TLAPS

-----------------------------------------------------------------------------
(* The plan of an import.                                                  *)

\* Induction for a set of numbers: the least number outside it would follow one inside.
LEMMA SetOfNaturals ==
  ASSUME NEW S, 0 \in S, \A n \in Nat : n \in S => n + 1 \in S
  PROVE  \A n \in Nat : n \in S
  <1> DEFINE T == Nat \ S
             R == {ss \in Nat \X Nat : ss[1] < ss[2]}
  <1> SUFFICES ASSUME T # {} PROVE FALSE
    OBVIOUS
  <1>1. IsWellFoundedOn(R, Nat)
    BY NatLessThanWellFounded DEF OpToRel
  <1>2. PICK x \in T : \A y \in T : ~ (<<y, x>> \in R)
    <2> HIDE DEF R
    <2> QED  BY <1>1, WFMin
  <1>3. x # 0 /\ x \in Nat
    OBVIOUS
  <1>4. x - 1 \in Nat /\ <<x - 1, x>> \in R
    BY <1>3
  <1>5. x - 1 \in S
    BY <1>2, <1>4
  <1>6. (x - 1) + 1 = x
    BY <1>3
  <1> QED  BY <1>4, <1>5, <1>6

LEMMA Turns ==
  ASSUME NEW items, NEW how, NEW taken, NEW claimed, Len(items) \in Nat
  PROVE  \E plan : 
            /\ plan = [n \in 0 .. Len(items) |->
                 IF n = 0 THEN [report |-> <<>>, taken |-> taken, claimed |-> claimed]
                 ELSE PlanItem(how, plan[n - 1], items[n])]
            /\ PlanFrom(items, how, taken, claimed) = plan[Len(items)]
  <1> DEFINE begin == [report |-> <<>>, taken |-> taken, claimed |-> claimed]
             Step(p, n) == PlanItem(how, p, items[n])
             Is(f, k) == f = [n \in 0 .. k |-> IF n = 0 THEN begin ELSE Step(f[n - 1], n)]
             plan[n \in 0 .. Len(items)] == IF n = 0 THEN begin ELSE Step(plan[n - 1], n)
             S == {k \in Nat : \E f : Is(f, k)}
  <1>1. plan = CHOOSE f : Is(f, Len(items))
    BY DEF plan
  <1>2. PlanFrom(items, how, taken, claimed) = plan[Len(items)]
    BY DEF PlanFrom
  <1> HIDE DEF begin, Step, plan
  <1>3. 0 \in S
    <2> DEFINE f == [n \in 0 .. 0 |-> begin]
    <2>1. Is(f, 0)
      OBVIOUS
    <2> HIDE DEF f, Is
    <2> QED  BY <2>1
  <1>4. ASSUME NEW k \in Nat, k \in S
        PROVE  k + 1 \in S
    <2>1. PICK f : Is(f, k)
      BY <1>4
    <2> DEFINE g == [n \in 0 .. k + 1 |-> IF n = k + 1 THEN Step(f[k], k + 1) ELSE f[n]]
    <2>2. \A n \in 0 .. k : f[n] = IF n = 0 THEN begin ELSE Step(f[n - 1], n)
      BY <2>1
    <2>3. \A n \in 0 .. k : g[n] = f[n]
      OBVIOUS
    <2>4. ASSUME NEW n \in 0 .. k + 1
          PROVE  g[n] = IF n = 0 THEN begin ELSE Step(g[n - 1], n)
      <3>1. CASE n = k + 1
        <4>1. g[n] = Step(f[k], k + 1) /\ g[k] = f[k] /\ n # 0 /\ n - 1 = k
          BY <2>3, <3>1
        <4> HIDE DEF g
        <4> QED  BY <3>1, <4>1
      <3>2. CASE n # k + 1
        <4>1. n \in 0 .. k /\ (n # 0 => n - 1 \in 0 .. k)
          BY <3>2
        <4>2. g[n] = f[n] /\ (n # 0 => g[n - 1] = f[n - 1])
          BY <2>3, <4>1
        <4> HIDE DEF g
        <4> QED  BY <2>2, <4>1, <4>2
      <3> QED  BY <3>1, <3>2
    <2>5. g = [n \in 0 .. k + 1 |-> IF n = 0 THEN begin ELSE Step(g[n - 1], n)]
      <3> DEFINE h == [n \in 0 .. k + 1 |-> IF n = 0 THEN begin ELSE Step(g[n - 1], n)]
      <3>1. \A n \in 0 .. k + 1 : g[n] = h[n]
        BY <2>4
      <3>2. DOMAIN g = 0 .. k + 1 /\ DOMAIN h = 0 .. k + 1
        OBVIOUS
      <3>3. g = h
        BY <3>1
      <3> QED  BY <3>3
    <2>6. Is(g, k + 1)
      BY <2>5
    <2> HIDE DEF g, Is
    <2> QED  BY <2>6
  <1>5. \E f : Is(f, Len(items))
    <2>1. Len(items) \in S
      <3> HIDE DEF Is, S
      <3> QED  BY <1>3, <1>4, SetOfNaturals
    <2> HIDE DEF Is
    <2> QED  BY <2>1
  <1>6. Is(plan, Len(items))
    <2> HIDE DEF Is
    <2> QED  BY <1>1, <1>5
  <1> QED
    BY <1>2, <1>6 DEF begin, Step

LEMMA ItemsOf ==
  ASSUME NEW T, NEW s \in Seq(T), NEW k \in DOMAIN s
  PROVE  s[k] \in T
  OBVIOUS

LEMMA LeastOf ==
  ASSUME NEW S, S \subseteq Nat, S # {}
  PROVE  \E n \in S : \A m \in S : n <= m
  <1> DEFINE R == {ss \in Nat \X Nat : ss[1] < ss[2]}
  <1>1. IsWellFoundedOn(R, Nat)
    BY NatLessThanWellFounded DEF OpToRel
  <1>2. PICK x \in S : \A y \in S : ~ (<<y, x>> \in R)
    <2> HIDE DEF R
    <2> QED  BY <1>1, WFMin
  <1>3. ASSUME NEW y \in S, ~(x <= y)
        PROVE  FALSE
    <2>1. x \in Nat /\ y \in Nat /\ y < x
      BY <1>3
    <2>2. <<y, x>> \in R
      BY <2>1
    <2> QED  BY <1>2, <2>2
  <1> QED  BY <1>3

-----------------------------------------------------------------------------
(* Suffixes.                                                               *)

\* The candidates of two paths never meet: the suffix is the last of the slug.
LEMMA CandidatesDiffer ==
  ASSUME NEW p \in Path, NEW q \in Path, NEW n \in Nat, NEW k \in Nat
  PROVE  /\ Candidate(p, n) \in Path
         /\ Candidate(p, n) = Candidate(q, k) => p = q /\ n = k
  <1>1. /\ Candidate(p, n) = [dir |-> p.dir, slug |-> Append(p.slug, n)]
        /\ Candidate(q, k) = [dir |-> q.dir, slug |-> Append(q.slug, k)]
    <2>1. ASSUME NEW r \in Path, NEW j \in Nat
          PROVE  Candidate(r, j) = [dir |-> r.dir, slug |-> Append(r.slug, j)]
      <3> DEFINE slug == Append(r.slug, j)
                 e == [r EXCEPT !.slug = slug]
      <3>1. slug \in Seq(Nat)
        BY DEF Path
      <3>2. Candidate(r, j) = e
        BY DEF Candidate
      <3> HIDE DEF slug
      <3>3. e \in Path /\ e.dir = r.dir /\ e.slug = slug
        BY <3>1 DEF Path
      <3>4. e = [dir |-> r.dir, slug |-> slug]
        <4> HIDE DEF e
        <4> QED  BY <3>3 DEF Path
      <3> QED  BY <3>2, <3>4 DEF slug
    <2> QED  BY <2>1
  <1>2. Append(p.slug, n) \in Seq(Nat)
    BY DEF Path
  <1>3. ASSUME Candidate(p, n) = Candidate(q, k)
        PROVE  p = q /\ n = k
    <2>1. p.dir = q.dir /\ Append(p.slug, n) = Append(q.slug, k)
      BY <1>1, <1>3
    <2>2. p.slug = q.slug /\ n = k
      <3>1. p.slug \in Seq(Nat) /\ q.slug \in Seq(Nat)
        BY DEF Path
      <3>2. Len(p.slug) = Len(q.slug)
        BY <2>1, <3>1
      <3>3. Append(p.slug, n)[Len(p.slug) + 1] = n /\ Append(q.slug, k)[Len(q.slug) + 1] = k
        BY <3>1
      <3>4. \A i \in 1 .. Len(p.slug) : p.slug[i] = q.slug[i]
        <4>1. ASSUME NEW i \in 1 .. Len(p.slug)
              PROVE  p.slug[i] = q.slug[i]
          <5>1. Append(p.slug, n)[i] = p.slug[i] /\ Append(q.slug, k)[i] = q.slug[i]
            BY <3>1, <3>2
          <5> QED  BY <2>1, <5>1
        <4> QED  BY <4>1
      <3>5. n = k
        BY <2>1, <3>2, <3>3
      <3>6. p.slug = q.slug
        <4>1. /\ p.slug = [i \in 1 .. Len(p.slug) |-> p.slug[i]]
              /\ q.slug = [i \in 1 .. Len(p.slug) |-> q.slug[i]]
          BY <3>1, <3>2
        <4> QED  BY <3>4, <4>1, Zenon
      <3> QED  BY <3>5, <3>6
    <2> QED  BY <2>1, <2>2 DEF Path
  <1> QED  BY <1>1, <1>2, <1>3 DEF Path

First(path, avoid, n) ==
    /\ n \in 2 .. (2 + Cardinality(avoid))
    /\ Candidate(path, n) \notin avoid
    /\ \A j \in 2 .. (n - 1) : Candidate(path, j) \in avoid

\* There are more candidates than paths to avoid.
LEMMA FirstExists ==
  ASSUME NEW path \in Path, NEW avoid, IsFiniteSet(avoid)
  PROVE  \E n : First(path, avoid, n)
  <1> DEFINE N == 2 + Cardinality(avoid)
             S == {n \in 2 .. N : Candidate(path, n) \notin avoid}
  <1>1. Cardinality(avoid) \in Nat
    BY FS_CardinalityType
  <1>2. S # {}
    <2> SUFFICES ASSUME S = {} PROVE FALSE
      OBVIOUS
    <2> DEFINE f == [n \in 2 .. N |-> Candidate(path, n)]
    <2>1. f \in Injection(2 .. N, avoid)
      <3>1. f \in [2 .. N -> avoid]
        OBVIOUS
      <3>2. \A n, k \in 2 .. N : f[n] = f[k] => n = k
        BY <1>1, CandidatesDiffer
      <3> HIDE DEF f
      <3> QED  BY <3>1, <3>2 DEF Injection, IsInjective
    <2>2. Cardinality(2 .. N) <= Cardinality(avoid)
      <3> HIDE DEF f
      <3> QED  BY <2>1, FS_Injection
    <2>3. Cardinality(2 .. N) = N - 2 + 1
      <3>1. 2 \in Int /\ N \in Int /\ ~(2 > N)
        BY <1>1
      <3> HIDE DEF N
      <3> QED  BY <3>1, FS_Interval
    <2> QED  BY <1>1, <2>2, <2>3
  <1>3. PICK n \in S : \A k \in S : n <= k
    <2>1. S \subseteq Nat
      OBVIOUS
    <2> HIDE DEF S
    <2> QED  BY <1>2, <2>1, LeastOf
  <1>4. \A j \in 2 .. (n - 1) : j \in 2 .. N /\ ~(n <= j)
    BY <1>1, <1>3
  <1> QED  BY <1>3, <1>4 DEF First

LEMMA FirstIsUnique ==
  ASSUME NEW path, NEW avoid, NEW n, NEW k, First(path, avoid, n), First(path, avoid, k)
  PROVE  n = k
  <1>1. n \in Int /\ k \in Int /\ n >= 2 /\ k >= 2
    BY DEF First
  <1>2. ~(n < k) /\ ~(k < n)
    BY <1>1 DEF First
  <1> QED  BY <1>1, <1>2

\* The suffix is the first that avoid lacks, if more has no further candidate of the path.
LEMMA FreeIsFirst ==
  ASSUME NEW path \in Path, NEW avoid, NEW more,
         avoid \subseteq more, IsFiniteSet(more),
         \A n \in Nat : Candidate(path, n) \in more => Candidate(path, n) \in avoid
  PROVE  \E n \in Nat : /\ First(path, avoid, n)
                        /\ FreeCandidate(path, more) = Candidate(path, n)
  <1>1. IsFiniteSet(avoid) /\ Cardinality(avoid) <= Cardinality(more)
    BY FS_Subset
  <1>2. Cardinality(avoid) \in Nat /\ Cardinality(more) \in Nat
    BY <1>1, FS_CardinalityType
  <1>3. PICK n : First(path, avoid, n)
    BY <1>1, FirstExists
  <1>4. First(path, more, n) /\ n \in Nat
    BY <1>1, <1>2, <1>3 DEF First
  <1>5. FreeCandidate(path, more) = Candidate(path, n)
    <2> DEFINE k == CHOOSE i \in 2 .. (2 + Cardinality(more)) :
                 /\ Candidate(path, i) \notin more
                 /\ \A j \in 2 .. (i - 1) : Candidate(path, j) \in more
    <2>1. First(path, more, k)
      BY <1>4 DEF First
    <2>2. k = n
      <3> HIDE DEF k
      <3> QED  BY <1>4, <2>1, FirstIsUnique
    <2> QED  BY <2>2 DEF FreeCandidate
  <1> QED  BY <1>3, <1>4, <1>5


-----------------------------------------------------------------------------
(* The loop.                                                               *)

Row == [action : {"create", "conflict", "skip", "overwrite"}, path : Path, text : Texts]

\* After n turns: the first n rows are decided, and what the loop has added to the paths
\* it avoids can matter to none of the items that follow.
Turn(items, how, taken, n, p) ==
    LET avoid == taken \cup PathsOf(items)
    IN /\ p \in [report : Seq(Row), taken : SUBSET Path, claimed : SUBSET Path]
       /\ Len(p.report) = n
       /\ \A i \in 1 .. n : Decided(items[i], how, taken, avoid, p.report[i])
       /\ IsFiniteSet(p.taken) /\ IsFiniteSet(p.claimed)
       /\ taken \subseteq p.taken /\ PathsOf(items) \subseteq p.claimed
       /\ \A x \in p.taken \cup p.claimed :
             x \in avoid \/ \E k \in 1 .. n, j \in Nat : x = Candidate(items[k].path, j)
       /\ \A x \in p.taken :
             x \in taken \/ x \notin PathsOf(items) \/ \E k \in 1 .. n : x = items[k].path

LEMMA TurnKept ==
  ASSUME NEW items, IsBatch(items), NEW how \in Modes, NEW taken,
         NEW n \in Nat, n < Len(items), NEW p, Turn(items, how, taken, n, p)
  PROVE  Turn(items, how, taken, n + 1, PlanItem(how, p, items[n + 1]))
  <1> DEFINE item == items[n + 1]
             path == item.path
             avoid == taken \cup PathsOf(items)
             more == p.claimed \cup p.taken
             q == PlanItem(how, p, item)
  <1>1. /\ item \in [path : Path, text : Texts] /\ path \in Path /\ item.text \in Texts
        /\ path \in PathsOf(items)
        /\ \A k \in 1 .. n : items[k].path \in Path /\ items[k].path # path
    <2>1. /\ items \in Seq([path : Path, text : Texts]) /\ DOMAIN items = 1 .. Len(items)
          /\ n + 1 \in DOMAIN items /\ \A k \in 1 .. n : k \in DOMAIN items /\ k # n + 1
      BY DEF IsBatch
    <2>2. \A k \in DOMAIN items : items[k] \in [path : Path, text : Texts]
      BY <2>1, ItemsOf
    <2> QED  BY <2>1, <2>2 DEF IsBatch, PathsOf
  <1>2. /\ p \in [report : Seq(Row), taken : SUBSET Path, claimed : SUBSET Path]
        /\ Len(p.report) = n
        /\ \A i \in 1 .. n : Decided(items[i], how, taken, avoid, p.report[i])
        /\ IsFiniteSet(p.taken) /\ IsFiniteSet(p.claimed)
        /\ taken \subseteq p.taken /\ PathsOf(items) \subseteq p.claimed
        /\ \A x \in p.taken \cup p.claimed :
              x \in avoid \/ \E k \in 1 .. n, j \in Nat : x = Candidate(items[k].path, j)
        /\ \A x \in p.taken :
              x \in taken \/ x \notin PathsOf(items) \/ \E k \in 1 .. n : x = items[k].path
    BY DEF Turn
  <1> HIDE DEF item, path, avoid, more, q
  <1>3. path \in p.taken <=> path \in taken
    BY <1>1, <1>2
  \* What a turn may do, and that it is enough.
  <1>4. ASSUME NEW verdict \in Row, NEW t \in SUBSET Path, NEW c \in SUBSET Path,
               Decided(item, how, taken, avoid, verdict),
               q = [report |-> Append(p.report, verdict), taken |-> p.taken \cup t,
                    claimed |-> p.claimed \cup c],
               \/ t = {} /\ c = {}
               \/ t = {path} /\ c = {}
               \/ \E j \in Nat : /\ t = {Candidate(path, j)} /\ c = {Candidate(path, j)}
                                 /\ Candidate(path, j) \notin avoid
        PROVE  Turn(items, how, taken, n + 1, q)
    <2>1. /\ q.report = Append(p.report, verdict) /\ q.taken = p.taken \cup t
          /\ q.claimed = p.claimed \cup c
          /\ q \in [report : Seq(Row), taken : SUBSET Path, claimed : SUBSET Path]
      BY <1>2, <1>4
    <2>2. Len(q.report) = n + 1
      BY <1>2, <2>1
    <2>3. \A i \in 1 .. n + 1 : Decided(items[i], how, taken, avoid, q.report[i])
      <3>1. ASSUME NEW i \in 1 .. n + 1
            PROVE  Decided(items[i], how, taken, avoid, q.report[i])
        <4>1. CASE i = n + 1
          <5>1. q.report[i] = verdict /\ items[i] = item
            BY <1>2, <2>1, <4>1 DEF item
          <5> QED  BY <1>4, <5>1
        <4>2. CASE i # n + 1
          <5>1. i \in 1 .. n /\ q.report[i] = p.report[i]
            BY <1>2, <2>1, <4>2
          <5> QED  BY <1>2, <5>1
        <4> QED  BY <4>1, <4>2
      <3> QED  BY <3>1
    <2>4. IsFiniteSet(q.taken) /\ IsFiniteSet(q.claimed)
      <3>1. IsFiniteSet({}) /\ \A x : IsFiniteSet({x})
        BY FS_EmptySet, FS_Singleton
      <3>2. IsFiniteSet(t) /\ IsFiniteSet(c)
        BY <1>4, <3>1
      <3>3. \A S, T : IsFiniteSet(S) /\ IsFiniteSet(T) => IsFiniteSet(S \cup T)
        BY FS_Union
      <3> QED  BY <1>2, <2>1, <3>2, <3>3
    <2>5. taken \subseteq q.taken /\ PathsOf(items) \subseteq q.claimed
      BY <1>2, <2>1
    <2>6. n + 1 \in 1 .. n + 1 /\ items[n + 1].path = path /\ 1 .. n \subseteq 1 .. n + 1
      BY DEF path, item
    <2>7. ASSUME NEW x \in q.taken \cup q.claimed
          PROVE  x \in avoid \/ \E k \in 1 .. n + 1, j \in Nat : x = Candidate(items[k].path, j)
      <3>1. CASE x \in p.taken \cup p.claimed
        BY <1>2, <2>6, <3>1
      <3>2. CASE x \in t \cup c
        BY <1>1, <1>4, <2>6, <3>2 DEF avoid
      <3> QED  BY <2>1, <2>7, <3>1, <3>2
    <2>8. ASSUME NEW x \in q.taken
          PROVE  x \in taken \/ x \notin PathsOf(items) \/ \E k \in 1 .. n + 1 : x = items[k].path
      <3>1. CASE x \in p.taken
        BY <1>2, <2>6, <3>1
      <3>2. CASE x \in t
        BY <1>4, <2>6, <3>2 DEF avoid
      <3> QED  BY <2>1, <2>8, <3>1, <3>2
    <2> QED  BY <2>1, <2>2, <2>3, <2>4, <2>5, <2>7, <2>8 DEF Turn, avoid
  <1>5. CASE path \notin taken
    <2>1. q = [report |-> Append(p.report, Creation(item, path)), taken |-> p.taken \cup {path},
               claimed |-> p.claimed \cup {}]
      BY <1>2, <1>3, <1>5 DEF q, PlanItem, path
    <2>2. Creation(item, path) \in Row
      BY <1>1 DEF Creation, Row
    <2>3. Decided(item, how, taken, avoid, Creation(item, path))
      BY <1>5 DEF Decided, path
    <2>4. {path} \in SUBSET Path /\ {} \in SUBSET Path
      BY <1>1
    <2>5. Turn(items, how, taken, n + 1, q)
      BY <1>4, <2>1, <2>2, <2>3, <2>4
    <2> QED  BY <2>5 DEF q, item
  <1>6. CASE path \in taken /\ how = "suffix"
    <2>1. PICK j \in Nat : First(path, avoid, j) /\ FreeCandidate(path, more) = Candidate(path, j)
      <3>1. avoid \subseteq more
        BY <1>2 DEF avoid, more
      <3>2. IsFiniteSet(more)
        BY <1>2, FS_Union DEF more
      <3>3. ASSUME NEW m \in Nat, Candidate(path, m) \in more
            PROVE  Candidate(path, m) \in avoid
        <4>1. ASSUME NEW k \in 1 .. n, NEW l \in Nat, Candidate(path, m) = Candidate(items[k].path, l)
              PROVE  FALSE
          BY <1>1, <4>1, CandidatesDiffer
        <4> QED  BY <1>2, <3>3, <4>1 DEF more
      <3> QED  BY <1>1, <3>1, <3>2, <3>3, FreeIsFirst
    <2> DEFINE verdict == Creation(item, Candidate(path, j))
               t == {Candidate(path, j)}
    <2>2. q = [report |-> Append(p.report, verdict), taken |-> p.taken \cup t,
               claimed |-> p.claimed \cup t]
      BY <1>2, <1>3, <1>6, <2>1 DEF q, PlanItem, path, more
    <2>3. Candidate(path, j) \in Path /\ verdict \in Row
      BY <1>1, CandidatesDiffer DEF Creation, Row
    <2>4. Candidate(path, j) \notin avoid /\ Decided(item, how, taken, avoid, verdict)
      BY <1>6, <2>1 DEF Decided, First, path
    <2> HIDE DEF verdict
    <2> QED  BY <1>4, <2>2, <2>3, <2>4 DEF q, item
  <1>7. CASE path \in taken /\ how # "suffix"
    <2>1. q = [report |-> Append(p.report, Verdict(how, item)), taken |-> p.taken \cup {},
               claimed |-> p.claimed \cup {}]
      BY <1>2, <1>3, <1>7 DEF q, PlanItem, path
    <2>2. Verdict(how, item) \in Row
      BY <1>1, <1>7 DEF Verdict, Row, Modes, path
    <2>3. Decided(item, how, taken, avoid, Verdict(how, item))
      BY <1>7 DEF Decided, path
    <2>4. {} \in SUBSET Path
      OBVIOUS
    <2>5. Turn(items, how, taken, n + 1, q)
      BY <1>4, <2>1, <2>2, <2>3, <2>4
    <2> QED  BY <2>5 DEF q, item
  <1> QED  BY <1>5, <1>6, <1>7


\* The report of an import depends neither on the order of its batch nor on what its other
\* items become (ImportProject).
THEOREM PlanDecides ==
  ASSUME NEW items, IsBatch(items), NEW how \in Modes,
         NEW taken \in SUBSET Path, IsFiniteSet(taken)
  PROVE  /\ Plan(items, how, taken) \in Seq(Row)
         /\ OrderFree(items, how, taken, Plan(items, how, taken))
  <1>1. items \in Seq([path : Path, text : Texts]) /\ Len(items) \in Nat
        /\ DOMAIN items = 1 .. Len(items)
    BY DEF IsBatch
  <1>2. PICK plan :
           /\ plan = [n \in 0 .. Len(items) |->
                IF n = 0 THEN [report |-> <<>>, taken |-> taken, claimed |-> PathsOf(items)]
                ELSE PlanItem(how, plan[n - 1], items[n])]
           /\ PlanFrom(items, how, taken, PathsOf(items)) = plan[Len(items)]
    BY <1>1, Turns, SMTT(30)
  <1> DEFINE S == {n \in Nat : n <= Len(items) => Turn(items, how, taken, n, plan[n])}
  <1>3. 0 \in S
    <2> DEFINE begin == [report |-> <<>>, taken |-> taken, claimed |-> PathsOf(items)]
    <2>1. plan[0] = begin
      BY <1>1, <1>2
    <2>2. PathsOf(items) \subseteq Path
      <3>1. \A k \in DOMAIN items : items[k] \in [path : Path, text : Texts]
        BY <1>1, ItemsOf
      <3> QED  BY <3>1 DEF PathsOf
    <2>3. IsFiniteSet(PathsOf(items))
      <3> DEFINE f == [k \in 1 .. Len(items) |-> items[k].path]
      <3>1. f \in Surjection(1 .. Len(items), PathsOf(items))
        BY <1>1 DEF Surjection, PathsOf
      <3>2. IsFiniteSet(1 .. Len(items))
        BY <1>1, FS_Interval
      <3> HIDE DEF f
      <3> QED  BY <3>1, <3>2, FS_Surjection
    <2>4. Turn(items, how, taken, 0, begin)
      BY <2>2, <2>3 DEF Turn
    <2> QED  BY <2>1, <2>4
  <1>4. ASSUME NEW n \in Nat, n \in S
        PROVE  n + 1 \in S
    <2> SUFFICES ASSUME n + 1 <= Len(items)
                 PROVE  Turn(items, how, taken, n + 1, plan[n + 1])
      OBVIOUS
    <2>1. plan[n + 1] = PlanItem(how, plan[n], items[n + 1])
      <3>1. n + 1 \in 0 .. Len(items) /\ n + 1 # 0 /\ (n + 1) - 1 = n
        BY <1>1
      <3> QED  BY <1>2, <3>1
    <2>2. n < Len(items) /\ Turn(items, how, taken, n, plan[n])
      BY <1>1, <1>4
    <2> QED  BY <2>1, <2>2, TurnKept
  <1>5. Turn(items, how, taken, Len(items), plan[Len(items)])
    <2>1. Len(items) \in S
      <3> HIDE DEF S
      <3> QED  BY <1>1, <1>3, <1>4, SetOfNaturals
    <2> QED  BY <1>1, <2>1
  <1> DEFINE report_ == plan[Len(items)].report
  <1>6. Plan(items, how, taken) = report_
    BY <1>2 DEF Plan
  <1> HIDE DEF report_
  <1>7. /\ report_ \in Seq(Row) /\ Len(report_) = Len(items)
        /\ \A i \in 1 .. Len(items) :
              Decided(items[i], how, taken, taken \cup PathsOf(items), report_[i])
    BY <1>5 DEF Turn, report_
  <1>8. DOMAIN report_ = DOMAIN items
    BY <1>1, <1>7
  <1> QED  BY <1>1, <1>6, <1>7, <1>8 DEF OrderFree

\* The paths of the project are finitely many, each import adding those it creates.
ImportsInv ==
    /\ before \in SUBSET Path /\ IsFiniteSet(before)
    /\ report \in Seq(Row)
    /\ PlanIsOrderFree

LEMMA CreatedIsFinite ==
  ASSUME NEW rep \in Seq(Row)
  PROVE  Created(rep) \in SUBSET Path /\ IsFiniteSet(Created(rep))
  <1> DEFINE D == {j \in DOMAIN rep : rep[j].action = "create"}
             f == [j \in D |-> rep[j].path]
  <1>1. \A j \in DOMAIN rep : rep[j] \in Row
    BY ItemsOf
  <1>2. Created(rep) \in SUBSET Path
    BY <1>1 DEF Created, Row
  <1>3. IsFiniteSet(D)
    <2>1. DOMAIN rep = 1 .. Len(rep) /\ Len(rep) \in Nat
      OBVIOUS
    <2>2. IsFiniteSet(1 .. Len(rep))
      BY <2>1, FS_Interval
    <2>3. D \subseteq 1 .. Len(rep)
      BY <2>1
    <2> HIDE DEF D
    <2> QED  BY <2>2, <2>3, FS_Subset
  <1>4. f \in Surjection(D, Created(rep))
    BY DEF Surjection, Created
  <1> HIDE DEF f, D
  <1> QED  BY <1>2, <1>3, <1>4, FS_Surjection

\* However many imports came before, and whatever they created.
THEOREM ImportsAreOrderFree == ImportsSpec => []PlanIsOrderFree
  <1>1. ImportsInit => ImportsInv
    <2> SUFFICES ASSUME ImportsInit PROVE ImportsInv
      OBVIOUS
    <2>1. before = {} /\ batch = <<>> /\ report = <<>>
      BY DEF ImportsInit
    <2>2. IsFiniteSet({})
      BY FS_EmptySet
    <2>3. PlanIsOrderFree
      BY <2>1 DEF PlanIsOrderFree, OrderFree
    <2> QED  BY <2>1, <2>2, <2>3 DEF ImportsInv
  <1>2. ImportsInv /\ [Import]_importVars => ImportsInv'
    <2>1. ASSUME ImportsInv, Import
          PROVE  ImportsInv'
      <3>1. before' \in SUBSET Path /\ IsFiniteSet(before')
        <4>1. Created(report) \in SUBSET Path /\ IsFiniteSet(Created(report))
          BY <2>1, CreatedIsFinite DEF ImportsInv
        <4>2. IsFiniteSet(before \cup Created(report))
          BY <2>1, <4>1, FS_Union DEF ImportsInv
        <4> QED  BY <2>1, <4>1, <4>2 DEF ImportsInv, Import
      <3>2. IsBatch(batch') /\ mode' \in Modes /\ report' = Plan(batch', mode', before')
        BY <2>1, TarballsAssumption DEF Import
      <3>3. report' \in Seq(Row) /\ OrderFree(batch', mode', before', report')
        BY <3>1, <3>2, PlanDecides
      <3> QED  BY <3>1, <3>3 DEF ImportsInv, PlanIsOrderFree
    <2>2. ASSUME ImportsInv, UNCHANGED importVars
          PROVE  ImportsInv'
      BY <2>2 DEF ImportsInv, importVars, PlanIsOrderFree
    <2> QED  BY <2>1, <2>2
  <1>3. ImportsInv => PlanIsOrderFree
    BY DEF ImportsInv
  <1> QED  BY <1>1, <1>2, <1>3, PTL DEF ImportsSpec

-----------------------------------------------------------------------------
(* Entries.  A request works on values it read some steps ago.  The        *)
(* argument is that they are still true of it (AsRead) unless another      *)
(* request about the same entry has come in since, which both are then     *)
(* marked for (Alone), and that what nobody has read is nobody else's      *)
(* (OwnsFresh).                                                            *)

Entry == [path : Path, text : Texts]

\* EntryTypeOK, and that the tables are total functions.
StoreTypeOK ==
    /\ EntryTypeOK
    /\ row \in [Ids -> Entry \cup {None}]
    /\ links \in [Ids -> SUBSET Link]
    /\ req \in [Workers -> Request]
    /\ born \subseteq Ids

\* SQLite's transaction is the import's, and an import has one.
TxIsImport == \A w \in Workers : tx = w <=> req[w].op = "import"

\* Two requests about one entry are marked, both, for as long as they run.
Alone ==
    \A w, v \in Workers :
        w # v /\ w \notin contested => About(req[w]) \cap About(req[v]) = {}

\* The ids a request has drawn for new entries.
Drawn(r) ==
    CASE r.op = "create" -> {r.id}
      [] r.op = "import" -> Fresh(r)
      [] OTHER -> {}

\* Nobody else is about them, and they have no row.
OwnsFresh ==
    \A w \in Workers :
        /\ About(req[w]) \subseteq born
        /\ \A id \in Drawn(req[w]) :
              ~Exists(id) /\ \A v \in Workers \ {w} : id \notin About(req[v])

\* The writes of an import: no id and no path twice, and while its transaction is open
\* the rows are as it found them.
ImportIsSound ==
    \A w \in Workers : req[w].op = "import" =>
        LET r == req[w]
        IN /\ r.done <= Len(r.writes)
           /\ \A i, j \in DOMAIN r.writes :
                 i # j => r.writes[i].id # r.writes[j].id /\ r.writes[i].path # r.writes[j].path
           /\ \A i \in DOMAIN r.writes :
                 IF r.writes[i].preexisting
                 THEN Exists(r.writes[i].id) /\ row[r.writes[i].id].path = r.writes[i].path
                 ELSE \A id \in Ids : Exists(id) => row[id].path # r.writes[i].path

\* What the requests put is there, as long as nobody else is about the entry.
PutIsThere ==
    \A w \in Workers :
        LET r == req[w]
        IN /\ r.op = "create" => blob[r.id] = r.text
           /\ r.op = "import" => \A i \in 1 .. r.done :
                 w \notin contested \/ ~r.writes[i].preexisting
                 => blob[r.writes[i].id] = r.writes[i].text
           /\ r.op = "update" /\ r.body = "put" /\ w \notin contested => blob[r.id] = r.text

\* What they read still holds, under the same condition.
AsRead ==
    \A w \in Workers \ contested :
        LET r == req[w]
        IN /\ r.op = "update" => Exists(r.id) /\ (r.body = "same" => row[r.id].text = r.text)
           /\ r.op = "assign" => Exists(r.id) /\ row[r.id].path = r.old
           /\ r.op = "delete" /\ r.next = "row" => fts[r.id] = None

DeletesAreDoomed == \A w \in Workers : req[w].op = "delete" => req[w].id \in doomed

\* The body, the search row and the links of an entry are of its text, with the
\* exceptions of SettledAgrees.
Agrees(id) ==
    /\ blob[id] = row[id].text
    /\ id \notin imported => fts[id] = row[id].text
    /\ id \notin rewritten => {l.to : l \in links[id]} = LinksOf[row[id].text]

\* An entry agrees when the last write to it was neither contested nor cut short, and
\* no request under way is contested about it or has written part of it.
Untouched(id) ==
    /\ Exists(id) /\ id \notin disturbed
    /\ \A w \in Workers : id \in About(req[w]) => w \notin contested /\ id \notin Torn(req[w])

UntouchedAgrees == \A id \in Ids : Untouched(id) => Agrees(id)

EntryInv ==
    /\ StoreTypeOK /\ TxIsImport /\ Alone /\ OwnsFresh /\ ImportIsSound
    /\ PutIsThere /\ AsRead /\ DeletesAreDoomed /\ UntouchedAgrees
    /\ BodyNeverLost /\ LinkAddressesEntry /\ SearchFindsEntries

-----------------------------------------------------------------------------
(* Requests.                                                               *)

Write == [id : Ids, path : Path, text : Texts, preexisting : BOOLEAN]
Creates == [op : {"create"}, id : Ids, path : EntryPaths, text : Texts]
Updates == [op : {"update"}, id : Ids, path : Path, text : Texts, body : {"same", "new", "put"}]
Assigns == [op : {"assign"}, id : Ids, old : Path, dir : Dirs]
Deletes == [op : {"delete"}, id : Ids, next : {"body", "index", "row"}]
Imports == [op : {"import"}, done : Nat, writes : Seq(Write)]
Compiles == [op : {"compile"}, ids : SUBSET Ids]

LEMMA RequestIsOneOf ==
  Request = {Idle} \cup Creates \cup Updates \cup Assigns \cup Deletes \cup Imports \cup Compiles
  BY DEF Request, Creates, Updates, Assigns, Deletes, Imports, Compiles, Write

\* The name of the operation tells which fields a request has, and what it is about.
LEMMA Kinds ==
  ASSUME NEW r \in Request
  PROVE  /\ r.op = "idle" => r = Idle /\ About(r) = {}
         /\ r.op = "create" => r \in Creates /\ About(r) = {r.id}
         /\ r.op = "update" => r \in Updates /\ About(r) = {r.id}
         /\ r.op = "assign" => r \in Assigns /\ About(r) = {r.id}
         /\ r.op = "delete" => r \in Deletes /\ About(r) = {r.id}
         /\ r.op = "import" => /\ r \in Imports
                               /\ About(r) = {r.writes[i].id : i \in DOMAIN r.writes}
         /\ r.op = "compile" => r \in Compiles /\ About(r) = {}
         /\ r.op \in {"idle", "create", "update", "assign", "delete", "import", "compile"}
         /\ About(r) \subseteq Ids
  <1>1. /\ Idle.op = "idle"
        /\ \A x \in Creates : x.op = "create"
        /\ \A x \in Updates : x.op = "update"
        /\ \A x \in Assigns : x.op = "assign"
        /\ \A x \in Deletes : x.op = "delete"
        /\ \A x \in Imports : x.op = "import"
        /\ \A x \in Compiles : x.op = "compile"
    BY DEF Idle, Creates, Updates, Assigns, Deletes, Imports, Compiles
  <1>2. /\ r.op = "idle" => r = Idle
        /\ r.op = "create" => r \in Creates
        /\ r.op = "update" => r \in Updates
        /\ r.op = "assign" => r \in Assigns
        /\ r.op = "delete" => r \in Deletes
        /\ r.op = "import" => r \in Imports
        /\ r.op = "compile" => r \in Compiles
        /\ r.op \in {"idle", "create", "update", "assign", "delete", "import", "compile"}
    BY <1>1, RequestIsOneOf
  <1>3. /\ r.op \in {"idle", "compile"} => About(r) = {}
        /\ r.op \in {"create", "update", "assign", "delete"} => About(r) = {r.id}
        /\ r.op = "import" => About(r) = {r.writes[i].id : i \in DOMAIN r.writes}
    BY DEF About
  <1>4. r.op \in {"create", "update", "assign", "delete"} => r.id \in Ids
    BY <1>2 DEF Creates, Updates, Assigns, Deletes
  <1>5. r.op = "import" => \A i \in DOMAIN r.writes : r.writes[i].id \in Ids
    <2> SUFFICES ASSUME r.op = "import", NEW i \in DOMAIN r.writes
                 PROVE  r.writes[i].id \in Ids
      OBVIOUS
    <2>1. r.writes \in Seq(Write)
      BY <1>2 DEF Imports
    <2>2. r.writes[i] \in Write
      BY <2>1, ItemsOf
    <2> QED  BY <2>2 DEF Write
  <1> QED  BY <1>2, <1>3, <1>4, <1>5

LEMMA IdleIsARequest == Idle \in Request /\ About(Idle) = {} /\ Idle.op = "idle"
  BY RequestIsOneOf DEF Idle, About

-----------------------------------------------------------------------------
(* What an import writes.                                                  *)

LEMMA ResolveFinds ==
  ASSUME NEW rows, NEW path
  PROVE  \/ /\ Resolve(rows, path) = None
            /\ \A i \in Ids : ~(rows[i] # None /\ rows[i].path = path)
         \/ /\ Resolve(rows, path) \in Ids /\ rows[Resolve(rows, path)] # None
            /\ rows[Resolve(rows, path)].path = path
  <1> DEFINE at == {i \in Ids : rows[i] # None /\ rows[i].path = path}
             x == CHOOSE i \in at : TRUE
  <1>1. CASE at = {}
    BY <1>1 DEF Resolve
  <1>2. CASE at # {}
    <2>1. x \in at
      BY <1>2
    <2>2. Resolve(rows, path) = x
      BY <1>2 DEF Resolve
    <2> HIDE DEF x
    <2> QED  BY <2>1, <2>2
  <1> QED  BY <1>1, <1>2

\* The write of one row of the report.
WriteOf(a, id) ==
    [id |-> IF a.action = "create" THEN id ELSE Resolve(row, a.path),
     path |-> a.path, text |-> a.text, preexisting |-> a.action = "overwrite"]

Applied(report_) == {i \in DOMAIN report_ : report_[i].action \in {"create", "overwrite"}}

\* WritesOf is a recursive function, as the plan is.
LEMMA WriteTurns ==
  ASSUME NEW rows, NEW ids, Len(rows) \in Nat
  PROVE  \E writes :
            /\ writes = [n \in 0 .. Len(rows) |->
                 IF n = 0 THEN <<>>
                 ELSE IF rows[n].action \in {"create", "overwrite"}
                      THEN Append(writes[n - 1], WriteOf(rows[n], ids[n]))
                      ELSE writes[n - 1]]
            /\ WritesOf(rows, ids) = writes[Len(rows)]
  <1> DEFINE Step(ws, n) == IF rows[n].action \in {"create", "overwrite"}
                            THEN Append(ws, WriteOf(rows[n], ids[n]))
                            ELSE ws
             Is(f, k) == f = [n \in 0 .. k |-> IF n = 0 THEN <<>> ELSE Step(f[n - 1], n)]
             writes[n \in 0 .. Len(rows)] ==
                IF n = 0 THEN <<>>
                ELSE LET a == rows[n]
                         id == IF a.action = "create" THEN ids[n] ELSE Resolve(row, a.path)
                     IN IF a.action \in {"create", "overwrite"}
                        THEN Append(writes[n - 1],
                                    [id |-> id, path |-> a.path, text |-> a.text,
                                     preexisting |-> a.action = "overwrite"])
                        ELSE writes[n - 1]
             S == {k \in Nat : \E f : Is(f, k)}
  <1>1. writes = CHOOSE f : Is(f, Len(rows))
    BY DEF writes, WriteOf
  <1>2. WritesOf(rows, ids) = writes[Len(rows)]
    BY DEF WritesOf
  <1> HIDE DEF Step, writes
  <1>3. 0 \in S
    <2> DEFINE f == [n \in 0 .. 0 |-> <<>>]
    <2>1. Is(f, 0)
      OBVIOUS
    <2> HIDE DEF f, Is
    <2> QED  BY <2>1
  <1>4. ASSUME NEW k \in Nat, k \in S
        PROVE  k + 1 \in S
    <2>1. PICK f : Is(f, k)
      BY <1>4
    <2> DEFINE g == [n \in 0 .. k + 1 |-> IF n = k + 1 THEN Step(f[k], k + 1) ELSE f[n]]
               h == [n \in 0 .. k + 1 |-> IF n = 0 THEN <<>> ELSE Step(g[n - 1], n)]
    <2>2. \A n \in 0 .. k : f[n] = IF n = 0 THEN <<>> ELSE Step(f[n - 1], n)
      BY <2>1
    <2>3. \A n \in 0 .. k : g[n] = f[n]
      OBVIOUS
    <2>4. ASSUME NEW n \in 0 .. k + 1
          PROVE  g[n] = IF n = 0 THEN <<>> ELSE Step(g[n - 1], n)
      <3>1. CASE n = k + 1
        <4>1. g[n] = Step(f[k], k + 1) /\ g[k] = f[k] /\ n # 0 /\ n - 1 = k
          BY <2>3, <3>1
        <4> HIDE DEF g
        <4> QED  BY <3>1, <4>1
      <3>2. CASE n # k + 1
        <4>1. n \in 0 .. k /\ (n # 0 => n - 1 \in 0 .. k)
          BY <3>2
        <4>2. g[n] = f[n] /\ (n # 0 => g[n - 1] = f[n - 1])
          BY <2>3, <4>1
        <4> HIDE DEF g
        <4> QED  BY <2>2, <4>1, <4>2
      <3> QED  BY <3>1, <3>2
    <2>5. g = h
      <3>1. \A n \in 0 .. k + 1 : g[n] = h[n]
        BY <2>4
      <3> QED  BY <3>1
    <2>6. Is(g, k + 1)
      BY <2>5
    <2> HIDE DEF g, Is
    <2> QED  BY <2>6
  <1>5. \E f : Is(f, Len(rows))
    <2>1. Len(rows) \in S
      <3> HIDE DEF Is, S
      <3> QED  BY <1>3, <1>4, SetOfNaturals
    <2> HIDE DEF Is
    <2> QED  BY <2>1
  <1>6. Is(writes, Len(rows))
    <2> HIDE DEF Is
    <2> QED  BY <1>1, <1>5
  <1> QED  BY <1>2, <1>6 DEF Step

TakenPaths == {row[id].path : id \in {i \in Ids : Exists(i)}}

LEMMA TakenIsFinite ==
  ASSUME StoreTypeOK
  PROVE  TakenPaths \in SUBSET Path /\ IsFiniteSet(TakenPaths)
  <1> DEFINE D == {i \in Ids : Exists(i)}
             f == [i \in D |-> row[i].path]
  <1>1. TakenPaths \in SUBSET Path
    BY DEF StoreTypeOK, TakenPaths, Exists, Entry
  <1>2. IsFiniteSet(D)
    <2>1. IsFiniteSet(Ids) /\ D \subseteq Ids
      BY EntryAssumption
    <2> HIDE DEF D
    <2> QED  BY <2>1, FS_Subset
  <1>3. f \in Surjection(D, TakenPaths)
    BY DEF Surjection, TakenPaths
  <1> HIDE DEF f, D
  <1> QED  BY <1>1, <1>2, <1>3, FS_Surjection

\* Two rows of the report never write the same entry nor the same path.
LEMMA RowsDiffer ==
  ASSUME StoreTypeOK, NEW upload, IsBatch(upload), NEW how \in Modes,
         NEW ids \in [DOMAIN upload -> Ids \ born], IsInjective(ids),
         NEW rep, rep \in Seq(Row), OrderFree(upload, how, TakenPaths, rep),
         NEW i \in Applied(rep)
  PROVE  LET x == WriteOf(rep[i], ids[i])
         IN /\ x \in Write
            /\ IF x.preexisting THEN Exists(x.id) /\ row[x.id].path = x.path
               ELSE /\ x.id \in Ids \ born
                    /\ \A id \in Ids : Exists(id) => row[id].path # x.path
            /\ \A j \in Applied(rep) : i # j =>
                  LET y == WriteOf(rep[j], ids[j]) IN x.id # y.id /\ x.path # y.path
  <1>1. /\ upload \in Seq([path : Path, text : Texts]) /\ DOMAIN rep = DOMAIN upload
        /\ Applied(rep) \subseteq DOMAIN upload
        /\ \A k \in DOMAIN upload : Decided(upload[k], how, TakenPaths,
                                            TakenPaths \cup PathsOf(upload), rep[k])
    BY DEF IsBatch, OrderFree, Applied
  <1>2. \A k \in DOMAIN upload : /\ upload[k].path \in Path
                                 /\ upload[k].path \in PathsOf(upload)
                                 /\ rep[k] \in Row
                                 /\ ids[k] \in Ids \ born
    <2>1. \A k \in DOMAIN upload : upload[k] \in [path : Path, text : Texts] /\ rep[k] \in Row
      BY <1>1, ItemsOf
    <2> QED  BY <2>1 DEF PathsOf
  \* A row is about its item's own path, or a suffix of it that no item is named.
  <1>3. ASSUME NEW k \in Applied(rep)
        PROVE  /\ \/ rep[k].path = upload[k].path
                  \/ /\ rep[k].path \notin PathsOf(upload)
                     /\ \E n \in Nat : rep[k].path = Candidate(upload[k].path, n)
               /\ rep[k].action = "create" => rep[k].path \notin TakenPaths
               /\ rep[k].action # "create" => /\ rep[k].action = "overwrite"
                                              /\ rep[k].path = upload[k].path
                                              /\ rep[k].path \in TakenPaths
    <2>1. k \in DOMAIN upload /\ rep[k].action \in {"create", "overwrite"}
      BY <1>1 DEF Applied
    <2>3. CASE upload[k].path \notin TakenPaths /\ rep[k] = Creation(upload[k], upload[k].path)
      BY <2>3 DEF Creation
    <2>4. CASE \E n \in 2 .. (2 + Cardinality(TakenPaths \cup PathsOf(upload))) :
                  /\ rep[k] = Creation(upload[k], Candidate(upload[k].path, n))
                  /\ Candidate(upload[k].path, n) \notin TakenPaths \cup PathsOf(upload)
      <3>1. PICK n \in 2 .. (2 + Cardinality(TakenPaths \cup PathsOf(upload))) :
                  /\ rep[k] = Creation(upload[k], Candidate(upload[k].path, n))
                  /\ Candidate(upload[k].path, n) \notin TakenPaths \cup PathsOf(upload)
        BY <2>4
      <3>2. n \in Nat
        OBVIOUS
      <3>3. /\ rep[k].path = Candidate(upload[k].path, n) /\ rep[k].action = "create"
        BY <3>1 DEF Creation
      <3> QED  BY <3>1, <3>2, <3>3
    <2>5. CASE upload[k].path \in TakenPaths /\ how # "suffix" /\ rep[k] = Verdict(how, upload[k])
      BY <2>1, <2>5 DEF Verdict, Modes
    <2> QED  BY <1>1, <2>1, <2>3, <2>4, <2>5 DEF Decided
  <1>4. ASSUME NEW k \in Applied(rep)
        PROVE  LET x == WriteOf(rep[k], ids[k])
               IN /\ x \in Write
                  /\ x.path = rep[k].path
                  /\ x.preexisting <=> rep[k].action # "create"
                  /\ x.preexisting => Exists(x.id) /\ row[x.id].path = x.path
                  /\ ~x.preexisting => /\ x.id = ids[k]
                                       /\ \A id \in Ids : Exists(id) => row[id].path # x.path
    <2> DEFINE id_ == IF rep[k].action = "create" THEN ids[k] ELSE Resolve(row, rep[k].path)
               x == WriteOf(rep[k], ids[k])
    <2>1. k \in DOMAIN upload
      BY <1>1
    <2>2. rep[k].action # "create" =>
             /\ Resolve(row, rep[k].path) \in Ids /\ Exists(Resolve(row, rep[k].path))
             /\ row[Resolve(row, rep[k].path)].path = rep[k].path
      <3> SUFFICES ASSUME rep[k].action # "create"
                   PROVE  /\ Resolve(row, rep[k].path) \in Ids /\ Exists(Resolve(row, rep[k].path))
                          /\ row[Resolve(row, rep[k].path)].path = rep[k].path
        OBVIOUS
      <3>1. rep[k].path \in TakenPaths
        BY <1>3
      <3>2. PICK i_ \in Ids : Exists(i_) /\ row[i_].path = rep[k].path
        BY <3>1 DEF TakenPaths
      <3> QED  BY <3>2, ResolveFinds DEF Exists
    <2>3. id_ \in Ids
      BY <1>2, <2>1, <2>2
    <2>4. /\ x = [id |-> id_, path |-> rep[k].path, text |-> rep[k].text,
                  preexisting |-> rep[k].action = "overwrite"]
          /\ (rep[k].action = "overwrite") \in BOOLEAN
      BY DEF WriteOf
    <2> HIDE DEF x
    <2>5. /\ x \in Write /\ x.path = rep[k].path /\ x.id = id_
          /\ x.preexisting = (rep[k].action = "overwrite")
      <3> HIDE DEF id_
      <3> QED  BY <1>2, <2>1, <2>3, <2>4 DEF Write, Row
    <2>6. x.preexisting <=> rep[k].action # "create"
      BY <1>3, <2>5
    <2>7. ASSUME rep[k].action = "create", NEW id \in Ids, Exists(id)
          PROVE  row[id].path # rep[k].path
      BY <1>3, <2>7 DEF TakenPaths
    <2> QED  BY <2>2, <2>5, <2>6, <2>7 DEF x
  <1>5. ASSUME NEW j \in Applied(rep), i # j
        PROVE  rep[i].path # rep[j].path
    <2>1. /\ i \in DOMAIN upload /\ j \in DOMAIN upload
          /\ upload[i].path # upload[j].path
          /\ upload[i].path \in Path /\ upload[j].path \in Path
          /\ upload[i].path \in PathsOf(upload) /\ upload[j].path \in PathsOf(upload)
      BY <1>1, <1>2, <1>5 DEF IsBatch
    <2>2. \A n, m \in Nat : Candidate(upload[i].path, n) # Candidate(upload[j].path, m)
      BY <2>1, CandidatesDiffer
    <2> QED  BY <1>3, <1>5, <2>1, <2>2
  <1>6. ASSUME NEW j \in Applied(rep), i # j
        PROVE  WriteOf(rep[i], ids[i]).id # WriteOf(rep[j], ids[j]).id
    <2> DEFINE x == WriteOf(rep[i], ids[i])
               y == WriteOf(rep[j], ids[j])
    <2>1. /\ x.preexisting => Exists(x.id) /\ row[x.id].path = rep[i].path
          /\ y.preexisting => Exists(y.id) /\ row[y.id].path = rep[j].path
          /\ ~x.preexisting => x.id = ids[i]
          /\ ~y.preexisting => y.id = ids[j]
          /\ x.id \in Ids /\ y.id \in Ids
      BY <1>4, <1>6 DEF Write
    <2>2. /\ i \in DOMAIN upload /\ j \in DOMAIN upload /\ ids[i] # ids[j]
          /\ ids[i] \notin born /\ ids[j] \notin born
      BY <1>1, <1>2, <1>6 DEF IsInjective
    <2>3. \A id \in Ids : Exists(id) => id \in born
      BY DEF StoreTypeOK, EntryTypeOK
    <2> HIDE DEF x, y
    <2>4. x.id # y.id
      BY <1>5, <1>6, <2>1, <2>2, <2>3
    <2> QED  BY <2>4 DEF x, y
  <1> QED  BY <1>1, <1>2, <1>4, <1>5, <1>6

LEMMA WritesAreSound ==
  ASSUME StoreTypeOK, NEW upload, IsBatch(upload), NEW how \in Modes,
         NEW ids \in [DOMAIN upload -> Ids \ born], IsInjective(ids)
  PROVE  LET writes == WritesOf(Plan(upload, how, TakenPaths), ids)
         IN /\ writes \in Seq(Write)
            /\ \A k \in DOMAIN writes :
                  IF writes[k].preexisting
                  THEN Exists(writes[k].id) /\ row[writes[k].id].path = writes[k].path
                  ELSE /\ writes[k].id \in Ids \ born
                       /\ \A id \in Ids : Exists(id) => row[id].path # writes[k].path
            /\ \A k, l \in DOMAIN writes :
                  k # l => writes[k].id # writes[l].id /\ writes[k].path # writes[l].path
  <1> DEFINE rep == Plan(upload, how, TakenPaths)
  <1>1. rep \in Seq(Row) /\ OrderFree(upload, how, TakenPaths, rep)
    BY TakenIsFinite, PlanDecides
  <1> HIDE DEF rep
  <1>2. Len(rep) \in Nat /\ DOMAIN rep = 1 .. Len(rep)
    BY <1>1
  <1>3. PICK writes :
           /\ writes = [n \in 0 .. Len(rep) |->
                IF n = 0 THEN <<>>
                ELSE IF rep[n].action \in {"create", "overwrite"}
                     THEN Append(writes[n - 1], WriteOf(rep[n], ids[n]))
                     ELSE writes[n - 1]]
           /\ WritesOf(rep, ids) = writes[Len(rep)]
    BY <1>2, WriteTurns
  \* After n rows: every write is of an applied row so far, and of another one each.
  <1> DEFINE w(i) == WriteOf(rep[i], ids[i])
             Upto(n, ws) ==
                /\ ws \in Seq(Write)
                /\ \A k \in DOMAIN ws : \E i \in Applied(rep) : i <= n /\ ws[k] = w(i)
                /\ \A k, l \in DOMAIN ws : k # l => ws[k].id # ws[l].id /\ ws[k].path # ws[l].path
             S == {n \in Nat : n <= Len(rep) => Upto(n, writes[n])}
  <1>4. \A i \in Applied(rep) :
           /\ w(i) \in Write
           /\ \A j \in Applied(rep) : i # j => w(i).id # w(j).id /\ w(i).path # w(j).path
    BY <1>1, RowsDiffer
  <1> HIDE DEF w
  <1>5. 0 \in S
    <2>1. writes[0] = <<>>
      BY <1>2, <1>3
    <2>2. <<>> \in Seq(Write) /\ DOMAIN <<>> = {}
      OBVIOUS
    <2>3. Upto(0, writes[0])
      BY <2>1, <2>2
    <2> HIDE DEF Upto
    <2> QED  BY <2>3
  <1>6. ASSUME NEW n \in Nat, n \in S
        PROVE  n + 1 \in S
    <2> SUFFICES ASSUME n + 1 <= Len(rep) PROVE Upto(n + 1, writes[n + 1])
      OBVIOUS
    <2> DEFINE ws == writes[n]
    <2>1. Upto(n, ws)
      BY <1>2, <1>6
    <2>2. writes[n + 1] = IF rep[n + 1].action \in {"create", "overwrite"}
                          THEN Append(ws, w(n + 1)) ELSE ws
      <3>1. n + 1 \in 0 .. Len(rep) /\ n + 1 # 0 /\ (n + 1) - 1 = n
        BY <1>2
      <3> QED  BY <1>3, <3>1 DEF w
    <2> HIDE DEF ws
    <2>3. \A i \in Applied(rep) : i \in Int
      BY <1>2 DEF Applied
    <2>4. CASE rep[n + 1].action \notin {"create", "overwrite"}
      <3>1. writes[n + 1] = ws
        BY <2>2, <2>4
      <3>2. \A i \in Applied(rep) : i <= n => i <= n + 1
        BY <2>3
      <3> QED  BY <2>1, <3>1, <3>2
    <2>5. CASE rep[n + 1].action \in {"create", "overwrite"}
      <3> DEFINE vs == Append(ws, w(n + 1))
      <3>1. writes[n + 1] = vs
        BY <2>2, <2>5
      <3>2. n + 1 \in Applied(rep)
        BY <1>2, <2>5 DEF Applied
      <3>3. /\ vs \in Seq(Write) /\ DOMAIN vs = DOMAIN ws \cup {Len(ws) + 1}
            /\ Len(ws) + 1 \notin DOMAIN ws
            /\ vs[Len(ws) + 1] = w(n + 1) /\ \A k \in DOMAIN ws : vs[k] = ws[k]
        <4>1. ws \in Seq(Write) /\ w(n + 1) \in Write
          BY <1>4, <2>1, <3>2
        <4> QED  BY <4>1
      <3> HIDE DEF vs
      <3>4. \A k \in DOMAIN vs : \E i \in Applied(rep) : i <= n + 1 /\ vs[k] = w(i)
        <4>1. ASSUME NEW k \in DOMAIN ws
              PROVE  \E i \in Applied(rep) : i <= n + 1 /\ vs[k] = w(i)
          <5>1. PICK i \in Applied(rep) : i <= n /\ ws[k] = w(i)
            BY <2>1
          <5>2. i <= n + 1 /\ vs[k] = w(i)
            BY <2>3, <3>3, <5>1
          <5> QED  BY <5>2
        <4> QED  BY <3>2, <3>3, <4>1
      <3>5. ASSUME NEW k \in DOMAIN ws
            PROVE  ws[k].id # w(n + 1).id /\ ws[k].path # w(n + 1).path
        <4>1. PICK i \in Applied(rep) : i <= n /\ ws[k] = w(i)
          BY <2>1
        <4>2. i # n + 1
          BY <2>3, <4>1
        <4> QED  BY <1>4, <3>2, <4>1, <4>2
      <3>6. \A k, l \in DOMAIN vs : k # l => vs[k].id # vs[l].id /\ vs[k].path # vs[l].path
        BY <2>1, <3>3, <3>5
      <3> QED  BY <3>1, <3>3, <3>4, <3>6
    <2> QED  BY <2>4, <2>5
  <1>7. Upto(Len(rep), writes[Len(rep)])
    <2>1. Len(rep) \in S
      <3> HIDE DEF S
      <3> QED  BY <1>2, <1>5, <1>6, SetOfNaturals
    <2> QED  BY <1>2, <2>1
  <1>8. \A i \in Applied(rep) :
           IF w(i).preexisting THEN Exists(w(i).id) /\ row[w(i).id].path = w(i).path
           ELSE /\ w(i).id \in Ids \ born
                /\ \A id \in Ids : Exists(id) => row[id].path # w(i).path
    BY <1>1, RowsDiffer DEF w
  <1> DEFINE all == writes[Len(rep)]
  <1>9. /\ all \in Seq(Write)
        /\ \A k \in DOMAIN all : \E i \in Applied(rep) : all[k] = w(i)
        /\ \A k, l \in DOMAIN all : k # l => all[k].id # all[l].id /\ all[k].path # all[l].path
    BY <1>7
  <1>10. WritesOf(Plan(upload, how, TakenPaths), ids) = all
    BY <1>3 DEF rep
  <1> HIDE DEF all
  <1>11. ASSUME NEW k \in DOMAIN all
         PROVE  IF all[k].preexisting
                THEN Exists(all[k].id) /\ row[all[k].id].path = all[k].path
                ELSE /\ all[k].id \in Ids \ born
                     /\ \A id \in Ids : Exists(id) => row[id].path # all[k].path
    <2>1. PICK i \in Applied(rep) : all[k] = w(i)
      BY <1>9
    <2> QED  BY <1>8, <2>1
  <1> QED  BY <1>9, <1>10, <1>11

-----------------------------------------------------------------------------
(* What a step does to the requests.                                       *)

Step(w) == Serve(w) \/ ImportFails(w) \/ Abort(w)

Assigned(w) == \E fetched \in BOOLEAN : AssignCommit(w, fetched)

\* A request comes in and meets others; goes on; or is answered.
Began(w) ==
    \/ CreatePut(w) \/ UpdateRead(w) \/ AssignRead(w) \/ DeleteRead(w)
    \/ ImportBegin(w) \/ CompileRead(w)

WentOn(w) == UpdatePut(w) \/ DeleteBody(w) \/ DeleteIndex(w) \/ ImportPut(w)

Ended(w) ==
    \/ CreateCommit(w) \/ CreateFails(w) \/ UpdateCommit(w) \/ UpdateFails(w)
    \/ Assigned(w) \/ AssignFails(w) \/ DeleteRow(w) \/ ImportCommit(w)
    \/ CompileCommit(w) \/ CompileFails(w) \/ ImportFails(w) \/ Abort(w)

LEMMA StepIs ==
  ASSUME NEW w, Step(w)
  PROVE  Began(w) \/ WentOn(w) \/ Ended(w)
  BY DEF Step, Serve, Began, WentOn, Ended, Assigned

LEMMA BeganReq ==
  ASSUME NEW w \in Workers, Began(w), req \in [Workers -> Request]
  PROVE  /\ req[w] = Idle
         /\ \A v \in Workers \ {w} : req'[v] = req[v]
         /\ req' = [req EXCEPT ![w] = req'[w]]
         /\ LET rivals == Rivals(w, About(req'[w]))
            IN contested' = contested \cup rivals \cup (IF rivals = {} THEN {} ELSE {w})
         /\ begun < MaxRequests /\ begun' = begun + 1
         /\ row' = row /\ links' = links /\ fts' = fts /\ disturbed' = disturbed
  <1>1. ASSUME NEW r, Begin(w, r)
        PROVE  /\ req[w] = Idle /\ req'[w] = r
               /\ \A v \in Workers \ {w} : req'[v] = req[v]
               /\ req' = [req EXCEPT ![w] = req'[w]]
               /\ LET rivals == Rivals(w, About(req'[w]))
                  IN contested' = contested \cup rivals \cup (IF rivals = {} THEN {} ELSE {w})
               /\ begun < MaxRequests /\ begun' = begun + 1
    <2>1. /\ req[w] = Idle /\ req' = [req EXCEPT ![w] = r]
          /\ begun < MaxRequests /\ begun' = begun + 1
          /\ LET rivals == Rivals(w, About(r))
             IN contested' = contested \cup rivals \cup (IF rivals = {} THEN {} ELSE {w})
      BY <1>1 DEF Begin
    <2>2. req'[w] = r /\ \A v \in Workers \ {w} : req'[v] = req[v]
      BY <2>1
    <2> QED  BY <2>1, <2>2
  <1>2. \E r : Begin(w, r)
    BY DEF Began, CreatePut, UpdateRead, AssignRead, DeleteRead, ImportBegin, CompileRead
  <1>3. row' = row /\ links' = links /\ fts' = fts /\ disturbed' = disturbed
    BY DEF Began, CreatePut, UpdateRead, AssignRead, DeleteRead, ImportBegin, CompileRead, tables
  <1> QED  BY <1>1, <1>2, <1>3

LEMMA WentOnReq ==
  ASSUME NEW w \in Workers, WentOn(w), req \in [Workers -> Request]
  PROVE  /\ \A v \in Workers \ {w} : req'[v] = req[v]
         /\ About(req'[w]) = About(req[w]) /\ req'[w].op = req[w].op
         /\ req'[w] \in Request
         /\ req' = [req EXCEPT ![w] = req'[w]]
         /\ row' = row /\ links' = links /\ tx' = tx /\ born' = born
         /\ UNCHANGED <<begun, contested, disturbed, traces>>
  <1> DEFINE r == req[w]
  <1>0. r \in Request
    OBVIOUS
  <1>1. CASE UpdatePut(w)
    <2> DEFINE e == [r EXCEPT !.body = "put"]
    <2>1. r.op = "update" /\ req' = [req EXCEPT ![w] = e]
      BY <1>1 DEF UpdatePut, Continue
    <2>2. r \in Updates
      BY <1>0, <2>1, Kinds
    <2>3. e \in Updates /\ e.op = "update" /\ e.id = r.id
      BY <2>2 DEF Updates
    <2> HIDE DEF e
    <2>4. e \in Request /\ About(e) = {e.id} /\ About(r) = {r.id}
      BY <1>0, <2>1, <2>3, RequestIsOneOf, Kinds
    <2>5. req'[w] = e /\ \A v \in Workers \ {w} : req'[v] = req[v]
      BY <2>1
    <2> QED  BY <1>1, <2>1, <2>3, <2>4, <2>5 DEF UpdatePut, Continue, tables
  <1>2. CASE DeleteBody(w) \/ DeleteIndex(w)
    <2>1. PICK next \in {"index", "row"} :
            r.op = "delete" /\ req' = [req EXCEPT ![w] = [r EXCEPT !.next = next]]
      BY <1>2 DEF DeleteBody, DeleteIndex, Continue
    <2> DEFINE e == [r EXCEPT !.next = next]
    <2>2. r \in Deletes
      BY <1>0, <2>1, Kinds
    <2>3. e \in Deletes /\ e.op = "delete" /\ e.id = r.id
      BY <2>2 DEF Deletes
    <2> HIDE DEF e
    <2>4. e \in Request /\ About(e) = {e.id} /\ About(r) = {r.id}
      BY <1>0, <2>1, <2>3, RequestIsOneOf, Kinds
    <2>5. req'[w] = e /\ \A v \in Workers \ {w} : req'[v] = req[v] /\ req' = [req EXCEPT ![w] = e]
      BY <2>1 DEF e
    <2> QED  BY <1>2, <2>1, <2>3, <2>4, <2>5 DEF DeleteBody, DeleteIndex, Continue, tables, e
  <1>3. CASE ImportPut(w)
    <2> DEFINE e == [r EXCEPT !.done = r.done + 1]
    <2>1. r.op = "import" /\ req' = [req EXCEPT ![w] = e]
      BY <1>3 DEF ImportPut, Continue
    <2>2. r \in Imports
      BY <1>0, <2>1, Kinds
    <2>3. e \in Imports /\ e.op = "import" /\ e.writes = r.writes
      BY <2>2 DEF Imports
    <2> HIDE DEF e
    <2>4. e \in Request /\ About(e) = About(r)
      <3>1. e \in Request
        BY <2>3, RequestIsOneOf
      <3>2. About(e) = {e.writes[i].id : i \in DOMAIN e.writes}
        BY <2>3 DEF About
      <3>3. About(r) = {r.writes[i].id : i \in DOMAIN r.writes}
        BY <2>1 DEF About
      <3> HIDE DEF r
      <3> QED  BY <2>3, <3>1, <3>2, <3>3
    <2>5. req'[w] = e /\ \A v \in Workers \ {w} : req'[v] = req[v]
      BY <2>1
    <2> QED  BY <1>3, <2>1, <2>3, <2>4, <2>5 DEF ImportPut, Continue, tables
  <1> QED  BY <1>1, <1>2, <1>3 DEF WentOn

\* An answered request leaves what it was not about as undisturbed as it was.
LEMMA EndedReq ==
  ASSUME NEW w \in Workers, Ended(w), req \in [Workers -> Request]
  PROVE  /\ \A v \in Workers \ {w} : req'[v] = req[v]
         /\ req'[w] = Idle
         /\ req' = [req EXCEPT ![w] = req'[w]]
         /\ contested' = contested \ {w}
         /\ begun' = begun /\ born' = born /\ doomed' = doomed
  BY DEF Ended, Assigned, CreateCommit, CreateFails, UpdateCommit, UpdateFails, AssignCommit,
         AssignFails, DeleteRow, ImportCommit, CompileCommit, CompileFails, ImportFails, Abort,
         End, traces

-----------------------------------------------------------------------------
(* Which steps write which table.                                          *)

RowWriters(w) ==
    CreateCommit(w) \/ UpdateCommit(w) \/ Assigned(w) \/ DeleteRow(w) \/ ImportCommit(w)

BlobWriters(w) ==
    \/ CreatePut(w) \/ CreateFails(w) \/ UpdatePut(w) \/ DeleteBody(w) \/ ImportPut(w)
    \/ ImportFails(w)

LEMMA WhoWrites ==
  ASSUME NEW w, Step(w)
  PROVE  /\ row' = row \/ RowWriters(w)
         /\ links' = links \/ RowWriters(w) \/ CompileCommit(w)
         /\ fts' = fts \/ CreateCommit(w) \/ UpdateCommit(w) \/ DeleteIndex(w)
         /\ blob' = blob \/ BlobWriters(w)
  <1>1. CASE Began(w)
    BY <1>1 DEF Began, CreatePut, UpdateRead, AssignRead, DeleteRead, ImportBegin, CompileRead,
                tables, BlobWriters
  <1>2. CASE WentOn(w)
    BY <1>2 DEF WentOn, UpdatePut, DeleteBody, DeleteIndex, ImportPut, tables, BlobWriters
  <1>3. CASE Ended(w)
    BY <1>3 DEF Ended, CreateFails, UpdateFails, AssignFails, Assigned, AssignCommit, DeleteRow,
                CreateCommit, UpdateCommit, ImportCommit, CompileCommit, CompileFails,
                ImportFails, Abort, tables, RowWriters, BlobWriters
  <1> QED  BY <1>1, <1>2, <1>3, StepIs

\* While an import has its transaction open, nobody else writes rows.
LEMMA RowsHeld ==
  ASSUME StoreTypeOK, TxIsImport, NEW w \in Workers, Step(w), row' # row
  PROVE  tx \in {None, w}
  <1>1. CreateCommit(w) \/ UpdateCommit(w) \/ Assigned(w) \/ DeleteRow(w) => tx = None
    BY DEF CreateCommit, UpdateCommit, Assigned, AssignCommit, DeleteRow, DbFree
  <1>2. ImportCommit(w) => tx = w
    BY DEF ImportCommit, TxIsImport
  <1> QED  BY <1>1, <1>2, WhoWrites DEF RowWriters

\* The ids of an import's writes, written or not, fresh or not.
LEMMA WritesAreItsOwn ==
  ASSUME NEW r \in Request, r.op = "import"
  PROVE  /\ r.writes \in Seq(Write) /\ r.done \in Nat
         /\ \A i \in DOMAIN r.writes : r.writes[i] \in Write /\ r.writes[i].id \in About(r)
         /\ DOMAIN r.writes = 1 .. Len(r.writes) /\ Len(r.writes) \in Nat
         /\ Fresh(r) \subseteq About(r)
  <1>1. r \in Imports /\ About(r) = {r.writes[i].id : i \in DOMAIN r.writes}
    BY Kinds
  <1>2. r.writes \in Seq(Write) /\ r.done \in Nat
    BY <1>1 DEF Imports
  <1>3. \A i \in DOMAIN r.writes : r.writes[i] \in Write
    BY <1>2, ItemsOf
  <1>4. DOMAIN r.writes = 1 .. Len(r.writes) /\ Len(r.writes) \in Nat
    BY <1>2
  <1> QED  BY <1>1, <1>2, <1>3, <1>4 DEF Fresh

\* A request writes the rows, the search rows and the bodies of its own entries only.
LEMMA OnlyItsOwn ==
  ASSUME StoreTypeOK, NEW w \in Workers, Step(w),
         NEW id \in Ids, id \notin About(req[w])
  PROVE  /\ row'[id] = row[id] /\ fts'[id] = fts[id]
         /\ id \in born => blob'[id] = blob[id]
  <1> DEFINE r == req[w]
  <1>1. /\ row \in [Ids -> Entry \cup {None}] /\ r \in Request
        /\ fts \in [Ids -> Texts \cup {None}] /\ blob \in [Ids -> Texts \cup {None}]
    BY DEF StoreTypeOK, EntryTypeOK
  <1>2. r.op \in {"create", "update", "assign", "delete"} => r.id # id /\ r.id \in Ids
    BY <1>1, Kinds
  <1>3. row'[id] = row[id]
    <2>1. CASE CreateCommit(w)
      BY <1>1, <1>2, <2>1 DEF CreateCommit
    <2>2. CASE UpdateCommit(w)
      BY <1>1, <1>2, <2>2 DEF UpdateCommit
    <2>3. CASE Assigned(w)
      BY <1>1, <1>2, <2>3 DEF Assigned, AssignCommit, Moved
    <2>4. CASE DeleteRow(w)
      BY <1>1, <1>2, <2>4 DEF DeleteRow
    <2>5. CASE ImportCommit(w)
      BY <2>5 DEF ImportCommit
    <2> QED  BY <2>1, <2>2, <2>3, <2>4, <2>5, WhoWrites DEF RowWriters
  <1>4. fts'[id] = fts[id]
    <2>1. CASE CreateCommit(w)
      BY <1>2, <2>1 DEF CreateCommit, Indexed
    <2>2. CASE UpdateCommit(w)
      BY <1>2, <2>2 DEF UpdateCommit, Indexed
    <2>3. CASE DeleteIndex(w)
      BY <1>1, <1>2, <2>3 DEF DeleteIndex
    <2> QED  BY <2>1, <2>2, <2>3, WhoWrites
  <1>5. ASSUME id \in born
        PROVE  blob'[id] = blob[id]
    <2>1. CASE CreatePut(w)
      BY <1>1, <1>5, <2>1 DEF CreatePut
    <2>2. CASE CreateFails(w)
      BY <1>1, <1>2, <2>2 DEF CreateFails
    <2>3. CASE UpdatePut(w)
      BY <1>1, <1>2, <2>3 DEF UpdatePut
    <2>4. CASE DeleteBody(w)
      BY <1>1, <1>2, <2>4 DEF DeleteBody
    <2>5. CASE ImportPut(w)
      <3>1. r.op = "import" /\ r.done < Len(r.writes)
        BY <2>5 DEF ImportPut
      <3>2. r.writes[r.done + 1].id \in About(r)
        BY <1>1, <3>1, WritesAreItsOwn
      <3>3. blob' = [blob EXCEPT ![r.writes[r.done + 1].id] = r.writes[r.done + 1].text]
        BY <2>5 DEF ImportPut
      <3> QED  BY <1>1, <3>2, <3>3
    <2>6. CASE ImportFails(w)
      <3>1. r.op = "import" /\ blob' = [i \in Ids |-> IF i \in Fresh(r) THEN None ELSE blob[i]]
        BY <2>6 DEF ImportFails
      <3>2. id \notin Fresh(r)
        BY <1>1, <3>1, WritesAreItsOwn
      <3> QED  BY <3>1, <3>2
    <2> QED  BY <2>1, <2>2, <2>3, <2>4, <2>5, <2>6, WhoWrites DEF BlobWriters
  <1> QED  BY <1>3, <1>4, <1>5

-----------------------------------------------------------------------------
(* What a request starts from.                                             *)

LEMMA ImportBegun ==
  ASSUME StoreTypeOK, NEW w \in Workers, ImportBegin(w)
  PROVE  \E writes \in Seq(Write) :
            /\ req'[w] = [op |-> "import", writes |-> writes, done |-> 0]
            /\ born' = born \cup {writes[i].id : i \in DOMAIN writes}
            /\ tx = None /\ tx' = w /\ blob' = blob
            /\ \A k \in DOMAIN writes :
                  IF writes[k].preexisting
                  THEN Exists(writes[k].id) /\ row[writes[k].id].path = writes[k].path
                  ELSE /\ writes[k].id \in Ids \ born
                       /\ \A id \in Ids : Exists(id) => row[id].path # writes[k].path
            /\ \A k, l \in DOMAIN writes :
                  k # l => writes[k].id # writes[l].id /\ writes[k].path # writes[l].path
  <1>1. PICK upload \in Batches, how \in Modes :
          \E ids \in {f \in [DOMAIN upload -> Ids \ born] : IsInjective(f)} :
             LET writes == WritesOf(Plan(upload, how, TakenPaths), ids)
             IN /\ Begin(w, [op |-> "import", writes |-> writes, done |-> 0])
                /\ born' = born \cup {writes[i].id : i \in DOMAIN writes}
    BY DEF ImportBegin, TakenPaths
  <1>2. PICK ids \in [DOMAIN upload -> Ids \ born] :
          /\ IsInjective(ids)
          /\ LET writes == WritesOf(Plan(upload, how, TakenPaths), ids)
             IN /\ Begin(w, [op |-> "import", writes |-> writes, done |-> 0])
                /\ born' = born \cup {writes[i].id : i \in DOMAIN writes}
    BY <1>1
  <1>3. tx = None /\ tx' = w /\ blob' = blob
    BY DEF ImportBegin, DbFree
  <1>4. IsBatch(upload)
    BY EntryAssumption
  <1> DEFINE all == WritesOf(Plan(upload, how, TakenPaths), ids)
  <1>5. /\ all \in Seq(Write)
        /\ \A k \in DOMAIN all :
              IF all[k].preexisting
              THEN Exists(all[k].id) /\ row[all[k].id].path = all[k].path
              ELSE /\ all[k].id \in Ids \ born
                   /\ \A id \in Ids : Exists(id) => row[id].path # all[k].path
        /\ \A k, l \in DOMAIN all :
              k # l => all[k].id # all[l].id /\ all[k].path # all[l].path
    BY <1>2, <1>4, WritesAreSound
  <1>6. /\ Begin(w, [op |-> "import", writes |-> all, done |-> 0])
        /\ born' = born \cup {all[i].id : i \in DOMAIN all}
    BY <1>2
  <1> HIDE DEF all
  <1>7. req'[w] = [op |-> "import", writes |-> all, done |-> 0]
    BY <1>6 DEF Begin, StoreTypeOK
  <1> QED  BY <1>3, <1>5, <1>6, <1>7

\* A new request has torn nothing, and each of its entries has a row or is new.
LEMMA BeganWith ==
  ASSUME StoreTypeOK, NEW w \in Workers, Began(w)
  PROVE  /\ req'[w] \in Request /\ req'[w].op # "idle"
         /\ born \subseteq born' /\ born' \subseteq Ids
         /\ About(req'[w]) \subseteq born'
         /\ \A id \in About(req'[w]) : id \in born => Exists(id)
         /\ Drawn(req'[w]) \cap born = {} /\ Drawn(req'[w]) \subseteq About(req'[w])
         /\ Torn(req'[w]) = {}
         /\ ImportBegin(w) \/ (tx' = tx /\ req'[w].op # "import")
         /\ tables' = tables /\ disturbed' = disturbed
         /\ strayed' = strayed /\ rewritten' = rewritten /\ imported' = imported
         /\ doomed \subseteq doomed' /\ doomed' \subseteq Ids
         /\ blob' = blob \/ CreatePut(w)
         /\ LET r == req'[w]
            IN /\ r.op = "create" => blob'[r.id] = r.text
               /\ r.op = "update" => /\ Exists(r.id) /\ r.body # "put"
                                     /\ r.body = "same" => row[r.id].text = r.text
               /\ r.op = "assign" => Exists(r.id) /\ row[r.id].path = r.old
               /\ r.op = "delete" => r.next = "body" /\ r.id \in doomed'
               /\ r.op = "import" => r.done = 0
  <1> DEFINE e == req'[w]
  <1>0. /\ req \in [Workers -> Request] /\ born \subseteq Ids
        /\ row \in [Ids -> Entry \cup {None}] /\ {id \in Ids : Exists(id)} \subseteq born
        /\ disturbed \cup strayed \cup doomed \cup rewritten \cup imported \subseteq Ids
        /\ blob \in [Ids -> Texts \cup {None}]
    BY DEF StoreTypeOK, EntryTypeOK
  <1>1. CASE CreatePut(w)
    <2>1. PICK id \in Ids \ born, path \in EntryPaths, text \in Texts :
            /\ Begin(w, [op |-> "create", id |-> id, path |-> path, text |-> text])
            /\ born' = born \cup {id} /\ blob' = [blob EXCEPT ![id] = text]
            /\ UNCHANGED <<tables, tx, disturbed, traces>>
      BY <1>1 DEF CreatePut
    <2>2. e = [op |-> "create", id |-> id, path |-> path, text |-> text]
      BY <1>0, <2>1 DEF Begin
    <2>3. e \in Creates /\ e.op = "create" /\ e.id = id /\ e.text = text
      BY <2>2 DEF Creates
    <2>4. e \in Request /\ About(e) = {id} /\ Drawn(e) = {id} /\ Torn(e) = {}
      BY <2>3, RequestIsOneOf DEF About, Drawn, Torn
    <2> HIDE DEF e
    <2>5. tx' = tx /\ disturbed' = disturbed /\ tables' = tables /\ traces' = traces
      BY <2>1
    <2> QED  BY <1>0, <1>1, <2>1, <2>3, <2>4, <2>5 DEF e, traces
  <1>2. CASE UpdateRead(w)
    <2> DEFINE fresh(id, dir, slug, text) ==
                  [op |-> "update", id |-> id, path |-> [dir |-> dir, slug |-> slug],
                   text |-> IF text = None THEN row[id].text ELSE text,
                   body |-> IF text = None THEN "same" ELSE "new"]
    <2>0. PICK id \in Ids :
            Exists(id) /\ \E dir \in Dirs, slug \in Slugs \cup {row[id].path.slug},
                             text \in Texts \cup {None} : Begin(w, fresh(id, dir, slug, text))
      BY <1>2 DEF UpdateRead
    <2>1. PICK dir \in Dirs, slug \in Slugs \cup {row[id].path.slug}, text \in Texts \cup {None} :
            Begin(w, fresh(id, dir, slug, text))
      BY <2>0
    <2> DEFINE path == [dir |-> dir, slug |-> slug]
               text_ == IF text = None THEN row[id].text ELSE text
               body == IF text = None THEN "same" ELSE "new"
    <2>2. e = [op |-> "update", id |-> id, path |-> path, text |-> text_, body |-> body]
      BY <1>0, <2>1 DEF Begin
    <2>3. row[id] \in Entry
      BY <1>0, <2>0 DEF Exists
    <2>4. path \in Path /\ text_ \in Texts /\ body \in {"same", "new"}
      BY <2>3, EntryAssumption DEF Entry, Path
    <2> HIDE DEF path, text_, body
    <2>5. /\ e \in Updates /\ e.op = "update" /\ e.id = id /\ e.body # "put"
          /\ e.body = "same" => e.text = row[id].text
      <3>1. e \in Updates /\ e.op = "update" /\ e.id = id /\ e.body = body /\ e.text = text_
        BY <2>2, <2>4 DEF Updates
      <3> HIDE DEF e
      <3> QED  BY <2>4, <3>1 DEF body, text_
    <2>6. e \in Request /\ About(e) = {id} /\ Drawn(e) = {} /\ Torn(e) = {}
      BY <2>5, RequestIsOneOf DEF About, Drawn, Torn
    <2> HIDE DEF e
    <2>7. /\ tx' = tx /\ disturbed' = disturbed /\ tables' = tables /\ traces' = traces
          /\ born' = born /\ blob' = blob
      BY <1>2 DEF UpdateRead
    <2> QED  BY <1>0, <2>0, <2>5, <2>6, <2>7 DEF e, traces
  <1>3. CASE AssignRead(w)
    <2>1. PICK id \in Ids, dir \in Dirs :
            /\ Exists(id)
            /\ Begin(w, [op |-> "assign", id |-> id, old |-> row[id].path, dir |-> dir])
      BY <1>3 DEF AssignRead
    <2>2. e = [op |-> "assign", id |-> id, old |-> row[id].path, dir |-> dir]
      BY <1>0, <2>1 DEF Begin
    <2>3. row[id].path \in Path
      BY <1>0, <2>1 DEF Exists, Entry
    <2>4. e \in Assigns /\ e.op = "assign" /\ e.id = id /\ e.old = row[id].path
      BY <2>2, <2>3 DEF Assigns
    <2>5. e \in Request /\ About(e) = {id} /\ Drawn(e) = {} /\ Torn(e) = {}
      BY <2>4, RequestIsOneOf DEF About, Drawn, Torn
    <2> HIDE DEF e
    <2>6. /\ tx' = tx /\ disturbed' = disturbed /\ tables' = tables /\ traces' = traces
          /\ born' = born /\ blob' = blob
      BY <1>3 DEF AssignRead
    <2> QED  BY <1>0, <2>1, <2>4, <2>5, <2>6 DEF e, traces
  <1>4. CASE DeleteRead(w)
    <2>1. PICK id \in Ids :
            /\ Exists(id) /\ doomed' = doomed \cup {id}
            /\ Begin(w, [op |-> "delete", id |-> id, next |-> "body"])
      BY <1>4 DEF DeleteRead
    <2>2. e = [op |-> "delete", id |-> id, next |-> "body"]
      BY <1>0, <2>1 DEF Begin
    <2>3. e \in Deletes /\ e.op = "delete" /\ e.id = id /\ e.next = "body"
      BY <2>2 DEF Deletes
    <2>4. e \in Request /\ About(e) = {id} /\ Drawn(e) = {} /\ Torn(e) = {}
      BY <2>3, RequestIsOneOf DEF About, Drawn, Torn
    <2> HIDE DEF e
    <2>5. /\ tx' = tx /\ disturbed' = disturbed /\ tables' = tables /\ strayed' = strayed
          /\ rewritten' = rewritten /\ imported' = imported /\ born' = born /\ blob' = blob
      BY <1>4 DEF DeleteRead
    <2> QED  BY <1>0, <2>1, <2>3, <2>4, <2>5 DEF e
  <1>5. CASE ImportBegin(w)
    <2>1. PICK writes \in Seq(Write) :
            /\ e = [op |-> "import", writes |-> writes, done |-> 0]
            /\ born' = born \cup {writes[i].id : i \in DOMAIN writes}
            /\ blob' = blob
            /\ \A k \in DOMAIN writes :
                  IF writes[k].preexisting THEN Exists(writes[k].id)
                  ELSE writes[k].id \in Ids \ born
      BY <1>5, ImportBegun
    <2>2. e \in Imports /\ e.op = "import" /\ e.writes = writes /\ e.done = 0
      BY <2>1 DEF Imports
    <2> HIDE DEF e
    <2>3. \A k \in DOMAIN writes : writes[k].id \in Ids
      <3>1. \A k \in DOMAIN writes : writes[k] \in Write
        BY ItemsOf
      <3> QED  BY <3>1 DEF Write
    <2>4. /\ e \in Request /\ About(e) = {writes[i].id : i \in DOMAIN writes}
          /\ Drawn(e) = {writes[i].id : i \in {j \in DOMAIN writes : ~writes[j].preexisting}}
      BY <2>2, RequestIsOneOf DEF About, Drawn, Fresh
    <2>5. Torn(e) = {}
      <3>1. Torn(e) = Overwritten(e)
        BY <2>2 DEF Torn
      <3> QED  BY <2>2, <3>1 DEF Overwritten
    <2>6. disturbed' = disturbed /\ tables' = tables /\ traces' = traces
      BY <1>5 DEF ImportBegin
    <2> QED  BY <1>0, <1>5, <2>1, <2>2, <2>3, <2>4, <2>5, <2>6 DEF e, traces
  <1>6. CASE CompileRead(w)
    <2>1. e = [op |-> "compile", ids |-> {id \in Ids : Exists(id)}]
      BY <1>0, <1>6 DEF CompileRead, Begin
    <2>2. e \in Compiles /\ e.op = "compile"
      BY <2>1 DEF Compiles
    <2>3. e \in Request /\ About(e) = {} /\ Drawn(e) = {} /\ Torn(e) = {}
      BY <2>2, RequestIsOneOf DEF About, Drawn, Torn
    <2> HIDE DEF e
    <2>4. /\ tx' = tx /\ disturbed' = disturbed /\ tables' = tables /\ traces' = traces
          /\ born' = born /\ blob' = blob
      BY <1>6 DEF CompileRead
    <2> QED  BY <1>0, <2>2, <2>3, <2>4 DEF e, traces
  <1> QED  BY <1>1, <1>2, <1>3, <1>4, <1>5, <1>6 DEF Began

-----------------------------------------------------------------------------
(* Who is about what, and who holds the transaction.                       *)

\* The other requests, and what they are about, stay; an answered one is about nothing.
LEMMA OthersStay ==
  ASSUME StoreTypeOK, NEW w \in Workers, Step(w)
  PROVE  /\ \A v \in Workers \ {w} : req'[v] = req[v]
         /\ req' \in [Workers -> Request]
         /\ contested \subseteq contested' \cup {w}
         /\ born \subseteq born'
         /\ strayed \subseteq strayed' /\ doomed \subseteq doomed'
  <1>0. req \in [Workers -> Request]
    BY DEF StoreTypeOK
  <1>1. CASE Began(w)
    <2>1. /\ \A v \in Workers \ {w} : req'[v] = req[v]
          /\ req' = [req EXCEPT ![w] = req'[w]]
          /\ contested \subseteq contested'
      BY <1>0, <1>1, BeganReq
    <2> QED  BY <1>0, <1>1, <2>1, BeganWith
  <1>2. CASE WentOn(w)
    <2>1. /\ \A v \in Workers \ {w} : req'[v] = req[v]
          /\ req' = [req EXCEPT ![w] = req'[w]] /\ req'[w] \in Request
          /\ contested' = contested /\ born' = born /\ traces' = traces
      BY <1>0, <1>2, WentOnReq
    <2> QED  BY <1>0, <2>1 DEF traces
  <1>3. CASE Ended(w)
    <2>1. /\ \A v \in Workers \ {w} : req'[v] = req[v]
          /\ req' = [req EXCEPT ![w] = req'[w]] /\ req'[w] = Idle
          /\ contested' = contested \ {w} /\ born' = born /\ doomed' = doomed
      BY <1>0, <1>3, EndedReq
    <2>2. strayed \subseteq strayed'
      BY <1>3 DEF Ended, CreateCommit, CreateFails, UpdateCommit, UpdateFails, Assigned,
                  AssignCommit, AssignFails, DeleteRow, ImportCommit, CompileCommit,
                  CompileFails, ImportFails, Abort, traces
    <2> QED  BY <1>0, <2>1, <2>2, IdleIsARequest
  <1> QED  BY <1>1, <1>2, <1>3, StepIs

LEMMA AloneKept ==
  ASSUME StoreTypeOK, Alone, NEW w \in Workers, Step(w)
  PROVE  Alone'
  <1>0. req \in [Workers -> Request]
    BY DEF StoreTypeOK
  <1>1. CASE Began(w)
    <2>1. /\ \A v \in Workers \ {w} : req'[v] = req[v]
          /\ LET rivals == Rivals(w, About(req'[w]))
             IN contested' = contested \cup rivals \cup (IF rivals = {} THEN {} ELSE {w})
      BY <1>0, <1>1, BeganReq
    <2> SUFFICES ASSUME NEW u \in Workers, NEW v \in Workers, u # v, u \notin contested'
                 PROVE  About(req'[u]) \cap About(req'[v]) = {}
      BY DEF Alone
    <2>2. CASE u = w
      <3>1. Rivals(w, About(req'[w])) = {}
        BY <2>1, <2>2
      <3>2. About(req[v]) \cap About(req'[w]) = {}
        BY <2>2, <3>1 DEF Rivals
      <3> QED  BY <2>1, <2>2, <3>2
    <2>3. CASE v = w
      <3>1. u \notin Rivals(w, About(req'[w]))
        BY <2>1
      <3>2. About(req[u]) \cap About(req'[w]) = {}
        BY <2>3, <3>1 DEF Rivals
      <3> QED  BY <2>1, <2>3, <3>2
    <2>4. CASE u # w /\ v # w
      <3>1. u \notin contested
        BY <2>1
      <3> QED  BY <2>1, <2>4, <3>1 DEF Alone
    <2> QED  BY <2>2, <2>3, <2>4
  <1>2. CASE WentOn(w)
    <2>1. /\ \A v \in Workers \ {w} : req'[v] = req[v]
          /\ About(req'[w]) = About(req[w]) /\ contested' = contested
      BY <1>0, <1>2, WentOnReq
    <2>2. \A v \in Workers : About(req'[v]) = About(req[v])
      BY <2>1
    <2> QED  BY <2>1, <2>2 DEF Alone
  <1>3. CASE Ended(w)
    <2>1. /\ \A v \in Workers \ {w} : req'[v] = req[v]
          /\ req'[w] = Idle /\ contested' = contested \ {w}
      BY <1>0, <1>3, EndedReq
    <2>2. About(req'[w]) = {}
      BY <2>1, IdleIsARequest
    <2> QED  BY <2>1, <2>2 DEF Alone
  <1> QED  BY <1>1, <1>2, <1>3, StepIs

\* A request that nobody contests keeps the entries it is about to itself.
LEMMA KeptToItself ==
  ASSUME StoreTypeOK, Alone, NEW w \in Workers, Step(w),
         NEW v \in Workers \ {w}, v \notin contested', NEW id \in About(req[v]),
         About(req[v]) \subseteq born
  PROVE  /\ req'[v] = req[v] /\ v \notin contested /\ id \notin About(req[w])
         /\ row'[id] = row[id] /\ fts'[id] = fts[id] /\ blob'[id] = blob[id]
  <1>1. req'[v] = req[v] /\ v \notin contested
    BY OthersStay
  <1>2. id \notin About(req[w])
    BY <1>1 DEF Alone
  <1>3. id \in born /\ id \in Ids
    BY DEF StoreTypeOK
  <1> QED  BY <1>1, <1>2, <1>3, OnlyItsOwn

LEMMA TxKept ==
  ASSUME StoreTypeOK, TxIsImport, NEW w \in Workers, Step(w)
  PROVE  TxIsImport' /\ tx' \in Workers \cup {None}
  <1>0. /\ req \in [Workers -> Request] /\ tx \in Workers \cup {None} /\ None \notin Workers
        /\ \A v \in Workers \ {w} : req'[v] = req[v]
    BY OthersStay, EntryAssumption DEF StoreTypeOK, EntryTypeOK
  <1>1. \A v \in Workers : tx = v <=> req[v].op = "import"
    BY DEF TxIsImport
  <1>2. CASE ImportBegin(w)
    <2>1. PICK writes : /\ req'[w] = [op |-> "import", writes |-> writes, done |-> 0]
                        /\ tx = None /\ tx' = w
      BY <1>2, ImportBegun
    <2>2. req'[w].op = "import"
      BY <2>1
    <2> QED  BY <1>0, <1>1, <2>1, <2>2 DEF TxIsImport
  <1>3. CASE Began(w) /\ ~ImportBegin(w)
    <2>1. req[w] = Idle
      BY <1>0, <1>3, BeganReq
    <2>2. tx' = tx /\ req'[w].op # "import"
      BY <1>3, BeganWith
    <2>3. tx # w
      BY <1>1, <2>1, IdleIsARequest
    <2> QED  BY <1>0, <1>1, <2>2, <2>3 DEF TxIsImport
  <1>4. CASE WentOn(w)
    <2>1. tx' = tx /\ req'[w].op = req[w].op
      BY <1>0, <1>4, WentOnReq
    <2> QED  BY <1>0, <1>1, <2>1 DEF TxIsImport
  <1>5. CASE Ended(w)
    <2>1. req'[w].op = "idle"
      BY <1>0, <1>5, EndedReq, IdleIsARequest
    <2>2. tx' = IF tx = w THEN None ELSE tx
      <3>1. CASE ImportCommit(w) \/ ImportFails(w)
        <4>1. req[w].op = "import" /\ tx' = None
          BY <3>1 DEF ImportCommit, ImportFails
        <4> QED  BY <1>1, <4>1
      <3>2. CASE Abort(w)
        BY <3>2 DEF Abort
      <3>3. CASE ~(ImportCommit(w) \/ ImportFails(w) \/ Abort(w))
        <4>1. tx' = tx /\ req[w].op # "import"
          BY <1>5, <3>3 DEF Ended, CreateCommit, CreateFails, UpdateCommit, UpdateFails, Assigned,
                            AssignCommit, AssignFails, DeleteRow, CompileCommit, CompileFails
        <4> QED  BY <1>1, <4>1
      <3> QED  BY <3>1, <3>2, <3>3
    <2> QED  BY <1>0, <1>1, <2>1, <2>2 DEF TxIsImport
  <1> QED  BY <1>2, <1>3, <1>4, <1>5, StepIs

-----------------------------------------------------------------------------
(* The rows.                                                               *)

\* The rows an import leaves: those it writes, each with its own path and text.
LEMMA ImportedRows ==
  ASSUME StoreTypeOK, ImportIsSound, NEW w \in Workers, ImportCommit(w),
         NEW i \in DOMAIN req[w].writes
  PROVE  LET x == req[w].writes[i] IN row'[x.id] = [path |-> x.path, text |-> x.text]
  <1> DEFINE r == req[w]
             x == r.writes[i]
             write == [id \in About(r) |-> CHOOSE y \in ToSet(r.writes) : y.id = id]
  <1>1. r \in Request /\ r.op = "import"
    BY DEF StoreTypeOK, ImportCommit
  <1>2. x \in Write /\ x.id \in About(r) /\ x.id \in Ids
    BY <1>1, WritesAreItsOwn, Kinds
  <1>3. row' = [id \in Ids |-> IF id \in About(r)
                               THEN [path |-> write[id].path, text |-> write[id].text]
                               ELSE row[id]]
    BY DEF ImportCommit
  <1>4. \A y \in ToSet(r.writes) : y.id = x.id => y = x
    <2>1. \A j \in DOMAIN r.writes : j # i => r.writes[j].id # x.id
      BY <1>1 DEF ImportIsSound
    <2> QED  BY <2>1 DEF ToSet
  <1>5. x \in ToSet(r.writes)
    BY DEF ToSet
  <1>6. write[x.id] = x
    <2> HIDE DEF x
    <2>1. write[x.id] = CHOOSE y \in ToSet(r.writes) : y.id = x.id
      BY <1>2
    <2> QED  BY <1>4, <1>5, <2>1
  <1> HIDE DEF x, write
  <1>7. row'[x.id] = [path |-> x.path, text |-> x.text]
    BY <1>2, <1>3, <1>6
  <1> QED  BY <1>7 DEF x

\* A row that a step changes is its request's, and is deleted, or well-formed with a path
\* of its own; and it was there before, unless its id was drawn for it.
LEMMA RowChanges ==
  ASSUME StoreTypeOK, ImportIsSound, NEW w \in Workers, Step(w),
         NEW id \in Ids, row'[id] # row[id]
  PROVE  /\ id \in About(req[w])
         /\ \/ row'[id] = None /\ DeleteRow(w)
            \/ /\ row'[id] \in Entry
               /\ Exists(id) \/ id \in Drawn(req[w])
               /\ \A i \in Ids \ {id} : row'[i] # None => row'[i].path # row'[id].path
  <1> DEFINE r == req[w]
  <1>1. row \in [Ids -> Entry \cup {None}] /\ r \in Request
    BY DEF StoreTypeOK
  <1>2. id \in About(r)
    BY OnlyItsOwn
  <1>3. r.op \in {"create", "update", "assign", "delete"} => About(r) = {r.id} /\ r.id \in Ids
    BY <1>1, Kinds
  <1>4. CASE CreateCommit(w)
    <2>1. r \in Creates /\ r.op = "create"
      BY <1>1, <1>4, Kinds DEF CreateCommit
    <2>2. r.id = id /\ r.path \in Path /\ r.text \in Texts
      BY <1>2, <1>3, <2>1, EntryAssumption DEF Creates, EntryPaths, Path
    <2>3. row' = [row EXCEPT ![id] = [path |-> r.path, text |-> r.text]] /\ PathFree(id, r.path)
      BY <1>4, <2>2 DEF CreateCommit
    <2>4. row'[id] = [path |-> r.path, text |-> r.text] /\ \A i \in Ids \ {id} : row'[i] = row[i]
      BY <1>1, <2>3
    <2>5. row'[id] \in Entry /\ row'[id].path = r.path
      BY <2>2, <2>4 DEF Entry
    <2>6. \A i \in Ids \ {id} : row'[i] # None => row'[i].path # r.path
      BY <2>3, <2>4 DEF PathFree, Exists
    <2>7. id \in Drawn(r)
      BY <2>1, <2>2 DEF Drawn
    <2> QED  BY <1>2, <2>5, <2>6, <2>7
  <1>5. CASE UpdateCommit(w)
    <2>1. r \in Updates /\ r.op = "update"
      BY <1>1, <1>5, Kinds DEF UpdateCommit
    <2>2. r.id = id /\ r.path \in Path /\ r.text \in Texts
      BY <1>2, <1>3, <2>1 DEF Updates
    <2>3. /\ row' = IF Exists(id) THEN [row EXCEPT ![id] = [path |-> r.path, text |-> r.text]]
                    ELSE row
          /\ CanUpdate(r)
      BY <1>5, <2>2 DEF UpdateCommit
    <2>4. Exists(id) /\ PathFree(id, r.path)
      BY <2>2, <2>3 DEF CanUpdate
    <2>5. row'[id] = [path |-> r.path, text |-> r.text] /\ \A i \in Ids \ {id} : row'[i] = row[i]
      BY <1>1, <2>3, <2>4
    <2>6. row'[id] \in Entry /\ row'[id].path = r.path
      BY <2>2, <2>5 DEF Entry
    <2>7. \A i \in Ids \ {id} : row'[i] # None => row'[i].path # r.path
      BY <2>4, <2>5 DEF PathFree, Exists
    <2> QED  BY <1>2, <2>4, <2>6, <2>7
  <1>6. CASE Assigned(w)
    <2>1. r \in Assigns /\ r.op = "assign"
      BY <1>1, <1>6, Kinds DEF Assigned, AssignCommit
    <2>2. r.id = id /\ r.dir \in Dirs
      BY <1>2, <1>3, <2>1 DEF Assigns
    <2>3. row' = Moved(r) /\ CanAssign(r)
      BY <1>6 DEF Assigned, AssignCommit
    <2>4. Exists(id) /\ row' = [row EXCEPT ![id].path.dir = r.dir]
      BY <2>2, <2>3 DEF Moved
    <2>5. row[id] \in Entry
      BY <1>1, <2>4 DEF Exists
    <2> DEFINE path == [row[id].path EXCEPT !.dir = r.dir]
    <2>6. row'[id] = [row[id] EXCEPT !.path = path] /\ \A i \in Ids \ {id} : row'[i] = row[i]
      BY <1>1, <2>4
    <2>7. path \in Path
      BY <2>2, <2>5 DEF Entry, Path
    <2>8. PathFree(id, path)
      BY <2>2, <2>3, <2>4 DEF CanAssign
    <2> HIDE DEF path
    <2>9. row'[id] \in Entry /\ row'[id].path = path
      BY <2>5, <2>6, <2>7 DEF Entry
    <2>10. \A i \in Ids \ {id} : row'[i] # None => row'[i].path # path
      BY <2>6, <2>8 DEF PathFree, Exists
    <2> QED  BY <1>2, <2>4, <2>9, <2>10
  <1>7. CASE DeleteRow(w)
    <2>1. r.id = id
      BY <1>2, <1>3, <1>7 DEF DeleteRow
    <2> QED  BY <1>1, <1>2, <1>7, <2>1 DEF DeleteRow
  <1>8. CASE ImportCommit(w)
    <2>1. r.op = "import"
      BY <1>8 DEF ImportCommit
    <2>2. PICK k \in DOMAIN r.writes : r.writes[k].id = id
      BY <1>1, <1>2, <2>1, Kinds
    <2> DEFINE x == r.writes[k]
    <2>3. x \in Write /\ row'[id] = [path |-> x.path, text |-> x.text]
      BY <1>1, <1>8, <2>1, <2>2, WritesAreItsOwn, ImportedRows
    <2>4. row'[id] \in Entry /\ row'[id].path = x.path
      BY <2>3 DEF Write, Entry
    <2>5. IF x.preexisting THEN Exists(id) /\ row[id].path = x.path
          ELSE \A i \in Ids : Exists(i) => row[i].path # x.path
      BY <2>1, <2>2 DEF ImportIsSound
    <2>6. Exists(id) \/ id \in Drawn(r)
      BY <2>1, <2>2, <2>5 DEF Drawn, Fresh
    <2>7. ASSUME NEW i \in Ids \ {id}, row'[i] # None
          PROVE  row'[i].path # x.path
      <3>1. CASE i \in About(r)
        <4>1. PICK l \in DOMAIN r.writes : r.writes[l].id = i
          BY <1>1, <2>1, <3>1, Kinds
        <4>2. row'[i] = [path |-> r.writes[l].path, text |-> r.writes[l].text]
          BY <1>8, <4>1, ImportedRows
        <4>3. r.writes[l].path # x.path
          BY <2>1, <2>2, <4>1 DEF ImportIsSound
        <4> QED  BY <4>2, <4>3
      <3>2. CASE i \notin About(r)
        <4>1. row'[i] = row[i] /\ Exists(i)
          BY <2>7, <3>2, OnlyItsOwn DEF Exists
        <4>2. x.preexisting => row[i].path # row[id].path
          BY <2>5, <4>1 DEF StoreTypeOK, EntryTypeOK
        <4> QED  BY <2>5, <4>1, <4>2
      <3> QED  BY <3>1, <3>2
    <2> QED  BY <1>2, <2>4, <2>6, <2>7
  <1> QED  BY <1>4, <1>5, <1>6, <1>7, <1>8, WhoWrites DEF RowWriters

LEMMA RowsTyped ==
  ASSUME StoreTypeOK, OwnsFresh, ImportIsSound, NEW w \in Workers, Step(w)
  PROVE  /\ row' \in [Ids -> Entry \cup {None}]
         /\ \A id \in Ids : row'[id] # None =>
               \A i \in Ids \ {id} : row'[i] # None => row'[i].path # row'[id].path
         /\ \A id \in Ids : row'[id] # None => id \in born'
  <1>0. row \in [Ids -> Entry \cup {None}]
    BY DEF StoreTypeOK
  <1>1. row' = [id \in Ids |-> row'[id]]
    <2>1. row' = row \/ RowWriters(w)
      BY WhoWrites
    <2>2. CreateCommit(w) \/ UpdateCommit(w) => row' = [id \in Ids |-> row'[id]]
      BY <1>0 DEF CreateCommit, UpdateCommit
    <2>3. Assigned(w) => row' = [id \in Ids |-> row'[id]]
      BY <1>0 DEF Assigned, AssignCommit, Moved
    <2>4. DeleteRow(w) \/ ImportCommit(w) => row' = [id \in Ids |-> row'[id]]
      BY <1>0 DEF DeleteRow, ImportCommit
    <2> QED  BY <1>0, <2>1, <2>2, <2>3, <2>4 DEF RowWriters
  <1>2. \A id \in Ids : row'[id] \in Entry \cup {None}
    BY <1>0, RowChanges
  <1>3. ASSUME NEW id \in Ids, row'[id] # None, NEW i \in Ids \ {id}, row'[i] # None
        PROVE  row'[i].path # row'[id].path
    <2>1. CASE row'[id] = row[id] /\ row'[i] = row[i]
      <3>1. Exists(id) /\ Exists(i)
        BY <1>3, <2>1 DEF Exists
      <3> QED  BY <2>1, <3>1 DEF StoreTypeOK, EntryTypeOK
    <2>2. CASE row'[id] # row[id]
      BY <1>3, <2>2, RowChanges
    <2>3. CASE row'[i] # row[i]
      BY <1>3, <2>3, RowChanges
    <2> QED  BY <2>1, <2>2, <2>3
  <1>4. ASSUME NEW id \in Ids, row'[id] # None
        PROVE  id \in born'
    <2>1. born \subseteq born' /\ About(req[w]) \subseteq born
      BY OthersStay DEF OwnsFresh
    <2>2. CASE row'[id] = row[id]
      BY <1>4, <2>1, <2>2 DEF StoreTypeOK, EntryTypeOK, Exists
    <2>3. CASE row'[id] # row[id]
      BY <2>1, <2>3, RowChanges
    <2> QED  BY <2>2, <2>3
  <1> QED  BY <1>1, <1>2, <1>3, <1>4

-----------------------------------------------------------------------------
(* The links.                                                              *)

LEMMA CompiledLinks ==
  ASSUME NEW rows, NEW text \in Texts
  PROVE  /\ Compiled(rows, text) \subseteq Link
         /\ \A l \in Compiled(rows, text) : l.entry = Resolve(rows, Split(l.to))
         /\ {l.to : l \in Compiled(rows, text)} = LinksOf[text]
  <1>1. LinksOf[text] \subseteq Spelling
    BY EntryAssumption
  <1> DEFINE link(s) == [to |-> s, entry |-> Resolve(rows, Split(s))]
  <1>2. \A s \in LinksOf[text] : link(s) \in Link
    <2>1. \A p : Resolve(rows, p) \in Ids \cup {None}
      BY ResolveFinds
    <2> QED  BY <1>1, <2>1 DEF Link
  <1>3. \A s : link(s).to = s /\ link(s).entry = Resolve(rows, Split(s))
    OBVIOUS
  <1> HIDE DEF link
  <1>4. Compiled(rows, text) = {link(s) : s \in LinksOf[text]}
    BY DEF Compiled, link
  <1> QED  BY <1>2, <1>3, <1>4

LEMMA ReresolvedLinks ==
  ASSUME NEW rows, NEW set \in SUBSET Link
  PROVE  /\ Reresolved(rows, set) \subseteq Link
         /\ \A l \in Reresolved(rows, set) : l \in set \/ l.entry = Resolve(rows, Split(l.to))
         /\ {l.to : l \in Reresolved(rows, set)} = {l.to : l \in set}
         /\ set = {} => Reresolved(rows, set) = {}
  <1> DEFINE new(l) == IF l.entry = None THEN [l EXCEPT !.entry = Resolve(rows, Split(l.to))]
                         ELSE l
  <1>1. ASSUME NEW l \in set
        PROVE  /\ new(l) \in Link /\ new(l).to = l.to
               /\ new(l) = l \/ new(l).entry = Resolve(rows, Split(l.to))
    <2>1. l \in Link
      OBVIOUS
    <2>2. Resolve(rows, Split(l.to)) \in Ids \cup {None}
      BY ResolveFinds
    <2> QED  BY <2>1, <2>2 DEF Link
  <1> HIDE DEF new
  <1>2. Reresolved(rows, set) = {new(l) : l \in set}
    BY DEF Reresolved, new
  <1>3. \A l \in Reresolved(rows, set) : l \in set \/ l.entry = Resolve(rows, Split(l.to))
    BY <1>1, <1>2
  <1> QED  BY <1>1, <1>2, <1>3

LEMMA RedirectedLinks ==
  ASSUME NEW r \in Assigns, NEW set \in SUBSET Link
  PROVE  /\ Redirected(r, set) \subseteq Link
         /\ \A l \in Redirected(r, set) :
               \/ l \in set /\ l.to # Join(r.old)
               \/ /\ l.to = Join([r.old EXCEPT !.dir = r.dir])
                  /\ \E k \in set : k.to = Join(r.old) /\ l.entry = k.entry
         /\ set = {} => Redirected(r, set) = {}
  <1> DEFINE new(l) == IF l.to = Join(r.old) THEN [l EXCEPT !.to.dir = JoinDir[r.dir]] ELSE l
  <1>0. /\ r.old \in Path /\ r.dir \in Dirs /\ JoinDir[r.dir] \in Spelt
        /\ JoinDir \in [Dirs -> Spelt]
    BY EntryAssumption DEF Assigns
  <1>1. ASSUME NEW l \in set
        PROVE  /\ new(l) \in Link /\ new(l).entry = l.entry
               /\ IF l.to = Join(r.old) THEN new(l).to = Join([r.old EXCEPT !.dir = r.dir])
                  ELSE new(l) = l
    <2>1. l \in Link
      OBVIOUS
    <2>2. CASE l.to = Join(r.old)
      <3>1. new(l) = [l EXCEPT !.to.dir = JoinDir[r.dir]]
        BY <2>2
      <3>2. new(l) \in Link /\ new(l).entry = l.entry
        BY <1>0, <2>1, <3>1 DEF Link, Spelling
      <3>3. new(l).to = [l.to EXCEPT !.dir = JoinDir[r.dir]]
        BY <2>1, <3>1 DEF Link
      <3>4. [Join(r.old) EXCEPT !.dir = JoinDir[r.dir]] = Join([r.old EXCEPT !.dir = r.dir])
        BY <1>0 DEF Join, Path
      <3> QED  BY <2>2, <3>2, <3>3, <3>4
    <2>3. CASE l.to # Join(r.old)
      BY <2>1, <2>3
    <2> QED  BY <2>2, <2>3
  <1> HIDE DEF new
  <1>2. Redirected(r, set) = {new(l) : l \in set}
    BY DEF Redirected, new
  <1> QED  BY <1>1, <1>2

\* What a step makes of the links of an entry: nothing, none, those of its text, those of
\* its text or its old ones resolved again, or its old ones redirected.
LEMMA LinksAfter ==
  ASSUME StoreTypeOK, ImportIsSound, NEW w \in Workers, Step(w), NEW id \in Ids
  PROVE  \/ links'[id] = links[id] /\ (id \in rewritten => id \in rewritten')
         \/ links'[id] = {} /\ row'[id] = None
         \/ \E text \in Texts :
               /\ links'[id] = Compiled(row', text)
               /\ row'[id] # None => text \in {row'[id].text, blob'[id]}
               /\ row'[id] # None \/ LinksOf[text] = {}
         \/ /\ ImportCommit(w)
            /\ \E set \in SUBSET Link :
                  /\ links'[id] = Reresolved(row', set)
                  /\ IF id \in About(req[w])
                     THEN /\ row'[id] # None
                          /\ set = Compiled(row', row'[id].text) /\ row'[id].text \in Texts
                     ELSE set = links[id] /\ (id \in rewritten => id \in rewritten')
         \/ /\ Assigned(w) /\ links'[id] = Redirected(req[w], links[id])
            /\ id \in rewritten \/ links'[id] # links[id] => id \in rewritten'
  <1> DEFINE r == req[w]
  <1>1. /\ links \in [Ids -> SUBSET Link] /\ r \in Request
        /\ row \in [Ids -> Entry \cup {None}] /\ blob \in [Ids -> Texts \cup {None}]
    BY DEF StoreTypeOK, EntryTypeOK
  <1>2. r.op \in {"create", "update", "assign", "delete"} => r.id \in Ids
    BY <1>1, Kinds
  <1>3. None \notin Texts /\ None \notin Entry
    BY EntryAssumption DEF Entry
  <1>4. CASE links' = links /\ ~RowWriters(w) /\ ~CompileCommit(w)
    <2>1. rewritten' = rewritten
      BY <1>4, StepIs DEF Began, WentOn, Ended, RowWriters, CreatePut, UpdateRead, AssignRead,
           DeleteRead, ImportBegin, CompileRead, UpdatePut, DeleteBody, DeleteIndex, ImportPut,
           CreateFails, UpdateFails, AssignFails, CompileFails, ImportFails, Abort, traces
    <2> QED  BY <1>4, <2>1
  <1>5. CASE CreateCommit(w)
    <2>1. /\ row' = [row EXCEPT ![r.id] = [path |-> r.path, text |-> r.text]]
          /\ links' = [links EXCEPT ![r.id] = Compiled(row', r.text)]
          /\ rewritten' = rewritten
      BY <1>5 DEF CreateCommit, traces
    <2>2. r.text \in Texts /\ r.path \in Path /\ r.op = "create"
      BY <1>1, <1>5, Kinds, EntryAssumption DEF CreateCommit, Creates, EntryPaths, Path
    <2>3. CASE id = r.id
      <3>1. row'[id] = [path |-> r.path, text |-> r.text] /\ links'[id] = Compiled(row', r.text)
        BY <1>1, <2>1, <2>3
      <3>2. row'[id] \in Entry /\ row'[id].text = r.text
        BY <2>2, <3>1 DEF Entry
      <3>3. row'[id] # None
        BY <1>3, <3>2
      <3> QED  BY <2>2, <3>1, <3>2, <3>3
    <2>4. CASE id # r.id
      BY <1>1, <2>1, <2>4
    <2> QED  BY <2>3, <2>4
  <1>6. CASE UpdateCommit(w)
    <2> DEFINE saved == IF r.body = "put" THEN {r.id} ELSE {}
    <2>1. /\ row' = IF Exists(r.id)
                    THEN [row EXCEPT ![r.id] = [path |-> r.path, text |-> r.text]] ELSE row
          /\ links' = [i \in Ids |-> IF i \in saved THEN Compiled(row', r.text) ELSE links[i]]
          /\ rewritten' = rewritten \ saved
          /\ r.body = "put" => CanLink(row, r.id, r.text)
      BY <1>6 DEF UpdateCommit, CanUpdate
    <2>2. r.text \in Texts /\ r.path \in Path /\ r.op = "update"
      BY <1>1, <1>6, Kinds DEF UpdateCommit, Updates
    <2>3. CASE id \in saved
      <3>1. id = r.id /\ r.body = "put"
        BY <2>3
      <3>2. links'[id] = Compiled(row', r.text)
        BY <2>1, <2>3
      <3>3. CASE Exists(id)
        <4>1. row'[id] = [path |-> r.path, text |-> r.text]
          BY <1>1, <2>1, <3>1, <3>3
        <4>2. row'[id] \in Entry /\ row'[id].text = r.text
          BY <2>2, <4>1 DEF Entry
        <4>3. row'[id] # None
          BY <1>3, <4>2
        <4> QED  BY <2>2, <3>2, <4>2, <4>3
      <3>4. CASE ~Exists(id)
        <4>1. row'[id] = None /\ LinksOf[r.text] = {}
          BY <2>1, <3>1, <3>4 DEF Exists, CanLink
        <4> QED  BY <2>2, <3>2, <4>1
      <3> QED  BY <3>3, <3>4
    <2>4. CASE id \notin saved
      <3>1. links'[id] = links[id] /\ (id \in rewritten => id \in rewritten')
        BY <2>1, <2>4
      <3> QED  BY <3>1
    <2> QED  BY <2>3, <2>4
  <1>7. CASE Assigned(w)
    <2>1. PICK fetched \in BOOLEAN : AssignCommit(w, fetched)
      BY <1>7 DEF Assigned
    <2> DEFINE mine == IF fetched THEN {r.id} ELSE {}
               redirected == [i \in Ids |-> Redirected(r, links[i])]
    <2>2. /\ row' = Moved(r) /\ blob' = blob
          /\ fetched => blob[r.id] # None /\ CanLink(row, r.id, blob[r.id])
          /\ links' = [i \in Ids |-> IF i \in mine THEN Compiled(Moved(r), blob[i])
                                     ELSE redirected[i]]
          /\ rewritten' = (rewritten \cup {i \in Ids : redirected[i] # links[i]}) \ mine
      BY <2>1 DEF AssignCommit
    <2>3. CASE id \in mine
      <3>1. id = r.id /\ blob[id] \in Texts /\ (row[id] # None \/ LinksOf[blob[id]] = {})
        BY <1>1, <2>2, <2>3 DEF CanLink
      <3>2. links'[id] = Compiled(row', blob'[id])
        BY <2>2, <2>3
      <3>3. row[id] # None => row'[id] # None
        <4> SUFFICES ASSUME row[id] # None PROVE row'[id] # None
          OBVIOUS
        <4>1. row' = [row EXCEPT ![id].path.dir = r.dir] /\ row[id] \in Entry /\ r.dir \in Dirs
          <5>1. r \in Assigns
            BY <1>1, <2>1, Kinds DEF AssignCommit
          <5> QED  BY <1>1, <2>2, <3>1, <5>1 DEF Moved, Exists, Assigns
        <4>2. row'[id] \in Entry
          BY <1>1, <4>1 DEF Entry, Path
        <4> QED  BY <1>3, <4>2
      <3> QED  BY <2>2, <3>1, <3>2, <3>3
    <2>4. CASE id \notin mine
      <3>1. links'[id] = redirected[id] /\ redirected[id] = Redirected(r, links[id])
        BY <2>2, <2>4
      <3>2. id \in rewritten \/ links'[id] # links[id] => id \in rewritten'
        <4> HIDE DEF redirected, mine
        <4> QED  BY <2>2, <2>4, <3>1
      <3> QED  BY <1>7, <3>1, <3>2
    <2> QED  BY <2>3, <2>4
  <1>8. CASE DeleteRow(w)
    <2>1. /\ row' = [row EXCEPT ![r.id] = None] /\ links' = [links EXCEPT ![r.id] = {}]
          /\ rewritten' = rewritten
      BY <1>8 DEF DeleteRow, traces
    <2>2. CASE id = r.id
      BY <1>1, <2>1, <2>2
    <2>3. CASE id # r.id
      BY <1>1, <2>1, <2>3
    <2> QED  BY <2>2, <2>3
  <1>9. CASE ImportCommit(w)
    <2> DEFINE write == [i \in About(r) |-> CHOOSE x \in ToSet(r.writes) : x.id = i]
               rows == [i \in Ids |-> IF i \in About(r)
                                      THEN [path |-> write[i].path, text |-> write[i].text]
                                      ELSE row[i]]
               compiled == [i \in Ids |-> IF i \in About(r) THEN Compiled(rows, write[i].text)
                                          ELSE links[i]]
    <2>1. /\ r.op = "import" /\ row' = rows
          /\ links' = [i \in Ids |-> Reresolved(rows, compiled[i])]
          /\ rewritten' = rewritten \ About(r)
      BY <1>9 DEF ImportCommit
    <2>2. links'[id] = Reresolved(row', compiled[id])
      BY <2>1
    <2>3. CASE id \in About(r)
      <3>1. PICK k \in DOMAIN r.writes : r.writes[k].id = id
        BY <1>1, <2>1, <2>3, Kinds
      <3> DEFINE x == r.writes[k]
      <3>2. x \in Write /\ row'[id] = [path |-> x.path, text |-> x.text]
        <4> HIDE DEF compiled, rows, write
        <4>1. x \in Write
          BY <1>1, <2>1, <3>1, WritesAreItsOwn
        <4>2. row'[x.id] = [path |-> x.path, text |-> x.text]
          BY <1>9, <3>1, ImportedRows
        <4> QED  BY <3>1, <4>1, <4>2
      <3>3. row'[id] \in Entry
        BY <3>2 DEF Write, Entry
      <3>4. row'[id] # None /\ row'[id].text \in Texts
        BY <1>3, <3>3 DEF Entry
      <3>5. row'[id].text = write[id].text
        <4>1. row'[id] = [path |-> write[id].path, text |-> write[id].text]
          BY <2>1, <2>3
        <4> QED  BY <4>1
      <3>6. compiled[id] = Compiled(row', row'[id].text)
        BY <2>1, <2>3, <3>5
      <3>7. compiled[id] \in SUBSET Link
        BY <3>4, <3>6, CompiledLinks
      <3> HIDE DEF compiled, rows, write
      <3> QED  BY <1>9, <2>2, <2>3, <3>4, <3>6, <3>7
    <2>4. CASE id \notin About(r)
      <3>1. compiled[id] = links[id] /\ links[id] \in SUBSET Link
        BY <1>1, <2>4
      <3>2. id \in rewritten => id \in rewritten'
        BY <2>1, <2>4
      <3> HIDE DEF compiled, rows, write
      <3> QED  BY <1>9, <2>2, <2>4, <3>1, <3>2
    <2> QED  BY <2>3, <2>4
  <1>10. CASE CompileCommit(w)
    <2>1. /\ links' = [i \in Ids |-> IF i \in r.ids THEN Compiled(row, blob[i]) ELSE links[i]]
          /\ rewritten' = rewritten \ r.ids /\ row' = row /\ blob' = blob
          /\ \A i \in r.ids : blob[i] # None /\ CanLink(row, i, blob[i])
      BY <1>10 DEF CompileCommit, CanCompile
    <2>2. CASE id \in r.ids
      <3>1. blob[id] \in Texts /\ (row[id] # None \/ LinksOf[blob[id]] = {})
        BY <1>1, <2>1, <2>2 DEF CanLink
      <3> QED  BY <2>1, <2>2, <3>1
    <2>3. CASE id \notin r.ids
      <3>1. links'[id] = links[id] /\ (id \in rewritten => id \in rewritten')
        BY <2>1, <2>3
      <3> QED  BY <3>1
    <2> QED  BY <2>2, <2>3
  <1> QED  BY <1>4, <1>5, <1>6, <1>7, <1>8, <1>9, <1>10, WhoWrites DEF RowWriters

LEMMA LinksTyped ==
  ASSUME StoreTypeOK, ImportIsSound, NEW w \in Workers, Step(w)
  PROVE  /\ links' \in [Ids -> SUBSET Link]
         /\ \A id \in Ids : links'[id] # {} => row'[id] # None
  <1>0. links \in [Ids -> SUBSET Link] /\ row \in [Ids -> Entry \cup {None}]
    BY DEF StoreTypeOK
  <1>1. links' = [id \in Ids |-> links'[id]]
    <2>1. links' = links \/ RowWriters(w) \/ CompileCommit(w)
      BY WhoWrites
    <2>2. CreateCommit(w) \/ UpdateCommit(w) \/ DeleteRow(w) => links' = [id \in Ids |-> links'[id]]
      BY <1>0 DEF CreateCommit, UpdateCommit, DeleteRow
    <2>3. Assigned(w) \/ CompileCommit(w) => links' = [id \in Ids |-> links'[id]]
      BY <1>0 DEF Assigned, AssignCommit, CompileCommit
    <2>4. ImportCommit(w) => links' = [id \in Ids |-> links'[id]]
      BY <1>0 DEF ImportCommit
    <2> QED  BY <1>0, <2>1, <2>2, <2>3, <2>4 DEF RowWriters
  <1>2. ASSUME NEW id \in Ids
        PROVE  links'[id] \in SUBSET Link /\ (links'[id] # {} => row'[id] # None)
    <2>1. links[id] \in SUBSET Link /\ (links[id] # {} => row[id] # None)
      BY <1>0 DEF StoreTypeOK, EntryTypeOK, Exists
    <2>2. row[id] # None => row'[id] # None \/ DeleteRow(w)
      <3>1. CASE row'[id] = row[id]
        BY <3>1
      <3>2. CASE row'[id] # row[id]
        <4>1. None \notin Entry
          BY EntryAssumption DEF Entry
        <4> QED  BY <3>2, <4>1, RowChanges
      <3> QED  BY <3>1, <3>2
    <2>3. CASE row[id] # None /\ row'[id] = None
      <3>1. DeleteRow(w)
        BY <2>2, <2>3
      <3>2. id = req[w].id
        BY <1>0, <2>3, <3>1 DEF DeleteRow
      <3>3. links'[id] = {}
        BY <1>0, <3>1, <3>2 DEF DeleteRow
      <3> QED  BY <3>3
    <2>4. CASE row[id] # None => row'[id] # None
      <3>1. CASE links'[id] = links[id]
        BY <2>1, <2>4, <3>1
      <3>2. CASE links'[id] = {}
        BY <3>2
      <3>3. ASSUME NEW text \in Texts, links'[id] = Compiled(row', text),
                   row'[id] # None \/ LinksOf[text] = {}
            PROVE  links'[id] \in SUBSET Link /\ (links'[id] # {} => row'[id] # None)
        <4>1. Compiled(row', text) \subseteq Link
          BY CompiledLinks
        <4>2. LinksOf[text] = {} => Compiled(row', text) = {}
          BY DEF Compiled
        <4> QED  BY <3>3, <4>1, <4>2
      <3>4. ASSUME NEW set \in SUBSET Link, links'[id] = Reresolved(row', set),
                   row'[id] # None \/ set = links[id]
            PROVE  links'[id] \in SUBSET Link /\ (links'[id] # {} => row'[id] # None)
        BY <2>1, <2>4, <3>4, ReresolvedLinks
      <3>5. CASE Assigned(w) /\ links'[id] = Redirected(req[w], links[id])
        <4>1. req[w] \in Assigns
          BY <3>5, Kinds DEF Assigned, AssignCommit, StoreTypeOK
        <4>2. /\ Redirected(req[w], links[id]) \subseteq Link
              /\ links[id] = {} => Redirected(req[w], links[id]) = {}
          BY <2>1, <4>1, RedirectedLinks
        <4> QED  BY <2>1, <2>4, <3>5, <4>2
      <3> QED  BY <3>1, <3>2, <3>3, <3>4, <3>5, LinksAfter
    <2> QED  BY <2>3, <2>4
  <1> QED  BY <1>1, <1>2

-----------------------------------------------------------------------------
(* The types.                                                              *)

LEMMA BodiesTyped ==
  ASSUME StoreTypeOK, NEW w \in Workers, Step(w)
  PROVE  fts' \in [Ids -> Texts \cup {None}] /\ blob' \in [Ids -> Texts \cup {None}]
  <1> DEFINE r == req[w]
             T == Texts \cup {None}
  <1>1. r \in Request /\ fts \in [Ids -> T] /\ blob \in [Ids -> T]
    BY DEF StoreTypeOK, EntryTypeOK
  <1>2. fts' \in [Ids -> T]
    <2>1. CASE CreateCommit(w) \/ UpdateCommit(w)
      <3>1. r.text \in Texts
        BY <1>1, <2>1, Kinds DEF CreateCommit, UpdateCommit, Creates, Updates
      <3> QED  BY <1>1, <2>1, <3>1 DEF CreateCommit, UpdateCommit, Indexed
    <2>2. CASE DeleteIndex(w)
      BY <1>1, <2>2 DEF DeleteIndex
    <2> QED  BY <1>1, <2>1, <2>2, WhoWrites
  <1>3. blob' \in [Ids -> T]
    <2>1. CASE CreatePut(w)
      BY <1>1, <2>1 DEF CreatePut
    <2>2. CASE CreateFails(w) \/ DeleteBody(w)
      BY <1>1, <2>2 DEF CreateFails, DeleteBody
    <2>3. CASE UpdatePut(w)
      <3>1. r.text \in Texts
        BY <1>1, <2>3, Kinds DEF UpdatePut, Updates
      <3> QED  BY <1>1, <2>3, <3>1 DEF UpdatePut
    <2>4. CASE ImportPut(w)
      <3>1. r.op = "import" /\ r.done < Len(r.writes)
            /\ blob' = [blob EXCEPT ![r.writes[r.done + 1].id] = r.writes[r.done + 1].text]
        BY <2>4 DEF ImportPut
      <3>2. r.done + 1 \in DOMAIN r.writes
        BY <1>1, <3>1, WritesAreItsOwn
      <3>3. r.writes[r.done + 1] \in Write
        BY <1>1, <3>1, <3>2, WritesAreItsOwn
      <3>4. r.writes[r.done + 1].text \in Texts
        BY <3>3 DEF Write
      <3> QED  BY <1>1, <3>1, <3>4
    <2>5. CASE ImportFails(w)
      BY <1>1, <2>5 DEF ImportFails
    <2> QED  BY <1>1, <2>1, <2>2, <2>3, <2>4, <2>5, WhoWrites DEF BlobWriters
  <1> QED  BY <1>2, <1>3

\* An answered request marks its own entries only, except that it rewrites links of others.
LEMMA TornIsItsOwn ==
  ASSUME NEW r \in Request, r.op = "import" => r.done <= Len(r.writes)
  PROVE  Torn(r) \subseteq About(r) /\ (r.op = "import" => Torn(r) = Overwritten(r))
  <1>1. r.op = "import" => Torn(r) = Overwritten(r)
    BY DEF Torn
  <1>2. r.op = "import" => Overwritten(r) \subseteq About(r)
    <2> SUFFICES ASSUME r.op = "import", NEW i \in 1 .. r.done
                 PROVE  r.writes[i].id \in About(r)
      BY DEF Overwritten
    <2>1. i \in DOMAIN r.writes
      BY WritesAreItsOwn
    <2> QED  BY <2>1, WritesAreItsOwn
  <1>3. r.op \in {"update", "delete"} => Torn(r) \subseteq {r.id} /\ About(r) = {r.id}
    BY DEF Torn, About
  <1>4. r.op \notin {"update", "delete", "import"} => Torn(r) = {}
    BY DEF Torn
  <1> QED  BY <1>1, <1>2, <1>3, <1>4

LEMMA EndedMarks ==
  ASSUME StoreTypeOK, ImportIsSound, NEW w \in Workers, Ended(w)
  PROVE  LET r == req[w]
         IN /\ disturbed' \subseteq disturbed \cup About(r) /\ disturbed \subseteq disturbed' \cup About(r)
            /\ imported' \subseteq imported \cup About(r) /\ imported \subseteq imported' \cup About(r)
            /\ strayed' \cup rewritten' \subseteq Ids
            /\ w \in contested => About(r) \subseteq disturbed'
            /\ w \notin contested /\ (UpdateFails(w) \/ ImportFails(w) \/ Abort(w))
                  => Torn(r) \subseteq disturbed'
            /\ \/ CreateCommit(w) \/ (UpdateCommit(w) /\ r.body = "put") \/ ImportCommit(w)
               \/ imported' = imported /\ (w \notin contested => disturbed \subseteq disturbed')
  <1> DEFINE r == req[w]
  <1>1. /\ r \in Request /\ About(r) \subseteq Ids
        /\ disturbed \cup strayed \cup doomed \cup rewritten \cup imported \subseteq Ids
        /\ r.op = "import" => r.done <= Len(r.writes)
    BY Kinds DEF StoreTypeOK, EntryTypeOK, ImportIsSound
  <1>2. r.op \in {"create", "update", "assign", "delete"} => About(r) = {r.id}
    BY <1>1, Kinds
  <1>3. Torn(r) \subseteq About(r) /\ (r.op = "import" => Torn(r) = Overwritten(r))
    BY <1>1, TornIsItsOwn
  <1>4. ASSUME NEW settled \in SUBSET About(r), NEW spoilt \in SUBSET About(r), End(w, settled, spoilt)
        PROVE  /\ disturbed' \subseteq disturbed \cup About(r)
               /\ disturbed \subseteq disturbed' \cup About(r)
               /\ w \in contested => About(r) \subseteq disturbed'
               /\ w \notin contested => disturbed' = (disturbed \ settled) \cup spoilt
    BY <1>4 DEF End
  <1>5. {} \in SUBSET About(r)
    OBVIOUS
  <1>6. \E settled, spoilt \in SUBSET About(r) : End(w, settled, spoilt)
    <2>1. CASE CreateCommit(w)
      <3>1. End(w, {r.id}, {}) /\ {r.id} \in SUBSET About(r)
        BY <1>2, <2>1 DEF CreateCommit
      <3> QED  BY <1>5, <3>1
    <2>2. CASE UpdateCommit(w)
      <3>1. PICK saved \in SUBSET {r.id} : End(w, saved, {})
        BY <2>2 DEF UpdateCommit
      <3>2. saved \in SUBSET About(r)
        BY <1>2, <2>2 DEF UpdateCommit
      <3> QED  BY <1>5, <3>1, <3>2
    <2>3. CASE UpdateFails(w)
      <3>1. PICK spoilt \in SUBSET {r.id} : End(w, {}, spoilt)
        BY <2>3 DEF UpdateFails
      <3>2. spoilt \in SUBSET About(r)
        BY <1>2, <2>3 DEF UpdateFails
      <3> QED  BY <1>5, <3>1, <3>2
    <2>4. CASE ImportCommit(w)
      <3>1. End(w, About(r), {}) /\ About(r) \in SUBSET About(r)
        BY <2>4 DEF ImportCommit
      <3> QED  BY <1>5, <3>1
    <2>5. CASE ImportFails(w)
      <3>1. End(w, {}, Overwritten(r)) /\ Overwritten(r) \in SUBSET About(r)
        BY <1>3, <2>5 DEF ImportFails
      <3> QED  BY <1>5, <3>1
    <2>6. CASE Abort(w)
      <3>1. End(w, {}, Torn(r)) /\ Torn(r) \in SUBSET About(r)
        BY <1>3, <2>6 DEF Abort
      <3> QED  BY <1>5, <3>1
    <2>7. CASE CreateFails(w) \/ Assigned(w) \/ AssignFails(w) \/ DeleteRow(w)
               \/ CompileCommit(w) \/ CompileFails(w)
      <3>1. End(w, {}, {})
        BY <2>7 DEF CreateFails, Assigned, AssignCommit, AssignFails, DeleteRow, CompileCommit,
                    CompileFails
      <3> QED  BY <1>5, <3>1
    <2> QED  BY <2>1, <2>2, <2>3, <2>4, <2>5, <2>6, <2>7 DEF Ended
  <1>7. /\ disturbed' \subseteq disturbed \cup About(r) /\ disturbed \subseteq disturbed' \cup About(r)
        /\ w \in contested => About(r) \subseteq disturbed'
    <2> HIDE DEF r
    <2> QED  BY <1>4, <1>6
  <1>8. ASSUME w \notin contested, UpdateFails(w) \/ ImportFails(w) \/ Abort(w)
        PROVE  Torn(r) \subseteq disturbed'
    <2>1. UpdateFails(w) => End(w, {}, Torn(r))
      <3>1. UpdateFails(w) => Torn(r) = IF r.body = "put" THEN {r.id} ELSE {}
        BY DEF UpdateFails, Torn
      <3> QED  BY <3>1 DEF UpdateFails
    <2>2. ImportFails(w) => End(w, {}, Torn(r))
      BY <1>3 DEF ImportFails
    <2>3. Abort(w) => End(w, {}, Torn(r))
      BY DEF Abort
    <2>4. End(w, {}, Torn(r))
      BY <1>8, <2>1, <2>2, <2>3
    <2>5. disturbed' = (disturbed \ {}) \cup Torn(r)
      <3> HIDE DEF r
      <3> QED  BY <1>3, <1>4, <1>5, <1>8, <2>4
    <2> QED  BY <2>5
  <1>9. ASSUME ~(CreateCommit(w) \/ (UpdateCommit(w) /\ r.body = "put") \/ ImportCommit(w))
        PROVE  imported' = imported /\ (w \notin contested => disturbed \subseteq disturbed')
    <2>1. CASE UpdateCommit(w)
      <3>1. r.body # "put"
        BY <1>9, <2>1
      <3>2. End(w, {}, {}) /\ imported' = imported
        BY <2>1, <3>1 DEF UpdateCommit
      <3> QED  BY <1>4, <1>5, <3>2
    <2>2. CASE ~UpdateCommit(w)
      <3>1. imported' = imported
        BY <1>9, <2>2 DEF Ended, CreateFails, UpdateFails, Assigned, AssignCommit, AssignFails,
              DeleteRow, CompileCommit, CompileFails, ImportFails, Abort, traces
      <3>2. \E spoilt : End(w, {}, spoilt)
        BY <1>9, <2>2 DEF Ended, CreateFails, UpdateFails, Assigned, AssignCommit, AssignFails,
              DeleteRow, CompileCommit, CompileFails, ImportFails, Abort
      <3> QED  BY <3>1, <3>2 DEF End
    <2> QED  BY <2>1, <2>2
  <1>10. /\ imported' \subseteq imported \cup About(r) /\ imported \subseteq imported' \cup About(r)
    <2>1. UpdateCommit(w) => About(r) = {r.id} /\ imported' \in {imported, imported \ {r.id}}
      BY <1>2 DEF UpdateCommit
    <2>2. ImportCommit(w) => imported' = imported \cup About(r)
      BY DEF ImportCommit
    <2>3. CreateCommit(w) => imported' = imported
      BY DEF CreateCommit, traces
    <2> QED  BY <1>9, <2>1, <2>2, <2>3
  <1>11. strayed' \cup rewritten' \subseteq Ids
    <2>1. CASE Assigned(w)
      <3>1. r.id \in Ids
        BY <1>1, <2>1, Kinds DEF Assigned, AssignCommit
      <3>2. Bereft(r) \subseteq Ids
        <4>1. links \in [Ids -> SUBSET Link]
          BY DEF StoreTypeOK
        <4>2. UNION Range(links) \subseteq Link
          BY <4>1 DEF Range
        <4> QED  BY <4>2 DEF Bereft, Link
      <3> QED  BY <1>1, <2>1, <3>1, <3>2 DEF Assigned, AssignCommit
    <2>2. CASE UpdateCommit(w)
      <3>1. r.id \in Ids
        BY <1>1, <2>2, Kinds DEF UpdateCommit
      <3> QED  BY <1>1, <2>2, <3>1 DEF UpdateCommit
    <2>3. CASE ~Assigned(w) /\ ~UpdateCommit(w)
      BY <1>1, <2>3 DEF Ended, CreateCommit, CreateFails, UpdateFails, AssignFails, DeleteRow,
           ImportCommit, CompileCommit, CompileFails, ImportFails, Abort, traces
    <2> QED  BY <2>1, <2>2, <2>3
  <1> QED  BY <1>7, <1>8, <1>9, <1>10, <1>11

LEMMA GhostsTyped ==
  ASSUME StoreTypeOK, ImportIsSound, NEW w \in Workers, Step(w)
  PROVE  /\ disturbed' \cup strayed' \cup doomed' \cup rewritten' \cup imported' \subseteq Ids
         /\ contested' \subseteq {v \in Workers : About(req'[v]) # {}}
         /\ begun' \in 0 .. MaxRequests /\ born' \subseteq Ids
  <1> DEFINE r == req[w]
  <1>0. /\ req \in [Workers -> Request] /\ born \subseteq Ids /\ begun \in 0 .. MaxRequests
        /\ contested \subseteq {v \in Workers : About(req[v]) # {}}
        /\ disturbed \cup strayed \cup doomed \cup rewritten \cup imported \subseteq Ids
        /\ MaxRequests \in Nat
    BY EntryAssumption DEF StoreTypeOK, EntryTypeOK
  <1>1. CASE Began(w)
    <2>1. /\ \A v \in Workers \ {w} : req'[v] = req[v]
          /\ req[w] = Idle
          /\ LET rivals == Rivals(w, About(req'[w]))
             IN contested' = contested \cup rivals \cup (IF rivals = {} THEN {} ELSE {w})
          /\ begun < MaxRequests /\ begun' = begun + 1
      BY <1>0, <1>1, BeganReq
    <2>2. contested' \subseteq {v \in Workers : About(req'[v]) # {}}
      <3>1. w \notin contested
        BY <1>0, <2>1, IdleIsARequest
      <3>2. \A v \in Rivals(w, About(req'[w])) :
               v \in Workers \ {w} /\ About(req[v]) # {} /\ About(req'[w]) # {}
        BY DEF Rivals
      <3> QED  BY <1>0, <2>1, <3>1, <3>2
    <2>3. begun' \in 0 .. MaxRequests
      BY <1>0, <2>1
    <2> QED  BY <1>0, <1>1, <2>2, <2>3, BeganWith
  <1>2. CASE WentOn(w)
    <2>1. /\ \A v \in Workers \ {w} : req'[v] = req[v]
          /\ About(req'[w]) = About(req[w])
          /\ UNCHANGED <<begun, contested, disturbed, traces, born>>
      BY <1>0, <1>2, WentOnReq
    <2> QED  BY <1>0, <2>1 DEF traces
  <1>3. CASE Ended(w)
    <2>1. /\ \A v \in Workers \ {w} : req'[v] = req[v]
          /\ contested' = contested \ {w}
          /\ begun' = begun /\ born' = born /\ doomed' = doomed
      BY <1>0, <1>3, EndedReq
    <2>2. contested' \subseteq {v \in Workers : About(req'[v]) # {}}
      BY <1>0, <2>1
    <2>3. About(r) \subseteq Ids
      BY <1>0, Kinds
    <2> HIDE DEF r
    <2>4. /\ disturbed' \subseteq disturbed \cup About(r) /\ imported' \subseteq imported \cup About(r)
          /\ strayed' \cup rewritten' \subseteq Ids
      BY <1>3, EndedMarks DEF r
    <2> QED  BY <1>0, <2>1, <2>2, <2>3, <2>4
  <1> QED  BY <1>1, <1>2, <1>3, StepIs

LEMMA TypesKept ==
  ASSUME StoreTypeOK, TxIsImport, OwnsFresh, ImportIsSound, NEW w \in Workers, Step(w)
  PROVE  StoreTypeOK'
  <1>1. /\ row' \in [Ids -> Entry \cup {None}]
        /\ \A id \in Ids : row'[id] # None =>
              \A i \in Ids \ {id} : row'[i] # None => row'[i].path # row'[id].path
        /\ \A id \in Ids : row'[id] # None => id \in born'
    BY RowsTyped
  <1>2. /\ links' \in [Ids -> SUBSET Link]
        /\ \A id \in Ids : links'[id] # {} => row'[id] # None
    BY LinksTyped
  <1>3. fts' \in [Ids -> Texts \cup {None}] /\ blob' \in [Ids -> Texts \cup {None}]
    BY BodiesTyped
  <1>4. /\ disturbed' \cup strayed' \cup doomed' \cup rewritten' \cup imported' \subseteq Ids
        /\ contested' \subseteq {v \in Workers : About(req'[v]) # {}}
        /\ begun' \in 0 .. MaxRequests /\ born' \subseteq Ids
    BY GhostsTyped
  <1>5. req' \in [Workers -> Request] /\ tx' \in Workers \cup {None}
    BY OthersStay, TxKept
  <1>6. \A id \in Ids : row'[id] # None => row'[id] \in [path : Path, text : Texts]
    BY <1>1 DEF Entry
  <1> QED  BY <1>1, <1>2, <1>3, <1>4, <1>5, <1>6 DEF StoreTypeOK, EntryTypeOK, Exists

-----------------------------------------------------------------------------
(* Drawn ids, the writes of an import, and what was put and read.          *)

LEMMA DrawnIsItsOwn ==
  ASSUME NEW r \in Request
  PROVE  Drawn(r) \subseteq About(r)
  <1>1. r.op = "create" => Drawn(r) = {r.id} /\ About(r) = {r.id}
    BY Kinds DEF Drawn
  <1>2. r.op = "import" => Drawn(r) = Fresh(r) /\ Fresh(r) \subseteq About(r)
    BY WritesAreItsOwn DEF Drawn
  <1>3. r.op \notin {"create", "import"} => Drawn(r) = {}
    BY DEF Drawn
  <1> QED  BY <1>1, <1>2, <1>3

LEMMA DrawnIdle == Drawn(Idle) = {} /\ About(Idle) = {} /\ Torn(Idle) = {}
  BY DEF Drawn, About, Torn, Idle

LEMMA OwnsKept ==
  ASSUME StoreTypeOK, OwnsFresh, ImportIsSound, NEW w \in Workers, Step(w)
  PROVE  OwnsFresh'
  <1>0. /\ req \in [Workers -> Request] /\ born \subseteq Ids
        /\ \A v \in Workers \ {w} : req'[v] = req[v]
        /\ born \subseteq born'
        /\ {id \in Ids : Exists(id)} \subseteq born
    BY OthersStay DEF StoreTypeOK, EntryTypeOK
  \* What the worker itself is about afterwards was its own before, or has a row, or is new.
  <1>1. /\ About(req'[w]) \subseteq born'
        /\ \A id \in About(req'[w]) :
              id \in About(req[w]) \/ (id \in born => Exists(id))
        /\ \A id \in Drawn(req'[w]) :
              row' = row /\ (id \in Drawn(req[w]) \/ id \notin born)
    <2>1. CASE Began(w)
      BY <1>0, <2>1, BeganWith, BeganReq
    <2>2. CASE WentOn(w)
      <3>1. About(req'[w]) = About(req[w]) /\ row' = row /\ born' = born
        BY <1>0, <2>2, WentOnReq
      <3>2. Drawn(req'[w]) = Drawn(req[w])
        <4>1. CASE UpdatePut(w) \/ DeleteBody(w) \/ DeleteIndex(w)
          <5>1. req[w].op \in {"update", "delete"} /\ req'[w].op = req[w].op
            BY <1>0, <2>2, <4>1, WentOnReq DEF UpdatePut, DeleteBody, DeleteIndex
          <5> QED  BY <5>1 DEF Drawn
        <4>2. CASE ImportPut(w)
          <5>1. /\ req[w].op = "import"
                /\ req'[w] = [req[w] EXCEPT !.done = req[w].done + 1]
            BY <1>0, <4>2 DEF ImportPut, Continue
          <5>2. req[w] \in Imports
            BY <1>0, <5>1, Kinds
          <5>3. req'[w].op = "import" /\ req'[w].writes = req[w].writes
            BY <5>1, <5>2 DEF Imports
          <5> QED  BY <5>1, <5>3 DEF Drawn, Fresh
        <4> QED  BY <2>2, <4>1, <4>2 DEF WentOn
      <3> QED  BY <3>1, <3>2, <1>0 DEF OwnsFresh
    <2>3. CASE Ended(w)
      BY <1>0, <2>3, EndedReq, DrawnIdle
    <2> QED  BY <2>1, <2>2, <2>3, StepIs
  <1>2. ASSUME NEW v \in Workers
        PROVE  About(req'[v]) \subseteq born'
    BY <1>0, <1>1 DEF OwnsFresh
  <1>3. ASSUME NEW id \in Drawn(req'[w])
        PROVE  row'[id] = None /\ \A v \in Workers \ {w} : id \notin About(req'[v])
    <2>1. id \in Ids
      <3>1. req'[w] \in Request
        BY OthersStay
      <3> QED  BY <3>1, DrawnIsItsOwn, Kinds
    <2>2. CASE id \in Drawn(req[w]) /\ row' = row
      BY <1>0, <2>2 DEF OwnsFresh, Exists
    <2>3. CASE id \notin born /\ row' = row
      <3>1. row[id] = None
        BY <1>0, <2>1, <2>3 DEF Exists
      <3> QED  BY <1>0, <2>3, <3>1 DEF OwnsFresh
    <2> QED  BY <1>1, <1>3, <2>2, <2>3
  <1>4. ASSUME NEW u \in Workers \ {w}, NEW id \in Drawn(req[u])
        PROVE  row'[id] = None /\ \A v \in Workers \ {u} : id \notin About(req'[v])
    <2>1. /\ ~Exists(id) /\ \A v \in Workers \ {u} : id \notin About(req[v])
          /\ id \in About(req[u]) /\ id \in born /\ id \in Ids
      BY <1>0, DrawnIsItsOwn DEF OwnsFresh
    <2>2. id \notin About(req[w]) /\ id \notin About(req'[w])
      BY <1>1, <2>1
    <2>3. row'[id] = row[id]
      BY <2>1, <2>2, OnlyItsOwn
    <2> QED  BY <1>0, <2>1, <2>2, <2>3 DEF Exists
  <1> QED  BY <1>0, <1>2, <1>3, <1>4 DEF OwnsFresh, Exists

LEMMA SoundKept ==
  ASSUME StoreTypeOK, TxIsImport, ImportIsSound, NEW w \in Workers, Step(w)
  PROVE  ImportIsSound'
  <1>0. /\ req \in [Workers -> Request]
        /\ \A v \in Workers \ {w} : req'[v] = req[v]
        /\ None \notin Workers
    BY OthersStay, EntryAssumption DEF StoreTypeOK
  <1> DEFINE Sound(r) ==
                /\ r.done <= Len(r.writes)
                /\ \A i, j \in DOMAIN r.writes :
                      i # j => r.writes[i].id # r.writes[j].id /\ r.writes[i].path # r.writes[j].path
                /\ \A i \in DOMAIN r.writes :
                      IF r.writes[i].preexisting
                      THEN Exists(r.writes[i].id) /\ row[r.writes[i].id].path = r.writes[i].path
                      ELSE \A id \in Ids : Exists(id) => row[id].path # r.writes[i].path
  <1>1. ASSUME NEW v \in Workers \ {w}, req'[v].op = "import"
        PROVE  row' = row /\ Sound(req'[v])
    <2>1. req[v].op = "import" /\ tx = v
      BY <1>0, <1>1 DEF TxIsImport
    <2>2. row' = row
      BY <1>0, <2>1, RowsHeld
    <2> QED  BY <1>0, <2>1, <2>2 DEF ImportIsSound
  <1>2. ASSUME req'[w].op = "import"
        PROVE  row' = row /\ Sound(req'[w])
    <2>1. CASE Began(w)
      <3>1. ImportBegin(w)
        BY <1>2, <2>1, BeganWith
      <3>2. row' = row
        BY <1>0, <2>1, BeganReq
      <3>3. PICK writes \in Seq(Write) :
              /\ req'[w] = [op |-> "import", writes |-> writes, done |-> 0]
              /\ \A k \in DOMAIN writes :
                    IF writes[k].preexisting
                    THEN Exists(writes[k].id) /\ row[writes[k].id].path = writes[k].path
                    ELSE \A id \in Ids : Exists(id) => row[id].path # writes[k].path
              /\ \A k, l \in DOMAIN writes :
                    k # l => writes[k].id # writes[l].id /\ writes[k].path # writes[l].path
        <4>1. PICK writes \in Seq(Write) :
                /\ req'[w] = [op |-> "import", writes |-> writes, done |-> 0]
                /\ \A k \in DOMAIN writes :
                      IF writes[k].preexisting
                      THEN Exists(writes[k].id) /\ row[writes[k].id].path = writes[k].path
                      ELSE /\ writes[k].id \in Ids \ born
                           /\ \A id \in Ids : Exists(id) => row[id].path # writes[k].path
                /\ \A k, l \in DOMAIN writes :
                      k # l => writes[k].id # writes[l].id /\ writes[k].path # writes[l].path
          BY <3>1, ImportBegun, Zenon
        <4> QED  BY <4>1, Zenon
      <3>4. req'[w].writes = writes /\ req'[w].done = 0 /\ Len(writes) \in Nat
        BY <3>3
      <3>5. 0 <= Len(writes)
        BY <3>4
      <3> QED  BY <3>2, <3>3, <3>4, <3>5
    <2>2. CASE WentOn(w)
      <3>1. req[w].op = "import" /\ row' = row
        BY <1>0, <1>2, <2>2, WentOnReq
      <3>2. /\ req[w].done < Len(req[w].writes)
            /\ req'[w] = [req[w] EXCEPT !.done = req[w].done + 1]
        BY <1>0, <2>2, <3>1 DEF WentOn, UpdatePut, DeleteBody, DeleteIndex, ImportPut, Continue
      <3>3. req[w] \in Imports
        BY <1>0, <3>1, Kinds
      <3>4. req'[w].writes = req[w].writes /\ req'[w].done = req[w].done + 1
        BY <3>2, <3>3 DEF Imports
      <3>5. req[w].done \in Nat /\ Len(req[w].writes) \in Nat
        BY <1>0, <3>1, WritesAreItsOwn
      <3>6. req'[w].done <= Len(req'[w].writes)
        BY <3>2, <3>4, <3>5
      <3> QED  BY <3>1, <3>4, <3>6 DEF ImportIsSound
    <2>3. CASE Ended(w)
      BY <1>0, <1>2, <2>3, EndedReq, IdleIsARequest
    <2> QED  BY <2>1, <2>2, <2>3, StepIs
  <1> SUFFICES ASSUME NEW v \in Workers, req'[v].op = "import"
               PROVE  row' = row /\ Sound(req'[v])
    <2> DEFINE Holds(v) == row' = row /\ Sound(req'[v])
    <2> SUFFICES ASSUME \A v \in Workers : req'[v].op = "import" => Holds(v) PROVE ImportIsSound'
      OBVIOUS
    <2>1. ASSUME NEW v \in Workers, req'[v].op = "import"
          PROVE  row' = row /\ Sound(req'[v])
      BY <2>1
    <2> QED  BY <2>1 DEF ImportIsSound, Exists
  <1> QED  BY <1>1, <1>2

LEMMA DeletesKept ==
  ASSUME StoreTypeOK, DeletesAreDoomed, NEW w \in Workers, Step(w)
  PROVE  DeletesAreDoomed'
  <1>0. /\ req \in [Workers -> Request]
        /\ \A v \in Workers \ {w} : req'[v] = req[v]
        /\ doomed \subseteq doomed'
    BY OthersStay DEF StoreTypeOK
  <1>1. req'[w].op = "delete" => req'[w].id \in doomed'
    <2>1. CASE Began(w)
      BY <1>0, <2>1, BeganWith DEF About
    <2>2. CASE WentOn(w)
      <3>1. req'[w].op = req[w].op /\ About(req'[w]) = About(req[w]) /\ req'[w] \in Request
        BY <1>0, <2>2, WentOnReq
      <3>2. req[w].op = "delete" => req'[w].id = req[w].id
        BY <1>0, <3>1, Kinds
      <3> QED  BY <1>0, <3>1, <3>2 DEF DeletesAreDoomed
    <2>3. CASE Ended(w)
      BY <1>0, <2>3, EndedReq, IdleIsARequest
    <2> QED  BY <2>1, <2>2, <2>3, StepIs
  <1> QED  BY <1>0, <1>1 DEF DeletesAreDoomed

LEMMA PutKept ==
  ASSUME StoreTypeOK, Alone, OwnsFresh, ImportIsSound, PutIsThere, NEW w \in Workers, Step(w)
  PROVE  PutIsThere'
  <1>0. /\ req \in [Workers -> Request] /\ blob \in [Ids -> Texts \cup {None}]
        /\ \A v \in Workers \ {w} : req'[v] = req[v]
    BY OthersStay DEF StoreTypeOK, EntryTypeOK
  <1> DEFINE There(v) ==
                LET r == req'[v]
                IN /\ r.op = "create" => blob'[r.id] = r.text
                   /\ r.op = "import" => \A i \in 1 .. r.done :
                         v \notin contested' \/ ~r.writes[i].preexisting
                         => blob'[r.writes[i].id] = r.writes[i].text
                   /\ r.op = "update" /\ r.body = "put" /\ v \notin contested'
                         => blob'[r.id] = r.text
  <1>1. ASSUME NEW v \in Workers \ {w}
        PROVE  There(v)
    <2> DEFINE r == req[v]
    <2>0. r \in Request /\ About(r) \subseteq born /\ About(r) \subseteq Ids /\ req'[v] = r
      BY <1>0, Kinds DEF OwnsFresh
    \* Nobody else can write the body of a drawn id.
    <2>1. ASSUME NEW id \in Drawn(r)
          PROVE  blob'[id] = blob[id]
      <3>1. id \in About(r) /\ id \notin About(req[w])
        BY <2>0, DrawnIsItsOwn DEF OwnsFresh
      <3> QED  BY <2>0, <3>1, OnlyItsOwn
    <2>2. ASSUME v \notin contested', NEW id \in About(r)
          PROVE  v \notin contested /\ blob'[id] = blob[id]
      BY <2>0, <2>2, KeptToItself
    <2>3. r.op = "create" => blob'[r.id] = r.text
      <3> SUFFICES ASSUME r.op = "create" PROVE blob'[r.id] = r.text
        OBVIOUS
      <3>1. r.id \in Drawn(r)
        BY DEF Drawn
      <3> QED  BY <2>1, <3>1 DEF PutIsThere
    <2>4. ASSUME r.op = "import", NEW i \in 1 .. r.done,
                 v \notin contested' \/ ~r.writes[i].preexisting
          PROVE  blob'[r.writes[i].id] = r.writes[i].text
      <3>1. i \in DOMAIN r.writes /\ r.writes[i].id \in About(r)
        BY <2>0, <2>4, WritesAreItsOwn DEF ImportIsSound
      <3>2. ~r.writes[i].preexisting => r.writes[i].id \in Drawn(r)
        BY <2>4, <3>1 DEF Drawn, Fresh
      <3>3. blob'[r.writes[i].id] = blob[r.writes[i].id]
        BY <2>1, <2>2, <2>4, <3>1, <3>2
      <3>4. v \notin contested \/ ~r.writes[i].preexisting
        BY <2>2, <2>4, <3>1
      <3> QED  BY <2>4, <3>3, <3>4 DEF PutIsThere
    <2>5. ASSUME r.op = "update", r.body = "put", v \notin contested'
          PROVE  blob'[r.id] = r.text
      <3>1. r.id \in About(r)
        BY <2>0, <2>5, Kinds
      <3> QED  BY <2>2, <2>5, <3>1 DEF PutIsThere
    <2> QED  BY <2>0, <2>3, <2>4, <2>5
  <1>2. There(w)
    <2>1. CASE Began(w)
      BY <2>1, BeganWith
    <2>2. CASE UpdatePut(w)
      <3>1. /\ req'[w] = [req[w] EXCEPT !.body = "put"] /\ req[w].op = "update"
            /\ blob' = [blob EXCEPT ![req[w].id] = req[w].text]
        BY <1>0, <2>2 DEF UpdatePut, Continue
      <3>2. req[w] \in Updates
        BY <1>0, <3>1, Kinds
      <3>3. /\ req'[w].op = "update" /\ req'[w].id = req[w].id /\ req'[w].text = req[w].text
            /\ req[w].id \in Ids
        BY <3>1, <3>2 DEF Updates
      <3> QED  BY <1>0, <3>1, <3>3
    <2>3. CASE ImportPut(w)
      <3> DEFINE r == req[w]
                 k == r.done + 1
      <3>1. /\ req'[w] = [r EXCEPT !.done = k] /\ r.op = "import" /\ r.done < Len(r.writes)
            /\ blob' = [blob EXCEPT ![r.writes[k].id] = r.writes[k].text]
            /\ contested' = contested
        BY <1>0, <2>3 DEF ImportPut, Continue
      <3>2. r \in Imports
        BY <1>0, <3>1, Kinds
      <3>3. req'[w].op = "import" /\ req'[w].writes = r.writes /\ req'[w].done = k
        BY <3>1, <3>2 DEF Imports
      <3>4. r.done \in Nat /\ Len(r.writes) \in Nat /\ DOMAIN r.writes = 1 .. Len(r.writes)
            /\ \A i \in DOMAIN r.writes : r.writes[i].id \in About(r)
        BY <1>0, <3>1, WritesAreItsOwn
      <3>5. About(r) \subseteq Ids
        BY <1>0, Kinds
      <3>6. \A i, j \in DOMAIN r.writes : i # j => r.writes[i].id # r.writes[j].id
        BY <3>1 DEF ImportIsSound
      <3>7. ASSUME NEW i \in 1 .. k, w \notin contested \/ ~r.writes[i].preexisting
            PROVE  blob'[r.writes[i].id] = r.writes[i].text
        <4>1. i \in DOMAIN r.writes /\ k \in DOMAIN r.writes /\ (i # k => i \in 1 .. r.done)
          BY <3>1, <3>4
        <4>2. r.writes[i].id \in Ids
          BY <3>4, <3>5, <4>1
        <4> HIDE DEF k, r
        <4>3. CASE i = k
          BY <1>0, <3>1, <4>2, <4>3
        <4>4. CASE i # k
          <5>1. r.writes[i].id # r.writes[k].id
            BY <3>6, <4>1, <4>4
          <5>2. blob'[r.writes[i].id] = blob[r.writes[i].id]
            BY <1>0, <3>1, <4>2, <5>1
          <5>3. blob[r.writes[i].id] = r.writes[i].text
            BY <3>1, <3>7, <4>1, <4>4 DEF PutIsThere, r
          <5> QED  BY <5>2, <5>3
        <4> QED  BY <4>3, <4>4
      <3> HIDE DEF k
      <3> QED  BY <3>1, <3>3, <3>7
    <2>4. CASE DeleteBody(w) \/ DeleteIndex(w)
      <3>1. req'[w].op = "delete"
        BY <1>0, <2>4, WentOnReq DEF WentOn, DeleteBody, DeleteIndex
      <3> QED  BY <3>1
    <2>5. CASE Ended(w)
      <3>1. req'[w].op = "idle"
        BY <1>0, <2>5, EndedReq, IdleIsARequest
      <3> QED  BY <3>1
    <2> QED  BY <2>1, <2>2, <2>3, <2>4, <2>5, StepIs DEF WentOn
  <1>3. \A v \in Workers : There(v)
    BY <1>1, <1>2
  <1> QED  BY <1>3 DEF PutIsThere

LEMMA ReadKept ==
  ASSUME StoreTypeOK, Alone, OwnsFresh, AsRead, NEW w \in Workers, Step(w)
  PROVE  AsRead'
  <1>0. /\ req \in [Workers -> Request] /\ fts \in [Ids -> Texts \cup {None}]
        /\ \A v \in Workers \ {w} : req'[v] = req[v]
    BY OthersStay DEF StoreTypeOK, EntryTypeOK
  <1> DEFINE Holds(v) ==
                LET r == req'[v]
                IN /\ r.op = "update" => /\ row'[r.id] # None
                                         /\ r.body = "same" => row'[r.id].text = r.text
                   /\ r.op = "assign" => row'[r.id] # None /\ row'[r.id].path = r.old
                   /\ r.op = "delete" /\ r.next = "row" => fts'[r.id] = None
  <1>1. ASSUME NEW v \in Workers \ {w}, v \notin contested'
        PROVE  Holds(v)
    <2> DEFINE r == req[v]
    <2>0. r \in Request /\ About(r) \subseteq born /\ req'[v] = r
      BY <1>0 DEF OwnsFresh
    <2>1. r.op \in {"update", "assign", "delete"} => r.id \in About(r)
      BY <2>0, Kinds
    <2>2. \A id \in About(r) : /\ v \notin contested
                               /\ row'[id] = row[id] /\ fts'[id] = fts[id]
      BY <1>1, <2>0, KeptToItself
    <2>3. r.op \in {"update", "assign", "delete"} =>
             /\ v \notin contested /\ row'[r.id] = row[r.id] /\ fts'[r.id] = fts[r.id]
      BY <2>1, <2>2
    <2>4. v \notin contested =>
             /\ r.op = "update" => Exists(r.id) /\ (r.body = "same" => row[r.id].text = r.text)
             /\ r.op = "assign" => Exists(r.id) /\ row[r.id].path = r.old
             /\ r.op = "delete" /\ r.next = "row" => fts[r.id] = None
      BY DEF AsRead
    <2> HIDE DEF r
    <2> QED  BY <2>0, <2>3, <2>4 DEF Exists
  <1>2. ASSUME w \notin contested'
        PROVE  Holds(w)
    <2>1. CASE Began(w)
      <3>1. row' = row
        BY <1>0, <2>1, BeganReq
      <3>2. LET r == req'[w]
            IN /\ r.op = "update" => Exists(r.id) /\ (r.body = "same" => row[r.id].text = r.text)
               /\ r.op = "assign" => Exists(r.id) /\ row[r.id].path = r.old
               /\ r.op = "delete" => r.next = "body"
        BY <2>1, BeganWith
      <3> QED  BY <3>1, <3>2 DEF Exists
    <2>2. CASE UpdatePut(w)
      <3>1. /\ req'[w] = [req[w] EXCEPT !.body = "put"] /\ req[w].op = "update"
            /\ contested' = contested /\ row' = row
        BY <1>0, <2>2 DEF UpdatePut, Continue, tables
      <3>2. req[w] \in Updates
        BY <1>0, <3>1, Kinds
      <3>3. req'[w].op = "update" /\ req'[w].id = req[w].id /\ req'[w].body = "put"
        BY <3>1, <3>2 DEF Updates
      <3>4. Exists(req[w].id)
        BY <1>2, <3>1 DEF AsRead
      <3> QED  BY <3>1, <3>3, <3>4 DEF Exists
    <2>3. CASE ImportPut(w)
      <3>1. req'[w].op = "import"
        BY <1>0, <2>3, WentOnReq DEF WentOn, ImportPut
      <3> QED  BY <3>1
    <2>4. CASE DeleteBody(w)
      <3>1. req'[w] = [req[w] EXCEPT !.next = "index"] /\ req[w].op = "delete"
        BY <1>0, <2>4 DEF DeleteBody, Continue
      <3>2. req[w] \in Deletes
        BY <1>0, <3>1, Kinds
      <3>3. req'[w].op = "delete" /\ req'[w].next = "index"
        BY <3>1, <3>2 DEF Deletes
      <3> QED  BY <3>3
    <2>5. CASE DeleteIndex(w)
      <3>1. /\ req'[w] = [req[w] EXCEPT !.next = "row"] /\ req[w].op = "delete"
            /\ fts' = [fts EXCEPT ![req[w].id] = None]
        BY <1>0, <2>5 DEF DeleteIndex, Continue
      <3>2. req[w] \in Deletes
        BY <1>0, <3>1, Kinds
      <3>3. req'[w].op = "delete" /\ req'[w].id = req[w].id /\ req[w].id \in Ids
        BY <3>1, <3>2 DEF Deletes
      <3> QED  BY <1>0, <3>1, <3>3
    <2>6. CASE Ended(w)
      <3>1. req'[w].op = "idle"
        BY <1>0, <2>6, EndedReq, IdleIsARequest
      <3> QED  BY <3>1
    <2> QED  BY <2>1, <2>2, <2>3, <2>4, <2>5, <2>6, StepIs DEF WentOn
  <1>3. \A v \in Workers \ contested' : Holds(v)
    BY <1>1, <1>2
  <1> QED  BY <1>3 DEF AsRead, Exists

-----------------------------------------------------------------------------
(* The body, the search row and the links of an untouched entry.           *)

\* When a step leaves an entry its text and its body is of it, its links are, too.
LEMMA TosAfter ==
  ASSUME StoreTypeOK, ImportIsSound, NEW w \in Workers, Step(w), NEW id \in Ids,
         row'[id] # None, row'[id].text \in Texts, blob'[id] = row'[id].text,
         id \notin rewritten => {l.to : l \in links[id]} = LinksOf[row'[id].text],
         id \notin rewritten'
  PROVE  {l.to : l \in links'[id]} = LinksOf[row'[id].text]
  <1>0. links[id] \in SUBSET Link
    BY DEF StoreTypeOK
  <1>1. CASE links'[id] = links[id] /\ (id \in rewritten => id \in rewritten')
    BY <1>1
  <1>2. ASSUME NEW text \in Texts, links'[id] = Compiled(row', text),
               text \in {row'[id].text, blob'[id]}
        PROVE  {l.to : l \in links'[id]} = LinksOf[row'[id].text]
    <2>1. text = row'[id].text
      BY <1>2
    <2> QED  BY <1>2, <2>1, CompiledLinks
  <1>3. ASSUME NEW set \in SUBSET Link, links'[id] = Reresolved(row', set),
               \/ set = Compiled(row', row'[id].text)
               \/ set = links[id] /\ (id \in rewritten => id \in rewritten')
        PROVE  {l.to : l \in links'[id]} = LinksOf[row'[id].text]
    <2>1. {l.to : l \in Reresolved(row', set)} = {l.to : l \in set}
      BY ReresolvedLinks
    <2>2. {l.to : l \in set} = LinksOf[row'[id].text]
      BY <1>3, CompiledLinks
    <2> QED  BY <1>3, <2>1, <2>2
  <1> QED  BY <1>1, <1>2, <1>3, LinksAfter

\* Steps of requests that are not about the entry.
LEMMA UntouchedByOthers ==
  ASSUME StoreTypeOK, ImportIsSound, UntouchedAgrees, NEW w \in Workers, Step(w),
         NEW id \in Ids, id \notin About(req[w]), Untouched(id)'
  PROVE  Agrees(id)'
  <1>0. /\ req \in [Workers -> Request]
        /\ row \in [Ids -> Entry \cup {None}]
        /\ None \notin Entry
    BY EntryAssumption DEF StoreTypeOK, Entry
  <1>1. row'[id] = row[id] /\ fts'[id] = fts[id] /\ row[id] # None
    BY OnlyItsOwn DEF Untouched, Exists
  <1>2. blob'[id] = blob[id] /\ row'[id].text \in Texts
    <2>1. id \in born
      BY <1>1 DEF StoreTypeOK, EntryTypeOK, Exists
    <2> QED  BY <1>0, <1>1, <2>1, OnlyItsOwn DEF Entry
  <1>3. id \notin disturbed /\ (id \notin imported' => id \notin imported)
    <2>1. CASE Began(w)
      <3>1. disturbed' = disturbed /\ imported' = imported
        BY <2>1, BeganWith
      <3> QED  BY <3>1 DEF Untouched
    <2>2. CASE WentOn(w)
      <3>1. disturbed' = disturbed /\ imported' = imported
        BY <1>0, <2>2, WentOnReq DEF traces
      <3> QED  BY <3>1 DEF Untouched
    <2>3. CASE Ended(w)
      <3>1. /\ disturbed \subseteq disturbed' \cup About(req[w])
            /\ imported \subseteq imported' \cup About(req[w])
        BY <2>3, EndedMarks
      <3> QED  BY <3>1 DEF Untouched
    <2> QED  BY <2>1, <2>2, <2>3, StepIs
  <1>4. ASSUME NEW v \in Workers, id \in About(req[v])
        PROVE  v \notin contested /\ id \notin Torn(req[v])
    <2>1. v # w /\ req'[v] = req[v] /\ contested \subseteq contested' \cup {w}
      BY <1>4, OthersStay
    <2>2. v \notin contested' /\ id \notin Torn(req'[v])
      BY <1>4, <2>1 DEF Untouched
    <2> QED  BY <2>1, <2>2
  <1>5. Agrees(id)
    BY <1>1, <1>3, <1>4 DEF Untouched, UntouchedAgrees, Exists
  <1>6. ASSUME id \notin rewritten'
        PROVE  {l.to : l \in links'[id]} = LinksOf[row'[id].text]
    BY <1>1, <1>2, <1>5, <1>6, TosAfter DEF Agrees
  <1> QED  BY <1>1, <1>2, <1>3, <1>5, <1>6 DEF Agrees

\* Steps of its own request that write none of it.
LEMMA UntouchedWhenKept ==
  ASSUME StoreTypeOK, ImportIsSound, Alone, UntouchedAgrees, NEW w \in Workers, Step(w),
         NEW id \in Ids, id \in About(req[w]), Untouched(id)',
         w \notin contested, id \notin Torn(req[w]), id \notin disturbed,
         row[id] # None, row'[id].text = row[id].text, blob'[id] = blob[id], fts'[id] = fts[id],
         imported' = imported
  PROVE  Agrees(id)'
  <1>1. row[id] \in Entry
    BY DEF StoreTypeOK
  <1>2. row'[id].text \in Texts /\ row'[id] # None
    BY <1>1 DEF Entry, Untouched, Exists
  <1>3. Agrees(id)
    <2>1. \A v \in Workers : id \in About(req[v]) => v = w
      BY DEF Alone
    <2> QED  BY <2>1 DEF Untouched, UntouchedAgrees, Exists
  <1>4. ASSUME id \notin rewritten'
        PROVE  {l.to : l \in links'[id]} = LinksOf[row'[id].text]
    BY <1>2, <1>3, <1>4, TosAfter DEF Agrees
  <1> QED  BY <1>3, <1>4 DEF Agrees

LEMMA UntouchedByItsOwn ==
  ASSUME StoreTypeOK, ImportIsSound, Alone, OwnsFresh, PutIsThere, AsRead, UntouchedAgrees,
         NEW w \in Workers, Step(w), NEW id \in Ids, id \in About(req[w]), Untouched(id)'
  PROVE  Agrees(id)'
  <1> DEFINE r == req[w]
  <1>0. /\ r \in Request /\ req \in [Workers -> Request]
        /\ row \in [Ids -> Entry \cup {None}] /\ None \notin Entry /\ None \notin Texts
        /\ blob \in [Ids -> Texts \cup {None}] /\ links \in [Ids -> SUBSET Link]
        /\ \A x \in Drawn(r) : row[x] = None
    BY EntryAssumption DEF StoreTypeOK, EntryTypeOK, Entry, OwnsFresh, Exists
  <1>1. /\ row'[id] # None /\ id \notin disturbed'
        /\ \A v \in Workers : id \in About(req'[v]) => v \notin contested' /\ id \notin Torn(req'[v])
    BY DEF Untouched, Exists
  <1>2. r.op \in {"create", "update", "assign", "delete"} => r.id = id
    BY <1>0, Kinds
  <1>3. CASE Began(w)
    BY <1>0, <1>3, BeganReq, IdleIsARequest
  <1>4. CASE UpdatePut(w) \/ DeleteBody(w) \/ DeleteIndex(w)
    <2>1. About(req'[w]) = About(r) /\ req'[w].op = r.op
      BY <1>0, <1>4, WentOnReq DEF WentOn
    <2>2. id \in Torn(req'[w])
      <3>1. CASE UpdatePut(w)
        <4>1. r.op = "update" /\ req'[w] = [r EXCEPT !.body = "put"]
          BY <1>0, <3>1 DEF UpdatePut, Continue
        <4>2. r \in Updates
          BY <1>0, <4>1, Kinds
        <4>3. req'[w].op = "update" /\ req'[w].body = "put" /\ req'[w].id = r.id
          BY <4>1, <4>2 DEF Updates
        <4> QED  BY <1>2, <4>1, <4>3 DEF Torn
      <3>2. CASE DeleteBody(w) \/ DeleteIndex(w)
        <4>1. PICK next \in {"index", "row"} :
                r.op = "delete" /\ req'[w] = [r EXCEPT !.next = next]
          BY <1>0, <3>2 DEF DeleteBody, DeleteIndex, Continue
        <4>2. r \in Deletes
          BY <1>0, <4>1, Kinds
        <4>3. req'[w].op = "delete" /\ req'[w].next = next /\ req'[w].id = r.id
          BY <4>1, <4>2 DEF Deletes
        <4> QED  BY <1>2, <4>1, <4>3 DEF Torn
      <3> QED  BY <1>4, <3>1, <3>2
    <2> QED  BY <1>1, <2>1, <2>2
  <1>5. CASE ImportPut(w)
    <2> DEFINE k == r.done + 1
    <2>1. /\ r.op = "import" /\ r.done < Len(r.writes) /\ req'[w] = [r EXCEPT !.done = k]
          /\ blob' = [blob EXCEPT ![r.writes[k].id] = r.writes[k].text]
          /\ row' = row /\ fts' = fts /\ contested' = contested /\ disturbed' = disturbed
          /\ imported' = imported
      BY <1>0, <1>5 DEF ImportPut, Continue, tables, traces
    <2>2. r \in Imports /\ About(r) = {r.writes[i].id : i \in DOMAIN r.writes}
      BY <1>0, <2>1, Kinds
    <2>3. req'[w].op = "import" /\ req'[w].writes = r.writes /\ req'[w].done = k
      BY <2>1, <2>2 DEF Imports
    <2>4. /\ r.done \in Nat /\ Len(r.writes) \in Nat /\ DOMAIN r.writes = 1 .. Len(r.writes)
      BY <1>0, <2>1, WritesAreItsOwn
    <2>5. PICK i \in DOMAIN r.writes : r.writes[i].id = id
      BY <2>2
    <2>6. r.writes[i].preexisting
      <3>1. ~r.writes[i].preexisting => id \in Drawn(r)
        BY <2>1, <2>5 DEF Drawn, Fresh
      <3> QED  BY <1>0, <1>1, <2>1, <3>1
    <2>7. About(req'[w]) = About(r)
      BY <1>0, <1>5, WentOnReq DEF WentOn
    <2>8. id \notin Torn(req'[w]) /\ Torn(req'[w]) = Overwritten(req'[w])
      BY <1>1, <2>3, <2>7 DEF Torn
    <2>9. ~(i <= k)
      <3>1. i \in 1 .. k => id \in Overwritten(req'[w])
        BY <2>3, <2>5, <2>6 DEF Overwritten
      <3> QED  BY <2>4, <2>8, <3>1
    <2>10. r.writes[k].id # id
      <3>1. k \in DOMAIN r.writes /\ k # i
        BY <2>1, <2>4, <2>9
      <3> QED  BY <2>1, <2>5, <3>1 DEF ImportIsSound
    <2>11. blob'[id] = blob[id]
      BY <1>0, <2>1, <2>10
    <2>12. id \notin Torn(r)
      <3>1. ASSUME NEW j \in 1 .. r.done, r.writes[j].id = id
            PROVE  FALSE
        <4>1. j \in DOMAIN r.writes /\ j # i
          BY <2>1, <2>4, <2>9
        <4> QED  BY <2>1, <2>5, <3>1, <4>1 DEF ImportIsSound
      <3>2. Torn(r) = Overwritten(r)
        BY <2>1 DEF Torn
      <3> QED  BY <3>1, <3>2 DEF Overwritten
    <2>13. w \notin contested
      BY <1>1, <2>1, <2>7
    <2> QED  BY <1>1, <2>1, <2>11, <2>12, <2>13, UntouchedWhenKept
  <1>6. CASE Ended(w)
    <2>1. w \notin contested
      BY <1>1, <1>6, EndedMarks
    <2>2. CASE CreateCommit(w)
      <3>1. /\ r.op = "create" /\ r.id = id /\ blob' = blob
            /\ row' = [row EXCEPT ![id] = [path |-> r.path, text |-> r.text]]
            /\ links' = [links EXCEPT ![id] = Compiled(row', r.text)]
            /\ fts' = Indexed({id}, r.text)
        BY <1>2, <2>2 DEF CreateCommit
      <3>2. row'[id].text = r.text /\ fts'[id] = r.text /\ links'[id] = Compiled(row', r.text)
        BY <1>0, <3>1 DEF Indexed
      <3>3. blob'[id] = r.text
        BY <3>1 DEF PutIsThere
      <3>4. r.text \in Texts
        BY <1>0, <3>1, Kinds DEF Creates
      <3>5. {l.to : l \in links'[id]} = LinksOf[r.text]
        BY <3>2, <3>4, CompiledLinks
      <3> QED  BY <3>2, <3>3, <3>5 DEF Agrees
    <2>3. CASE UpdateCommit(w) /\ r.body = "put"
      <3>1. /\ r.op = "update" /\ r.id = id /\ blob' = blob
            /\ row' = IF Exists(id) THEN [row EXCEPT ![id] = [path |-> r.path, text |-> r.text]]
                      ELSE row
            /\ links' = [i \in Ids |-> IF i \in {id} THEN Compiled(row', r.text) ELSE links[i]]
            /\ fts' = Indexed({id}, r.text)
        BY <1>2, <2>3 DEF UpdateCommit
      <3>2. row' = [row EXCEPT ![id] = [path |-> r.path, text |-> r.text]]
        BY <1>1, <3>1 DEF Exists
      <3>3. row'[id].text = r.text /\ fts'[id] = r.text /\ links'[id] = Compiled(row', r.text)
        BY <1>0, <3>1, <3>2 DEF Indexed
      <3>4. blob'[id] = r.text
        BY <2>1, <2>3, <3>1 DEF PutIsThere
      <3>5. r.text \in Texts
        BY <1>0, <3>1, Kinds DEF Updates
      <3>6. {l.to : l \in links'[id]} = LinksOf[r.text]
        BY <3>3, <3>5, CompiledLinks
      <3> QED  BY <3>3, <3>4, <3>6 DEF Agrees
    <2>4. CASE ImportCommit(w)
      <3>1. /\ r.op = "import" /\ r.done = Len(r.writes) /\ blob' = blob
            /\ imported' = imported \cup About(r)
            /\ rewritten' = rewritten \ About(r)
        BY <2>4 DEF ImportCommit
      <3>2. PICK k \in DOMAIN r.writes : r.writes[k].id = id
        BY <1>0, <3>1, Kinds
      <3> DEFINE x == r.writes[k]
      <3>3. x \in Write /\ row'[id] = [path |-> x.path, text |-> x.text]
        BY <1>0, <2>4, <3>1, <3>2, WritesAreItsOwn, ImportedRows
      <3>4. k \in 1 .. r.done
        BY <1>0, <3>1, WritesAreItsOwn
      <3>5. blob'[id] = x.text
        BY <2>1, <3>1, <3>2, <3>4 DEF PutIsThere
      <3>6. row'[id].text = x.text /\ x.text \in Texts
        BY <3>3 DEF Write
      <3> HIDE DEF x
      <3>7. {l.to : l \in links'[id]} = LinksOf[row'[id].text]
        <4> DEFINE write == [i \in About(r) |-> CHOOSE y \in ToSet(r.writes) : y.id = i]
                   rows == [i \in Ids |-> IF i \in About(r)
                                          THEN [path |-> write[i].path, text |-> write[i].text]
                                          ELSE row[i]]
                   compiled == [i \in Ids |-> IF i \in About(r) THEN Compiled(rows, write[i].text)
                                              ELSE links[i]]
        <4>1. row' = rows /\ links' = [i \in Ids |-> Reresolved(rows, compiled[i])]
          BY <2>4 DEF ImportCommit
        <4>2. links'[id] = Reresolved(row', compiled[id])
          BY <4>1
        <4>3. row'[id] = [path |-> write[id].path, text |-> write[id].text]
          BY <4>1
        <4>4. compiled[id] = Compiled(row', row'[id].text)
          BY <4>1, <4>3
        <4> HIDE DEF compiled, rows, write
        <4>5. compiled[id] \in SUBSET Link /\ {l.to : l \in compiled[id]} = LinksOf[row'[id].text]
          BY <3>6, <4>4, CompiledLinks
        <4> QED  BY <4>2, <4>5, ReresolvedLinks
      <3> QED  BY <3>1, <3>5, <3>6, <3>7 DEF Agrees
    <2>5. CASE ~(CreateCommit(w) \/ (UpdateCommit(w) /\ r.body = "put") \/ ImportCommit(w))
      <3>1. imported' = imported /\ id \notin disturbed
        BY <1>1, <1>6, <2>1, <2>5, EndedMarks
      <3>2. CASE UpdateCommit(w)
        <4>1. /\ r.op = "update" /\ r.id = id /\ blob' = blob
              /\ row' = IF Exists(id) THEN [row EXCEPT ![id] = [path |-> r.path, text |-> r.text]]
                        ELSE row
              /\ fts' = Indexed({}, r.text) /\ r.body # "new" /\ r.body # "put"
          BY <1>2, <2>5, <3>2 DEF UpdateCommit
        <4>2. r.body = "same"
          <5>1. r \in Updates
            BY <1>0, <4>1, Kinds
          <5> QED  BY <4>1, <5>1 DEF Updates
        <4>3. row[id] # None /\ row[id].text = r.text
          BY <2>1, <4>1, <4>2 DEF AsRead, Exists
        <4>4. row'[id].text = row[id].text
          BY <1>0, <4>1, <4>3 DEF Exists
        <4>5. fts'[id] = fts[id] /\ id \notin Torn(r)
          BY <4>1 DEF Indexed, Torn
        <4> QED  BY <2>1, <3>1, <4>1, <4>3, <4>4, <4>5, UntouchedWhenKept
      <3>3. CASE Assigned(w)
        <4>1. /\ r.op = "assign" /\ r.id = id /\ blob' = blob /\ fts' = fts
              /\ row' = Moved(r)
          BY <1>2, <3>3 DEF Assigned, AssignCommit
        <4>2. row[id] # None
          BY <1>1, <4>1 DEF Moved, Exists
        <4>3. row[id] \in Entry /\ row' = [row EXCEPT ![id].path.dir = r.dir]
          BY <1>0, <4>1, <4>2 DEF Moved, Exists
        <4>4. row'[id].text = row[id].text
          BY <1>0, <4>3 DEF Entry
        <4>5. id \notin Torn(r)
          BY <4>1 DEF Torn
        <4> QED  BY <2>1, <3>1, <4>1, <4>2, <4>4, <4>5, UntouchedWhenKept
      <3>4. CASE AssignFails(w)
        <4>1. row' = row /\ fts' = fts /\ blob' = blob /\ r.op = "assign"
          BY <3>4 DEF AssignFails, tables
        <4>2. id \notin Torn(r)
          BY <4>1 DEF Torn
        <4> QED  BY <1>1, <2>1, <3>1, <4>1, <4>2, UntouchedWhenKept
      <3>5. CASE UpdateFails(w) \/ Abort(w)
        <4>1. row' = row /\ fts' = fts /\ blob' = blob
          BY <3>5 DEF UpdateFails, Abort, tables
        <4>2. id \notin Torn(r)
          BY <1>1, <1>6, <2>1, <3>5, EndedMarks
        <4> QED  BY <1>1, <2>1, <3>1, <4>1, <4>2, UntouchedWhenKept
      <3>6. CASE ImportFails(w)
        <4>1. /\ row' = row /\ fts' = fts /\ r.op = "import"
              /\ blob' = [i \in Ids |-> IF i \in Fresh(r) THEN None ELSE blob[i]]
          BY <3>6 DEF ImportFails, tables
        <4>2. id \notin Torn(r)
          BY <1>1, <1>6, <2>1, <3>6, EndedMarks
        <4>3. Drawn(r) = Fresh(r)
          BY <4>1 DEF Drawn
        <4>4. blob'[id] = blob[id]
          BY <1>0, <1>1, <4>1, <4>3
        <4> QED  BY <1>1, <2>1, <3>1, <4>1, <4>2, <4>4, UntouchedWhenKept
      <3>7. CASE CreateFails(w)
        <4>1. row' = row /\ r.op = "create" /\ r.id = id
          BY <1>2, <3>7 DEF CreateFails, tables
        <4>2. id \in Drawn(r)
          BY <4>1 DEF Drawn
        <4> QED  BY <1>0, <1>1, <4>1, <4>2
      <3>8. CASE DeleteRow(w)
        <4>1. row' = [row EXCEPT ![id] = None]
          BY <1>2, <3>8 DEF DeleteRow
        <4> QED  BY <1>0, <1>1, <4>1
      <3>9. CASE CompileCommit(w) \/ CompileFails(w)
        BY <1>0, <3>9, Kinds DEF CompileCommit, CompileFails
      <3> QED  BY <1>6, <2>5, <3>2, <3>3, <3>4, <3>5, <3>6, <3>7, <3>8, <3>9 DEF Ended
    <2> QED  BY <2>2, <2>3, <2>4, <2>5
  <1> QED  BY <1>3, <1>4, <1>5, <1>6, StepIs DEF WentOn

LEMMA UntouchedKept ==
  ASSUME StoreTypeOK, ImportIsSound, Alone, OwnsFresh, PutIsThere, AsRead, UntouchedAgrees,
         NEW w \in Workers, Step(w)
  PROVE  UntouchedAgrees'
  <1>1. \A id \in Ids : Untouched(id)' => Agrees(id)'
    BY UntouchedByOthers, UntouchedByItsOwn
  <1> QED  BY <1>1 DEF UntouchedAgrees

-----------------------------------------------------------------------------
(* No body is lost, no dead search row is left, and links follow moves.    *)

LEMMA BodyKept ==
  ASSUME StoreTypeOK, OwnsFresh, ImportIsSound, PutIsThere, DeletesAreDoomed, BodyNeverLost,
         NEW w \in Workers, Step(w)
  PROVE  BodyNeverLost'
  <1> DEFINE r == req[w]
  <1>0. /\ r \in Request /\ blob \in [Ids -> Texts \cup {None}]
        /\ None \notin Texts /\ None \notin Entry
        /\ \A x \in Drawn(r) : row[x] = None
        /\ doomed \subseteq doomed'
    BY OthersStay, EntryAssumption DEF StoreTypeOK, EntryTypeOK, Entry, OwnsFresh, Exists
  <1> SUFFICES ASSUME NEW id \in Ids, row'[id] # None, blob'[id] = None
               PROVE  id \in doomed'
    BY DEF BodyNeverLost, Exists
  <1>1. CASE row[id] = None
    <2>1. id \in Drawn(r) /\ RowWriters(w)
      BY <1>1, RowChanges, WhoWrites DEF Exists
    <2>2. CASE CreateCommit(w)
      <3>1. r.op = "create" /\ blob' = blob
        BY <2>2 DEF CreateCommit
      <3>2. r.id = id /\ r.text \in Texts
        BY <1>0, <2>1, <3>1, Kinds DEF Drawn, Creates
      <3> QED  BY <1>0, <3>1, <3>2 DEF PutIsThere
    <2>3. CASE ImportCommit(w)
      <3>1. r.op = "import" /\ r.done = Len(r.writes) /\ blob' = blob
        BY <2>3 DEF ImportCommit
      <3>2. PICK i \in DOMAIN r.writes : r.writes[i].id = id /\ ~r.writes[i].preexisting
        BY <2>1, <3>1 DEF Drawn, Fresh
      <3>3. r.writes[i].text \in Texts /\ i \in 1 .. r.done
        <4>1. r.writes[i] \in Write /\ i \in 1 .. r.done
          BY <1>0, <3>1, WritesAreItsOwn
        <4> QED  BY <4>1 DEF Write
      <3> QED  BY <1>0, <3>1, <3>2, <3>3 DEF PutIsThere
    <2>4. r.op \in {"create", "import"}
      BY <2>1 DEF Drawn
    <2>5. UpdateCommit(w) \/ Assigned(w) \/ DeleteRow(w) => r.op \in {"update", "assign", "delete"}
      BY DEF UpdateCommit, Assigned, AssignCommit, DeleteRow
    <2> QED  BY <2>1, <2>2, <2>3, <2>4, <2>5 DEF RowWriters
  <1>2. CASE row[id] # None /\ blob[id] = None
    BY <1>0, <1>2 DEF BodyNeverLost, Exists
  <1>3. CASE row[id] # None /\ blob[id] # None
    <2>1. id \notin Drawn(r)
      BY <1>0, <1>3
    <2>2. CASE CreatePut(w)
      BY <1>0, <1>3, <2>2 DEF CreatePut
    <2>3. CASE CreateFails(w)
      <3>1. r.id \in Drawn(r)
        BY <2>3 DEF CreateFails, Drawn
      <3> QED  BY <1>0, <1>3, <2>1, <2>3, <3>1 DEF CreateFails
    <2>4. CASE UpdatePut(w)
      <3>1. r.text \in Texts
        BY <1>0, <2>4, Kinds DEF UpdatePut, Updates
      <3> QED  BY <1>0, <1>3, <2>4, <3>1 DEF UpdatePut
    <2>5. CASE DeleteBody(w)
      <3>1. r.op = "delete" /\ blob' \in {blob, [blob EXCEPT ![r.id] = None]}
        BY <2>5 DEF DeleteBody
      <3>2. r.id = id
        BY <1>0, <1>3, <3>1
      <3> QED  BY <1>0, <3>1, <3>2 DEF DeletesAreDoomed
    <2>6. CASE ImportPut(w)
      <3>1. /\ r.op = "import" /\ r.done < Len(r.writes)
            /\ blob' = [blob EXCEPT ![r.writes[r.done + 1].id] = r.writes[r.done + 1].text]
        BY <2>6 DEF ImportPut
      <3>2. r.done + 1 \in DOMAIN r.writes
        BY <1>0, <3>1, WritesAreItsOwn
      <3>3. r.writes[r.done + 1] \in Write
        BY <1>0, <3>1, <3>2, WritesAreItsOwn
      <3>4. r.writes[r.done + 1].text \in Texts
        BY <3>3 DEF Write
      <3> QED  BY <1>0, <1>3, <3>1, <3>4
    <2>7. CASE ImportFails(w)
      <3>1. /\ r.op = "import"
            /\ blob' = [i \in Ids |-> IF i \in Fresh(r) THEN None ELSE blob[i]]
        BY <2>7 DEF ImportFails
      <3>2. Drawn(r) = Fresh(r)
        BY <3>1 DEF Drawn
      <3> QED  BY <1>3, <2>1, <3>1, <3>2
    <2> QED  BY <1>3, <2>2, <2>3, <2>4, <2>5, <2>6, <2>7, WhoWrites DEF BlobWriters
  <1> QED  BY <1>1, <1>2, <1>3

LEMMA SearchKept ==
  ASSUME StoreTypeOK, ImportIsSound, AsRead, SearchFindsEntries, NEW w \in Workers, Step(w)
  PROVE  SearchFindsEntries'
  <1> DEFINE r == req[w]
  <1>0. /\ r \in Request /\ req \in [Workers -> Request]
        /\ row \in [Ids -> Entry \cup {None}] /\ fts \in [Ids -> Texts \cup {None}]
        /\ None \notin Entry
    BY EntryAssumption DEF StoreTypeOK, EntryTypeOK, Entry
  <1> SUFFICES ASSUME NEW id \in Ids, fts'[id] # None, row'[id] = None
               PROVE  id \in disturbed'
    BY DEF SearchFindsEntries, Exists
  <1>1. CASE Began(w) \/ WentOn(w)
    <2>1. row' = row /\ disturbed' = disturbed
      BY <1>0, <1>1, BeganReq, WentOnReq
    <2>2. fts[id] # None
      <3>1. fts' = fts \/ DeleteIndex(w)
        <4>1. CASE Began(w)
          BY <1>0, <4>1, BeganReq
        <4>2. CASE WentOn(w)
          BY <4>2 DEF WentOn, UpdatePut, DeleteBody, ImportPut, tables
        <4> QED  BY <1>1, <4>1, <4>2
      <3>2. DeleteIndex(w) => fts' = [fts EXCEPT ![r.id] = None]
        BY DEF DeleteIndex
      <3> QED  BY <1>0, <3>1, <3>2
    <2> QED  BY <2>1, <2>2 DEF SearchFindsEntries, Exists
  <1>2. CASE Ended(w) /\ id \notin About(r)
    <2>1. row'[id] = row[id] /\ fts'[id] = fts[id]
      BY <1>2, OnlyItsOwn
    <2>2. disturbed \subseteq disturbed' \cup About(r)
      BY <1>2, EndedMarks
    <2> QED  BY <1>2, <2>1, <2>2 DEF SearchFindsEntries, Exists
  <1>3. CASE Ended(w) /\ id \in About(r) /\ w \in contested
    BY <1>3, EndedMarks
  <1>4. CASE Ended(w) /\ id \in About(r) /\ w \notin contested
    <2>0. r.op \in {"create", "update", "assign", "delete"} => r.id = id
      BY <1>0, <1>4, Kinds
    <2>1. ~CreateCommit(w)
      <3> SUFFICES ASSUME CreateCommit(w) PROVE FALSE
        OBVIOUS
      <3>1. r.id = id /\ row' = [row EXCEPT ![id] = [path |-> r.path, text |-> r.text]]
        BY <2>0 DEF CreateCommit
      <3>2. r.path \in Path /\ r.text \in Texts
        BY <1>0, Kinds, EntryAssumption DEF CreateCommit, Creates, EntryPaths, Path
      <3>3. row'[id] \in Entry
        BY <1>0, <3>1, <3>2 DEF Entry
      <3> QED  BY <1>0, <3>3
    <2>2. ~UpdateCommit(w)
      <3> SUFFICES ASSUME UpdateCommit(w) PROVE FALSE
        OBVIOUS
      <3>1. /\ r.id = id /\ r.op = "update"
            /\ row' = IF Exists(id) THEN [row EXCEPT ![id] = [path |-> r.path, text |-> r.text]]
                      ELSE row
        BY <2>0 DEF UpdateCommit
      <3>2. r.path \in Path /\ r.text \in Texts
        BY <1>0, <3>1, Kinds DEF Updates
      <3>3. Exists(id)
        BY <1>4, <3>1 DEF AsRead
      <3>4. row'[id] \in Entry
        BY <1>0, <3>1, <3>2, <3>3 DEF Entry
      <3> QED  BY <1>0, <3>4
    <2>3. ~ImportCommit(w)
      <3> SUFFICES ASSUME ImportCommit(w) PROVE FALSE
        OBVIOUS
      <3>1. r.op = "import"
        BY DEF ImportCommit
      <3>2. PICK i \in DOMAIN r.writes : r.writes[i].id = id
        BY <1>0, <1>4, <3>1, Kinds
      <3>3. /\ r.writes[i] \in Write
            /\ row'[id] = [path |-> r.writes[i].path, text |-> r.writes[i].text]
        BY <1>0, <3>1, <3>2, WritesAreItsOwn, ImportedRows
      <3>4. row'[id] \in Entry
        BY <3>3 DEF Write, Entry
      <3> QED  BY <1>0, <3>4
    <2>4. disturbed \subseteq disturbed'
      BY <1>4, <2>1, <2>2, <2>3, EndedMarks
    <2>5. fts' = fts
      BY <1>4, <2>1, <2>2 DEF Ended, CreateFails, UpdateFails, Assigned, AssignCommit, AssignFails,
           DeleteRow, ImportCommit, CompileCommit, CompileFails, ImportFails, Abort, tables
    <2>6. CASE row[id] = None
      BY <2>4, <2>5, <2>6 DEF SearchFindsEntries, Exists
    <2>7. CASE row[id] # None
      <3>1. DeleteRow(w)
        BY <1>0, <2>7, RowChanges
      <3>2. fts[id] = None
        BY <1>4, <2>0, <3>1 DEF DeleteRow, AsRead
      <3> QED  BY <2>5, <3>2
    <2> QED  BY <2>6, <2>7
  <1> QED  BY <1>1, <1>2, <1>3, <1>4, StepIs

\* An entry that a link may count on keeps its row, and its path unless it is assigned.
LEMMA RowStays ==
  ASSUME StoreTypeOK, OwnsFresh, ImportIsSound, DeletesAreDoomed, NEW w \in Workers, Step(w),
         NEW id \in Ids \ (strayed' \cup doomed'), row[id] # None
  PROVE  /\ row'[id] # None
         /\ \/ row'[id].path = row[id].path
            \/ Assigned(w) /\ req[w].id = id
  <1> DEFINE r == req[w]
  <1>0. /\ r \in Request /\ row \in [Ids -> Entry \cup {None}] /\ None \notin Entry
        /\ doomed \subseteq doomed' /\ id \notin Drawn(r)
    BY OthersStay, EntryAssumption DEF StoreTypeOK, Entry, OwnsFresh, Exists
  <1>1. CASE row'[id] = row[id]
    BY <1>1
  <1>2. CASE row'[id] # row[id]
    <2>1. id \in About(r) /\ RowWriters(w)
      BY <1>2, RowChanges, WhoWrites
    <2>2. r.op \in {"create", "update", "assign", "delete"} => r.id = id
      BY <1>0, <2>1, Kinds
    <2>3. ~DeleteRow(w)
      BY <1>0, <2>2 DEF DeleteRow, DeletesAreDoomed
    <2>4. row'[id] # None
      BY <1>0, <1>2, <2>3, RowChanges
    <2>5. CASE UpdateCommit(w)
      <3>1. /\ r.id = id
            /\ row' = [row EXCEPT ![id] = [path |-> r.path, text |-> r.text]]
            /\ row[id].path # r.path => id \in strayed'
        BY <1>2, <2>2, <2>5 DEF UpdateCommit, Exists
      <3> QED  BY <1>0, <2>4, <3>1
    <2>6. CASE ImportCommit(w)
      <3>1. r.op = "import"
        BY <2>6 DEF ImportCommit
      <3>2. PICK i \in DOMAIN r.writes : r.writes[i].id = id
        BY <1>0, <2>1, <3>1, Kinds
      <3>3. row'[id] = [path |-> r.writes[i].path, text |-> r.writes[i].text]
        BY <2>6, <3>2, ImportedRows
      <3>4. row[id].path = r.writes[i].path
        <4>1. /\ r.writes[i].preexisting => row[id].path = r.writes[i].path
              /\ ~r.writes[i].preexisting => id \in Drawn(r)
          BY <3>1, <3>2 DEF ImportIsSound, Drawn, Fresh
        <4> QED  BY <1>0, <4>1
      <3> QED  BY <2>4, <3>3, <3>4
    <2>7. CASE CreateCommit(w)
      BY <1>0, <2>2, <2>7 DEF CreateCommit, Drawn
    <2>8. CASE Assigned(w)
      BY <2>2, <2>4, <2>8 DEF Assigned, AssignCommit
    <2> QED  BY <2>1, <2>3, <2>5, <2>6, <2>7, <2>8 DEF RowWriters
  <1> QED  BY <1>1, <1>2

LEMMA LinksKept ==
  ASSUME StoreTypeOK, OwnsFresh, ImportIsSound, AsRead, DeletesAreDoomed, LinkAddressesEntry,
         NEW w \in Workers, Step(w)
  PROVE  LinkAddressesEntry'
  <1> DEFINE r == req[w]
             Spells(path, s) == s = Join(path) \/ Crooked(s)
             Addresses(l) == row'[l.entry] # None /\ Spells(row'[l.entry].path, l.to)
  <1>0. /\ r \in Request /\ row \in [Ids -> Entry \cup {None}] /\ links \in [Ids -> SUBSET Link]
        /\ blob \in [Ids -> Texts \cup {None}]
        /\ strayed \subseteq strayed' /\ doomed \subseteq doomed' /\ None \notin Ids
    BY OthersStay, EntryAssumption DEF StoreTypeOK, EntryTypeOK
  <1> SUFFICES ASSUME NEW id \in Ids, NEW l \in links'[id],
                      l.entry \in Ids \ (strayed' \cup doomed')
               PROVE  Addresses(l)
    BY DEF LinkAddressesEntry, Exists
  <1>1. ASSUME l.entry = Resolve(row', Split(l.to))
        PROVE  Addresses(l)
    <2>1. row'[l.entry] # None /\ row'[l.entry].path = Split(l.to)
      BY <1>0, <1>1, ResolveFinds
    <2> QED  BY <2>1 DEF Crooked
  \* A link from before the step addressed its entry.
  <1>2. ASSUME NEW k \in links[id], k.entry = l.entry
        PROVE  row[l.entry] # None /\ Spells(row[l.entry].path, k.to)
    BY <1>0, <1>2 DEF LinkAddressesEntry, Exists
  <1>3. ASSUME NEW text \in Texts, links'[id] = Compiled(row', text)
        PROVE  Addresses(l)
    BY <1>1, <1>3, CompiledLinks
  <1>4. CASE Assigned(w)
    <2>1. PICK fetched \in BOOLEAN : AssignCommit(w, fetched)
      BY <1>4 DEF Assigned
    <2> DEFINE mine == IF fetched THEN {r.id} ELSE {}
               redirected == [i \in Ids |-> Redirected(r, links[i])]
    <2>2. /\ row' = Moved(r) /\ r.op = "assign"
          /\ fetched => blob[r.id] # None
          /\ links' = [i \in Ids |-> IF i \in mine THEN Compiled(Moved(r), blob[i])
                                     ELSE redirected[i]]
          /\ strayed' = strayed \cup Bereft(r) \cup (IF w \in contested THEN {r.id} ELSE {})
      BY <2>1 DEF AssignCommit
    <2>3. CASE id \in mine
      <3>1. links'[id] = Compiled(row', blob[id])
        BY <2>2, <2>3
      <3>2. blob[id] \in Texts
        BY <1>0, <2>2, <2>3
      <3> QED  BY <1>3, <3>1, <3>2
    <2>4. CASE id \notin mine
      <3>1. links'[id] = Redirected(r, links[id])
        BY <2>2, <2>4
      <3> HIDE DEF mine, redirected
      <3>2. r \in Assigns /\ links[id] \in SUBSET Link
        BY <1>0, <2>2, Kinds
      <3>3. CASE l \in links[id] /\ l.to # Join(r.old)
        <4>1. row[l.entry] # None /\ Spells(row[l.entry].path, l.to)
          BY <1>2, <3>3
        <4>2. row'[l.entry] # None
          BY <4>1, RowStays
        <4>3. CASE Crooked(l.to)
          BY <4>2, <4>3
        <4>4. CASE ~Crooked(l.to)
          <5>1. l.to = Join(row[l.entry].path)
            BY <4>1, <4>4
          <5>2. ASSUME r.id = l.entry
                PROVE  FALSE
            <6>1. w \notin contested
              BY <2>2, <5>2
            <6>2. row[r.id].path = r.old
              BY <2>2, <6>1 DEF AsRead
            <6> QED  BY <3>3, <5>1, <5>2, <6>2
          <5>3. row'[l.entry].path = row[l.entry].path
            BY <4>1, <5>2, RowStays
          <5> QED  BY <4>2, <5>1, <5>3
        <4> QED  BY <4>3, <4>4
      <3>4. ASSUME l.to = Join([r.old EXCEPT !.dir = r.dir]),
                   NEW k \in links[id], k.to = Join(r.old), l.entry = k.entry
            PROVE  Addresses(l)
        <4>1. row[l.entry] # None
          BY <1>2, <3>4
        <4>2. l.entry = r.id
          <5>1. links[id] \in Range(links)
            BY <1>0 DEF Range
          <5>2. l.entry \in Bereft(r) \/ l.entry \in {None, r.id}
            BY <3>4, <5>1 DEF Bereft
          <5> QED  BY <1>0, <2>2, <5>2
        <4>3. row[r.id].path = r.old
          <5>1. w \notin contested
            BY <2>2, <4>2
          <5> QED  BY <2>2, <5>1 DEF AsRead
        <4>4. row' = [row EXCEPT ![r.id].path.dir = r.dir]
          BY <2>2, <4>1, <4>2 DEF Moved, Exists
        <4>5. row[r.id] \in Entry
          BY <1>0, <4>1, <4>2
        <4>6. row'[r.id].path = [r.old EXCEPT !.dir = r.dir]
          BY <1>0, <4>2, <4>3, <4>4, <4>5 DEF Entry
        <4>7. row'[l.entry] # None
          BY <4>1, RowStays
        <4> QED  BY <3>4, <4>2, <4>6, <4>7
      <3> QED  BY <3>1, <3>2, <3>3, <3>4, RedirectedLinks
    <2> QED  BY <2>3, <2>4
  <1>5. CASE ~Assigned(w)
    <2>1. ASSUME l \in links[id]
          PROVE  Addresses(l)
      <3>1. row[l.entry] # None /\ Spells(row[l.entry].path, l.to)
        BY <1>2, <2>1
      <3> QED  BY <1>5, <3>1, RowStays
    <2>2. ASSUME NEW set \in SUBSET Link, links'[id] = Reresolved(row', set),
                 \/ set = links[id]
                 \/ row'[id].text \in Texts /\ set = Compiled(row', row'[id].text)
          PROVE  Addresses(l)
      <3>1. l \in set \/ l.entry = Resolve(row', Split(l.to))
        BY <2>2, ReresolvedLinks
      <3>2. l \in set => l \in links[id] \/ l.entry = Resolve(row', Split(l.to))
        BY <2>2, CompiledLinks
      <3> QED  BY <1>1, <2>1, <3>1, <3>2
    <2> QED  BY <1>3, <1>5, <2>1, <2>2, LinksAfter
  <1> QED  BY <1>4, <1>5

-----------------------------------------------------------------------------
(* The theorems.                                                           *)

LEMMA EntryInvInit == EntryInit => EntryInv
  <1> SUFFICES ASSUME EntryInit PROVE EntryInv
    OBVIOUS
  <1>0. /\ \A w \in Workers : req[w] = Idle
        /\ \A id \in Ids : row[id] = None /\ links[id] = {} /\ fts[id] = None /\ blob[id] = None
        /\ tx = None /\ begun = 0 /\ None \notin Workers /\ MaxRequests \in Nat
    BY EntryAssumption DEF EntryInit
  <1>1. StoreTypeOK
    BY <1>0, IdleIsARequest DEF EntryInit, StoreTypeOK, EntryTypeOK, Exists
  <1>2. TxIsImport /\ Alone /\ OwnsFresh /\ ImportIsSound /\ DeletesAreDoomed
    BY <1>0, IdleIsARequest, DrawnIdle DEF TxIsImport, Alone, OwnsFresh, ImportIsSound,
       DeletesAreDoomed
  <1>3. PutIsThere /\ AsRead
    BY <1>0, IdleIsARequest DEF PutIsThere, AsRead
  <1>4. UntouchedAgrees /\ BodyNeverLost /\ LinkAddressesEntry /\ SearchFindsEntries
    BY <1>0 DEF UntouchedAgrees, Untouched, BodyNeverLost, LinkAddressesEntry, SearchFindsEntries,
       Exists
  <1> QED  BY <1>1, <1>2, <1>3, <1>4 DEF EntryInv

LEMMA EntryInvKept == EntryInv /\ [EntryNext]_entryVars => EntryInv'
  <1> SUFFICES ASSUME EntryInv, [EntryNext]_entryVars PROVE EntryInv'
    OBVIOUS
  <1>1. CASE EntryNext
    <2>1. PICK w \in Workers : Step(w)
      BY <1>1 DEF EntryNext, Step
    <2> QED  BY <2>1, TypesKept, TxKept, AloneKept, OwnsKept, SoundKept, PutKept, ReadKept,
               DeletesKept, UntouchedKept, BodyKept, LinksKept, SearchKept DEF EntryInv
  <1>2. CASE UNCHANGED entryVars
    <2>1. /\ row' = row /\ links' = links /\ fts' = fts /\ blob' = blob /\ req' = req /\ tx' = tx
          /\ born' = born /\ begun' = begun /\ contested' = contested /\ disturbed' = disturbed
          /\ strayed' = strayed /\ doomed' = doomed /\ rewritten' = rewritten
          /\ imported' = imported
      BY <1>2 DEF entryVars, tables, traces
    <2>2. StoreTypeOK'
      BY <2>1 DEF EntryInv, StoreTypeOK, EntryTypeOK, Exists
    <2>3. TxIsImport' /\ Alone' /\ DeletesAreDoomed' /\ AsRead' /\ PutIsThere'
      BY <2>1 DEF EntryInv, TxIsImport, Alone, DeletesAreDoomed, AsRead, PutIsThere, Exists
    <2>4. OwnsFresh' /\ ImportIsSound'
      BY <2>1 DEF EntryInv, OwnsFresh, ImportIsSound, Exists
    <2>5. UntouchedAgrees'
      BY <2>1 DEF EntryInv, UntouchedAgrees, Untouched, Agrees, Exists
    <2>6. BodyNeverLost' /\ LinkAddressesEntry' /\ SearchFindsEntries'
      BY <2>1 DEF EntryInv, BodyNeverLost, LinkAddressesEntry, SearchFindsEntries, Exists
    <2> QED  BY <2>2, <2>3, <2>4, <2>5, <2>6 DEF EntryInv
  <1> QED  BY <1>1, <1>2

LEMMA EntryInvHolds == EntrySpec => []EntryInv
  BY EntryInvInit, EntryInvKept, PTL DEF EntrySpec

\* The tables stay well-formed: Create, Update, Assign, Delete, Import and CompileProject,
\* however they interleave, fail or are cut short, never leave two entries with one path,
\* nor links of an entry that has no row.
THEOREM TablesAreSound == EntrySpec => []EntryTypeOK
  <1>1. EntryInv => EntryTypeOK
    BY DEF EntryInv, StoreTypeOK
  <1> QED  BY <1>1, EntryInvHolds, PTL

\* Once the requests about an entry are answered, its body in MinIO, its hash, its links and
\* its search row are of one text, unless the last write was contested or cut short.
THEOREM SettledEntriesAgree == EntrySpec => []SettledAgrees
  <1>1. EntryInv => SettledAgrees
    BY DEF EntryInv, UntouchedAgrees, Untouched, Agrees, SettledAgrees, Settled
  <1> QED  BY <1>1, EntryInvHolds, PTL

\* No interleaving of requests, failed import or crash leaves a row without its body:
\* undoBlobWrites removes only bodies of ids that nobody else can know.
THEOREM BodiesAreKept == EntrySpec => []BodyNeverLost
  <1>1. EntryInv => BodyNeverLost
    BY DEF EntryInv
  <1> QED  BY <1>1, EntryInvHolds, PTL

\* A resolved link is spelled with the path of its entry, although Assign rewrites links by
\* the path it read, and not by the entry they resolved to; unless it is spelled in a way
\* that resolves and that Assign does not look for.
THEOREM LinksFollowMoves == EntrySpec => []LinkAddressesEntry
  <1>1. EntryInv => LinkAddressesEntry
    BY DEF EntryInv
  <1> QED  BY <1>1, EntryInvHolds, PTL

\* A search row outlives its entry only after a contested Delete.
THEOREM SearchRowsHaveEntries == EntrySpec => []SearchFindsEntries
  <1>1. EntryInv => SearchFindsEntries
    BY DEF EntryInv
  <1> QED  BY <1>1, EntryInvHolds, PTL

-----------------------------------------------------------------------------
(* The facets of the bodies.  A body is written from a vocabulary that was *)
(* read earlier, so the invariant is about the requests under way too:     *)
(* what each is going to write is known, was lost since it read, or,       *)
(* before its transaction, is among the facets it is going to create.      *)

\* Bodies in MinIO, with or without a row.
BodiesKnown == \A d \in Docs : uses[d] \subseteq Effective \cup excused[d]

SavesKnown ==
    \A c \in Callers :
        call[c].op = "save" => call[c].uses \subseteq Effective \cup gone[c]

\* Once the transaction is open, what was missing is in it.
Creating(c) == IF c \in open THEN {} ELSE call[c].missing

ImportsKnown ==
    \A c \in Callers :
        call[c].op = "import" =>
            \A d \in DOMAIN call[c].files :
                call[c].files[d] \subseteq Effective \cup gone[c] \cup Creating(c)

VocabInv == VocabTypeOK /\ BodiesKnown /\ SavesKnown /\ ImportsKnown


-----------------------------------------------------------------------------
(* Requests.                                                               *)

AddCalls == [op : {"add"}, name : Kebab]
SaveCalls == [op : {"save"}, doc : Docs, uses : CardSets, put : BOOLEAN]
ImportCalls == [op : {"import"}, files : Uploads, missing : SUBSET Kebab, written : SUBSET Docs]

LEMMA CallIsOneOf == Call = {Free} \cup AddCalls \cup SaveCalls \cup ImportCalls
  BY DEF Call, AddCalls, SaveCalls, ImportCalls

\* The name of the operation tells which fields a request has.
LEMMA CallKinds ==
  ASSUME NEW r \in Call
  PROVE  /\ r.op = "add" <=> r \in AddCalls
         /\ r.op = "save" <=> r \in SaveCalls
         /\ r.op = "import" <=> r \in ImportCalls
         /\ r.op \notin {"add", "save", "import"} <=> r = Free
  <1>1. CASE r = Free
    BY <1>1 DEF Free, AddCalls, SaveCalls, ImportCalls
  <1>2. CASE r \in AddCalls
    BY <1>2 DEF Free, AddCalls, SaveCalls, ImportCalls
  <1>3. CASE r \in SaveCalls
    BY <1>3 DEF Free, AddCalls, SaveCalls, ImportCalls
  <1>4. CASE r \in ImportCalls
    BY <1>4 DEF Free, AddCalls, SaveCalls, ImportCalls
  <1> QED  BY <1>1, <1>2, <1>3, <1>4, CallIsOneOf

\* What an import uploads, entry by entry.
LEMMA UploadTyped ==
  ASSUME NEW files \in Uploads
  PROVE  DOMAIN files \subseteq Docs /\ \A d \in DOMAIN files : files[d] \subseteq Names
  BY VocabularyAssumption

-----------------------------------------------------------------------------
(* Types.                                                                  *)

LEMMA VocabTyped ==
  ASSUME VocabTypeOK, [VocabNext]_vocabVars
  PROVE  VocabTypeOK'
  <1> USE DEF VocabTypeOK
  <1>a. Free \in Call /\ Free.op = "free"
    BY DEF Call, Free
  <1>ask. ASSUME NEW c \in Callers, NEW r \in Call, r # Free, Ask(c, r)
          PROVE  VocabTypeOK'
    <2>1. call' \in [Callers -> Call] /\ calls' \in 0 .. MaxCalls
      BY <1>ask, VocabularyAssumption DEF Ask
    <2>2. \A e \in Callers : call'[e] = Free => gone'[e] = {}
      BY <1>ask DEF Ask, ghosts
    <2>3. /\ open' \subseteq {e \in Callers : call'[e].op = "import"}
          /\ \A b, e \in open' : b = e
      BY <1>ask, <1>a DEF Ask
    <2> QED  BY <1>ask, <2>1, <2>2, <2>3 DEF Ask, tablesOfFacets, ghosts
  <1>answered. ASSUME NEW c \in Callers, Answered(c)
               PROVE  /\ call' \in [Callers -> Call] /\ calls' \in 0 .. MaxCalls
                      /\ gone' \in [Callers -> SUBSET Names]
                      /\ \A e \in Callers : call'[e] = Free => gone'[e] = {}
    BY <1>answered, <1>a DEF Answered
  <1>excuse. ASSUME NEW lost \in SUBSET Names, Excuse(lost), call' \in [Callers -> Call]
             PROVE  /\ gone' \in [Callers -> SUBSET Names]
                    /\ excused' \in [Docs -> SUBSET Names]
                    /\ \A e \in Callers : call'[e] = Free => gone'[e] = {}
    BY <1>excuse DEF Excuse
  <1>1. ASSUME NEW f \in Names, CreateGlobal(f)
        PROVE  VocabTypeOK'
    BY <1>1 DEF CreateGlobal, ghosts
  <1>2. ASSUME NEW f \in Names, DeleteGlobal(f)
        PROVE  VocabTypeOK'
    <2>1. {f} \ own \in SUBSET Names /\ Excuse({f} \ own) /\ call' = call
      BY <1>2 DEF DeleteGlobal
    <2> QED  BY <1>2, <2>1, <1>excuse DEF DeleteGlobal
  <1>3. ASSUME NEW f \in Names, DeleteForProject(f)
        PROVE  VocabTypeOK'
    <2>1. {f} \ facets \in SUBSET Names /\ Excuse({f} \ facets) /\ call' = call
      BY <1>3 DEF DeleteForProject
    <2> QED  BY <1>3, <2>1, <1>excuse DEF DeleteForProject
  <1>4. ASSUME NEW c \in Callers, CreateForProject(c)
        PROVE  VocabTypeOK'
    <2>1. PICK f \in Kebab : Ask(c, [op |-> "add", name |-> f])
      BY <1>4 DEF CreateForProject
    <2>2. [op |-> "add", name |-> f] \in Call /\ [op |-> "add", name |-> f] # Free
      BY DEF Call, Free
    <2> QED  BY <2>1, <2>2, <1>ask
  <1>5. ASSUME NEW c \in Callers, InsertForProject(c)
        PROVE  VocabTypeOK'
    <2>1. call[c].name \in Kebab
      BY <1>5, CallKinds DEF InsertForProject, AddCalls
    <2>2. c \notin open
      BY <1>5 DEF InsertForProject, NoTransaction
    <2> QED  BY <1>5, <2>1, <2>2, <1>answered DEF InsertForProject, Answered, NoTransaction
  <1>6. ASSUME NEW c \in Callers, Validate(c)
        PROVE  VocabTypeOK'
    <2>1. PICK d \in Docs, used \in CardSets :
            Ask(c, [op |-> "save", doc |-> d, uses |-> used, put |-> FALSE])
      BY <1>6 DEF Validate
    <2> DEFINE r == [op |-> "save", doc |-> d, uses |-> used, put |-> FALSE]
    <2>2. r \in Call /\ r # Free
      BY DEF Call, Free
    <2> QED  BY <2>1, <2>2, <1>ask
  <1>7. ASSUME NEW c \in Callers, SavePut(c)
        PROVE  VocabTypeOK'
    <2> DEFINE r == [call[c] EXCEPT !.put = TRUE]
    <2>1. call[c] \in SaveCalls
      BY <1>7, CallKinds DEF SavePut
    <2>2. r \in SaveCalls /\ r \in Call /\ r # Free /\ r.op = "save"
      BY <2>1 DEF SaveCalls, Call, Free
    <2>3. call[c].doc \in Docs /\ call[c].uses \in SUBSET Names
      BY <2>1, VocabularyAssumption DEF SaveCalls
    <2>4. call' = [call EXCEPT ![c] = r] /\ UNCHANGED <<calls, gone, facets, own, stored, open>>
      BY <1>7 DEF SavePut, Proceed, tablesOfFacets
    <2>5. c \notin open
      BY <2>1 DEF SaveCalls
    <2>6. /\ uses' = [uses EXCEPT ![call[c].doc] = call[c].uses]
          /\ excused' = [excused EXCEPT ![call[c].doc] = gone[c]]
      BY <1>7 DEF SavePut
    <2>7. call' \in [Callers -> Call] /\ open' \subseteq {e \in Callers : call'[e].op = "import"}
      BY <2>2, <2>4, <2>5
    <2>8. \A e \in Callers : call'[e] = Free => gone'[e] = {}
      BY <2>2, <2>4
    <2>9. uses' \in [Docs -> SUBSET Names] /\ excused' \in [Docs -> SUBSET Names]
      BY <2>3, <2>6
    <2> QED  BY <2>4, <2>7, <2>8, <2>9
  <1>8. ASSUME NEW c \in Callers, SaveCommit(c)
        PROVE  VocabTypeOK'
    <2>1. call[c].doc \in Docs
      BY <1>8, CallKinds DEF SaveCommit, SaveCalls
    <2> QED
      BY <1>8, <2>1, <1>answered DEF SaveCommit, NoTransaction, tablesOfFacets
  <1>9. ASSUME NEW c \in Callers, ImportValidate(c)
        PROVE  VocabTypeOK'
    <2>1. PICK files \in Uploads :
            /\ Missing(files) \subseteq Kebab
            /\ Ask(c, [op |-> "import", files |-> files, missing |-> Missing(files), written |-> {}])
      BY <1>9 DEF ImportValidate
    <2> DEFINE r == [op |-> "import", files |-> files, missing |-> Missing(files), written |-> {}]
    <2>3. r \in Call /\ r # Free
      BY <2>1 DEF Call, Free
    <2> QED  BY <2>1, <2>3, <1>ask
  <1>10. ASSUME NEW c \in Callers, ImportCreate(c)
         PROVE  VocabTypeOK'
    <2>1. call[c].missing \subseteq Kebab /\ call[c].op = "import"
      BY <1>10, CallKinds DEF ImportCreate, ImportCalls
    <2> QED  BY <1>10, <2>1 DEF ImportCreate, ghosts
  <1>11. ASSUME NEW c \in Callers, ImportRefused(c)
         PROVE  VocabTypeOK'
    BY <1>11, <1>answered DEF ImportRefused, NoTransaction, tablesOfFacets
  <1>12. ASSUME NEW c \in Callers, ImportWrite(c)
         PROVE  VocabTypeOK'
    <2>1. call[c] \in ImportCalls /\ call[c].op = "import"
      BY <1>12, CallKinds DEF ImportWrite
    <2>2. PICK d \in DOMAIN call[c].files \ call[c].written :
            /\ uses' = [uses EXCEPT ![d] = call[c].files[d]]
            /\ excused' = [excused EXCEPT ![d] = gone[c]]
            /\ Proceed(c, [call[c] EXCEPT !.written = @ \cup {d}])
      BY <1>12 DEF ImportWrite
    <2> DEFINE r == [call[c] EXCEPT !.written = @ \cup {d}]
    <2>3. d \in Docs /\ call[c].files[d] \in SUBSET Names
      BY <2>1, UploadTyped DEF ImportCalls
    <2>4. r \in ImportCalls /\ r \in Call /\ r # Free /\ r.op = "import"
      BY <2>1, <2>3 DEF ImportCalls, Call, Free
    <2>5. call' = [call EXCEPT ![c] = r] /\ UNCHANGED <<calls, gone, facets, own, stored, open>>
      BY <1>12, <2>2 DEF ImportWrite, Proceed, tablesOfFacets
    <2>6. call' \in [Callers -> Call] /\ open' \subseteq {e \in Callers : call'[e].op = "import"}
      BY <2>4, <2>5
    <2>7. \A e \in Callers : call'[e] = Free => gone'[e] = {}
      BY <2>4, <2>5
    <2>8. uses' \in [Docs -> SUBSET Names] /\ excused' \in [Docs -> SUBSET Names]
      BY <2>2, <2>3
    <2> QED  BY <2>5, <2>6, <2>7, <2>8
  <1>13. ASSUME NEW c \in Callers, ImportDone(c)
         PROVE  VocabTypeOK'
    <2>1. DOMAIN call[c].files \subseteq Docs
      BY <1>13, CallKinds, UploadTyped DEF ImportDone, ImportCalls
    <2> QED  BY <1>13, <2>1, <1>answered DEF ImportDone, tablesOfFacets
  <1>14. ASSUME NEW c \in Callers, ImportRollback(c)
         PROVE  VocabTypeOK'
    <2>1. call[c].missing \ facets \in SUBSET Names
      BY <1>14, CallKinds, VocabularyAssumption DEF ImportRollback, ImportCalls
    <2>2. call' \in [Callers -> Call] /\ Excuse(call[c].missing \ facets)
      BY <1>14, <1>a DEF ImportRollback
    <2> QED  BY <1>14, <2>1, <2>2, <1>excuse DEF ImportRollback
  <1>15. ASSUME NEW c \in Callers, GiveUp(c)
         PROVE  VocabTypeOK'
    <2>1. c \notin open
      BY <1>15 DEF GiveUp
    <2> QED  BY <1>15, <2>1, <1>answered DEF GiveUp, Answered, tablesOfFacets
  <1>16. CASE UNCHANGED vocabVars
    BY <1>16 DEF vocabVars, tablesOfFacets, ghosts
  <1> QED
    BY <1>1, <1>2, <1>3, <1>4, <1>5, <1>6, <1>7, <1>8, <1>9, <1>10, <1>11, <1>12, <1>13,
       <1>14, <1>15, <1>16 DEF VocabNext


-----------------------------------------------------------------------------
(* What is written, and what is about to be, is known.                     *)

\* A facet leaves the vocabulary: whoever had counted on it is excused.
LEMMA LossIsExcused ==
  ASSUME VocabInv, NEW lost \in SUBSET Names, Excuse(lost),
         \A d \in Docs : uses'[d] \subseteq uses[d],
         Effective \subseteq Effective' \cup lost
  PROVE  BodiesKnown'
  BY DEF VocabInv, VocabTypeOK, BodiesKnown, Excuse

\* What a request is about to write stays known while the request stays as it is, nothing
\* it has read goes without being noted, and what its transaction holds goes nowhere.
LEMMA RequestsStayKnown ==
  ASSUME VocabInv, NEW c \in Callers, call'[c] = call[c],
         c \in open <=> c \in open',
         call[c] # Free => Effective \cup gone[c] \subseteq Effective' \cup gone'[c]
  PROVE  /\ call[c].op = "save" => call'[c].uses \subseteq Effective' \cup gone'[c]
         /\ call[c].op = "import" =>
              \A d \in DOMAIN call'[c].files :
                 call'[c].files[d] \subseteq Effective' \cup gone'[c] \cup Creating(c)'
  <1>1. call[c].op \in {"save", "import"} => call[c] # Free
    BY DEF Free
  <1>2. Creating(c)' = Creating(c)
    BY DEF Creating
  <1> QED  BY <1>1, <1>2 DEF VocabInv, SavesKnown, ImportsKnown

LEMMA VocabStep ==
  ASSUME VocabInv, [VocabNext]_vocabVars
  PROVE  VocabInv'
  <1>t. VocabTypeOK /\ VocabTypeOK'
    BY VocabTyped DEF VocabInv
  <1> DEFINE Kept(c) ==
        /\ call[c].op = "save" => call'[c].uses \subseteq Effective' \cup gone'[c]
        /\ call[c].op = "import" =>
              \A d \in DOMAIN call'[c].files :
                 call'[c].files[d] \subseteq Effective' \cup gone'[c] \cup Creating(c)'
             NoReader(c) == call'[c].op \notin {"save", "import"}
  <1>known. ASSUME \A c \in Callers : NoReader(c) \/ (call'[c].op = call[c].op /\ Kept(c))
            PROVE  SavesKnown' /\ ImportsKnown'
    BY <1>known DEF SavesKnown, ImportsKnown
  <1>bodies. ASSUME UNCHANGED <<uses, excused>>, Effective \subseteq Effective'
             PROVE  BodiesKnown'
    BY <1>bodies DEF VocabInv, BodiesKnown
  \* Removal by hand.
  <1>removal. ASSUME NEW lost \in SUBSET Names, Excuse(lost), UNCHANGED <<uses, call, open>>,
                     Effective \subseteq Effective' \cup lost
              PROVE  BodiesKnown' /\ SavesKnown' /\ ImportsKnown'
    <2>1. \A c \in Callers : call[c] # Free => gone'[c] = gone[c] \cup lost
      BY <1>removal DEF Excuse
    <2>2. \A c \in Callers : Kept(c) /\ call'[c] = call[c]
      BY <1>removal, <2>1, RequestsStayKnown
    <2> QED  BY <1>removal, <2>2, <1>known, LossIsExcused
  \* A request is made, with a vocabulary that was just read, or none it counts on.
  <1>ask. ASSUME NEW c \in Callers, NEW r, Ask(c, r),
                 r.op \in {"add", "save", "import"},
                 r.op = "save" => r.uses \subseteq Effective,
                 r.op = "import" =>
                   \A d \in DOMAIN r.files : r.files[d] \subseteq Effective \cup r.missing
          PROVE  BodiesKnown' /\ SavesKnown' /\ ImportsKnown'
    <2>1. /\ call' = [call EXCEPT ![c] = r] /\ call'[c] = r
          /\ UNCHANGED <<facets, own, uses, open, gone, excused>>
          /\ open = {}
      BY <1>ask, <1>t DEF Ask, tablesOfFacets, ghosts, NoTransaction, VocabTypeOK
    <2>2. Effective' = Effective
      BY <2>1 DEF Effective
    <2>3. \A e \in Callers \ {c} : call'[e] = call[e] /\ Kept(e)
      <3>1. \A e \in Callers \ {c} : call'[e] = call[e]
        BY <2>1, <1>t DEF VocabTypeOK
      <3> QED  BY <3>1, <2>1, <2>2, RequestsStayKnown
    <2>4. Creating(c)' = r.missing
      BY <2>1 DEF Creating
    <2>5. SavesKnown'
      BY <1>ask, <2>1, <2>2, <2>3 DEF SavesKnown
    <2>6. ImportsKnown'
      BY <1>ask, <2>1, <2>2, <2>3, <2>4 DEF ImportsKnown
    <2> QED  BY <2>1, <2>2, <2>5, <2>6, <1>bodies
  \* A request ends; the vocabulary does not shrink, and no transaction of others ends.
  <1>answered. ASSUME NEW c \in Callers, Answered(c), Effective \subseteq Effective',
                      \A e \in Callers \ {c} : e \in open <=> e \in open'
               PROVE  SavesKnown' /\ ImportsKnown'
    <2>1. \A e \in Callers \ {c} : call'[e] = call[e] /\ gone'[e] = gone[e]
      BY <1>answered, <1>t DEF Answered, VocabTypeOK
    <2>2. \A e \in Callers \ {c} : Kept(e)
      BY <1>answered, <2>1, RequestsStayKnown
    <2>3. NoReader(c)
      BY <1>answered, <1>t DEF Answered, VocabTypeOK, Free
    <2> QED  BY <2>1, <2>2, <2>3, <1>known
  <1>1. ASSUME NEW f \in Names, CreateGlobal(f)
        PROVE  BodiesKnown' /\ SavesKnown' /\ ImportsKnown'
    <2>1. /\ UNCHANGED <<uses, call, open, gone, excused>>
          /\ Effective \subseteq Effective'
      BY <1>1 DEF CreateGlobal, Effective, ghosts
    <2>2. \A c \in Callers : Kept(c) /\ call'[c] = call[c]
      BY <2>1, RequestsStayKnown
    <2> QED  BY <2>1, <2>2, <1>known, <1>bodies
  <1>2. ASSUME NEW f \in Names, DeleteGlobal(f)
        PROVE  BodiesKnown' /\ SavesKnown' /\ ImportsKnown'
    <2>1. /\ UNCHANGED <<uses, call, open>>
          /\ Effective \subseteq Effective' \cup ({f} \ own)
          /\ Excuse({f} \ own)
      BY <1>2 DEF DeleteGlobal, Effective
    <2> QED  BY <2>1, <1>removal
  <1>3. ASSUME NEW f \in Names, DeleteForProject(f)
        PROVE  BodiesKnown' /\ SavesKnown' /\ ImportsKnown'
    <2>1. /\ UNCHANGED <<uses, call, open>>
          /\ Effective \subseteq Effective' \cup ({f} \ facets)
          /\ Excuse({f} \ facets)
      BY <1>3 DEF DeleteForProject, Effective
    <2> QED  BY <2>1, <1>removal
  <1>4. ASSUME NEW c \in Callers, CreateForProject(c)
        PROVE  BodiesKnown' /\ SavesKnown' /\ ImportsKnown'
    BY <1>4, <1>ask DEF CreateForProject
  <1>5. ASSUME NEW c \in Callers, InsertForProject(c)
        PROVE  BodiesKnown' /\ SavesKnown' /\ ImportsKnown'
    BY <1>5, <1>answered, <1>bodies DEF InsertForProject, Effective
  <1>6. ASSUME NEW c \in Callers, Validate(c)
        PROVE  BodiesKnown' /\ SavesKnown' /\ ImportsKnown'
    BY <1>6, <1>ask DEF Validate, Admitted
  <1>7. ASSUME NEW c \in Callers, SavePut(c)
        PROVE  BodiesKnown' /\ SavesKnown' /\ ImportsKnown'
    <2> DEFINE r == [call[c] EXCEPT !.put = TRUE]
    <2>1. call[c] \in SaveCalls /\ call[c].op = "save"
      BY <1>7, <1>t, CallKinds DEF SavePut, VocabTypeOK
    <2>2. /\ call' = [call EXCEPT ![c] = r] /\ UNCHANGED <<facets, own, open, gone>>
          /\ uses' = [uses EXCEPT ![call[c].doc] = call[c].uses]
          /\ excused' = [excused EXCEPT ![call[c].doc] = gone[c]]
      BY <1>7 DEF SavePut, Proceed, tablesOfFacets
    <2>3. Effective' = Effective
      BY <2>2 DEF Effective
    <2>4. r.op = call[c].op /\ r.uses = call[c].uses
      BY <2>1 DEF SaveCalls
    <2>5. BodiesKnown'
      <3>1. call[c].uses \subseteq Effective \cup gone[c]
        BY <2>1 DEF VocabInv, SavesKnown
      <3> QED  BY <3>1, <2>2, <2>3, <1>t DEF VocabInv, BodiesKnown, VocabTypeOK
    <2>6. call'[c].op = "save" /\ Kept(c)
      BY <2>1, <2>2, <2>3, <2>4, <1>t DEF VocabInv, SavesKnown, VocabTypeOK
    <2>7. \A e \in Callers \ {c} : call'[e] = call[e]
      BY <2>2, <1>t DEF VocabTypeOK
    <2>8. \A e \in Callers \ {c} : Kept(e)
      BY <2>2, <2>3, <2>7, RequestsStayKnown
    <2> QED  BY <2>1, <2>5, <2>6, <2>7, <2>8, <1>known
  <1>8. ASSUME NEW c \in Callers, SaveCommit(c)
        PROVE  BodiesKnown' /\ SavesKnown' /\ ImportsKnown'
    BY <1>8, <1>answered, <1>bodies DEF SaveCommit, Effective, tablesOfFacets
  <1>9. ASSUME NEW c \in Callers, ImportValidate(c)
        PROVE  BodiesKnown' /\ SavesKnown' /\ ImportsKnown'
    <2>1. PICK files \in Uploads :
            Ask(c, [op |-> "import", files |-> files, missing |-> Missing(files), written |-> {}])
      BY <1>9 DEF ImportValidate
    <2>2. \A d \in DOMAIN files : files[d] \subseteq Effective \cup Missing(files)
      BY DEF Missing
    <2> DEFINE r == [op |-> "import", files |-> files, missing |-> Missing(files), written |-> {}]
    <2>3. Ask(c, r) /\ r.op = "import" /\ r.files = files /\ r.missing = Missing(files)
      BY <2>1
    <2> HIDE DEF r
    <2> QED  BY <2>2, <2>3, <1>ask
  <1>10. ASSUME NEW c \in Callers, ImportCreate(c)
         PROVE  BodiesKnown' /\ SavesKnown' /\ ImportsKnown'
    <2>1. /\ UNCHANGED <<facets, uses, call, gone, excused>>
          /\ own' = own \cup call[c].missing
          /\ open = {} /\ open' = {c}
          /\ call[c].op = "import"
      BY <1>10 DEF ImportCreate, NoTransaction, ghosts
    <2>2. Effective' = Effective \cup call[c].missing
      BY <2>1 DEF Effective
    <2>3. \A e \in Callers \ {c} : Kept(e)
      BY <2>1, <2>2, RequestsStayKnown
    <2>4. Kept(c)
      BY <2>1, <2>2 DEF VocabInv, ImportsKnown, Creating
    <2> QED  BY <2>1, <2>2, <2>3, <2>4, <1>known, <1>bodies
  <1>11. ASSUME NEW c \in Callers, ImportRefused(c)
         PROVE  BodiesKnown' /\ SavesKnown' /\ ImportsKnown'
    BY <1>11, <1>answered, <1>bodies DEF ImportRefused, Effective, tablesOfFacets
  <1>12. ASSUME NEW c \in Callers, ImportWrite(c)
         PROVE  BodiesKnown' /\ SavesKnown' /\ ImportsKnown'
    <2>1. call[c] \in ImportCalls /\ call[c].op = "import"
      BY <1>12, <1>t, CallKinds DEF ImportWrite, VocabTypeOK
    <2>2. PICK d \in DOMAIN call[c].files \ call[c].written :
            /\ uses' = [uses EXCEPT ![d] = call[c].files[d]]
            /\ excused' = [excused EXCEPT ![d] = gone[c]]
            /\ Proceed(c, [call[c] EXCEPT !.written = @ \cup {d}])
      BY <1>12 DEF ImportWrite
    <2> DEFINE r == [call[c] EXCEPT !.written = @ \cup {d}]
    <2>3. call' = [call EXCEPT ![c] = r] /\ UNCHANGED <<facets, own, open, gone>>
      BY <1>12, <2>2 DEF ImportWrite, Proceed, tablesOfFacets
    <2>4. Effective' = Effective /\ c \in open
      BY <1>12, <2>3 DEF Effective, ImportWrite
    <2>5. r.op = call[c].op /\ r.files = call[c].files
      BY <2>1 DEF ImportCalls
    <2>6. \A e \in DOMAIN call[c].files : call[c].files[e] \subseteq Effective \cup gone[c]
      BY <2>1, <2>4 DEF VocabInv, ImportsKnown, Creating
    <2>7. BodiesKnown'
      BY <2>2, <2>4, <2>6, <1>t DEF VocabInv, BodiesKnown, VocabTypeOK
    <2>8. call'[c].op = "import" /\ Kept(c)
      BY <2>1, <2>3, <2>4, <2>5, <2>6, <1>t DEF VocabTypeOK
    <2>9. \A e \in Callers \ {c} : call'[e] = call[e]
      BY <2>3, <1>t DEF VocabTypeOK
    <2>10. \A e \in Callers \ {c} : Kept(e)
      BY <2>3, <2>4, <2>9, RequestsStayKnown
    <2> QED  BY <2>1, <2>7, <2>8, <2>9, <2>10, <1>known
  <1>13. ASSUME NEW c \in Callers, ImportDone(c)
         PROVE  BodiesKnown' /\ SavesKnown' /\ ImportsKnown'
    <2>1. \A e \in Callers \ {c} : e \in open <=> e \in open'
      BY <1>13, <1>t DEF ImportDone, VocabTypeOK
    <2> QED
      BY <1>13, <2>1, <1>answered, <1>bodies DEF ImportDone, Effective, tablesOfFacets
  <1>14. ASSUME NEW c \in Callers, ImportRollback(c)
         PROVE  BodiesKnown' /\ SavesKnown' /\ ImportsKnown'
    <2> DEFINE lost == call[c].missing \ facets
    <2>1. lost \in SUBSET Names
      BY <1>14, <1>t, CallKinds, VocabularyAssumption
         DEF ImportRollback, ImportCalls, VocabTypeOK
    <2>2. /\ Excuse(lost) /\ Effective \subseteq Effective' \cup lost
          /\ call' = [call EXCEPT ![c] = Free]
          /\ \A d \in Docs : uses'[d] \subseteq uses[d]
      BY <1>14 DEF ImportRollback, Effective
    <2>3. \A e \in Callers \ {c} : call'[e] = call[e] /\ (e \in open <=> e \in open')
      BY <1>14, <2>2, <1>t DEF ImportRollback, VocabTypeOK
    <2>4. \A e \in Callers \ {c} : call[e] # Free => gone'[e] = gone[e] \cup lost
      BY <2>2, <2>3 DEF Excuse
    <2>5. \A e \in Callers \ {c} : Kept(e)
      BY <2>2, <2>3, <2>4, RequestsStayKnown
    <2>6. NoReader(c)
      BY <2>2, <1>t DEF VocabTypeOK, Free
    <2> QED  BY <2>1, <2>2, <2>3, <2>5, <2>6, <1>known, LossIsExcused
  <1>15. ASSUME NEW c \in Callers, GiveUp(c)
         PROVE  BodiesKnown' /\ SavesKnown' /\ ImportsKnown'
    BY <1>15, <1>answered, <1>bodies DEF GiveUp, Effective, tablesOfFacets
  <1>16. CASE UNCHANGED vocabVars
    <2>1. UNCHANGED <<facets, own, uses, call, open, gone, excused>>
      BY <1>16 DEF vocabVars, tablesOfFacets, ghosts
    <2>2. Effective' = Effective
      BY <2>1 DEF Effective
    <2>3. \A c \in Callers : Kept(c)
      BY <2>1, <2>2, RequestsStayKnown
    <2>4. BodiesKnown' /\ SavesKnown' /\ ImportsKnown'
      BY <2>1, <2>2, <2>3, <1>known, <1>bodies
    <2> QED  BY <2>4, <1>t DEF VocabInv
  <1> QED
    BY <1>t, <1>1, <1>2, <1>3, <1>4, <1>5, <1>6, <1>7, <1>8, <1>9, <1>10, <1>11, <1>12, <1>13,
       <1>14, <1>15, <1>16 DEF VocabNext, VocabInv

-----------------------------------------------------------------------------
(* The theorems.                                                           *)

LEMMA VocabStart == VocabInit => VocabInv
  <1> SUFFICES ASSUME VocabInit PROVE VocabInv
    OBVIOUS
  <1>1. VocabTypeOK
    BY VocabularyAssumption DEF VocabInit, VocabTypeOK, Call, Free
  <1>2. BodiesKnown /\ SavesKnown /\ ImportsKnown
    BY DEF VocabInit, BodiesKnown, SavesKnown, ImportsKnown, Free
  <1> QED  BY <1>1, <1>2 DEF VocabInv

\* The inductive invariant: effectiveFacetVocabulary and the handlers that write bodies
\* from it keep it in every reachable state.
THEOREM VocabInvariance == VocabSpec => []VocabInv
  <1>1. VocabInv /\ [VocabNext]_vocabVars => VocabInv'
    BY VocabStep
  <1> QED  BY <1>1, VocabStart, PTL DEF VocabSpec

\* No name that is not in kebab case gets into a vocabulary, by FacetsHandler or by an
\* import, and no two imports are in their transactions at once.
THEOREM VocabTypeCorrect == VocabSpec => []VocabTypeOK
  <1>1. VocabInv => VocabTypeOK
    BY DEF VocabInv
  <1> QED  BY <1>1, VocabInvariance, PTL

\* What validateFacets admitted, or an import with createFacets made known, stays known
\* until it is removed or rolled back.
THEOREM WrittenIsKnown == VocabSpec => []UsedIsKnown
  <1>1. VocabInv => UsedIsKnown
    BY DEF VocabInv, VocabTypeOK, BodiesKnown, UsedIsKnown
  <1> QED  BY <1>1, VocabInvariance, PTL

-----------------------------------------------------------------------------
(* The cutover.  A run of the tool relies on what content answered, and    *)
(* the operator on a run, so the invariant says what each of them knows:   *)
(* an entry that was counted as imported is in content or has lost its     *)
(* path (ToolKnows), and so is one that a run that ended well has not      *)
(* skipped (RunsAreRight).  That the tables are not dropped before is a    *)
(* matter of versions: only a svc that was launched after such a run gets  *)
(* to version 8 (TablesStay).                                              *)

-----------------------------------------------------------------------------
(* Invariants.                                                             *)

\* In content, or somebody has its path.
Accounted(e) == InContent(e) \/ Usurped(e)

\* Why a run takes an entry for failed: its object, its conversion, or that of an entry
\* of the same path, which has not failed itself.
FailedForCause(failed) ==
    /\ failed \subseteq Entries
    /\ \A e \in failed :
          \/ legacy[e].blob
          \/ \E d \in Entries :
                Paths[d] = Paths[e] /\ Faulty(d) /\ (d = e \/ d \notin failed)

ContentIsPlaced ==
    \A x \in content : \E e \in Entries : x = Place(e, e) \/ x = Place(e, Others)

ToolKnows ==
    /\ tool.pc # "idle" => FailedForCause(tool.failed)
    /\ tool.pc = "importing" =>
          /\ \A e \in tool.imported : Accounted(e) /\ Acceptable(e)
          /\ \A e \in Entries : e < tool.at => Skipped(e) \/ e \in tool.imported \/ tool.errors
    /\ tool.pc = "cleaning" =>
          /\ \A e \in tool.left : Accounted(e)
          /\ \A e \in Entries : Skipped(e) \/ (Accounted(e) /\ Acceptable(e))

RunsAreRight ==
    verified # Not => \A e \in Entries : e \in verified \/ Accounted(e)

\* Tables have one of these names.
Name ==
    {"sessions", "campaigns", "players", "entries", "annotations", "quick_view_templates",
     "player_notes", "categories", "categories_v1", "category_default_tags",
     "category_default_tags_v3", "entry_relations", "projects", "project_members",
     "entry_shares", "project_invites", "member_folders", "member_folder_entries",
     "member_entry_meta", "project_global_categories", "user_settings", "game_sessions",
     "chat_messages", "chat_messages_v7", "facets", "project_facets", "entry_links",
     "users", "users_new", "password_reset_tokens"}

Database == [version : Int, refs : UNION {[T -> SUBSET Name] : T \in SUBSET Name},
             rows : SUBSET Name]
HasEntries(d) == "entries" \in Tables(d) /\ "entries" \in d.rows

TablesStay ==
    "entries" \in start.rows =>
        /\ app = "svc" /\ start \in SvcDatabases
        /\ verified = Not =>
              /\ file \in Database /\ file.version \in Nat /\ HasEntries(file)
              /\ proc.who # "svc"

ProcTypeOK ==
    /\ proc \in [who : {"svc", "tool", "auth", "nobody"},
                 pc : {"gone", "migrating", "refused", "open"}]
    /\ proc.pc # "gone" => proc.who # "nobody" /\ App(proc.who) = app

Importing == [pc : {"importing"}, failed : SUBSET Entries, cleanup : BOOLEAN,
              at : Nat \ {0}, imported : SUBSET Entries, errors : BOOLEAN]
Cleaning == [pc : {"cleaning"}, failed : SUBSET Entries, errors : BOOLEAN,
             left : SUBSET Entries]

ToolTypeOK ==
    /\ legacy \in Seq(LegacyEntry) /\ blobs \subseteq Entries
    /\ verified = Not \/ verified \subseteq Entries
    /\ tool \in {IdleTool} \cup Importing \cup Cleaning

EntriesOK ==
    /\ ToolTypeOK /\ ContentIsPlaced /\ ToolKnows /\ RunsAreRight
    /\ CleanedIsInContent /\ SkippedForCause

CutoverInv == EntriesOK /\ ProcTypeOK /\ TablesStay

-----------------------------------------------------------------------------
(* Statements.                                                             *)

\* Induction for a set of numbers: the least number outside it would follow one inside.
LEMMA NaturalsFrom ==
  ASSUME NEW S, 0 \in S, \A n \in Nat : n \in S => n + 1 \in S
  PROVE  \A n \in Nat : n \in S
  <1> DEFINE T == Nat \ S
             R == {ss \in Nat \X Nat : ss[1] < ss[2]}
  <1> SUFFICES ASSUME T # {} PROVE FALSE
    OBVIOUS
  <1>1. IsWellFoundedOn(R, Nat)
    BY NatLessThanWellFounded DEF OpToRel
  <1>2. PICK x \in T : \A y \in T : ~ (<<y, x>> \in R)
    <2> HIDE DEF R
    <2> QED  BY <1>1, WFMin
  <1>3. x # 0 /\ x \in Nat
    OBVIOUS
  <1>4. x - 1 \in Nat /\ <<x - 1, x>> \in R
    BY <1>3
  <1>5. x - 1 \in S
    BY <1>2, <1>4
  <1>6. (x - 1) + 1 = x
    BY <1>3
  <1> QED  BY <1>4, <1>5, <1>6

LEMMA StepByStep ==
  ASSUME NEW N \in Nat, NEW S, NEW f, f[0] \in S, \A n \in 1 .. N : f[n - 1] \in S => f[n] \in S
  PROVE  \A n \in 0 .. N : f[n] \in S
  <1> DEFINE T == {n \in Nat : n <= N => f[n] \in S}
  <1>1. 0 \in T
    OBVIOUS
  <1>2. ASSUME NEW n \in Nat, n \in T
        PROVE  n + 1 \in T
    <2>1. n + 1 <= N => n + 1 \in 1 .. N /\ (n + 1) - 1 = n /\ f[n] \in S
      BY <1>2
    <2> QED  BY <2>1
  <1>3. \A n \in Nat : n \in T
    <2> HIDE DEF T
    <2> QED  BY <1>1, <1>2, NaturalsFrom
  <1> QED  BY <1>3

\* A function can be defined by recursion.
AreSteps(F, N, S) == F \in [1 .. N -> [S -> S]]
IsRun(f, N, S, a, F) ==
    f \in [0 .. N -> S] /\ f[0] = a /\ \A n \in 1 .. N : f[n] = F[n][f[n - 1]]

LEMMA Recursion ==
  ASSUME NEW N \in Nat, NEW S, NEW a \in S, NEW F, AreSteps(F, N, S)
  PROVE  \E f : IsRun(f, N, S, a, F)
  <1> DEFINE Is(f, k) == f[0] = a /\ \A n \in 1 .. k : f[n] = F[n][f[n - 1]]
             T == {k \in Nat : k <= N => \E f \in [0 .. k -> S] : Is(f, k)}
  <1>1. 0 \in T
    <2> DEFINE f == [n \in 0 .. 0 |-> a]
    <2>1. f \in [0 .. 0 -> S] /\ Is(f, 0)
      OBVIOUS
    <2> HIDE DEF f, Is
    <2> QED  BY <2>1
  <1>2. ASSUME NEW k \in Nat, k \in T
        PROVE  k + 1 \in T
    <2> SUFFICES ASSUME k + 1 <= N
                 PROVE  \E f \in [0 .. k + 1 -> S] : Is(f, k + 1)
      OBVIOUS
    <2>1. PICK f \in [0 .. k -> S] : Is(f, k)
      BY <1>2
    <2>0. F[k + 1] \in [S -> S]
      BY DEF AreSteps
    <2> DEFINE last == F[k + 1][f[k]]
               g == [n \in 0 .. k + 1 |-> IF n = k + 1 THEN last ELSE f[n]]
    <2>2. last \in S
      BY <2>0
    <2>3. g \in [0 .. k + 1 -> S] /\ g[k + 1] = last /\ \A n \in 0 .. k : g[n] = f[n]
      <3> HIDE DEF last
      <3> QED  BY <2>2
    <2>4. Is(g, k + 1)
      <3> HIDE DEF g
      <3>1. g[0] = a
        BY <2>1, <2>3
      <3>2. ASSUME NEW n \in 1 .. k + 1
            PROVE  g[n] = F[n][g[n - 1]]
        <4>1. CASE n = k + 1
          BY <2>3, <4>1
        <4>2. CASE n # k + 1
          <5>1. n \in 1 .. k /\ n \in 0 .. k /\ n - 1 \in 0 .. k
            BY <4>2
          <5>2. f[n] = F[n][f[n - 1]]
            BY <2>1, <5>1
          <5> QED  BY <2>3, <5>1, <5>2
        <4> QED  BY <4>1, <4>2
      <3> QED  BY <3>1, <3>2
    <2> HIDE DEF g, Is
    <2> QED  BY <2>3, <2>4
  <1>3. N \in T
    <2> HIDE DEF T
    <2> QED  BY <1>1, <1>2, NaturalsFrom
  <1> QED  BY <1>3 DEF IsRun

-----------------------------------------------------------------------------
(* Databases.                                                              *)

Stmt ==
    [op : {"create"}, table : Name, refs : SUBSET Name]
      \cup [op : {"column", "seed", "drop"}, table : Name]
      \cup [op : {"rename", "copy"}, table : Name, to : Name]
      \cup [op : {"pragma"}, key : {"foreign_keys=OFF", "foreign_keys=ON"}]

\* A database, or a failed migration.
Good == {d \in Database : d.version \in Nat \/ d = Failed}

LEMMA FailedIsGood == Failed \in Good /\ Failed.version \notin Nat /\ Empty \in Good
  <1> DEFINE none == [t \in {} |-> {}]
  <1>1. none \in [{} -> SUBSET Name] /\ {} \in SUBSET Name
    OBVIOUS
  <1>2. none \in UNION {[T -> SUBSET Name] : T \in SUBSET Name}
    <2> HIDE DEF none
    <2> QED  BY <1>1
  <1>3. Empty = [version |-> 0, refs |-> none, rows |-> {}]
    BY DEF Empty
  <1> HIDE DEF none
  <1>4. Empty \in Database /\ Empty.version = 0
    BY <1>2, <1>3 DEF Database
  <1>5. Failed \in Database /\ Failed.version = -1
    BY <1>4 DEF Failed, Database
  <1> QED  BY <1>4, <1>5 DEF Good

\* Other tables or rows make a database of the same version.
LEMMA WithRefs ==
  ASSUME NEW d \in Database, NEW T \in SUBSET Name, NEW r \in [T -> SUBSET Name]
  PROVE  /\ [d EXCEPT !.refs = r] \in Database /\ Tables([d EXCEPT !.refs = r]) = T
         /\ [d EXCEPT !.refs = r].version = d.version /\ [d EXCEPT !.refs = r].rows = d.rows
  BY DEF Database, Tables

LEMMA WithRows ==
  ASSUME NEW d \in Database, NEW R \in SUBSET Name
  PROVE  /\ [d EXCEPT !.rows = R] \in Database /\ Tables([d EXCEPT !.rows = R]) = Tables(d)
         /\ [d EXCEPT !.rows = R].version = d.version /\ [d EXCEPT !.rows = R].rows = R
  BY DEF Database, Tables

\* What a statement leaves of the tables and their rows.
LEMMA StatementDoes ==
  ASSUME NEW s \in Stmt, NEW d \in Database, NEW p, NEW e, e = Statement(s, d, p), e # Failed
  PROVE  /\ e \in Database /\ e.version = d.version
         /\ s.op \notin {"rename", "drop"} => Tables(d) \subseteq Tables(e) /\ d.rows \subseteq e.rows
         /\ s.op \notin {"rename", "create"} => Tables(e) \subseteq Tables(d)
         /\ s.op = "create" => Tables(e) \subseteq Tables(d) \cup {s.table}
         /\ s.op = "rename" =>
               /\ Tables(e) \subseteq Tables(d) \cup {s.to}
               /\ Tables(d) \ {s.table} \subseteq Tables(e) /\ d.rows \ {s.table} \subseteq e.rows
         /\ s.op = "drop" =>
               /\ Tables(d) \ {s.table} \subseteq Tables(e)
               /\ ~p.fk => d.rows \ {s.table} \subseteq e.rows
  <1>1. d.refs \in [Tables(d) -> SUBSET Name] /\ Tables(d) \in SUBSET Name
        /\ d.rows \in SUBSET Name
    BY DEF Database, Tables
  <1>2. CASE s.op = "create"
    <2>1. s.table \in Name /\ s.refs \in SUBSET Name
      BY <1>2 DEF Stmt
    <2>2. CASE s.table \in Tables(d)
      <3>1. e = d
        BY <1>2, <2>2 DEF Statement
      <3> QED  BY <1>2, <3>1
    <2>3. CASE s.table \notin Tables(d)
      <3> DEFINE T == Tables(d) \cup {s.table}
                 r == [x \in T |-> IF x = s.table THEN s.refs ELSE d.refs[x]]
      <3>1. e = [d EXCEPT !.refs = r]
        BY <1>2, <2>3 DEF Statement
      <3>2. r \in [T -> SUBSET Name] /\ T \in SUBSET Name
        BY <1>1, <2>1
      <3> HIDE DEF r, T
      <3>3. e \in Database /\ Tables(e) = T /\ e.version = d.version /\ e.rows = d.rows
        BY <3>1, <3>2, WithRefs
      <3> QED  BY <1>2, <3>3 DEF T
    <2> QED  BY <2>2, <2>3
  <1>3. CASE s.op = "column"
    <2>1. e = d
      BY <1>3 DEF Statement
    <2> QED  BY <1>3, <2>1
  <1>4. CASE s.op = "seed"
    <2>1. s.table \in Name /\ e = [d EXCEPT !.rows = d.rows \cup {s.table}]
      BY <1>4 DEF Statement, Stmt
    <2>2. d.rows \cup {s.table} \in SUBSET Name
      BY <1>1, <2>1
    <2>3. e \in Database /\ Tables(e) = Tables(d) /\ e.version = d.version
          /\ e.rows = d.rows \cup {s.table}
      BY <2>1, <2>2, WithRows
    <2> QED  BY <1>4, <2>3
  <1>5. CASE s.op = "copy"
    <2>1. s.to \in Name /\ (e = d \/ e = [d EXCEPT !.rows = d.rows \cup {s.to}])
      BY <1>5 DEF Statement, Stmt
    <2>2. d.rows \cup {s.to} \in SUBSET Name
      BY <1>1, <2>1
    <2>3. CASE e = [d EXCEPT !.rows = d.rows \cup {s.to}]
      <3>1. e \in Database /\ Tables(e) = Tables(d) /\ e.version = d.version
            /\ e.rows = d.rows \cup {s.to}
        BY <2>2, <2>3, WithRows
      <3> QED  BY <1>5, <3>1
    <2> QED  BY <1>5, <2>1, <2>3
  <1>6. CASE s.op = "pragma"
    <2>1. e = d
      BY <1>6 DEF Statement
    <2> QED  BY <1>6, <2>1
  <1>7. CASE s.op = "drop"
    <2> DEFINE T == Tables(d) \ {s.table}
               r == [x \in T |-> d.refs[x]]
               R == d.rows \ ({s.table} \cup IF p.fk THEN {x \in Tables(d) : s.table \in d.refs[x]}
                                              ELSE {})
    <2>1. e = [d EXCEPT !.refs = r, !.rows = R]
      BY <1>7 DEF Statement, Dropped
    <2>2. r \in [T -> SUBSET Name] /\ T \in SUBSET Name /\ R \in SUBSET Name
      BY <1>1
    <2>3. ~p.fk => R = d.rows \ {s.table}
      OBVIOUS
    <2> HIDE DEF r, T, R
    <2> DEFINE c == [d EXCEPT !.refs = r]
    <2>4. e = [c EXCEPT !.rows = R]
      BY <2>1
    <2>5. c \in Database /\ Tables(c) = T /\ c.version = d.version
      BY <2>2, WithRefs
    <2> HIDE DEF c
    <2>6. /\ [c EXCEPT !.rows = R] \in Database /\ Tables([c EXCEPT !.rows = R]) = Tables(c)
           /\ [c EXCEPT !.rows = R].version = c.version /\ [c EXCEPT !.rows = R].rows = R
      BY <2>2, <2>5, WithRows
    <2>7. e \in Database /\ Tables(e) = T /\ e.version = d.version /\ e.rows = R
      BY <2>4, <2>5, <2>6
    <2> QED  BY <1>7, <2>3, <2>7 DEF T
  <1>8. CASE s.op = "rename"
    <2> DEFINE t == s.table
               u == s.to
               name(x) == IF x = t THEN u ELSE x
               old(x) == IF x = u THEN t ELSE x
               follow == p.fk \/ ~p.legacy
               T == {name(y) : y \in Tables(d)}
               r == [x \in T |-> IF follow THEN {name(y) : y \in d.refs[old(x)]}
                                 ELSE d.refs[old(x)]]
               R == {name(x) : x \in d.rows}
    <2>1. t \in Name /\ u \in Name
      BY <1>8 DEF Stmt
    <2>2. t \in Tables(d) /\ u \notin Tables(d) /\ e = Renamed(d, t, u, p)
      BY <1>8 DEF Statement
    <2>3. e = [d EXCEPT !.refs = r, !.rows = R]
      BY <2>2 DEF Renamed
    <2>4. T = (Tables(d) \ {t}) \cup {u}
      BY <2>2
    <2>5. R \in SUBSET Name /\ d.rows \ {t} \subseteq R
      BY <1>1, <2>1
    <2>6. r \in [T -> SUBSET Name] /\ T \in SUBSET Name
      <3>1. \A x \in T : old(x) \in Tables(d)
        BY <2>2, <2>4
      <3>2. \A x \in T : d.refs[old(x)] \in SUBSET Name
        BY <1>1, <3>1
      <3>3. \A x \in T : {name(y) : y \in d.refs[old(x)]} \in SUBSET Name
        BY <2>1, <3>2
      <3>4. T \in SUBSET Name
        BY <1>1, <2>1, <2>4
      <3> HIDE DEF T, name, old
      <3> QED  BY <3>2, <3>3, <3>4
    <2> HIDE DEF r, T, R
    <2> DEFINE c == [d EXCEPT !.refs = r]
    <2>7. e = [c EXCEPT !.rows = R]
      BY <2>3
    <2>8. c \in Database /\ Tables(c) = T /\ c.version = d.version
      BY <2>5, <2>6, WithRefs
    <2> HIDE DEF c
    <2>9. /\ [c EXCEPT !.rows = R] \in Database /\ Tables([c EXCEPT !.rows = R]) = Tables(c)
           /\ [c EXCEPT !.rows = R].version = c.version /\ [c EXCEPT !.rows = R].rows = R
      BY <2>5, <2>6, <2>8, WithRows
    <2>10. e \in Database /\ Tables(e) = T /\ e.version = d.version /\ e.rows = R
      BY <2>7, <2>8, <2>9
    <2> QED  BY <1>8, <2>4, <2>5, <2>10
  <1> QED  BY <1>2, <1>3, <1>4, <1>5, <1>6, <1>7, <1>8 DEF Stmt

-----------------------------------------------------------------------------
(* Migrations.                                                             *)

\* What every statement keeps, a transaction keeps.
LEMMA ExecKeeps ==
  ASSUME NEW S, Failed \in S, NEW T, NEW stmts \in Seq(T), NEW d \in S, NEW p,
         \A s \in T, x \in S : x # Failed => Statement(s, x, p) \in S
  PROVE  Exec(stmts, d, p) \in S
  <1> DEFINE N == Len(stmts)
             Next_(x, i) == IF x = Failed THEN Failed ELSE Statement(stmts[i], x, p)
             Is(f) == f = [i \in 0 .. N |-> IF i = 0 THEN d ELSE Next_(f[i - 1], i)]
             after[i \in 0 .. N] == IF i = 0 THEN d ELSE Next_(after[i - 1], i)
             F == [i \in 1 .. N |-> [x \in S |-> Next_(x, i)]]
  <1>1. N \in Nat /\ \A i \in 1 .. N : stmts[i] \in T
    OBVIOUS
  <1>2. \A i \in 1 .. N, x \in S : Next_(x, i) \in S
    BY <1>1
  <1>3. after = CHOOSE f : Is(f)
    BY DEF after
  <1>4. Exec(stmts, d, p) = after[N]
    BY DEF Exec
  <1>5. \A i \in 1 .. N, x \in S : F[i][x] = Next_(x, i)
    OBVIOUS
  <1> HIDE DEF N, Next_, F, after
  <1>6. AreSteps(F, N, S)
    BY <1>2 DEF F, AreSteps
  <1>7. PICK f : IsRun(f, N, S, d, F)
    BY <1>1, <1>6, Recursion
  <1>8. \A i \in 1 .. N : f[i - 1] \in S /\ f[i] = Next_(f[i - 1], i)
    BY <1>1, <1>5, <1>7 DEF IsRun
  <1>9. Is(f)
    <2> DEFINE g == [i \in 0 .. N |-> IF i = 0 THEN d ELSE Next_(f[i - 1], i)]
    <2>1. \A i \in 0 .. N : f[i] = g[i]
      BY <1>1, <1>7, <1>8 DEF IsRun
    <2>2. f = g
      <3> HIDE DEF g
      <3>1. g = [i \in 0 .. N |-> g[i]]
        BY DEF g
      <3> QED  BY <1>7, <2>1, <3>1 DEF IsRun
    <2> QED  BY <2>2
  <1>10. Is(after)
    <2> HIDE DEF Is
    <2> QED  BY <1>3, <1>9
  <1>11. after[0] = d /\ \A i \in 1 .. N : after[i] = Next_(after[i - 1], i)
    BY <1>1, <1>10
  <1>12. \A i \in 1 .. N : after[i - 1] \in S => after[i] \in S
    BY <1>2, <1>11
  <1>13. \A i \in 0 .. N : after[i] \in S
    BY <1>1, <1>11, <1>12, StepByStep
  <1> QED  BY <1>1, <1>4, <1>13

\* Statements that leave the legacy entries and their rows alone.
Harmless(p) ==
    {s \in Stmt : /\ s.op \in {"rename", "drop"} => s.table # "entries"
                  /\ s.op = "drop" => ~p.fk}

\* Statements that make no such table.
Elsewhere ==
    {s \in Stmt : (s.op = "create" => s.table # "entries") /\ (s.op = "rename" => s.to # "entries")}

LEMMA StmtsAre ==
  ASSUME NEW p, NEW t \in Name
  PROVE  /\ AddColumn(t) \in Harmless(p) /\ Seed(t) \in Harmless(p)
         /\ \A R \in SUBSET Name : Create(t, R) \in Harmless(p)
         /\ \A u \in Name : Copy(t, u) \in Harmless(p)
         /\ t # "entries" => \A u \in Name : Rename(t, u) \in Harmless(p)
         /\ t # "entries" /\ ~p.fk => Drop(t) \in Harmless(p)
  BY DEF Create, AddColumn, Seed, Drop, Rename, Copy, Stmt, Harmless

LEMMA OtherStmtsAre ==
  /\ \A t \in Name : Drop(t) \in Elsewhere
  /\ \A t \in Name, R \in SUBSET Name : t # "entries" => Create(t, R) \in Elsewhere
  /\ \A t, u \in Name : u # "entries" => Rename(t, u) \in Elsewhere
  /\ \A t, u \in Name : Copy(t, u) \in Elsewhere
  /\ \A k \in {"foreign_keys=OFF", "foreign_keys=ON"} : Pragma(k) \in Elsewhere
  BY DEF Create, Drop, Pragma, Rename, Copy, Stmt, Elsewhere

NewName == Name \ {"entries"}

LEMMA NamesAre ==
  /\ "sessions" \in Name /\ "campaigns" \in Name /\ "players" \in Name /\ "entries" \in Name
  /\ "annotations" \in Name /\ "quick_view_templates" \in Name /\ "player_notes" \in Name
  /\ "categories" \in Name /\ "category_default_tags" \in Name /\ "entry_relations" \in Name
  /\ "projects" \in Name /\ "project_members" \in Name /\ "entry_shares" \in Name
  /\ "project_invites" \in Name /\ "member_folders" \in Name
  /\ "member_folder_entries" \in Name /\ "member_entry_meta" \in Name
  /\ "categories_v1" \in Name /\ "project_global_categories" \in Name
  /\ "category_default_tags_v3" \in Name /\ "user_settings" \in Name
  /\ "game_sessions" \in Name /\ "chat_messages" \in Name /\ "chat_messages_v7" \in Name
  /\ "facets" \in Name /\ "project_facets" \in Name /\ "entry_links" \in Name
  /\ "users" \in Name /\ "users_new" \in Name /\ "password_reset_tokens" \in Name
  BY DEF Name

LEMMA NewNamesAre ==
  /\ "categories" \in NewName /\ "categories_v1" \in NewName
  /\ "category_default_tags" \in NewName /\ "category_default_tags_v3" \in NewName
  /\ "chat_messages" \in NewName /\ "chat_messages_v7" \in NewName
  /\ "users" \in NewName /\ "users_new" \in NewName /\ "password_reset_tokens" \in NewName
  BY NamesAre DEF NewName

LEMMA CreatesAre ==
  ASSUME NEW p, NEW t \in Name
  PROVE  /\ Create(t, {}) \in Harmless(p)
         /\ \A r \in Name : Create(t, {r}) \in Harmless(p)
         /\ \A r, s \in Name : Create(t, {r, s}) \in Harmless(p)
         /\ \A r, s, u \in Name : Create(t, {r, s, u}) \in Harmless(p)
  <1>1. {} \in SUBSET Name /\ \A r, s, u \in Name :
           {r} \in SUBSET Name /\ {r, s} \in SUBSET Name /\ {r, s, u} \in SUBSET Name
    OBVIOUS
  <1> QED  BY <1>1, StmtsAre

LEMMA ListsAre ==
  /\ V1Original \in Seq(Harmless(Enforced)) /\ V1 \in Seq(Harmless(Enforced))
  /\ V2 \in Seq(Harmless(LegacyRename)) /\ V3 \in Seq(Harmless(Enforced))
  /\ V4 \in Seq(Harmless(Unenforced)) /\ V5 \in Seq(Harmless(Enforced))
  /\ V6 \in Seq(Harmless(Enforced)) /\ V7 \in Seq(Harmless(Enforced))
  <1> DEFINE E == Harmless(Enforced)
             U == Harmless(Unenforced)
             L == Harmless(LegacyRename)
  <1>0. ~Unenforced.fk /\ ~LegacyRename.fk
    BY DEF Unenforced, LegacyRename
  <1>1. \A t \in Name : Create(t, {}) \in E
    BY CreatesAre
  <1>2. \A t, r \in Name : Create(t, {r}) \in E
    BY CreatesAre
  <1>3. \A t, r, s \in Name : Create(t, {r, s}) \in E
    BY CreatesAre
  <1>4. \A t, r, s, u \in Name : Create(t, {r, s, u}) \in E
    BY CreatesAre
  <1>5. \A t, r \in Name : Create(t, {r}) \in U /\ Create(t, {r}) \in L
    BY CreatesAre
  <1>6. \A t, r, s \in Name : Create(t, {r, s}) \in L
    BY CreatesAre
  <1>7. \A t \in Name :
           AddColumn(t) \in E /\ AddColumn(t) \in L /\ Seed(t) \in E /\ Seed(t) \in L
    BY StmtsAre
  <1>8. /\ \A t \in NewName : Drop(t) \in U /\ Drop(t) \in L
        /\ \A t \in NewName, u \in Name : Rename(t, u) \in U /\ Rename(t, u) \in L
    BY <1>0, StmtsAre DEF NewName
  <1>9. \A t, u \in Name : Copy(t, u) \in U /\ Copy(t, u) \in L
    BY StmtsAre
  <1> HIDE DEF E, U, L
  <1>10. V1Original \in Seq(E)
    BY <1>1, <1>2, NamesAre DEF V1Original
  <1>11. V1 \in Seq(E)
    <2> DEFINE more ==
    << Create("projects", {}), Create("project_members", {"projects"}),
       Create("entry_shares", {"entries"}), Create("project_invites", {"projects"}),
       Create("member_folders", {"projects"}),
       Create("member_folder_entries", {"member_folders", "entries"}),
       Create("member_entry_meta", {"entries"}),
       AddColumn("entries"), AddColumn("entries"), AddColumn("annotations") >>
    <2>1. more \in Seq(E)
      BY <1>1, <1>2, <1>3, <1>7, NamesAre
    <2>2. V1 = V1Original \o more
      BY DEF V1
    <2> HIDE DEF more
    <2> QED  BY <1>10, <2>1, <2>2
  <1>12. V2 \in Seq(L)
    BY <1>5, <1>6, <1>7, <1>8, <1>9, NamesAre, NewNamesAre DEF V2
  <1>13. V3 \in Seq(E) /\ V5 \in Seq(E)
    BY <1>1, <1>7, NamesAre DEF V3, V5
  <1>14. V6 \in Seq(E)
    <2>1. /\ "projects" \in Name /\ "game_sessions" \in Name /\ "entries" \in Name
          /\ "chat_messages" \in Name
      BY NamesAre
    <2>2. Create("game_sessions", {"projects"}) \in E
      BY <1>2, <2>1
    <2>3. Create("chat_messages", {"game_sessions", "projects", "entries"}) \in E
      BY <1>4, <2>1
    <2> QED  BY <2>2, <2>3 DEF V6
  <1>15. V4 \in Seq(U)
    BY <1>5, <1>8, <1>9, NamesAre, NewNamesAre DEF V4
  <1>16. V7 \in Seq(E)
    BY <1>1, <1>2, <1>7, NamesAre DEF V7
  <1> QED  BY <1>10, <1>11, <1>12, <1>13, <1>14, <1>15, <1>16 DEF E, U, L

LEMMA LegacyTablesAre == LegacyTables \in Seq(Name)
  BY NamesAre DEF LegacyTables

LEMMA LaterListsAre ==
  ASSUME NEW d
  PROVE  /\ V8(d) \in Seq(Stmt)
         /\ AuthV1(d) \in Seq(Elsewhere) /\ AuthV2 \in Seq(Elsewhere)
         /\ <<Create("users", {})>> \in Seq(Elsewhere)
  <1>1. V8(d) \in Seq(Stmt)
    <2> DEFINE drops == [i \in DOMAIN LegacyTables |-> Drop(LegacyTables[i])]
               rebuild ==
                 << Rename("chat_messages", "chat_messages_v7"),
                    Create("chat_messages", {"game_sessions", "projects"}),
                    Copy("chat_messages_v7", "chat_messages"), Drop("chat_messages_v7") >>
               S == Harmless(LegacyRename)
    <2>1. drops \in Seq(Stmt)
      <3>1. \A t \in Name : Drop(t) \in Stmt
        BY DEF Drop, Stmt
      <3> QED  BY <3>1, LegacyTablesAre
    <2>2. rebuild \in Seq(Stmt)
      <3>1. \A t, u, v \in Name : Create(t, {u, v}) \in S
        BY CreatesAre
      <3>2. \A t, u \in Name : Copy(t, u) \in S
        BY StmtsAre
      <3>3. /\ Rename("chat_messages", "chat_messages_v7") \in S
            /\ Drop("chat_messages_v7") \in S
        BY StmtsAre, NamesAre DEF LegacyRename
      <3> HIDE DEF S
      <3>4. rebuild \in Seq(S)
        BY <3>1, <3>2, <3>3, NamesAre
      <3>5. S \subseteq Stmt
        BY DEF S, Harmless
      <3> HIDE DEF rebuild
      <3> QED  BY <3>4, <3>5
    <2>3. V8(d) = (IF "entries" \in Tables(d) THEN rebuild ELSE << >>) \o drops
      BY DEF V8
    <2> HIDE DEF drops, rebuild
    <2>4. CASE "entries" \in Tables(d)
      BY <2>1, <2>2, <2>3, <2>4
    <2>5. CASE "entries" \notin Tables(d)
      BY <2>1, <2>3, <2>5
    <2> QED  BY <2>4, <2>5
  <1>2. Create("users", {}) \in Elsewhere /\ Create("users_new", {}) \in Elsewhere
        /\ Create("password_reset_tokens", {"users"}) \in Elsewhere
    <2>1. {} \in SUBSET Name /\ {"users"} \in SUBSET Name
      BY NamesAre
    <2> QED  BY <2>1, OtherStmtsAre, NamesAre
  <1>3. /\ Copy("users", "users_new") \in Elsewhere /\ Drop("users") \in Elsewhere
        /\ Rename("users_new", "users") \in Elsewhere
        /\ Pragma("foreign_keys=OFF") \in Elsewhere /\ Pragma("foreign_keys=ON") \in Elsewhere
    BY OtherStmtsAre, NamesAre
  <1>4. <<Create("users", {})>> \in Seq(Elsewhere) /\ AuthV2 \in Seq(Elsewhere)
    BY <1>2 DEF AuthV2
  <1>5. AuthV1(d) \in Seq(Elsewhere)
    BY <1>2, <1>3 DEF AuthV1
  <1> QED  BY <1>1, <1>4, <1>5

-----------------------------------------------------------------------------
(* The databases there are, and what a migration makes of them.            *)

LEMMA ExecIsGood ==
  ASSUME NEW stmts \in Seq(Stmt), NEW d \in Good, NEW p
  PROVE  Exec(stmts, d, p) \in Good
  <1>1. ASSUME NEW s \in Stmt, NEW x \in Good, x # Failed
        PROVE  Statement(s, x, p) \in Good
    <2> DEFINE e == Statement(s, x, p)
    <2>1. CASE e = Failed
      BY <2>1, FailedIsGood
    <2>2. CASE e # Failed
      <3>1. x \in Database /\ x.version \in Nat
        BY <1>1 DEF Good
      <3>2. e \in Database /\ e.version = x.version
        <4> HIDE DEF e
        <4> QED  BY <2>2, <3>1, StatementDoes DEF e
      <3> QED  BY <3>1, <3>2 DEF Good
    <2> QED  BY <2>1, <2>2
  <1> QED  BY <1>1, FailedIsGood, ExecKeeps

LEMMA SvcStatements ==
  ASSUME NEW v \in 1 .. 8, NEW d
  PROVE  Statements("svc", v, d) \in Seq(Stmt)
  <1>1. \A p, stmts : stmts \in Seq(Harmless(p)) => stmts \in Seq(Stmt)
    BY DEF Harmless
  <1> DEFINE l == Statements("svc", v, d)
  <1>2. l = CASE v = 1 -> V1 [] v = 2 -> V2 [] v = 3 -> V3 [] v = 4 -> V4
             [] v = 5 -> V5 [] v = 6 -> V6 [] v = 7 -> V7 [] v = 8 -> V8(d)
    BY DEF Statements
  <1>3. l \in {V1, V2, V3, V4, V5, V6, V7, V8(d)}
    <2> HIDE DEF l
    <2> QED  BY <1>2
  <1> HIDE DEF l
  <1>4. l \in Seq(Stmt)
    BY <1>1, <1>3, ListsAre, LaterListsAre
  <1> QED  BY <1>4 DEF l

LEMMA ToIs ==
  ASSUME NEW a, NEW v \in Nat, NEW d, NEW e, e = Exec(Statements(a, v, d), d, Settings(a, v)),
         e \in Database
  PROVE  \/ To(a, v, d) = Failed
         \/ /\ To(a, v, d) \in Database /\ To(a, v, d).version = v
            /\ Tables(To(a, v, d)) = Tables(e) /\ To(a, v, d).rows = e.rows
            /\ e # Failed
  <1>1. To(a, v, d) = IF e = Failed THEN Failed ELSE [e EXCEPT !.version = v]
    BY DEF To
  <1>2. /\ [e EXCEPT !.version = v] \in Database /\ [e EXCEPT !.version = v].version = v
        /\ Tables([e EXCEPT !.version = v]) = Tables(e) /\ [e EXCEPT !.version = v].rows = e.rows
    BY DEF Database, Tables
  <1> QED  BY <1>1, <1>2

LEMMA ToIsGood ==
  ASSUME NEW v \in 1 .. 8, NEW d \in Good
  PROVE  To("svc", v, d) \in Good
  <1> DEFINE e == Exec(Statements("svc", v, d), d, Settings("svc", v))
  <1>1. e \in Good
    BY SvcStatements, ExecIsGood
  <1>2. e \in Database /\ v \in Nat
    BY <1>1 DEF Good
  <1> HIDE DEF e
  <1> QED  BY <1>2, ToIs, FailedIsGood DEF e, Good

LEMMA FilledIs ==
  ASSUME NEW d \in Database
  PROVE  /\ Filled(d) \in Database /\ Filled(d).version = d.version
         /\ Tables(Filled(d)) = Tables(d) /\ Filled(d).rows = Tables(d)
  <1>1. Tables(d) \in SUBSET Name
    BY DEF Database, Tables
  <1> QED  BY <1>1, WithRows DEF Filled

\* The databases before the first process opens them: every table has its rows.
Whole == {d \in Good : d.rows = Tables(d)}

LEMMA FilledIsWhole ==
  ASSUME NEW d \in Good
  PROVE  Filled(d) \in Whole
  <1>1. d \in Database
    BY DEF Good
  <1>2. CASE d = Failed
    <2>1. Tables(Failed) = {} /\ Failed.rows = {}
      BY DEF Failed, Empty, Tables
    <2>2. Filled(Failed) = Failed
      BY <2>1 DEF Filled, Failed, Empty
    <2> QED  BY <1>2, <2>1, <2>2, FailedIsGood DEF Whole
  <1>3. CASE d # Failed
    <2>1. d.version \in Nat
      BY <1>3 DEF Good
    <2> QED  BY <1>1, <2>1, FilledIs DEF Good, Whole
  <1> QED  BY <1>2, <1>3

LEMMA VersionIsWhole ==
  ASSUME NEW v \in 1 .. 8
  PROVE  Version(v) \in Whole
  <1> DEFINE Next_(x, i) == Filled(To("svc", i, x))
             Is(f) == f = [i \in 0 .. v |-> IF i = 0 THEN Unversioned ELSE Next_(f[i - 1], i)]
             upTo[i \in 0 .. v] == IF i = 0 THEN Unversioned ELSE Next_(upTo[i - 1], i)
             F == [i \in 1 .. v |-> [x \in Whole |-> Next_(x, i)]]
  <1>1. Unversioned \in Whole
    <2>1. V1Original \in Seq(Stmt)
      BY ListsAre DEF Harmless
    <2>2. Exec(V1Original, Empty, Enforced) \in Good
      BY <2>1, ExecIsGood, FailedIsGood
    <2> QED  BY <2>2, FilledIsWhole DEF Unversioned
  <1>2. \A i \in 1 .. v, x \in Whole : Next_(x, i) \in Whole
    <2> SUFFICES ASSUME NEW i \in 1 .. v, NEW x \in Whole
                 PROVE  Next_(x, i) \in Whole
      OBVIOUS
    <2>1. i \in 1 .. 8 /\ x \in Good
      BY DEF Whole
    <2> QED  BY <2>1, ToIsGood, FilledIsWhole
  <1>3. upTo = CHOOSE f : Is(f)
    BY DEF upTo
  <1>4. Version(v) = upTo[v]
    BY DEF Version
  <1>5. \A i \in 1 .. v, x \in Whole : F[i][x] = Next_(x, i)
    OBVIOUS
  <1> HIDE DEF Next_, F, upTo
  <1>6. AreSteps(F, v, Whole)
    BY <1>2 DEF F, AreSteps
  <1>7. PICK f : IsRun(f, v, Whole, Unversioned, F)
    BY <1>1, <1>6, Recursion
  <1>8. \A i \in 1 .. v : f[i - 1] \in Whole /\ f[i] = Next_(f[i - 1], i)
    BY <1>5, <1>7 DEF IsRun
  <1>9. Is(f)
    <2> DEFINE g == [i \in 0 .. v |-> IF i = 0 THEN Unversioned ELSE Next_(f[i - 1], i)]
    <2>1. \A i \in 0 .. v : f[i] = g[i]
      BY <1>7, <1>8 DEF IsRun
    <2>2. f = g
      <3> HIDE DEF g
      <3>1. g = [i \in 0 .. v |-> g[i]]
        BY DEF g
      <3> QED  BY <1>7, <2>1, <3>1 DEF IsRun
    <2> QED  BY <2>2
  <1>10. Is(upTo)
    <2> HIDE DEF Is
    <2> QED  BY <1>3, <1>9
  <1>11. upTo[0] = Unversioned /\ \A i \in 1 .. v : upTo[i] = Next_(upTo[i - 1], i)
    BY <1>10
  <1>12. \A i \in 1 .. v : upTo[i - 1] \in Whole => upTo[i] \in Whole
    BY <1>2, <1>11
  <1>13. \A i \in 0 .. v : upTo[i] \in Whole
    BY <1>1, <1>11, <1>12, StepByStep
  <1> QED  BY <1>4, <1>13

LEMMA StartsAre ==
  ASSUME NEW d \in SvcDatabases, "entries" \in d.rows
  PROVE  d \in Database /\ d.version \in Nat /\ HasEntries(d)
  <1> DEFINE three == Filled(Exec(V3, Exec(V2, Version(1), Unenforced), Enforced))
  <1>1. Failed.rows = {} /\ Empty.rows = {}
    BY DEF Failed, Empty
  <1>2. \A x \in Whole : "entries" \in x.rows =>
           x \in Database /\ x.version \in Nat /\ HasEntries(x)
    BY <1>1 DEF Whole, Good, HasEntries
  <1>3. Unversioned \in Whole
    <2>1. V1Original \in Seq(Stmt)
      BY ListsAre DEF Harmless
    <2>2. Exec(V1Original, Empty, Enforced) \in Good
      BY <2>1, ExecIsGood, FailedIsGood
    <2> QED  BY <2>2, FilledIsWhole DEF Unversioned
  <1>4. \A v \in 1 .. 8 : Version(v) \in Whole
    BY VersionIsWhole
  <1>5. three \in Whole
    <2>1. V2 \in Seq(Stmt) /\ V3 \in Seq(Stmt)
      BY ListsAre DEF Harmless
    <2>2. Version(1) \in Good
      BY <1>4 DEF Whole
    <2>3. Exec(V2, Version(1), Unenforced) \in Good
      BY <2>1, <2>2, ExecIsGood
    <2>4. Exec(V3, Exec(V2, Version(1), Unenforced), Enforced) \in Good
      BY <2>1, <2>3, ExecIsGood
    <2> QED  BY <2>4, FilledIsWhole
  <1> HIDE DEF three
  <1>6. "entries" \in Defective.rows =>
           Defective \in Database /\ Defective.version \in Nat /\ HasEntries(Defective)
    <2>1. Defective = [three EXCEPT !.version = 3]
      BY DEF Defective, three
    <2>2. three \in Database /\ three.rows = Tables(three)
      BY <1>5 DEF Whole, Good
    <2> QED  BY <2>1, <2>2 DEF Database, HasEntries, Tables
  <1> QED  BY <1>1, <1>2, <1>3, <1>4, <1>6 DEF SvcDatabases

\* auth has no legacy entries.
LEMMA AuthHasNone ==
  ASSUME NEW d \in AuthDatabases
  PROVE  "entries" \notin d.rows
  <1> DEFINE S == {x \in Database : "entries" \notin Tables(x)}
             old == Filled(Exec(<<Create("users", {})>>, Empty, Enforced))
  <1>1. Failed \in S /\ Empty \in S /\ Empty.rows = {}
    <2>1. Tables(Failed) = {} /\ Tables(Empty) = {} /\ Empty.rows = {}
      BY DEF Failed, Empty, Tables
    <2> QED  BY <2>1, FailedIsGood DEF Good
  <1>2. ASSUME NEW stmts \in Seq(Elsewhere), NEW x \in S, NEW p
        PROVE  Exec(stmts, x, p) \in S
    <2>1. ASSUME NEW s \in Elsewhere, NEW y \in S, y # Failed
          PROVE  Statement(s, y, p) \in S
      <3> DEFINE e == Statement(s, y, p)
      <3>1. CASE e = Failed
        BY <3>1, <1>1
      <3>2. CASE e # Failed
        <4>1. s \in Stmt /\ y \in Database
          BY DEF Elsewhere
        <4> HIDE DEF e
        <4>2. /\ e \in Database
              /\ s.op \notin {"rename", "create"} => Tables(e) \subseteq Tables(y)
              /\ s.op = "create" => Tables(e) \subseteq Tables(y) \cup {s.table}
              /\ s.op = "rename" => Tables(e) \subseteq Tables(y) \cup {s.to}
          BY <3>2, <4>1, StatementDoes DEF e
        <4>3. "entries" \notin Tables(y)
          OBVIOUS
        <4>4. (s.op = "create" => s.table # "entries") /\ (s.op = "rename" => s.to # "entries")
          BY DEF Elsewhere
        <4>5. "entries" \notin Tables(e)
          BY <4>2, <4>3, <4>4
        <4> QED  BY <4>2, <4>5 DEF e
      <3> QED  BY <3>1, <3>2
    <2> HIDE DEF S
    <2> QED  BY <1>1, <2>1, ExecKeeps
  <1>3. \A x \in S : Filled(x) \in S /\ "entries" \notin Filled(x).rows
    BY FilledIs
  <1>4. old \in S /\ "entries" \notin old.rows
    <2>1. Exec(<<Create("users", {})>>, Empty, Enforced) \in S
      <3> HIDE DEF S
      <3> QED  BY <1>1, <1>2, LaterListsAre
    <2> HIDE DEF S
    <2> QED  BY <1>3, <2>1
  <1>5. "entries" \notin Filled(To("auth", 1, old)).rows
    <2> DEFINE e == Exec(Statements("auth", 1, old), old, Settings("auth", 1))
    <2>1. Statements("auth", 1, old) \in Seq(Elsewhere)
      BY LaterListsAre DEF Statements
    <2>2. e \in S
      <3> HIDE DEF S, old
      <3> QED  BY <1>2, <1>4, <2>1
    <2>3. To("auth", 1, old) \in S
      <3> HIDE DEF e, old
      <3>1. e \in Database /\ "entries" \notin Tables(e)
        BY <2>2
      <3> QED  BY <1>1, <3>1, ToIs DEF e
    <2> HIDE DEF S, old
    <2> QED  BY <1>3, <2>3
  <1> QED  BY <1>1, <1>4, <1>5 DEF AuthDatabases

\* Before version 8, a migration leaves the legacy entries where they are.
LEMMA ToKeepsEntries ==
  ASSUME NEW v \in 1 .. 7, NEW d \in Database, d.version \in Nat, HasEntries(d)
  PROVE  \/ To("svc", v, d) = Failed
         \/ /\ To("svc", v, d) \in Database /\ To("svc", v, d).version \in Nat
            /\ HasEntries(To("svc", v, d))
  <1> DEFINE p == Settings("svc", v)
             l == Statements("svc", v, d)
             S == {Failed} \cup {x \in Database : HasEntries(x)}
  <1>1. l \in Seq(Harmless(p))
    <2>1. p = IF v = 2 THEN LegacyRename ELSE IF v = 4 THEN Unenforced ELSE Enforced
      BY DEF Settings
    <2>2. l = CASE v = 1 -> V1 [] v = 2 -> V2 [] v = 3 -> V3 [] v = 4 -> V4
               [] v = 5 -> V5 [] v = 6 -> V6 [] v = 7 -> V7 [] v = 8 -> V8(d)
      BY DEF Statements
    <2> HIDE DEF p, l
    <2>3. v \in {1, 2, 3, 4, 5, 6, 7}
      OBVIOUS
    <2>4. CASE v = 2
      BY <2>1, <2>2, <2>4, ListsAre
    <2>5. CASE v = 4
      BY <2>1, <2>2, <2>5, ListsAre
    <2>6. CASE v \notin {2, 4}
      <3>1. l \in {V1, V3, V5, V6, V7}
        BY <2>2, <2>3, <2>6
      <3> QED  BY <2>1, <2>6, <3>1, ListsAre
    <2> QED  BY <2>4, <2>5, <2>6
  <1>2. ASSUME NEW s \in Harmless(p), NEW x \in S, x # Failed
        PROVE  Statement(s, x, p) \in S
    <2> DEFINE e == Statement(s, x, p)
    <2>1. s \in Stmt /\ x \in Database /\ HasEntries(x)
      BY <1>2 DEF Harmless
    <2>2. CASE e = Failed
      BY <2>2
    <2>3. CASE e # Failed
      <3>1. (s.op \in {"rename", "drop"} => s.table # "entries") /\ (s.op = "drop" => ~p.fk)
        BY DEF Harmless
      <3> HIDE DEF e, p
      <3>2. /\ e \in Database
            /\ s.op \notin {"rename", "drop"} => Tables(x) \subseteq Tables(e) /\ x.rows \subseteq e.rows
            /\ s.op = "rename" =>
                  Tables(x) \ {s.table} \subseteq Tables(e) /\ x.rows \ {s.table} \subseteq e.rows
            /\ s.op = "drop" =>
                  /\ Tables(x) \ {s.table} \subseteq Tables(e)
                  /\ ~p.fk => x.rows \ {s.table} \subseteq e.rows
        BY <2>1, <2>3, StatementDoes DEF e
      <3>3. "entries" \in Tables(e) /\ "entries" \in e.rows
        BY <2>1, <3>1, <3>2 DEF HasEntries
      <3>4. e \in S
        BY <3>2, <3>3 DEF HasEntries
      <3> QED  BY <3>4 DEF e
    <2> QED  BY <2>2, <2>3
  <1>3. d \in S /\ Failed \in S
    OBVIOUS
  <1>4. Exec(l, d, p) \in S
    <2> HIDE DEF S, l, p
    <2> QED  BY <1>1, <1>2, <1>3, ExecKeeps
  <1> DEFINE e == Exec(l, d, p)
  <1>5. e \in Database
    BY <1>4, FailedIsGood DEF Good
  <1>6. CASE To("svc", v, d) = Failed
    BY <1>6
  <1>7. CASE To("svc", v, d) # Failed
    <2> DEFINE t == To("svc", v, d)
    <2>1. t \in Database /\ t.version = v /\ Tables(t) = Tables(e) /\ t.rows = e.rows /\ e # Failed
      <3> HIDE DEF e
      <3> QED  BY <1>5, <1>7, ToIs DEF e
    <2>2. HasEntries(e)
      BY <1>4, <2>1
    <2> HIDE DEF t, e
    <2>3. HasEntries(t)
      BY <2>1, <2>2 DEF HasEntries
    <2> QED  BY <2>1, <2>3 DEF t
  <1> QED  BY <1>6, <1>7

-----------------------------------------------------------------------------
(* Paths.                                                                  *)

Slug == Seq(Words \cup Nat)

\* Entries of one project have different paths.
PathsDiffer ==
    \A d, e \in Entries : legacy[d].project = legacy[e].project /\ Paths[d] = Paths[e] => d = e

LEMMA LeastIs ==
  ASSUME NEW S \in SUBSET Nat, S # {}
  PROVE  Least(S) \in S
  <1> DEFINE R == {ss \in Nat \X Nat : ss[1] < ss[2]}
  <1>1. IsWellFoundedOn(R, Nat)
    BY NatLessThanWellFounded DEF OpToRel
  <1>2. PICK x \in S : \A y \in S : ~ (<<y, x>> \in R)
    <2> HIDE DEF R
    <2> QED  BY <1>1, WFMin
  <1>3. ASSUME NEW y \in S, ~(x <= y)
        PROVE  FALSE
    <2>1. <<y, x>> \in R
      BY <1>3
    <2> QED  BY <1>2, <2>1
  <1>4. \E z \in S : \A y \in S : z <= y
    BY <1>3
  <1> QED  BY <1>4 DEF Least

\* Fewer slugs are taken than there are suffixes.
LEMMA SlugIsFree ==
  ASSUME NEW base \in Slug, NEW earlier, NEW n \in Nat, NumEntries \in Nat, n < NumEntries,
         NEW taken, \A x \in taken : \E j \in 1 .. n : x = earlier[j]
  PROVE  UniqueSlug(base, taken) \in Slug \ taken
  <1> DEFINE N == NumEntries
             K == 2 .. N + 1
             S == {k \in K : Append(base, k) \notin taken}
  <1>1. S # {}
    <2> SUFFICES ASSUME S = {} PROVE FALSE
      OBVIOUS
    <2> DEFINE f == [k \in K |-> CHOOSE j \in 1 .. n : earlier[j] = Append(base, k)]
    <2>1. \A k \in K : f[k] \in 1 .. n /\ earlier[f[k]] = Append(base, k)
      <3> SUFFICES ASSUME NEW k \in K PROVE f[k] \in 1 .. n /\ earlier[f[k]] = Append(base, k)
        OBVIOUS
      <3>1. \E j \in 1 .. n : earlier[j] = Append(base, k)
        OBVIOUS
      <3> QED  BY <3>1
    <2>2. f \in [K -> 1 .. n]
      BY <2>1
    <2>3. IsFiniteSet(K) /\ Cardinality(K) = N
      <3>1. 2 \in Int /\ N + 1 \in Int /\ ~(2 > N + 1) /\ (N + 1) - 2 + 1 = N
        OBVIOUS
      <3> QED  BY <3>1, FS_Interval
    <2>4. IsFiniteSet(1 .. n) /\ Cardinality(1 .. n) = n
      <3>1. 1 \in Int /\ n \in Int /\ (1 > n => n = 0) /\ n - 1 + 1 = n
        OBVIOUS
      <3> QED  BY <3>1, FS_Interval
    <2> HIDE DEF f, K
    <2>5. PICK k \in K, l \in K : k # l /\ f[k] = f[l]
      BY <2>2, <2>3, <2>4, FS_PigeonHole
    <2>6. Append(base, k) = Append(base, l)
      BY <2>1, <2>5
    <2>7. k = l
      <3>1. Len(base) + 1 \in 1 .. Len(base) + 1
        BY DEF Slug
      <3>2. Append(base, k)[Len(base) + 1] = k /\ Append(base, l)[Len(base) + 1] = l
        BY DEF Slug
      <3> QED  BY <2>6, <3>2
    <2> QED  BY <2>5, <2>7
  <1>2. Least(S) \in S
    <2>1. S \subseteq Nat
      OBVIOUS
    <2> HIDE DEF S
    <2> QED  BY <1>1, <2>1, LeastIs
  <1>3. Append(base, Least(S)) \in Slug
    BY <1>2 DEF Slug
  <1>4. UniqueSlug(base, taken) = IF base \notin taken THEN base ELSE Append(base, Least(S))
    BY DEF UniqueSlug
  <1> QED  BY <1>2, <1>3, <1>4

LEMMA PathsAre ==
  ASSUME legacy \in Seq(LegacyEntry)
  PROVE  PathsDiffer
  <1> DEFINE N == NumEntries
             same(i, s) == {j \in DOMAIN s : legacy[j].project = legacy[i].project}
             Next_(s, i) == Append(s, UniqueSlug(legacy[i].title, {s[j] : j \in same(i, s)}))
             Is(f) == f = [i \in 0 .. N |-> IF i = 0 THEN << >> ELSE Next_(f[i - 1], i)]
             upTo[i \in 0 .. N] == IF i = 0 THEN << >> ELSE Next_(upTo[i - 1], i)
             Differ(s) == \A j, k \in 1 .. Len(s) :
                             legacy[j].project = legacy[k].project /\ s[j] = s[k] => j = k
             S == {s \in Seq(Slug) : Differ(s)}
             Placing(s, i) == IF Len(s) = i - 1 THEN Next_(s, i) ELSE s
             F == [i \in 1 .. N |-> [s \in S |-> Placing(s, i)]]
  <1>1. N \in Nat /\ Entries = 1 .. N /\ \A i \in 1 .. N : legacy[i].title \in Slug
    <2>1. N \in Nat /\ Entries = 1 .. N /\ \A i \in 1 .. N : legacy[i] \in LegacyEntry
      BY DEF NumEntries, Entries
    <2>2. \A x \in LegacyEntry : x.title \in Slug
      BY DEF LegacyEntry, Slug
    <2> QED  BY <2>1, <2>2
  <1>2. ASSUME NEW i \in 1 .. N, NEW s \in S, Len(s) = i - 1
        PROVE  Next_(s, i) \in S /\ Len(Next_(s, i)) = i
    <2> DEFINE taken == {s[j] : j \in same(i, s)}
               u == UniqueSlug(legacy[i].title, taken)
               t == Append(s, u)
    <2>1. \A x \in taken : \E j \in 1 .. i - 1 : x = s[j]
      BY <1>2
    <2>2. u \in Slug \ taken
      <3>1. i - 1 \in Nat /\ i - 1 < NumEntries /\ NumEntries \in Nat /\ legacy[i].title \in Slug
        BY <1>1
      <3> HIDE DEF taken
      <3> QED  BY <2>1, <3>1, SlugIsFree
    <2> HIDE DEF u
    <2>3. t \in Seq(Slug) /\ Len(t) = i /\ t[i] = u /\ \A j \in 1 .. i - 1 : t[j] = s[j]
      BY <1>2, <2>2
    <2>4. \A j \in 1 .. i - 1 : legacy[j].project = legacy[i].project => s[j] # u
      BY <1>2, <2>2
    <2> HIDE DEF t
    <2>5. Differ(t)
      <3> SUFFICES ASSUME NEW j \in 1 .. i, NEW k \in 1 .. i,
                          legacy[j].project = legacy[k].project, t[j] = t[k]
                   PROVE  j = k
        BY <2>3
      <3>1. CASE j = i /\ k # i
        <4>1. k \in 1 .. i - 1
          BY <3>1
        <4> QED  BY <2>3, <2>4, <3>1, <4>1
      <3>2. CASE j # i /\ k = i
        <4>1. j \in 1 .. i - 1
          BY <3>2
        <4> QED  BY <2>3, <2>4, <3>2, <4>1
      <3>3. CASE j # i /\ k # i
        <4>1. j \in 1 .. Len(s) /\ k \in 1 .. Len(s) /\ s[j] = s[k]
          BY <1>2, <2>3, <3>3
        <4> QED  BY <4>1
      <3> QED  BY <3>1, <3>2, <3>3
    <2> HIDE DEF Differ
    <2> QED  BY <2>3, <2>5 DEF u, t
  <1>3. upTo = CHOOSE f : Is(f)
    BY DEF upTo
  <1>4. Paths = upTo[N]
    BY DEF Paths
  <1>5. << >> \in S
    OBVIOUS
  <1>6. \A i \in 1 .. N, s \in S : F[i][s] = Placing(s, i)
    OBVIOUS
  <1> HIDE DEF Next_, F, upTo, S, N
  <1>7. AreSteps(F, N, S)
    BY <1>2 DEF F, AreSteps
  <1>8. PICK f : IsRun(f, N, S, << >>, F)
    BY <1>1, <1>5, <1>7, Recursion
  <1>9. \A i \in 1 .. N : f[i - 1] \in S /\ f[i] = Placing(f[i - 1], i)
    <2> SUFFICES ASSUME NEW i \in 1 .. N PROVE f[i - 1] \in S /\ f[i] = Placing(f[i - 1], i)
      OBVIOUS
    <2>1. i - 1 \in 0 .. N
      BY <1>1
    <2>2. f[i - 1] \in S /\ f[i] = F[i][f[i - 1]]
      BY <1>8, <2>1 DEF IsRun
    <2> HIDE DEF Placing
    <2> QED  BY <1>6, <2>2
  <1>10. \A i \in 0 .. N : Len(f[i]) = i
    <2> DEFINE T == {i \in Nat : i <= N => Len(f[i]) = i}
    <2>1. 0 \in T
      BY <1>8 DEF IsRun
    <2>2. ASSUME NEW i \in Nat, i \in T
          PROVE  i + 1 \in T
      <3> SUFFICES ASSUME i + 1 <= N PROVE Len(f[i + 1]) = i + 1
        OBVIOUS
      <3>1. i + 1 \in 1 .. N /\ (i + 1) - 1 = i /\ Len(f[i]) = i
        BY <1>1, <2>2
      <3>2. f[i] \in S /\ f[i + 1] = Next_(f[i], i + 1)
        BY <1>9, <3>1
      <3> QED  BY <1>2, <3>1, <3>2
    <2>3. \A i \in Nat : i \in T
      <3> HIDE DEF T
      <3> QED  BY <2>1, <2>2, NaturalsFrom
    <2> QED  BY <1>1, <2>3
  <1>11. \A i \in 1 .. N : f[i] = Next_(f[i - 1], i)
    BY <1>1, <1>9, <1>10
  <1>12. Is(f)
    <2> DEFINE g == [i \in 0 .. N |-> IF i = 0 THEN << >> ELSE Next_(f[i - 1], i)]
    <2>1. \A i \in 0 .. N : f[i] = g[i]
      BY <1>1, <1>8, <1>11 DEF IsRun
    <2>2. f = g
      <3> HIDE DEF g
      <3>1. g = [i \in 0 .. N |-> g[i]]
        BY DEF g
      <3> QED  BY <1>8, <2>1, <3>1 DEF IsRun
    <2> QED  BY <2>2
  <1>13. Is(upTo)
    <2> HIDE DEF Is
    <2> QED  BY <1>3, <1>12
  <1>14. /\ upTo[0] = << >>
         /\ \A i \in 1 .. N : upTo[i] = Next_(upTo[i - 1], i)
    BY <1>1, <1>13
  <1>15. upTo[N] \in S /\ Len(upTo[N]) = N
    <2> DEFINE T == {i \in Nat : i <= N => upTo[i] \in S /\ Len(upTo[i]) = i}
    <2>1. 0 \in T
      BY <1>5, <1>14
    <2>2. ASSUME NEW i \in Nat, i \in T
          PROVE  i + 1 \in T
      <3> SUFFICES ASSUME i + 1 <= N PROVE upTo[i + 1] \in S /\ Len(upTo[i + 1]) = i + 1
        OBVIOUS
      <3>1. i + 1 \in 1 .. N /\ (i + 1) - 1 = i /\ upTo[i] \in S /\ Len(upTo[i]) = i
        BY <1>1, <2>2
      <3>2. upTo[i + 1] = Next_(upTo[i], i + 1)
        BY <1>14, <3>1
      <3> QED  BY <1>2, <3>1, <3>2
    <2>3. N \in T
      <3> HIDE DEF T
      <3> QED  BY <1>1, <2>1, <2>2, NaturalsFrom
    <2> QED  BY <1>1, <2>3
  <1> QED  BY <1>1, <1>4, <1>15 DEF S, PathsDiffer

\* The paths and the entries are those of the collection, which never changes; what
\* content has, it keeps.
LEMMA Frame ==
  ASSUME legacy' = legacy, content \subseteq content'
  PROVE  /\ Paths' = Paths /\ Entries' = Entries /\ NumEntries' = NumEntries
         /\ \A e, x : Place(e, x)' = Place(e, x)
         /\ \A e : Accounted(e) => Accounted(e)'
         /\ \A S : FailedForCause(S) => FailedForCause(S)'
  <1>1. Entries' = Entries /\ NumEntries' = NumEntries
    BY DEF Entries, NumEntries
  <1>2. Paths' = Paths
    BY SMT DEF Paths, NumEntries, UniqueSlug, Least
  <1>3. \A e, x : Place(e, x)' = Place(e, x)
    BY <1>2 DEF Place
  <1>4. \A e : Accounted(e) => Accounted(e)'
    BY <1>3 DEF Accounted, InContent, Usurped
  <1>5. \A S : FailedForCause(S) => FailedForCause(S)'
    BY <1>1, <1>2 DEF FailedForCause, Faulty
  <1> QED  BY <1>1, <1>2, <1>3, <1>4, <1>5

-----------------------------------------------------------------------------
(* The tables.                                                             *)

LEMMA EntriesAre ==
  ASSUME legacy \in Seq(LegacyEntry)
  PROVE  NumEntries \in Nat /\ Entries = 1 .. NumEntries /\ -1 \notin Entries /\ 0 \notin Entries
  BY DEF NumEntries, Entries

\* What the actions of the tool, and of the members, do to the tables: nothing.
LEMMA ToolKeepsTables ==
  ASSUME ToolTypeOK, ProcTypeOK, TablesStay, app' = app, start' = start, file' = file,
         proc' = proc \/ proc' = NoProc,
         verified' = verified \/ verified' \in SUBSET Entries
  PROVE  TablesStay' /\ ProcTypeOK'
  <1>1. NoProc.who = "nobody" /\ NoProc.pc = "gone"
        /\ NoProc \in [who : {"svc", "tool", "auth", "nobody"},
                       pc : {"gone", "migrating", "refused", "open"}]
    BY DEF NoProc
  <1>2. ProcTypeOK'
    BY <1>1 DEF ProcTypeOK, App
  <1>3. verified' = Not => verified = Not
    <2>1. -1 \notin Entries
      BY EntriesAre DEF ToolTypeOK
    <2> QED  BY <2>1 DEF Not
  <1>4. proc'.who \in {proc.who, "nobody"}
    BY <1>1
  <1>5. TablesStay'
    <2> SUFFICES ASSUME "entries" \in start.rows
                 PROVE  /\ app = "svc" /\ start \in SvcDatabases
                        /\ verified' = Not =>
                              /\ file \in Database /\ file.version \in Nat /\ HasEntries(file)
                              /\ proc'.who # "svc"
      BY DEF TablesStay, HasEntries, Tables
    <2> QED  BY <1>3, <1>4 DEF TablesStay
  <1> QED  BY <1>2, <1>5

LEMMA OpeningKeepsTables ==
  ASSUME ToolTypeOK, ProcTypeOK, TablesStay, Opening
  PROVE  TablesStay' /\ ProcTypeOK'
  <1>0. UNCHANGED migrationVars /\ app' = app /\ start' = start /\ verified' = verified
    BY DEF Opening, Migrate, CheckForeignKeys, Launch, migrationVars
  <1>1. CASE Migrate
    <2> DEFINE v == file.version + 1
               d == To(App(proc.who), v, file)
    <2>1. /\ proc.pc = "migrating" /\ file.version < MaxVersion(proc.who)
          /\ \/ d = Failed /\ file' = file /\ proc' = [proc EXCEPT !.pc = "refused"]
             \/ d # Failed /\ file' = d /\ proc' = proc
      BY <1>1 DEF Migrate
    <2>2. proc.who # "nobody" /\ App(proc.who) = app
      BY <2>1 DEF ProcTypeOK
    <2>3. proc'.who = proc.who
      BY <2>1 DEF ProcTypeOK
    <2>4. ProcTypeOK'
      BY <1>0, <2>1, <2>2 DEF ProcTypeOK, App
    <2>5. ASSUME "entries" \in start.rows, verified = Not
          PROVE  file' \in Database /\ file'.version \in Nat /\ HasEntries(file')
      <3>1. app = "svc" /\ file \in Database /\ file.version \in Nat /\ HasEntries(file)
            /\ proc.who # "svc"
        BY <2>5 DEF TablesStay
      <3>2. proc.who = "tool" /\ App(proc.who) = "svc" /\ MaxVersion(proc.who) = 7
        BY <2>2, <3>1 DEF ProcTypeOK, App, MaxVersion
      <3>3. v \in 1 .. 7
        BY <2>1, <3>1, <3>2
      <3>4. d = To("svc", v, file)
        BY <3>2
      <3> HIDE DEF v, d
      <3>5. d = Failed \/ (d \in Database /\ d.version \in Nat /\ HasEntries(d))
        BY <3>1, <3>3, <3>4, ToKeepsEntries
      <3> QED  BY <2>1, <3>1, <3>5
    <2>6. TablesStay'
      BY <1>0, <2>3, <2>5 DEF TablesStay, HasEntries, Tables
    <2> QED  BY <2>4, <2>6
  <1>2. CASE CheckForeignKeys
    <2>1. file' = file /\ proc.pc = "migrating"
          /\ \E x \in {"refused", "open"} : proc' = [proc EXCEPT !.pc = x]
      BY <1>2 DEF CheckForeignKeys
    <2>2. proc'.who = proc.who /\ ProcTypeOK'
      BY <1>0, <2>1 DEF ProcTypeOK, App
    <2>3. TablesStay'
      BY <1>0, <2>1, <2>2 DEF TablesStay, HasEntries, Tables
    <2> QED  BY <2>2, <2>3
  <1>3. ASSUME NEW who \in {"svc", "tool", "auth"}, Launch(who), MayLaunch(who)
        PROVE  TablesStay' /\ ProcTypeOK'
    <2>1. file' = file /\ App(who) = app /\ proc' = [who |-> who, pc |-> "migrating"]
      BY <1>3 DEF Launch
    <2>2. ProcTypeOK'
      BY <1>0, <2>1 DEF ProcTypeOK, App
    <2>3. ASSUME "entries" \in start.rows, verified = Not
          PROVE  who # "svc"
      <3>1. HasLegacy
        BY <2>3 DEF TablesStay, HasEntries, HasLegacy
      <3> QED  BY <1>3, <2>3, <3>1 DEF MayLaunch
    <2>4. TablesStay'
      BY <1>0, <2>1, <2>3 DEF TablesStay, HasEntries, Tables
    <2> QED  BY <2>2, <2>4
  <1> QED  BY <1>1, <1>2, <1>3 DEF Opening

-----------------------------------------------------------------------------
(* The tool.                                                               *)

\* A report blames an entry for a cause.
LEMMA ReportsHaveCause ==
  ASSUME NEW failed \in Reports
  PROVE  FailedForCause(failed)
  <1> DEFINE inObjects == {e \in Entries : legacy[e].blob}
             at(p, S) == {e \in S : Paths[e] = p}
             read(unread) == Entries \ unread
             held(unread) == {Paths[e] : e \in read(unread)}
             Lasts(unread) ==
                {f \in [held(unread) -> read(unread)] :
                    \A p \in held(unread) : f[p] \in at(p, read(unread))}
             Blames(unread) ==
                {f \in [held(unread) -> Entries] :
                    \A p \in held(unread) : f[p] \in at(p, Entries)}
             corrupt == {e \in Entries : legacy[e].fault = "columns"}
             verdicts(unread) ==
                {unread \cup {blamed[p] : p \in {q \in held(unread) : Faulty(last[q])}} :
                    last \in Lasts(unread), blamed \in Blames(unread)}
  <1>1. Reports = UNION {verdicts(corrupt \cup (inObjects \cap (u \cup (Entries \ blobs)))) :
                            u \in SUBSET inObjects}
    BY DEF Reports
  <1> HIDE DEF verdicts
  <1>2. PICK u \in SUBSET inObjects :
           failed \in verdicts(corrupt \cup (inObjects \cap (u \cup (Entries \ blobs))))
    BY <1>1
  <1> DEFINE unread == corrupt \cup (inObjects \cap (u \cup (Entries \ blobs)))
  <1>3. unread \subseteq Entries /\ \A e \in unread : legacy[e].blob \/ Faulty(e)
    BY DEF Faulty
  <1>4. failed \in verdicts(unread)
    BY <1>2
  <1> HIDE DEF unread, Lasts, Blames
  <1>5. PICK last \in Lasts(unread), blamed \in Blames(unread) :
           failed = unread \cup {blamed[p] : p \in {q \in held(unread) : Faulty(last[q])}}
    BY <1>4 DEF verdicts
  <1>6. \A p \in held(unread) : /\ last[p] \in Entries \ unread /\ Paths[last[p]] = p
                                /\ blamed[p] \in Entries /\ Paths[blamed[p]] = p
    BY DEF Lasts, Blames
  <1>7. failed \subseteq Entries
    BY <1>3, <1>5, <1>6
  <1>8. ASSUME NEW e \in failed, ~legacy[e].blob
        PROVE  \E d \in Entries :
                  Paths[d] = Paths[e] /\ Faulty(d) /\ (d = e \/ d \notin failed)
    <2>0. CASE e \in unread
      BY <1>3, <1>8, <2>0
    <2> SUFFICES ASSUME e \notin unread
                 PROVE  \E d \in Entries :
                           Paths[d] = Paths[e] /\ Faulty(d) /\ (d = e \/ d \notin failed)
      BY <2>0
    <2>1. PICK p \in held(unread) : Faulty(last[p]) /\ e = blamed[p]
      BY <1>5, <1>8
    <2> DEFINE d == last[p]
    <2>2. d \in Entries \ unread /\ Paths[d] = p /\ Paths[e] = p /\ Faulty(d)
      BY <1>6, <2>1
    <2> HIDE DEF d, held
    <2>3. d \in failed => d = e
      <3> SUFFICES ASSUME d \in failed PROVE d = e
        OBVIOUS
      <3>1. PICK q \in held(unread) : d = blamed[q]
        BY <1>5, <2>2
      <3>2. q = p
        BY <1>6, <2>2, <3>1
      <3> QED  BY <2>1, <3>1, <3>2
    <2> QED  BY <2>2, <2>3
  <1> QED  BY <1>7, <1>8 DEF FailedForCause

\* Whatever has the path of an entry is its own text or a usurper's.
LEMMA TakenIsAccounted ==
  ASSUME ToolTypeOK, ContentIsPlaced, NEW e \in Entries, Taken(e)
  PROVE  Accounted(e)
  <1>1. PathsDiffer
    BY PathsAre DEF ToolTypeOK
  <1>2. PICK x \in Entries \cup {Others} : Place(e, x) \in content
    BY DEF Taken
  <1>3. PICK d \in Entries : Place(e, x) = Place(d, d) \/ Place(e, x) = Place(d, Others)
    BY <1>2 DEF ContentIsPlaced
  <1>4. CASE Place(e, x) = Place(d, d)
    <2>1. legacy[e].project = legacy[d].project /\ Paths[e] = Paths[d] /\ x = d
      BY <1>4 DEF Place
    <2>2. d = e
      BY <1>1, <2>1 DEF PathsDiffer
    <2> QED  BY <1>2, <2>1, <2>2 DEF Accounted, InContent
  <1>5. CASE Place(e, x) = Place(d, Others)
    <2>1. x = Others
      BY <1>5 DEF Place
    <2> QED  BY <1>2, <2>1 DEF Accounted, Usurped
  <1> QED  BY <1>3, <1>4, <1>5

LEMMA ToolIsIn ==
  ASSUME ToolTypeOK
  PROVE  /\ tool.pc \in {"idle", "importing", "cleaning"}
         /\ tool.pc = "importing" => tool \in Importing
         /\ tool.pc = "cleaning" => tool \in Cleaning
         /\ tool.pc = "idle" => tool = IdleTool
         /\ IdleTool.pc = "idle"
  BY DEF ToolTypeOK, IdleTool, Importing, Cleaning

\* Content loses nothing, and an entry stays at fault.
LEMMA SkipsStay ==
  ASSUME SkippedForCause, legacy' = legacy, content \subseteq content', verified' = verified
  PROVE  SkippedForCause'
  <1>1. Paths' = Paths /\ Entries' = Entries /\ \A e : Accounted(e) => Accounted(e)'
    BY Frame
  <1> DEFINE Excused(e, d) ==
               /\ Paths[d] = Paths[e]
               /\ \/ Faulty(d) /\ legacy[d].project = NoProject
                  \/ legacy[d].fault = "facet" /\ Accounted(d)
  <1>2. \A e, d : Excused(e, d) => Excused(e, d)'
    BY <1>1 DEF Faulty
  <1>3. \A e \in verified \cap Entries :
           legacy[e].project = NoProject \/ legacy[e].blob \/ Faulty(e) \/ \E d \in Entries : Excused(e, d)
    BY DEF SkippedForCause, Accounted
  <1>4. \A e \in verified \cap Entries :
           legacy[e].project = NoProject \/ legacy[e].blob \/ Faulty(e)
           \/ \E d \in Entries : Excused(e, d)'
    BY <1>2, <1>3
  <1> QED  BY <1>1, <1>4 DEF SkippedForCause, Accounted, Faulty

\* Where the bodies and the last run are the same, and content has lost nothing, what was
\* known is.
LEMMA TheRestStays ==
  ASSUME EntriesOK, legacy' = legacy, content \subseteq content', blobs' = blobs,
         verified' = verified
  PROVE  /\ (legacy \in Seq(LegacyEntry))' /\ (blobs \subseteq Entries)'
         /\ (verified = Not \/ verified \subseteq Entries)'
         /\ RunsAreRight' /\ CleanedIsInContent' /\ SkippedForCause'
  <1>1. Paths' = Paths /\ Entries' = Entries /\ \A e : Accounted(e) => Accounted(e)'
    BY Frame
  <1>2. /\ (legacy \in Seq(LegacyEntry))' /\ (blobs \subseteq Entries)'
        /\ (verified = Not \/ verified \subseteq Entries)'
    BY <1>1 DEF EntriesOK, ToolTypeOK, LegacyEntry, Not
  <1>3. RunsAreRight'
    BY <1>1 DEF EntriesOK, RunsAreRight
  <1>4. CleanedIsInContent'
    <2>1. \A e \in Entries : legacy[e].blob /\ e \notin blobs => Accounted(e)
      BY DEF EntriesOK, CleanedIsInContent, Accounted
    <2>2. \A e \in Entries : legacy[e].blob /\ e \notin blobs => Accounted(e)'
      BY <1>1, <2>1
    <2> QED  BY <1>1, <2>2 DEF CleanedIsInContent, Accounted
  <1>5. SkippedForCause'
    BY SkipsStay DEF EntriesOK
  <1> QED  BY <1>2, <1>3, <1>4, <1>5

\* Nothing happens to entries, or the tool exits.
LEMMA NothingKeeps ==
  ASSUME EntriesOK, UNCHANGED <<legacy, blobs, content, verified>>,
         tool' = tool \/ tool' = IdleTool
  PROVE  EntriesOK'
  <1>1. /\ Entries' = Entries /\ \A e, x : Place(e, x)' = Place(e, x)
        /\ \A e : Accounted(e) => Accounted(e)'
        /\ \A S : FailedForCause(S) => FailedForCause(S)'
    BY Frame
  <1>2. ContentIsPlaced'
    BY <1>1 DEF EntriesOK, ContentIsPlaced, Others
  <1>3. ToolKnows'
    <2>1. CASE tool' = tool
      <3>1. \A e : Skipped(e)' <=> Skipped(e)
        BY <2>1 DEF Skipped
      <3> QED  BY <1>1, <2>1, <3>1 DEF EntriesOK, ToolKnows, Acceptable
    <2>2. CASE tool' = IdleTool
      BY <2>2 DEF ToolKnows, IdleTool
    <2> QED  BY <2>1, <2>2
  <1>4. (tool \in {IdleTool} \cup Importing \cup Cleaning)'
    BY <1>1 DEF EntriesOK, ToolTypeOK, IdleTool, Importing, Cleaning
  <1> QED  BY <1>2, <1>3, <1>4, TheRestStays DEF EntriesOK, ToolTypeOK

LEMMA MemberCreatesKeeps ==
  ASSUME EntriesOK, NEW e \in Entries, MemberCreates(e)
  PROVE  EntriesOK'
  <1>1. UNCHANGED <<legacy, blobs, verified, tool>> /\ content' = content \cup {Place(e, Others)}
    BY DEF MemberCreates
  <1>2. /\ Entries' = Entries /\ \A d, x : Place(d, x)' = Place(d, x)
        /\ \A d : Accounted(d) => Accounted(d)'
        /\ \A S : FailedForCause(S) => FailedForCause(S)'
    BY <1>1, Frame
  <1>3. ContentIsPlaced'
    BY <1>1, <1>2 DEF EntriesOK, ContentIsPlaced, Others
  <1>4. ToolKnows'
    <2>1. \A d : Skipped(d)' <=> Skipped(d)
      BY <1>1 DEF Skipped
    <2> QED  BY <1>1, <1>2, <2>1 DEF EntriesOK, ToolKnows, Acceptable
  <1>5. (tool \in {IdleTool} \cup Importing \cup Cleaning)'
    BY <1>1, <1>2 DEF EntriesOK, ToolTypeOK, IdleTool, Importing, Cleaning
  <1> QED  BY <1>1, <1>3, <1>4, <1>5, TheRestStays DEF EntriesOK, ToolTypeOK

LEMMA BeginCutoverKeeps ==
  ASSUME EntriesOK, NEW force, NEW cleanup \in BOOLEAN, BeginCutover(force, cleanup)
  PROVE  EntriesOK'
  <1>1. UNCHANGED <<legacy, blobs, verified, content>>
    BY DEF BeginCutover
  <1>2. PICK failed \in Reports :
           tool' = [pc |-> "importing", failed |-> failed, cleanup |-> cleanup,
                    at |-> 1, imported |-> {}, errors |-> FALSE]
    BY DEF BeginCutover
  <1>3. FailedForCause(failed) /\ failed \subseteq Entries
    BY ReportsHaveCause DEF FailedForCause
  <1>4. /\ Entries' = Entries /\ \A d, x : Place(d, x)' = Place(d, x)
        /\ \A S : FailedForCause(S) => FailedForCause(S)'
    BY <1>1, Frame
  <1>5. ContentIsPlaced'
    BY <1>1, <1>4 DEF EntriesOK, ContentIsPlaced, Others
  <1>6. ToolKnows'
    <2>1. \A e \in Entries : ~(e < 1)
      BY EntriesAre DEF EntriesOK, ToolTypeOK
    <2>2. FailedForCause(failed)'
      BY <1>3, <1>4
    <2> QED  BY <1>2, <1>4, <2>1, <2>2 DEF ToolKnows
  <1>7. (tool \in {IdleTool} \cup Importing \cup Cleaning)'
    BY <1>2, <1>3, <1>4 DEF Importing
  <1> QED  BY <1>1, <1>5, <1>6, <1>7, TheRestStays DEF EntriesOK, ToolTypeOK

\* The entry in turn is skipped, has been imported, or has got an error.
LEMMA NextEntryKeeps ==
  ASSUME EntriesOK, NEW e \in Entries, Current(e), NEW got, NEW error \in BOOLEAN,
         NextEntry(got, error), UNCHANGED <<legacy, blobs, verified>>,
         content' = content \/ content' = content \cup {Place(e, e)},
         \/ got = {} /\ (error \/ Skipped(e))
         \/ got = {e} /\ Accounted(e)' /\ Acceptable(e)
  PROVE  EntriesOK'
  <1>1. tool.pc = "importing" /\ e = tool.at /\ tool \in Importing
    BY ToolIsIn DEF Current, ToolIs, EntriesOK
  <1>2. /\ Entries' = Entries /\ \A d, x : Place(d, x)' = Place(d, x)
        /\ \A d : Accounted(d) => Accounted(d)'
        /\ \A S : FailedForCause(S) => FailedForCause(S)'
    BY Frame
  <1>3. tool' = [tool EXCEPT !.at = tool.at + 1, !.imported = tool.imported \cup got,
                             !.errors = tool.errors \/ error]
    BY DEF NextEntry
  <1>4. /\ tool' \in Importing /\ tool'.pc = "importing" /\ tool'.at = tool.at + 1
        /\ tool'.failed = tool.failed /\ tool'.imported = tool.imported \cup got
        /\ tool'.errors = (tool.errors \/ error)
    <2>1. /\ tool.at \in Nat \ {0} /\ tool.imported \subseteq Entries /\ tool.errors \in BOOLEAN
          /\ got \subseteq Entries
      BY <1>1 DEF Importing
    <2> DEFINE at == tool.at + 1
               all == tool.imported \cup got
               errors == tool.errors \/ error
    <2>2. at \in Nat \ {0} /\ all \in SUBSET Entries
      BY <2>1
    <2>3. errors \in BOOLEAN
      BY Zenon
    <2>4. tool' = [tool EXCEPT !.at = at, !.imported = all, !.errors = errors]
      BY <1>3
    <2> HIDE DEF at, all, errors
    <2>5. /\ tool' \in Importing /\ tool'.pc = "importing" /\ tool'.at = at
          /\ tool'.failed = tool.failed /\ tool'.imported = all
      BY <1>1, <2>2, <2>3, <2>4 DEF Importing
    <2>6. tool'.errors = errors
      BY <1>1, <2>2, <2>3, <2>4 DEF Importing
    <2> QED  BY <2>5, <2>6 DEF at, all, errors
  <1>5. ContentIsPlaced'
    BY <1>2 DEF EntriesOK, ContentIsPlaced, Others
  <1>6. ToolKnows'
    <2>1. FailedForCause(tool.failed)'
      BY <1>1, <1>2, <1>4 DEF EntriesOK, ToolKnows
    <2>2. \A d \in tool'.imported : Accounted(d)' /\ Acceptable(d)'
      BY <1>1, <1>2, <1>4 DEF EntriesOK, ToolKnows, Acceptable
    <2>3. \A d : Skipped(d)' <=> Skipped(d)
      BY <1>4 DEF Skipped
    <2>4. ASSUME NEW d \in Entries, d < tool'.at
          PROVE  Skipped(d)' \/ d \in tool'.imported \/ tool'.errors
      <3>1. d \in Nat /\ tool.at \in Nat
        BY <1>1, EntriesAre DEF Importing, EntriesOK, ToolTypeOK
      <3>2. d = e \/ d < tool.at
        BY <1>1, <1>4, <2>4, <3>1
      <3>3. CASE d = e
        BY <1>4, <2>3, <3>3
      <3>4. CASE d < tool.at
        BY <1>1, <1>4, <2>3, <3>4 DEF EntriesOK, ToolKnows
      <3> QED  BY <3>2, <3>3, <3>4
    <2> QED  BY <1>2, <1>4, <2>1, <2>2, <2>4 DEF ToolKnows
  <1>7. (tool \in {IdleTool} \cup Importing \cup Cleaning)'
    BY <1>2, <1>4 DEF Importing
  <1> QED  BY <1>5, <1>6, <1>7, TheRestStays DEF EntriesOK, ToolTypeOK

LEMMA SkipKeeps ==
  ASSUME EntriesOK, NEW e \in Entries, Skip(e)
  PROVE  EntriesOK'
  BY NextEntryKeeps DEF Skip

LEMMA CreateEntryKeeps ==
  ASSUME EntriesOK, NEW e \in Entries, CreateEntry(e)
  PROVE  EntriesOK'
  <1>0. Current(e) /\ UNCHANGED <<legacy, blobs, verified>>
    BY DEF CreateEntry
  <1>1. CASE /\ Acceptable(e) /\ ~Taken(e)
             /\ content' = content \cup {Place(e, e)}
             /\ \E lost \in BOOLEAN : NextEntry(IF lost THEN {} ELSE {e}, lost)
    <2>1. PICK lost \in BOOLEAN : NextEntry(IF lost THEN {} ELSE {e}, lost)
      BY <1>1
    <2>2. Accounted(e)'
      BY <1>0, <1>1, Frame DEF Accounted, InContent
    <2>3. CASE lost
      <3>1. NextEntry({}, TRUE)
        BY <2>1, <2>3
      <3> QED  BY <1>0, <1>1, <3>1, NextEntryKeeps
    <2>4. CASE ~lost
      <3>1. NextEntry({e}, FALSE)
        BY <2>1, <2>4
      <3> QED  BY <1>0, <1>1, <2>2, <3>1, NextEntryKeeps
    <2> QED  BY <2>3, <2>4
  <1>2. CASE Acceptable(e) /\ Taken(e) /\ NextEntry({e}, FALSE) /\ UNCHANGED content
    <2>1. Accounted(e)'
      BY <1>0, <1>2, TakenIsAccounted, Frame DEF EntriesOK
    <2> QED  BY <1>0, <1>2, <2>1, NextEntryKeeps
  <1>3. CASE NextEntry({}, TRUE) /\ UNCHANGED content
    BY <1>0, <1>3, NextEntryKeeps
  <1> QED  BY <1>1, <1>2, <1>3 DEF CreateEntry

LEMMA BeginCleanupKeeps ==
  ASSUME EntriesOK, BeginCleanup
  PROVE  EntriesOK'
  <1>1. tool.pc = "importing" /\ tool \in Importing /\ tool.at > NumEntries /\ ~tool.errors
    BY ToolIsIn DEF BeginCleanup, AllPosted, ToolIs, EntriesOK
  <1>2. /\ UNCHANGED <<legacy, blobs, verified, content>>
        /\ tool' = [pc |-> "cleaning", failed |-> tool.failed, errors |-> FALSE,
                    left |-> tool.imported]
    BY DEF BeginCleanup
  <1>3. /\ Entries' = Entries /\ \A d, x : Place(d, x)' = Place(d, x)
        /\ \A d : Accounted(d) => Accounted(d)'
        /\ \A S : FailedForCause(S) => FailedForCause(S)'
    BY <1>2, Frame
  <1>4. ContentIsPlaced'
    BY <1>2, <1>3 DEF EntriesOK, ContentIsPlaced, Others
  <1>5. ToolKnows'
    <2>1. FailedForCause(tool.failed)' /\ \A d \in tool'.left : Accounted(d)'
      BY <1>1, <1>2, <1>3 DEF EntriesOK, ToolKnows
    <2>2. \A d : Skipped(d)' <=> Skipped(d)
      BY <1>2 DEF Skipped
    <2>3. \A d \in Entries : d < tool.at
      BY <1>1, EntriesAre DEF Importing, EntriesOK, ToolTypeOK
    <2>4. \A d \in Entries : Skipped(d)' \/ (Accounted(d)' /\ Acceptable(d))
      BY <1>1, <1>3, <2>2, <2>3 DEF EntriesOK, ToolKnows
    <2> QED  BY <1>2, <1>3, <2>1, <2>4 DEF ToolKnows, Acceptable
  <1>6. (tool \in {IdleTool} \cup Importing \cup Cleaning)'
    BY <1>1, <1>2, <1>3 DEF Importing, Cleaning
  <1> QED  BY <1>2, <1>4, <1>5, <1>6, TheRestStays DEF EntriesOK, ToolTypeOK

LEMMA CleanupKeeps ==
  ASSUME EntriesOK, NEW e \in Entries, Cleanup(e)
  PROVE  EntriesOK'
  <1>1. tool.pc = "cleaning" /\ tool \in Cleaning /\ e \in tool.left
    BY ToolIsIn DEF Cleanup, ToolIs, EntriesOK
  <1>2. /\ UNCHANGED <<legacy, verified, content>>
        /\ blobs' = blobs \/ blobs' = blobs \ {e}
        /\ \/ tool' = [tool EXCEPT !.left = tool.left \ {e}]
           \/ tool' = [tool EXCEPT !.left = tool.left \ {e}, !.errors = TRUE]
    BY DEF Cleanup
  <1>3. /\ tool' \in Cleaning /\ tool'.pc = "cleaning" /\ tool'.failed = tool.failed
        /\ tool'.left \subseteq tool.left
    BY <1>1, <1>2 DEF Cleaning
  <1>4. /\ Entries' = Entries /\ Paths' = Paths /\ \A d, x : Place(d, x)' = Place(d, x)
        /\ \A d : Accounted(d) => Accounted(d)'
        /\ \A S : FailedForCause(S) => FailedForCause(S)'
    BY <1>2, Frame
  <1>5. ContentIsPlaced'
    BY <1>2, <1>4 DEF EntriesOK, ContentIsPlaced, Others
  <1>6. ToolKnows'
    <2>1. \A d : Skipped(d)' <=> Skipped(d)
      BY <1>2, <1>3 DEF Skipped
    <2> QED  BY <1>1, <1>2, <1>3, <1>4, <2>1 DEF EntriesOK, ToolKnows, Acceptable
  <1>7. CleanedIsInContent'
    <2>1. Accounted(e)
      BY <1>1 DEF EntriesOK, ToolKnows
    <2>2. \A d \in Entries : legacy[d].blob /\ d \notin blobs => Accounted(d)
      BY DEF EntriesOK, CleanedIsInContent, Accounted
    <2>3. \A d \in Entries : legacy[d].blob /\ d \notin blobs' => Accounted(d)'
      BY <1>2, <1>4, <2>1, <2>2
    <2> QED  BY <1>2, <1>4, <2>3 DEF CleanedIsInContent, Accounted
  <1>8. ToolTypeOK'
    <2>1. (tool \in {IdleTool} \cup Importing \cup Cleaning)'
      BY <1>3, <1>4 DEF Cleaning
    <2>2. (blobs \subseteq Entries)'
      BY <1>2, <1>4 DEF EntriesOK, ToolTypeOK
    <2> QED  BY <1>2, <1>4, <2>1, <2>2 DEF EntriesOK, ToolTypeOK, LegacyEntry, Not
  <1>9. RunsAreRight' /\ SkippedForCause'
    BY <1>2, <1>4, SkipsStay DEF EntriesOK, RunsAreRight
  <1> QED  BY <1>5, <1>6, <1>7, <1>8, <1>9 DEF EntriesOK

\* A run that ends well knows of every entry it has not skipped, and that it is sound.
LEMMA EndWellKeeps ==
  ASSUME EntriesOK, EndWell
  PROVE  EntriesOK'
  <1>1. /\ UNCHANGED <<legacy, blobs, content>> /\ tool' = IdleTool
        /\ verified' = {e \in Entries : Skipped(e)}
    BY DEF EndWell, Exit
  <1>2. /\ Entries' = Entries /\ Paths' = Paths /\ \A d, x : Place(d, x)' = Place(d, x)
        /\ \A d : Accounted(d) => Accounted(d)'
    BY <1>1, Frame
  <1>3. /\ FailedForCause(tool.failed)
        /\ \A d \in Entries : Skipped(d) \/ (Accounted(d) /\ Acceptable(d))
    <2>1. CASE AllPosted /\ ~tool.errors
      <3>1. tool.pc = "importing" /\ tool \in Importing /\ tool.at > NumEntries
        BY <2>1, ToolIsIn DEF AllPosted, ToolIs, EntriesOK
      <3>2. \A d \in Entries : d < tool.at
        BY <3>1, EntriesAre DEF Importing, EntriesOK, ToolTypeOK
      <3> QED  BY <2>1, <3>1, <3>2 DEF EntriesOK, ToolKnows
    <2>2. CASE ToolIs("cleaning")
      BY <2>2 DEF ToolIs, EntriesOK, ToolKnows
    <2> QED  BY <2>1, <2>2 DEF EndWell
  <1>4. ContentIsPlaced'
    BY <1>1, <1>2 DEF EntriesOK, ContentIsPlaced, Others
  <1>5. ToolKnows'
    BY <1>1 DEF ToolKnows, IdleTool
  <1>6. RunsAreRight'
    BY <1>1, <1>2, <1>3 DEF RunsAreRight
  <1>7. SkippedForCause'
    <2> SUFFICES ASSUME NEW e \in Entries, Skipped(e), legacy[e].project # NoProject,
                        ~legacy[e].blob, ~Faulty(e)
                 PROVE  \E d \in Entries :
                           /\ Paths[d] = Paths[e]
                           /\ \/ Faulty(d) /\ legacy[d].project = NoProject
                              \/ legacy[d].fault = "facet" /\ Accounted(d)'
      BY <1>1, <1>2 DEF SkippedForCause, Accounted, Faulty
    <2>1. e \in tool.failed
      BY DEF Skipped
    <2>2. PICK d \in Entries : Paths[d] = Paths[e] /\ Faulty(d)
                               /\ (d = e \/ d \notin tool.failed)
      BY <1>3, <2>1 DEF FailedForCause
    <2>3. d \notin tool.failed
      BY <2>2
    \* Content had the last word on the entry at fault.
    <2>4. Skipped(d) \/ (Accounted(d)' /\ legacy[d].fault = "facet")
      BY <1>2, <1>3, <2>2 DEF Acceptable, Faulty
    <2> QED  BY <2>2, <2>3, <2>4 DEF Skipped
  <1>8. CleanedIsInContent'
    <2>1. \A d \in Entries : legacy[d].blob /\ d \notin blobs => Accounted(d)
      BY DEF EntriesOK, CleanedIsInContent, Accounted
    <2>2. \A d \in Entries : legacy[d].blob /\ d \notin blobs => Accounted(d)'
      BY <1>2, <2>1
    <2> QED  BY <1>1, <1>2, <2>2 DEF CleanedIsInContent, Accounted
  <1>9. ToolTypeOK'
    BY <1>1, <1>2 DEF EntriesOK, ToolTypeOK, LegacyEntry, Not
  <1> QED  BY <1>4, <1>5, <1>6, <1>7, <1>8, <1>9 DEF EntriesOK

-----------------------------------------------------------------------------
(* Theorems.                                                               *)

LEMMA InitIsCutoverInv ==
  ASSUME Init
  PROVE  CutoverInv
  <1>1. /\ content = {} /\ tool = IdleTool /\ verified = Not /\ proc = NoProc /\ file = start
        /\ blobs = {e \in Entries : legacy[e].blob}
    BY DEF Init, SchemaInit
  <1>2. "entries" \in start.rows => app = "svc" /\ start \in SvcDatabases
    BY AuthHasNone DEF Init, SchemaInit
  <1>3. TablesStay
    BY <1>1, <1>2, StartsAre DEF TablesStay, NoProc
  <1>4. ProcTypeOK
    BY <1>1 DEF ProcTypeOK, NoProc
  <1>5. legacy \in Seq(LegacyEntry)
    <2>1. CASE "entries" \in start.rows
      <3>1. legacy \in Legacies(start) /\ start \in SvcDatabases
        BY <1>2, <2>1 DEF Init
      <3> QED  BY <3>1, MigrationAssumption
    <2>2. CASE "entries" \notin start.rows
      <3>1. legacy = << >>
        BY <2>2 DEF Init
      <3> QED  BY <3>1
    <2> QED  BY <2>1, <2>2
  <1>6. ToolTypeOK
    BY <1>1, <1>5 DEF ToolTypeOK
  <1>7. ContentIsPlaced /\ RunsAreRight /\ CleanedIsInContent
    BY <1>1 DEF ContentIsPlaced, RunsAreRight, CleanedIsInContent
  <1>8. ToolKnows
    BY <1>1 DEF ToolKnows, IdleTool
  <1>9. SkippedForCause
    <2>1. -1 \notin Entries
      BY <1>5, EntriesAre
    <2> QED  BY <1>1, <2>1 DEF SkippedForCause, Not
  <1> QED  BY <1>3, <1>4, <1>6, <1>7, <1>8, <1>9 DEF CutoverInv, EntriesOK

LEMMA NextKeepsTables ==
  ASSUME CutoverInv, [Next]_vars
  PROVE  ProcTypeOK' /\ TablesStay'
  <1>0. ToolTypeOK /\ ProcTypeOK /\ TablesStay
    BY DEF CutoverInv, EntriesOK
  <1>1. CASE Opening
    BY <1>0, <1>1, OpeningKeepsTables
  <1>2. CASE Dying
    BY <1>0, <1>2, ToolKeepsTables DEF Dying, Die
  <1>3. CASE ReportOnly
    BY <1>0, <1>3, ToolKeepsTables DEF ReportOnly, Exit
  <1>4. ASSUME NEW force, NEW cleanup, BeginCutover(force, cleanup)
        PROVE  ProcTypeOK' /\ TablesStay'
    BY <1>0, <1>4, ToolKeepsTables DEF BeginCutover, schemaVars
  <1>5. ASSUME NEW e \in Entries,
               Skip(e) \/ CreateEntry(e) \/ Cleanup(e) \/ MemberCreates(e)
        PROVE  ProcTypeOK' /\ TablesStay'
    <2>1. UNCHANGED <<app, start, file, proc, verified>>
      BY <1>5 DEF Skip, CreateEntry, Cleanup, MemberCreates, schemaVars
    <2> QED  BY <1>0, <2>1, ToolKeepsTables
  <1>6. CASE EndInError
    BY <1>0, <1>6, ToolKeepsTables DEF EndInError, Exit
  <1>7. CASE EndWell
    <2>1. app' = app /\ start' = start /\ file' = file /\ proc' = NoProc
          /\ verified' \in SUBSET Entries
      BY <1>7 DEF EndWell, Exit
    <2> QED  BY <1>0, <2>1, ToolKeepsTables
  <1>8. CASE BeginCleanup
    BY <1>0, <1>8, ToolKeepsTables DEF BeginCleanup, schemaVars
  <1>9. CASE CleanupFails
    BY <1>0, <1>9, ToolKeepsTables DEF CleanupFails, Exit
  <1>10. CASE UNCHANGED vars
    BY <1>0, <1>10, ToolKeepsTables DEF vars, schemaVars, migrationVars
  <1> QED  BY <1>1, <1>2, <1>3, <1>4, <1>5, <1>6, <1>7, <1>8, <1>9, <1>10 DEF Next

LEMMA NextKeepsEntries ==
  ASSUME EntriesOK, [Next]_vars
  PROVE  EntriesOK'
  <1>1. CASE Opening
    BY <1>1, NothingKeeps DEF Opening, migrationVars
  <1>2. CASE Dying
    BY <1>2, NothingKeeps DEF Dying
  <1>3. CASE ReportOnly
    BY <1>3, NothingKeeps DEF ReportOnly, Exit
  <1>4. CASE \E force, cleanup \in BOOLEAN : BeginCutover(force, cleanup)
    BY <1>4, BeginCutoverKeeps
  <1>5. ASSUME NEW e \in Entries,
               Skip(e) \/ CreateEntry(e) \/ Cleanup(e) \/ MemberCreates(e)
        PROVE  EntriesOK'
    BY <1>5, SkipKeeps, CreateEntryKeeps, CleanupKeeps, MemberCreatesKeeps
  <1>6. CASE EndInError
    BY <1>6, NothingKeeps DEF EndInError, Exit
  <1>7. CASE EndWell
    BY <1>7, EndWellKeeps
  <1>8. CASE BeginCleanup
    BY <1>8, BeginCleanupKeeps
  <1>9. CASE CleanupFails
    BY <1>9, NothingKeeps DEF CleanupFails, Exit
  <1>10. CASE UNCHANGED vars
    BY <1>10, NothingKeeps DEF vars, migrationVars
  <1> QED  BY <1>1, <1>2, <1>3, <1>4, <1>5, <1>6, <1>7, <1>8, <1>9, <1>10 DEF Next

\* What the tool knows, what the operator relies on, and when the tables may go: all of it
\* holds whatever fails, dies or is run again.
THEOREM CutoverInvariance == MigrationSpec => []CutoverInv
  <1>1. Init => CutoverInv
    BY InitIsCutoverInv
  <1>2. CutoverInv /\ [Next]_vars => CutoverInv'
    BY NextKeepsTables, NextKeepsEntries DEF CutoverInv
  <1> QED  BY <1>1, <1>2, PTL DEF MigrationSpec

\* Cleanup deletes a legacy body only when its text is in content or its path was taken:
\* a 409 of CreateEntry is never another legacy entry's.
THEOREM CleanedBodiesAreSafe == MigrationSpec => []CleanedIsInContent
  <1>1. CutoverInv => CleanedIsInContent
    BY DEF CutoverInv, EntriesOK
  <1> QED  BY <1>1, CutoverInvariance, PTL

\* What a run that ended well has skipped, it had a reason to skip: its report, in which
\* entries of one path are taken for one another, hides no other loss.
THEOREM SkipsHaveCause == MigrationSpec => []SkippedForCause
  <1>1. CutoverInv => SkippedForCause
    BY DEF CutoverInv, EntriesOK
  <1> QED  BY <1>1, CutoverInvariance, PTL

\* toV8 drops the legacy entries only when each one is accounted for: in content, listed
\* as skipped, or its path taken.
THEOREM DropsAreAccounted == MigrationSpec => []DroppedIsAccounted
  <1>1. CutoverInv => DroppedIsAccounted
    <2> SUFFICES ASSUME CutoverInv, "entries" \in start.rows \ Tables(file), NEW e \in Entries
                 PROVE  InContent(e) \/ e \in verified \/ Usurped(e)
      BY DEF DroppedIsAccounted
    <2>1. verified # Not
      BY DEF CutoverInv, TablesStay, HasEntries
    <2> QED  BY <2>1 DEF CutoverInv, EntriesOK, RunsAreRight, Accounted
  <1> QED  BY <1>1, CutoverInvariance, PTL
=============================================================================
