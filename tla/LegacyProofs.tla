---------------------------- MODULE LegacyProofs ----------------------------
(***************************************************************************)
(* For every legacy entry with any annotations: what its conversion shows  *)
(* to whom.                                                                *)
(*                                                                         *)
(* A body is a tree in which every node comes before its children.  What   *)
(* is said of a node is said of the texts under it (Under): what it gives  *)
(* (GivesTexts), then the blocks made of it (BlocksAre), each text once    *)
(* and the texts of different nodes apart.                                 *)
(***************************************************************************)
EXTENDS EngineProofs, LegacyBodies

-----------------------------------------------------------------------------
(* The nodes of a legacy body.                                             *)

LEMMA BodyIs ==
  ASSUME NEW body, IsBody(body)
  PROVE  /\ Len(body) \in Nat /\ DOMAIN body = 1 .. Len(body) /\ 1 \in DOMAIN body
         /\ body[1].tag = "body"
         /\ \A n \in DOMAIN body :
               /\ Len(body[n].children) \in Nat /\ DOMAIN body[n].children = 1 .. Len(body[n].children)
               /\ \A i \in DOMAIN body[n].children :
                     /\ body[n].children[i] \in n + 1 .. Len(body)
                     /\ body[n].children[i] \in DOMAIN body
               /\ body[n].tag = "text" => DOMAIN body[n].children = {}
               /\ body[n].id \in Nat /\ (body[n].id # 0 => body[n].tag = "gm")
         /\ \A m, n \in DOMAIN body :
               \A i \in DOMAIN body[m].children, j \in DOMAIN body[n].children :
                  body[m].children[i] = body[n].children[j] => m = n /\ i = j
  <1>1. /\ body # << >> /\ body \in Seq([tag : STRING, id : Nat, children : Seq(Nat)])
        /\ IsTree(body) /\ body[1].tag = "body"
        /\ \A n \in DOMAIN body :
              /\ body[n].tag = "text" => body[n].children = << >>
              /\ body[n].id # 0 => body[n].tag = "gm"
    BY DEF IsBody
  <1>2. Len(body) \in Nat /\ DOMAIN body = 1 .. Len(body) /\ 1 \in DOMAIN body
    BY <1>1
  <1>3. ASSUME NEW n \in DOMAIN body PROVE body[n].id \in Nat
    <2> DEFINE T == [tag : STRING, id : Nat, children : Seq(Nat)]
    <2>1. body \in Seq(T)
      BY <1>1
    <2>2. \A r \in T : r.id \in Nat
      OBVIOUS
    <2> HIDE DEF T
    <2>3. body[n] \in T
      BY <2>1
    <2> QED  BY <2>2, <2>3
  <1>4. ASSUME NEW n \in DOMAIN body
        PROVE  /\ Len(body[n].children) \in Nat /\ DOMAIN body[n].children = 1 .. Len(body[n].children)
               /\ \A i \in DOMAIN body[n].children :
                     /\ body[n].children[i] \in n + 1 .. Len(body)
                     /\ body[n].children[i] \in DOMAIN body
    <2> DEFINE c == body[n].children
               T == n + 1 .. Len(body)
    <2>1. c \in Seq(T)
      BY <1>1 DEF IsTree
    <2>2. \A x \in T : x \in DOMAIN body
      BY <1>2
    <2> HIDE DEF c, T
    <2>3. Len(c) \in Nat /\ DOMAIN c = 1 .. Len(c) /\ \A i \in DOMAIN c : c[i] \in T
      BY <2>1
    <2> QED  BY <2>2, <2>3 DEF c, T
  <1>5. \A n \in DOMAIN body : body[n].tag = "text" => DOMAIN body[n].children = {}
    <2>1. DOMAIN << >> = {}
      OBVIOUS
    <2> QED  BY <1>1, <2>1
  <1>6. \A m, n \in DOMAIN body :
           \A i \in DOMAIN body[m].children, j \in DOMAIN body[n].children :
              body[m].children[i] = body[n].children[j] => m = n /\ i = j
    BY <1>1 DEF IsTree
  <1> QED  BY <1>1, <1>2, <1>3, <1>4, <1>5, <1>6

LEMMA ParentsAre ==
  ASSUME NEW body, IsBody(body), NEW k \in DOMAIN body
  PROVE  /\ \A m \in Parents(body, k) : m \in DOMAIN body /\ m < k /\ m \in Nat
         /\ \A m, n \in Parents(body, k) : m = n
         /\ k # 1 => Parents(body, k) # {}
         /\ k = 1 => Parents(body, k) = {}
  <1>1. /\ DOMAIN body = 1 .. Len(body) /\ Len(body) \in Nat
        /\ \A n \in DOMAIN body : \A i \in DOMAIN body[n].children : body[n].children[i] \in n + 1 .. Len(body)
        /\ \A m, n \in DOMAIN body :
              \A i \in DOMAIN body[m].children, j \in DOMAIN body[n].children :
                 body[m].children[i] = body[n].children[j] => m = n /\ i = j
    BY BodyIs
  <1>2. \A m \in Parents(body, k) : m \in DOMAIN body /\ m < k /\ m \in Nat
    BY <1>1 DEF Parents
  <1>3. \A m, n \in Parents(body, k) : m = n
    BY <1>1 DEF Parents
  <1>4. k # 1 => Parents(body, k) # {}
    <2>1. k # 1 => k \in 2 .. Len(body)
      BY <1>1
    <2>2. \A j \in 2 .. Len(body) : \E n \in DOMAIN body : \E i \in DOMAIN body[n].children : body[n].children[i] = j
      BY DEF IsBody, IsTree
    <2> QED  BY <2>1, <2>2 DEF Parents
  <1>5. k = 1 => Parents(body, k) = {}
    BY <1>1, <1>2
  <1> QED  BY <1>2, <1>3, <1>4, <1>5

LEMMA ParentOfChild ==
  ASSUME NEW body, IsBody(body), NEW n \in DOMAIN body, NEW i \in DOMAIN body[n].children
  PROVE  \A m : m \in Parents(body, body[n].children[i]) <=> m = n
  <1>1. body[n].children[i] \in DOMAIN body
    BY BodyIs
  <1>2. n \in Parents(body, body[n].children[i])
    BY DEF Parents
  <1> QED  BY <1>1, <1>2, ParentsAre

AboveOf(body, above, n) == Parents(body, n) \cup UNION {above[m] : m \in Parents(body, n)}

LEMMA AboveExists ==
  ASSUME NEW body, IsBody(body)
  PROVE  \E above : above = [n \in DOMAIN body |-> AboveOf(body, above, n)]
  <1> DEFINE N == Len(body)
             Is(f, m) == f = [b \in 1 .. m |-> AboveOf(body, f, b)]
             S == {k \in Nat : k <= N => \E f : Is(f, k)}
  <1>0. N \in Nat /\ DOMAIN body = 1 .. N
    BY BodyIs
  <1>1. ASSUME NEW b \in 1 .. N, NEW f, NEW g, \A k \in 1 .. b - 1 : f[k] = g[k]
        PROVE  AboveOf(body, f, b) = AboveOf(body, g, b)
    <2>1. \A m \in Parents(body, b) : m \in 1 .. b - 1
      <3>1. b \in DOMAIN body
        BY <1>0
      <3>2. \A m \in Parents(body, b) : m \in DOMAIN body /\ m < b /\ m \in Nat
        BY <3>1, ParentsAre
      <3> QED  BY <1>0, <3>2
    <2>2. \A m \in Parents(body, b) : f[m] = g[m]
      BY <1>1, <2>1
    <2> QED  BY <2>2 DEF AboveOf
  <1>2. 0 \in S
    <2>1. Is([b \in 1 .. 0 |-> 0], 0)
      OBVIOUS
    <2> HIDE DEF Is, N
    <2> QED  BY <2>1
  <1>3. ASSUME NEW k \in Nat, k \in S
        PROVE  k + 1 \in S
    <2> HIDE DEF N
    <2> SUFFICES ASSUME k + 1 <= N
                 PROVE  \E f : Is(f, k + 1)
      <3> HIDE DEF Is
      <3> QED  OBVIOUS
    <2> DEFINE w == k + 1
    <2>1. w \in 1 .. N /\ w - 1 = k
      BY <1>0
    <2>2. PICK f : Is(f, k)
      <3>1. k <= N
        BY <1>0
      <3> HIDE DEF Is
      <3> QED  BY <1>3, <3>1
    <2> HIDE DEF w
    <2> DEFINE g == [b \in 1 .. w |-> IF b = w THEN AboveOf(body, f, w) ELSE f[b]]
    <2>3. \A b \in 1 .. w - 1 : b \in 1 .. w /\ b # w /\ f[b] = AboveOf(body, f, b)
      BY <1>0, <2>1, <2>2
    <2>4. \A b \in 1 .. w - 1 : f[b] = g[b]
      BY <2>3
    <2>5. g[w] = AboveOf(body, f, w)
      <3>1. w \in 1 .. w
        BY <1>0, <2>1
      <3> QED  BY <3>1
    <2>6. DOMAIN g = 1 .. w /\ g = [b \in 1 .. w |-> g[b]]
      OBVIOUS
    <2> HIDE DEF g
    <2>7. ASSUME NEW b \in 1 .. w
          PROVE  g[b] = AboveOf(body, g, b)
      <3>1. b \in 1 .. N /\ \A j \in 1 .. b - 1 : j \in 1 .. w - 1
        BY <1>0, <2>1
      <3>2. AboveOf(body, f, b) = AboveOf(body, g, b)
        BY <1>1, <2>4, <3>1
      <3>3. b = w \/ b \in 1 .. w - 1
        BY <1>0, <2>1
      <3> QED  BY <2>3, <2>4, <2>5, <3>2, <3>3
    <2>8. Is(g, w)
      BY <2>6, <2>7
    <2> HIDE DEF Is
    <2> QED  BY <2>8 DEF w
  <1>4. N \in S
    <2> HIDE DEF S
    <2> QED  BY <1>0, <1>2, <1>3, SetOfNaturals
  <1>5. \E f : Is(f, N)
    <2>1. N <= N
      BY <1>0
    <2> HIDE DEF Is, N
    <2> QED  BY <1>4, <2>1
  <1> QED  BY <1>0, <1>5

LEMMA AboveIs ==
  ASSUME NEW body, IsBody(body), NEW k \in DOMAIN body
  PROVE  /\ \A x : x \in Above(body)[k] <=>
               x \in Parents(body, k) \/ \E p \in Parents(body, k) : x \in Above(body)[p]
         /\ \A x \in Above(body)[k] : x \in DOMAIN body /\ x < k /\ x \in Nat
  <1> DEFINE above[n \in DOMAIN body] == Parents(body, n) \cup UNION {above[m] : m \in Parents(body, n)}
             F == CHOOSE f : f = [n \in DOMAIN body |-> AboveOf(body, f, n)]
  <1>1. above = F
    BY DEF above, AboveOf
  <1>2. Above(body) = above
    BY DEF Above, above
  <1> HIDE DEF above
  <1>3. F = [n \in DOMAIN body |-> AboveOf(body, F, n)]
    BY AboveExists
  <1> HIDE DEF F
  <1>4. \A n \in DOMAIN body : F[n] = AboveOf(body, F, n)
    BY <1>3
  <1>5. \A n \in DOMAIN body : \A x : x \in F[n] <=> x \in Parents(body, n) \/ \E p \in Parents(body, n) : x \in F[p]
    BY <1>4 DEF AboveOf
  <1> DEFINE W == {n \in DOMAIN body : ~ \A x \in F[n] : x \in DOMAIN body /\ x < n /\ x \in Nat}
             w == Least(W)
  <1>6. DOMAIN body \subseteq Nat
    BY BodyIs
  <1>7. W = {}
    <2> SUFFICES ASSUME W # {} PROVE FALSE
      OBVIOUS
    <2>1. w \in W /\ \A m \in W : w <= m
      <3>1. W \subseteq Nat
        BY <1>6
      <3> HIDE DEF W
      <3> QED  BY <3>1, LeastOf
    <2> HIDE DEF w
    <2>2. PICK x \in F[w] : ~(x \in DOMAIN body /\ x < w /\ x \in Nat)
      BY <2>1
    <2>3. \A m \in Parents(body, w) : m \in DOMAIN body /\ m < w /\ m \in Nat
      BY <2>1, ParentsAre
    <2>4. PICK p \in Parents(body, w) : x \in F[p]
      BY <1>5, <2>1, <2>2, <2>3
    <2>5. p \in W
      BY <1>6, <2>1, <2>2, <2>3, <2>4
    <2>6. w <= p /\ w \in Nat
      BY <1>6, <2>1, <2>5
    <2> QED  BY <2>3, <2>4, <2>6
  <1> QED  BY <1>1, <1>2, <1>5, <1>7

\* A node and the nodes in it.
Under(body, n) == {k \in DOMAIN body : k = n \/ n \in Above(body)[k]}

LEMMA UnderIs ==
  ASSUME NEW body, IsBody(body), NEW n \in DOMAIN body
  PROVE  /\ \A k : k \in Under(body, n) <=>
               k = n \/ \E i \in DOMAIN body[n].children : k \in Under(body, body[n].children[i])
         /\ \A i \in DOMAIN body[n].children : n \notin Under(body, body[n].children[i])
         /\ \A k \in Under(body, n) : k \in DOMAIN body /\ n <= k /\ k \in Nat
  <1> DEFINE c == body[n].children
             A == Above(body)
  <1>0. /\ DOMAIN body \subseteq Nat
        /\ \A i \in DOMAIN c : c[i] \in DOMAIN body /\ n < c[i]
    BY BodyIs
  <1>1. \A k \in DOMAIN body :
           /\ \A x : x \in A[k] <=> x \in Parents(body, k) \/ \E p \in Parents(body, k) : x \in A[p]
           /\ \A x \in A[k] : x \in DOMAIN body /\ x < k /\ x \in Nat
    BY AboveIs
  <1>2. \A i \in DOMAIN c : n \in Parents(body, c[i])
    BY ParentOfChild
  <1>3. \A k \in DOMAIN body : \A p \in Parents(body, k) : p \in DOMAIN body /\ p < k
    BY ParentsAre
  <1>4. \A k \in DOMAIN body : n \in Parents(body, k) => \E i \in DOMAIN c : k = c[i]
    BY DEF Parents
  <1> HIDE DEF A, c
  <1> DEFINE In(k) == \E i \in DOMAIN c : k = c[i] \/ c[i] \in A[k]
             W == {k \in DOMAIN body : n \in A[k] /\ ~In(k)}
             V == {k \in DOMAIN body : In(k) /\ n \notin A[k]}
  <1>5. W = {}
    <2> SUFFICES ASSUME W # {} PROVE FALSE
      OBVIOUS
    <2> DEFINE w == Least(W)
    <2>1. w \in W /\ \A m \in W : w <= m
      <3>1. W \subseteq Nat
        BY <1>0
      <3> HIDE DEF W
      <3> QED  BY <3>1, LeastOf
    <2> HIDE DEF w
    <2>2. w \in DOMAIN body /\ n \in A[w] /\ ~In(w)
      BY <2>1
    <2>3. n \notin Parents(body, w)
      BY <1>4, <2>2
    <2>4. PICK p \in Parents(body, w) : n \in A[p]
      BY <1>1, <2>2, <2>3
    <2>5. p \in DOMAIN body /\ p < w /\ p \in Nat /\ w \in Nat
      BY <1>0, <1>3, <2>2
    <2>6. In(p)
      <3>1. p \notin W
        <4> HIDE DEF W
        <4> QED  BY <2>1, <2>5
      <3> HIDE DEF In
      <3> QED  BY <2>4, <2>5, <3>1
    <2>7. PICK i \in DOMAIN c : p = c[i] \/ c[i] \in A[p]
      BY <2>6
    <2>8. c[i] \in A[w]
      BY <1>1, <2>2, <2>4, <2>7
    <2> QED  BY <2>2, <2>8
  <1>6. V = {}
    <2> SUFFICES ASSUME V # {} PROVE FALSE
      OBVIOUS
    <2> DEFINE w == Least(V)
    <2>1. w \in V /\ \A m \in V : w <= m
      <3>1. V \subseteq Nat
        BY <1>0
      <3> HIDE DEF V
      <3> QED  BY <3>1, LeastOf
    <2> HIDE DEF w
    <2>2. w \in DOMAIN body /\ n \notin A[w]
      BY <2>1
    <2>3. PICK i \in DOMAIN c : w = c[i] \/ c[i] \in A[w]
      BY <2>1
    <2>4. w # c[i]
      BY <1>1, <1>2, <2>2
    <2>5. CASE c[i] \in Parents(body, w)
      <3>1. n \in A[c[i]]
        BY <1>0, <1>1, <1>2
      <3> QED  BY <1>1, <2>2, <2>5, <3>1
    <2>6. CASE c[i] \notin Parents(body, w)
      <3>1. PICK p \in Parents(body, w) : c[i] \in A[p]
        BY <1>1, <2>2, <2>3, <2>4, <2>6
      <3>2. p \in DOMAIN body /\ p < w /\ p \in Nat /\ w \in Nat
        BY <1>0, <1>3, <2>2
      <3>3. p \notin V
        <4> HIDE DEF V
        <4> QED  BY <2>1, <3>2
      <3>4. n \in A[p]
        BY <3>1, <3>2, <3>3
      <3> QED  BY <1>1, <2>2, <3>4
    <2> QED  BY <2>5, <2>6
  <1>7. \A k \in DOMAIN body : n \in A[k] <=> In(k)
    BY <1>5, <1>6
  <1>8. \A k : k \in Under(body, n) <=> k = n \/ \E i \in DOMAIN c : k \in Under(body, c[i])
    <2>1. \A k : k \in Under(body, n) <=> k \in DOMAIN body /\ (k = n \/ n \in A[k])
      BY DEF Under, A
    <2>2. \A k, i : k \in Under(body, c[i]) <=> k \in DOMAIN body /\ (k = c[i] \/ c[i] \in A[k])
      BY DEF Under, A
    <2> QED  BY <1>7, <2>1, <2>2
  <1>9. \A i \in DOMAIN c : n \notin Under(body, c[i])
    <2> SUFFICES ASSUME NEW i \in DOMAIN c, n \in Under(body, c[i]) PROVE FALSE
      OBVIOUS
    <2>1. n = c[i] \/ c[i] \in A[n]
      BY DEF Under, A
    <2>2. n < c[i] /\ n \in Nat /\ c[i] \in Nat
      BY <1>0
    <2>3. c[i] \in A[n] => c[i] < n
      BY <1>1
    <2> QED  BY <2>1, <2>2, <2>3
  <1>10. \A k \in Under(body, n) : k \in DOMAIN body /\ n <= k /\ k \in Nat
    <2> SUFFICES ASSUME NEW k \in Under(body, n) PROVE k \in DOMAIN body /\ n <= k /\ k \in Nat
      OBVIOUS
    <2>1. k \in DOMAIN body /\ (k = n \/ n \in A[k])
      BY DEF Under, A
    <2>2. k \in Nat /\ n \in Nat /\ (n \in A[k] => n < k)
      BY <1>0, <1>1, <2>1
    <2> QED  BY <2>1, <2>2
  <1> QED  BY <1>8, <1>9, <1>10 DEF c

\* What is around a node in another is in that other, or around it.
LEMMA AboveUnder ==
  ASSUME NEW body, IsBody(body), NEW n \in DOMAIN body, NEW k \in Under(body, n), NEW m \in Above(body)[k]
  PROVE  m \in Under(body, n) \/ m \in Above(body)[n]
  <1> DEFINE A == Above(body)
             W == {x \in DOMAIN body : /\ x \in Under(body, n)
                                       /\ ~ \A y \in A[x] : y \in Under(body, n) \/ y \in A[n]}
             w == Least(W)
  <1>0. DOMAIN body \subseteq Nat /\ k \in DOMAIN body
    BY BodyIs DEF Under
  <1>1. \A x \in DOMAIN body :
           /\ \A y : y \in A[x] <=> y \in Parents(body, x) \/ \E p \in Parents(body, x) : y \in A[p]
           /\ \A y \in A[x] : y \in DOMAIN body /\ y < x /\ y \in Nat
    BY AboveIs
  <1>2. \A x \in DOMAIN body : /\ \A p \in Parents(body, x) : p \in DOMAIN body /\ p < x
                               /\ \A p, q \in Parents(body, x) : p = q
    BY ParentsAre
  <1> HIDE DEF A
  <1>3. W = {}
    <2> SUFFICES ASSUME W # {} PROVE FALSE
      OBVIOUS
    <2>1. w \in W /\ \A x \in W : w <= x
      <3>1. W \subseteq Nat
        BY <1>0
      <3> HIDE DEF W
      <3> QED  BY <3>1, LeastOf
    <2> HIDE DEF w
    <2>2. PICK y \in A[w] : y \notin Under(body, n) /\ y \notin A[n]
      BY <2>1
    <2>3. w \in DOMAIN body /\ w \in Under(body, n) /\ w # n
      BY <2>1, <2>2
    <2>4. n \in A[w]
      BY <2>3 DEF Under, A
    <2>5. PICK p \in Parents(body, w) : p = n \/ n \in A[p]
      BY <1>1, <2>3, <2>4
    <2>6. p \in DOMAIN body /\ p < w /\ p \in Nat /\ w \in Nat
      BY <1>0, <1>2, <2>3
    <2>7. p \in Under(body, n)
      BY <2>5, <2>6 DEF Under, A
    <2>8. y = p \/ y \in A[p]
      BY <1>1, <1>2, <2>2, <2>3
    <2>9. p \notin W
      <3> HIDE DEF W
      <3> QED  BY <2>1, <2>6
    <2> QED  BY <2>2, <2>6, <2>7, <2>8, <2>9
  <1> QED  BY <1>0, <1>3 DEF A

\* What is in two children of a node is in one of them only.
LEMMA UnderApart ==
  ASSUME NEW body, IsBody(body), NEW n \in DOMAIN body,
         NEW i \in DOMAIN body[n].children, NEW j \in DOMAIN body[n].children, i # j,
         NEW k, k \in Under(body, body[n].children[i]), k \in Under(body, body[n].children[j])
  PROVE  FALSE
  <1> DEFINE c == body[n].children[i]
             d == body[n].children[j]
             A == Above(body)
             W == {x \in DOMAIN body : x \in Under(body, c) /\ x \in Under(body, d)}
             w == Least(W)
  <1>0. /\ DOMAIN body \subseteq Nat /\ c \in DOMAIN body /\ d \in DOMAIN body /\ c # d
        /\ n < c /\ n < d
    BY BodyIs
  <1>1. \A x \in DOMAIN body :
           /\ \A y : y \in A[x] <=> y \in Parents(body, x) \/ \E p \in Parents(body, x) : y \in A[p]
           /\ \A y \in A[x] : y \in DOMAIN body /\ y < x /\ y \in Nat
    BY AboveIs
  <1>2. \A x \in DOMAIN body : /\ \A p \in Parents(body, x) : p \in DOMAIN body /\ p < x
                               /\ \A p, q \in Parents(body, x) : p = q
    BY ParentsAre
  <1>3. (\A m : m \in Parents(body, c) <=> m = n) /\ (\A m : m \in Parents(body, d) <=> m = n)
    BY ParentOfChild
  <1>4. \A x, y : x \in Under(body, y) <=> x \in DOMAIN body /\ (x = y \/ y \in A[x])
    BY DEF Under
  <1>5. k \in W
    BY <1>4
  <1> HIDE DEF A, c, d
  <1>6. w \in W /\ \A x \in W : w <= x
    <2>1. W \subseteq Nat
      BY <1>0
    <2> HIDE DEF W
    <2> QED  BY <1>5, <2>1, LeastOf
  <1> HIDE DEF w
  <1>7. w \in DOMAIN body /\ (w = c \/ c \in A[w]) /\ (w = d \/ d \in A[w])
    BY <1>4, <1>6
  <1>8. ASSUME NEW x, NEW y, x \in DOMAIN body, y \in DOMAIN body, n < y, \A m : m \in Parents(body, x) <=> m = n
        PROVE  y \notin A[x]
    <2> SUFFICES ASSUME y \in A[x] PROVE FALSE
      OBVIOUS
    <2>1. y = n \/ y \in A[n]
      BY <1>1, <1>8
    <2>2. y \in Nat /\ n \in Nat /\ (y \in A[n] => y < n)
      BY <1>0, <1>1, <1>8
    <2> QED  BY <1>8, <2>1, <2>2
  <1>9. w # c /\ w # d
    BY <1>0, <1>3, <1>7, <1>8
  <1>10. c \in A[w] /\ d \in A[w]
    BY <1>7, <1>9
  <1>11. PICK p \in Parents(body, w) : p = c \/ c \in A[p]
    BY <1>1, <1>7, <1>10
  <1>12. p = d \/ d \in A[p]
    BY <1>1, <1>2, <1>7, <1>10, <1>11
  <1>13. p \in DOMAIN body /\ p < w /\ p \in Nat /\ w \in Nat
    BY <1>0, <1>2, <1>7, <1>11
  <1>14. p \in W
    BY <1>4, <1>11, <1>12, <1>13
  <1>15. w <= p
    BY <1>6, <1>14
  <1> QED  BY <1>13, <1>15

\* Every node but the first is in a child of the first.
LEMMA UnderFirst ==
  ASSUME NEW body, IsBody(body), NEW k \in DOMAIN body
  PROVE  k \in Under(body, 1)
  <1> DEFINE A == Above(body)
             W == {x \in DOMAIN body : x # 1 /\ 1 \notin A[x]}
             w == Least(W)
  <1>0. DOMAIN body \subseteq Nat
    BY BodyIs
  <1>1. \A x \in DOMAIN body :
           \A y : y \in A[x] <=> y \in Parents(body, x) \/ \E p \in Parents(body, x) : y \in A[p]
    BY AboveIs
  <1>2. \A x \in DOMAIN body : /\ \A p \in Parents(body, x) : p \in DOMAIN body /\ p < x
                               /\ x # 1 => Parents(body, x) # {}
    BY ParentsAre
  <1> HIDE DEF A
  <1>3. W = {}
    <2> SUFFICES ASSUME W # {} PROVE FALSE
      OBVIOUS
    <2>1. w \in W /\ \A x \in W : w <= x
      <3>1. W \subseteq Nat
        BY <1>0
      <3> HIDE DEF W
      <3> QED  BY <3>1, LeastOf
    <2> HIDE DEF w
    <2>2. w \in DOMAIN body /\ w # 1 /\ 1 \notin A[w]
      BY <2>1
    <2>3. PICK p \in Parents(body, w) : TRUE
      BY <1>2, <2>2
    <2>4. p \in DOMAIN body /\ p < w /\ p \in Nat /\ w \in Nat
      BY <1>0, <1>2, <2>2
    <2>5. p \notin W
      <3> HIDE DEF W
      <3> QED  BY <2>1, <2>4
    <2>6. 1 \in A[w]
      BY <1>1, <2>2, <2>4, <2>5
    <2> QED  BY <2>2, <2>6
  <1> QED  BY <1>3 DEF Under, A

-----------------------------------------------------------------------------
(* Texts, each once.                                                       *)

Words == {"text", "row"} \X Nat

\* Different, or of an annotation: two marks may have the same one.
Apart == {p \in Words \X Words : p[1] # p[2] \/ p[1][1] = "row"}

Tidy(s) == s \in Seq(Words) /\ Sorted(s, Apart)

AreApart(s, t) == \A x \in ToSet(s), y \in ToSet(t) : <<x, y>> \in Apart

\* The texts of some nodes, each once.
HasTexts(s, S) == Tidy(s) /\ \A x : x \in ToSet(s) <=> \E k \in S : x = Word(k)

LEMMA WordsAre ==
  /\ \A n \in Nat : Word(n) \in Words /\ Row(n) \in Words
  /\ \A n, m : Word(n) # Row(m)
  /\ \A n, m : Word(n) = Word(m) => n = m
  /\ \A n, m : Row(n) = Row(m) => n = m
  /\ \A n \in Nat, x \in Words : <<Row(n), x>> \in Apart
  /\ \A n, m \in Nat : <<Word(n), Row(m)>> \in Apart
  /\ \A n, m \in Nat : <<Word(n), Word(m)>> \in Apart <=> n # m
  <1>1. \A n \in Nat : Word(n) \in Words /\ Row(n) \in Words
    BY DEF Words, Word, Row
  <1>2. \A n : Word(n)[1] = "text" /\ Word(n)[2] = n /\ Row(n)[1] = "row" /\ Row(n)[2] = n
    BY DEF Word, Row
  <1>3. \A n, m : Word(n) # Row(m)
    <2>1. "text" # "row"
      OBVIOUS
    <2> QED  BY <1>2, <2>1
  <1>4. \A n, m : (Word(n) = Word(m) => n = m) /\ (Row(n) = Row(m) => n = m)
    BY <1>2
  <1>5. \A x, y : <<x, y>> \in Apart <=> x \in Words /\ y \in Words /\ (x # y \/ x[1] = "row")
    BY DEF Apart
  <1>6. \A n \in Nat, x \in Words : <<Row(n), x>> \in Apart
    BY <1>1, <1>2, <1>5
  <1>7. \A n, m \in Nat : <<Word(n), Row(m)>> \in Apart
    BY <1>1, <1>3, <1>5
  <1>8. \A n, m \in Nat : <<Word(n), Word(m)>> \in Apart <=> n # m
    <2>1. "text" # "row"
      OBVIOUS
    <2> QED  BY <1>1, <1>2, <1>4, <1>5, <2>1
  <1> QED  BY <1>1, <1>3, <1>4, <1>6, <1>7, <1>8

LEMMA TidyOne ==
  ASSUME NEW w \in Words
  PROVE  Tidy(<<w>>) /\ ToSet(<<w>>) = {w} /\ Tidy(<< >>) /\ ToSet(<< >>) = {}
  <1>1. <<w>> \in Seq(Words) /\ DOMAIN <<w>> = {1} /\ <<w>>[1] = w
    OBVIOUS
  <1>2. << >> \in Seq(Words) /\ DOMAIN << >> = {}
    OBVIOUS
  <1>3. Sorted(<<w>>, Apart) /\ Sorted(<< >>, Apart)
    <2>1. \A i, j \in DOMAIN <<w>> : ~(i < j)
      BY <1>1
    <2> QED  BY <1>2, <2>1 DEF Sorted
  <1>4. ToSet(<<w>>) = {w}
    BY <1>1 DEF ToSet
  <1>5. ToSet(<< >>) = {}
    BY <1>2 DEF ToSet
  <1> QED  BY <1>1, <1>2, <1>3, <1>4, <1>5 DEF Tidy

LEMMA NoTexts == HasTexts(<< >>, {})
  <1>1. Word(0) \in Words
    BY WordsAre
  <1> QED  BY <1>1, TidyOne DEF HasTexts

LEMMA OneText ==
  ASSUME NEW n \in Nat
  PROVE  HasTexts(<<Word(n)>>, {n})
  <1>1. Word(n) \in Words
    BY WordsAre
  <1> QED  BY <1>1, TidyOne DEF HasTexts

LEMMA TextsFlatten ==
  ASSUME NEW n \in Nat, NEW ss, NEW SS, NEW S, DOMAIN ss = 1 .. n, ss = [i \in 1 .. n |-> ss[i]],
         \A i \in 1 .. n : HasTexts(ss[i], SS[i]) /\ SS[i] \subseteq Nat,
         \A i, j \in 1 .. n : i < j => \A x \in SS[i] : x \notin SS[j],
         \A x : x \in S <=> \E i \in 1 .. n : x \in SS[i]
  PROVE  HasTexts(FlattenSeq(ss), S) /\ ss \in Seq(Seq(Words))
  <1>1. ss \in Seq(Seq(Words))
    <2>1. \A i \in 1 .. n : ss[i] \in Seq(Words)
      BY DEF HasTexts, Tidy
    <2>2. ss \in [1 .. n -> Seq(Words)]
      BY <2>1
    <2> QED  BY <2>2
  <1>2. FlattenSeq(ss) \in Seq(Words)
    BY <1>1, FlattenTyped
  <1>3. \A x : x \in ToSet(FlattenSeq(ss)) <=> \E k \in S : x = Word(k)
    <2>1. \A x : x \in ToSet(FlattenSeq(ss)) <=> \E i \in DOMAIN ss : x \in ToSet(ss[i])
      BY <1>1, FlattenElements
    <2>2. \A i \in 1 .. n : \A x : x \in ToSet(ss[i]) <=> \E k \in SS[i] : x = Word(k)
      BY DEF HasTexts
    <2> QED  BY <2>1, <2>2
  <1>4. Sorted(FlattenSeq(ss), Apart)
    <2>1. \A i \in DOMAIN ss : Sorted(ss[i], Apart)
      BY DEF HasTexts, Tidy
    <2>2. \A i, j \in DOMAIN ss : i < j => \A x \in ToSet(ss[i]), y \in ToSet(ss[j]) : <<x, y>> \in Apart
      <3> SUFFICES ASSUME NEW i \in DOMAIN ss, NEW j \in DOMAIN ss, i < j,
                          NEW x \in ToSet(ss[i]), NEW y \in ToSet(ss[j])
                   PROVE  <<x, y>> \in Apart
        OBVIOUS
      <3>1. PICK k \in SS[i], l \in SS[j] : x = Word(k) /\ y = Word(l)
        BY DEF HasTexts
      <3>2. k \in Nat /\ l \in Nat /\ k # l
        BY <3>1
      <3> QED  BY <3>1, <3>2, WordsAre
    <2> QED  BY <1>1, <2>1, <2>2, FlattenSorted
  <1> QED  BY <1>1, <1>2, <1>3, <1>4 DEF HasTexts, Tidy

LEMMA TextsConcat ==
  ASSUME NEW s, NEW S, HasTexts(s, S), NEW t, NEW T, HasTexts(t, T),
         S \subseteq Nat, T \subseteq Nat, \A x \in S : x \notin T
  PROVE  HasTexts(s \o t, S \cup T)
  <1>1. s \in Seq(Words) /\ t \in Seq(Words) /\ s \o t \in Seq(Words)
    BY DEF HasTexts, Tidy
  <1>2. ToSet(s \o t) = ToSet(s) \cup ToSet(t)
    BY <1>1, ConcatSet
  <1>3. \A x \in ToSet(s), y \in ToSet(t) : <<x, y>> \in Apart
    <2> SUFFICES ASSUME NEW x \in ToSet(s), NEW y \in ToSet(t) PROVE <<x, y>> \in Apart
      OBVIOUS
    <2>1. PICK k \in S, l \in T : x = Word(k) /\ y = Word(l)
      BY DEF HasTexts
    <2>2. k \in Nat /\ l \in Nat /\ k # l
      OBVIOUS
    <2> QED  BY <2>1, <2>2, WordsAre
  <1>4. Sorted(s \o t, Apart)
    <2>1. Sorted(s, Apart) /\ Sorted(t, Apart)
      BY DEF HasTexts, Tidy
    <2> QED  BY <1>1, <1>3, <2>1, ConcatSorted
  <1>5. \A x : x \in ToSet(s \o t) <=> \E k \in S \cup T : x = Word(k)
    BY <1>2 DEF HasTexts
  <1> QED  BY <1>1, <1>4, <1>5 DEF HasTexts, Tidy

\* A text is in a tidy sequence once or not at all.
LEMMA CountedOnce ==
  ASSUME NEW s, Tidy(s), NEW n \in Nat
  PROVE  Cardinality({i \in DOMAIN s : s[i] = Word(n)}) = IF Word(n) \in ToSet(s) THEN 1 ELSE 0
  <1> DEFINE D == {i \in DOMAIN s : s[i] = Word(n)}
  <1>1. s \in Seq(Words) /\ DOMAIN s \subseteq Nat
    BY DEF Tidy
  <1>2. ASSUME NEW i \in D, NEW j \in D PROVE i = j
    <2>1. ~(i < j) /\ ~(j < i)
      <3>1. <<Word(n), Word(n)>> \notin Apart
        BY WordsAre
      <3> QED  BY <3>1 DEF Tidy, Sorted
    <2> QED  BY <1>1, <2>1
  <1>3. CASE Word(n) \in ToSet(s)
    <2>1. PICK i \in DOMAIN s : s[i] = Word(n)
      BY <1>3 DEF ToSet
    <2>2. D = {i}
      BY <1>2, <2>1
    <2>3. Cardinality({i}) = 1
      BY FS_Singleton
    <2> QED  BY <1>3, <2>2, <2>3
  <1>4. CASE Word(n) \notin ToSet(s)
    <2>1. D = {}
      BY <1>4 DEF ToSet
    <2>2. Cardinality({}) = 0
      BY FS_EmptySet
    <2> QED  BY <1>4, <2>1, <2>2
  <1> QED  BY <1>3, <1>4

-----------------------------------------------------------------------------
(* What a node is rendered as, and as inline text.                         *)

RenderStep(body, render, n) ==
    LET children == body[n].children
    IN IF body[n].tag = "text" THEN <<Word(n)>>
       ELSE FlattenSeq([i \in DOMAIN children |-> render[children[i]]])

InlineStep(body, inline, n) ==
    LET children == body[n].children
        given == Together([i \in DOMAIN children |-> inline[children[i]]])
    IN CASE body[n].tag = "text" -> Gives(<<Word(n)>>, FALSE, {})
         [] body[n].tag \in Inlines -> given
         [] body[n].tag \in Marks -> [given EXCEPT !.flagged = TRUE]
         [] OTHER -> Gives(RenderNode(body)[n], TRUE, {})

LEMMA RenderExists ==
  ASSUME NEW body, IsBody(body)
  PROVE  \E f : f = [n \in DOMAIN body |-> RenderStep(body, f, n)]
  <1> DEFINE N == Len(body)
             Is(f, m) == f = [b \in m .. N |-> RenderStep(body, f, b)]
             S == {k \in Nat : k <= N => \E f : Is(f, (N + 1) - k)}
  <1>0. N \in Nat /\ DOMAIN body = 1 .. N
    BY BodyIs
  <1>1. ASSUME NEW b \in 1 .. N, NEW f, NEW g, \A k \in b + 1 .. N : f[k] = g[k]
        PROVE  RenderStep(body, f, b) = RenderStep(body, g, b)
    <2> DEFINE c == body[b].children
    <2>1. \A i \in DOMAIN c : f[c[i]] = g[c[i]]
      <3>1. b \in DOMAIN body
        BY <1>0
      <3>2. \A i \in DOMAIN c : c[i] \in b + 1 .. N
        BY <3>1, BodyIs
      <3> HIDE DEF c, N
      <3> QED  BY <1>1, <3>2
    <2>2. [i \in DOMAIN c |-> f[c[i]]] = [i \in DOMAIN c |-> g[c[i]]]
      <3> HIDE DEF c
      <3> QED  BY <2>1
    <2> QED  BY <2>2 DEF RenderStep
  <1>2. 0 \in S
    <2>1. Is([b \in N + 1 .. N |-> 0], (N + 1) - 0)
      <3>1. N + 1 .. N = {} /\ (N + 1) - 0 = N + 1
        BY <1>0
      <3> HIDE DEF N
      <3> QED  BY <3>1
    <2> HIDE DEF Is, N
    <2> QED  BY <2>1
  <1>3. ASSUME NEW k \in Nat, k \in S
        PROVE  k + 1 \in S
    <2> HIDE DEF N
    <2> SUFFICES ASSUME k + 1 <= N
                 PROVE  \E f : Is(f, (N + 1) - (k + 1))
      <3> HIDE DEF Is
      <3> QED  OBVIOUS
    <2> DEFINE w == (N + 1) - (k + 1)
    <2>1. w \in 1 .. N /\ (N + 1) - k = w + 1
      <3> HIDE DEF S, Is
      <3> QED  BY <1>0
    <2>2. PICK f : Is(f, w + 1)
      <3>1. k <= N
        BY <1>0
      <3> HIDE DEF Is, w
      <3> QED  BY <1>3, <2>1, <3>1
    <2> HIDE DEF w
    <2> DEFINE g == [b \in w .. N |-> IF b = w THEN RenderStep(body, f, w) ELSE f[b]]
    <2>3. \A b \in w + 1 .. N : b \in w .. N /\ b # w /\ f[b] = RenderStep(body, f, b)
      BY <1>0, <2>1, <2>2
    <2>4. \A b \in w + 1 .. N : f[b] = g[b]
      BY <2>3
    <2>5. g[w] = RenderStep(body, f, w)
      <3>1. w \in w .. N
        BY <1>0, <2>1
      <3> QED  BY <3>1
    <2>6. DOMAIN g = w .. N /\ g = [b \in w .. N |-> g[b]]
      OBVIOUS
    <2> HIDE DEF g
    <2>7. ASSUME NEW b \in w .. N
          PROVE  g[b] = RenderStep(body, g, b)
      <3>1. b \in 1 .. N /\ \A j \in b + 1 .. N : j \in w + 1 .. N
        BY <1>0, <2>1
      <3>2. RenderStep(body, f, b) = RenderStep(body, g, b)
        BY <1>1, <2>4, <3>1
      <3>3. b = w \/ b \in w + 1 .. N
        BY <1>0, <2>1
      <3> QED  BY <2>3, <2>4, <2>5, <3>2, <3>3
    <2>8. Is(g, w)
      BY <2>6, <2>7
    <2> HIDE DEF Is
    <2> QED  BY <2>8 DEF w
  <1>4. N \in S
    <2> HIDE DEF S
    <2> QED  BY <1>0, <1>2, <1>3, SetOfNaturals
  <1>5. \E f : Is(f, 1)
    <2>1. (N + 1) - N = 1 /\ N <= N
      BY <1>0
    <2> HIDE DEF Is, N
    <2> QED  BY <1>4, <2>1
  <1> QED  BY <1>0, <1>5

LEMMA InlineExists ==
  ASSUME NEW body, IsBody(body)
  PROVE  \E f : f = [n \in DOMAIN body |-> InlineStep(body, f, n)]
  <1> DEFINE N == Len(body)
             Is(f, m) == f = [b \in m .. N |-> InlineStep(body, f, b)]
             S == {k \in Nat : k <= N => \E f : Is(f, (N + 1) - k)}
  <1>0. N \in Nat /\ DOMAIN body = 1 .. N
    BY BodyIs
  <1>1. ASSUME NEW b \in 1 .. N, NEW f, NEW g, \A k \in b + 1 .. N : f[k] = g[k]
        PROVE  InlineStep(body, f, b) = InlineStep(body, g, b)
    <2> DEFINE c == body[b].children
    <2>1. \A i \in DOMAIN c : f[c[i]] = g[c[i]]
      <3>1. b \in DOMAIN body
        BY <1>0
      <3>2. \A i \in DOMAIN c : c[i] \in b + 1 .. N
        BY <3>1, BodyIs
      <3> HIDE DEF c, N
      <3> QED  BY <1>1, <3>2
    <2>2. [i \in DOMAIN c |-> f[c[i]]] = [i \in DOMAIN c |-> g[c[i]]]
      <3> HIDE DEF c
      <3> QED  BY <2>1
    <2> QED  BY <2>2 DEF InlineStep
  <1>2. 0 \in S
    <2>1. Is([b \in N + 1 .. N |-> 0], (N + 1) - 0)
      <3>1. N + 1 .. N = {} /\ (N + 1) - 0 = N + 1
        BY <1>0
      <3> HIDE DEF N
      <3> QED  BY <3>1
    <2> HIDE DEF Is, N
    <2> QED  BY <2>1
  <1>3. ASSUME NEW k \in Nat, k \in S
        PROVE  k + 1 \in S
    <2> HIDE DEF N
    <2> SUFFICES ASSUME k + 1 <= N
                 PROVE  \E f : Is(f, (N + 1) - (k + 1))
      <3> HIDE DEF Is
      <3> QED  OBVIOUS
    <2> DEFINE w == (N + 1) - (k + 1)
    <2>1. w \in 1 .. N /\ (N + 1) - k = w + 1
      <3> HIDE DEF S, Is
      <3> QED  BY <1>0
    <2>2. PICK f : Is(f, w + 1)
      <3>1. k <= N
        BY <1>0
      <3> HIDE DEF Is, w
      <3> QED  BY <1>3, <2>1, <3>1
    <2> HIDE DEF w
    <2> DEFINE g == [b \in w .. N |-> IF b = w THEN InlineStep(body, f, w) ELSE f[b]]
    <2>3. \A b \in w + 1 .. N : b \in w .. N /\ b # w /\ f[b] = InlineStep(body, f, b)
      BY <1>0, <2>1, <2>2
    <2>4. \A b \in w + 1 .. N : f[b] = g[b]
      BY <2>3
    <2>5. g[w] = InlineStep(body, f, w)
      <3>1. w \in w .. N
        BY <1>0, <2>1
      <3> QED  BY <3>1
    <2>6. DOMAIN g = w .. N /\ g = [b \in w .. N |-> g[b]]
      OBVIOUS
    <2> HIDE DEF g
    <2>7. ASSUME NEW b \in w .. N
          PROVE  g[b] = InlineStep(body, g, b)
      <3>1. b \in 1 .. N /\ \A j \in b + 1 .. N : j \in w + 1 .. N
        BY <1>0, <2>1
      <3>2. InlineStep(body, f, b) = InlineStep(body, g, b)
        BY <1>1, <2>4, <3>1
      <3>3. b = w \/ b \in w + 1 .. N
        BY <1>0, <2>1
      <3> QED  BY <2>3, <2>4, <2>5, <3>2, <3>3
    <2>8. Is(g, w)
      BY <2>6, <2>7
    <2> HIDE DEF Is
    <2> QED  BY <2>8 DEF w
  <1>4. N \in S
    <2> HIDE DEF S
    <2> QED  BY <1>0, <1>2, <1>3, SetOfNaturals
  <1>5. \E f : Is(f, 1)
    <2>1. (N + 1) - N = 1 /\ N <= N
      BY <1>0
    <2> HIDE DEF Is, N
    <2> QED  BY <1>4, <2>1
  <1> QED  BY <1>0, <1>5

Leaves(body, N) == {k \in N : body[k].tag = "text"}

\* The texts in a node, when those in its children are there.
LEMMA TextsOfChildren ==
  ASSUME NEW body, IsBody(body), NEW n \in DOMAIN body, body[n].tag # "text", NEW words,
         DOMAIN words = DOMAIN body[n].children, words = [i \in DOMAIN words |-> words[i]],
         \A i \in DOMAIN body[n].children :
            HasTexts(words[i], Leaves(body, Under(body, body[n].children[i])))
  PROVE  HasTexts(FlattenSeq(words), Leaves(body, Under(body, n)))
  <1> DEFINE c == body[n].children
             SS == [i \in DOMAIN c |-> Leaves(body, Under(body, c[i]))]
             S == Leaves(body, Under(body, n))
  <1>1. Len(c) \in Nat /\ DOMAIN c = 1 .. Len(c) /\ \A i \in DOMAIN c : c[i] \in DOMAIN body
    BY BodyIs
  <1>2. \A x : x \in S <=> \E i \in DOMAIN c : x \in SS[i]
    <2>1. \A x : x \in Under(body, n) <=> x = n \/ \E i \in DOMAIN c : x \in Under(body, c[i])
      BY UnderIs
    <2> HIDE DEF c
    <2> QED  BY <2>1 DEF Leaves
  <1>3. \A i, j \in DOMAIN c : i # j => \A x \in SS[i] : x \notin SS[j]
    BY UnderApart DEF Leaves
  <1>4. \A i \in DOMAIN c : SS[i] \subseteq Nat
    <2> SUFFICES ASSUME NEW i \in DOMAIN c PROVE Leaves(body, Under(body, c[i])) \subseteq Nat
      OBVIOUS
    <2>1. \A k \in Under(body, c[i]) : k \in Nat
      BY <1>1, UnderIs
    <2> QED  BY <2>1 DEF Leaves
  <1>5. \A i \in DOMAIN c : HasTexts(words[i], SS[i])
    OBVIOUS
  <1> HIDE DEF SS, S, c
  <1>6. \A i, j \in 1 .. Len(c) : i < j => \A x \in SS[i] : x \notin SS[j]
    <2>1. \A i, j \in 1 .. Len(c) : i < j => i # j
      BY <1>1
    <2> QED  BY <1>1, <1>3, <2>1
  <1>7. DOMAIN words = 1 .. Len(c) /\ words = [i \in 1 .. Len(c) |-> words[i]]
    BY <1>1 DEF c
  <1>8. HasTexts(FlattenSeq(words), S)
    BY <1>1, <1>2, <1>4, <1>5, <1>6, <1>7, TextsFlatten
  <1> QED  BY <1>8 DEF S

LEMMA UnderLeaf ==
  ASSUME NEW body, IsBody(body), NEW n \in DOMAIN body, body[n].tag = "text"
  PROVE  n \in Nat /\ (\A k : k \in Under(body, n) <=> k = n) /\ Leaves(body, Under(body, n)) = {n}
  <1>1. DOMAIN body[n].children = {} /\ n \in Nat
    BY BodyIs
  <1>2. \A k : k \in Under(body, n) <=> k = n
    BY <1>1, UnderIs
  <1> QED  BY <1>1, <1>2 DEF Leaves

LEMMA RenderIs ==
  ASSUME NEW body, IsBody(body)
  PROVE  \A n \in DOMAIN body : HasTexts(RenderNode(body)[n], Leaves(body, Under(body, n)))
  <1> DEFINE render[n \in DOMAIN body] ==
               LET children == body[n].children
               IN IF body[n].tag = "text" THEN <<Word(n)>>
                  ELSE FlattenSeq([i \in DOMAIN children |-> render[children[i]]])
             F == CHOOSE f : f = [n \in DOMAIN body |-> RenderStep(body, f, n)]
             R == RenderNode(body)
  <1>1. render = F
    BY DEF render, RenderStep
  <1>2. R = render
    BY DEF RenderNode, render
  <1> HIDE DEF render, R
  <1>3. F = [n \in DOMAIN body |-> RenderStep(body, F, n)]
    BY RenderExists
  <1> HIDE DEF F
  <1>4. \A n \in DOMAIN body : R[n] = RenderStep(body, R, n)
    BY <1>1, <1>2, <1>3
  <1> DEFINE W == {n \in DOMAIN body : ~HasTexts(R[n], Leaves(body, Under(body, n)))}
             w == Greatest(W)
  <1> SUFFICES ASSUME W # {} PROVE FALSE
    BY DEF R
  <1>5. Len(body) \in Nat /\ DOMAIN body = 1 .. Len(body)
    BY BodyIs
  <1>6. w \in W /\ \A k \in W : w >= k
    <2>1. W \subseteq 0 .. Len(body)
      BY <1>5
    <2> HIDE DEF W
    <2> QED  BY <1>5, <2>1, GreatestOf
  <1> HIDE DEF w
  <1>7. w \in DOMAIN body /\ ~HasTexts(R[w], Leaves(body, Under(body, w)))
    BY <1>6
  <1>8. CASE body[w].tag = "text"
    <2>1. R[w] = <<Word(w)>>
      BY <1>4, <1>7, <1>8 DEF RenderStep
    <2>2. Leaves(body, Under(body, w)) = {w} /\ w \in Nat
      BY <1>7, <1>8, UnderLeaf
    <2> QED  BY <1>7, <2>1, <2>2, OneText
  <1>9. CASE body[w].tag # "text"
    <2> DEFINE c == body[w].children
               ww == [i \in DOMAIN c |-> R[c[i]]]
    <2>1. R[w] = FlattenSeq(ww)
      BY <1>4, <1>7, <1>9 DEF RenderStep
    <2>2. \A i \in DOMAIN c : c[i] \in w + 1 .. Len(body) /\ c[i] \in DOMAIN body
      BY <1>7, BodyIs
    <2>3. \A i \in DOMAIN c : HasTexts(R[c[i]], Leaves(body, Under(body, c[i])))
      <3> SUFFICES ASSUME NEW i \in DOMAIN c, c[i] \in W PROVE FALSE
        BY <2>2
      <3> HIDE DEF W, c
      <3> QED  BY <1>5, <1>6, <1>7, <2>2
    <2>4. DOMAIN ww = DOMAIN c /\ ww = [i \in DOMAIN ww |-> ww[i]] /\ \A i \in DOMAIN c : ww[i] = R[c[i]]
      OBVIOUS
    <2> HIDE DEF ww
    <2>5. HasTexts(FlattenSeq(ww), Leaves(body, Under(body, w)))
      BY <1>7, <1>9, <2>3, <2>4, TextsOfChildren
    <2> QED  BY <1>7, <2>1, <2>5
  <1> QED  BY <1>8, <1>9

AnyGives == [words : Seq(Words), flagged : BOOLEAN, consumed : SUBSET Nat]

\* The texts of some nodes, of which none is a GM mark unless something was flagged.
GivesTexts(body, g, N) ==
    /\ g \in AnyGives /\ HasTexts(g.words, Leaves(body, N)) /\ g.consumed = {}
    /\ g.flagged = TRUE \/ \A m \in N : body[m].tag # "gm"

LEMMA GivesAre ==
  ASSUME NEW words \in Seq(Words), NEW flagged \in BOOLEAN, NEW consumed \in SUBSET Nat
  PROVE  /\ Gives(words, flagged, consumed) \in AnyGives
         /\ Gives(words, flagged, consumed).words = words
         /\ Gives(words, flagged, consumed).flagged = flagged
         /\ Gives(words, flagged, consumed).consumed = consumed
  BY DEF Gives, AnyGives

LEMMA GivesWords ==
  ASSUME NEW words \in Seq(Words)
  PROVE  /\ Gives(words, FALSE, {}) \in AnyGives /\ Gives(words, TRUE, {}) \in AnyGives
         /\ Gives(words, FALSE, {}).words = words /\ Gives(words, FALSE, {}).consumed = {}
         /\ Gives(words, TRUE, {}).words = words /\ Gives(words, TRUE, {}).consumed = {}
         /\ Gives(words, TRUE, {}).flagged = TRUE
  BY DEF Gives, AnyGives

LEMMA TogetherIs ==
  ASSUME NEW body, NEW n \in Nat, NEW gs, NEW NN, NEW N,
         DOMAIN gs = 1 .. n, gs = [i \in 1 .. n |-> gs[i]],
         \A i \in 1 .. n : GivesTexts(body, gs[i], NN[i]) /\ NN[i] \subseteq Nat,
         \A i, j \in 1 .. n : i < j => \A x \in NN[i] : x \notin NN[j],
         \A x : x \in N <=> \E i \in 1 .. n : x \in NN[i]
  PROVE  GivesTexts(body, Together(gs), N)
  <1> DEFINE ww == [i \in 1 .. n |-> gs[i].words]
             LL == [i \in 1 .. n |-> Leaves(body, NN[i])]
             L == Leaves(body, N)
             fl == \E i \in 1 .. n : gs[i].flagged
             co == UNION {gs[i].consumed : i \in 1 .. n}
  <1>1. /\ \A i \in 1 .. n : HasTexts(ww[i], LL[i]) /\ LL[i] \subseteq Nat
        /\ \A i, j \in 1 .. n : i < j => \A x \in LL[i] : x \notin LL[j]
        /\ \A x : x \in L <=> \E i \in 1 .. n : x \in LL[i]
    BY DEF GivesTexts, Leaves
  <1>2. DOMAIN ww = 1 .. n /\ ww = [i \in 1 .. n |-> ww[i]]
    OBVIOUS
  <1>3. co = {}
    BY DEF GivesTexts
  <1>4. Together(gs) = Gives(FlattenSeq(ww), fl, co)
    BY DEF Together
  <1>5. fl \in BOOLEAN
    OBVIOUS
  <1>6. fl = TRUE \/ \A m \in N : body[m].tag # "gm"
    <2> SUFFICES ASSUME ~fl, NEW m \in N PROVE body[m].tag # "gm"
      BY <1>5
    <2>1. PICK i \in 1 .. n : m \in NN[i]
      OBVIOUS
    <2>2. gs[i].flagged # TRUE
      OBVIOUS
    <2> QED  BY <2>1, <2>2 DEF GivesTexts
  <1> HIDE DEF ww, LL, L, fl, co
  <1>7. HasTexts(FlattenSeq(ww), L)
    BY <1>1, <1>2, TextsFlatten
  <1>8. FlattenSeq(ww) \in Seq(Words) /\ co \in SUBSET Nat
    BY <1>3, <1>7 DEF HasTexts, Tidy
  <1>9. /\ Together(gs) \in AnyGives /\ Together(gs).words = FlattenSeq(ww)
        /\ Together(gs).flagged = fl /\ Together(gs).consumed = co
    BY <1>4, <1>5, <1>8, GivesAre
  <1> QED  BY <1>3, <1>6, <1>7, <1>9 DEF GivesTexts, L

LEMMA TogetherOfChildren ==
  ASSUME NEW body, IsBody(body), NEW n \in DOMAIN body, NEW gs,
         DOMAIN gs = DOMAIN body[n].children, gs = [i \in DOMAIN gs |-> gs[i]],
         \A i \in DOMAIN body[n].children : GivesTexts(body, gs[i], Under(body, body[n].children[i]))
  PROVE  GivesTexts(body, Together(gs), Under(body, n) \ {n})
  <1> DEFINE c == body[n].children
             NN == [i \in DOMAIN c |-> Under(body, c[i])]
             N == Under(body, n) \ {n}
  <1>1. Len(c) \in Nat /\ DOMAIN c = 1 .. Len(c) /\ \A i \in DOMAIN c : c[i] \in DOMAIN body
    BY BodyIs
  <1>2. \A x : x \in N <=> \E i \in DOMAIN c : x \in NN[i]
    <2>1. /\ \A x : x \in Under(body, n) <=> x = n \/ \E i \in DOMAIN c : x \in Under(body, c[i])
          /\ \A i \in DOMAIN c : n \notin Under(body, c[i])
      BY UnderIs
    <2> HIDE DEF c
    <2> QED  BY <2>1
  <1>3. \A i, j \in DOMAIN c : i # j => \A x \in NN[i] : x \notin NN[j]
    BY UnderApart
  <1>4. \A i \in DOMAIN c : NN[i] \subseteq Nat
    <2> SUFFICES ASSUME NEW i \in DOMAIN c PROVE Under(body, c[i]) \subseteq Nat
      OBVIOUS
    <2>1. \A k \in Under(body, c[i]) : k \in Nat
      BY <1>1, UnderIs
    <2> QED  BY <2>1
  <1>5. \A i \in DOMAIN c : GivesTexts(body, gs[i], NN[i])
    OBVIOUS
  <1> HIDE DEF NN, N, c
  <1>6. \A i, j \in 1 .. Len(c) : i < j => \A x \in NN[i] : x \notin NN[j]
    <2>1. \A i, j \in 1 .. Len(c) : i < j => i # j
      BY <1>1
    <2> QED  BY <1>1, <1>3, <2>1
  <1>7. DOMAIN gs = 1 .. Len(c) /\ gs = [i \in 1 .. Len(c) |-> gs[i]]
    BY <1>1 DEF c
  <1>8. GivesTexts(body, Together(gs), N)
    BY <1>1, <1>2, <1>4, <1>5, <1>6, <1>7, TogetherIs
  <1> QED  BY <1>8 DEF N

LEMMA InlineIs ==
  ASSUME NEW body, IsBody(body)
  PROVE  \A n \in DOMAIN body : GivesTexts(body, InlineText(body)[n], Under(body, n))
  <1> DEFINE inline[n \in DOMAIN body] ==
               LET children == body[n].children
                   given == Together([i \in DOMAIN children |-> inline[children[i]]])
               IN CASE body[n].tag = "text" -> Gives(<<Word(n)>>, FALSE, {})
                    [] body[n].tag \in Inlines -> given
                    [] body[n].tag \in Marks -> [given EXCEPT !.flagged = TRUE]
                    [] OTHER -> Gives(RenderNode(body)[n], TRUE, {})
             F == CHOOSE f : f = [n \in DOMAIN body |-> InlineStep(body, f, n)]
             R == InlineText(body)
  <1>1. inline = F
    BY DEF inline, InlineStep
  <1>2. R = inline
    BY DEF InlineText, inline
  <1> HIDE DEF inline, R
  <1>3. F = [n \in DOMAIN body |-> InlineStep(body, F, n)]
    BY InlineExists
  <1> HIDE DEF F
  <1>4. \A n \in DOMAIN body : R[n] = InlineStep(body, R, n)
    BY <1>1, <1>2, <1>3
  <1> DEFINE W == {n \in DOMAIN body : ~GivesTexts(body, R[n], Under(body, n))}
             w == Greatest(W)
  <1> SUFFICES ASSUME W # {} PROVE FALSE
    BY DEF R
  <1>5. Len(body) \in Nat /\ DOMAIN body = 1 .. Len(body)
    BY BodyIs
  <1>6. w \in W /\ \A k \in W : w >= k
    <2>1. W \subseteq 0 .. Len(body)
      BY <1>5
    <2> HIDE DEF W
    <2> QED  BY <1>5, <2>1, GreatestOf
  <1> HIDE DEF w
  <1>7. w \in DOMAIN body /\ ~GivesTexts(body, R[w], Under(body, w))
    BY <1>6
  <1> DEFINE c == body[w].children
             gs == [i \in DOMAIN c |-> R[c[i]]]
             g == Together(gs)
             N == Under(body, w)
  <1>8. GivesTexts(body, g, N \ {w})
    <2>1. \A i \in DOMAIN c : c[i] \in w + 1 .. Len(body) /\ c[i] \in DOMAIN body
      BY <1>7, BodyIs
    <2>2. \A i \in DOMAIN c : GivesTexts(body, R[c[i]], Under(body, c[i]))
      <3> SUFFICES ASSUME NEW i \in DOMAIN c, c[i] \in W PROVE FALSE
        BY <2>1
      <3> HIDE DEF W, c
      <3> QED  BY <1>5, <1>6, <1>7, <2>1
    <2>3. DOMAIN gs = DOMAIN c /\ gs = [i \in DOMAIN gs |-> gs[i]] /\ \A i \in DOMAIN c : gs[i] = R[c[i]]
      OBVIOUS
    <2> HIDE DEF gs
    <2> QED  BY <1>7, <2>2, <2>3, TogetherOfChildren
  <1>9. R[w] = CASE body[w].tag = "text" -> Gives(<<Word(w)>>, FALSE, {})
                 [] body[w].tag \in Inlines -> g
                 [] body[w].tag \in Marks -> [g EXCEPT !.flagged = TRUE]
                 [] OTHER -> Gives(RenderNode(body)[w], TRUE, {})
    BY <1>4, <1>7 DEF InlineStep
  <1> HIDE DEF g, N
  <1>10. "text" \notin Inlines /\ "text" \notin Marks /\ "gm" \notin Inlines /\ \A t \in Marks : t \notin Inlines
    BY DEF Inlines, Marks
  <1>11. CASE body[w].tag = "text"
    <2>1. R[w] = Gives(<<Word(w)>>, FALSE, {})
      BY <1>9, <1>10, <1>11
    <2>2. w \in Nat /\ Leaves(body, N) = {w} /\ \A k \in N : k = w
      BY <1>7, <1>11, UnderLeaf DEF N
    <2>3. HasTexts(<<Word(w)>>, {w})
      BY <2>2, OneText
    <2> DEFINE r == <<Word(w)>>
    <2>4. r \in Seq(Words) /\ R[w] = Gives(r, FALSE, {})
      BY <2>1, <2>3 DEF HasTexts, Tidy
    <2> HIDE DEF r
    <2>5. R[w] \in AnyGives /\ R[w].words = r /\ R[w].consumed = {}
      BY <2>4, GivesWords
    <2>6. R[w] \in AnyGives /\ R[w].words = <<Word(w)>> /\ R[w].consumed = {}
      BY <2>5 DEF r
    <2>7. \A m \in N : body[m].tag # "gm"
      BY <1>11, <2>2
    <2>8. GivesTexts(body, R[w], N)
      BY <2>2, <2>3, <2>6, <2>7 DEF GivesTexts
    <2> QED  BY <1>7, <2>8 DEF N
  <1>12. ASSUME body[w].tag # "text" PROVE Leaves(body, N) = Leaves(body, N \ {w})
    BY <1>12 DEF Leaves
  <1>13. CASE body[w].tag \in Inlines
    <2>1. R[w] = g /\ body[w].tag # "text" /\ body[w].tag # "gm"
      BY <1>9, <1>10, <1>13
    <2>2. GivesTexts(body, g, N)
      BY <1>8, <1>12, <2>1 DEF GivesTexts
    <2> QED  BY <1>7, <2>1, <2>2 DEF N
  <1>14. CASE body[w].tag \in Marks
    <2>1. R[w] = [g EXCEPT !.flagged = TRUE] /\ body[w].tag # "text"
      BY <1>9, <1>10, <1>14
    <2>2. g \in AnyGives
      BY <1>8 DEF GivesTexts
    <2>3. R[w] \in AnyGives /\ R[w].words = g.words /\ R[w].consumed = g.consumed /\ R[w].flagged = TRUE
      BY <2>1, <2>2 DEF AnyGives
    <2>4. GivesTexts(body, R[w], N)
      BY <1>8, <1>12, <2>1, <2>3 DEF GivesTexts
    <2> QED  BY <1>7, <2>4 DEF N
  <1>15. CASE body[w].tag # "text" /\ body[w].tag \notin Inlines /\ body[w].tag \notin Marks
    <2> DEFINE r == RenderNode(body)[w]
    <2>1. R[w] = Gives(r, TRUE, {})
      BY <1>9, <1>15
    <2>2. HasTexts(r, Leaves(body, N))
      BY <1>7, RenderIs DEF N
    <2> HIDE DEF r
    <2>3. r \in Seq(Words)
      BY <2>2 DEF HasTexts, Tidy
    <2>4. R[w] \in AnyGives /\ R[w].words = r /\ R[w].flagged = TRUE /\ R[w].consumed = {}
      BY <2>1, <2>3, GivesWords
    <2>5. GivesTexts(body, R[w], N)
      BY <2>2, <2>4 DEF GivesTexts
    <2> QED  BY <1>7, <2>5 DEF N
  <1> QED  BY <1>11, <1>13, <1>14, <1>15

LEMMA InlineChildrenIs ==
  ASSUME NEW body, IsBody(body), NEW n \in DOMAIN body
  PROVE  GivesTexts(body, InlineChildren(body, n), Under(body, n) \ {n})
  <1> DEFINE c == body[n].children
             gs == [i \in DOMAIN c |-> InlineText(body)[c[i]]]
  <1>1. \A i \in DOMAIN c : c[i] \in DOMAIN body
    BY BodyIs
  <1>2. \A i \in DOMAIN c : GivesTexts(body, gs[i], Under(body, c[i]))
    BY <1>1, InlineIs
  <1>3. DOMAIN gs = DOMAIN c /\ gs = [i \in DOMAIN gs |-> gs[i]]
    OBVIOUS
  <1>4. InlineChildren(body, n) = Together(gs)
    BY DEF InlineChildren
  <1> HIDE DEF gs
  <1> QED  BY <1>2, <1>3, <1>4, TogetherOfChildren

-----------------------------------------------------------------------------
(* The blocks that some nodes are converted to.                            *)

AnyBlock == [secret : BOOLEAN, gives : AnyGives]

ApartBlocks == {p \in AnyBlock \X AnyBlock : AreApart(p[1].gives.words, p[2].gives.words)}

\* No GM mark is around these nodes that is not one of them.
Clear(body, N) == \A k \in N : \A m \in Above(body)[k] : m \in N \/ body[m].tag # "gm"

\* A block with texts of some nodes; only a secret has annotations, those it uses, and a
\* block that is not secret nothing of a mark, unless it is flagged.
BlockIs(body, rows, b, N) ==
    /\ b \in AnyBlock /\ Tidy(b.gives.words)
    /\ \A x \in ToSet(b.gives.words) :
          (\E k \in Leaves(body, N) : x = Word(k)) \/ (b.secret = TRUE /\ \E id \in rows : x = Row(id))
    /\ \A id \in b.gives.consumed : id \in rows /\ b.secret = TRUE /\ Row(id) \in ToSet(b.gives.words)
    /\ b.secret = FALSE /\ b.gives.flagged = FALSE =>
          \A k \in Leaves(body, N) : Word(k) \in ToSet(b.gives.words) => ~Marked(body, k)

\* Blocks with all the texts of some nodes, each once.
BlocksAre(body, rows, bs, N) ==
    /\ bs \in Seq(AnyBlock) /\ Sorted(bs, ApartBlocks)
    /\ \A b \in ToSet(bs) : BlockIs(body, rows, b, N)
    /\ \A k \in Leaves(body, N) : ~Replaced(body, rows, k) /\ ~Astray(body, k) =>
          \E b \in ToSet(bs) : Word(k) \in ToSet(b.gives.words)

LEMMA BlocksApart ==
  ASSUME NEW body, NEW rows \in SUBSET Nat, NEW b, NEW N \in SUBSET Nat, BlockIs(body, rows, b, N),
         NEW c, NEW M \in SUBSET Nat, BlockIs(body, rows, c, M), \A x \in N : x \notin M
  PROVE  <<b, c>> \in ApartBlocks
  <1> DEFINE s == b.gives.words
             t == c.gives.words
  <1>1. b \in AnyBlock /\ c \in AnyBlock /\ Tidy(s) /\ Tidy(t)
    BY DEF BlockIs
  <1>2. ASSUME NEW x \in ToSet(s), NEW y \in ToSet(t) PROVE <<x, y>> \in Apart
    <2>1. y \in Words
      BY <1>1 DEF Tidy, ToSet
    <2>2. (\E k \in Leaves(body, N) : x = Word(k)) \/ (\E id \in rows : x = Row(id))
      BY DEF BlockIs
    <2>3. (\E k \in Leaves(body, M) : y = Word(k)) \/ (\E id \in rows : y = Row(id))
      BY DEF BlockIs
    <2>4. CASE \E id \in rows : x = Row(id)
      BY <2>1, <2>4, WordsAre
    <2>5. CASE (\E k \in Leaves(body, N) : x = Word(k)) /\ (\E id \in rows : y = Row(id))
      BY <2>5, WordsAre DEF Leaves
    <2>6. CASE (\E k \in Leaves(body, N) : x = Word(k)) /\ (\E k \in Leaves(body, M) : y = Word(k))
      <3>1. PICK k \in N, l \in M : x = Word(k) /\ y = Word(l)
        BY <2>6 DEF Leaves
      <3>2. k \in Nat /\ l \in Nat /\ k # l
        OBVIOUS
      <3> QED  BY <3>1, <3>2, WordsAre
    <2> QED  BY <2>2, <2>3, <2>4, <2>5, <2>6
  <1>3. AreApart(s, t)
    BY <1>2 DEF AreApart
  <1>4. <<b, c>> \in AnyBlock \X AnyBlock /\ <<b, c>>[1] = b /\ <<b, c>>[2] = c
    BY <1>1
  <1> QED  BY <1>3, <1>4 DEF ApartBlocks

LEMMA BlockWider ==
  ASSUME NEW body, NEW rows, NEW b, NEW N, BlockIs(body, rows, b, N), NEW M, N \subseteq M
  PROVE  BlockIs(body, rows, b, M)
  <1>1. \A k \in Leaves(body, N) : k \in Leaves(body, M)
    BY DEF Leaves
  <1>2. ASSUME b.secret = FALSE, b.gives.flagged = FALSE, NEW k \in Leaves(body, M),
               Word(k) \in ToSet(b.gives.words)
        PROVE  ~Marked(body, k)
    <2>1. \E l \in Leaves(body, N) : Word(k) = Word(l)
      <3>1. b.secret # TRUE
        BY <1>2
      <3> QED  BY <1>2, <3>1 DEF BlockIs
    <2>2. k \in Leaves(body, N)
      BY <2>1, WordsAre
    <2> QED  BY <1>2, <2>2 DEF BlockIs
  <1>3. \A x \in ToSet(b.gives.words) :
          (\E k \in Leaves(body, M) : x = Word(k)) \/ (b.secret = TRUE /\ \E id \in rows : x = Row(id))
    BY <1>1 DEF BlockIs
  <1>4. /\ b \in AnyBlock /\ Tidy(b.gives.words)
        /\ \A id \in b.gives.consumed : id \in rows /\ b.secret = TRUE /\ Row(id) \in ToSet(b.gives.words)
    BY DEF BlockIs
  <1> QED  BY <1>2, <1>3, <1>4 DEF BlockIs

LEMMA NoBlocks ==
  ASSUME NEW body, NEW rows
  PROVE  BlocksAre(body, rows, << >>, {})
  <1>1. << >> \in Seq(AnyBlock) /\ DOMAIN << >> = {}
    OBVIOUS
  <1>2. Leaves(body, {}) = {}
    BY DEF Leaves
  <1>3. ToSet(<< >>) = {}
    BY <1>1 DEF ToSet
  <1>4. Sorted(<< >>, ApartBlocks)
    BY <1>1 DEF Sorted
  <1> QED  BY <1>1, <1>2, <1>3, <1>4 DEF BlocksAre

LEMMA BlocksOne ==
  ASSUME NEW body, NEW rows, NEW b, NEW N, BlockIs(body, rows, b, N),
         \A k \in Leaves(body, N) : ~Replaced(body, rows, k) /\ ~Astray(body, k) =>
            Word(k) \in ToSet(b.gives.words)
  PROVE  BlocksAre(body, rows, <<b>>, N)
  <1>1. <<b>> \in Seq(AnyBlock) /\ DOMAIN <<b>> = {1} /\ <<b>>[1] = b
    BY DEF BlockIs
  <1>2. ToSet(<<b>>) = {b}
    BY <1>1 DEF ToSet
  <1>3. Sorted(<<b>>, ApartBlocks)
    <2>1. \A i, j \in DOMAIN <<b>> : ~(i < j)
      BY <1>1
    <2> QED  BY <2>1 DEF Sorted
  <1> QED  BY <1>1, <1>2, <1>3 DEF BlocksAre

LEMMA BlocksConcat ==
  ASSUME NEW body, NEW rows \in SUBSET Nat, NEW bs, NEW N \in SUBSET Nat, BlocksAre(body, rows, bs, N),
         NEW cs, NEW M \in SUBSET Nat, BlocksAre(body, rows, cs, M), \A x \in N : x \notin M
  PROVE  BlocksAre(body, rows, bs \o cs, N \cup M)
  <1>1. bs \in Seq(AnyBlock) /\ cs \in Seq(AnyBlock) /\ bs \o cs \in Seq(AnyBlock)
    BY DEF BlocksAre
  <1>2. ToSet(bs \o cs) = ToSet(bs) \cup ToSet(cs)
    BY <1>1, ConcatSet
  <1>3. (\A b \in ToSet(bs) : BlockIs(body, rows, b, N)) /\ (\A c \in ToSet(cs) : BlockIs(body, rows, c, M))
    BY DEF BlocksAre
  <1>4. \A b \in ToSet(bs), c \in ToSet(cs) : <<b, c>> \in ApartBlocks
    BY <1>3, BlocksApart
  <1>5. Sorted(bs \o cs, ApartBlocks)
    <2>1. Sorted(bs, ApartBlocks) /\ Sorted(cs, ApartBlocks)
      BY DEF BlocksAre
    <2> QED  BY <1>1, <1>4, <2>1, ConcatSorted
  <1>6. \A b \in ToSet(bs \o cs) : BlockIs(body, rows, b, N \cup M)
    <2>1. N \subseteq N \cup M /\ M \subseteq N \cup M
      OBVIOUS
    <2> QED  BY <1>2, <1>3, <2>1, BlockWider
  <1>7. \A k \in Leaves(body, N \cup M) : ~Replaced(body, rows, k) /\ ~Astray(body, k) =>
          \E b \in ToSet(bs \o cs) : Word(k) \in ToSet(b.gives.words)
    <2>1. \A k \in Leaves(body, N \cup M) : k \in Leaves(body, N) \/ k \in Leaves(body, M)
      BY DEF Leaves
    <2> QED  BY <1>2, <2>1 DEF BlocksAre
  <1> QED  BY <1>1, <1>5, <1>6, <1>7 DEF BlocksAre

LEMMA BlocksFlatten ==
  ASSUME NEW body, NEW rows \in SUBSET Nat, NEW n \in Nat, NEW bss, NEW NN, NEW N,
         DOMAIN bss = 1 .. n, bss = [i \in 1 .. n |-> bss[i]],
         \A i \in 1 .. n : BlocksAre(body, rows, bss[i], NN[i]) /\ NN[i] \in SUBSET Nat,
         \A i, j \in 1 .. n : i < j => \A x \in NN[i] : x \notin NN[j],
         \A x : x \in N <=> \E i \in 1 .. n : x \in NN[i]
  PROVE  BlocksAre(body, rows, FlattenSeq(bss), N)
  <1>1. bss \in Seq(Seq(AnyBlock))
    <2>1. \A i \in 1 .. n : bss[i] \in Seq(AnyBlock)
      BY DEF BlocksAre
    <2>2. bss \in [1 .. n -> Seq(AnyBlock)]
      BY <2>1
    <2> QED  BY <2>2
  <1>2. FlattenSeq(bss) \in Seq(AnyBlock)
    BY <1>1, FlattenTyped
  <1>3. \A b : b \in ToSet(FlattenSeq(bss)) <=> \E i \in 1 .. n : b \in ToSet(bss[i])
    BY <1>1, FlattenElements
  <1>4. \A i \in 1 .. n : \A b \in ToSet(bss[i]) : BlockIs(body, rows, b, NN[i])
    BY DEF BlocksAre
  <1>5. Sorted(FlattenSeq(bss), ApartBlocks)
    <2>1. \A i \in DOMAIN bss : Sorted(bss[i], ApartBlocks)
      BY DEF BlocksAre
    <2>2. \A i, j \in DOMAIN bss : i < j => \A x \in ToSet(bss[i]), y \in ToSet(bss[j]) : <<x, y>> \in ApartBlocks
      BY <1>4, BlocksApart
    <2> QED  BY <1>1, <2>1, <2>2, FlattenSorted
  <1>6. \A b \in ToSet(FlattenSeq(bss)) : BlockIs(body, rows, b, N)
    <2> SUFFICES ASSUME NEW i \in 1 .. n, NEW b \in ToSet(bss[i]) PROVE BlockIs(body, rows, b, N)
      BY <1>3
    <2>1. NN[i] \subseteq N
      OBVIOUS
    <2> QED  BY <1>4, <2>1, BlockWider
  <1>7. \A k \in Leaves(body, N) : ~Replaced(body, rows, k) /\ ~Astray(body, k) =>
          \E b \in ToSet(FlattenSeq(bss)) : Word(k) \in ToSet(b.gives.words)
    <2> SUFFICES ASSUME NEW k \in Leaves(body, N), ~Replaced(body, rows, k), ~Astray(body, k)
                 PROVE  \E b \in ToSet(FlattenSeq(bss)) : Word(k) \in ToSet(b.gives.words)
      OBVIOUS
    <2>1. PICK i \in 1 .. n : k \in Leaves(body, NN[i])
      BY DEF Leaves
    <2>2. \E b \in ToSet(bss[i]) : Word(k) \in ToSet(b.gives.words)
      BY <2>1 DEF BlocksAre
    <2> QED  BY <1>3, <2>2
  <1> QED  BY <1>2, <1>5, <1>6, <1>7 DEF BlocksAre

LEMMA BlocksWider ==
  ASSUME NEW body, NEW rows, NEW bs, NEW N, BlocksAre(body, rows, bs, N), NEW M, N \subseteq M,
         \A k \in Leaves(body, M) : k \in N
  PROVE  BlocksAre(body, rows, bs, M)
  <1>1. \A b \in ToSet(bs) : BlockIs(body, rows, b, M)
    BY BlockWider DEF BlocksAre
  <1>2. \A k \in Leaves(body, M) : k \in Leaves(body, N)
    BY DEF Leaves
  <1> QED  BY <1>1, <1>2 DEF BlocksAre

LEMMA BlockAt ==
  ASSUME NEW secret, NEW g
  PROVE  Block(secret, g).secret = secret /\ Block(secret, g).gives = g
  BY DEF Block

LEMMA PublicIs ==
  ASSUME NEW body, NEW rows, NEW g, NEW N, GivesTexts(body, g, N), g.flagged = TRUE \/ Clear(body, N)
  PROVE  /\ BlockIs(body, rows, Block(FALSE, g), N)
         /\ \A k \in Leaves(body, N) : Word(k) \in ToSet(Block(FALSE, g).gives.words)
  <1> DEFINE b == Block(FALSE, g)
  <1>1. b.secret = FALSE /\ b.gives = g
    BY BlockAt
  <1>2. b \in AnyBlock
    BY DEF Block, AnyBlock, GivesTexts
  <1>3. g.consumed = {} /\ HasTexts(g.words, Leaves(body, N))
    BY DEF GivesTexts
  <1>4. ASSUME g.flagged = FALSE, NEW k \in Leaves(body, N) PROVE ~Marked(body, k)
    <2>1. g.flagged # TRUE
      BY <1>4
    <2>2. \A m \in N : body[m].tag # "gm"
      BY <2>1 DEF GivesTexts
    <2> QED  BY <2>1, <2>2 DEF Clear, Marked, Leaves
  <1> HIDE DEF b
  <1>5. BlockIs(body, rows, b, N)
    BY <1>1, <1>2, <1>3, <1>4 DEF BlockIs, HasTexts
  <1>6. \A k \in Leaves(body, N) : Word(k) \in ToSet(b.gives.words)
    BY <1>1, <1>3 DEF HasTexts
  <1> QED  BY <1>5, <1>6 DEF b

\* A block of its own for some nodes.
LEMMA PublicBlocks ==
  ASSUME NEW body, NEW rows, NEW g, NEW N, GivesTexts(body, g, N), g.flagged = TRUE \/ Clear(body, N)
  PROVE  BlocksAre(body, rows, <<Block(FALSE, g)>>, N)
  BY PublicIs, BlocksOne

LEMMA SecretIs ==
  ASSUME NEW body, IsBody(body), NEW rows \in SUBSET Nat, NEW n \in DOMAIN body, body[n].tag = "gm"
  PROVE  BlocksAre(body, rows, <<Block(TRUE, SecretText(body, n, rows))>>, Under(body, n))
  <1> DEFINE id == body[n].id
             N == Under(body, n)
             g == SecretText(body, n, rows)
             b == Block(TRUE, g)
  <1>0. id \in Nat
    BY BodyIs
  <1>1. b.secret = TRUE /\ b.gives = g
    BY BlockAt
  <1>2. \A k \in Leaves(body, N) : k \in N \ {n} /\ n \in Above(body)[k]
    BY DEF Leaves, Under
  <1>3. CASE id \in rows
    <2> DEFINE w == <<Row(id)>>
    <2>1. Row(id) \in Words
      BY <1>0, WordsAre
    <2>2. Tidy(w) /\ ToSet(w) = {Row(id)} /\ w \in Seq(Words)
      BY <2>1, TidyOne DEF Tidy
    <2>3. g = Gives(w, FALSE, {id})
      BY <1>3 DEF SecretText
    <2> HIDE DEF w
    <2>4. g \in AnyGives /\ g.words = w /\ g.consumed = {id}
      <3> HIDE DEF g, id
      <3> QED  BY <1>0, <2>2, <2>3 DEF Gives, AnyGives
    <2>5. b \in AnyBlock
      <3> HIDE DEF g
      <3> QED  BY <2>4 DEF Block, AnyBlock
    <2>6. \A k \in Leaves(body, N) : Replaced(body, rows, k)
      BY <1>2, <1>3 DEF Replaced
    <2> HIDE DEF g, b
    <2>7. BlockIs(body, rows, b, N)
      BY <1>1, <1>3, <2>2, <2>4, <2>5 DEF BlockIs
    <2> QED  BY <2>6, <2>7, BlocksOne DEF b, g
  <1>4. CASE id \notin rows
    <2>1. g = InlineChildren(body, n)
      BY <1>4 DEF SecretText
    <2>2. GivesTexts(body, g, N \ {n})
      BY <2>1, InlineChildrenIs
    <2> HIDE DEF g
    <2>3. /\ b \in AnyBlock /\ g.consumed = {} /\ HasTexts(g.words, Leaves(body, N \ {n}))
      BY <2>2 DEF GivesTexts, Block, AnyBlock
    <2>4. \A k : k \in Leaves(body, N) <=> k \in Leaves(body, N \ {n})
      BY <1>2 DEF Leaves
    <2> HIDE DEF b
    <2>5. BlockIs(body, rows, b, N)
      BY <1>1, <2>3, <2>4 DEF BlockIs, HasTexts
    <2>6. \A k \in Leaves(body, N) : Word(k) \in ToSet(b.gives.words)
      BY <1>1, <2>3, <2>4 DEF HasTexts
    <2> QED  BY <2>5, <2>6, BlocksOne DEF b, g
  <1> QED  BY <1>3, <1>4

LEMMA ClearUnder ==
  ASSUME NEW body, IsBody(body), NEW n \in DOMAIN body, \A m \in Above(body)[n] : body[m].tag # "gm"
  PROVE  Clear(body, Under(body, n)) /\ (body[n].tag # "gm" => Clear(body, Under(body, n) \ {n}))
  <1>1. \A k \in Under(body, n) : \A m \in Above(body)[k] : m \in Under(body, n) \/ m \in Above(body)[n]
    BY AboveUnder
  <1> QED  BY <1>1 DEF Clear

\* What is around a child: the node, and what is around it.
LEMMA AboveChild ==
  ASSUME NEW body, IsBody(body), NEW n \in DOMAIN body, body[n].tag # "gm",
         \A m \in Above(body)[n] : body[m].tag # "gm", NEW i \in DOMAIN body[n].children
  PROVE  \A m \in Above(body)[body[n].children[i]] : body[m].tag # "gm"
  <1> DEFINE c == body[n].children[i]
  <1>0. c \in DOMAIN body
    BY BodyIs
  <1>1. c \in DOMAIN body /\ \A m : m \in Parents(body, c) <=> m = n
    BY <1>0, ParentOfChild
  <1>2. \A x : x \in Above(body)[c] <=> x \in Parents(body, c) \/ \E p \in Parents(body, c) : x \in Above(body)[p]
    BY <1>1, AboveIs
  <1> QED  BY <1>1, <1>2

LEMMA TogetherMore ==
  ASSUME NEW body, NEW gs \in Seq(AnyGives), NEW g, NEW N \in SUBSET Nat, NEW M \in SUBSET Nat,
         GivesTexts(body, Together(gs), N), GivesTexts(body, g, M), \A x \in N : x \notin M
  PROVE  Append(gs, g) \in Seq(AnyGives) /\ GivesTexts(body, Together(Append(gs, g)), N \cup M)
  <1> DEFINE hs == Append(gs, g)
             n == Len(gs)
             ww == [i \in DOMAIN gs |-> gs[i].words]
             vv == [i \in DOMAIN hs |-> hs[i].words]
             t == Together(gs)
             u == Together(hs)
             fl == \E i \in DOMAIN hs : hs[i].flagged
             co == UNION {hs[i].consumed : i \in DOMAIN hs}
  <1>1. g \in AnyGives
    BY DEF GivesTexts
  <1>2. /\ n \in Nat /\ DOMAIN gs = 1 .. n /\ hs \in Seq(AnyGives) /\ DOMAIN hs = 1 .. n + 1
        /\ \A i \in 1 .. n : hs[i] = gs[i] /\ gs[i] \in AnyGives
        /\ hs[n + 1] = g
    BY <1>1
  <1> HIDE DEF hs, n
  <1>3. t = Gives(FlattenSeq(ww), \E i \in DOMAIN gs : gs[i].flagged, UNION {gs[i].consumed : i \in DOMAIN gs})
    BY DEF Together
  <1>4. u = Gives(FlattenSeq(vv), fl, co)
    BY DEF Together
  <1>5. \A x \in AnyGives : x.words \in Seq(Words) /\ x.flagged \in BOOLEAN
    BY DEF AnyGives
  <1>6. ww \in Seq(Seq(Words))
    <2>1. \A i \in 1 .. n : gs[i].words \in Seq(Words)
      BY <1>2, <1>5
    <2>2. ww \in [1 .. n -> Seq(Words)]
      BY <1>2, <2>1
    <2> HIDE DEF ww
    <2> QED  BY <1>2, <2>2
  <1>7. vv = Append(ww, g.words)
    <2> DEFINE ap == Append(ww, g.words)
    <2>1. DOMAIN ww = 1 .. n /\ \A i \in 1 .. n : ww[i] = gs[i].words
      BY <1>2
    <2> HIDE DEF ww
    <2>2. ap \in Seq(Seq(Words)) /\ DOMAIN ap = 1 .. n + 1 /\ ap[n + 1] = g.words /\ \A i \in 1 .. n : ap[i] = ww[i]
      BY <1>1, <1>2, <1>5, <1>6, <2>1
    <2>3. ap = [i \in 1 .. n + 1 |-> ap[i]]
      <3> HIDE DEF ap
      <3>1. ap = [i \in DOMAIN ap |-> ap[i]]
        BY <2>2
      <3> QED  BY <2>2, <3>1
    <2> HIDE DEF ap
    <2>4. \A i \in 1 .. n + 1 : ap[i] = hs[i].words
      <3> SUFFICES ASSUME NEW i \in 1 .. n + 1 PROVE ap[i] = hs[i].words
        OBVIOUS
      <3>1. i \in 1 .. n \/ i = n + 1
        BY <1>2
      <3> QED  BY <1>2, <2>1, <2>2, <3>1
    <2>5. vv = ap
      BY <1>2, <2>3, <2>4
    <2> QED  BY <2>5 DEF ap
  <1> HIDE DEF ww, vv
  <1>8. FlattenSeq(vv) = FlattenSeq(ww) \o g.words
    BY <1>1, <1>5, <1>6, <1>7, FlattenMore
  <1>9. t.words = FlattenSeq(ww) /\ t.flagged = (\E i \in DOMAIN gs : gs[i].flagged)
        /\ t.consumed = UNION {gs[i].consumed : i \in DOMAIN gs}
    <2> HIDE DEF t
    <2> QED  BY <1>3 DEF Gives
  <1>10. HasTexts(FlattenSeq(vv), Leaves(body, N) \cup Leaves(body, M))
    <2>1. HasTexts(FlattenSeq(ww), Leaves(body, N)) /\ HasTexts(g.words, Leaves(body, M))
      BY <1>9 DEF GivesTexts
    <2>2. /\ Leaves(body, N) \subseteq Nat /\ Leaves(body, M) \subseteq Nat
          /\ \A x \in Leaves(body, N) : x \notin Leaves(body, M)
      BY DEF Leaves
    <2> QED  BY <1>8, <2>1, <2>2, TextsConcat
  <1>11. Leaves(body, N) \cup Leaves(body, M) = Leaves(body, N \cup M)
    BY DEF Leaves
  <1>12. co = {}
    <2>1. \A i \in DOMAIN gs : gs[i].consumed = {}
      <3>1. UNION {gs[i].consumed : i \in DOMAIN gs} = {}
        BY <1>9 DEF GivesTexts
      <3> QED  BY <3>1
    <2>2. g.consumed = {}
      BY DEF GivesTexts
    <2>3. \A i \in DOMAIN hs : hs[i].consumed = {}
      <3> SUFFICES ASSUME NEW i \in DOMAIN hs PROVE hs[i].consumed = {}
        OBVIOUS
      <3>1. i \in 1 .. n \/ i = n + 1
        BY <1>2
      <3> QED  BY <1>2, <2>1, <2>2, <3>1
    <2> QED  BY <2>3
  <1>13. fl = TRUE \/ \A m \in N \cup M : body[m].tag # "gm"
    <2> SUFFICES ASSUME ~fl, NEW m \in N \cup M PROVE body[m].tag # "gm"
      OBVIOUS
    <2>1. ~hs[n + 1].flagged /\ \A i \in 1 .. n : ~hs[i].flagged
      BY <1>2
    <2>2. g.flagged # TRUE
      BY <1>1, <1>2, <1>5, <2>1
    <2>3. t.flagged # TRUE
      <3>1. \A i \in DOMAIN gs : ~gs[i].flagged
        BY <1>2, <2>1
      <3> HIDE DEF t
      <3> QED  BY <1>9, <3>1
    <2> QED  BY <2>2, <2>3 DEF GivesTexts
  <1>14. u \in AnyGives /\ u.words = FlattenSeq(vv) /\ u.flagged = fl /\ u.consumed = co
    <2>1. FlattenSeq(vv) \in Seq(Words) /\ fl \in BOOLEAN /\ co \in SUBSET Nat
      BY <1>10, <1>12 DEF HasTexts, Tidy
    <2> HIDE DEF u, fl, co
    <2> QED  BY <1>4, <2>1, GivesAre
  <1> HIDE DEF u, fl, co
  <1>15. GivesTexts(body, u, N \cup M)
    BY <1>10, <1>11, <1>12, <1>13, <1>14 DEF GivesTexts
  <1> QED  BY <1>2, <1>15 DEF u, hs

-----------------------------------------------------------------------------
(* A paragraph with marks in it.                                           *)

AfterStep(body, n, rows, after, i) ==
    LET children == body[n].children
    IN IF i = 0 THEN [blocks |-> << >>, inline |-> << >>]
       ELSE IF body[children[i]].tag = "gm"
       THEN [blocks |-> after[i - 1].blocks
                        \o <<Block(FALSE, Together(after[i - 1].inline)),
                             Block(TRUE, SecretText(body, children[i], rows))>>,
             inline |-> << >>]
       ELSE [after[i - 1] EXCEPT !.inline = Append(@, InlineText(body)[children[i]])]

LEMMA AfterExists ==
  ASSUME NEW body, NEW n, NEW rows, NEW N \in Nat
  PROVE  \E after : after = [i \in 0 .. N |-> AfterStep(body, n, rows, after, i)]
  <1> DEFINE Is(f, m) == f = [b \in 0 .. m |-> AfterStep(body, n, rows, f, b)]
             S == {k \in Nat : k <= N => \E f : Is(f, k)}
  <1>1. ASSUME NEW b \in 0 .. N, NEW f, NEW g, b # 0 => f[b - 1] = g[b - 1]
        PROVE  AfterStep(body, n, rows, f, b) = AfterStep(body, n, rows, g, b)
    BY <1>1 DEF AfterStep
  <1>2. 0 \in S
    <2> DEFINE f == [b \in 0 .. 0 |-> AfterStep(body, n, rows, 0, b)]
    <2>1. AfterStep(body, n, rows, 0, 0) = AfterStep(body, n, rows, f, 0)
      <3> HIDE DEF f
      <3> QED  BY <1>1
    <2>2. Is(f, 0)
      <3>1. \A b \in 0 .. 0 : b = 0
        OBVIOUS
      <3>2. f = [b \in 0 .. 0 |-> AfterStep(body, n, rows, 0, 0)]
        BY <3>1
      <3> HIDE DEF f
      <3>3. [b \in 0 .. 0 |-> AfterStep(body, n, rows, f, b)] = [b \in 0 .. 0 |-> AfterStep(body, n, rows, f, 0)]
        BY <3>1
      <3> QED  BY <2>1, <3>2, <3>3
    <2> HIDE DEF Is
    <2> QED  BY <2>2
  <1>3. ASSUME NEW k \in Nat, k \in S
        PROVE  k + 1 \in S
    <2> SUFFICES ASSUME k + 1 <= N
                 PROVE  \E f : Is(f, k + 1)
      <3> HIDE DEF Is
      <3> QED  OBVIOUS
    <2> DEFINE w == k + 1
    <2>1. w \in 1 .. N /\ w - 1 = k /\ k \in Nat /\ w \in Nat
      OBVIOUS
    <2>2. PICK f : Is(f, k)
      <3> HIDE DEF Is
      <3> QED  BY <1>3
    <2> HIDE DEF w
    <2> DEFINE g == [b \in 0 .. w |-> IF b = w THEN AfterStep(body, n, rows, f, w) ELSE f[b]]
    <2>3. \A b \in 0 .. w - 1 : b \in 0 .. w /\ b # w /\ f[b] = AfterStep(body, n, rows, f, b)
      BY <2>1, <2>2
    <2>4. \A b \in 0 .. w - 1 : f[b] = g[b]
      BY <2>3
    <2>5. g[w] = AfterStep(body, n, rows, f, w)
      <3>1. w \in 0 .. w
        BY <2>1
      <3> QED  BY <3>1
    <2>6. DOMAIN g = 0 .. w /\ g = [b \in 0 .. w |-> g[b]]
      OBVIOUS
    <2> HIDE DEF g
    <2>7. ASSUME NEW b \in 0 .. w
          PROVE  g[b] = AfterStep(body, n, rows, g, b)
      <3>1. b \in 0 .. N /\ (b # 0 => b - 1 \in 0 .. w - 1)
        BY <2>1
      <3>2. AfterStep(body, n, rows, f, b) = AfterStep(body, n, rows, g, b)
        BY <1>1, <2>4, <3>1
      <3>3. b = w \/ b \in 0 .. w - 1
        BY <2>1
      <3> QED  BY <2>3, <2>4, <2>5, <3>2, <3>3
    <2>8. Is(g, w)
      BY <2>6, <2>7
    <2> HIDE DEF Is
    <2> QED  BY <2>8 DEF w
  <1>4. N \in S
    <2> HIDE DEF S
    <2> QED  BY <1>2, <1>3, SetOfNaturals
  <1>5. \E f : Is(f, N)
    <2> HIDE DEF Is
    <2> QED  BY <1>4
  <1> QED  BY <1>5

\* After i children: blocks with the texts of some, and inline text of the others.
MixedTo(body, n, rows, i, a) ==
    \E B, I \in SUBSET Nat :
        /\ BlocksAre(body, rows, a.blocks, B)
        /\ GivesTexts(body, Together(a.inline), I) /\ Clear(body, I)
        /\ \A x \in B : x \notin I
        /\ \A x : x \in B \cup I <=> \E j \in 1 .. i : x \in Under(body, body[n].children[j])

AnyMixed == [blocks : Seq(AnyBlock), inline : Seq(AnyGives)]

LEMMA NothingTogether ==
  ASSUME NEW body
  PROVE  << >> \in Seq(AnyGives) /\ GivesTexts(body, Together(<< >>), {}) /\ Clear(body, {})
  <1>1. << >> \in Seq(AnyGives) /\ DOMAIN << >> = {}
    OBVIOUS
  <1> DEFINE gs == << >>
             NN == << >>
  <1>2. DOMAIN gs = 1 .. 0 /\ gs = [i \in 1 .. 0 |-> gs[i]]
    OBVIOUS
  <1>3. 1 .. 0 = {} /\ 0 \in Nat
    OBVIOUS
  <1> HIDE DEF gs, NN
  <1>4. GivesTexts(body, Together(gs), {})
    BY <1>2, <1>3, TogetherIs
  <1>5. Clear(body, {})
    BY DEF Clear
  <1> QED  BY <1>1, <1>4, <1>5 DEF gs

LEMMA TwoConcat ==
  ASSUME NEW T, NEW x \in T, NEW y \in T
  PROVE  <<x>> \o <<y>> = <<x, y>>
  <1>1. <<x>> \in Seq(T) /\ <<y>> \in Seq(T) /\ <<x, y>> \in Seq(T)
    OBVIOUS
  <1> DEFINE c == <<x>> \o <<y>>
             d == <<x, y>>
  <1>2. Len(<<x>>) = 1 /\ Len(<<y>>) = 1
    OBVIOUS
  <1>3. c \in Seq(T) /\ Len(c) = 2 /\ c[1] = x /\ c[2] = y
    BY <1>1, <1>2
  <1>4. d \in Seq(T) /\ Len(d) = 2 /\ d[1] = x /\ d[2] = y
    OBVIOUS
  <1> HIDE DEF c, d
  <1>5. c = d
    <2>1. \A i \in 1 .. 2 : c[i] = d[i]
      BY <1>3, <1>4
    <2> QED  BY <1>3, <1>4, <2>1, SeqEqual
  <1> QED  BY <1>5 DEF c, d

LEMMA MixedStep ==
  ASSUME NEW body, IsBody(body), NEW n \in DOMAIN body, body[n].tag # "gm",
         \A m \in Above(body)[n] : body[m].tag # "gm", NEW rows \in SUBSET Nat,
         NEW after, NEW i \in DOMAIN body[n].children,
         after[i - 1] \in AnyMixed, MixedTo(body, n, rows, i - 1, after[i - 1]),
         after[i] = AfterStep(body, n, rows, after, i)
  PROVE  after[i] \in AnyMixed /\ MixedTo(body, n, rows, i, after[i])
  <1> DEFINE c == body[n].children
             U == Under(body, c[i])
             a == after[i - 1]
             b == after[i]
  <1>0. /\ i \in Nat \ {0} /\ c[i] \in DOMAIN body
        /\ \A j \in 1 .. i - 1 : j \in DOMAIN c /\ j # i
        /\ \A j \in 1 .. i : j = i \/ j \in 1 .. i - 1
        /\ \A j \in 1 .. i - 1 : j \in 1 .. i
        /\ i \in 1 .. i
    <2>1. Len(c) \in Nat /\ DOMAIN c = 1 .. Len(c) /\ c[i] \in DOMAIN body
      BY BodyIs
    <2> HIDE DEF c
    <2> QED  BY <2>1 DEF c
  <1>1. U \in SUBSET Nat
    <2>1. \A k \in U : k \in Nat
      BY <1>0, UnderIs
    <2> QED  BY <2>1
  <1>2. \A j \in 1 .. i - 1 : \A x \in U : x \notin Under(body, c[j])
    BY <1>0, UnderApart
  <1>3. Clear(body, U)
    <2>1. \A m \in Above(body)[c[i]] : body[m].tag # "gm"
      BY AboveChild
    <2> QED  BY <1>0, <2>1, ClearUnder
  <1>4. a \in AnyMixed
    OBVIOUS
  <1>5. PICK B \in SUBSET Nat, I \in SUBSET Nat :
          /\ BlocksAre(body, rows, a.blocks, B)
          /\ GivesTexts(body, Together(a.inline), I) /\ Clear(body, I)
          /\ \A x \in B : x \notin I
          /\ \A x : x \in B \cup I <=> \E j \in 1 .. i - 1 : x \in Under(body, c[j])
    BY DEF MixedTo
  <1>6. (\A x \in U : x \notin B) /\ (\A x \in U : x \notin I) /\ (\A x \in I : x \notin U) /\ (\A x \in B : x \notin U)
    BY <1>2, <1>5
  <1>7. \A x : x \in B \cup I \cup U <=> \E j \in 1 .. i : x \in Under(body, c[j])
    <2> SUFFICES ASSUME NEW x
                 PROVE  x \in B \cup I \cup U <=> \E j \in 1 .. i : x \in Under(body, c[j])
      OBVIOUS
    <2>1. x \in B \cup I <=> \E j \in 1 .. i - 1 : x \in Under(body, c[j])
      BY <1>5
    <2>2. (\E j \in 1 .. i : x \in Under(body, c[j])) <=> x \in U \/ \E j \in 1 .. i - 1 : x \in Under(body, c[j])
      BY <1>0
    <2> QED  BY <2>1, <2>2
  <1> DEFINE mark == body[c[i]].tag = "gm"
             p == Block(FALSE, Together(a.inline))
             s == Block(TRUE, SecretText(body, c[i], rows))
             g == InlineText(body)[c[i]]
  <1>8. b = IF mark THEN [blocks |-> a.blocks \o <<p, s>>, inline |-> << >>]
            ELSE [a EXCEPT !.inline = Append(@, g)]
    BY <1>0 DEF AfterStep
  <1> HIDE DEF U, a, b, p, s, g
  <1>9. CASE mark
    <2>1. b = [blocks |-> a.blocks \o <<p, s>>, inline |-> << >>]
      BY <1>8, <1>9
    <2>2. b.blocks = a.blocks \o <<p, s>> /\ b.inline = << >>
      BY <2>1
    <2>3. BlocksAre(body, rows, <<p>>, I)
      BY <1>5, PublicBlocks DEF p
    <2>4. BlocksAre(body, rows, <<s>>, U)
      BY <1>0, <1>9, SecretIs DEF s, U
    <2>5. BlocksAre(body, rows, <<p>> \o <<s>>, I \cup U)
      BY <1>1, <1>5, <1>6, <2>3, <2>4, BlocksConcat
    <2>6. <<p>> \o <<s>> = <<p, s>>
      <3>1. <<p>> \in Seq(AnyBlock) /\ <<s>> \in Seq(AnyBlock)
        BY <2>3, <2>4 DEF BlocksAre
      <3>2. \A x : <<x>> \in Seq(AnyBlock) => x \in AnyBlock
        <4> SUFFICES ASSUME NEW x, <<x>> \in Seq(AnyBlock) PROVE x \in AnyBlock
          OBVIOUS
        <4>1. <<x>>[1] = x /\ 1 \in DOMAIN <<x>>
          OBVIOUS
        <4> QED  BY <4>1
      <3>3. p \in AnyBlock /\ s \in AnyBlock
        BY <3>1, <3>2
      <3> QED  BY <3>3, TwoConcat
    <2>7. BlocksAre(body, rows, a.blocks \o <<p, s>>, B \cup (I \cup U))
      <3>1. \A x \in B : x \notin I \cup U
        BY <1>5, <1>6
      <3>2. I \cup U \in SUBSET Nat
        BY <1>1
      <3> QED  BY <1>5, <2>5, <2>6, <3>1, <3>2, BlocksConcat
    <2>8. MixedTo(body, n, rows, i, b)
      <3> DEFINE BB == B \cup (I \cup U)
      <3>1. BB \in SUBSET Nat /\ {} \in SUBSET Nat /\ \A x \in BB : x \notin {}
        BY <1>1
      <3>2. \A x : x \in BB \cup {} <=> \E j \in 1 .. i : x \in Under(body, c[j])
        BY <1>7
      <3>3. BlocksAre(body, rows, b.blocks, BB)
        BY <2>2, <2>7
      <3>4. GivesTexts(body, Together(b.inline), {}) /\ Clear(body, {})
        BY <2>2, NothingTogether
      <3> HIDE DEF BB
      <3> QED  BY <3>1, <3>2, <3>3, <3>4 DEF MixedTo
    <2>9. b \in AnyMixed
      <3>1. a.blocks \o <<p, s>> \in Seq(AnyBlock) /\ << >> \in Seq(AnyGives)
        BY <2>7, NothingTogether DEF BlocksAre
      <3> QED  BY <2>1, <3>1 DEF AnyMixed
    <2> QED  BY <2>8, <2>9 DEF b
  <1>10. CASE ~mark
    <2>1. b = [a EXCEPT !.inline = Append(@, g)]
      BY <1>8, <1>10
    <2>2. b.blocks = a.blocks /\ b.inline = Append(a.inline, g)
      BY <1>4, <2>1 DEF AnyMixed
    <2>3. a.inline \in Seq(AnyGives) /\ a.blocks \in Seq(AnyBlock)
      BY <1>4 DEF AnyMixed
    <2>4. GivesTexts(body, g, U)
      BY <1>0, InlineIs DEF g, U
    <2>5. Append(a.inline, g) \in Seq(AnyGives) /\ GivesTexts(body, Together(Append(a.inline, g)), I \cup U)
      BY <1>1, <1>5, <1>6, <2>3, <2>4, TogetherMore
    <2>6. Clear(body, I \cup U)
      BY <1>3, <1>5 DEF Clear
    <2>7. MixedTo(body, n, rows, i, b)
      <3> DEFINE II == I \cup U
      <3>1. B \in SUBSET Nat /\ II \in SUBSET Nat /\ \A x \in B : x \notin II
        BY <1>1, <1>5, <1>6
      <3>2. \A x : x \in B \cup II <=> \E j \in 1 .. i : x \in Under(body, c[j])
        BY <1>7
      <3>3. BlocksAre(body, rows, b.blocks, B) /\ GivesTexts(body, Together(b.inline), II) /\ Clear(body, II)
        BY <1>5, <2>2, <2>5, <2>6
      <3> HIDE DEF II
      <3> QED  BY <3>1, <3>2, <3>3 DEF MixedTo
    <2>8. b \in AnyMixed
      BY <1>4, <2>1, <2>5 DEF AnyMixed
    <2> QED  BY <2>7, <2>8 DEF b
  <1> QED  BY <1>9, <1>10

LEMMA MixedIs ==
  ASSUME NEW body, IsBody(body), NEW n \in DOMAIN body, body[n].tag # "gm",
         \A m \in Above(body)[n] : body[m].tag # "gm", NEW rows \in SUBSET Nat
  PROVE  BlocksAre(body, rows, MixedBlocks(body, n, rows), Under(body, n) \ {n})
  <1> DEFINE c == body[n].children
             N == Len(c)
             after[i \in 0 .. Len(c)] ==
               IF i = 0 THEN [blocks |-> << >>, inline |-> << >>]
               ELSE IF body[c[i]].tag = "gm"
               THEN [blocks |-> after[i - 1].blocks
                                \o <<Block(FALSE, Together(after[i - 1].inline)),
                                     Block(TRUE, SecretText(body, c[i], rows))>>,
                     inline |-> << >>]
               ELSE [after[i - 1] EXCEPT !.inline = Append(@, InlineText(body)[c[i]])]
             F == CHOOSE f : f = [i \in 0 .. N |-> AfterStep(body, n, rows, f, i)]
             last == after[N]
  <1>0. N \in Nat /\ DOMAIN c = 1 .. N
    BY BodyIs
  <1>1. after = F
    BY DEF after, AfterStep
  <1>2. MixedBlocks(body, n, rows) = Append(last.blocks, Block(FALSE, Together(last.inline)))
    BY DEF MixedBlocks, after
  <1> HIDE DEF after
  <1>3. F = [i \in 0 .. N |-> AfterStep(body, n, rows, F, i)]
    <2> HIDE DEF N
    <2> QED  BY <1>0, AfterExists
  <1> HIDE DEF F, N
  <1>4. \A i \in 0 .. N : F[i] = AfterStep(body, n, rows, F, i)
    BY <1>3
  <1> DEFINE S == {i \in Nat : i <= N => F[i] \in AnyMixed /\ MixedTo(body, n, rows, i, F[i])}
  <1>5. 0 \in S
    <2> DEFINE a == [blocks |-> << >>, inline |-> << >>]
    <2>1. F[0] = a
      <3>1. 0 \in 0 .. N
        BY <1>0
      <3>2. F[0] = AfterStep(body, n, rows, F, 0)
        BY <1>4, <3>1
      <3>3. \A f : AfterStep(body, n, rows, f, 0) = a
        BY DEF AfterStep
      <3> QED  BY <3>2, <3>3
    <2>2. a.blocks = << >> /\ a.inline = << >> /\ a \in AnyMixed
      BY DEF AnyMixed
    <2> HIDE DEF a
    <2>3. {} \in SUBSET Nat /\ 1 .. 0 = {}
      OBVIOUS
    <2>4. MixedTo(body, n, rows, 0, a)
      <3> DEFINE E == {}
      <3>1. BlocksAre(body, rows, a.blocks, E) /\ GivesTexts(body, Together(a.inline), E) /\ Clear(body, E)
        BY <2>2, NoBlocks, NothingTogether
      <3>2. E \in SUBSET Nat /\ \A x \in E : x \notin E
        OBVIOUS
      <3>3. \A x : x \in E \cup E <=> \E j \in 1 .. 0 : x \in Under(body, body[n].children[j])
        BY <2>3
      <3> HIDE DEF E
      <3> QED  BY <3>1, <3>2, <3>3 DEF MixedTo
    <2> QED  BY <2>1, <2>2, <2>4
  <1>6. ASSUME NEW k \in Nat, k \in S PROVE k + 1 \in S
    <2> SUFFICES ASSUME k + 1 <= N
                 PROVE  F[k + 1] \in AnyMixed /\ MixedTo(body, n, rows, k + 1, F[k + 1])
      OBVIOUS
    <2> DEFINE i == k + 1
    <2>1. i \in DOMAIN c /\ i - 1 = k /\ i \in 0 .. N /\ k <= N
      BY <1>0
    <2> HIDE DEF i
    <2>2. F[i - 1] \in AnyMixed /\ MixedTo(body, n, rows, i - 1, F[i - 1])
      BY <1>6, <2>1
    <2>3. F[i] = AfterStep(body, n, rows, F, i)
      BY <1>4, <2>1
    <2>4. F[i] \in AnyMixed /\ MixedTo(body, n, rows, i, F[i])
      BY <2>1, <2>2, <2>3, MixedStep
    <2> QED  BY <2>4 DEF i
  <1>7. N \in S
    <2> HIDE DEF S
    <2> QED  BY <1>0, <1>5, <1>6, SetOfNaturals
  <1>8. F[N] \in AnyMixed /\ MixedTo(body, n, rows, N, F[N])
    <2>1. N <= N
      BY <1>0
    <2> QED  BY <1>7, <2>1
  <1> DEFINE p == Block(FALSE, Together(last.inline))
  <1>9. last = F[N]
    BY <1>1
  <1> HIDE DEF last, S
  <1>10. PICK B \in SUBSET Nat, I \in SUBSET Nat :
          /\ BlocksAre(body, rows, last.blocks, B)
          /\ GivesTexts(body, Together(last.inline), I) /\ Clear(body, I)
          /\ \A x \in B : x \notin I
          /\ \A x : x \in B \cup I <=> \E j \in 1 .. N : x \in Under(body, c[j])
    BY <1>8, <1>9 DEF MixedTo
  <1>11. BlocksAre(body, rows, <<p>>, I)
    BY <1>10, PublicBlocks
  <1> HIDE DEF p
  <1>12. BlocksAre(body, rows, last.blocks \o <<p>>, B \cup I)
    BY <1>10, <1>11, BlocksConcat
  <1>13. Append(last.blocks, p) = last.blocks \o <<p>>
    <2>1. last.blocks \in Seq(AnyBlock) /\ p \in AnyBlock
      <3>1. <<p>> \in Seq(AnyBlock) /\ <<p>>[1] = p /\ DOMAIN <<p>> = {1}
        BY <1>11 DEF BlocksAre
      <3> QED  BY <1>10, <3>1 DEF BlocksAre
    <2> QED  BY <2>1
  <1>14. B \cup I = Under(body, n) \ {n}
    <2>1. /\ \A x : x \in Under(body, n) <=> x = n \/ \E j \in DOMAIN c : x \in Under(body, c[j])
          /\ \A j \in DOMAIN c : n \notin Under(body, c[j])
      BY UnderIs
    <2> HIDE DEF c
    <2>2. \A x : x \in B \cup I <=> x \in Under(body, n) \ {n}
      BY <1>0, <1>10, <2>1
    <2> QED  BY <2>2
  <1> QED  BY <1>2, <1>12, <1>13, <1>14 DEF p

LEMMA NothingGiven ==
  ASSUME NEW body
  PROVE  GivesTexts(body, Gives(<< >>, FALSE, {}), {})
  <1> DEFINE g == Gives(<< >>, FALSE, {})
             E == {}
  <1>1. HasTexts(<< >>, E) /\ << >> \in Seq(Words)
    BY NoTexts DEF HasTexts, Tidy
  <1>2. g \in AnyGives /\ g.words = << >> /\ g.consumed = {}
    BY <1>1, GivesWords
  <1>3. Leaves(body, E) = E
    BY DEF Leaves
  <1>4. \A m \in E : body[m].tag # "gm"
    OBVIOUS
  <1> HIDE DEF g, E
  <1>5. GivesTexts(body, g, E)
    BY <1>1, <1>2, <1>3, <1>4 DEF GivesTexts
  <1> QED  BY <1>5 DEF g, E

\* The items of a list, of which none is in a GM mark.
LEMMA ListIs ==
  ASSUME NEW body, IsBody(body), NEW n \in DOMAIN body, body[n].tag = "ul",
         \A m \in Above(body)[n] : body[m].tag # "gm", NEW rows \in SUBSET Nat
  PROVE  BlocksAre(body, rows, <<ListBlock(body, n)>>, Under(body, n))
  <1> DEFINE c == body[n].children
             U(i) == Under(body, c[i])
             gs == [i \in DOMAIN c |-> IF body[c[i]].tag = "li" THEN InlineChildren(body, c[i])
                                                               ELSE Gives(<< >>, FALSE, {})]
             NN == [i \in DOMAIN c |-> IF body[c[i]].tag = "li" THEN U(i) \ {c[i]} ELSE {}]
             N == {k \in Under(body, n) : \E i \in DOMAIN c : k \in NN[i]}
             g == Together(gs)
             b == Block(FALSE, g)
  <1>1. Len(c) \in Nat /\ DOMAIN c = 1 .. Len(c) /\ \A i \in DOMAIN c : c[i] \in DOMAIN body
    BY BodyIs
  <1>2. /\ \A k : k \in Under(body, n) <=> k = n \/ \E i \in DOMAIN c : k \in U(i)
        /\ \A k \in Under(body, n) : k \in DOMAIN body /\ k \in Nat
    BY UnderIs
  <1>3. \A i, j \in DOMAIN c : i # j => \A x \in U(i) : x \notin U(j)
    BY UnderApart
  <1>4. ListBlock(body, n) = b
    BY DEF ListBlock
  <1>5. \A i \in DOMAIN c : GivesTexts(body, gs[i], NN[i])
    <2> SUFFICES ASSUME NEW i \in DOMAIN c PROVE GivesTexts(body, gs[i], NN[i])
      OBVIOUS
    <2>1. CASE body[c[i]].tag = "li"
      BY <1>1, <2>1, InlineChildrenIs
    <2>2. CASE body[c[i]].tag # "li"
      BY <2>2, NothingGiven
    <2> QED  BY <2>1, <2>2
  <1>6. \A i \in DOMAIN c : NN[i] \subseteq U(i) /\ NN[i] \subseteq Under(body, n) /\ NN[i] \subseteq Nat
    BY <1>2
  <1>7. \A x : x \in N <=> \E i \in DOMAIN c : x \in NN[i]
    BY <1>6
  <1>8. DOMAIN gs = 1 .. Len(c) /\ gs = [i \in 1 .. Len(c) |-> gs[i]]
    BY <1>1
  <1>9. \A i, j \in DOMAIN c : i < j => \A x \in NN[i] : x \notin NN[j]
    <2>1. \A i, j \in 1 .. Len(c) : i < j => i # j
      BY <1>1
    <2> QED  BY <1>1, <1>3, <1>6, <2>1
  <1>10. Clear(body, N)
    <2> SUFFICES ASSUME NEW i \in DOMAIN c, NEW k \in NN[i], NEW m \in Above(body)[k]
                 PROVE  m \in N \/ body[m].tag # "gm"
      BY <1>7 DEF Clear
    <2>1. body[c[i]].tag = "li" /\ NN[i] = U(i) \ {c[i]}
      OBVIOUS
    <2>2. \A p \in Above(body)[c[i]] : body[p].tag # "gm"
      BY AboveChild
    <2>3. Clear(body, NN[i])
      BY <1>1, <2>1, <2>2, ClearUnder
    <2> QED  BY <1>7, <2>3 DEF Clear
  <1>11. \A k \in Leaves(body, Under(body, n)) : k \in N \/ Astray(body, k)
    <2> SUFFICES ASSUME NEW k \in Under(body, n), body[k].tag = "text"
                 PROVE  k \in N \/ Astray(body, k)
      BY DEF Leaves
    <2>1. PICK i \in DOMAIN c : k \in U(i)
      BY <1>2
    <2>2. CASE body[c[i]].tag = "li"
      <3>1. k \in NN[i]
        BY <2>1, <2>2
      <3> QED  BY <1>7, <3>1
    <2>3. CASE body[c[i]].tag # "li"
      <3>1. c[i] \in {k} \cup Above(body)[k]
        BY <2>1 DEF Under
      <3>2. n \in Parents(body, c[i])
        BY ParentOfChild
      <3> QED  BY <2>3, <3>1, <3>2 DEF Astray
    <2> QED  BY <2>2, <2>3
  <1> HIDE DEF gs, NN
  <1>12. GivesTexts(body, g, N)
    <2>1. /\ \A i \in 1 .. Len(c) : GivesTexts(body, gs[i], NN[i]) /\ NN[i] \subseteq Nat
          /\ \A i, j \in 1 .. Len(c) : i < j => \A x \in NN[i] : x \notin NN[j]
          /\ \A x : x \in N <=> \E i \in 1 .. Len(c) : x \in NN[i]
      BY <1>1, <1>5, <1>6, <1>7, <1>9
    <2> HIDE DEF N, c
    <2> QED  BY <1>1, <1>8, <2>1, TogetherIs
  <1>13. N \subseteq Under(body, n)
    OBVIOUS
  <1> HIDE DEF g, N
  <1>14. BlockIs(body, rows, b, N) /\ \A k \in Leaves(body, N) : Word(k) \in ToSet(b.gives.words)
    BY <1>10, <1>12, PublicIs
  <1> HIDE DEF b
  <1>15. BlockIs(body, rows, b, Under(body, n))
    BY <1>13, <1>14, BlockWider
  <1>16. \A k \in Leaves(body, Under(body, n)) : ~Replaced(body, rows, k) /\ ~Astray(body, k) =>
            Word(k) \in ToSet(b.gives.words)
    BY <1>11, <1>14 DEF Leaves
  <1> QED  BY <1>4, <1>15, <1>16, BlocksOne

\* A child of the first node.
LEMMA TopIs ==
  ASSUME NEW body, IsBody(body), NEW j \in DOMAIN body[1].children
  PROVE  /\ body[1].children[j] \in DOMAIN body
         /\ \A m \in Above(body)[body[1].children[j]] : body[m].tag # "gm"
  <1>1. 1 \in DOMAIN body /\ body[1].tag # "gm" /\ body[1].children[j] \in DOMAIN body
    BY BodyIs
  <1>2. \A m \in Above(body)[1] : body[m].tag # "gm"
    <2>1. \A m \in Above(body)[1] : m < 1 /\ m \in DOMAIN body /\ m \in Nat
      BY <1>1, AboveIs
    <2>2. DOMAIN body = 1 .. Len(body) /\ Len(body) \in Nat
      BY BodyIs
    <2> QED  BY <2>1, <2>2
  <1> QED  BY <1>1, <1>2, AboveChild

LEMMA BlocksForIs ==
  ASSUME NEW body, IsBody(body), NEW n \in DOMAIN body, NEW rows \in SUBSET Nat,
         \A m \in Above(body)[n] : body[m].tag # "gm"
  PROVE  BlocksAre(body, rows, BlocksFor(body, n, rows), Under(body, n))
  <1> DEFINE N == Under(body, n)
             tag == body[n].tag
             bs == BlocksFor(body, n, rows)
  <1>1. Clear(body, N) /\ (tag # "gm" => Clear(body, N \ {n}))
    BY ClearUnder
  <1>2. N \subseteq Nat /\ N \ {n} \subseteq N
    BY UnderIs
  <1>3. tag # "text" => \A k \in Leaves(body, N) : k \in N \ {n}
    BY DEF Leaves
  <1>4. CASE tag = "text"
    <2> DEFINE g == Gives(<<Word(n)>>, FALSE, {})
    <2>1. bs = <<Block(FALSE, g)>>
      BY <1>4 DEF BlocksFor, Flows
    <2>2. n \in Nat /\ N = {n} /\ Leaves(body, N) = {n}
      BY <1>4, UnderLeaf
    <2>3. HasTexts(<<Word(n)>>, Leaves(body, N))
      <3> HIDE DEF N
      <3> QED  BY <2>2, OneText
    <2>4. <<Word(n)>> \in Seq(Words)
      BY <2>3 DEF HasTexts, Tidy
    <2>5. g \in AnyGives /\ g.words = <<Word(n)>> /\ g.consumed = {}
      BY <2>4, GivesWords
    <2>6. \A m \in N : body[m].tag # "gm"
      BY <1>4, <2>2
    <2> HIDE DEF g, N
    <2>7. GivesTexts(body, g, N)
      BY <2>3, <2>5, <2>6 DEF GivesTexts
    <2>8. BlocksAre(body, rows, <<Block(FALSE, g)>>, N)
      BY <1>1, <2>7, PublicBlocks
    <2> QED  BY <2>1, <2>8 DEF N
  <1>5. CASE tag \in {"h", "mark", "mention"}
    <2> DEFINE g == InlineChildren(body, n)
    <2>1. bs = <<Block(FALSE, g)>>
      BY <1>5 DEF BlocksFor, Flows
    <2>2. GivesTexts(body, g, N \ {n})
      BY InlineChildrenIs
    <2>3. tag # "gm" /\ tag # "text"
      BY <1>5
    <2> HIDE DEF g, N
    <2>4. BlocksAre(body, rows, <<Block(FALSE, g)>>, N \ {n})
      BY <1>1, <2>2, <2>3, PublicBlocks
    <2>5. BlocksAre(body, rows, <<Block(FALSE, g)>>, N)
      BY <1>2, <1>3, <2>3, <2>4, BlocksWider
    <2> QED  BY <2>1, <2>5 DEF N
  <1>6. CASE tag \in Flows
    <2>1. tag # "gm" /\ tag # "text" /\ tag \notin {"h", "mark", "mention"}
      BY <1>6 DEF Flows
    <2>2. bs = MixedBlocks(body, n, rows)
      BY <1>6, <2>1 DEF BlocksFor, Flows
    <2>3. BlocksAre(body, rows, bs, N \ {n})
      BY <2>1, <2>2, MixedIs
    <2> HIDE DEF bs, N
    <2>4. BlocksAre(body, rows, bs, N)
      BY <1>2, <1>3, <2>1, <2>3, BlocksWider
    <2> QED  BY <2>4 DEF bs, N
  <1>7. CASE tag = "ul"
    <2>1. bs = <<ListBlock(body, n)>>
      BY <1>7 DEF BlocksFor, Flows
    <2> QED  BY <1>7, <2>1, ListIs
  <1>8. CASE tag = "gm"
    <2>1. bs = <<Block(TRUE, SecretText(body, n, rows))>>
      BY <1>8 DEF BlocksFor, Flows
    <2> QED  BY <1>8, <2>1, SecretIs
  <1>9. CASE tag \notin {"text", "h", "mark", "mention", "ul", "gm"} /\ tag \notin Flows
    <2> DEFINE w == RenderNode(body)[n]
               g == Gives(w, TRUE, {})
    <2>1. bs = <<Block(FALSE, g)>>
      BY <1>9 DEF BlocksFor
    <2>2. HasTexts(w, Leaves(body, N))
      BY RenderIs
    <2> HIDE DEF w
    <2>3. w \in Seq(Words)
      BY <2>2 DEF HasTexts, Tidy
    <2>4. g \in AnyGives /\ g.words = w /\ g.consumed = {} /\ g.flagged = TRUE
      BY <2>3, GivesWords
    <2> HIDE DEF g, N
    <2>5. GivesTexts(body, g, N)
      BY <2>2, <2>4 DEF GivesTexts
    <2>6. BlocksAre(body, rows, <<Block(FALSE, g)>>, N)
      BY <2>4, <2>5, PublicBlocks
    <2> QED  BY <2>1, <2>6 DEF N
  <1> QED  BY <1>4, <1>5, <1>6, <1>7, <1>8, <1>9

LEMMA ConvertIs ==
  ASSUME NEW body, IsBody(body), NEW rows \in SUBSET Nat
  PROVE  BlocksAre(body, rows, ConvertHTML(body, rows), DOMAIN body \ {1})
  <1> DEFINE c == body[1].children
             bss == [i \in DOMAIN c |-> BlocksFor(body, c[i], rows)]
             NN == [i \in DOMAIN c |-> Under(body, c[i])]
             N == DOMAIN body \ {1}
  <1>1. 1 \in DOMAIN body /\ Len(c) \in Nat /\ DOMAIN c = 1 .. Len(c) /\ DOMAIN body \subseteq Nat
    BY BodyIs
  <1>2. \A i \in DOMAIN c : BlocksAre(body, rows, bss[i], NN[i])
    <2> SUFFICES ASSUME NEW i \in DOMAIN c PROVE BlocksAre(body, rows, BlocksFor(body, c[i], rows), Under(body, c[i]))
      OBVIOUS
    <2>1. c[i] \in DOMAIN body /\ \A m \in Above(body)[c[i]] : body[m].tag # "gm"
      BY TopIs
    <2> HIDE DEF c
    <2> QED  BY <2>1, BlocksForIs
  <1>3. /\ \A k : k \in Under(body, 1) <=> k = 1 \/ \E i \in DOMAIN c : k \in NN[i]
        /\ \A i \in DOMAIN c : 1 \notin NN[i]
        /\ \A k \in Under(body, 1) : k \in DOMAIN body
    BY <1>1, UnderIs
  <1>4. \A k \in DOMAIN body : k \in Under(body, 1)
    BY UnderFirst
  <1>5. \A x : x \in N <=> \E i \in DOMAIN c : x \in NN[i]
    BY <1>3, <1>4
  <1>6. \A i \in DOMAIN c : NN[i] \in SUBSET Nat
    <2>1. \A i \in DOMAIN c : \A x \in NN[i] : x \in DOMAIN body
      BY DEF Under
    <2> HIDE DEF NN
    <2> QED  BY <1>1, <2>1
  <1>7. \A i, j \in DOMAIN c : i < j => \A x \in NN[i] : x \notin NN[j]
    <2>1. \A i, j \in DOMAIN c : i # j => \A x \in NN[i] : x \notin NN[j]
      BY <1>1, UnderApart
    <2>2. \A i, j \in 1 .. Len(c) : i < j => i # j
      BY <1>1
    <2> QED  BY <1>1, <2>1, <2>2
  <1>8. DOMAIN bss = 1 .. Len(c) /\ bss = [i \in 1 .. Len(c) |-> bss[i]]
    BY <1>1
  <1>9. ConvertHTML(body, rows) = FlattenSeq(bss)
    BY DEF ConvertHTML
  <1> HIDE DEF bss, NN, N, c
  <1>10. BlocksAre(body, rows, FlattenSeq(bss), N)
    BY <1>1, <1>2, <1>5, <1>6, <1>7, <1>8, BlocksFlatten
  <1> QED  BY <1>9, <1>10 DEF N

LEMMA SetToSeqIs ==
  ASSUME NEW S, IsFiniteSet(S)
  PROVE  SetToSeq(S) \in Seq(S) /\ ToSet(SetToSeq(S)) = S
  <1> DEFINE n == Cardinality(S)
             f == SetToSeq(S)
  <1>1. n \in Nat /\ ExistsBijection(1 .. n, S)
    BY FS_CardinalityType
  <1>2. PICK g : g \in Bijection(1 .. n, S)
    BY <1>1 DEF ExistsBijection
  <1>3. g \in [1 .. n -> S] /\ IsInjective(g)
    BY <1>2 DEF Bijection, Injection
  <1>4. f \in [1 .. n -> S] /\ IsInjective(f)
    BY <1>3 DEF SetToSeq
  <1> HIDE DEF f
  <1>5. f \in Injection(1 .. n, S)
    BY <1>4 DEF Injection
  <1>6. IsFiniteSet(1 .. n) /\ Cardinality(1 .. n) = n
    <2>1. 1 \in Int /\ n \in Int
      BY <1>1
    <2>2. IsFiniteSet(1 .. n) /\ Cardinality(1 .. n) = IF 1 > n THEN 0 ELSE n - 1 + 1
      BY <2>1, FS_Interval
    <2> HIDE DEF n
    <2> QED  BY <1>1, <2>2
  <1>7. f \in Surjection(1 .. n, S)
    BY <1>5, <1>6, FS_Injection
  <1>8. \A x \in S : \E i \in 1 .. n : f[i] = x
    BY <1>7 DEF Surjection
  <1> HIDE DEF n
  <1>9. f \in Seq(S) /\ DOMAIN f = 1 .. n
    BY <1>1, <1>4
  <1>10. ToSet(f) = S
    BY <1>4, <1>8, <1>9 DEF ToSet
  <1> QED  BY <1>9, <1>10 DEF f

RowBlock(id) == Block(TRUE, Gives(<<Row(id)>>, FALSE, {}))

LEMMA RowBlockIs ==
  ASSUME NEW id \in Nat
  PROVE  LET b == RowBlock(id)
         IN b \in AnyBlock /\ b.secret = TRUE /\ ToSet(b.gives.words) = {Row(id)}
            /\ Tidy(b.gives.words) /\ b.gives.consumed = {}
  <1> DEFINE w == <<Row(id)>>
             g == Gives(w, FALSE, {})
             b == RowBlock(id)
  <1>1. Row(id) \in Words
    BY WordsAre
  <1>2. Tidy(w) /\ ToSet(w) = {Row(id)} /\ w \in Seq(Words)
    BY <1>1, TidyOne DEF Tidy
  <1> HIDE DEF w
  <1>3. g \in AnyGives /\ g.words = w /\ g.consumed = {}
    BY <1>2, GivesWords
  <1>4. b = Block(TRUE, g)
    BY DEF RowBlock, w
  <1> HIDE DEF g
  <1>5. b \in AnyBlock /\ b.secret = TRUE /\ b.gives = g
    <2> HIDE DEF b
    <2> QED  BY <1>3, <1>4 DEF Block, AnyBlock
  <1> QED  BY <1>2, <1>3, <1>5

\* The annotations that are left are secrets, each by itself.
LEMMA TrailingIs ==
  ASSUME NEW body, NEW rows \in SUBSET Nat, IsFiniteSet(rows), NEW consumed
  PROVE  /\ BlocksAre(body, rows, TrailingSecrets(rows, consumed), {})
         /\ \A id \in rows \ consumed : RowBlock(id) \in ToSet(TrailingSecrets(rows, consumed))
  <1> DEFINE R == rows \ consumed
             B == {RowBlock(id) : id \in R}
             t == SetToSeq(B)
             E == {}
  <1>1. TrailingSecrets(rows, consumed) = t
    BY DEF TrailingSecrets, RowBlock
  <1>2. \A id \in R :
           LET b == RowBlock(id)
           IN b \in AnyBlock /\ b.secret = TRUE /\ ToSet(b.gives.words) = {Row(id)}
              /\ Tidy(b.gives.words) /\ b.gives.consumed = {}
    BY RowBlockIs
  <1>3. IsFiniteSet(B)
    <2> DEFINE f == [id \in R |-> RowBlock(id)]
    <2>1. f \in Surjection(R, B)
      BY DEF Surjection
    <2>2. IsFiniteSet(R)
      BY FS_Subset
    <2> HIDE DEF f, B, R
    <2> QED  BY <2>1, <2>2, FS_Surjection
  <1>4. t \in Seq(B) /\ ToSet(t) = B
    <2> HIDE DEF B
    <2> QED  BY <1>3, SetToSeqIs
  <1>5. B \subseteq AnyBlock
    BY <1>2
  <1>6. t \in Seq(AnyBlock)
    <2> HIDE DEF t, B
    <2> QED  BY <1>4, <1>5
  <1>7. \A b \in B : BlockIs(body, rows, b, E)
    <2> SUFFICES ASSUME NEW id \in R PROVE BlockIs(body, rows, RowBlock(id), E)
      OBVIOUS
    <2> DEFINE b == RowBlock(id)
    <2>1. b \in AnyBlock /\ b.secret = TRUE /\ ToSet(b.gives.words) = {Row(id)}
          /\ Tidy(b.gives.words) /\ b.gives.consumed = {}
      BY <1>2
    <2>2. b.secret # FALSE /\ id \in rows
      BY <2>1
    <2> HIDE DEF b, E
    <2> QED  BY <2>1, <2>2 DEF BlockIs, b
  <1>8. \A b, c \in B : <<b, c>> \in ApartBlocks
    <2> SUFFICES ASSUME NEW id \in R, NEW jd \in R PROVE <<RowBlock(id), RowBlock(jd)>> \in ApartBlocks
      OBVIOUS
    <2>1. /\ RowBlock(id) \in AnyBlock /\ ToSet(RowBlock(id).gives.words) = {Row(id)}
          /\ RowBlock(jd) \in AnyBlock /\ ToSet(RowBlock(jd).gives.words) = {Row(jd)}
      BY <1>2
    <2>2. <<Row(id), Row(jd)>> \in Apart
      BY WordsAre
    <2>3. AreApart(RowBlock(id).gives.words, RowBlock(jd).gives.words)
      BY <2>1, <2>2 DEF AreApart
    <2> QED  BY <2>1, <2>3 DEF ApartBlocks
  <1>9. Sorted(t, ApartBlocks)
    <2>1. \A i \in DOMAIN t : t[i] \in B
      BY <1>4 DEF ToSet
    <2> HIDE DEF t, B
    <2> QED  BY <1>8, <2>1 DEF Sorted
  <1>10. Leaves(body, E) = {}
    BY DEF Leaves
  <1>11. BlocksAre(body, rows, t, E)
    <2> HIDE DEF t, B, E
    <2> QED  BY <1>4, <1>6, <1>7, <1>9, <1>10 DEF BlocksAre
  <1>12. \A id \in R : RowBlock(id) \in ToSet(t)
    <2>1. \A id \in R : RowBlock(id) \in B
      OBVIOUS
    <2> HIDE DEF t, B
    <2> QED  BY <1>4, <2>1
  <1> HIDE DEF t, E
  <1> QED  BY <1>1, <1>11, <1>12 DEF E

\* The texts of an entry: those of its nodes, and its annotations in secrets.
LEMMA EntryIs ==
  ASSUME NEW body, IsBody(body), NEW rows \in SUBSET Nat, IsFiniteSet(rows)
  PROVE  /\ BlocksAre(body, rows, ConvertEntry(body, rows), DOMAIN body \ {1})
         /\ \A id \in rows : \E b \in ToSet(ConvertEntry(body, rows)) :
               b.secret = TRUE /\ Row(id) \in ToSet(b.gives.words)
  <1> DEFINE bs == ConvertHTML(body, rows)
             used == UNION {bs[i].gives.consumed : i \in DOMAIN bs}
             t == TrailingSecrets(rows, used)
             N == DOMAIN body \ {1}
             E == {}
  <1>1. ConvertEntry(body, rows) = bs \o t
    BY DEF ConvertEntry
  <1>2. N \in SUBSET Nat /\ E \in SUBSET Nat /\ N \cup E = N /\ \A x \in N : x \notin E
    BY BodyIs
  <1>3. BlocksAre(body, rows, bs, N)
    BY ConvertIs
  <1>4. BlocksAre(body, rows, t, E) /\ \A id \in rows \ used : RowBlock(id) \in ToSet(t)
    BY TrailingIs
  <1>5. \A id \in used : \E b \in ToSet(bs) : id \in b.gives.consumed
    BY DEF ToSet
  <1> HIDE DEF bs, t, N, E, used
  <1>6. BlocksAre(body, rows, bs \o t, N)
    BY <1>2, <1>3, <1>4, BlocksConcat
  <1>7. ToSet(bs \o t) = ToSet(bs) \cup ToSet(t)
    <2>1. bs \in Seq(AnyBlock) /\ t \in Seq(AnyBlock)
      BY <1>3, <1>4 DEF BlocksAre
    <2> QED  BY <2>1, ConcatSet
  <1>8. ASSUME NEW id \in rows
        PROVE  \E b \in ToSet(bs \o t) : b.secret = TRUE /\ Row(id) \in ToSet(b.gives.words)
    <2>1. CASE id \in used
      <3>1. PICK b \in ToSet(bs) : id \in b.gives.consumed
        BY <1>5, <2>1
      <3>2. BlockIs(body, rows, b, N)
        BY <1>3 DEF BlocksAre
      <3>3. b.secret = TRUE /\ Row(id) \in ToSet(b.gives.words)
        BY <3>1, <3>2 DEF BlockIs
      <3> QED  BY <1>7, <3>3
    <2>2. CASE id \notin used
      <3> DEFINE b == RowBlock(id)
      <3>1. b \in ToSet(bs \o t)
        BY <1>4, <1>7, <2>2
      <3>2. b.secret = TRUE /\ ToSet(b.gives.words) = {Row(id)}
        BY RowBlockIs
      <3> HIDE DEF b
      <3> QED  BY <3>1, <3>2
    <2> QED  BY <2>1, <2>2
  <1> QED  BY <1>1, <1>6, <1>8 DEF N

LEMMA TextsAre ==
  ASSUME NEW body, NEW rows, NEW bs, NEW N, BlocksAre(body, rows, bs, N), NEW secret
  PROVE  /\ Tidy(TextsOf(bs, secret))
         /\ \A x : x \in ToSet(TextsOf(bs, secret)) <=>
                     \E b \in ToSet(bs) : b.secret = secret /\ x \in ToSet(b.gives.words)
  <1> DEFINE ww == [i \in DOMAIN bs |-> IF bs[i].secret = secret THEN bs[i].gives.words ELSE << >>]
  <1>1. bs \in Seq(AnyBlock) /\ Len(bs) \in Nat /\ DOMAIN bs = 1 .. Len(bs)
    BY DEF BlocksAre
  <1>2. \A i \in DOMAIN bs : Tidy(bs[i].gives.words) /\ bs[i] \in ToSet(bs)
    <2>1. \A i \in DOMAIN bs : bs[i] \in ToSet(bs)
      BY DEF ToSet
    <2> QED  BY <2>1 DEF BlocksAre, BlockIs
  <1>3. Tidy(<< >>) /\ ToSet(<< >>) = {}
    <2>1. Word(0) \in Words
      BY WordsAre
    <2> QED  BY <2>1, TidyOne
  <1>4. \A i \in DOMAIN bs : Tidy(ww[i]) /\ ToSet(ww[i]) \subseteq ToSet(bs[i].gives.words)
    BY <1>2, <1>3
  <1>5. ww \in Seq(Seq(Words)) /\ DOMAIN ww = DOMAIN bs
    <2>1. ww \in [1 .. Len(bs) -> Seq(Words)]
      BY <1>1, <1>4 DEF Tidy
    <2> HIDE DEF ww
    <2> QED  BY <1>1, <2>1
  <1>6. TextsOf(bs, secret) = FlattenSeq(ww)
    BY DEF TextsOf
  <1>7. \A i, j \in DOMAIN ww : i < j => \A x \in ToSet(ww[i]), y \in ToSet(ww[j]) : <<x, y>> \in Apart
    <2> SUFFICES ASSUME NEW i \in DOMAIN bs, NEW j \in DOMAIN bs, i < j,
                        NEW x \in ToSet(ww[i]), NEW y \in ToSet(ww[j])
                 PROVE  <<x, y>> \in Apart
      BY <1>5
    <2>1. <<bs[i], bs[j]>> \in ApartBlocks
      BY DEF BlocksAre, Sorted
    <2>2. AreApart(bs[i].gives.words, bs[j].gives.words)
      <3>1. <<bs[i], bs[j]>>[1] = bs[i] /\ <<bs[i], bs[j]>>[2] = bs[j]
        OBVIOUS
      <3> QED  BY <2>1, <3>1 DEF ApartBlocks
    <2> QED  BY <1>4, <2>2 DEF AreApart
  <1>8. \A x : (\E i \in DOMAIN bs : x \in ToSet(ww[i]))
               <=> \E b \in ToSet(bs) : b.secret = secret /\ x \in ToSet(b.gives.words)
    BY <1>2, <1>3 DEF ToSet
  <1> HIDE DEF ww
  <1>9. \A x : x \in ToSet(FlattenSeq(ww)) <=> \E i \in DOMAIN ww : x \in ToSet(ww[i])
    BY <1>5, FlattenElements
  <1>10. Tidy(FlattenSeq(ww))
    <2>1. FlattenSeq(ww) \in Seq(Words)
      BY <1>5, FlattenTyped
    <2>2. \A i \in DOMAIN ww : Sorted(ww[i], Apart)
      BY <1>4, <1>5 DEF Tidy
    <2>3. Sorted(FlattenSeq(ww), Apart)
      BY <1>5, <1>7, <2>2, FlattenSorted
    <2> QED  BY <2>1, <2>3 DEF Tidy
  <1> QED  BY <1>5, <1>6, <1>8, <1>9, <1>10

LEMMA PublicHidden ==
  ASSUME NEW body, NEW rows, NEW bs, NEW N, BlocksAre(body, rows, bs, N)
  PROVE  /\ Tidy(Public(bs)) /\ Tidy(Hidden(bs))
         /\ \A x : x \in ToSet(Public(bs)) <=>
                     \E b \in ToSet(bs) : b.secret = FALSE /\ x \in ToSet(b.gives.words)
         /\ \A x : x \in ToSet(Hidden(bs)) <=>
                     \E b \in ToSet(bs) : b.secret = TRUE /\ x \in ToSet(b.gives.words)
         /\ \A n \in Nat : ~(Word(n) \in ToSet(Public(bs)) /\ Word(n) \in ToSet(Hidden(bs)))
  <1>1. /\ Tidy(Public(bs))
        /\ \A x : x \in ToSet(Public(bs)) <=>
                     \E b \in ToSet(bs) : b.secret = FALSE /\ x \in ToSet(b.gives.words)
    <2>1. /\ Tidy(TextsOf(bs, FALSE))
          /\ \A x : x \in ToSet(TextsOf(bs, FALSE)) <=>
                       \E b \in ToSet(bs) : b.secret = FALSE /\ x \in ToSet(b.gives.words)
      BY TextsAre
    <2> QED  BY <2>1 DEF Public
  <1>2. /\ Tidy(Hidden(bs))
        /\ \A x : x \in ToSet(Hidden(bs)) <=>
                     \E b \in ToSet(bs) : b.secret = TRUE /\ x \in ToSet(b.gives.words)
    <2>1. /\ Tidy(TextsOf(bs, TRUE))
          /\ \A x : x \in ToSet(TextsOf(bs, TRUE)) <=>
                       \E b \in ToSet(bs) : b.secret = TRUE /\ x \in ToSet(b.gives.words)
      BY TextsAre
    <2> QED  BY <2>1 DEF Hidden
  <1>3. ASSUME NEW n \in Nat, Word(n) \in ToSet(Public(bs)), Word(n) \in ToSet(Hidden(bs))
        PROVE  FALSE
    <2>1. PICK b \in ToSet(bs) : b.secret = FALSE /\ Word(n) \in ToSet(b.gives.words)
      BY <1>1, <1>3
    <2>2. PICK c \in ToSet(bs) : c.secret = TRUE /\ Word(n) \in ToSet(c.gives.words)
      BY <1>2, <1>3
    <2>3. PICK i \in DOMAIN bs, j \in DOMAIN bs : b = bs[i] /\ c = bs[j]
      BY DEF ToSet
    <2>4. bs \in Seq(AnyBlock) /\ DOMAIN bs = 1 .. Len(bs) /\ Len(bs) \in Nat
      BY DEF BlocksAre
    <2>5. i # j
      BY <2>1, <2>2, <2>3
    <2>6. i < j \/ j < i
      BY <2>4, <2>5
    <2>7. <<bs[i], bs[j]>> \in ApartBlocks \/ <<bs[j], bs[i]>> \in ApartBlocks
      BY <2>6 DEF BlocksAre, Sorted
    <2>8. AreApart(b.gives.words, c.gives.words) \/ AreApart(c.gives.words, b.gives.words)
      <3>1. \A p, q : <<p, q>>[1] = p /\ <<p, q>>[2] = q
        OBVIOUS
      <3> QED  BY <2>3, <2>7, <3>1 DEF ApartBlocks
    <2>9. <<Word(n), Word(n)>> \in Apart
      BY <2>1, <2>2, <2>8 DEF AreApart
    <2> QED  BY <2>9, WordsAre
  <1> QED  BY <1>1, <1>2, <1>3

LEMMA EntryKept ==
  ASSUME NEW body, IsBody(body), NEW rows \in SUBSET (Nat \ {0}), IsFiniteSet(rows)
  PROVE  Keeps(ConvertEntry(body, rows), body, rows)
  <1> DEFINE bs == ConvertEntry(body, rows)
             leaves == {n \in DOMAIN body : body[n].tag = "text"}
             N == DOMAIN body \ {1}
             public == Public(bs)
             hidden == Hidden(bs)
  <1>0. rows \in SUBSET Nat
    OBVIOUS
  <1>1. BlocksAre(body, rows, bs, N)
    BY <1>0, EntryIs
  <1>2. \A id \in rows : \E b \in ToSet(bs) : b.secret = TRUE /\ Row(id) \in ToSet(b.gives.words)
    BY <1>0, EntryIs
  <1>3. \A n \in leaves : n \in Leaves(body, N) /\ n \in Nat
    BY BodyIs DEF Leaves
  <1> HIDE DEF bs, leaves, N
  <1>4. /\ Tidy(public) /\ Tidy(hidden)
        /\ \A x : x \in ToSet(public) <=> \E b \in ToSet(bs) : b.secret = FALSE /\ x \in ToSet(b.gives.words)
        /\ \A x : x \in ToSet(hidden) <=> \E b \in ToSet(bs) : b.secret = TRUE /\ x \in ToSet(b.gives.words)
        /\ \A n \in Nat : ~(Word(n) \in ToSet(public) /\ Word(n) \in ToSet(hidden))
    BY <1>1, PublicHidden
  <1> HIDE DEF public, hidden
  <1>5. \A b \in ToSet(bs) : BlockIs(body, rows, b, N)
    BY <1>1 DEF BlocksAre
  <1>6. ASSUME ~\E i \in DOMAIN bs : bs[i].gives.flagged,
               NEW n \in leaves, Marked(body, n), Word(n) \in ToSet(public)
        PROVE  FALSE
    <2>1. PICK b \in ToSet(bs) : b.secret = FALSE /\ Word(n) \in ToSet(b.gives.words)
      BY <1>4, <1>6
    <2>2. BlockIs(body, rows, b, N)
      BY <1>5
    <2>3. b.gives.flagged = FALSE
      <3>1. b.gives.flagged \in BOOLEAN
        BY <2>2 DEF BlockIs, AnyBlock, AnyGives
      <3>2. ~b.gives.flagged
        BY <1>6 DEF ToSet
      <3> QED  BY <3>1, <3>2
    <2> QED  BY <1>3, <1>6, <2>1, <2>2, <2>3 DEF BlockIs
  <1>7. ASSUME NEW id \in rows PROVE Row(id) \in ToSet(hidden) /\ Row(id) \notin ToSet(public)
    <2>1. Row(id) \in ToSet(hidden)
      BY <1>2, <1>4
    <2>2. ASSUME Row(id) \in ToSet(public) PROVE FALSE
      <3>1. PICK b \in ToSet(bs) : b.secret = FALSE /\ Row(id) \in ToSet(b.gives.words)
        BY <1>4, <2>2
      <3>2. b.secret # TRUE /\ BlockIs(body, rows, b, N)
        BY <1>5, <3>1
      <3>3. \E k \in Leaves(body, N) : Row(id) = Word(k)
        BY <3>1, <3>2 DEF BlockIs
      <3> QED  BY <3>3, WordsAre
    <2> QED  BY <2>1, <2>2
  <1>8. ASSUME NEW n \in leaves, ~Replaced(body, rows, n), ~Astray(body, n) PROVE Times(bs, Word(n)) = 1
    <2>1. n \in Nat /\ n \in Leaves(body, N)
      BY <1>3
    <2>2. PICK b \in ToSet(bs) : Word(n) \in ToSet(b.gives.words)
      BY <1>1, <1>8, <2>1 DEF BlocksAre
    <2>3. b.secret \in BOOLEAN
      BY <1>5 DEF BlockIs, AnyBlock
    <2>4. Word(n) \in ToSet(public) \/ Word(n) \in ToSet(hidden)
      BY <1>4, <2>2, <2>3
    <2>5. ~(Word(n) \in ToSet(public) /\ Word(n) \in ToSet(hidden))
      BY <1>4, <2>1
    <2>6. /\ Cardinality({i \in DOMAIN public : public[i] = Word(n)})
             = IF Word(n) \in ToSet(public) THEN 1 ELSE 0
          /\ Cardinality({i \in DOMAIN hidden : hidden[i] = Word(n)})
             = IF Word(n) \in ToSet(hidden) THEN 1 ELSE 0
      BY <1>4, <2>1, CountedOnce
    <2>7. Times(bs, Word(n)) = Cardinality({i \in DOMAIN public : public[i] = Word(n)})
                               + Cardinality({i \in DOMAIN hidden : hidden[i] = Word(n)})
      BY DEF Times, public, hidden
    <2> QED  BY <2>4, <2>5, <2>6, <2>7
  <1> QED  BY <1>6, <1>7, <1>8 DEF public, hidden, bs, leaves, Keeps

LEMMA SecretsKept ==
  ASSUME legacy \in Legacies
  PROVE  ConversionKeepsSecrets
  <1>1. ASSUME NEW e \in legacy
        PROVE  IsBody(e.body) /\ e.rows \in SUBSET (Nat \ {0}) /\ IsFiniteSet(e.rows)
    BY LegacyAssumption
  <1>2. ASSUME NEW e \in legacy
        PROVE  Keeps(ConvertEntry(e.body, e.rows), e.body, e.rows)
    BY <1>1, EntryKept
  <1> QED  BY <1>2 DEF ConversionKeepsSecrets

\* The conversion of a legacy body shows players nothing that was in a GM mark or an annotation,
\* unless a human is told to look, and loses and doubles no text.
THEOREM SecretsAreKept == LegacySpec => []ConversionKeepsSecrets
  <1>1. legacy \in Legacies => ConversionKeepsSecrets
    BY SecretsKept
  <1>2. LegacySpec => [](legacy \in Legacies)
    <2>1. legacy \in Legacies /\ [legacy' \in Legacies]_legacy => (legacy \in Legacies)'
      OBVIOUS
    <2> QED  BY <2>1, PTL DEF LegacySpec
  <1> QED  BY <1>1, <1>2, PTL
=============================================================================
