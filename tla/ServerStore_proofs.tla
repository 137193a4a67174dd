------------------------ MODULE ServerStore_proofs -------------------------
(***************************************************************************)
(* Proofs about the client registry, for every number of connections and   *)
(* names.  StoreInv is inductive; the properties of ServerStore follow.    *)
(***************************************************************************)
EXTENDS ServerStore, SequencesExt, SequenceTheorems, WellFoundedInduction, TLAPS

---------------------------------------------------------------------------
(* Lemmas of no particular component, which the other proofs use as well. *)

LEMMA SmallestOf ==
    ASSUME NEW S \in SUBSET Nat, S # {}
    PROVE  \E x \in S : \A y \in S : x <= y
<1> DEFINE R == OpToRel(<, Nat)
<1>1. IsWellFoundedOn(R, Nat)
  BY NatLessThanWellFounded
<1>2. \A x, y \in Nat : y < x => <<y, x>> \in R
  BY DEF OpToRel
<1> HIDE DEF R
<1>3. PICK x \in S : \A y \in S : ~ (<<y, x>> \in R)
  BY <1>1, WFMin
<1>4. \A y \in S : x <= y
  <2> SUFFICES ASSUME NEW y \in S PROVE x <= y
    OBVIOUS
  <2>1. x \in Nat /\ y \in Nat /\ ~ (<<y, x>> \in R)
    BY <1>3
  <2>. QED  BY <1>2, <2>1
<1>. QED  BY <1>4

\* Induction over 1 .. n, of a set.
LEMMA UpToInduction ==
    ASSUME NEW n \in Nat, NEW T, 1 <= n => 1 \in T, \A i \in 1 .. n - 1 : i \in T => i + 1 \in T
    PROVE  1 .. n \subseteq T
<1> SUFFICES ASSUME ~(1 .. n \subseteq T) PROVE FALSE
  OBVIOUS
<1> DEFINE S == 1 .. n \ T
<1>1. S \in SUBSET Nat /\ S # {}
  OBVIOUS
<1>2. PICK x \in S : \A y \in S : x <= y
  BY <1>1, SmallestOf
<1>3. x \in 1 .. n /\ x # 1
  BY <1>2
<1>4. x - 1 \in 1 .. n - 1 /\ x - 1 \notin S /\ x - 1 + 1 = x
  BY <1>2, <1>3
<1>. QED  BY <1>2, <1>4

\* What FlattenSeq puts together of the first m sequences of q.
FlattenStep(g, q, i) == IF i = 1 THEN q[i] ELSE g[i - 1] \o q[i]
Flattens(g, q, m) == \A i \in 1 .. m : g[i] = FlattenStep(g, q, i)

LEMMA FlattenExtends ==
    ASSUME NEW S, NEW q \in Seq(Seq(S)), NEW m \in 1 .. Len(q) - 1,
           NEW g \in [1 .. m -> Seq(S)], Flattens(g, q, m)
    PROVE  \E h \in [1 .. m + 1 -> Seq(S)] : Flattens(h, q, m + 1)
<1> DEFINE h == [i \in 1 .. m + 1 |-> IF i <= m THEN g[i] ELSE g[m] \o q[m + 1]]
<1>2. m \in Nat /\ m >= 1 /\ m + 1 \in DOMAIN q
  OBVIOUS
<1>3. g[m] \in Seq(S) /\ q[m + 1] \in Seq(S)
  BY <1>2
<1>4. g[m] \o q[m + 1] \in Seq(S)
  BY <1>3, ConcatProperties
<1>5. h \in [1 .. m + 1 -> Seq(S)]
  BY <1>2, <1>4
<1>6. ASSUME NEW i \in 1 .. m + 1 PROVE h[i] = FlattenStep(h, q, i)
  <2>1. CASE i <= m
    <3>1. i \in 1 .. m /\ h[i] = g[i]
      BY <1>2, <2>1
    <3>2. i # 1 => i - 1 \in 1 .. m + 1 /\ i - 1 <= m
      BY <1>2, <2>1
    <3>3. i # 1 => h[i - 1] = g[i - 1]
      BY <3>2
    <3>4. g[i] = FlattenStep(g, q, i)
      BY <3>1 DEF Flattens
    <3> HIDE DEF h
    <3>. QED  BY <3>1, <3>3, <3>4 DEF FlattenStep
  <2>2. CASE ~(i <= m)
    <3>1. i = m + 1 /\ i # 1 /\ i - 1 = m /\ m \in 1 .. m + 1
      BY <1>2, <2>2
    <3>2. h[i] = g[m] \o q[m + 1] /\ h[m] = g[m]
      BY <1>2, <3>1
    <3> HIDE DEF h
    <3>. QED  BY <3>1, <3>2 DEF FlattenStep
  <2>. QED  BY <2>1, <2>2
<1> HIDE DEF h
<1>. QED  BY <1>5, <1>6 DEF Flattens

\* FlattenSeq, of sequences of one set, is the last step.
LEMMA FlattenDefined ==
    ASSUME NEW S, NEW q \in Seq(Seq(S)), q # <<>>
    PROVE  \E f : Flattens(f, q, Len(q)) /\ FlattenSeq(q) = f[Len(q)]
<1> DEFINE n == Len(q)
           f == CHOOSE g : g = [i \in 1 .. n |-> IF i = 1 THEN q[i] ELSE g[i - 1] \o q[i]]
<1>1. n \in Nat /\ n # 0 /\ DOMAIN q = 1 .. n /\ \A i \in 1 .. n : q[i] \in Seq(S)
  OBVIOUS
<1>2. FlattenSeq(q) = f[n]
  BY <1>1 DEF FlattenSeq
<1> DEFINE T == {m \in 1 .. n : \E g \in [1 .. m -> Seq(S)] : Flattens(g, q, m)}
<1>3. 1 <= n => 1 \in T
  <2> DEFINE g == [i \in 1 .. 1 |-> q[1]]
  <2>1. g \in [1 .. 1 -> Seq(S)] /\ 1 \in 1 .. n
    BY <1>1
  <2>2. Flattens(g, q, 1)
    BY DEF Flattens, FlattenStep
  <2> HIDE DEF g
  <2>. QED  BY <2>1, <2>2
<1>4. ASSUME NEW m \in 1 .. n - 1, m \in T PROVE m + 1 \in T
  <2>1. m + 1 \in 1 .. n
    BY <1>1
  <2>2. PICK g \in [1 .. m -> Seq(S)] : Flattens(g, q, m)
    BY <1>4
  <2>3. \E h \in [1 .. m + 1 -> Seq(S)] : Flattens(h, q, m + 1)
    BY <1>4, <2>2, FlattenExtends
  <2>. QED  BY <2>1, <2>3
<1>5. n \in T
  <2> HIDE DEF T
  <2>1. 1 .. n \subseteq T
    BY <1>1, <1>3, <1>4, UpToInduction
  <2>. QED  BY <1>1, <2>1
<1> HIDE DEF n
<1>6. f = [i \in 1 .. n |-> IF i = 1 THEN q[i] ELSE f[i - 1] \o q[i]]
  <2>1. PICK g \in [1 .. n -> Seq(S)] : Flattens(g, q, n)
    BY <1>5
  <2>2. g = [i \in 1 .. n |-> IF i = 1 THEN q[i] ELSE g[i - 1] \o q[i]]
    BY <2>1 DEF Flattens, FlattenStep
  <2>. QED  BY <2>2, Zenon
<1> HIDE DEF f
<1>7. Flattens(f, q, n)
  BY <1>6 DEF Flattens, FlattenStep
<1>. QED  BY <1>2, <1>7 DEF n

LEMMA FlattenType ==
    ASSUME NEW S, NEW q \in Seq(Seq(S))
    PROVE  /\ FlattenSeq(q) \in Seq(S)
           /\ Len(q) = 1 => FlattenSeq(q) = q[1]
<1>1. CASE q = <<>>
  BY <1>1 DEF FlattenSeq
<1>2. CASE q # <<>>
  <2>1. PICK f : Flattens(f, q, Len(q)) /\ FlattenSeq(q) = f[Len(q)]
    BY <1>2, FlattenDefined
  <2> DEFINE n == Len(q)
             T == {i \in 1 .. n : f[i] \in Seq(S)}
  <2>2. n \in Nat /\ n # 0 /\ DOMAIN q = 1 .. n /\ \A i \in 1 .. n : q[i] \in Seq(S)
    BY <1>2
  <2>3. n \in 1 .. n /\ 1 \in 1 .. n
    BY <2>2
  <2>4. f[1] = q[1]
    BY <2>1, <2>3 DEF Flattens, FlattenStep
  <2>5. 1 <= n => 1 \in T
    BY <2>2, <2>3, <2>4
  <2>6. ASSUME NEW i \in 1 .. n - 1, i \in T PROVE i + 1 \in T
    <3>1. i + 1 \in 1 .. n /\ i + 1 # 1 /\ i + 1 - 1 = i
      BY <2>2
    <3>2. f[i + 1] = FlattenStep(f, q, i + 1)
      BY <2>1, <3>1 DEF Flattens
    <3>5. FlattenStep(f, q, i + 1) = f[i] \o q[i + 1]
      <4> DEFINE j == i + 1
      <4>1. j # 1 /\ j - 1 = i
        BY <3>1
      <4> HIDE DEF j
      <4>2. FlattenStep(f, q, j) = f[i] \o q[j]
        BY <4>1, Zenon DEF FlattenStep
      <4>. QED  BY <4>2 DEF j
    <3>3. f[i] \in Seq(S) /\ q[i + 1] \in Seq(S)
      BY <2>2, <2>6, <3>1
    <3>4. f[i] \o q[i + 1] \in Seq(S)
      BY <3>3, ConcatProperties
    <3>. QED  BY <3>1, <3>2, <3>4, <3>5
  <2> HIDE DEF T
  <2>7. 1 .. n \subseteq T
    BY <2>2, <2>5, <2>6, UpToInduction
  <2>. QED  BY <2>1, <2>3, <2>4, <2>7 DEF T
<1>. QED  BY <1>1, <1>2

LEMMA FlattenUnique ==
    ASSUME NEW q, NEW n \in Nat, NEW f, NEW g, Flattens(f, q, n), Flattens(g, q, n)
    PROVE  \A i \in 1 .. n : f[i] = g[i]
<1> DEFINE T == {i \in 1 .. n : f[i] = g[i]}
<1>1. 1 <= n => 1 \in T
  BY DEF Flattens, FlattenStep
<1>2. ASSUME NEW i \in 1 .. n - 1, i \in T PROVE i + 1 \in T
  <2>1. i + 1 \in 1 .. n /\ i + 1 # 1 /\ i + 1 - 1 = i
    OBVIOUS
  <2>2. f[i + 1] = FlattenStep(f, q, i + 1) /\ g[i + 1] = FlattenStep(g, q, i + 1)
    BY <2>1 DEF Flattens
  <2>3. FlattenStep(f, q, i + 1) = f[i] \o q[i + 1] /\ FlattenStep(g, q, i + 1) = g[i] \o q[i + 1]
    <3> DEFINE j == i + 1
    <3>1. j # 1 /\ j - 1 = i
      BY <2>1
    <3> HIDE DEF j
    <3>2. FlattenStep(f, q, j) = f[i] \o q[j] /\ FlattenStep(g, q, j) = g[i] \o q[j]
      BY <3>1, Zenon DEF FlattenStep
    <3>. QED  BY <3>2 DEF j
  <2>4. f[i] = g[i]
    BY <1>2
  <2>. QED  BY <2>1, <2>2, <2>3, <2>4
<1> HIDE DEF T
<1>3. 1 .. n \subseteq T
  BY <1>1, <1>2, UpToInduction
<1>. QED  BY <1>3 DEF T

LEMMA FlattenAppend ==
    ASSUME NEW S, NEW q \in Seq(Seq(S)), NEW x \in Seq(S)
    PROVE  FlattenSeq(Append(q, x)) = FlattenSeq(q) \o x
<1> DEFINE n == Len(q)
           p == Append(q, x)
<1>1. n \in Nat /\ p \in Seq(Seq(S)) /\ Len(p) = n + 1 /\ p[n + 1] = x
      /\ \A i \in 1 .. n : p[i] = q[i]
  BY AppendProperties
<1>2. p # <<>>
  BY <1>1, EmptySeq
<1> HIDE DEF p
<1>3. PICK f : Flattens(f, p, n + 1) /\ FlattenSeq(p) = f[n + 1]
  BY <1>1, <1>2, FlattenDefined
<1>4. n + 1 \in 1 .. n + 1
  BY <1>1
<1>5. f[n + 1] = FlattenStep(f, p, n + 1)
  BY <1>3, <1>4 DEF Flattens
<1>6. CASE q = <<>>
  <2>1. FlattenSeq(q) = <<>>
    BY <1>6 DEF FlattenSeq
  <2>2. n + 1 = 1
    BY <1>6
  <2>3. f[n + 1] = p[n + 1]
    BY <1>5, <2>2 DEF FlattenStep
  <2>4. <<>> \o x = x
    BY ConcatEmptySeq
  <2>. QED  BY <1>1, <1>3, <2>1, <2>3, <2>4 DEF p
<1>7. CASE q # <<>>
  <2>1. PICK g : Flattens(g, q, n) /\ FlattenSeq(q) = g[n]
    BY <1>7, FlattenDefined
  <2>2. n + 1 # 1 /\ n + 1 \in Nat /\ n \in 1 .. n
    BY <1>7, <1>1
  <2>3. Flattens(f, q, n)
    <3> SUFFICES ASSUME NEW i \in 1 .. n PROVE f[i] = FlattenStep(f, q, i)
      BY DEF Flattens
    <3>1. i \in 1 .. n + 1 /\ p[i] = q[i]
      BY <1>1
    <3>2. f[i] = FlattenStep(f, p, i)
      BY <1>3, <3>1 DEF Flattens
    <3>. QED  BY <3>1, <3>2 DEF FlattenStep
  <2>4. f[n] = g[n]
    BY <1>1, <2>1, <2>2, <2>3, FlattenUnique
  <2>5. FlattenStep(f, p, n + 1) = f[n] \o p[n + 1]
    <3> DEFINE j == n + 1
    <3>1. j - 1 = n /\ j # 1
      BY <1>1, <2>2
    <3> HIDE DEF j
    <3>2. FlattenStep(f, p, j) = f[n] \o p[j]
      BY <3>1, Zenon DEF FlattenStep
    <3>. QED  BY <3>2 DEF j
  <2>. QED  BY <1>1, <1>3, <1>5, <2>1, <2>4, <2>5 DEF p
<1>. QED  BY <1>6, <1>7

LEMMA FlattenHead ==
    ASSUME NEW S, NEW q \in Seq(Seq(S)), q # <<>>
    PROVE  FlattenSeq(q) = Head(q) \o FlattenSeq(Tail(q))
<1>0. \A u, v, w \in Seq(S) : (u \o v) \o w = u \o (v \o w)
  <2> SUFFICES ASSUME NEW u \in Seq(S), NEW v \in Seq(S), NEW w \in Seq(S)
               PROVE  (u \o v) \o w = u \o (v \o w)
    OBVIOUS
  <2>. QED  BY ConcatAssociative, SMTT(60)
<1> DEFINE t == Tail(q)
           n == Len(t)
<1>1. /\ t \in Seq(Seq(S)) /\ n \in Nat /\ Len(q) = n + 1 /\ Head(q) = q[1] /\ q[1] \in Seq(S)
      /\ \A i \in 1 .. n : t[i] = q[i + 1] /\ t[i] \in Seq(S)
  OBVIOUS
<1>2. PICK f : Flattens(f, q, n + 1) /\ FlattenSeq(q) = f[n + 1]
  BY <1>1, FlattenDefined
<1>3. 1 \in 1 .. n + 1
  BY <1>1
<1>4. f[1] = q[1]
  BY <1>2, <1>3 DEF Flattens, FlattenStep
<1> HIDE DEF t
<1>5. CASE t = <<>>
  <2>1. n = 0 /\ n + 1 = 1
    BY <1>5
  <2>2. FlattenSeq(t) = <<>>
    BY <1>5 DEF FlattenSeq
  <2>3. q[1] \o <<>> = q[1]
    BY <1>1, ConcatEmptySeq
  <2>. QED  BY <1>1, <1>2, <1>4, <2>1, <2>2, <2>3 DEF t
<1>6. CASE t # <<>>
  <2>1. PICK g : Flattens(g, t, n) /\ FlattenSeq(t) = g[n]
    BY <1>1, <1>6, FlattenDefined
  <2>2. n \in 1 .. n /\ 1 \in 1 .. n
    BY <1>1, <1>6
  <2> DEFINE T == {i \in 1 .. n : g[i] \in Seq(S) /\ f[i + 1] = q[1] \o g[i]}
  <2>3. 1 \in T
    <3>1. g[1] = t[1]
      BY <2>1, <2>2 DEF Flattens, FlattenStep
    <3>2. PICK i \in 1 .. n : i = 1
      BY <2>2
    <3>3. PICK j \in 1 .. n + 1 : j = i + 1
      BY <1>1
    <3>4. i \in Nat /\ j \in Nat /\ j # 1
      BY <1>1, <3>2, <3>3
    <3>5. f[j] = FlattenStep(f, q, j)
      BY <1>2 DEF Flattens
    <3>6. FlattenStep(f, q, j) = f[i] \o q[j]
      <4>1. j - 1 = i /\ j # 1
        BY <3>3, <3>4
      <4>. QED  BY <4>1, Zenon DEF FlattenStep
    <3>7. t[i] = q[j] /\ t[i] \in Seq(S)
      BY <1>1, <3>3
    <3>8. g[i] \in Seq(S) /\ f[i + 1] = q[1] \o g[i]
      BY <1>4, <3>1, <3>2, <3>3, <3>5, <3>6, <3>7
    <3>. QED  BY <2>2, <3>2, <3>8
  <2>4. ASSUME NEW i \in 1 .. n - 1, i \in T PROVE i + 1 \in T
    <3>1. PICK j \in 1 .. n : j = i + 1
      BY <1>1
    <3>2. PICK k \in 1 .. n + 1 : k = j + 1
      BY <1>1
    <3>9. g[i] \in Seq(S) /\ f[i + 1] = q[1] \o g[i]
      BY <2>4
    <3>3. i \in Nat /\ j \in Nat /\ k \in Nat /\ j # 1 /\ k # 1 /\ g[i] \in Seq(S) /\ f[j] = q[1] \o g[i]
      <4>1. i \in Nat /\ j \in Nat /\ k \in Nat /\ j # 1 /\ k # 1
        BY <1>1, <3>1, <3>2
      <4>. QED  BY <3>1, <3>9, <4>1, Zenon
    <3>4. g[j] = g[i] \o t[j]
      <4>1. g[j] = FlattenStep(g, t, j)
        BY <2>1 DEF Flattens
      <4>2. j - 1 = i /\ j # 1
        BY <3>1, <3>3
      <4>. QED  BY <4>1, <4>2, Zenon DEF FlattenStep
    <3>5. f[k] = f[j] \o q[k]
      <4>1. f[k] = FlattenStep(f, q, k)
        BY <1>2 DEF Flattens
      <4>2. k - 1 = j /\ k # 1
        BY <3>2, <3>3
      <4>. QED  BY <4>1, <4>2, Zenon DEF FlattenStep
    <3>6. t[j] = q[k] /\ t[j] \in Seq(S)
      BY <1>1, <3>2
    <3>7. (q[1] \o g[i]) \o t[j] = q[1] \o (g[i] \o t[j]) /\ g[i] \o t[j] \in Seq(S)
      <4> DEFINE a == q[1]
                 b == g[i]
                 c == t[j]
      <4>1. a \in Seq(S) /\ b \in Seq(S) /\ c \in Seq(S)
        BY <1>1, <3>3, <3>6
      <4> HIDE DEF a, b, c
      <4>2. (a \o b) \o c = a \o (b \o c)
        BY <4>1, <1>0, Zenon
      <4>3. b \o c \in Seq(S)
        BY <4>1, ConcatProperties
      <4>. QED  BY <4>2, <4>3 DEF a, b, c
    <3>8. g[j] \in Seq(S) /\ f[j + 1] = q[1] \o g[j]
      BY <3>2, <3>3, <3>4, <3>5, <3>6, <3>7
    <3>. QED  BY <3>1, <3>8
  <2> HIDE DEF T
  <2>5. 1 .. n \subseteq T
    BY <1>1, <2>3, <2>4, UpToInduction
  <2>6. f[n + 1] = q[1] \o g[n]
    BY <2>2, <2>5 DEF T
  <2>. QED  BY <1>1, <1>2, <2>1, <2>6 DEF t
<1>. QED  BY <1>5, <1>6

LEMMA FlattenEmpty ==
    ASSUME NEW S, NEW q \in Seq(Seq(S)), \A i \in DOMAIN q : q[i] = <<>>
    PROVE  FlattenSeq(q) = <<>>
<1>1. CASE q = <<>>
  BY <1>1 DEF FlattenSeq
<1>2. CASE q # <<>>
  <2>1. PICK f : Flattens(f, q, Len(q)) /\ FlattenSeq(q) = f[Len(q)]
    BY <1>2, FlattenDefined
  <2> DEFINE n == Len(q)
             T == {i \in 1 .. n : f[i] = <<>>}
  <2>2. n \in Nat /\ n \in 1 .. n /\ 1 \in 1 .. n /\ DOMAIN q = 1 .. n
    BY <1>2
  <2>3. 1 \in T
    BY <2>1, <2>2 DEF Flattens, FlattenStep
  <2>4. ASSUME NEW i \in 1 .. n - 1, i \in T PROVE i + 1 \in T
    <3>1. PICK j \in 1 .. n : j = i + 1
      BY <2>2
    <3>6. i \in Nat /\ j \in Nat /\ j # 1
      BY <2>2, <3>1
    <3>2. f[j] = FlattenStep(f, q, j)
      BY <2>1 DEF Flattens
    <3>3. FlattenStep(f, q, j) = f[i] \o q[j]
      <4>1. j - 1 = i /\ j # 1
        BY <3>1, <3>6
      <4>. QED  BY <4>1, Zenon DEF FlattenStep
    <3>4. f[i] = <<>> /\ q[j] = <<>>
      BY <2>2, <2>4
    <3>5. <<>> \o <<>> = <<>>
      OBVIOUS
    <3>. QED  BY <3>1, <3>2, <3>3, <3>4, <3>5
  <2> HIDE DEF T
  <2>5. 1 .. n \subseteq T
    BY <2>2, <2>3, <2>4, UpToInduction
  <2>. QED  BY <2>1, <2>2, <2>5 DEF T
<1>. QED  BY <1>1, <1>2

---------------------------------------------------------------------------
(* The registry *)


LEMMA InitStoreInv == StoreInit => StoreInv
BY NoNameAssumption DEF StoreInit, StoreInv, StoreTypeOK, IdsBelowLast, IdsShared,
   Filed, EntryUnderOwnId, Reachable, NoUnnamedLeftBehind, ForEach, MName

LEMMA newClientInv ==
    ASSUME NEW c \in Conn, StoreInv, newClient(c)
    PROVE  StoreInv'
<1> USE DEF StoreInv, newClient, MemberData
<1>1. StoreTypeOK'
  BY DEF StoreTypeOK
<1>2. IdsBelowLast'
  BY DEF StoreTypeOK, IdsBelowLast
<1>3. IdsShared'
  BY DEF StoreTypeOK, IdsBelowLast, IdsShared
<1>4. Filed'
  BY DEF StoreTypeOK, IdsBelowLast, Filed
<1>5. EntryUnderOwnId'
  BY DEF StoreTypeOK, IdsBelowLast, Filed, EntryUnderOwnId
<1>6. Reachable'
  BY DEF StoreTypeOK, IdsBelowLast, Reachable, ForEach
<1>7. NoUnnamedLeftBehind'
  BY DEF StoreTypeOK, NoUnnamedLeftBehind
<1>. QED  BY <1>1, <1>2, <1>3, <1>4, <1>5, <1>6, <1>7

LEMMA registerClientInv ==
    ASSUME NEW c \in Conn, NEW n \in MName, NEW id \in AssignableId(c, n),
           StoreInv, registerClient(c, n, id)
    PROVE  StoreInv'
<1> USE DEF StoreInv, registerClient, initClientId
<1>0. /\ id \in Nat /\ id # 0
      /\ id <= last_member_id
      /\ \/ /\ id = member_id[c]
            /\ n # NoName => \A i \in DOMAIN clients_by_id : name[clients_by_id[i]] # n
         \/ n # NoName /\ id \in DOMAIN clients_by_id /\ name[clients_by_id[id]] = n
  BY DEF AssignableId, SameName, StoreTypeOK, IdsBelowLast, Filed, EntryUnderOwnId
<1>1. StoreTypeOK'
  BY <1>0 DEF StoreTypeOK
<1>2. IdsBelowLast'
  BY <1>0 DEF StoreTypeOK, IdsBelowLast
<1>a. /\ c \in clients /\ ~sync_init[c] /\ name[c] = NoName /\ member_id[c] # 0
      /\ \A d \in Conn : member_id[c] = member_id[d] => c = d
  BY DEF StoreTypeOK, IdsBelowLast, IdsShared
\* whoever already has the id that c gets is initialised and has the name n
<1>b. \A d \in Conn \ {c} : member_id[d] = id =>
         sync_init[d] /\ name[d] = n /\ n # NoName
  <2>1. SUFFICES ASSUME NEW d \in Conn \ {c}, member_id[d] = id
                 PROVE  sync_init[d] /\ name[d] = n /\ n # NoName
    OBVIOUS
  <2> DEFINE e == clients_by_id[id]
  <2>3. n # NoName /\ id \in DOMAIN clients_by_id /\ name[e] = n
    BY <1>0, <1>a, <2>1
  <2>4. e \in Conn /\ sync_init[e] /\ member_id[e] = id
    BY <2>3 DEF StoreTypeOK, Filed, EntryUnderOwnId
  <2>5. sync_init[d]
    BY <1>0, <2>1, <2>4 DEF IdsShared
  <2>. QED  BY <2>1, <2>3, <2>4, <2>5 DEF IdsShared
<1>c. /\ member_id'[c] = id /\ name'[c] = n /\ sync_init'[c]
      /\ \A d \in Conn \ {c} : /\ member_id'[d] = member_id[d]
                               /\ name'[d] = name[d]
                               /\ sync_init'[d] = sync_init[d]
      /\ DOMAIN clients_by_id' = DOMAIN clients_by_id \cup {id}
      /\ clients_by_id'[id] = c
      /\ \A i \in DOMAIN clients_by_id \ {id} :
            clients_by_id'[i] = clients_by_id[i] /\ clients_by_id[i] \in Conn \ {c}
  BY <1>a DEF StoreTypeOK, Filed
<1>3. IdsShared'
  <2>1. ASSUME NEW x \in Conn, NEW y \in Conn, ~sync_init'[x],
               member_id'[x] # 0, member_id'[x] = member_id'[y]
        PROVE x = y
    BY <1>b, <1>c, <2>1 DEF IdsShared
  <2>2. ASSUME NEW x \in Conn, NEW y \in Conn, sync_init'[x], sync_init'[y],
               member_id'[x] = member_id'[y]
        PROVE name'[x] = name'[y] /\ (name'[x] = NoName => x = y)
    BY <1>b, <1>c, <2>2 DEF IdsShared
  <2>. QED  BY <2>1, <2>2 DEF IdsShared
<1>4. Filed'
  BY <1>0 DEF StoreTypeOK, IdsBelowLast, Filed
<1>5. EntryUnderOwnId'
  <2>1. ASSUME NEW i \in DOMAIN clients_by_id' PROVE member_id'[clients_by_id'[i]] = i
    BY <1>c, <2>1 DEF EntryUnderOwnId
  <2>2. ASSUME NEW i \in DOMAIN clients_by_id \ {id}, name[clients_by_id[i]] = n,
               n # NoName
        PROVE FALSE
    BY <1>0, <2>2 DEF EntryUnderOwnId
  <2>3. ASSUME NEW i \in DOMAIN clients_by_id', NEW j \in DOMAIN clients_by_id',
               name'[clients_by_id'[i]] # NoName,
               name'[clients_by_id'[i]] = name'[clients_by_id'[j]]
        PROVE i = j
    BY <1>c, <2>2, <2>3 DEF EntryUnderOwnId
  <2>. QED  BY <2>1, <2>3 DEF EntryUnderOwnId
<1>6. Reachable'
  <2>1. SUFFICES ASSUME NEW d \in clients', sync_init'[d]
                 PROVE  /\ member_id'[d] \in DOMAIN clients_by_id'
                        /\ name'[clients_by_id'[member_id'[d]]] = name'[d]
                        /\ name'[d] = NoName => clients_by_id'[member_id'[d]] = d
    BY DEF Reachable, ForEach
  <2>2. d \in Conn
    BY <2>1 DEF StoreTypeOK
  <2>3. CASE d = c
    BY <1>c, <2>3
  <2>4. CASE d # c
    <3>1. /\ member_id[d] \in DOMAIN clients_by_id
          /\ name[clients_by_id[member_id[d]]] = name[d]
          /\ name[d] = NoName => clients_by_id[member_id[d]] = d
      BY <1>c, <2>1, <2>2, <2>4 DEF Reachable, ForEach
    <3>. QED  BY <1>b, <1>c, <2>2, <2>4, <3>1
  <2>. QED  BY <2>3, <2>4
<1>7. NoUnnamedLeftBehind'
  BY <1>0 DEF StoreTypeOK, NoUnnamedLeftBehind, EntryUnderOwnId, Filed
<1>. QED  BY <1>1, <1>2, <1>3, <1>4, <1>5, <1>6, <1>7

LEMMA removeClientInv ==
    ASSUME NEW c \in Conn, StoreInv, removeClient(c)
    PROVE  StoreInv'
<1> USE DEF StoreInv, removeClient
<1>1. StoreTypeOK'
  BY DEF StoreTypeOK
<1>2. IdsBelowLast'
  BY DEF IdsBelowLast
<1>3. IdsShared'
  BY DEF IdsShared
<1>4. Filed'
  BY DEF StoreTypeOK, IdsBelowLast, IdsShared, Filed
<1>5. EntryUnderOwnId'
  BY DEF StoreTypeOK, EntryUnderOwnId
<1>6. Reachable'
  BY DEF StoreTypeOK, IdsBelowLast, IdsShared, EntryUnderOwnId, Reachable, ForEach
<1>7. NoUnnamedLeftBehind'
  BY DEF StoreTypeOK, IdsShared, Filed, EntryUnderOwnId, NoUnnamedLeftBehind
<1>. QED  BY <1>1, <1>2, <1>3, <1>4, <1>5, <1>6, <1>7

LEMMA NextStoreInv == StoreInv /\ [StoreNext]_storeVars => StoreInv'
<1> SUFFICES ASSUME StoreInv, [StoreNext]_storeVars PROVE StoreInv'
  OBVIOUS
<1>1. CASE UNCHANGED storeVars
  BY <1>1 DEF StoreInv, storeVars, StoreTypeOK, IdsBelowLast, IdsShared, Filed,
     EntryUnderOwnId, Reachable, NoUnnamedLeftBehind, ForEach
<1>2. CASE StoreNext
  BY <1>2, newClientInv, registerClientInv, removeClientInv DEF StoreNext
<1>. QED  BY <1>1, <1>2

\* The registry is consistent in every reachable state.
THEOREM RegistryConsistent == StoreSpec => []StoreInv
BY InitStoreInv, NextStoreInv, PTL DEF StoreSpec

\* Entries are filed under their own id and no name twice (EntryUnderOwnId).
THEOREM EntriesUnderOwnId == StoreSpec => []EntryUnderOwnId
<1>1. StoreInv => EntryUnderOwnId
  BY DEF StoreInv
<1>. QED  BY <1>1, RegistryConsistent, PTL

\* A message addressed to an initialised member by id reaches it or, when it has
\* a name, a member of that name (Reachable).
THEOREM MembersReachable == StoreSpec => []Reachable
<1>1. StoreInv => Reachable
  BY DEF StoreInv
<1>. QED  BY <1>1, RegistryConsistent, PTL

\* Unnamed members leave nothing behind (NoUnnamedLeftBehind).
THEOREM UnnamedForgotten == StoreSpec => []NoUnnamedLeftBehind
<1>1. StoreInv => NoUnnamedLeftBehind
  BY DEF StoreInv
<1>. QED  BY <1>1, RegistryConsistent, PTL

\* A named entry survives every step of the registry under the same id and name.
LEMMA NamedEntryKept ==
    ASSUME StoreInv, [StoreNext]_storeVars,
           NEW i \in DOMAIN clients_by_id, name[clients_by_id[i]] # NoName
    PROVE  /\ i \in DOMAIN clients_by_id'
           /\ name'[clients_by_id'[i]] = name[clients_by_id[i]]
<1> DEFINE Kept == /\ i \in DOMAIN clients_by_id'
                   /\ name'[clients_by_id'[i]] = name[clients_by_id[i]]
<1>1. CASE UNCHANGED storeVars
  BY <1>1 DEF storeVars
<1>2. ASSUME NEW c \in Conn, newClient(c) PROVE Kept
  BY <1>2 DEF newClient, MemberData, StoreInv, StoreTypeOK
<1>3. ASSUME NEW c \in Conn, NEW n \in MName, NEW id \in AssignableId(c, n),
             registerClient(c, n, id)
      PROVE Kept
  <2>1. c \in Conn /\ ~sync_init[c] /\ name[c] = NoName /\ member_id[c] # 0
    BY <1>3 DEF registerClient, StoreInv, StoreTypeOK, IdsBelowLast
  <2>2. clients_by_id[i] \in Conn /\ clients_by_id[i] # c
    BY <2>1 DEF StoreInv, StoreTypeOK
  <2>3. CASE i # id
    BY <1>3, <2>2, <2>3 DEF registerClient, initClientId, StoreInv, StoreTypeOK
  <2>4. CASE i = id
    <3>1. id # member_id[c]
      BY <2>1, <2>2, <2>4 DEF StoreInv, IdsShared, EntryUnderOwnId
    <3>2. n # NoName /\ name[clients_by_id[id]] = n
      BY <1>3, <3>1 DEF AssignableId, SameName
    <3>. QED  BY <1>3, <2>1, <2>4, <3>2
         DEF registerClient, initClientId, StoreInv, StoreTypeOK
  <2>. QED  BY <2>3, <2>4
<1>4. ASSUME NEW c \in Conn, removeClient(c) PROVE Kept
  BY <1>4 DEF removeClient, StoreInv, StoreTypeOK, EntryUnderOwnId,
              IdsShared, IdsBelowLast, Filed
<1>. QED  BY <1>1, <1>2, <1>3, <1>4 DEF StoreNext

\* A name keeps its id forever (IdIsForever).
THEOREM NamesKeepIds == StoreSpec => IdIsForever
<1> DEFINE Keep == \A i \in DOMAIN clients_by_id :
                       name[clients_by_id[i]] # NoName =>
                          /\ i \in DOMAIN clients_by_id'
                          /\ name'[clients_by_id'[i]] = name[clients_by_id[i]]
<1>1. ASSUME StoreInv, [StoreNext]_storeVars PROVE [Keep]_storeVars
  BY <1>1, NamedEntryKept
<1>. QED  BY <1>1, RegistryConsistent, PTL DEF StoreSpec, IdIsForever

----------------------------------------------------------------------------
(* The entry of a name.                                                    *)

LEMMA EntryFound ==
    ASSUME StoreInv, NEW n \in Name, NEW i \in DOMAIN clients_by_id, name[clients_by_id[i]] = n
    PROVE  FoundName(n) = {i} /\ EntryOf(n) = clients_by_id[i]
<1>1. n # NoName
  BY NoNameAssumption
<1>2. \A j \in FoundName(n) : j = i
  BY <1>1 DEF FoundName, SameName, StoreInv, EntryUnderOwnId
<1>3. i \in FoundName(n)
  BY DEF FoundName, SameName, StoreInv, Filed
<1>4. FoundName(n) = {i}
  BY <1>2, <1>3
<1>. QED  BY <1>4 DEF EntryOf

LEMMA EntryFoundAlways ==
    ASSUME NEW n \in Name, NEW i
    PROVE  LET Entry == StoreInv /\ i \in DOMAIN clients_by_id /\ name[clients_by_id[i]] = n =>
                            FoundName(n) = {i} /\ EntryOf(n) = clients_by_id[i]
           IN  Entry /\ Entry'
<1> DEFINE Entry == StoreInv /\ i \in DOMAIN clients_by_id /\ name[clients_by_id[i]] = n =>
                            FoundName(n) = {i} /\ EntryOf(n) = clients_by_id[i]
<1>1. Entry
  BY EntryFound
<1>2. Entry'
  BY <1>1, PTL
<1>. QED  BY <1>1, <1>2

LEMMA FoundEntry ==
    ASSUME StoreInv, NEW n \in Name, FoundName(n) # {}
    PROVE  /\ EntryOf(n) \in Conn /\ sync_init[EntryOf(n)] /\ name[EntryOf(n)] = n
           /\ member_id[EntryOf(n)] \in DOMAIN clients_by_id
           /\ clients_by_id[member_id[EntryOf(n)]] = EntryOf(n)
<1>1. PICK i \in DOMAIN clients_by_id : name[clients_by_id[i]] = n /\ sync_init[clients_by_id[i]]
  BY DEF FoundName, SameName
<1>2. EntryOf(n) = clients_by_id[i]
  BY <1>1, EntryFound
<1>3. clients_by_id[i] \in Conn /\ member_id[clients_by_id[i]] = i
  BY DEF StoreInv, StoreTypeOK, EntryUnderOwnId
<1>. QED  BY <1>1, <1>2, <1>3

LEMMA SameEntry ==
    ASSUME UNCHANGED <<clients_by_id, name, sync_init>>, NEW n
    PROVE  FoundName(n)' = FoundName(n) /\ EntryOf(n)' = EntryOf(n)
BY DEF FoundName, SameName, EntryOf

LEMMA RemovedEntry ==
    ASSUME StoreInv, StoreInv', NEW c \in Conn, removeClient(c), NEW n \in Name
    PROVE  /\ FoundName(n)' = FoundName(n)
           /\ FoundName(n) # {} => EntryOf(n)' = EntryOf(n)
<1>0. n # NoName
  BY NoNameAssumption
<1>1. ASSUME FoundName(n) # {} PROVE FoundName(n)' = FoundName(n) /\ EntryOf(n)' = EntryOf(n)
  <2>1. PICK i \in DOMAIN clients_by_id : name[clients_by_id[i]] = n
    BY <1>1 DEF FoundName, SameName
  <2>2. i \in DOMAIN clients_by_id' /\ clients_by_id'[i] = clients_by_id[i]
    BY <1>0, <2>1 DEF removeClient, StoreInv, StoreTypeOK, EntryUnderOwnId, IdsShared, Filed
  <2>3. FoundName(n) = {i} /\ EntryOf(n) = clients_by_id[i]
    BY <2>1, EntryFound
  <2>4. name'[clients_by_id'[i]] = n
    BY <2>1, <2>2 DEF removeClient
  <2>5. (FoundName(n) = {i} /\ EntryOf(n) = clients_by_id[i])'
    BY <2>2, <2>4, EntryFoundAlways
  <2>. QED  BY <2>2, <2>3, <2>5
<1>2. ASSUME FoundName(n) = {} PROVE FoundName(n)' = {}
  BY <1>2 DEF FoundName, SameName, removeClient, StoreInv, StoreTypeOK
<1>. QED  BY <1>1, <1>2

\* The sync_init handler files the new member under its name, and nothing else.
LEMMA RegisteredEntry ==
    ASSUME StoreInv, StoreInv', NEW c \in Conn, NEW m \in MName, NEW id \in AssignableId(c, m),
           registerClient(c, m, id), NEW n \in Name
    PROVE  /\ n = m => FoundName(n)' # {} /\ EntryOf(n)' = c
           /\ n # m => FoundName(n)' = FoundName(n)
           /\ n # m /\ FoundName(n) # {} => EntryOf(n)' = EntryOf(n) /\ EntryOf(n) # c
<1>0. n # NoName
  BY NoNameAssumption
<1>1. /\ c \in Conn /\ id \in DOMAIN clients_by_id' /\ clients_by_id'[id] = c
      /\ \A i \in DOMAIN clients_by_id \ {id} : i \in DOMAIN clients_by_id' /\ clients_by_id'[i] = clients_by_id[i]
      /\ DOMAIN clients_by_id' = DOMAIN clients_by_id \cup {id}
      /\ name'[c] = m /\ sync_init'[c]
      /\ \A d \in Conn \ {c} : name'[d] = name[d] /\ sync_init'[d] = sync_init[d]
      /\ ~sync_init[c] /\ name[c] = NoName
      /\ \A i \in DOMAIN clients_by_id : clients_by_id[i] \in Conn /\ clients_by_id[i] # c
  BY DEF registerClient, initClientId, StoreInv, StoreTypeOK, Filed, IdsBelowLast
<1>2. ASSUME n = m PROVE FoundName(n)' # {} /\ EntryOf(n)' = c
  BY <1>1, <1>2, EntryFoundAlways
<1>3. ASSUME n # m PROVE id \in DOMAIN clients_by_id => name[clients_by_id[id]] # n
  <2>1. CASE m # NoName /\ SameName(m) # {}
    BY <1>3, <2>1 DEF AssignableId, SameName
  <2>2. CASE ~(m # NoName /\ SameName(m) # {})
    <3>1. id = member_id[c]
      BY <2>2 DEF AssignableId
    <3>2. member_id[c] # 0
      BY DEF registerClient, StoreInv, IdsBelowLast
    <3>. QED  BY <1>1, <3>1, <3>2 DEF StoreInv, StoreTypeOK, EntryUnderOwnId, IdsShared
  <2>. QED  BY <2>1, <2>2
<1>4. ASSUME n # m PROVE FoundName(n)' = FoundName(n)
  <2>1. \A i : i \in FoundName(n) => i \in FoundName(n)'
    BY <1>1, <1>3, <1>4 DEF FoundName, SameName
  <2>2. \A i : i \in FoundName(n)' => i \in FoundName(n)
    BY <1>1, <1>3, <1>4 DEF FoundName, SameName
  <2>. QED  BY <2>1, <2>2
<1>5. ASSUME n # m, FoundName(n) # {} PROVE EntryOf(n)' = EntryOf(n) /\ EntryOf(n) # c
  <2>1. PICK i \in DOMAIN clients_by_id : name[clients_by_id[i]] = n
    BY <1>5 DEF FoundName, SameName
  <2>2. i # id
    BY <1>3, <1>5, <2>1
  <2>3. i \in DOMAIN clients_by_id' /\ name'[clients_by_id'[i]] = n
    BY <1>1, <2>1, <2>2
  <2>4. EntryOf(n)' = clients_by_id'[i] /\ EntryOf(n) = clients_by_id[i]
    BY <2>1, <2>3, EntryFoundAlways
  <2>. QED  BY <1>1, <2>1, <2>2, <2>4
<1>. QED  BY <1>2, <1>4, <1>5
============================================================================
