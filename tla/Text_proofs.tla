------------------------------ MODULE Text_proofs ------------------------------
(***************************************************************************)
(* The two algorithms on text, for texts, files and edits of any length.   *)
(***************************************************************************)
EXTENDS Redaction, EditScript, FiniteSetTheorems, SequenceTheorems, TLAPS

(***************************************************************************)
(* Induction over the naturals, for sets: a nonempty set of them has a     *)
(* least element, and a set that has 0 and all successors has them all.    *)
(***************************************************************************)
LEMMA LeastExists ==
    ASSUME NEW T \in SUBSET Nat, T # {}
    PROVE  \E n \in T : \A m \in T : n <= m
<1> DEFINE R == {ss \in Nat \X Nat : ss[1] < ss[2]}
<1>1. IsWellFoundedOn(R, Nat)
  BY NatLessThanWellFounded DEF OpToRel
<1>2. ASSUME NEW n \in Nat, NEW m \in Nat, m < n
      PROVE  <<m, n>> \in R
  <2> DEFINE mn == <<m, n>>
  <2>1. mn \in Nat \X Nat /\ mn[1] = m /\ mn[2] = n
    OBVIOUS
  <2> QED
    BY <1>2, <2>1
<1> HIDE DEF R
<1>3. PICK n \in T : \A m \in T : <<m, n>> \notin R
  BY <1>1, WFMin
<1>4. ASSUME NEW m \in T
      PROVE  n <= m
  <2>1. n \in Nat /\ m \in Nat /\ <<m, n>> \notin R
    BY <1>3
  <2>2. ~(m < n)
    BY <1>2, <2>1
  <2> QED
    BY <2>1, <2>2
<1> QED
  BY <1>4

(* Induction with a set for the claim: 0 is in it, and with n also n + 1. *)
LEMMA SetInduction ==
    ASSUME NEW T, 0 \in T, \A n \in Nat : n \in T => n + 1 \in T
    PROVE  Nat \subseteq T
<1> SUFFICES ASSUME Nat \ T # {} PROVE FALSE
  OBVIOUS
<1>1. PICK n \in Nat \ T : \A m \in Nat \ T : n <= m
  BY LeastExists
<1>2. n - 1 \in Nat /\ n - 1 \notin Nat \ T
  BY <1>1
<1> QED
  BY <1>1, <1>2

(* What Min and Max choose. *)
LEMMA MinIsLeast ==
    ASSUME NEW T \in SUBSET Nat, T # {}
    PROVE  Min(T) \in T /\ \A m \in T : Min(T) <= m
BY LeastExists DEF Min

(* A nonempty bounded set of numbers has a greatest member, and Max is it. *)
LEMMA MaxIsGreatest ==
    ASSUME NEW T \in SUBSET Nat, T # {}, NEW b \in Nat, \A m \in T : m <= b
    PROVE  Max(T) \in T /\ \A m \in T : m <= Max(T)
<1> DEFINE U == {n \in Nat : b - n \in T}
<1>1. U \in SUBSET Nat /\ U # {}
  <2>1. PICK m \in T : TRUE
    OBVIOUS
  <2>2. b - m \in Nat /\ b - (b - m) = m
    BY <2>1
  <2> QED
    BY <2>1, <2>2
<1>2. PICK u \in U : \A v \in U : u <= v
  BY <1>1, LeastExists
<1>3. ASSUME NEW m \in T
      PROVE  m <= b - u
  <2>1. b - m \in Nat /\ b - (b - m) = m
    OBVIOUS
  <2>2. u <= b - m
    BY <1>2, <2>1
  <2> QED
    BY <1>2, <2>2
<1>4. b - u \in T
  BY <1>2
<1> QED
  BY <1>3, <1>4 DEF Max

-----------------------------------------------------------------------------
(***************************************************************************)
(* FlattenSeq, part by part: SequencesExt defines it by the concatenations *)
(* of the first 1, 2, ... parts.                                           *)
(***************************************************************************)
Concatenations(f, s) ==
    f = [i \in 1..Len(s) |-> IF i = 1 THEN s[i] ELSE f[i - 1] \o s[i]]

(* A function of the concatenations of the first 1, 2, ... parts exists. *)
LEMMA ConcatenationsExist ==
    ASSUME NEW S, NEW s \in Seq(Seq(S))
    PROVE  \E f \in [1..Len(s) -> Seq(S)] : Concatenations(f, s)
<1> DEFINE n == Len(s)
           Upto(m, f) == \A i \in 1..m : f[i] = IF i = 1 THEN s[i] ELSE f[i - 1] \o s[i]
           Good(m) == m <= n => \E f \in [1..m -> Seq(S)] : Upto(m, f)
           T == {m \in Nat : Good(m)}
<1>0. n \in Nat /\ \A i \in 1..n : s[i] \in Seq(S)
  OBVIOUS
<1>1. Good(0)
  <2>1. [i \in 1..0 |-> <<>>] \in [1..0 -> Seq(S)] /\ 1..0 = {}
    OBVIOUS
  <2> QED
    BY <2>1
<1>2. ASSUME NEW m \in Nat, Good(m)
      PROVE  Good(m + 1)
  <2> SUFFICES ASSUME m + 1 <= n
               PROVE  \E f \in [1..m + 1 -> Seq(S)] : Upto(m + 1, f)
    OBVIOUS
  <2>0. m <= n
    BY <1>0
  <2>1. PICK f \in [1..m -> Seq(S)] : Upto(m, f)
    BY <1>2, <2>0
  <2> DEFINE x == IF m = 0 THEN s[1] ELSE f[m] \o s[m + 1]
             g == [i \in 1..m + 1 |-> IF i = m + 1 THEN x ELSE f[i]]
  <2>2. s[m + 1] \in Seq(S) /\ s[1] \in Seq(S)
    BY <1>0
  <2>3. x \in Seq(S)
    BY <2>2, ConcatProperties
  <2> HIDE DEF x
  <2>4. g \in [1..m + 1 -> Seq(S)]
    BY <2>3
  <2>5. \A i \in 1..m : g[i] = f[i]
    OBVIOUS
  <2>6. g[m + 1] = x
    OBVIOUS
  <2> HIDE DEF g
  <2>7. Upto(m + 1, g)
    <3> SUFFICES ASSUME NEW i \in 1..m + 1
                 PROVE  g[i] = IF i = 1 THEN s[i] ELSE g[i - 1] \o s[i]
      OBVIOUS
    <3>1. CASE i = m + 1
      <4>1. CASE m = 0
        BY <2>6, <3>1, <4>1 DEF x
      <4>2. CASE m # 0
        <5>1. g[m] = f[m]
          BY <2>5, <4>2
        <5>2. i - 1 = m /\ i # 1
          BY <3>1, <4>2
        <5> QED
          BY <2>6, <3>1, <4>2, <5>1, <5>2 DEF x
      <4> QED
        BY <4>1, <4>2
    <3>2. CASE i # m + 1
      <4>1. i \in 1..m /\ (i # 1 => i - 1 \in 1..m)
        BY <3>2
      <4> QED
        BY <2>1, <2>5, <4>1
    <3> QED
      BY <3>1, <3>2
  <2> QED
    BY <2>4, <2>7
<1> HIDE DEF Good
<1>3. 0 \in T /\ \A m \in Nat : m \in T => m + 1 \in T
  BY <1>1, <1>2
<1> HIDE DEF T
<1>4. n \in T
  BY <1>0, <1>3, SetInduction
<1>5. Good(n)
  BY <1>4 DEF T
<1>6. PICK f \in [1..n -> Seq(S)] : Upto(n, f)
  BY <1>0, <1>5 DEF Good
<1>7. f = [i \in 1..n |-> IF i = 1 THEN s[i] ELSE f[i - 1] \o s[i]]
  BY <1>6
<1> QED
  BY <1>7 DEF Concatenations

(* Lists that begin alike have the same concatenations so far. *)
LEMMA ConcatenationsAgree ==
    ASSUME NEW s, NEW t, Len(s) \in Nat, Len(t) \in Nat, NEW f, NEW g,
           Concatenations(f, s), Concatenations(g, t),
           NEW n \in Nat, n <= Len(s), n <= Len(t), \A i \in 1..n : s[i] = t[i]
    PROVE  \A i \in 1..n : f[i] = g[i]
<1> DEFINE Good(m) == m \in 1..n => f[m] = g[m]
           T == {m \in Nat : Good(m)}
<1>0. /\ \A i \in 1..n : f[i] = IF i = 1 THEN s[i] ELSE f[i - 1] \o s[i]
      /\ \A i \in 1..n : g[i] = IF i = 1 THEN t[i] ELSE g[i - 1] \o t[i]
  <2>1. 1..n \subseteq 1..Len(s) /\ 1..n \subseteq 1..Len(t)
    OBVIOUS
  <2>2. \A i \in 1..Len(s) : f[i] = IF i = 1 THEN s[i] ELSE f[i - 1] \o s[i]
    BY DEF Concatenations
  <2>3. \A i \in 1..Len(t) : g[i] = IF i = 1 THEN t[i] ELSE g[i - 1] \o t[i]
    BY DEF Concatenations
  <2> QED
    BY <2>1, <2>2, <2>3
<1>1. Good(0)
  OBVIOUS
<1>2. ASSUME NEW m \in Nat, Good(m)
      PROVE  Good(m + 1)
  <2> SUFFICES ASSUME m + 1 \in 1..n PROVE f[m + 1] = g[m + 1]
    OBVIOUS
  <2>1. CASE m = 0
    BY <1>0, <2>1
  <2>2. CASE m # 0
    <3>1. m \in 1..n /\ (m + 1) - 1 = m /\ m + 1 # 1
      BY <2>2
    <3>2. f[m] = g[m] /\ s[m + 1] = t[m + 1]
      BY <1>2, <3>1
    <3> QED
      BY <1>0, <3>1, <3>2
  <2> QED
    BY <2>1, <2>2
<1> HIDE DEF Good
<1>3. 0 \in T /\ \A m \in Nat : m \in T => m + 1 \in T
  BY <1>1, <1>2
<1> HIDE DEF T
<1>4. Nat \subseteq T
  BY <1>3, SetInduction
<1>5. \A m \in Nat : Good(m)
  BY <1>4 DEF T
<1> QED
  BY <1>5 DEF Good

(* FlattenSeq is the last of the concatenations. *)
LEMMA FlattenIsLast ==
    ASSUME NEW S, NEW s \in Seq(Seq(S)), Len(s) # 0
    PROVE  \E f \in [1..Len(s) -> Seq(S)] :
               Concatenations(f, s) /\ FlattenSeq(s) = f[Len(s)]
<1> DEFINE g == CHOOSE f : Concatenations(f, s)
<1>1. FlattenSeq(s) = g[Len(s)]
  BY DEF FlattenSeq, Concatenations
<1>2. PICK f \in [1..Len(s) -> Seq(S)] : Concatenations(f, s)
  BY ConcatenationsExist
<1>3. Concatenations(g, s)
  BY <1>2
<1> HIDE DEF g
<1>4. Len(s) \in Nat
  OBVIOUS
<1>5. \A i \in 1..Len(s) : f[i] = g[i]
  BY <1>2, <1>3, <1>4, ConcatenationsAgree
<1>6. f[Len(s)] = g[Len(s)]
  BY <1>4, <1>5
<1> QED
  BY <1>1, <1>2, <1>6

(* Nothing concatenated is nothing. *)
LEMMA FlattenEmpty == FlattenSeq(<<>>) = <<>>
BY DEF FlattenSeq

(* One part more extends the concatenation by that part. *)
LEMMA ConcatenationsExtend ==
    ASSUME NEW s, NEW t, Len(s) \in Nat, Len(t) = Len(s) + 1, NEW f, NEW g,
           Concatenations(f, s), Concatenations(g, t), \A i \in 1..Len(s) : s[i] = t[i]
    PROVE  g[Len(t)] = IF Len(s) = 0 THEN t[Len(t)] ELSE f[Len(s)] \o t[Len(t)]
<1>1. \A i \in 1..Len(t) : g[i] = IF i = 1 THEN t[i] ELSE g[i - 1] \o t[i]
  BY DEF Concatenations
<1>2. \A i \in 1..Len(s) : f[i] = g[i]
  BY ConcatenationsAgree
<1>3. Len(t) \in 1..Len(t) /\ Len(t) - 1 = Len(s) /\ (Len(s) = 0 <=> Len(t) = 1)
  OBVIOUS
<1>4. Len(s) # 0 => f[Len(s)] = g[Len(s)]
  BY <1>2
<1> QED
  BY <1>1, <1>3, <1>4

(* FlattenSeq of a list with one part more. *)
LEMMA FlattenAppend ==
    ASSUME NEW S, NEW s \in Seq(Seq(S)), NEW x \in Seq(S)
    PROVE  /\ FlattenSeq(s) \in Seq(S)
           /\ FlattenSeq(Append(s, x)) = FlattenSeq(s) \o x
<1> DEFINE n == Len(s)
           t == Append(s, x)
<1>1. /\ n \in Nat /\ t \in Seq(Seq(S)) /\ Len(t) = n + 1 /\ t[n + 1] = x
      /\ \A i \in 1..n : s[i] = t[i]
  OBVIOUS
<1> HIDE DEF t
<1>2. PICK g \in [1..n + 1 -> Seq(S)] : Concatenations(g, t) /\ FlattenSeq(t) = g[n + 1]
  BY <1>1, FlattenIsLast
<1>4. CASE n = 0
  <2>1. PICK f : Concatenations(f, s)
    BY ConcatenationsExist
  <2>2. g[n + 1] = x
    BY <1>1, <1>2, <1>4, <2>1, ConcatenationsExtend
  <2>3. s = <<>>
    BY <1>4
  <2> QED
    BY <1>2, <2>2, <2>3, FlattenEmpty, ConcatEmptySeq, EmptySeq DEF t
<1>5. CASE n # 0
  <2>1. PICK f : /\ Concatenations(f, s) /\ FlattenSeq(s) = f[n]
                 /\ f \in [1..n -> Seq(S)]
    BY <1>5, FlattenIsLast
  <2>2. Concatenations(f, s)
    BY <2>1
  <2>3. g[n + 1] = f[n] \o x
    <3>1. /\ Len(s) \in Nat /\ Len(t) = Len(s) + 1 /\ Len(s) # 0
          /\ Concatenations(g, t) /\ \A i \in 1..Len(s) : s[i] = t[i]
      BY <1>1, <1>2, <1>5
    <3>2. g[Len(t)] = f[Len(s)] \o t[Len(t)]
      BY <2>2, <3>1, ConcatenationsExtend, Zenon
    <3> QED
      BY <1>1, <3>2, Zenon
  <2>4. f[n] \in Seq(S)
    BY <1>1, <1>5, <2>1
  <2> QED
    BY <1>2, <2>1, <2>3, <2>4 DEF t
<1> QED
  BY <1>4, <1>5
(* The concatenation of the first n parts. *)
Flat(P, n) == FlattenSeq(SubSeq(P, 1, n))

(* No parts give no text. *)
LEMMA FlatZero == ASSUME NEW P PROVE Flat(P, 0) = <<>>
<1>1. SubSeq(P, 1, 0) = <<>>
  BY SubSeqEmpty
<1> QED
  BY <1>1, FlattenEmpty DEF Flat

(* The first parts of a list of texts make a text. *)
LEMMA FlatType ==
    ASSUME NEW S, NEW P \in Seq(Seq(S)), NEW n \in 0..Len(P)
    PROVE  Flat(P, n) \in Seq(S)
<1>1. SubSeq(P, 1, n) \in Seq(Seq(S)) /\ <<>> \in Seq(S)
  BY SubSeqProperties
<1> QED
  BY <1>1, FlattenAppend DEF Flat

(* One part more of the same list. *)
LEMMA FlatStep ==
    ASSUME NEW S, NEW P \in Seq(Seq(S)), NEW n \in 0..Len(P) - 1
    PROVE  Flat(P, n + 1) = Flat(P, n) \o P[n + 1]
<1>1. /\ Len(P) \in Nat /\ n + 1 \in 1..Len(P) /\ P[n + 1] \in Seq(S)
      /\ (n + 1) - 1 = n
  OBVIOUS
<1>2. SubSeq(P, 1, n) \in Seq(Seq(S))
  BY SubSeqProperties
<1>3. SubSeq(P, 1, n + 1) = Append(SubSeq(P, 1, n), P[n + 1])
  OBVIOUS
<1> QED
  BY <1>1, <1>2, <1>3, FlattenAppend DEF Flat

(* All the parts give FlattenSeq. *)
LEMMA FlatAll ==
    ASSUME NEW S, NEW P \in Seq(Seq(S))
    PROVE  Flat(P, Len(P)) = FlattenSeq(P)
BY SubSeqFull DEF Flat

(* Parts that are empty, and parts that are the symbols of a text. *)
LEMMA FlatSkips ==
    ASSUME NEW S, NEW P \in Seq(Seq(S)), NEW a \in 0..Len(P), NEW b \in a..Len(P),
           \A p \in a + 1..b : P[p] = <<>>
    PROVE  Flat(P, b) = Flat(P, a)
<1> DEFINE Good(n) == n \in a..b => Flat(P, n) = Flat(P, a)
           T == {n \in Nat : Good(n)}
<1>0. Len(P) \in Nat /\ a \in Nat /\ b \in Nat /\ a <= b
  OBVIOUS
<1>1. ASSUME a # 0
      PROVE  Good(0)
  BY <1>0, <1>1
<1>2. Good(a)
  OBVIOUS
<1>3. ASSUME NEW n \in Nat, Good(n), n + 1 # a
      PROVE  Good(n + 1)
  <2> SUFFICES ASSUME n + 1 \in a..b PROVE Flat(P, n + 1) = Flat(P, a)
    OBVIOUS
  <2>1. n \in 0..Len(P) - 1 /\ n \in 0..Len(P) /\ n \in a..b /\ n + 1 \in a + 1..b
    BY <1>0, <1>3
  <2>2. Flat(P, n + 1) = Flat(P, n) \o P[n + 1]
    BY <2>1, FlatStep
  <2>3. P[n + 1] = <<>>
    BY <2>1
  <2>4. Flat(P, n) \in Seq(S)
    BY <2>1, FlatType
  <2> QED
    BY <1>3, <2>1, <2>2, <2>3, <2>4, ConcatEmptySeq
<1>4. Good(0)
  <2>1. CASE a = 0
    BY <1>2, <2>1
  <2> QED
    BY <1>1, <2>1
<1>5. ASSUME NEW n \in Nat, Good(n)
      PROVE  Good(n + 1)
  <2>1. CASE n + 1 = a
    BY <1>2, <2>1
  <2> QED
    BY <1>3, <1>5, <2>1
<1> HIDE DEF Good
<1>6. 0 \in T /\ \A n \in Nat : n \in T => n + 1 \in T
  BY <1>4, <1>5
<1> HIDE DEF T
<1>7. Nat \subseteq T
  BY <1>6, SetInduction
<1>8. Good(b) /\ b \in a..b
  BY <1>0, <1>7 DEF T
<1> QED
  BY <1>8, Zenon DEF Good

Cat(u, v) == u \o v

(* Concatenation is associative. *)
LEMMA OneMore ==
    ASSUME NEW S, NEW u \in Seq(S), NEW v \in Seq(S), NEW w \in Seq(S)
    PROVE  Cat(Cat(u, v), w) = Cat(u, Cat(v, w))
BY ConcatAssociative, SMTT(40) DEF Cat

Copied(P, t, a, b) == \A p \in a + 1..b : P[p] = <<t[p]>>

(* A stretch in which each part is its own symbol comes out as it stands. *)
LEMMA FlatCopies ==
    ASSUME NEW S, NEW P \in Seq(Seq(S)), NEW t \in Seq(S), Len(t) = Len(P),
           NEW a \in 0..Len(P), NEW b \in a..Len(P), Copied(P, t, a, b)
    PROVE  Flat(P, b) = Flat(P, a) \o SubSeq(t, a + 1, b)
<1> DEFINE Good(n) == n \in a..b => Flat(P, n) = Flat(P, a) \o SubSeq(t, a + 1, n)
           T == {n \in Nat : Good(n)}
<1>0. Len(P) \in Nat /\ a \in Nat /\ b \in Nat /\ a <= b
  OBVIOUS
<1>1. ASSUME a # 0
      PROVE  Good(0)
  BY <1>0, <1>1
<1>2. Good(a)
  <2>1. SubSeq(t, a + 1, a) = <<>>
    BY <1>0, SubSeqEmpty
  <2>2. Flat(P, a) \in Seq(S)
    BY FlatType
  <2> QED
    BY <2>1, <2>2, ConcatEmptySeq
<1>3. ASSUME NEW n \in Nat, Good(n), n + 1 # a
      PROVE  Good(n + 1)
  <2> SUFFICES ASSUME n + 1 \in a..b
               PROVE  Flat(P, n + 1) = Flat(P, a) \o SubSeq(t, a + 1, n + 1)
    OBVIOUS
  <2>1. /\ n \in 0..Len(P) - 1 /\ n \in 0..Len(P) /\ n \in a..b /\ n + 1 \in a + 1..b
        /\ a + 1 \in 1..Len(t) /\ n + 1 \in a + 1..Len(t) /\ (n + 1) - 1 = n
        /\ a + 1 \in Int
    BY <1>0, <1>3
  <2>2. Flat(P, n + 1) = Flat(P, n) \o P[n + 1]
    BY <2>1, FlatStep
  <2>3. P[n + 1] = <<t[n + 1]>> /\ P[n + 1] \in Seq(S)
    BY <1>0, <2>1 DEF Copied
  <2>4. Flat(P, n) = Flat(P, a) \o SubSeq(t, a + 1, n)
    BY <1>3, <2>1
  <2>5. SubSeq(t, a + 1, n + 1) = SubSeq(t, a + 1, n) \o <<t[n + 1]>>
    BY <2>1, SubSeqRecursiveSecond
  <2>6. SubSeq(t, a + 1, n + 1) = SubSeq(t, a + 1, n) \o P[n + 1]
    BY <2>3, <2>5, Zenon
  <2>7. Flat(P, a) \in Seq(S)
    BY FlatType, Zenon
  <2>8. SubSeq(t, a + 1, n) \in Seq(S)
    <3>1. \A i \in a + 1..n : t[i] \in S
      BY <1>0, <2>1
    <3>2. a + 1 \in Int /\ n \in Int
      BY <2>1
    <3> QED
      BY <3>1, <3>2, SubSeqProperties, Zenon
  <2> DEFINE u == Flat(P, a)
             v == SubSeq(t, a + 1, n)
             w == P[n + 1]
             f == Flat(P, n)
             g == Flat(P, n + 1)
             h == SubSeq(t, a + 1, n + 1)
  <2>9. /\ u \in Seq(S) /\ v \in Seq(S) /\ w \in Seq(S)
        /\ f = Cat(u, v) /\ g = Cat(f, w) /\ h = Cat(v, w)
    BY <2>2, <2>3, <2>4, <2>6, <2>7, <2>8, Zenon DEF Cat
  <2> HIDE DEF u, v, w, f, g, h
  <2>10. Cat(Cat(u, v), w) = Cat(u, Cat(v, w))
    BY <2>9, OneMore, SMT
  <2>11. g = Cat(u, h)
    BY <2>9, <2>10, Zenon
  <2> QED
    BY <2>11, Zenon DEF u, g, h, Cat
<1>4. Good(0)
  <2>1. CASE a = 0
    BY <1>2, <2>1
  <2> QED
    BY <1>1, <2>1
<1>5. ASSUME NEW n \in Nat, Good(n)
      PROVE  Good(n + 1)
  <2>1. CASE n + 1 = a
    BY <1>2, <2>1
  <2> QED
    BY <1>3, <1>5, <2>1
<1> HIDE DEF Good
<1>6. 0 \in T /\ \A n \in Nat : n \in T => n + 1 \in T
  BY <1>4, <1>5
<1> HIDE DEF T
<1>7. Nat \subseteq T
  BY <1>6, SetInduction
<1>8. Good(b) /\ b \in a..b
  BY <1>0, <1>7 DEF T
<1> QED
  BY <1>8, Zenon DEF Good

-----------------------------------------------------------------------------
(***************************************************************************)
(* The state of sanitizeForModel.                                          *)
(***************************************************************************)
Token == Symbol \cup {Blob, Comment}

Passes == {"comments", "uris", "blocks", "span"}

RedactionTypeOK ==
    /\ step \in Passes
    /\ issue \in Seq(Symbol) /\ text \in Seq(Token) /\ out \in Seq(Token)
    /\ pos \in 1..Len(text) + 1
    /\ end \in Nat /\ j \in Nat
    /\ redacted \in Nat

(* Within a span, what has been looked at. *)
SpanInv ==
    step = "span" =>
        /\ pos < j \/ At(j, Base64)
        /\ pos <= end /\ end <= j /\ j <= Len(text) + 1
        /\ \A p \in pos..j - 1 : text[p] \in Base64 \cup {"space"}

(* Where the loop over spaces stops: on no space, and all before it were. *)
LEMMA AfterSpacesIs ==
    ASSUME RedactionTypeOK, NEW p \in 1..Len(text)
    PROVE  /\ AfterSpaces(p) \in p..Len(text) + 1
           /\ ~At(AfterSpaces(p), {"space"})
           /\ \A q \in p..AfterSpaces(p) - 1 : At(q, {"space"})
<1> DEFINE Q == {q \in p..Len(text) + 1 : ~At(q, {"space"})}
<1>0. Len(text) \in Nat
  BY DEF RedactionTypeOK
<1>1. Q \in SUBSET Nat /\ Len(text) + 1 \in Q
  BY <1>0 DEF At
<1>2. Min(Q) \in Q /\ \A m \in Q : Min(Q) <= m
  BY <1>1, MinIsLeast
<1> QED
  <2> DEFINE m == Min(Q)
  <2>1. m = AfterSpaces(p)
    BY DEF AfterSpaces
  <2>2. /\ m \in p..Len(text) + 1 /\ ~At(m, {"space"})
        /\ \A q \in p..m - 1 : At(q, {"space"})
    <3>1. m \in Q
      BY <1>2
    <3>2. \A q \in Q : m <= q
      BY <1>2
    <3> HIDE DEF m
    <3>3. ASSUME NEW q \in p..m - 1
          PROVE  At(q, {"space"})
      BY <1>0, <3>1, <3>2
    <3> QED
      BY <3>1, <3>3
  <2> QED
    BY <2>1, <2>2

(* What a comment, and what the payload of a data URI, extend to. *)
LEMMA FirstEndIs ==
    ASSUME RedactionTypeOK, NEW p \in 1..Len(text), Ends(p) # {}
    PROVE  /\ Min(Ends(p)) \in p..Len(text)
           /\ text[Min(Ends(p))] = "-->"
           /\ \A q \in p..Min(Ends(p)) - 1 : text[q] # "-->"
<1> DEFINE m == Min(Ends(p))
<1>0. Len(text) \in Nat
  BY DEF RedactionTypeOK
<1>1. Ends(p) \in SUBSET Nat
  BY <1>0 DEF Ends
<1>2. m \in Ends(p) /\ \A q \in Ends(p) : m <= q
  BY <1>1, MinIsLeast
<1> HIDE DEF m
<1>3. m \in p..Len(text) /\ text[m] = "-->"
  BY <1>2 DEF Ends
<1>4. ASSUME NEW q \in p..m - 1
      PROVE  text[q] # "-->"
  BY <1>0, <1>2, <1>3 DEF Ends
<1> QED
  BY <1>3, <1>4 DEF m

(* The payload of a data URI is base64 up to its end and not after it. *)
LEMMA PayloadIs ==
    ASSUME RedactionTypeOK, NEW p \in 1..Len(text) + 1, Payload(p) # {}
    PROVE  /\ Max(Payload(p)) \in p..Len(text)
           /\ \A q \in p..Max(Payload(p)) : text[q] \in Base64
           /\ ~At(Max(Payload(p)) + 1, Base64)
<1> DEFINE m == Max(Payload(p))
<1>0. Len(text) \in Nat
  BY DEF RedactionTypeOK
<1>1. Payload(p) \in SUBSET Nat /\ \A q \in Payload(p) : q <= Len(text)
  BY <1>0 DEF Payload
<1>2. m \in Payload(p) /\ \A q \in Payload(p) : q <= m
  BY <1>0, <1>1, MaxIsGreatest
<1> HIDE DEF m
<1>3. m \in p..Len(text) /\ \A q \in p..m : text[q] \in Base64
  BY <1>2 DEF Payload
<1>4. ~At(m + 1, Base64)
  <2> SUFFICES ASSUME m + 1 <= Len(text), text[m + 1] \in Base64 PROVE FALSE
    BY DEF At
  <2>1. m + 1 \in Payload(p)
    BY <1>0, <1>3 DEF Payload
  <2> QED
    BY <1>2, <1>3, <2>1
<1> QED
  BY <1>3, <1>4 DEF m

(* What is emitted goes to the end of the output. *)
LEMMA Emitted ==
    ASSUME RedactionTypeOK, NEW w \in Seq(Token), Emit(w)
    PROVE  /\ out' \in Seq(Token) /\ Len(out') = Len(out) + Len(w)
           /\ \A p \in 1..Len(out') :
                  out'[p] = IF p <= Len(out) THEN out[p] ELSE w[p - Len(out)]
BY ConcatProperties DEF RedactionTypeOK, Emit

(* What one emitted symbol does to the output. *)
LEMMA EmittedOne ==
    ASSUME RedactionTypeOK, NEW x \in Token, Emit(<<x>>)
    PROVE  /\ out' \in Seq(Token) /\ Len(out') = Len(out) + 1
           /\ \A p \in 1..Len(out) : out'[p] = out[p]
           /\ out'[Len(out) + 1] = x
<1> DEFINE w == <<x>>
<1>1. w \in Seq(Token) /\ Len(w) = 1 /\ w[1] = x /\ Emit(w)
  OBVIOUS
<1>2. Len(out) \in Nat
  BY DEF RedactionTypeOK
<1> HIDE DEF w
<1>3. /\ out' \in Seq(Token) /\ Len(out') = Len(out) + 1
      /\ \A p \in 1..Len(out') :
             out'[p] = IF p <= Len(out) THEN out[p] ELSE w[p - Len(out)]
  BY <1>1, Emitted
<1>4. out'[Len(out) + 1] = w[1]
  BY <1>2, <1>3
<1> QED
  BY <1>1, <1>2, <1>3, <1>4

(* The span that CloseSpan looks at. *)
LEMMA SpanIs ==
    ASSUME RedactionTypeOK, SpanInv, step = "span"
    PROVE  LET span == SubSeq(text, pos, end - 1)
           IN  /\ span \in Seq(Base64 \cup {"space"}) /\ Len(span) = end - pos
               /\ \A i \in 1..end - pos : span[i] = text[pos + i - 1]
<1>1. pos \in Int /\ end - 1 \in Int /\ end \in Nat /\ j \in Nat /\ pos <= end /\ end <= j
  BY DEF RedactionTypeOK, SpanInv
<1>2. \A p \in pos..end - 1 : text[p] \in Base64 \cup {"space"}
  BY <1>1 DEF SpanInv
<1> QED
  BY <1>1, <1>2, SubSeqProperties

(* Every step keeps the types. *)
LEMMA RedactionTypeStep ==
    ASSUME RedactionTypeOK, SpanInv, [RedactionNext]_redactionVars
    PROVE  RedactionTypeOK'
<1> USE DEF RedactionTypeOK
<1>0. /\ Len(text) \in Nat /\ Len(out) \in Nat
      /\ Blob \in Token /\ Comment \in Token
      /\ \A p \in 1..Len(text) : text[p] \in Token
  BY DEF Token
<1>1. CASE RemoveComment
  <2>1. pos \in 1..Len(text) /\ Min(Ends(pos)) \in pos..Len(text)
    BY <1>0, <1>1, FirstEndIs DEF RemoveComment, At
  <2>2. out' \in Seq(Token)
    BY <1>0, <1>1, EmittedOne DEF RemoveComment
  <2> QED
    BY <1>0, <1>1, <2>1, <2>2 DEF RemoveComment
<1>2. CASE RemoveDataURI
  <2>1. Max(Payload(pos + 1)) \in pos + 1..Len(text)
    BY <1>0, <1>2, PayloadIs DEF RemoveDataURI, At
  <2>2. out' \in Seq(Token)
    BY <1>0, <1>2, EmittedOne DEF RemoveDataURI
  <2> QED
    BY <1>0, <1>2, <2>1, <2>2 DEF RemoveDataURI
<1>3. CASE Copy
  <2>1. out' \in Seq(Token)
    BY <1>0, <1>3, EmittedOne DEF Copy
  <2> QED
    BY <1>0, <1>3, <2>1 DEF Copy
<1>4. CASE HandOn
  BY <1>0, <1>4 DEF HandOn, Passes
<1>5. CASE StartSpan \/ ExtendSpan
  BY <1>0, <1>5 DEF StartSpan, ExtendSpan, Passes
<1>6. CASE AbsorbSpaces
  <2>1. j \in 1..Len(text)
    BY <1>0, <1>6 DEF AbsorbSpaces, Resumes, At, SpanInv
  <2> QED
    BY <1>0, <1>6, <2>1, AfterSpacesIs DEF AbsorbSpaces
<1>7. CASE CloseSpan
  <2> DEFINE span == SubSeq(text, pos, end - 1)
  <2>1. span \in Seq(Token)
    <3>1. step = "span"
      BY <1>7 DEF CloseSpan
    <3>2. span \in Seq(Base64 \cup {"space"})
      BY <3>1, SpanIs
    <3>3. Base64 \cup {"space"} \subseteq Token
      BY DEF Token, Symbol
    <3> HIDE DEF span
    <3> QED
      BY <3>2, <3>3, SeqMonotonic
  <2>2. out' \in Seq(Token)
    BY <1>0, <1>7, <2>1, EmittedOne, Emitted DEF CloseSpan
  <2>3. pos' = end /\ end \in 1..Len(text) + 1
    BY <1>0, <1>7 DEF CloseSpan, SpanInv
  <2> QED
    BY <1>0, <1>7, <2>2, <2>3 DEF CloseSpan, Passes
<1> QED
  BY <1>1, <1>2, <1>3, <1>4, <1>5, <1>6, <1>7 DEF RedactionNext, redactionVars

(* Every step keeps what is known of the span under search. *)
LEMMA SpanStep ==
    ASSUME RedactionTypeOK, SpanInv, [RedactionNext]_redactionVars
    PROVE  SpanInv'
<1> USE DEF SpanInv
<1>0. Len(text) \in Nat /\ pos \in 1..Len(text) + 1 /\ end \in Nat /\ j \in Nat
  BY DEF RedactionTypeOK
<1>1. CASE RemoveComment \/ RemoveDataURI \/ Copy \/ HandOn \/ CloseSpan
  BY <1>1 DEF RemoveComment, RemoveDataURI, Copy, HandOn, CloseSpan
<1>2. CASE StartSpan
  BY <1>0, <1>2 DEF StartSpan, At
<1>3. CASE ExtendSpan
  BY <1>0, <1>3 DEF ExtendSpan, At
<1>4. CASE AbsorbSpaces
  <2> DEFINE m == AfterSpaces(j)
  <2>1. j \in 1..Len(text) /\ j' = m /\ UNCHANGED <<step, text, pos, end>>
    BY <1>0, <1>4 DEF AbsorbSpaces, Resumes, At
  <2>2. /\ m \in j..Len(text) + 1 /\ \A q \in j..m - 1 : At(q, {"space"})
        /\ At(m, Base64)
    BY <1>4, <2>1, AfterSpacesIs DEF AbsorbSpaces, Resumes
  <2> HIDE DEF m
  <2>3. step = "span"
    BY <1>4 DEF AbsorbSpaces
  <2>4. ASSUME NEW p \in pos..m - 1
        PROVE  text[p] \in Base64 \cup {"space"}
    BY <1>0, <2>1, <2>2, <2>3 DEF At
  <2> QED
    BY <1>0, <2>1, <2>2, <2>3, <2>4 DEF At
<1> QED
  BY <1>1, <1>2, <1>3, <1>4 DEF RedactionNext, redactionVars, At

-----------------------------------------------------------------------------
(***************************************************************************)
(* Nothing is left whole.  A data URI with a payload goes with the second  *)
(* pass, and what has none there gets none; an opening that is copied has  *)
(* no end after it, and no pass moves one before the other.                *)
(***************************************************************************)
Without(t, symbol) == \A p \in DOMAIN t : t[p] # symbol

NoPair(t) == \A p, q \in DOMAIN t : ~(p < q /\ t[p] = "<!--" /\ t[q] = "-->")

NoPayload(t) == \A p \in DOMAIN t : ~HasPayload(t, p)

EndsInData(t) == Len(t) > 0 /\ t[Len(t)] = "data:"

DataInv ==
    /\ step # "comments" => NoPayload(out) /\ (EndsInData(out) => ~At(pos, Base64))
    /\ step \in {"blocks", "span"} => NoPayload(text)

PairInv ==
    /\ NoPair(out)
    /\ step # "comments" => NoPair(text)
    /\ Ends(pos) # {} => Without(out, "<!--")

HiddenInv == RedactionTypeOK /\ SpanInv /\ DataInv /\ PairInv

(* What is emitted completes no data URI when it begins with no base64 after one. *)
LEMMA NoPayloadEmitted ==
    ASSUME RedactionTypeOK, NEW w \in Seq(Token), Emit(w), NoPayload(out), NoPayload(w),
           EndsInData(out) /\ Len(w) > 0 => w[1] \notin Base64
    PROVE  NoPayload(out')
<1> DEFINE n == Len(out)
           m == Len(w)
<1>0. /\ n \in Nat /\ m \in Nat /\ DOMAIN w = 1..m /\ DOMAIN out = 1..n
      /\ DOMAIN out' = 1..n + m /\ Len(out') = n + m
  BY Emitted DEF RedactionTypeOK
<1>1. \A p \in 1..n + m : out'[p] = IF p <= n THEN out[p] ELSE w[p - n]
  BY Emitted, <1>0
<1>2. EndsInData(out) /\ m > 0 => w[1] \notin Base64
  OBVIOUS
<1>3. \A p \in 1..n : out[p] = "data:" /\ p < n => out[p + 1] \notin Base64
  BY <1>0 DEF NoPayload, HasPayload
<1>4. \A p \in 1..m : w[p] = "data:" /\ p < m => w[p + 1] \notin Base64
  BY <1>0 DEF NoPayload, HasPayload
<1>5. n > 0 /\ out[n] = "data:" => EndsInData(out)
  BY DEF EndsInData
<1> HIDE DEF n, m
<1> SUFFICES ASSUME NEW p \in 1..n + m, out'[p] = "data:", p < n + m
             PROVE  out'[p + 1] \notin Base64
  BY <1>0 DEF NoPayload, HasPayload
<1>6. CASE p < n
  <2>1. p \in 1..n /\ out[p] = "data:" /\ out'[p + 1] = out[p + 1]
    BY <1>0, <1>1, <1>6
  <2> QED
    BY <1>3, <1>6, <2>1
<1>7. CASE p = n
  <2>1. out[n] = "data:" /\ out'[p + 1] = w[1] /\ n > 0 /\ m > 0
    BY <1>0, <1>1, <1>7
  <2> QED
    BY <1>2, <1>5, <2>1
<1>8. CASE n < p
  <2>1. p - n \in 1..m /\ p - n < m /\ (p + 1) - n = (p - n) + 1
    BY <1>0, <1>8
  <2>2. w[p - n] = "data:" /\ out'[p + 1] = w[(p - n) + 1]
    BY <1>0, <1>1, <1>8, <2>1
  <2> QED
    BY <1>4, <2>1, <2>2
<1> QED
  BY <1>0, <1>6, <1>7, <1>8

(* One symbol is no data URI with its payload. *)
LEMMA OneHasNoPayload == ASSUME NEW x PROVE NoPayload(<<x>>)
BY DEF NoPayload, HasPayload

(* Every step keeps what is known of data URIs, in the input and in the output. *)
LEMMA DataStep ==
    ASSUME RedactionTypeOK, SpanInv, DataInv, RedactionNext
    PROVE  DataInv'
<1>0. /\ Len(text) \in Nat /\ Len(out) \in Nat /\ pos \in 1..Len(text) + 1
      /\ DOMAIN text = 1..Len(text)
      /\ Blob \in Token /\ Blob # "data:" /\ Blob \notin Base64
      /\ \A p \in 1..Len(text) : text[p] \in Token
  BY DEF RedactionTypeOK, Token, Base64, Blob
<1>1. CASE step = "comments"
  <2>1. CASE HandOn
    BY <1>1, <2>1 DEF HandOn, DataInv, NoPayload, EndsInData
  <2>2. CASE ~HandOn
    <3>1. step' = "comments"
      BY <1>1, <2>2 DEF RedactionNext, RemoveComment, RemoveDataURI, Copy, StartSpan,
         ExtendSpan, AbsorbSpaces, CloseSpan
    <3> QED
      BY <3>1 DEF DataInv
  <2> QED
    BY <2>1, <2>2
<1>2. CASE RemoveDataURI
  <2>1. Emit(<<Blob>>) /\ UNCHANGED step /\ step = "uris"
    BY <1>2 DEF RemoveDataURI
  <2>2. Len(out') = Len(out) + 1 /\ out'[Len(out) + 1] = Blob
    BY <1>0, <2>1, EmittedOne
  <2>3. ~EndsInData(out')
    BY <1>0, <2>2 DEF EndsInData
  <2>4. <<Blob>> \in Seq(Token) /\ <<Blob>>[1] = Blob
    BY <1>0
  <2>5. NoPayload(out')
    BY <1>0, <2>1, <2>4, NoPayloadEmitted, OneHasNoPayload DEF DataInv
  <2> QED
    BY <2>1, <2>3, <2>5 DEF DataInv
<1>3. CASE Copy /\ step # "comments"
  <2> DEFINE x == text[pos]
  <2>1. /\ pos \in 1..Len(text) /\ x \in Token /\ pos' = pos + 1 /\ Emit(<<x>>)
        /\ UNCHANGED <<step, text>> /\ step \in {"uris", "blocks"}
    BY <1>0, <1>3 DEF Copy
  <2>2. x = "data:" => ~At(pos + 1, Base64)
    <3> SUFFICES ASSUME x = "data:", At(pos + 1, Base64) PROVE FALSE
      OBVIOUS
    <3>1. pos + 1 \in pos + 1..Len(text) /\ text[pos + 1] \in Base64
      BY <1>0, <2>1 DEF At
    <3>2. CASE step = "uris"
      <4>1. pos + 1 \in Payload(pos + 1)
        BY <1>0, <3>1 DEF Payload
      <4> QED
        BY <1>3, <3>2, <4>1 DEF Copy
    <3>3. CASE step = "blocks"
      <4>1. HasPayload(text, pos)
        BY <1>0, <2>1, <3>1 DEF HasPayload
      <4> QED
        BY <1>0, <2>1, <3>3, <4>1 DEF DataInv, NoPayload
    <3> QED
      BY <2>1, <3>2, <3>3
  <2>3. EndsInData(out) => x \notin Base64
    BY <1>0, <1>3, <2>1 DEF DataInv, At
  <2>4. At(pos, Base64)' = At(pos + 1, Base64)
    BY <2>1 DEF At
  <2> HIDE DEF x
  <2>5. Len(out') = Len(out) + 1 /\ out'[Len(out) + 1] = x
    BY <2>1, EmittedOne
  <2>6. EndsInData(out') => ~At(pos, Base64)'
    BY <1>0, <2>2, <2>4, <2>5 DEF EndsInData
  <2>7. <<x>> \in Seq(Token) /\ <<x>>[1] = x
    BY <2>1
  <2>8. NoPayload(out')
    BY <1>3, <2>1, <2>3, <2>7, NoPayloadEmitted, OneHasNoPayload DEF DataInv
  <2>9. step' = "blocks" => NoPayload(text')
    BY <2>1 DEF DataInv
  <2> QED
    BY <2>1, <2>6, <2>8, <2>9 DEF DataInv
<1>4. CASE HandOn /\ step = "uris"
  BY <1>4 DEF HandOn, DataInv, NoPayload, EndsInData
<1>5. CASE StartSpan \/ ExtendSpan \/ AbsorbSpaces
  <2>1. /\ UNCHANGED <<text, out, pos>> /\ step \in {"blocks", "span"}
        /\ step' \in {"blocks", "span"} /\ At(pos, Base64)' = At(pos, Base64)
    BY <1>5 DEF StartSpan, ExtendSpan, AbsorbSpaces, At
  <2> QED
    BY <2>1 DEF DataInv
<1>6. CASE CloseSpan
  <2> DEFINE span == SubSeq(text, pos, end - 1)
             n == end - pos
  <2>1. /\ span \in Seq(Base64 \cup {"space"}) /\ span \in Seq(Token) /\ Len(span) = n
        /\ \A i \in 1..n : span[i] = text[pos + i - 1]
    BY <1>6, SpanIs, SeqMonotonic DEF CloseSpan, Token, Symbol
  <2>2. /\ n \in Nat /\ pos' = end /\ step' = "blocks" /\ UNCHANGED text
        /\ end \in Nat /\ pos + n = end /\ end - 1 <= Len(text)
    BY <1>0, <1>6 DEF CloseSpan, SpanInv, RedactionTypeOK
  <2>3. EndsInData(out) /\ n > 0 => span[1] \notin Base64
    <3>1. EndsInData(out) => ~At(pos, Base64)
      BY <1>6 DEF DataInv, CloseSpan
    <3>2. n > 0 => pos <= Len(text) /\ span[1] = text[pos]
      BY <1>0, <2>1, <2>2
    <3> QED
      BY <3>1, <3>2 DEF At
  <2>4. NoPayload(span) /\ \A i \in 1..n : span[i] # "data:"
    BY <2>1 DEF NoPayload, HasPayload, Base64
  <2>5. Emit(<<Blob>>) \/ Emit(span)
    BY <1>6 DEF CloseSpan
  <2>6. NoPayload(out) /\ NoPayload(text) /\ (EndsInData(out) => ~At(pos, Base64))
    BY <1>6 DEF DataInv, CloseSpan
  <2> HIDE DEF span, n
  <2>7. CASE Emit(<<Blob>>)
    <3>1. Len(out') = Len(out) + 1 /\ out'[Len(out) + 1] = Blob
      BY <1>0, <2>7, EmittedOne
    <3>2. ~EndsInData(out')
      BY <1>0, <3>1 DEF EndsInData
    <3>3. <<Blob>> \in Seq(Token) /\ <<Blob>>[1] = Blob
      BY <1>0
    <3>4. NoPayload(out')
      BY <1>0, <2>6, <2>7, <3>3, NoPayloadEmitted, OneHasNoPayload
    <3> QED
      BY <2>2, <2>6, <3>2, <3>4 DEF DataInv
  <2>8. CASE Emit(span)
    <3>1. NoPayload(out')
      BY <2>1, <2>3, <2>4, <2>6, <2>8, NoPayloadEmitted
    <3>2. /\ Len(out') = Len(out) + n
          /\ \A p \in 1..Len(out') :
                 out'[p] = IF p <= Len(out) THEN out[p] ELSE span[p - Len(out)]
      BY <2>1, <2>8, Emitted
    <3>3. CASE n = 0
      <4>1. EndsInData(out') => EndsInData(out)
        BY <1>0, <3>2, <3>3 DEF EndsInData
      <4>2. At(pos, Base64)' = At(pos, Base64)
        BY <1>0, <2>2, <3>3 DEF At
      <4> QED
        BY <2>2, <2>6, <3>1, <4>1, <4>2 DEF DataInv
    <3>4. CASE n > 0
      <4>1. out'[Len(out')] = span[n]
        BY <1>0, <2>2, <3>2, <3>4
      <4>2. ~EndsInData(out')
        BY <2>2, <2>4, <3>4, <4>1 DEF EndsInData
      <4> QED
        BY <2>2, <2>6, <3>1, <4>2 DEF DataInv
    <3> QED
      BY <2>2, <3>3, <3>4
  <2> QED
    BY <2>5, <2>7, <2>8
<1> QED
  BY <1>1, <1>2, <1>3, <1>4, <1>5, <1>6 DEF RedactionNext, RemoveComment, HandOn

(* What is emitted adds no pair when it has no opening that an end, and no
   end that an opening, is or may come to be the other half of. *)
LEMMA NoPairEmitted ==
    ASSUME RedactionTypeOK, NEW w \in Seq(Token), Emit(w), NoPair(out), NoPair(w),
           Without(w, "-->") \/ Without(out, "<!--")
    PROVE  NoPair(out')
<1> DEFINE n == Len(out)
           m == Len(w)
<1>0. /\ n \in Nat /\ m \in Nat /\ DOMAIN w = 1..m /\ DOMAIN out = 1..n
      /\ DOMAIN out' = 1..n + m
  BY Emitted DEF RedactionTypeOK
<1>1. \A p \in 1..n + m : out'[p] = IF p <= n THEN out[p] ELSE w[p - n]
  BY Emitted, <1>0
<1> HIDE DEF n, m
<1> SUFFICES ASSUME NEW p \in 1..n + m, NEW q \in 1..n + m,
                    p < q, out'[p] = "<!--", out'[q] = "-->"
             PROVE  FALSE
  BY <1>0 DEF NoPair
<1>2. CASE q <= n
  BY <1>0, <1>1, <1>2 DEF NoPair
<1>3. CASE n < p
  <2>1. p - n \in 1..m /\ q - n \in 1..m /\ p - n < q - n
    BY <1>0, <1>3
  <2>2. w[p - n] = "<!--" /\ w[q - n] = "-->"
    BY <1>0, <1>1, <1>3
  <2> QED
    BY <1>0, <2>1, <2>2 DEF NoPair
<1>4. CASE p <= n /\ n < q
  <2>1. p \in 1..n /\ q - n \in 1..m
    BY <1>0, <1>4
  <2>2. out[p] = "<!--" /\ w[q - n] = "-->"
    BY <1>0, <1>1, <1>4
  <2> QED
    BY <1>0, <2>1, <2>2 DEF Without
<1> QED
  BY <1>0, <1>2, <1>3, <1>4

(* A symbol is absent from a longer output exactly if it is from both its halves. *)
LEMMA WithoutEmitted ==
    ASSUME RedactionTypeOK, NEW w \in Seq(Token), Emit(w), NEW symbol
    PROVE  Without(out', symbol) <=> Without(out, symbol) /\ Without(w, symbol)
<1> DEFINE n == Len(out)
           m == Len(w)
<1>0. /\ n \in Nat /\ m \in Nat /\ DOMAIN w = 1..m /\ DOMAIN out = 1..n
      /\ DOMAIN out' = 1..n + m
  BY Emitted DEF RedactionTypeOK
<1>1. \A p \in 1..n + m : out'[p] = IF p <= n THEN out[p] ELSE w[p - n]
  BY Emitted, <1>0
<1> HIDE DEF n, m
<1>2. ASSUME Without(out', symbol), NEW p \in 1..n
      PROVE  out[p] # symbol
  BY <1>0, <1>1, <1>2 DEF Without
<1>3. ASSUME Without(out', symbol), NEW p \in 1..m
      PROVE  w[p] # symbol
  <2>1. p + n \in 1..n + m /\ ~(p + n <= n) /\ (p + n) - n = p
    BY <1>0
  <2> QED
    BY <1>0, <1>1, <1>3, <2>1 DEF Without
<1>4. ASSUME Without(out, symbol), Without(w, symbol), NEW p \in 1..n + m
      PROVE  out'[p] # symbol
  BY <1>0, <1>1, <1>4 DEF Without
<1> QED
  BY <1>0, <1>2, <1>3, <1>4 DEF Without

(* What stands for a comment, a data URI or a span opens and closes no comment. *)
LEMMA PlainEmitted ==
    ASSUME RedactionTypeOK, SpanInv, RemoveComment \/ RemoveDataURI \/ CloseSpan
    PROVE  /\ \E w \in Seq(Token) :
                  /\ Emit(w) /\ NoPair(w)
                  /\ Without(w, "<!--") /\ Without(w, "-->")
           /\ pos' \in Nat /\ pos <= pos' /\ UNCHANGED text
<1>1. ASSUME NEW x \in {Blob, Comment}
      PROVE  /\ <<x>> \in Seq(Token) /\ NoPair(<<x>>)
             /\ Without(<<x>>, "<!--") /\ Without(<<x>>, "-->")
  BY DEF Token, Without, NoPair, Blob, Comment
<1>2. Len(text) \in Nat /\ pos \in 1..Len(text) + 1 /\ end \in Nat
  BY DEF RedactionTypeOK
<1>3. CASE RemoveComment
  <2> DEFINE m == Min(Ends(pos))
  <2>1. pos \in 1..Len(text) /\ m \in pos..Len(text)
    BY <1>2, <1>3, FirstEndIs DEF RemoveComment, At
  <2>2. pos' = m + 1 /\ UNCHANGED text /\ Emit(<<Comment>>)
    BY <1>3 DEF RemoveComment
  <2> HIDE DEF m
  <2>3. pos' \in Nat /\ pos <= pos'
    BY <1>2, <2>1, <2>2
  <2> QED
    BY <1>1, <2>2, <2>3
<1>4. CASE RemoveDataURI
  <2> DEFINE m == Max(Payload(pos + 1))
  <2>1. m \in pos + 1..Len(text)
    BY <1>2, <1>4, PayloadIs DEF RemoveDataURI, At
  <2>2. pos' = m + 1 /\ UNCHANGED text /\ Emit(<<Blob>>)
    BY <1>4 DEF RemoveDataURI
  <2> HIDE DEF m
  <2>3. pos' \in Nat /\ pos <= pos'
    BY <1>2, <2>1, <2>2
  <2> QED
    BY <1>1, <2>2, <2>3
<1>5. CASE CloseSpan
  <2> DEFINE span == SubSeq(text, pos, end - 1)
  <2>1. span \in Seq(Base64 \cup {"space"}) /\ span \in Seq(Token)
    BY <1>5, SpanIs, SeqMonotonic DEF CloseSpan, Token, Symbol
  <2>2. /\ NoPair(span) /\ Without(span, "<!--") /\ Without(span, "-->")
    BY <2>1 DEF NoPair, Without, Base64
  <2>3. pos' = end /\ pos <= end /\ UNCHANGED text
    BY <1>5 DEF CloseSpan, SpanInv
  <2> QED
    BY <1>1, <1>2, <1>5, <2>1, <2>2, <2>3 DEF CloseSpan
<1> QED
  BY <1>3, <1>4, <1>5

(* Every step keeps the output without a comment that is opened and closed. *)
LEMMA PairStep ==
    ASSUME RedactionTypeOK, SpanInv, PairInv, RedactionNext
    PROVE  PairInv'
<1>0. /\ Len(text) \in Nat /\ pos \in 1..Len(text) + 1
      /\ DOMAIN text = 1..Len(text)
      /\ \A p \in 1..Len(text) : text[p] \in Token
  BY DEF RedactionTypeOK
<1>1. CASE RemoveComment \/ RemoveDataURI \/ CloseSpan
  <2>1. PICK w \in Seq(Token) :
           Emit(w) /\ NoPair(w) /\ Without(w, "<!--") /\ Without(w, "-->")
    BY <1>1, PlainEmitted
  <2>2. NoPair(out')
    BY <2>1, NoPairEmitted DEF PairInv
  <2>3. pos' \in Nat /\ pos <= pos' /\ UNCHANGED text
    BY <1>1, PlainEmitted
  <2>4. Ends(pos)' \subseteq Ends(pos)
    BY <1>0, <2>3 DEF Ends
  <2>5. Ends(pos)' # {} => Without(out', "<!--")
    BY <2>1, <2>4, WithoutEmitted DEF PairInv
  <2>6. step' # "comments" => step # "comments"
    BY <1>1 DEF RemoveComment, RemoveDataURI, CloseSpan
  <2> QED
    BY <2>2, <2>3, <2>5, <2>6 DEF PairInv
<1>2. CASE Copy
  <2> DEFINE w == <<text[pos]>>
  <2>1. /\ pos \in 1..Len(text) /\ pos' = pos + 1 /\ UNCHANGED <<step, text>>
        /\ w \in Seq(Token) /\ Emit(w) /\ NoPair(w)
        /\ text[pos] # "<!--" => Without(w, "<!--")
        /\ text[pos] # "-->" => Without(w, "-->")
    BY <1>0, <1>2 DEF Copy, NoPair, Without
  <2> HIDE DEF w
  <2>2. text[pos] = "-->" => Ends(pos) # {}
    BY <1>0, <2>1 DEF Ends
  <2>3. NoPair(out')
    BY <2>1, <2>2, NoPairEmitted DEF PairInv
  <2>4. Ends(pos)' \subseteq Ends(pos)
    BY <1>0, <2>1 DEF Ends
  <2>5. ASSUME Ends(pos)' # {}
        PROVE  Without(out', "<!--")
    <3>1. Ends(pos) # {} /\ Without(out, "<!--")
      BY <2>4, <2>5 DEF PairInv
    <3>2. PICK q \in pos + 1..Len(text) : text[q] = "-->"
      BY <1>0, <2>1, <2>5 DEF Ends
    <3>3. text[pos] # "<!--"
      <4>1. CASE step = "comments"
        BY <1>2, <3>1, <4>1 DEF Copy
      <4>2. CASE step # "comments"
        BY <1>0, <2>1, <3>2, <4>2 DEF PairInv, NoPair
      <4> QED
        BY <4>1, <4>2
    <3> QED
      BY <2>1, <3>1, <3>3, WithoutEmitted
  <2> QED
    BY <2>1, <2>3, <2>5 DEF PairInv
<1>3. CASE HandOn
  <2>1. NoPair(text') /\ NoPair(out') /\ Without(out', "<!--")
    BY <1>3 DEF HandOn, PairInv, NoPair, Without
  <2> QED
    BY <2>1 DEF PairInv
<1>4. CASE StartSpan \/ ExtendSpan \/ AbsorbSpaces
  BY <1>4 DEF StartSpan, ExtendSpan, AbsorbSpaces, PairInv, NoPair, Without, Ends
<1> QED
  BY <1>1, <1>2, <1>3, <1>4 DEF RedactionNext

(* The invariant of sanitizeForModel. *)
LEMMA HiddenInitially == RedactionInit => HiddenInv
<1> SUFFICES ASSUME RedactionInit PROVE HiddenInv
  OBVIOUS
<1>1. issue \in BoundedSeq(Symbol, MaxText)
  BY DEF RedactionInit, Texts
<1>2. issue \in Seq(Symbol)
  <2>1. PICK m \in 0..MaxText : issue \in [1..m -> Symbol]
    BY <1>1 DEF BoundedSeq, SeqOf
  <2> QED
    BY <2>1, MaxTextAssumption, SeqDef
<1>3. issue \in Seq(Token)
  BY <1>2, SeqMonotonic DEF Token
<1>4. Len(issue) \in Nat
  BY <1>2
<1>5. RedactionTypeOK
  BY <1>2, <1>3, <1>4 DEF RedactionInit, RedactionTypeOK, Passes
<1> QED
  BY <1>1, <1>5 DEF RedactionInit, HiddenInv, SpanInv, DataInv, PairInv, NoPair, Without

(* Where each pass of sanitizeForModel is in its input, and that its output so far
   has no data URI with its payload, from the second pass on, and no comment that is
   opened and closed. *)
THEOREM RedactionInvariant == RedactionSpec => []HiddenInv
<1>1. HiddenInv /\ [RedactionNext]_redactionVars => HiddenInv'
  <2> SUFFICES ASSUME HiddenInv, [RedactionNext]_redactionVars PROVE HiddenInv'
    OBVIOUS
  <2>1. CASE RedactionNext
    BY <2>1, RedactionTypeStep, SpanStep, DataStep, PairStep DEF HiddenInv
  <2>2. CASE UNCHANGED redactionVars
    <3>1. Ends(pos)' = Ends(pos) /\ At(pos, Base64)' = At(pos, Base64)
          /\ At(j, Base64)' = At(j, Base64)
      BY <2>2 DEF redactionVars, Ends, At
    <3> QED
      BY <2>2, <3>1 DEF redactionVars, HiddenInv, RedactionTypeOK, SpanInv, DataInv,
         PairInv, NoPair, Without, NoPayload, EndsInData
  <2> QED
    BY <2>1, <2>2
<1> QED
  BY <1>1, HiddenInitially, PTL DEF RedactionSpec

(* No data URI with its payload, and no comment that is opened and closed, is in what
   sanitizeForModel leaves of an issue of any length: no pass brings the halves of one
   together that an earlier pass has looked for. *)
THEOREM NothingLeftWholeHolds == RedactionSpec => []NothingLeftWhole
<1>1. HiddenInv => NothingLeftWhole
  BY DEF HiddenInv, DataInv, PairInv, Sanitized, NothingLeftWhole, NoPayload, NoPair
<1> QED
  BY <1>1, RedactionInvariant, PTL

-----------------------------------------------------------------------------
(***************************************************************************)
(* What the definitions say of each symbol of a text: the part of the      *)
(* result that stands for it.  A pass is correct because what it has       *)
(* emitted is always the parts of the symbols it has passed, and nothing   *)
(* that is to be replaced reaches over the position it stands at.          *)
(***************************************************************************)
CommentOpen(t, p) ==
    \E o \in 1..p : t[o] = "<!--" /\ \A q \in o..p - 1 : t[q] # "-->"

InComment(t, p) == CommentOpen(t, p) /\ \E q \in p..Len(t) : t[q] = "-->"

CommentBegins(t, p) == p = 1 \/ t[p - 1] = "-->" \/ ~CommentOpen(t, p - 1)

InURI(t, p) ==
    \E o \in 1..p : HasPayload(t, o) /\ \A q \in o + 1..p : t[q] \in Base64

Solid(t, a, b) ==
    /\ a <= b /\ \A p \in a..b : t[p] \in Base64 \cup {"space"}
    /\ t[a] \in Base64 /\ t[b] \in Base64

InBlock(t, p) == \E ab \in Blocks(t) : p \in ab[1]..ab[2]

BlockBegins(t, p) == \E ab \in Blocks(t) : p = ab[1]

Part(s, t, p) ==
    CASE s = "comments" -> IF ~InComment(t, p) THEN <<t[p]>>
                           ELSE IF CommentBegins(t, p) THEN <<Comment>> ELSE <<>>
      [] s = "uris"     -> IF ~InURI(t, p) THEN <<t[p]>>
                           ELSE IF t[p] = "data:" THEN <<Blob>> ELSE <<>>
      [] OTHER          -> IF ~InBlock(t, p) THEN <<t[p]>>
                           ELSE IF BlockBegins(t, p) THEN <<Blob>> ELSE <<>>

Parts(s, t) == [p \in 1..Len(t) |-> Part(s, t, p)]

(* The three definitions by intervals concatenate the parts of their positions. *)
LEMMA PartsDefine ==
    ASSUME NEW t \in Seq(Token)
    PROVE  /\ WithoutComments(t) = FlattenSeq(Parts("comments", t))
           /\ WithoutDataURIs(t) = FlattenSeq(Parts("uris", t))
           /\ WithoutBlocks(t) = FlattenSeq(Parts("blocks", t))
<1>0. DOMAIN t = 1..Len(t)
  OBVIOUS
<1>1. WithoutDataURIs(t) = FlattenSeq(Parts("uris", t))
  BY <1>0 DEF WithoutDataURIs, Replaced, Parts, Part, InURI
<1>2. WithoutBlocks(t) = FlattenSeq(Parts("blocks", t))
  BY <1>0 DEF WithoutBlocks, Replaced, Parts, Part, InBlock, BlockBegins
<1>3. WithoutComments(t) = FlattenSeq(Parts("comments", t))
  BY <1>0 DEF WithoutComments, Replaced, Parts, Part, InComment, CommentBegins,
     CommentOpen
<1> QED
  BY <1>1, <1>2, <1>3

(* There is one part for each position. *)
LEMMA PartsType ==
    ASSUME NEW s, NEW t \in Seq(Token)
    PROVE  /\ Parts(s, t) \in Seq(Seq(Token)) /\ Len(Parts(s, t)) = Len(t)
           /\ \A p \in 1..Len(t) : Parts(s, t)[p] = Part(s, t, p)
<1>1. ASSUME NEW p \in 1..Len(t)
      PROVE  Part(s, t, p) \in Seq(Token)
  <2>1. /\ <<t[p]>> \in Seq(Token) /\ <<Comment>> \in Seq(Token)
        /\ <<Blob>> \in Seq(Token) /\ <<>> \in Seq(Token)
    BY DEF Token
  <2> QED
    BY <2>1, Zenon DEF Part
<1>2. Len(t) \in Nat
  OBVIOUS
<1>3. Parts(s, t) \in [1..Len(t) -> Seq(Token)]
  BY <1>1, Zenon DEF Parts
<1>4. Parts(s, t) \in Seq(Seq(Token))
  BY <1>2, <1>3, SeqDef
<1> QED
  BY <1>2, <1>3, <1>4, LenProperties DEF Parts

(* Nothing to be replaced reaches over the position p. *)
Outside(s, t, p) ==
    CASE s = "comments" ->
             (\E q \in p..Len(t) : t[q] = "-->") =>
                 \A o \in 1..p - 1 :
                     t[o] = "<!--" => \E q \in o..p - 1 : t[q] = "-->"
      [] s = "uris" ->
             (p <= Len(t) /\ t[p] \in Base64) =>
                 \A o \in 1..p - 1 :
                     t[o] = "data:" => \E q \in o + 1..p - 1 : t[q] \notin Base64
      [] OTHER ->
             \A a, b \in 1..Len(t) : Solid(t, a, b) => b < p \/ p <= a

(* A comment becomes one placeholder, and what follows is outside of comments. *)
LEMMA CommentReplaced ==
    ASSUME NEW t \in Seq(Token), NEW p \in 1..Len(t), NEW m \in p..Len(t),
           t[p] = "<!--", t[m] = "-->", \A q \in p..m - 1 : t[q] # "-->",
           Outside("comments", t, p)
    PROVE  /\ Part("comments", t, p) = <<Comment>>
           /\ \A r \in p + 1..m : Part("comments", t, r) = <<>>
           /\ Outside("comments", t, m + 1)
<1>0. Len(t) \in Nat
  OBVIOUS
<1>1. ASSUME NEW r \in p..m
      PROVE  InComment(t, r) /\ CommentOpen(t, r)
  <2>1. p \in 1..r /\ \A q \in p..r - 1 : t[q] # "-->"
    BY <1>0
  <2>2. m \in r..Len(t)
    BY <1>0
  <2> QED
    BY <2>1, <2>2 DEF InComment, CommentOpen
<1>2. CommentBegins(t, p)
  <2> SUFFICES ASSUME p # 1, CommentOpen(t, p - 1) PROVE t[p - 1] = "-->"
    BY DEF CommentBegins
  <2>1. PICK o \in 1..p - 1 : t[o] = "<!--" /\ \A q \in o..(p - 1) - 1 : t[q] # "-->"
    BY DEF CommentOpen
  <2>2. PICK q \in o..p - 1 : t[q] = "-->"
    BY <1>0, <2>1 DEF Outside
  <2>3. q = p - 1
    BY <1>0, <2>1, <2>2
  <2> QED
    BY <2>2, <2>3
<1>3. ASSUME NEW r \in p + 1..m
      PROVE  ~CommentBegins(t, r)
  <2>1. r # 1 /\ r - 1 \in p..m - 1 /\ r - 1 \in p..m
    BY <1>0
  <2> QED
    BY <1>1, <2>1 DEF CommentBegins
<1>4. Outside("comments", t, m + 1)
  BY <1>0 DEF Outside
<1>5. p \in p..m /\ p + 1..m \subseteq p..m
  BY <1>0
<1> QED
  BY <1>1, <1>2, <1>3, <1>4, <1>5 DEF Part

(* A symbol that opens no comment is its own part. *)
LEMMA CommentCopied ==
    ASSUME NEW t \in Seq(Token), NEW p \in 1..Len(t),
           t[p] = "<!--" => \A q \in p..Len(t) : t[q] # "-->",
           Outside("comments", t, p)
    PROVE  Part("comments", t, p) = <<t[p]>> /\ Outside("comments", t, p + 1)
<1>0. Len(t) \in Nat
  OBVIOUS
<1>1. ~InComment(t, p)
  <2> SUFFICES ASSUME InComment(t, p) PROVE FALSE
    OBVIOUS
  <2>1. PICK o \in 1..p : t[o] = "<!--" /\ \A q \in o..p - 1 : t[q] # "-->"
    BY DEF InComment, CommentOpen
  <2>2. \E q \in p..Len(t) : t[q] = "-->"
    BY DEF InComment
  <2>3. o # p
    BY <2>1, <2>2
  <2>4. o \in 1..p - 1
    BY <1>0, <2>3
  <2> QED
    BY <2>1, <2>2, <2>4 DEF Outside
<1>2. Outside("comments", t, p + 1)
  <2> SUFFICES ASSUME NEW q \in p + 1..Len(t), t[q] = "-->",
                      NEW o \in 1..p, t[o] = "<!--"
               PROVE  \E r \in o..p : t[r] = "-->"
    BY <1>0 DEF Outside
  <2>1. q \in p..Len(t) /\ o # p
    BY <1>0
  <2>2. o \in 1..p - 1
    BY <1>0, <2>1
  <2>3. PICK r \in o..p - 1 : t[r] = "-->"
    BY <2>1, <2>2 DEF Outside
  <2> QED
    BY <1>0, <2>3
<1> QED
  BY <1>1, <1>2 DEF Part

(* A data URI becomes one placeholder, and what follows is outside of it. *)
LEMMA URIReplaced ==
    ASSUME NEW t \in Seq(Token), NEW p \in 1..Len(t), NEW m \in p + 1..Len(t),
           t[p] = "data:", \A q \in p + 1..m : t[q] \in Base64,
           m + 1 <= Len(t) => t[m + 1] \notin Base64
    PROVE  /\ Part("uris", t, p) = <<Blob>>
           /\ \A r \in p + 1..m : Part("uris", t, r) = <<>>
           /\ Outside("uris", t, m + 1)
<1>0. Len(t) \in Nat
  OBVIOUS
<1>1. ASSUME NEW r \in p..m
      PROVE  InURI(t, r)
  <2>1. p \in 1..r /\ \A q \in p + 1..r : t[q] \in Base64
    BY <1>0
  <2>2. HasPayload(t, p)
    BY <1>0 DEF HasPayload
  <2> QED
    BY <2>1, <2>2 DEF InURI
<1>2. ASSUME NEW r \in p + 1..m
      PROVE  t[r] # "data:" /\ r \in p..m
  BY <1>0 DEF Base64
<1>3. p \in p..m
  BY <1>0
<1> QED
  BY <1>1, <1>2, <1>3 DEF Part, Outside

(* A symbol that begins no data URI is its own part. *)
LEMMA URICopied ==
    ASSUME NEW t \in Seq(Token), NEW p \in 1..Len(t), ~HasPayload(t, p),
           Outside("uris", t, p)
    PROVE  Part("uris", t, p) = <<t[p]>> /\ Outside("uris", t, p + 1)
<1>0. Len(t) \in Nat
  OBVIOUS
<1>1. ~InURI(t, p)
  <2> SUFFICES ASSUME InURI(t, p) PROVE FALSE
    OBVIOUS
  <2>1. PICK o \in 1..p : HasPayload(t, o) /\ \A q \in o + 1..p : t[q] \in Base64
    BY DEF InURI
  <2>2. o \in 1..p - 1 /\ p \in o + 1..p /\ t[o] = "data:"
    BY <1>0, <2>1 DEF HasPayload
  <2>3. PICK q \in o + 1..p - 1 : t[q] \notin Base64
    BY <1>0, <2>1, <2>2 DEF Outside
  <2> QED
    BY <1>0, <2>1, <2>3
<1>2. Outside("uris", t, p + 1)
  <2> SUFFICES ASSUME NEW o \in 1..p, t[o] = "data:",
                      p + 1 <= Len(t), t[p + 1] \in Base64
               PROVE  \E q \in o + 1..p : t[q] \notin Base64
    BY <1>0 DEF Outside
  <2>1. o \in 1..p - 1 /\ p \in o + 1..p
    BY <1>0 DEF HasPayload
  <2>2. CASE t[p] \notin Base64
    BY <2>1, <2>2
  <2>3. CASE t[p] \in Base64
    <3>1. PICK q \in o + 1..p - 1 : t[q] \notin Base64
      BY <1>0, <2>1, <2>3 DEF Outside
    <3> QED
      BY <1>0, <3>1
  <2> QED
    BY <2>2, <2>3
<1> QED
  BY <1>1, <1>2 DEF Part

(* Spans, without the records: the solid intervals that no other contains. *)
LEMMA SpansAre ==
    ASSUME NEW t \in Seq(Token), NEW a \in 1..Len(t), NEW b \in 1..Len(t)
    PROVE  <<a, b>> \in Spans(t) <=>
               /\ Solid(t, a, b)
               /\ \A c, d \in 1..Len(t) :
                      Solid(t, c, d) /\ c <= a /\ b <= d => c = a /\ d = b
<1> DEFINE D == DOMAIN t
           In(ab) == /\ \A p \in ab[1]..ab[2] : t[p] \in Base64 \cup {"space"}
                     /\ t[ab[1]] \in Base64 /\ t[ab[2]] \in Base64
           Intervals == {ab \in D \X D : ab[1] <= ab[2] /\ In(ab)}
<1>0. D = 1..Len(t)
  OBVIOUS
<1>1. Spans(t) = {ab \in Intervals : \A cd \in Intervals :
                     cd[1] <= ab[1] /\ ab[2] <= cd[2] => cd = ab}
  BY DEF Spans
<1>2. ASSUME NEW c \in D, NEW d \in D
      PROVE  <<c, d>> \in Intervals <=> Solid(t, c, d)
  BY DEF Solid
<1>3. Intervals \subseteq D \X D
  OBVIOUS
<1> HIDE DEF Intervals, D
<1>4. \A cd \in Intervals : \E c, d \in D : cd = <<c, d>>
  BY <1>3
<1>5. ASSUME <<a, b>> \in Spans(t)
      PROVE  Solid(t, a, b) /\ \A c, d \in D :
                 Solid(t, c, d) /\ c <= a /\ b <= d => c = a /\ d = b
  <2>1. Solid(t, a, b)
    BY <1>0, <1>1, <1>2, <1>5
  <2>2. ASSUME NEW c \in D, NEW d \in D, Solid(t, c, d), c <= a, b <= d
        PROVE  <<c, d>> = <<a, b>>
    <3> DEFINE cd == <<c, d>>
               ab == <<a, b>>
    <3>1. cd[1] <= ab[1] /\ ab[2] <= cd[2]
      BY <2>2
    <3>2. cd \in Intervals
      BY <1>2, <2>2
    <3> HIDE DEF cd, ab
    <3>3. cd = ab
      BY <1>1, <1>5, <3>1, <3>2 DEF ab
    <3> QED
      BY <3>3 DEF cd, ab
  <2> QED
    BY <2>1, <2>2
<1>6. ASSUME Solid(t, a, b), \A c, d \in D :
                 Solid(t, c, d) /\ c <= a /\ b <= d => c = a /\ d = b
      PROVE  <<a, b>> \in Spans(t)
  <2>1. <<a, b>> \in Intervals
    BY <1>0, <1>2, <1>6
  <2>2. ASSUME NEW cd \in Intervals, cd[1] <= a, b <= cd[2]
        PROVE  cd = <<a, b>>
    <3>1. PICK c \in D, d \in D : cd = <<c, d>>
      BY <1>4
    <3> QED
      BY <1>2, <1>6, <2>2, <3>1
  <2> QED
    BY <1>1, <2>1, <2>2
<1> QED
  BY <1>0, <1>5, <1>6

(* A span is given by its first and last position. *)
LEMMA SpansArePairs ==
    ASSUME NEW t \in Seq(Token), NEW ab \in Spans(t)
    PROVE  \E a, b \in 1..Len(t) : ab = <<a, b>>
<1>1. ab \in (DOMAIN t) \X (DOMAIN t) /\ DOMAIN t = 1..Len(t)
  BY DEF Spans
<1> QED
  BY <1>1

(* A solid interval that nothing solid reaches over is a span, and the only
   one that has a symbol of it. *)
LEMMA SpanFound ==
    ASSUME NEW t \in Seq(Token), NEW p \in 1..Len(t), NEW m \in p..Len(t),
           Solid(t, p, m), Outside("blocks", t, p), Outside("blocks", t, m + 1)
    PROVE  /\ <<p, m>> \in Spans(t)
           /\ \A ab \in Spans(t), r \in p..m :
                  r \in ab[1]..ab[2] => ab = <<p, m>>
<1>0. Len(t) \in Nat /\ p \in Nat /\ m \in Nat /\ m \in 1..Len(t)
  OBVIOUS
<1>1. \A a, b \in 1..Len(t) :
          Solid(t, a, b) => (b < p \/ p <= a) /\ (b < m + 1 \/ m + 1 <= a) /\ a <= b
  BY DEF Outside, Solid
<1>2. <<p, m>> \in Spans(t)
  <2>1. ASSUME NEW c \in 1..Len(t), NEW d \in 1..Len(t),
               Solid(t, c, d), c <= p, m <= d
        PROVE  c = p /\ d = m
    BY <1>0, <1>1, <2>1
  <2> QED
    BY <1>0, <2>1, SpansAre
<1>3. ASSUME NEW ab \in Spans(t), NEW r \in p..m, r \in ab[1]..ab[2]
      PROVE  ab = <<p, m>>
  <2>1. PICK a \in 1..Len(t), b \in 1..Len(t) : ab = <<a, b>>
    BY SpansArePairs
  <2>2. /\ Solid(t, a, b)
        /\ \A c, d \in 1..Len(t) :
               Solid(t, c, d) /\ c <= a /\ b <= d => c = a /\ d = b
    BY <2>1, SpansAre
  <2>3. r \in a..b
    BY <1>3, <2>1
  <2>4. p <= a /\ b <= m
    BY <1>0, <1>1, <2>2, <2>3
  <2>5. p = a /\ m = b
    BY <1>0, <2>2, <2>4
  <2> QED
    BY <2>1, <2>5
<1> QED
  BY <1>2, <1>3

(* A span that looks like base64 becomes one placeholder. *)
LEMMA BlockReplaced ==
    ASSUME NEW t \in Seq(Token), NEW p \in 1..Len(t), NEW m \in p..Len(t),
           Solid(t, p, m), Outside("blocks", t, p), Outside("blocks", t, m + 1),
           LooksBase64(SubSeq(t, p, m))
    PROVE  /\ Part("blocks", t, p) = <<Blob>>
           /\ \A r \in p + 1..m : Part("blocks", t, r) = <<>>
<1>0. Len(t) \in Nat /\ p \in Nat /\ m \in Nat /\ p \in p..m
  OBVIOUS
<1>1. /\ <<p, m>> \in Spans(t)
      /\ \A ab \in Spans(t), r \in p..m :
             r \in ab[1]..ab[2] => ab = <<p, m>>
  BY SpanFound
<1> DEFINE pm == <<p, m>>
<1>2. pm[1] = p /\ pm[2] = m
  OBVIOUS
<1>3. pm \in Blocks(t)
  BY <1>1, <1>2 DEF Blocks
<1> HIDE DEF pm
<1>4. ASSUME NEW r \in p..m
      PROVE  InBlock(t, r)
  BY <1>2, <1>3 DEF InBlock
<1>5. BlockBegins(t, p)
  BY <1>2, <1>3 DEF BlockBegins
<1>6. ASSUME NEW r \in p + 1..m, BlockBegins(t, r)
      PROVE  FALSE
  <2>1. PICK ab \in Spans(t) : r = ab[1]
    BY <1>6 DEF BlockBegins, Blocks
  <2>2. PICK a \in 1..Len(t), b \in 1..Len(t) : ab = <<a, b>>
    BY SpansArePairs
  <2>3. a <= b
    BY <2>2, SpansAre DEF Solid
  <2>4. r \in ab[1]..ab[2] /\ r \in p..m
    BY <1>0, <2>1, <2>2, <2>3
  <2>5. ab = <<p, m>>
    BY <1>1, <2>4
  <2> QED
    BY <1>0, <2>1, <2>5
<1>7. p + 1..m \subseteq p..m
  BY <1>0
<1> QED
  BY <1>0, <1>4, <1>5, <1>6, <1>7 DEF Part

(* A span that does not look like base64 is copied. *)
LEMMA SpanKept ==
    ASSUME NEW t \in Seq(Token), NEW p \in 1..Len(t), NEW m \in p..Len(t),
           Solid(t, p, m), Outside("blocks", t, p), Outside("blocks", t, m + 1),
           ~LooksBase64(SubSeq(t, p, m))
    PROVE  \A r \in p..m : Part("blocks", t, r) = <<t[r]>>
<1>1. \A ab \in Spans(t), r \in p..m :
         r \in ab[1]..ab[2] => ab = <<p, m>>
  BY SpanFound
<1>2. ASSUME NEW r \in p..m, InBlock(t, r)
      PROVE  FALSE
  <2>1. PICK ab \in Spans(t) : /\ r \in ab[1]..ab[2]
                               /\ LooksBase64(SubSeq(t, ab[1], ab[2]))
    BY <1>2 DEF InBlock, Blocks
  <2>2. ab = <<p, m>>
    BY <1>1, <2>1
  <2>3. ab[1] = p /\ ab[2] = m
    BY <2>2
  <2> QED
    BY <2>1, <2>3
<1> QED
  BY <1>2 DEF Part

(* A symbol outside of base64 and of every span is its own part. *)
LEMMA OtherCopied ==
    ASSUME NEW t \in Seq(Token), NEW p \in 1..Len(t), t[p] \notin Base64,
           Outside("blocks", t, p)
    PROVE  Part("blocks", t, p) = <<t[p]>> /\ Outside("blocks", t, p + 1)
<1>0. Len(t) \in Nat
  OBVIOUS
<1>1. ASSUME NEW a \in 1..Len(t), NEW b \in 1..Len(t), Solid(t, a, b)
      PROVE  /\ b < p + 1 \/ p + 1 <= a
             /\ p \notin a..b
  BY <1>0, <1>1 DEF Solid, Outside
<1>2. ASSUME InBlock(t, p)
      PROVE  FALSE
  <2>1. PICK ab \in Spans(t) : p \in ab[1]..ab[2]
    BY <1>2 DEF InBlock, Blocks
  <2>2. PICK a \in 1..Len(t), b \in 1..Len(t) : ab = <<a, b>>
    BY SpansArePairs
  <2>3. Solid(t, a, b) /\ p \in a..b
    BY <2>1, <2>2, SpansAre
  <2> QED
    BY <1>1, <2>3
<1> QED
  BY <1>1, <1>2 DEF Part, Outside

(***************************************************************************)
(* The state: what the passes before have left, and what this one has.     *)
(***************************************************************************)
Left ==
    /\ step = "comments" => text = issue
    /\ step = "uris" => text = WithoutComments(issue)
    /\ step \in {"blocks", "span"} => text = WithoutDataURIs(WithoutComments(issue))

SoFar == out = Flat(Parts(step, text), pos - 1)

EndInv ==
    step = "span" =>
        /\ At(pos, Base64)
        /\ pos < end => text[end - 1] \in Base64
        /\ \A p \in end..j - 1 : text[p] = "space"
        /\ end < j => At(j, Base64)

DefinedInv == Left /\ SoFar /\ Outside(step, text, pos) /\ EndInv

(* While a span is searched, the parts are those of the blocks pass. *)
LEMMA SpanAsBlocks ==
    ASSUME NEW t, NEW p
    PROVE  Parts("span", t) = Parts("blocks", t) /\ Outside("span", t, p) = Outside("blocks", t, p)
<1>1. \A q : Part("span", t, q) = Part("blocks", t, q)
  BY DEF Part
<1> QED
  BY <1>1 DEF Parts, Outside

(* A stretch replaced by one symbol adds that symbol to the output. *)
LEMMA OneEmitted ==
    ASSUME NEW P \in Seq(Seq(Token)), NEW p \in 1..Len(P), NEW m \in p..Len(P),
           NEW x \in Token, P[p] = <<x>>, \A r \in p + 1..m : P[r] = <<>>
    PROVE  Flat(P, m) = Flat(P, p - 1) \o <<x>>
<1>0. Len(P) \in Nat
  OBVIOUS
<1>1. p - 1 \in 0..Len(P) - 1 /\ (p - 1) + 1 = p
  BY <1>0
<1>2. Flat(P, p) = Flat(P, p - 1) \o P[p]
  <2> DEFINE n == p - 1
  <2>1. n \in 0..Len(P) - 1 /\ n + 1 = p
    BY <1>1
  <2> HIDE DEF n
  <2>2. Flat(P, n + 1) = Flat(P, n) \o P[n + 1]
    BY <2>1, FlatStep
  <2>3. Flat(P, p) = Flat(P, n) \o P[p]
    BY <2>1, <2>2, Zenon
  <2> QED
    BY <2>3 DEF n
<1>3. p \in 0..Len(P)
  BY <1>0
<1>4. Flat(P, m) = Flat(P, p)
  BY <1>3, FlatSkips
<1> QED
  BY <1>2, <1>4, Zenon

(* A step that emits the parts of the symbols it passes. *)
LEMMA EmitsOne ==
    ASSUME RedactionTypeOK, SoFar, UNCHANGED text, pos <= Len(text),
           Parts(step, text)' = Parts(step, text),
           NEW m \in pos..Len(text), pos' = m + 1, NEW x \in Token, Emit(<<x>>),
           Part(step, text, pos) = <<x>>,
           \A r \in pos + 1..m : Part(step, text, r) = <<>>
    PROVE  SoFar'
<1> DEFINE P == Parts(step, text)
<1>0. Len(text) \in Nat /\ pos \in 1..Len(text) /\ text \in Seq(Token)
  BY DEF RedactionTypeOK
<1>1. /\ P \in Seq(Seq(Token)) /\ Len(P) = Len(text)
      /\ \A p \in 1..Len(text) : P[p] = Part(step, text, p)
  BY <1>0, PartsType
<1>2. Parts(step, text)' = P
  OBVIOUS
<1>3. out' = Flat(P, pos - 1) \o <<x>>
  BY DEF Emit, SoFar
<1> HIDE DEF P
<1>4. /\ pos \in 1..Len(P) /\ m \in pos..Len(P) /\ P[pos] = <<x>>
      /\ \A r \in pos + 1..m : P[r] = <<>>
  BY <1>0, <1>1
<1>5. Flat(P, m) = Flat(P, pos - 1) \o <<x>>
  BY <1>1, <1>4, OneEmitted
<1>6. pos' - 1 = m
  BY <1>0
<1> QED
  BY <1>2, <1>3, <1>5, <1>6, Zenon DEF SoFar

(* Copying a span to the output is what its parts say. *)
LEMMA EmitsSpan ==
    ASSUME RedactionTypeOK, SoFar, UNCHANGED text, pos <= Len(text),
           Parts(step, text)' = Parts(step, text),
           NEW m \in pos..Len(text), pos' = m + 1, Emit(SubSeq(text, pos, m)),
           \A r \in pos..m : Part(step, text, r) = <<text[r]>>
    PROVE  SoFar'
<1> DEFINE P == Parts(step, text)
           a == pos - 1
<1>0. Len(text) \in Nat /\ pos \in 1..Len(text) /\ text \in Seq(Token)
  BY DEF RedactionTypeOK
<1>1. /\ P \in Seq(Seq(Token)) /\ Len(P) = Len(text)
      /\ \A p \in 1..Len(text) : P[p] = Part(step, text, p)
  BY <1>0, PartsType
<1>2. Parts(step, text)' = P
  OBVIOUS
<1>3. out' = Flat(P, a) \o SubSeq(text, pos, m)
  BY DEF Emit, SoFar
<1> HIDE DEF P
<1>4. Len(text) = Len(P) /\ a \in 0..Len(P) /\ m \in a..Len(P) /\ a + 1 = pos
  BY <1>0, <1>1
<1>5. Copied(P, text, a, m)
  BY <1>0, <1>1, <1>4 DEF Copied
<1> HIDE DEF a
<1>6. Flat(P, m) = Flat(P, a) \o SubSeq(text, a + 1, m)
  BY <1>0, <1>1, <1>4, <1>5, FlatCopies
<1>7. pos' - 1 = m
  BY <1>0
<1> QED
  BY <1>2, <1>3, <1>4, <1>6, <1>7, Zenon DEF SoFar

(* A span that is closed is solid, and nothing solid reaches over its end. *)
LEMMA SpanCloses ==
    ASSUME RedactionTypeOK, SpanInv, EndInv, CloseSpan
    PROVE  /\ end - 1 \in pos..Len(text) /\ pos \in 1..Len(text)
           /\ Solid(text, pos, end - 1) /\ Outside("blocks", text, (end - 1) + 1)
<1>0. /\ Len(text) \in Nat /\ pos \in 1..Len(text) /\ end \in Nat /\ j \in Nat
      /\ step = "span" /\ text[pos] \in Base64 /\ "space" \notin Base64
      /\ pos <= end /\ end <= j /\ j <= Len(text) + 1
  BY DEF RedactionTypeOK, EndInv, SpanInv, CloseSpan, At, Base64
<1>1. end = j /\ ~At(end, Base64) /\ ~Resumes(end)
  BY <1>0 DEF EndInv, CloseSpan
<1>2. pos < end
  BY <1>0, <1>1 DEF EndInv, At
<1>3. Solid(text, pos, end - 1)
  <2>1. text[end - 1] \in Base64
    BY <1>0, <1>2 DEF EndInv
  <2>2. \A p \in pos..end - 1 : text[p] \in Base64 \cup {"space"}
    BY <1>0, <1>1 DEF SpanInv
  <2> QED
    BY <1>0, <1>2, <2>1, <2>2 DEF Solid
<1>4. ASSUME NEW a \in 1..Len(text), NEW b \in 1..Len(text), Solid(text, a, b),
             a < end, end <= b
      PROVE  FALSE
  <2> DEFINE m == AfterSpaces(end)
  <2>1. text[end] \in Base64 \cup {"space"} /\ text[b] \in Base64 /\ end \in 1..Len(text)
    BY <1>0, <1>4 DEF Solid
  <2>2. At(end, {"space"})
    BY <1>1, <2>1 DEF At
  <2>3. /\ m \in end..Len(text) + 1 /\ ~At(m, {"space"})
        /\ \A q \in end..m - 1 : At(q, {"space"})
    BY <2>1, AfterSpacesIs
  <2>4. ~At(m, Base64)
    BY <1>1, <2>2 DEF Resumes
  <2> HIDE DEF m
  <2>5. ~(b < m)
    BY <1>0, <1>4, <2>1, <2>3 DEF At
  <2>6. m \in a..b
    BY <1>0, <1>4, <2>3, <2>5
  <2>7. text[m] \in Base64 \cup {"space"}
    BY <1>4, <2>6 DEF Solid
  <2> QED
    BY <1>0, <1>4, <2>3, <2>4, <2>6, <2>7 DEF At
<1>5. Outside("blocks", text, end)
  BY <1>0, <1>4 DEF Outside
<1>6. (end - 1) + 1 = end /\ end - 1 \in pos..Len(text)
  BY <1>0, <1>1, <1>2
<1> QED
  BY <1>0, <1>3, <1>5, <1>6

(* The end of a span keeps the output as defined. *)
LEMMA CloseSpanDefined ==
    ASSUME RedactionTypeOK, SpanInv, DefinedInv, CloseSpan
    PROVE  DefinedInv'
<1> DEFINE m == end - 1
<1>1. /\ m \in pos..Len(text) /\ pos \in 1..Len(text)
      /\ Solid(text, pos, m) /\ Outside("blocks", text, m + 1)
  BY SpanCloses DEF DefinedInv
<1>2. step = "span" /\ step' = "blocks" /\ UNCHANGED <<text, issue>>
  BY DEF CloseSpan
<1>3. Outside("blocks", text, pos)
  BY <1>2, SpanAsBlocks DEF DefinedInv
<1>4. pos' = m + 1
  BY DEF CloseSpan, RedactionTypeOK
<1>5. /\ LooksBase64(SubSeq(text, pos, m)) => Emit(<<Blob>>)
      /\ ~LooksBase64(SubSeq(text, pos, m)) => Emit(SubSeq(text, pos, m))
  BY DEF CloseSpan
<1> HIDE DEF m
<1>6. Parts(step, text)' = Parts(step, text)
  BY <1>2, SpanAsBlocks
<1>7. \A r \in pos..m : Part(step, text, r) = Part("blocks", text, r)
  BY <1>2 DEF Part
<1>8. text \in Seq(Token) /\ Len(text) \in Nat /\ SoFar /\ pos <= Len(text) /\ pos \in Nat
  BY <1>1 DEF RedactionTypeOK, DefinedInv
<1>9. SoFar'
  <2>1. CASE LooksBase64(SubSeq(text, pos, m))
    <3>1. /\ Part("blocks", text, pos) = <<Blob>>
          /\ \A r \in pos + 1..m : Part("blocks", text, r) = <<>>
      BY <1>1, <1>3, <1>8, <2>1, BlockReplaced
    <3>2. /\ Part(step, text, pos) = <<Blob>>
          /\ \A r \in pos + 1..m : Part(step, text, r) = <<>>
      BY <1>1, <1>7, <1>8, <3>1
    <3>3. Emit(<<Blob>>) /\ Blob \in Token
      BY <1>5, <2>1 DEF Token
    <3> QED
      BY <1>1, <1>2, <1>4, <1>6, <1>8, <3>2, <3>3, EmitsOne
  <2>2. CASE ~LooksBase64(SubSeq(text, pos, m))
    <3>1. \A r \in pos..m : Part("blocks", text, r) = <<text[r]>>
      BY <1>1, <1>3, <1>8, <2>2, SpanKept
    <3>2. \A r \in pos..m : Part(step, text, r) = <<text[r]>>
      BY <1>7, <3>1
    <3>3. Emit(SubSeq(text, pos, m))
      BY <1>5, <2>2
    <3> QED
      BY <1>1, <1>2, <1>4, <1>6, <1>8, <3>2, <3>3, EmitsSpan
  <2> QED
    BY <2>1, <2>2
<1> QED
  BY <1>1, <1>2, <1>4, <1>9 DEF DefinedInv, Left, EndInv

(* Replacing a comment keeps the output as defined. *)
LEMMA RemoveCommentDefined ==
    ASSUME RedactionTypeOK, DefinedInv, RemoveComment
    PROVE  DefinedInv'
<1> DEFINE m == Min(Ends(pos))
<1>0. /\ Len(text) \in Nat /\ text \in Seq(Token) /\ pos \in 1..Len(text)
      /\ step = "comments" /\ text[pos] = "<!--" /\ UNCHANGED <<step, issue, text>>
      /\ pos' = m + 1 /\ Emit(<<Comment>>) /\ Comment \in Token
  BY DEF RedactionTypeOK, RemoveComment, At, Token
<1>1. /\ m \in pos..Len(text) /\ text[m] = "-->"
      /\ \A q \in pos..m - 1 : text[q] # "-->"
  BY <1>0, FirstEndIs DEF RemoveComment
<1> HIDE DEF m
<1>2. /\ Part("comments", text, pos) = <<Comment>>
      /\ \A r \in pos + 1..m : Part("comments", text, r) = <<>>
      /\ Outside("comments", text, m + 1)
  BY <1>0, <1>1, CommentReplaced DEF DefinedInv
<1>3. Parts(step, text)' = Parts(step, text)
  BY <1>0
<1>4. SoFar'
  BY <1>0, <1>1, <1>2, <1>3, EmitsOne DEF DefinedInv
<1> QED
  BY <1>0, <1>2, <1>4 DEF DefinedInv, Left, EndInv

(* Replacing a data URI keeps the output as defined. *)
LEMMA RemoveDataURIDefined ==
    ASSUME RedactionTypeOK, DefinedInv, RemoveDataURI
    PROVE  DefinedInv'
<1> DEFINE m == Max(Payload(pos + 1))
<1>0. /\ Len(text) \in Nat /\ text \in Seq(Token) /\ pos \in 1..Len(text)
      /\ step = "uris" /\ text[pos] = "data:" /\ UNCHANGED <<step, issue, text>>
      /\ pos' = m + 1 /\ Emit(<<Blob>>) /\ Blob \in Token
  BY DEF RedactionTypeOK, RemoveDataURI, At, Token
<1>1. /\ m \in pos + 1..Len(text) /\ \A q \in pos + 1..m : text[q] \in Base64
      /\ ~At(m + 1, Base64)
  BY <1>0, PayloadIs DEF RemoveDataURI
<1> HIDE DEF m
<1>2. m \in pos..Len(text) /\ (m + 1 <= Len(text) => text[m + 1] \notin Base64)
  BY <1>0, <1>1 DEF At
<1>3. /\ Part("uris", text, pos) = <<Blob>>
      /\ \A r \in pos + 1..m : Part("uris", text, r) = <<>>
      /\ Outside("uris", text, m + 1)
  BY <1>0, <1>1, <1>2, URIReplaced
<1>4. Parts(step, text)' = Parts(step, text)
  BY <1>0
<1>5. SoFar'
  BY <1>0, <1>2, <1>3, <1>4, EmitsOne DEF DefinedInv
<1> QED
  BY <1>0, <1>3, <1>5 DEF DefinedInv, Left, EndInv

(* Copying one symbol keeps the output as defined. *)
LEMMA CopyDefined ==
    ASSUME RedactionTypeOK, DefinedInv, Copy
    PROVE  DefinedInv'
<1>0. /\ Len(text) \in Nat /\ text \in Seq(Token) /\ pos \in 1..Len(text)
      /\ step \in {"comments", "uris", "blocks"} /\ UNCHANGED <<step, issue, text>>
      /\ pos' = pos + 1 /\ Emit(<<text[pos]>>) /\ text[pos] \in Token
  BY DEF RedactionTypeOK, Copy
<1>1. Part(step, text, pos) = <<text[pos]>> /\ Outside(step, text, pos + 1)
  <2>1. CASE step = "comments"
    <3>1. text[pos] = "<!--" => \A q \in pos..Len(text) : text[q] # "-->"
      BY <2>1 DEF Copy, Ends
    <3> QED
      BY <1>0, <2>1, <3>1, CommentCopied DEF DefinedInv
  <2>2. CASE step = "uris"
    <3>1. ~HasPayload(text, pos)
      <4> SUFFICES ASSUME HasPayload(text, pos) PROVE FALSE
        OBVIOUS
      <4>1. pos + 1 \in Payload(pos + 1)
        BY <1>0 DEF Payload, HasPayload
      <4> QED
        BY <2>2, <4>1 DEF Copy, HasPayload
    <3> QED
      BY <1>0, <2>2, <3>1, URICopied DEF DefinedInv
  <2>3. CASE step = "blocks"
    BY <1>0, <2>3, OtherCopied DEF DefinedInv, Copy
  <2> QED
    BY <1>0, <2>1, <2>2, <2>3
<1>2. SoFar'
  <2>1. Parts(step, text)' = Parts(step, text)
    BY <1>0
  <2>2. pos \in pos..Len(text) /\ pos + 1..pos = {} /\ pos <= Len(text)
    BY <1>0
  <2> QED
    BY <1>0, <1>1, <2>1, <2>2, EmitsOne DEF DefinedInv
<1> QED
  BY <1>0, <1>1, <1>2 DEF DefinedInv, Left, EndInv

(* The end of a pass: its output is the definition's, and the next pass has none yet. *)
LEMMA HandOnDefined ==
    ASSUME RedactionTypeOK, DefinedInv, HandOn
    PROVE  DefinedInv'
<1>0. /\ text \in Seq(Token) /\ pos - 1 = Len(text) /\ text' = out /\ out' = <<>>
      /\ pos' = 1 /\ step \in {"comments", "uris"} /\ UNCHANGED issue
      /\ step' = IF step = "comments" THEN "uris" ELSE "blocks"
  BY DEF RedactionTypeOK, HandOn
<1>1. out = FlattenSeq(Parts(step, text))
  <2> DEFINE P == Parts(step, text)
  <2>1. P \in Seq(Seq(Token)) /\ Len(P) = Len(text)
    BY <1>0, PartsType
  <2>2. out = Flat(P, pos - 1)
    BY DEF DefinedInv, SoFar
  <2> HIDE DEF P
  <2>3. out = Flat(P, Len(P))
    BY <1>0, <2>1, <2>2, Zenon
  <2>4. out = FlattenSeq(P)
    BY <2>1, <2>3, FlatAll
  <2> QED
    BY <2>4 DEF P
<1>2. Left'
  BY <1>0, <1>1, PartsDefine DEF DefinedInv, Left
<1>3. SoFar'
  <2>1. pos' - 1 = 0
    BY <1>0
  <2>2. Flat(Parts(step, text)', 0) = <<>>
    BY FlatZero
  <2> QED
    BY <1>0, <2>1, <2>2, Zenon DEF SoFar
<1>4. Outside(step, text, pos)'
  <2>1. \A s, t : Outside(s, t, 1)
    BY DEF Outside, Solid
  <2> QED
    BY <1>0, <2>1
<1> QED
  BY <1>0, <1>2, <1>3, <1>4 DEF DefinedInv, EndInv

(* The search for a span's end emits nothing. *)
LEMMA SearchDefined ==
    ASSUME RedactionTypeOK, SpanInv, DefinedInv, StartSpan \/ ExtendSpan \/ AbsorbSpaces
    PROVE  DefinedInv'
<1>0. /\ UNCHANGED <<issue, text, out, pos>> /\ step \in {"blocks", "span"} /\ step' = "span"
      /\ Len(text) \in Nat /\ pos \in Nat /\ j \in Nat /\ end \in Nat
  BY DEF StartSpan, ExtendSpan, AbsorbSpaces, RedactionTypeOK
<1>1. Left' /\ SoFar' /\ Outside(step, text, pos)'
  <2>1. Parts(step, text)' = Parts(step, text)
    BY <1>0, SpanAsBlocks
  <2>2. Outside(step, text, pos)' = Outside(step, text, pos)
    BY <1>0, SpanAsBlocks
  <2> QED
    BY <1>0, <2>1, <2>2 DEF DefinedInv, Left, SoFar
<1>2. EndInv'
  <2>1. CASE StartSpan
    BY <1>0, <2>1 DEF StartSpan, EndInv, At
  <2>2. CASE ExtendSpan
    BY <1>0, <2>2 DEF ExtendSpan, DefinedInv, EndInv, At
  <2>3. CASE AbsorbSpaces
    <3> DEFINE m == AfterSpaces(j)
    <3>1. /\ step = "span" /\ j' = m /\ end' = end /\ At(m, Base64)
          /\ At(j, {"space"})
      BY <2>3 DEF AbsorbSpaces, Resumes
    <3>2. j \in 1..Len(text)
      BY <1>0, <3>1 DEF At, SpanInv, RedactionTypeOK
    <3>3. m \in j..Len(text) + 1 /\ \A q \in j..m - 1 : At(q, {"space"})
      BY <3>2, AfterSpacesIs
    <3>4. end = j
      BY <1>0, <3>1 DEF DefinedInv, EndInv, SpanInv, At, Base64
    <3> HIDE DEF m
    <3>5. \A p \in end..m - 1 : text[p] = "space"
      BY <1>0, <3>3, <3>4 DEF At
    <3> QED
      BY <1>0, <3>1, <3>4, <3>5 DEF DefinedInv, EndInv, At
  <2> QED
    BY <2>1, <2>2, <2>3
<1> QED
  BY <1>1, <1>2 DEF DefinedInv

(* Every step keeps the output as defined. *)
LEMMA DefinedStep ==
    ASSUME RedactionTypeOK, SpanInv, DefinedInv, RedactionNext
    PROVE  DefinedInv'
BY RemoveCommentDefined, RemoveDataURIDefined, CopyDefined, HandOnDefined,
   SearchDefined, CloseSpanDefined DEF RedactionNext

-----------------------------------------------------------------------------
(***************************************************************************)
(* The count: one for each placeholder in the output, and for those of the *)
(* pass before that are still to be copied.                                *)
(***************************************************************************)
Placeholder == {Blob, Comment}

Marks(t, a) == {p \in a..Len(t) : t[p] \in Placeholder}

Marked == Cardinality(Marks(out, 1))
ToCome == Cardinality(Marks(text, pos))

CountInv == redacted = Marked + ToCome

(* The placeholders of a text can be counted. *)
LEMMA MarksFinite ==
    ASSUME NEW t \in Seq(Token), NEW a \in Nat
    PROVE  IsFiniteSet(Marks(t, a)) /\ Cardinality(Marks(t, a)) \in Nat
<1>1. a..Len(t) \in SUBSET Int /\ a \in Int /\ Len(t) \in Int
  OBVIOUS
<1>2. IsFiniteSet(a..Len(t))
  BY <1>1, FS_Interval
<1>3. Marks(t, a) \subseteq a..Len(t)
  BY DEF Marks
<1>4. IsFiniteSet(Marks(t, a))
  BY <1>2, <1>3, FS_Subset
<1> QED
  BY <1>4, FS_CardinalityType

(* The counts are numbers. *)
LEMMA MarkedTypes ==
    ASSUME RedactionTypeOK
    PROVE  Marked \in Nat /\ ToCome \in Nat
<1>1. text \in Seq(Token) /\ out \in Seq(Token) /\ pos \in Nat /\ 1 \in Nat
  BY DEF RedactionTypeOK
<1> QED
  BY <1>1, MarksFinite DEF Marked, ToCome

(* One placeholder more counts one more. *)
LEMMA OneMark ==
    ASSUME NEW M, IsFiniteSet(M), NEW n, n \notin M
    PROVE  Cardinality(M \cup {n}) = Cardinality(M) + 1
BY FS_AddElement

(* An emitted symbol counts if it is a placeholder. *)
LEMMA MarkEmitted ==
    ASSUME RedactionTypeOK, NEW x \in Token, Emit(<<x>>)
    PROVE  Marked' = IF x \in Placeholder THEN Marked + 1 ELSE Marked
<1> DEFINE n == Len(out)
           M == Marks(out, 1)
<1>0. n \in Nat /\ out \in Seq(Token)
  BY DEF RedactionTypeOK
<1>1. /\ Len(out') = n + 1 /\ out'[n + 1] = x
      /\ \A p \in 1..n : out'[p] = out[p]
  BY EmittedOne
<1>2. IsFiniteSet(M) /\ n + 1 \notin M
  BY <1>0, MarksFinite DEF Marks
<1>3. /\ x \in Placeholder => Marks(out, 1)' = M \cup {n + 1}
      /\ x \notin Placeholder => Marks(out, 1)' = M
  BY <1>0, <1>1 DEF Marks
<1>4. Marked = Cardinality(M) /\ Marked' = Cardinality(Marks(out, 1)')
  BY DEF Marked
<1> HIDE DEF M, n
<1>5. Cardinality(M \cup {n + 1}) = Cardinality(M) + 1
  BY <1>2, OneMark
<1> QED
  BY <1>3, <1>4, <1>5, Zenon

(* A copied span has no placeholder. *)
LEMMA SpanMarks ==
    ASSUME RedactionTypeOK, NEW w \in Seq(Base64 \cup {"space"}), Emit(w)
    PROVE  Marks(out, 1)' = Marks(out, 1)
<1> DEFINE n == Len(out)
           m == Len(w)
<1>0. n \in Nat /\ m \in Nat /\ w \in Seq(Token) /\ \A p \in 1..m : w[p] \notin Placeholder
  BY SeqMonotonic, SMTT(40) DEF RedactionTypeOK, Placeholder, Blob, Comment, Base64, Token, Symbol
<1>1. /\ Len(out') = n + m
      /\ \A p \in 1..n + m : out'[p] = IF p <= n THEN out[p] ELSE w[p - n]
  BY <1>0, Emitted
<1> HIDE DEF n, m
<1>2. ASSUME NEW p \in n + 1..n + m
      PROVE  out'[p] \notin Placeholder
  <2>1. p - n \in 1..m /\ p \in 1..n + m /\ ~(p <= n)
    BY <1>0
  <2> QED
    BY <1>0, <1>1, <2>1
<1>3. \A p \in 1..n : out'[p] = out[p]
  BY <1>0, <1>1
<1> QED
  BY <1>0, <1>1, <1>2, <1>3 DEF Marks, n

(* Passing symbols that are no placeholders leaves as many to come. *)
LEMMA MarksSkip ==
    ASSUME NEW t \in Seq(Token), NEW p \in Nat, NEW m \in Nat, p <= m + 1,
           \A q \in p..m : t[q] \notin Placeholder
    PROVE  Marks(t, m + 1) = Marks(t, p)
BY DEF Marks

(* Every step keeps the count of placeholders. *)
LEMMA CountStep ==
    ASSUME RedactionTypeOK, SpanInv, DefinedInv, CountInv, RedactionNext
    PROVE  CountInv'
<1>0. /\ text \in Seq(Token) /\ out \in Seq(Token) /\ Len(text) \in Nat
      /\ pos \in 1..Len(text) + 1 /\ pos \in Nat /\ redacted \in Nat
      /\ Blob \in Token /\ Comment \in Token
      /\ Marked \in Nat /\ ToCome \in Nat
  BY MarkedTypes DEF RedactionTypeOK, Token
<1>a. Placeholder \cap Symbol = {} /\ Base64 \cup {"space", "data:"} \subseteq Symbol
  BY DEF Placeholder, Symbol, Base64, Blob, Comment
<1>1. CASE RemoveComment
  <2> DEFINE m == Min(Ends(pos))
  <2>1. /\ UNCHANGED text /\ pos' = m + 1 /\ redacted' = redacted + 1 /\ Emit(<<Comment>>)
        /\ m \in pos..Len(text) /\ text = issue
    BY <1>0, <1>1, FirstEndIs DEF RemoveComment, At, DefinedInv, Left
  <2> HIDE DEF m
  <2>2. \A q \in pos..m : text[q] \notin Placeholder
    BY <1>0, <1>a, <2>1 DEF RedactionTypeOK
  <2>3. ToCome' = ToCome
    BY <1>0, <2>1, <2>2, MarksSkip, SMTT(40) DEF ToCome
  <2>4. Marked' = Marked + 1
    BY <1>0, <2>1, MarkEmitted DEF Placeholder
  <2> QED
    BY <1>0, <2>1, <2>3, <2>4 DEF CountInv
<1>2. CASE RemoveDataURI
  <2> DEFINE m == Max(Payload(pos + 1))
  <2>1. /\ UNCHANGED text /\ pos' = m + 1 /\ redacted' = redacted + 1 /\ Emit(<<Blob>>)
        /\ m \in pos + 1..Len(text) /\ text[pos] = "data:"
        /\ \A q \in pos + 1..m : text[q] \in Base64
    BY <1>0, <1>2, PayloadIs DEF RemoveDataURI, At
  <2> HIDE DEF m
  <2>2. \A q \in pos..m : text[q] \notin Placeholder
    BY <1>0, <1>a, <2>1
  <2>3. ToCome' = ToCome
    BY <1>0, <2>1, <2>2, MarksSkip DEF ToCome
  <2>4. Marked' = Marked + 1
    BY <1>0, <2>1, MarkEmitted DEF Placeholder
  <2> QED
    BY <1>0, <2>1, <2>3, <2>4 DEF CountInv
<1>3. CASE Copy
  <2> DEFINE x == text[pos]
             M == Marks(text, pos + 1)
  <2>1. /\ pos \in 1..Len(text) /\ x \in Token /\ Emit(<<x>>)
        /\ UNCHANGED <<text, redacted>> /\ pos' = pos + 1
    BY <1>0, <1>3 DEF Copy
  <2>2. Marked' = IF x \in Placeholder THEN Marked + 1 ELSE Marked
    BY <2>1, MarkEmitted
  <2>3. /\ x \in Placeholder => Marks(text, pos) = M \cup {pos}
        /\ x \notin Placeholder => Marks(text, pos) = M
    BY <1>0, <2>1 DEF Marks
  <2>4. IsFiniteSet(M) /\ Cardinality(M) \in Nat /\ pos \notin M
    BY <1>0, <2>1, MarksFinite, SMTT(40) DEF Marks
  <2>5. ToCome' = Cardinality(M) /\ ToCome = Cardinality(Marks(text, pos))
    BY <2>1 DEF ToCome
  <2> HIDE DEF M, x
  <2>6. Cardinality(M \cup {pos}) = Cardinality(M) + 1
    BY <2>4, OneMark
  <2>7. /\ x \in Placeholder => ToCome = ToCome' + 1
        /\ x \notin Placeholder => ToCome = ToCome'
    BY <2>3, <2>5, <2>6, Zenon
  <2>8. ToCome' \in Nat
    BY <2>4, <2>5
  <2>9. redacted' = redacted /\ redacted = Marked + ToCome
    BY <2>1 DEF CountInv
  <2>10. CASE x \in Placeholder
    BY <1>0, <2>2, <2>7, <2>8, <2>9, <2>10 DEF CountInv
  <2>11. CASE x \notin Placeholder
    BY <1>0, <2>2, <2>7, <2>8, <2>9, <2>11 DEF CountInv
  <2> QED
    BY <2>10, <2>11
<1>4. CASE HandOn
  <2>1. /\ text' = out /\ out' = <<>> /\ pos' = 1 /\ UNCHANGED redacted
        /\ pos > Len(text)
    BY <1>4 DEF HandOn
  <2>2. Marks(text, pos) = {} /\ Marks(out, 1)' = {}
    BY <1>0, <2>1 DEF Marks
  <2>3. Marks(text, pos)' = Marks(out, 1)
    BY <2>1
  <2>4. ToCome' = Marked /\ ToCome = 0 /\ Marked' = 0
    BY <2>2, <2>3, FS_EmptySet, Zenon DEF ToCome, Marked
  <2> QED
    BY <1>0, <2>1, <2>4 DEF CountInv
<1>5. CASE StartSpan \/ ExtendSpan \/ AbsorbSpaces
  BY <1>5 DEF StartSpan, ExtendSpan, AbsorbSpaces, CountInv, Marked, ToCome
<1>6. CASE CloseSpan
  <2> DEFINE span == SubSeq(text, pos, end - 1)
             m == end - 1
  <2>1. /\ m \in pos..Len(text) /\ Solid(text, pos, m)
    BY <1>6, SpanCloses DEF DefinedInv
  <2>2. span \in Seq(Base64 \cup {"space"})
    BY <1>6, SpanIs DEF CloseSpan
  <2>3. /\ UNCHANGED text /\ pos' = m + 1
        /\ \/ Emit(<<Blob>>) /\ redacted' = redacted + 1
           \/ Emit(span) /\ UNCHANGED redacted
    BY <1>6 DEF CloseSpan, RedactionTypeOK
  <2> HIDE DEF span, m
  <2>4. \A q \in pos..m : text[q] \notin Placeholder
    BY <1>a, <2>1 DEF Solid
  <2>5. ToCome' = ToCome
    BY <1>0, <2>1, <2>3, <2>4, MarksSkip, SMTT(40) DEF ToCome
  <2>6. CASE Emit(<<Blob>>) /\ redacted' = redacted + 1
    <3>1. Marked' = Marked + 1
      BY <1>0, <2>6, MarkEmitted DEF Placeholder
    <3> QED
      BY <1>0, <2>5, <2>6, <3>1 DEF CountInv
  <2>7. CASE Emit(span) /\ UNCHANGED redacted
    <3>1. Marked' = Marked
      BY <2>2, <2>7, SpanMarks DEF Marked
    <3> QED
      BY <2>5, <2>7, <3>1 DEF CountInv
  <2> QED
    BY <2>3, <2>6, <2>7
<1> QED
  BY <1>1, <1>2, <1>3, <1>4, <1>5, <1>6 DEF RedactionNext

(* Before the first step nothing is read, emitted or counted. *)
LEMMA DefinedInitially ==
    ASSUME RedactionInit, HiddenInv
    PROVE  DefinedInv /\ CountInv
<1>1. step = "comments" /\ text = issue /\ out = <<>> /\ pos = 1 /\ redacted = 0
  BY DEF RedactionInit
<1>2. issue \in Seq(Symbol)
  BY DEF HiddenInv, RedactionTypeOK
<1>3. SoFar
  <2>1. Flat(Parts(step, text), 0) = <<>>
    BY FlatZero
  <2> QED
    BY <1>1, <2>1 DEF SoFar
<1>4. Left /\ Outside(step, text, pos) /\ EndInv
  BY <1>1 DEF Left, Outside, EndInv
<1>5. Marks(out, 1) = {} /\ Marks(text, pos) = {}
  BY <1>1, <1>2 DEF Marks, Symbol, Base64, Placeholder, Blob, Comment
<1>6. Marked = 0 /\ ToCome = 0
  BY <1>5, FS_EmptySet, Zenon DEF Marked, ToCome
<1> QED
  BY <1>1, <1>3, <1>4, <1>6 DEF DefinedInv, CountInv

(* The invariant of sanitizeForModel, whole. *)
SanitizeInv == HiddenInv /\ DefinedInv /\ CountInv

(* The output of each pass so far is that of its definition, and as many placeholders
   are in it, or still to be copied to it, as were counted. *)
THEOREM SanitizeInvariant == RedactionSpec => []SanitizeInv
<1>1. RedactionInit => SanitizeInv
  BY HiddenInitially, DefinedInitially DEF SanitizeInv
<1>2. SanitizeInv /\ HiddenInv' /\ [RedactionNext]_redactionVars => SanitizeInv'
  <2> SUFFICES ASSUME SanitizeInv, HiddenInv', [RedactionNext]_redactionVars
               PROVE  SanitizeInv'
    OBVIOUS
  <2>1. CASE RedactionNext
    BY <2>1, DefinedStep, CountStep DEF SanitizeInv, HiddenInv
  <2>2. CASE UNCHANGED redactionVars
    BY <2>2 DEF redactionVars, SanitizeInv, DefinedInv, Left, SoFar, EndInv, At, CountInv,
       Marked, ToCome
  <2> QED
    BY <2>1, <2>2
<1> QED
  BY <1>1, <1>2, RedactionInvariant, PTL DEF RedactionSpec

(* At the end, the output is the parts of the last pass. *)
LEMMA OutputIsParts ==
    ASSUME SanitizeInv, Sanitized
    PROVE  out = FlattenSeq(Parts("blocks", text))
<1> DEFINE P == Parts("blocks", text)
<1>0. /\ step = "blocks" /\ pos - 1 = Len(text) /\ text \in Seq(Token)
  BY DEF Sanitized, SanitizeInv, HiddenInv, RedactionTypeOK
<1>1. P \in Seq(Seq(Token)) /\ Len(P) = Len(text)
  BY <1>0, PartsType
<1>2. out = Flat(P, Len(text))
  BY <1>0, Zenon DEF SanitizeInv, DefinedInv, SoFar
<1> HIDE DEF P
<1>3. Flat(P, Len(P)) = FlattenSeq(P)
  BY <1>1, FlatAll
<1> QED
  BY <1>1, <1>2, <1>3, Zenon DEF P

(* What sanitizeForModel makes of an issue of any length is what the three
   definitions say, and it counts its substitutions. *)
THEOREM SanitizedAsDefinedHolds == RedactionSpec => []SanitizedAsDefined
<1>1. SanitizeInv => SanitizedAsDefined
  <2> SUFFICES ASSUME SanitizeInv, Sanitized
               PROVE  /\ out = WithoutBlocks(WithoutDataURIs(WithoutComments(issue)))
                      /\ redacted = Count(out, {Blob, Comment})
    BY DEF SanitizedAsDefined
  <2>0. /\ step = "blocks" /\ pos - 1 = Len(text) /\ Len(text) \in Nat
        /\ text \in Seq(Token) /\ out \in Seq(Token) /\ pos > Len(text)
    BY DEF Sanitized, SanitizeInv, HiddenInv, RedactionTypeOK
  <2>1. text = WithoutDataURIs(WithoutComments(issue))
    BY <2>0 DEF SanitizeInv, DefinedInv, Left
  <2>2. out = FlattenSeq(Parts("blocks", text))
    BY OutputIsParts
  <2>3. WithoutBlocks(text) = FlattenSeq(Parts("blocks", text))
    BY <2>0, PartsDefine
  <2>4. DOMAIN out = 1..Len(out) /\ pos \in Nat
    BY <2>0 DEF SanitizeInv, HiddenInv, RedactionTypeOK
  <2>5. Marks(text, pos) = {}
    BY <2>0, <2>4 DEF Marks
  <2>6. Marks(out, 1) = {p \in DOMAIN out : out[p] \in {Blob, Comment}}
    BY <2>4 DEF Marks, Placeholder
  <2>7. redacted = Count(out, {Blob, Comment})
    <3>1. ToCome = 0
      BY <2>5, FS_EmptySet, Zenon DEF ToCome
    <3>2. Marked = Count(out, {Blob, Comment})
      BY <2>6, Zenon DEF Marked, Count
    <3>3. Marked \in Nat
      BY MarkedTypes DEF SanitizeInv, HiddenInv
    <3> QED
      BY <3>1, <3>2, <3>3 DEF SanitizeInv, CountInv
  <2> QED
    BY <2>1, <2>2, <2>3, <2>7, Zenon
<1> QED
  BY <1>1, SanitizeInvariant, PTL

-----------------------------------------------------------------------------
(***************************************************************************)
(* Chunking.  Of parts that are one symbol or none, each one that is       *)
(* not empty has its place in what they make, in the order of the parts.   *)
(***************************************************************************)
Thin(P) == \A p \in 1..Len(P) : Len(P[p]) <= 1

Kept(P) == {p \in 1..Len(P) : P[p] # <<>>}

Lands(P, p) == Len(Flat(P, p))

Placed(P, n) ==
    /\ \A p \in Kept(P) : p <= n =>
           Lands(P, p) \in 1..Lands(P, n) /\ Flat(P, n)[Lands(P, p)] = P[p][1]
    /\ \A p, q \in Kept(P) : p < q /\ q <= n => Lands(P, p) < Lands(P, q)
    /\ \A x \in 1..Lands(P, n) : \E p \in Kept(P) : p <= n /\ Lands(P, p) = x

(* A text that is not longer than one symbol. *)
LEMMA OneOrNone ==
    ASSUME NEW S, NEW w \in Seq(S), Len(w) <= 1
    PROVE  w = <<>> \/ (w # <<>> /\ Len(w) = 1)
<1> DEFINE n == Len(w)
<1>1. n \in Nat /\ (n = 0 => w = <<>>) /\ n <= 1
  BY EmptySeq
<1>2. Len(w) = 1 => w # <<>>
  OBVIOUS
<1> HIDE DEF n
<1>3. n = 0 \/ n = 1
  BY <1>1
<1> QED
  BY <1>1, <1>2, <1>3, Zenon DEF n

(* What one part more adds. *)
LEMMA PlacedStep ==
    ASSUME NEW S, NEW P \in Seq(Seq(S)), Thin(P), NEW n \in 0..Len(P) - 1, Placed(P, n)
    PROVE  Placed(P, n + 1)
<1> DEFINE F == Flat(P, n)
           G == Flat(P, n + 1)
           w == P[n + 1]
           h(p) == Lands(P, p)
<1>0. /\ Len(P) \in Nat /\ n \in Nat /\ n + 1 \in 1..Len(P) /\ Kept(P) \subseteq 1..Len(P)
      /\ n \in 0..Len(P) /\ n + 1 \in 0..Len(P)
  BY DEF Kept
<1>1. F \in Seq(S) /\ G = F \o w /\ w \in Seq(S) /\ h(n) = Len(F) /\ h(n + 1) = Len(G)
  <2>1. G = F \o w
    BY FlatStep
  <2>2. F \in Seq(S)
    BY <1>0, FlatType
  <2>3. w \in Seq(S)
    BY <1>0
  <2> QED
    BY <2>1, <2>2, <2>3 DEF Lands
<1>2. w = <<>> \/ (w # <<>> /\ Len(w) = 1)
  <2>1. Len(w) <= 1
    BY <1>0 DEF Thin
  <2> QED
    BY <1>1, <2>1, OneOrNone
<1>3. CASE w = <<>>
  <2>1. G = F /\ n + 1 \notin Kept(P) /\ h(n + 1) = h(n)
    BY <1>1, <1>3, ConcatEmptySeq DEF Kept
  <2>2. \A p \in Kept(P) : p <= n + 1 <=> p <= n
    BY <1>0, <2>1
  <2> QED
    BY <2>1, <2>2, Zenon DEF Placed
<1>4. CASE w # <<>> /\ Len(w) = 1
  <2>1. /\ Len(G) = Len(F) + 1 /\ G[Len(F) + 1] = w[1]
        /\ \A x \in 1..Len(F) : G[x] = F[x]
    <3> HIDE DEF F, G, w
    <3>1. F \in Seq(S) /\ w \in Seq(S) /\ Len(F \o w) = Len(F) + Len(w)
      BY <1>1
    <3>2. \A x \in 1..Len(F) + Len(w) :
              (F \o w)[x] = IF x <= Len(F) THEN F[x] ELSE w[x - Len(F)]
      BY <1>1
    <3>3. Len(F) \in Nat /\ Len(w) = 1 /\ G = F \o w
      BY <1>1, <1>4
    <3> QED
      BY <3>1, <3>2, <3>3
  <2>2. n + 1 \in Kept(P)
    BY <1>0, <1>4 DEF Kept
  <2> HIDE DEF F, G, w
  <2>3. h(n + 1) = h(n) + 1 /\ h(n) \in Nat
    BY <1>1, <2>1
  <2>a. h(n + 1) \in 1..h(n + 1)
    BY <2>3
  <2>b. G[h(n + 1)] = P[n + 1][1]
    <3>1. h(n + 1) = Len(F) + 1 /\ G[Len(F) + 1] = w[1]
      BY <1>1, <2>1
    <3> QED
      BY <3>1, Zenon DEF w
  <2> HIDE DEF h
  <2>4. ASSUME NEW p \in Kept(P), p <= n
        PROVE  h(p) \in 1..h(n) /\ h(p) < h(n + 1) /\ F[h(p)] = P[p][1]
    <3>1. h(p) \in 1..h(n) /\ F[h(p)] = P[p][1]
      BY <2>4, Zenon DEF Placed, h, F
    <3> QED
      BY <2>3, <3>1
  <2>5. ASSUME NEW p \in Kept(P), p <= n + 1
        PROVE  h(p) \in 1..h(n + 1) /\ G[h(p)] = P[p][1]
    <3>1. CASE p = n + 1
      BY <2>a, <2>b, <3>1
    <3>2. CASE p <= n
      BY <1>1, <2>1, <2>3, <2>4, <3>2
    <3> QED
      BY <1>0, <2>5, <3>1, <3>2
  <2>6. ASSUME NEW p \in Kept(P), NEW q \in Kept(P), p < q, q <= n + 1
        PROVE  h(p) < h(q)
    <3>1. CASE q <= n
      BY <2>6, <3>1 DEF Placed, h
    <3>2. CASE q = n + 1
      BY <1>0, <2>4, <2>6, <3>2
    <3> QED
      BY <1>0, <2>6, <3>1, <3>2
  <2>7. ASSUME NEW x \in 1..h(n + 1)
        PROVE  \E p \in Kept(P) : p <= n + 1 /\ h(p) = x
    <3>1. CASE x = h(n + 1)
      BY <1>0, <2>2, <3>1
    <3>2. CASE x \in 1..h(n)
      <4>1. PICK p \in Kept(P) : p <= n /\ h(p) = x
        BY <3>2, Zenon DEF Placed, h
      <4> QED
        BY <1>0, <4>1
    <3> QED
      BY <2>3, <3>1, <3>2
  <2> QED
    BY <2>5, <2>6, <2>7, Zenon DEF Placed, h, G
<1> QED
  BY <1>2, <1>3, <1>4

(* Every kept part has its place in the whole, and every place its part. *)
LEMMA PlacesAre ==
    ASSUME NEW S, NEW P \in Seq(Seq(S)), Thin(P)
    PROVE  LET F == FlattenSeq(P)
           IN  /\ F \in Seq(S)
               /\ \A p \in Kept(P) : Lands(P, p) \in 1..Len(F) /\ F[Lands(P, p)] = P[p][1]
               /\ \A p, q \in Kept(P) : p < q => Lands(P, p) < Lands(P, q)
               /\ \A x \in 1..Len(F) : \E p \in Kept(P) : Lands(P, p) = x
<1> DEFINE Good(n) == n <= Len(P) => Placed(P, n)
           T == {n \in Nat : Good(n)}
<1>0. Len(P) \in Nat /\ Kept(P) \subseteq 1..Len(P)
  BY DEF Kept
<1>1. Good(0)
  <2>1. Flat(P, 0) = <<>> /\ Lands(P, 0) = 0
    BY FlatZero DEF Lands
  <2>2. \A p \in Kept(P) : ~(p <= 0)
    BY <1>0
  <2> QED
    BY <2>1, <2>2 DEF Placed
<1>2. ASSUME NEW n \in Nat, Good(n)
      PROVE  Good(n + 1)
  <2> SUFFICES ASSUME n + 1 <= Len(P) PROVE Placed(P, n + 1)
    OBVIOUS
  <2>1. n <= Len(P) /\ n \in 0..Len(P) - 1
    BY <1>0
  <2> QED
    BY <1>2, <2>1, PlacedStep
<1> HIDE DEF Good
<1>3. 0 \in T /\ \A n \in Nat : n \in T => n + 1 \in T
  BY <1>1, <1>2
<1> HIDE DEF T
<1>4. Nat \subseteq T
  BY <1>3, SetInduction
<1>5. Placed(P, Len(P))
  BY <1>0, <1>4 DEF T, Good
<1>6. Flat(P, Len(P)) = FlattenSeq(P) /\ FlattenSeq(P) \in Seq(S)
  BY <1>0, FlatAll, FlatType
<1>7. \A p \in Kept(P) : p <= Len(P)
  BY <1>0
<1> QED
  BY <1>5, <1>6, <1>7, Zenon DEF Placed, Lands

(* Two sets that a function maps one to one have as many members. *)
LEMMA SameNumber ==
    ASSUME NEW A, NEW B, IsFiniteSet(A), NEW f \in [A -> B],
           \A x, y \in A : f[x] = f[y] => x = y, \A y \in B : \E x \in A : f[x] = y
    PROVE  IsFiniteSet(B) /\ Cardinality(B) = Cardinality(A)
<1>1. f \in Bijection(A, B)
  BY DEF Bijection, Injection, Surjection, IsInjective
<1>2. ExistsBijection(A, B)
  BY <1>1 DEF ExistsBijection
<1> QED
  BY <1>2, FS_Bijection

(* The symbols of a class that the whole has, counted in the parts. *)
LEMMA CountKept ==
    ASSUME NEW S, NEW P \in Seq(Seq(S)), Thin(P), NEW C
    PROVE  LET A == {p \in Kept(P) : P[p][1] \in C}
           IN  IsFiniteSet(A) /\ Count(FlattenSeq(P), C) = Cardinality(A)
<1> DEFINE F == FlattenSeq(P)
           A == {p \in Kept(P) : P[p][1] \in C}
           B == {x \in DOMAIN F : F[x] \in C}
           f == [p \in A |-> Lands(P, p)]
<1>1. /\ F \in Seq(S)
      /\ \A p \in Kept(P) : Lands(P, p) \in 1..Len(F) /\ F[Lands(P, p)] = P[p][1]
      /\ \A p, q \in Kept(P) : p < q => Lands(P, p) < Lands(P, q)
      /\ \A x \in 1..Len(F) : \E p \in Kept(P) : Lands(P, p) = x
  BY PlacesAre
<1>2. DOMAIN F = 1..Len(F) /\ Len(F) \in Nat
  BY <1>1
<1>3. Len(P) \in Nat /\ A \subseteq 1..Len(P) /\ A \subseteq Kept(P)
  BY DEF Kept
<1> HIDE DEF F
<1>4. IsFiniteSet(A)
  <2>1. IsFiniteSet(1..Len(P))
    BY <1>3, FS_Interval
  <2> QED
    BY <1>3, <2>1, FS_Subset
<1>5. f \in [A -> B]
  BY <1>1, <1>2
<1>6. ASSUME NEW p \in A, NEW q \in A, f[p] = f[q]
      PROVE  p = q
  <2>1. p \in Nat /\ q \in Nat /\ Lands(P, p) \in Nat /\ Lands(P, p) = Lands(P, q)
    BY <1>1, <1>2, <1>3, <1>6
  <2> QED
    BY <1>1, <1>3, <2>1
<1>7. ASSUME NEW x \in B
      PROVE  \E p \in A : f[p] = x
  <2>1. PICK p \in Kept(P) : Lands(P, p) = x
    BY <1>1, <1>2
  <2>2. P[p][1] \in C
    BY <1>1, <2>1
  <2> QED
    BY <2>1, <2>2
<1> HIDE DEF A, B, f
<1>8. Cardinality(B) = Cardinality(A)
  BY <1>4, <1>5, <1>6, <1>7, SameNumber
<1> QED
  BY <1>4, <1>8, Zenon DEF Count, A, B, F

(* The blocks of a text can be counted. *)
LEMMA BlocksFinite ==
    ASSUME NEW t \in Seq(Token)
    PROVE  IsFiniteSet(Blocks(t))
<1>1. Blocks(t) \subseteq (1..Len(t)) \X (1..Len(t))
  BY SpansArePairs DEF Blocks
<1>2. Len(t) \in Nat /\ IsFiniteSet(1..Len(t))
  BY FS_Interval
<1>3. IsFiniteSet((1..Len(t)) \X (1..Len(t)))
  BY <1>2, FS_Product
<1> QED
  BY <1>1, <1>3, FS_Subset

(* No two blocks begin at one symbol. *)
LEMMA BlocksBeginApart ==
    ASSUME NEW t \in Seq(Token), NEW ab \in Blocks(t), NEW cd \in Blocks(t),
           ab[1] = cd[1]
    PROVE  ab = cd
<1>1. PICK a \in 1..Len(t), b \in 1..Len(t), d \in 1..Len(t) :
         ab = <<a, b>> /\ cd = <<a, d>>
  BY SpansArePairs DEF Blocks
<1>2. <<a, b>> \in Spans(t) /\ <<a, d>> \in Spans(t)
  BY <1>1 DEF Blocks
<1>3. b = d
  <2>1. CASE b <= d
    BY <1>2, <2>1, SpansAre
  <2>2. CASE d <= b
    BY <1>2, <2>2, SpansAre
  <2> QED
    BY <2>1, <2>2
<1> QED
  BY <1>1, <1>3

(* The pass leaves the placeholders there are and one for each block. *)
LEMMA BlobsCounted ==
    ASSUME NEW t \in Seq(Token)
    PROVE  Count(FlattenSeq(Parts("blocks", t)), {Blob})
               = Count(t, {Blob}) + Cardinality(Blocks(t))
<1> DEFINE P == Parts("blocks", t)
           A == {p \in Kept(P) : P[p][1] \in {Blob}}
           B == {p \in DOMAIN t : t[p] \in {Blob}}
           C == {p \in 1..Len(t) : BlockBegins(t, p)}
           f == [ab \in Blocks(t) |-> ab[1]]
<1>1. /\ P \in Seq(Seq(Token)) /\ Len(P) = Len(t) /\ Len(t) \in Nat /\ DOMAIN t = 1..Len(t)
      /\ \A p \in 1..Len(t) : P[p] = Part("blocks", t, p)
  BY PartsType
<1>2. ASSUME NEW p \in 1..Len(t)
      PROVE  P[p] = IF ~InBlock(t, p) THEN <<t[p]>>
                    ELSE IF BlockBegins(t, p) THEN <<Blob>> ELSE <<>>
  BY <1>1 DEF Part
<1>3. ASSUME NEW ab \in Blocks(t)
      PROVE  /\ ab[1] \in 1..Len(t) /\ ab[1] \in ab[1]..ab[2]
             /\ \A p \in ab[1]..ab[2] : t[p] # Blob
  <2>1. PICK a \in 1..Len(t), b \in 1..Len(t) : ab = <<a, b>> /\ ab \in Spans(t)
    BY SpansArePairs DEF Blocks
  <2>2. Solid(t, a, b)
    BY <2>1, SpansAre
  <2>3. Blob \notin Base64 \cup {"space"}
    BY DEF Blob, Base64
  <2> QED
    BY <2>1, <2>2, <2>3 DEF Solid
<1> HIDE DEF P
<1>4. Thin(P)
  <2> SUFFICES ASSUME NEW p \in 1..Len(t) PROVE Len(P[p]) <= 1
    BY <1>1 DEF Thin
  <2>1. Len(<<t[p]>>) <= 1 /\ Len(<<Blob>>) <= 1 /\ Len(<<>>) <= 1
    OBVIOUS
  <2> QED
    BY <1>2, <2>1, Zenon
<1>5. A = B \cup C /\ B \cap C = {}
  <2>1. ASSUME NEW p \in 1..Len(t), BlockBegins(t, p)
        PROVE  InBlock(t, p) /\ t[p] # Blob
    BY <1>3, <2>1 DEF BlockBegins, InBlock
  <2>2. ASSUME NEW p \in 1..Len(t), InBlock(t, p)
        PROVE  t[p] # Blob
    BY <1>3, <2>2 DEF InBlock
  <2>3. ASSUME NEW p \in 1..Len(t)
        PROVE  p \in A <=> p \in B \/ p \in C
    <3>1. p \in A <=> P[p] # <<>> /\ P[p][1] = Blob
      BY <1>1 DEF Kept
    <3>2. CASE ~InBlock(t, p)
      <4>1. P[p] = <<t[p]>> /\ p \notin C
        BY <1>2, <2>1, <3>2
      <4> QED
        BY <1>1, <3>1, <4>1
    <3>3. CASE BlockBegins(t, p)
      <4>1. P[p] = <<Blob>> /\ p \in C
        BY <1>2, <2>1, <3>3
      <4> QED
        BY <3>1, <4>1
    <3>4. CASE InBlock(t, p) /\ ~BlockBegins(t, p)
      <4>1. P[p] = <<>> /\ p \notin C /\ p \notin B
        BY <1>1, <1>2, <2>2, <3>4
      <4> QED
        BY <3>1, <4>1
    <3> QED
      BY <3>2, <3>3, <3>4
  <2>4. A \subseteq 1..Len(t) /\ B \subseteq 1..Len(t) /\ C \subseteq 1..Len(t)
    BY <1>1 DEF Kept
  <2>5. \A p \in 1..Len(t) : p \in C => p \notin B
    BY <2>1
  <2> HIDE DEF A, B, C
  <2> QED
    BY <2>3, <2>4, <2>5
<1>6. IsFiniteSet(C) /\ Cardinality(C) = Cardinality(Blocks(t))
  <2>1. f \in [Blocks(t) -> C]
    BY <1>3 DEF BlockBegins
  <2>2. \A x, y \in Blocks(t) : f[x] = f[y] => x = y
    BY BlocksBeginApart
  <2>3. \A y \in C : \E x \in Blocks(t) : f[x] = y
    BY DEF BlockBegins
  <2> HIDE DEF f, C
  <2> QED
    BY <2>1, <2>2, <2>3, BlocksFinite, SameNumber
<1>7. IsFiniteSet(B)
  <2>1. B \subseteq 1..Len(t) /\ IsFiniteSet(1..Len(t))
    BY <1>1, FS_Interval
  <2> QED
    BY <2>1, FS_Subset
<1>8. Count(FlattenSeq(P), {Blob}) = Cardinality(A)
  BY <1>1, <1>4, CountKept
<1>9. Count(t, {Blob}) = Cardinality(B)
  BY DEF Count
<1> HIDE DEF A, B, C
<1>10. Cardinality(B \cup C) = Cardinality(B) + Cardinality(C)
  <2>1. /\ Cardinality(B \cup C) = Cardinality(B) + Cardinality(C) - Cardinality(B \cap C)
        /\ Cardinality(B) \in Nat /\ Cardinality(C) \in Nat
    BY <1>6, <1>7, FS_Union, FS_CardinalityType
  <2>2. Cardinality(B \cap C) = 0
    BY <1>5, FS_EmptySet
  <2> QED
    BY <2>1, <2>2
<1> QED
  BY <1>5, <1>6, <1>8, <1>9, <1>10, Zenon DEF P

(***************************************************************************)
(* What is put together: the gaps go, and every other symbol moves to its  *)
(* place among those that stay.                                            *)
(***************************************************************************)
Gap(t, p) == \E ab \in Spans(t) : p \in ab[1]..ab[2] /\ t[p] = "space"

JoinParts(t) == [p \in 1..Len(t) |-> IF Gap(t, p) THEN <<>> ELSE <<t[p]>>]

Stays(t) == {p \in 1..Len(t) : ~Gap(t, p)}

To(t, p) == Lands(JoinParts(t), p)

(* Joined(t) by the places of its symbols. *)
LEMMA JoinedIs ==
    ASSUME NEW t \in Seq(Token)
    PROVE  /\ Joined(t) \in Seq(Token)
           /\ \A p \in Stays(t) : /\ To(t, p) \in 1..Len(Joined(t))
                                  /\ Joined(t)[To(t, p)] = t[p]
           /\ \A p, q \in Stays(t) : p < q => To(t, p) < To(t, q)
           /\ \A x \in 1..Len(Joined(t)) : \E p \in Stays(t) : To(t, p) = x
<1> DEFINE P == JoinParts(t)
<1>1. DOMAIN t = 1..Len(t) /\ Len(t) \in Nat
  OBVIOUS
<1>2. Joined(t) = FlattenSeq(P)
  BY <1>1 DEF Joined, JoinParts, Gap
<1>3. ASSUME NEW p \in 1..Len(t)
      PROVE  (IF Gap(t, p) THEN <<>> ELSE <<t[p]>>) \in Seq(Token)
  <2>1. <<>> \in Seq(Token) /\ <<t[p]>> \in Seq(Token)
    OBVIOUS
  <2> QED
    BY <2>1, Zenon
<1>4. P \in [1..Len(t) -> Seq(Token)]
  BY <1>3, Zenon DEF JoinParts
<1>5. P \in Seq(Seq(Token)) /\ Len(P) = Len(t)
  BY <1>1, <1>4, SeqDef, LenProperties
<1>6. ASSUME NEW p \in 1..Len(t)
      PROVE  /\ P[p] = IF Gap(t, p) THEN <<>> ELSE <<t[p]>>
             /\ Len(P[p]) <= 1
             /\ P[p] # <<>> <=> ~Gap(t, p)
             /\ ~Gap(t, p) => P[p][1] = t[p]
  <2>1. P[p] = IF Gap(t, p) THEN <<>> ELSE <<t[p]>>
    BY DEF JoinParts
  <2> HIDE DEF P
  <2>2. CASE Gap(t, p)
    BY <2>1, <2>2
  <2>3. CASE ~Gap(t, p)
    BY <2>1, <2>3
  <2> QED
    BY <2>1, <2>2, <2>3
<1> HIDE DEF P
<1>7. Thin(P) /\ Kept(P) = Stays(t)
  BY <1>5, <1>6, Zenon DEF Thin, Kept, Stays
<1>8. /\ FlattenSeq(P) \in Seq(Token)
      /\ \A p \in Kept(P) : /\ Lands(P, p) \in 1..Len(FlattenSeq(P))
                            /\ FlattenSeq(P)[Lands(P, p)] = P[p][1]
      /\ \A p, q \in Kept(P) : p < q => Lands(P, p) < Lands(P, q)
      /\ \A x \in 1..Len(FlattenSeq(P)) : \E p \in Kept(P) : Lands(P, p) = x
  BY <1>5, <1>7, PlacesAre
<1>9. \A p \in Stays(t) : P[p][1] = t[p]
  BY <1>6 DEF Stays
<1> QED
  BY <1>2, <1>7, <1>8, <1>9 DEF To, P

(* Only whitespace goes, and the order stays. *)
LEMMA JoinedOrder ==
    ASSUME NEW t \in Seq(Token)
    PROVE  /\ Stays(t) \subseteq 1..Len(t) /\ Len(t) \in Nat /\ Len(Joined(t)) \in Nat
           /\ \A p \in 1..Len(t) : t[p] # "space" => p \in Stays(t)
           /\ \A p, q \in Stays(t) : /\ p <= q <=> To(t, p) <= To(t, q)
                                     /\ p = q <=> To(t, p) = To(t, q)
<1>1. Joined(t) \in Seq(Token) /\ Len(Joined(t)) \in Nat
  BY JoinedIs
<1>2. \A p \in Stays(t) : p \in Nat /\ To(t, p) \in Nat
  BY <1>1, JoinedIs DEF Stays
<1>3. \A p, q \in Stays(t) : p < q => To(t, p) < To(t, q)
  BY JoinedIs
<1>4. ASSUME NEW p \in Stays(t), NEW q \in Stays(t)
      PROVE  /\ p <= q <=> To(t, p) <= To(t, q)
             /\ p = q <=> To(t, p) = To(t, q)
  <2>1. CASE p < q
    BY <1>2, <1>3, <2>1
  <2>2. CASE q < p
    BY <1>2, <1>3, <2>2
  <2> QED
    BY <1>2, <2>1, <2>2
<1> QED
  BY <1>1, <1>4 DEF Stays, Gap

(* A solid interval is one of what is put together, and the other way round. *)
LEMMA SolidJoined ==
    ASSUME NEW t \in Seq(Token), NEW a \in Stays(t), NEW b \in Stays(t)
    PROVE  Solid(t, a, b) <=> Solid(Joined(t), To(t, a), To(t, b))
<1> DEFINE J == Joined(t)
           h(p) == To(t, p)
<1>1. /\ \A p \in Stays(t) : h(p) \in 1..Len(J) /\ J[h(p)] = t[p]
      /\ \A x \in 1..Len(J) : \E p \in Stays(t) : h(p) = x
  BY JoinedIs
<1>2. /\ Stays(t) \subseteq 1..Len(t) /\ Len(t) \in Nat /\ Len(J) \in Nat
      /\ \A p \in 1..Len(t) : t[p] # "space" => p \in Stays(t)
      /\ \A p, q \in Stays(t) : p <= q <=> h(p) <= h(q)
  BY JoinedOrder
<1> HIDE DEF J, h
<1>3. ASSUME Solid(t, a, b)
      PROVE  Solid(J, h(a), h(b))
  <2>1. /\ a <= b /\ t[a] \in Base64 /\ t[b] \in Base64
        /\ \A p \in a..b : t[p] \in Base64 \cup {"space"}
    BY <1>3 DEF Solid
  <2>2. ASSUME NEW x \in h(a)..h(b)
        PROVE  J[x] \in Base64 \cup {"space"}
    <3>1. x \in 1..Len(J)
      BY <1>1, <1>2
    <3>2. PICK p \in Stays(t) : h(p) = x
      BY <1>1, <3>1
    <3>3. p \in a..b
      BY <1>1, <1>2, <3>2
    <3> QED
      BY <1>1, <2>1, <3>2, <3>3
  <2> QED
    BY <1>1, <1>2, <2>1, <2>2 DEF Solid
<1>4. ASSUME Solid(J, h(a), h(b))
      PROVE  Solid(t, a, b)
  <2>1. /\ h(a) <= h(b) /\ J[h(a)] \in Base64 /\ J[h(b)] \in Base64
        /\ \A x \in h(a)..h(b) : J[x] \in Base64 \cup {"space"}
    BY <1>4 DEF Solid
  <2>2. ASSUME NEW p \in a..b
        PROVE  t[p] \in Base64 \cup {"space"}
    <3>1. p \in 1..Len(t)
      BY <1>2
    <3>2. CASE p \in Stays(t)
      <4>1. h(p) \in h(a)..h(b)
        BY <1>1, <1>2, <3>2
      <4> QED
        BY <1>1, <2>1, <3>2, <4>1
    <3> QED
      BY <1>2, <3>1, <3>2
  <2> QED
    BY <1>1, <1>2, <2>1, <2>2 DEF Solid
<1> QED
  BY <1>3, <1>4 DEF J, h

(* The ends of a solid interval are no whitespace, so they stay. *)
LEMMA SolidStays ==
    ASSUME NEW t \in Seq(Token), NEW a \in 1..Len(t), NEW b \in 1..Len(t), Solid(t, a, b)
    PROVE  a \in Stays(t) /\ b \in Stays(t)
<1>1. "space" \notin Base64
  BY DEF Base64
<1> QED
  BY <1>1, JoinedOrder DEF Solid

(* So the spans correspond too. *)
LEMMA SpansJoined ==
    ASSUME NEW t \in Seq(Token), NEW a \in Stays(t), NEW b \in Stays(t)
    PROVE  <<a, b>> \in Spans(t) <=> <<To(t, a), To(t, b)>> \in Spans(Joined(t))
<1> DEFINE J == Joined(t)
           h(p) == To(t, p)
<1>0. J \in Seq(Token)
  BY JoinedIs
<1>1. /\ \A p \in Stays(t) : h(p) \in 1..Len(J)
      /\ \A x \in 1..Len(J) : \E p \in Stays(t) : h(p) = x
  BY JoinedIs
<1>2. /\ Stays(t) \subseteq 1..Len(t)
      /\ \A p, q \in Stays(t) : (p <= q <=> h(p) <= h(q)) /\ (p = q <=> h(p) = h(q))
  BY JoinedOrder
<1>3. \A c, d \in Stays(t) : Solid(t, c, d) <=> Solid(J, h(c), h(d))
  BY SolidJoined
<1>4. \A c, d \in 1..Len(t) : Solid(t, c, d) => c \in Stays(t) /\ d \in Stays(t)
  BY SolidStays
<1>5. <<a, b>> \in Spans(t) <=>
          /\ Solid(t, a, b)
          /\ \A c, d \in 1..Len(t) : Solid(t, c, d) /\ c <= a /\ b <= d => c = a /\ d = b
  BY <1>2, SpansAre
<1>6. <<h(a), h(b)>> \in Spans(J) <=>
          /\ Solid(J, h(a), h(b))
          /\ \A x, y \in 1..Len(J) :
                 Solid(J, x, y) /\ x <= h(a) /\ h(b) <= y => x = h(a) /\ y = h(b)
  BY <1>0, <1>1, SpansAre
<1> HIDE DEF J, h
<1>7. ASSUME <<a, b>> \in Spans(t)
      PROVE  <<h(a), h(b)>> \in Spans(J)
  <2>1. ASSUME NEW x \in 1..Len(J), NEW y \in 1..Len(J), Solid(J, x, y),
               x <= h(a), h(b) <= y
        PROVE  x = h(a) /\ y = h(b)
    <3>1. PICK c \in Stays(t), d \in Stays(t) : h(c) = x /\ h(d) = y
      BY <1>1
    <3>2. Solid(t, c, d) /\ c <= a /\ b <= d
      BY <1>2, <1>3, <2>1, <3>1
    <3> QED
      BY <1>2, <1>5, <1>7, <3>1, <3>2
  <2> QED
    BY <1>3, <1>5, <1>6, <1>7, <2>1
<1>8. ASSUME <<h(a), h(b)>> \in Spans(J)
      PROVE  <<a, b>> \in Spans(t)
  <2>1. ASSUME NEW c \in 1..Len(t), NEW d \in 1..Len(t), Solid(t, c, d), c <= a, b <= d
        PROVE  c = a /\ d = b
    <3>1. /\ c \in Stays(t) /\ d \in Stays(t) /\ Solid(J, h(c), h(d))
          /\ h(c) <= h(a) /\ h(b) <= h(d)
      BY <1>2, <1>3, <1>4, <2>1
    <3>2. h(c) = h(a) /\ h(d) = h(b)
      BY <1>1, <1>6, <1>8, <3>1
    <3> QED
      BY <1>2, <3>1, <3>2
  <2> QED
    BY <1>3, <1>5, <1>6, <1>8, <2>1
<1> QED
  BY <1>7, <1>8 DEF J, h

(* The symbols of a class in a part of a text. *)
LEMMA CountIn ==
    ASSUME NEW t \in Seq(Token), NEW a \in 1..Len(t), NEW b \in a..Len(t), NEW C
    PROVE  LET A == {p \in a..b : t[p] \in C}
           IN  IsFiniteSet(A) /\ Count(SubSeq(t, a, b), C) = Cardinality(A)
<1> DEFINE w == SubSeq(t, a, b)
           A == {p \in a..b : t[p] \in C}
           B == {p \in DOMAIN w : w[p] \in C}
           f == [p \in A |-> p - a + 1]
<1>0. Len(t) \in Nat /\ a \in Nat /\ b \in Nat /\ a <= b /\ b <= Len(t)
  OBVIOUS
<1>1. /\ DOMAIN w = 1..b - a + 1
      /\ \A p \in 1..b - a + 1 : w[p] = t[a + p - 1]
  BY <1>0
<1> HIDE DEF w
<1>2. IsFiniteSet(A)
  <2>1. A \subseteq a..b /\ IsFiniteSet(a..b)
    BY <1>0, FS_Interval
  <2> QED
    BY <2>1, FS_Subset
<1>3. f \in [A -> B]
  <2> SUFFICES ASSUME NEW p \in A PROVE p - a + 1 \in B
    OBVIOUS
  <2>1. p - a + 1 \in 1..b - a + 1 /\ a + (p - a + 1) - 1 = p /\ t[p] \in C
    BY <1>0
  <2> QED
    BY <1>1, <2>1
<1>4. \A p, q \in A : f[p] = f[q] => p = q
  BY <1>0
<1>5. ASSUME NEW x \in B
      PROVE  \E p \in A : f[p] = x
  <2>1. x \in 1..b - a + 1 /\ t[a + x - 1] \in C
    BY <1>1
  <2>2. a + x - 1 \in A /\ (a + x - 1) - a + 1 = x
    BY <1>0, <2>1
  <2> QED
    BY <2>2
<1> HIDE DEF A, B, f
<1>6. Cardinality(B) = Cardinality(A)
  BY <1>2, <1>3, <1>4, <1>5, SameNumber
<1> QED
  BY <1>2, <1>6, Zenon DEF Count, A, B, w

(* A solid interval and what is put together of it have as many symbols of a
   class that whitespace is not in. *)
LEMMA CountJoined ==
    ASSUME NEW t \in Seq(Token), NEW a \in Stays(t), NEW b \in Stays(t), a <= b,
           NEW C, "space" \notin C
    PROVE  Count(SubSeq(t, a, b), C) = Count(SubSeq(Joined(t), To(t, a), To(t, b)), C)
<1> DEFINE J == Joined(t)
           h(p) == To(t, p)
           A == {p \in a..b : t[p] \in C}
           B == {x \in h(a)..h(b) : J[x] \in C}
           f == [p \in A |-> h(p)]
<1>0. J \in Seq(Token)
  BY JoinedIs
<1>1. /\ \A p \in Stays(t) : h(p) \in 1..Len(J) /\ J[h(p)] = t[p]
      /\ \A x \in 1..Len(J) : \E p \in Stays(t) : h(p) = x
  BY JoinedIs
<1>2. /\ Stays(t) \subseteq 1..Len(t) /\ Len(t) \in Nat /\ Len(J) \in Nat
      /\ \A p \in 1..Len(t) : t[p] # "space" => p \in Stays(t)
      /\ \A p, q \in Stays(t) : (p <= q <=> h(p) <= h(q)) /\ (p = q <=> h(p) = h(q))
  BY JoinedOrder
<1> HIDE DEF J, h
<1>3. A \subseteq Stays(t)
  <2> SUFFICES ASSUME NEW p \in a..b, t[p] \in C PROVE p \in Stays(t)
    OBVIOUS
  <2> QED
    BY <1>2
<1>4. IsFiniteSet(A) /\ Count(SubSeq(t, a, b), C) = Cardinality(A)
  <2>1. a \in 1..Len(t) /\ b \in a..Len(t)
    BY <1>2
  <2> HIDE DEF A, B, f
  <2>2. LET M == {p \in a..b : t[p] \in C}
        IN  IsFiniteSet(M) /\ Count(SubSeq(t, a, b), C) = Cardinality(M)
    BY <2>1, CountIn
  <2> QED
    BY <2>2 DEF A
<1>5. Count(SubSeq(J, h(a), h(b)), C) = Cardinality(B)
  <2>1. h(a) \in 1..Len(J) /\ h(b) \in h(a)..Len(J)
    BY <1>1, <1>2
  <2> HIDE DEF A, B, f
  <2>2. LET M == {x \in h(a)..h(b) : J[x] \in C}
        IN  IsFiniteSet(M) /\ Count(SubSeq(J, h(a), h(b)), C) = Cardinality(M)
    BY <1>0, <2>1, CountIn
  <2> QED
    BY <2>2 DEF B
<1>6. f \in [A -> B]
  <2> SUFFICES ASSUME NEW p \in A PROVE h(p) \in B
    OBVIOUS
  <2>1. p \in Stays(t) /\ p \in a..b /\ t[p] \in C
    BY <1>3
  <2>2. h(p) \in h(a)..h(b)
    BY <1>1, <1>2, <2>1
  <2> QED
    BY <1>1, <2>1, <2>2
<1>7. \A p, q \in A : f[p] = f[q] => p = q
  BY <1>2, <1>3
<1>8. ASSUME NEW x \in B
      PROVE  \E p \in A : f[p] = x
  <2>1. x \in 1..Len(J)
    BY <1>1, <1>2
  <2>2. PICK p \in Stays(t) : h(p) = x
    BY <1>1, <2>1
  <2>3. p \in a..b
    BY <1>1, <1>2, <2>2
  <2>4. p \in A
    BY <1>1, <2>2, <2>3
  <2> QED
    BY <2>2, <2>4
<1> HIDE DEF A, B, f
<1>9. Cardinality(B) = Cardinality(A)
  BY <1>4, <1>6, <1>7, <1>8, SameNumber
<1> QED
  BY <1>4, <1>5, <1>9, Zenon DEF J, h

(* So they look alike. *)
LEMMA LooksJoined ==
    ASSUME NEW t \in Seq(Token), NEW a \in Stays(t), NEW b \in Stays(t), a <= b
    PROVE  LooksBase64(SubSeq(t, a, b)) <=>
               LooksBase64(SubSeq(Joined(t), To(t, a), To(t, b)))
<1>1. /\ "space" \notin Base64 /\ "space" \notin {"special"}
      /\ "space" \notin {"upper"} /\ "space" \notin {"lower"}
  BY DEF Base64
<1> DEFINE v == SubSeq(t, a, b)
           w == SubSeq(Joined(t), To(t, a), To(t, b))
<1>2. /\ Count(v, Base64) = Count(w, Base64)
      /\ Count(v, {"special"}) = Count(w, {"special"})
      /\ Count(v, {"upper"}) = Count(w, {"upper"})
      /\ Count(v, {"lower"}) = Count(w, {"lower"})
  BY <1>1, CountJoined
<1> HIDE DEF v, w
<1>3. LooksBase64(v) <=> LooksBase64(w)
  BY <1>2, Zenon DEF LooksBase64
<1> QED
  BY <1>3 DEF v, w

(* Putting the chunks together leaves as many blocks. *)
LEMMA BlocksJoined ==
    ASSUME NEW t \in Seq(Token)
    PROVE  Cardinality(Blocks(Joined(t))) = Cardinality(Blocks(t))
<1> DEFINE J == Joined(t)
           h(p) == To(t, p)
           f == [ab \in Blocks(t) |-> <<h(ab[1]), h(ab[2])>>]
<1>0. J \in Seq(Token)
  BY JoinedIs
<1>1. /\ Stays(t) \subseteq 1..Len(t)
      /\ \A p, q \in Stays(t) : p = q <=> h(p) = h(q)
      /\ \A p, q \in Stays(t) : p <= q <=> h(p) <= h(q)
  BY JoinedOrder
<1>2. \A x \in 1..Len(J) : \E p \in Stays(t) : h(p) = x
  BY JoinedIs
<1>3. ASSUME NEW a \in Stays(t), NEW b \in Stays(t)
      PROVE  <<a, b>> \in Blocks(t) <=> <<h(a), h(b)>> \in Blocks(J)
  <2>1. <<a, b>> \in Spans(t) <=> <<h(a), h(b)>> \in Spans(J)
    BY SpansJoined
  <2>2. <<a, b>> \in Spans(t) => a <= b
    BY <1>1, SpansAre DEF Solid
  <2>3. a <= b => (LooksBase64(SubSeq(t, a, b)) <=> LooksBase64(SubSeq(J, h(a), h(b))))
    BY LooksJoined
  <2> HIDE DEF J, h
  <2>4. <<a, b>> \in Blocks(t) <=>
            <<a, b>> \in Spans(t) /\ LooksBase64(SubSeq(t, a, b))
    BY DEF Blocks
  <2>5. <<h(a), h(b)>> \in Blocks(J) <=>
            <<h(a), h(b)>> \in Spans(J) /\ LooksBase64(SubSeq(J, h(a), h(b)))
    BY DEF Blocks
  <2> QED
    BY <2>1, <2>2, <2>3, <2>4, <2>5
<1>4. \A ab \in Blocks(t) : \E a, b \in Stays(t) : ab = <<a, b>>
  <2> SUFFICES ASSUME NEW ab \in Spans(t)
               PROVE  \E a, b \in Stays(t) : ab = <<a, b>>
    BY DEF Blocks
  <2>1. PICK a \in 1..Len(t), b \in 1..Len(t) : ab = <<a, b>>
    BY SpansArePairs
  <2>2. Solid(t, a, b)
    BY <2>1, SpansAre
  <2> QED
    BY <2>1, <2>2, SolidStays
<1>5. \A xy \in Blocks(J) : \E a, b \in Stays(t) : xy = <<h(a), h(b)>>
  <2> SUFFICES ASSUME NEW xy \in Spans(J)
               PROVE  \E a, b \in Stays(t) : xy = <<h(a), h(b)>>
    BY DEF Blocks
  <2>1. PICK x \in 1..Len(J), y \in 1..Len(J) : xy = <<x, y>>
    BY <1>0, SpansArePairs
  <2> QED
    BY <1>2, <2>1
<1> HIDE DEF J, h
<1>6. f \in [Blocks(t) -> Blocks(J)]
  <2> SUFFICES ASSUME NEW ab \in Blocks(t) PROVE <<h(ab[1]), h(ab[2])>> \in Blocks(J)
    OBVIOUS
  <2>1. PICK a \in Stays(t), b \in Stays(t) : ab = <<a, b>>
    BY <1>4
  <2> QED
    BY <1>3, <2>1
<1>7. ASSUME NEW ab \in Blocks(t), NEW cd \in Blocks(t), f[ab] = f[cd]
      PROVE  ab = cd
  <2>1. PICK a \in Stays(t), b \in Stays(t) : ab = <<a, b>>
    BY <1>4
  <2>2. PICK c \in Stays(t), d \in Stays(t) : cd = <<c, d>>
    BY <1>4
  <2>3. <<h(a), h(b)>> = <<h(c), h(d)>>
    BY <1>7, <2>1, <2>2
  <2> QED
    BY <1>1, <2>1, <2>2, <2>3
<1>8. ASSUME NEW xy \in Blocks(J)
      PROVE  \E ab \in Blocks(t) : f[ab] = xy
  <2>1. PICK a \in Stays(t), b \in Stays(t) : xy = <<h(a), h(b)>>
    BY <1>5
  <2> DEFINE ab == <<a, b>>
  <2>2. ab \in Blocks(t) /\ ab[1] = a /\ ab[2] = b
    BY <1>3, <1>8, <2>1
  <2> QED
    BY <2>1, <2>2
<1> HIDE DEF f
<1>9. Cardinality(Blocks(J)) = Cardinality(Blocks(t))
  BY <1>6, <1>7, <1>8, BlocksFinite, SameNumber
<1> QED
  BY <1>9 DEF J

(* However a blob is cut up by whitespace, it is one placeholder: the worker finds as
   many blocks as in the text with the chunks put together, of any length. *)
THEOREM ChunkingChangesNothingHolds == RedactionSpec => []ChunkingChangesNothing
<1>1. SanitizeInv => ChunkingChangesNothing
  <2> SUFFICES ASSUME SanitizeInv, Sanitized
               PROVE  Count(out, {Blob})
                          = Count(text, {Blob}) + Cardinality(Blocks(Joined(text)))
    BY DEF ChunkingChangesNothing
  <2>1. text \in Seq(Token)
    BY DEF SanitizeInv, HiddenInv, RedactionTypeOK
  <2>2. out = FlattenSeq(Parts("blocks", text))
    BY OutputIsParts
  <2>3. /\ Count(FlattenSeq(Parts("blocks", text)), {Blob})
               = Count(text, {Blob}) + Cardinality(Blocks(text))
        /\ Cardinality(Blocks(Joined(text))) = Cardinality(Blocks(text))
    BY <2>1, BlobsCounted, BlocksJoined
  <2> QED
    BY <2>2, <2>3, Zenon
<1> QED
  BY <1>1, SanitizeInvariant, PTL

-----------------------------------------------------------------------------
(***************************************************************************)
(* The edits of the fix worker.  What parseMarkerEdits reads is described  *)
(* position by position: behind the k blocks read so far, the symbols are  *)
(* those of the blocks still to come, except that the answer may end       *)
(* early, or one marker may be missing.                                    *)
(***************************************************************************)
Marker == {"Begin", "Old", "New", "End"}

AnswerSymbol == Char \cup Marker \cup {"nl"}

(* strings.Index finds the first. *)
LEMMA IndexIs ==
    ASSUME NEW T, NEW t \in Seq(T), NEW x
    PROVE  /\ Index(t, x) \in 0..Len(t)
           /\ Index(t, x) = 0 => \A i \in 1..Len(t) : t[i] # x
           /\ Index(t, x) # 0 => /\ t[Index(t, x)] = x
                                 /\ \A i \in 1..Index(t, x) - 1 : t[i] # x
<1> DEFINE I == {i \in 1..Len(t) : t[i] = x}
           m == Min(I)
<1>0. Len(t) \in Nat
  OBVIOUS
<1>1. Index(t, x) = IF I # {} THEN m ELSE 0
  BY DEF Index, SelectInSeq
<1>2. ASSUME I # {}
      PROVE  m \in I /\ \A i \in I : m <= i
  <2>1. I \in SUBSET Nat
    BY <1>0
  <2> HIDE DEF I
  <2> QED
    BY <1>2, <2>1, MinIsLeast
<1> HIDE DEF m
<1>3. CASE I = {}
  BY <1>0, <1>1, <1>3
<1>4. CASE I # {}
  <2>1. /\ m \in 1..Len(t) /\ t[m] = x /\ m # 0 /\ Index(t, x) = m
        /\ \A i \in 1..Len(t) : t[i] = x => m <= i
    BY <1>1, <1>2, <1>4
  <2>2. ASSUME NEW i \in 1..m - 1
        PROVE  t[i] # x
    BY <1>0, <2>1
  <2> QED
    BY <1>0, <2>1, <2>2
<1> QED
  BY <1>3, <1>4

(* The index of a symbol is its first occurrence. *)
LEMMA IndexAt ==
    ASSUME NEW T, NEW t \in Seq(T), NEW x, NEW p \in 1..Len(t), t[p] = x,
           \A i \in 1..p - 1 : t[i] # x
    PROVE  Index(t, x) = p
<1> DEFINE n == Index(t, x)
<1>0. Len(t) \in Nat
  OBVIOUS
<1>1. /\ n \in 0..Len(t)
      /\ n = 0 => \A i \in 1..Len(t) : t[i] # x
      /\ n # 0 => t[n] = x /\ \A i \in 1..n - 1 : t[i] # x
  BY IndexIs
<1> HIDE DEF n
<1>2. n # 0 /\ ~(p < n) /\ ~(n < p)
  BY <1>0, <1>1
<1>3. n = p
  BY <1>0, <1>1, <1>2
<1> QED
  BY <1>3 DEF n

(* The rest of a text from a position on. *)
LEMMA FromIs ==
    ASSUME NEW T, NEW t \in Seq(T), NEW p \in 1..Len(t) + 1
    PROVE  /\ From(t, p) \in Seq(T) /\ Len(From(t, p)) = Len(t) + 1 - p
           /\ \A i \in 1..Len(t) + 1 - p : From(t, p)[i] = t[p - 1 + i]
<1> DEFINE n == Len(t)
<1>0. n \in Nat /\ p \in Int /\ n \in Int /\ \A i \in p..n : t[i] \in T
  OBVIOUS
<1>1. /\ SubSeq(t, p, n) \in Seq(T)
      /\ Len(SubSeq(t, p, n)) = IF p <= n THEN n - p + 1 ELSE 0
      /\ \A i \in 1..n - p + 1 : SubSeq(t, p, n)[i] = t[p + i - 1]
  BY <1>0, SubSeqProperties
<1> QED
  BY <1>0, <1>1 DEF From

(* TrimPrefix and TrimSuffix take what Render has put around a text. *)
LEMMA TrimRendered ==
    ASSUME NEW u \in Seq(Char), NEW t \in Seq(AnswerSymbol), Len(t) = Len(u) + 2,
           t[1] = "nl", t[Len(t)] = "nl", \A i \in 1..Len(u) : t[i + 1] = u[i]
    PROVE  TrimLineEnds(t) = u
<1> DEFINE v == Tail(t)
<1>0. Len(u) \in Nat
  OBVIOUS
<1>1. /\ v \in Seq(AnswerSymbol) /\ Len(v) = Len(u) + 1
      /\ \A i \in 1..Len(u) + 1 : v[i] = t[i + 1]
  BY <1>0
<1> HIDE DEF v
<1>2. t # <<>> /\ v # <<>> /\ Last(v) = "nl"
  BY <1>0, <1>1 DEF Last
<1>3. Front(v) = u
  <2>1. /\ Front(v) \in Seq(AnswerSymbol) /\ Len(Front(v)) = Len(u)
        /\ \A i \in 1..Len(u) : Front(v)[i] = v[i]
    BY <1>0, <1>1 DEF Front
  <2>2. u \in Seq(AnswerSymbol)
    BY SeqMonotonic DEF AnswerSymbol
  <2>3. \A i \in 1..Len(u) : Front(v)[i] = u[i]
    BY <1>0, <1>1, <2>1
  <2> QED
    BY <2>1, <2>2, <2>3, SeqEqual
<1> QED
  BY <1>2, <1>3 DEF TrimLineEnds, v

(* Where the parts of a rendered block are. *)
Shape(R, e) ==
    /\ Len(R) = Len(e.old) + Len(e.new) + 10
    /\ R[1] = "Begin" /\ R[2] = "nl" /\ R[3] = "Old" /\ R[4] = "nl"
    /\ \A i \in 1..Len(e.old) : R[i + 4] = e.old[i]
    /\ R[Len(e.old) + 5] = "nl" /\ R[Len(e.old) + 6] = "New" /\ R[Len(e.old) + 7] = "nl"
    /\ \A i \in 1..Len(e.new) : R[Len(e.old) + 7 + i] = e.new[i]
    /\ R[Len(e.old) + Len(e.new) + 8] = "nl" /\ R[Len(e.old) + Len(e.new) + 9] = "End"
    /\ R[Len(e.old) + Len(e.new) + 10] = "nl"

(* A bounded sequence is a sequence. *)
LEMMA ScriptType ==
    ASSUME NEW T, NEW n \in Nat, NEW t \in BoundedSeq(T, n)
    PROVE  t \in Seq(T)
<1>1. PICK m \in 0..n : t \in [1..m -> T]
  BY DEF BoundedSeq, SeqOf
<1> QED
  BY <1>1, SeqDef

(* The texts of an edit are sequences of characters. *)
LEMMA EditIs ==
    ASSUME NEW e \in Edit
    PROVE  e.old \in Seq(Char) /\ e.new \in Seq(Char)
BY EditBoundsAssumption, ScriptType DEF Edit

JoinOf(w, u, v) ==
    /\ Len(w) = Len(u) + Len(v)
    /\ \A i \in 1..Len(u) : w[i] = u[i]
    /\ \A i \in 1..Len(v) : w[Len(u) + i] = v[i]

(* Two texts, one after the other. *)
LEMMA Join ==
    ASSUME NEW T, NEW u \in Seq(T), NEW v \in Seq(T)
    PROVE  Cat(u, v) \in Seq(T) /\ JoinOf(Cat(u, v), u, v)
<1> DEFINE w == u \o v
<1>0. Len(u) \in Nat /\ Len(v) \in Nat
  OBVIOUS
<1>1. /\ w \in Seq(T) /\ Len(w) = Len(u) + Len(v)
      /\ \A i \in 1..Len(u) + Len(v) : w[i] = IF i <= Len(u) THEN u[i] ELSE v[i - Len(u)]
  BY ConcatProperties
<1> HIDE DEF w, Cat
<1>2. ASSUME NEW i \in 1..Len(v)
      PROVE  w[Len(u) + i] = v[i]
  <2> DEFINE k == Len(u) + i
  <2>1. k \in 1..Len(u) + Len(v) /\ ~(k <= Len(u)) /\ k - Len(u) = i
    BY <1>0
  <2> HIDE DEF k
  <2>2. w[k] = v[i]
    BY <1>1, <2>1
  <2> QED
    BY <2>2 DEF k
<1>3. \A i \in 1..Len(u) : w[i] = u[i]
  BY <1>0, <1>1
<1> QED
  BY <1>1, <1>2, <1>3 DEF w, Cat, JoinOf

(* What one edit looks like in an answer in marked blocks. *)
LEMMA RenderIs ==
    ASSUME NEW e \in Edit
    PROVE  Render(e) \in Seq(AnswerSymbol) /\ Shape(Render(e), e)
<1> DEFINE a == <<"Begin", "nl", "Old", "nl">>
           b == <<"nl", "New", "nl">>
           c == <<"nl", "End", "nl">>
           u == e.old
           v == e.new
           m == Len(u)
           n == Len(v)
<1>1. /\ u \in Seq(AnswerSymbol) /\ v \in Seq(AnswerSymbol)
      /\ m \in Nat /\ n \in Nat /\ Len(u) = m /\ Len(v) = n
  BY EditIs, SeqMonotonic DEF AnswerSymbol
<1>2. /\ a \in Seq(AnswerSymbol) /\ Len(a) = 4
      /\ a[1] = "Begin" /\ a[2] = "nl" /\ a[3] = "Old" /\ a[4] = "nl"
  BY DEF AnswerSymbol, Marker
<1>3. /\ b \in Seq(AnswerSymbol) /\ Len(b) = 3
      /\ b[1] = "nl" /\ b[2] = "New" /\ b[3] = "nl"
  BY DEF AnswerSymbol, Marker
<1>4. /\ c \in Seq(AnswerSymbol) /\ Len(c) = 3
      /\ c[1] = "nl" /\ c[2] = "End" /\ c[3] = "nl"
  BY DEF AnswerSymbol, Marker
<1>0. Render(e) = Cat(Cat(Cat(Cat(a, u), b), v), c)
  BY DEF Render, Cat
<1> HIDE DEF a, b, c, u, v, m, n
<1> DEFINE w1 == Cat(a, u)
<1>5. /\ w1 \in Seq(AnswerSymbol) /\ Len(w1) = 4 + m
      /\ \A i \in 1..4 : w1[i] = a[i]
      /\ \A i \in 1..m : w1[4 + i] = u[i]
  <2>1. w1 \in Seq(AnswerSymbol) /\ JoinOf(w1, a, u)
    BY <1>1, <1>2, Join
  <2> HIDE DEF w1
  <2> QED
    BY <1>1, <1>2, <2>1 DEF JoinOf
<1>5a. Render(e) = Cat(Cat(Cat(w1, b), v), c)
  BY <1>0
<1> HIDE DEF w1
<1> DEFINE w2 == Cat(w1, b)
           l2 == 4 + m
<1>6. /\ w2 \in Seq(AnswerSymbol) /\ Len(w2) = l2 + 3
      /\ \A i \in 1..l2 : w2[i] = w1[i]
      /\ \A i \in 1..3 : w2[l2 + i] = b[i]
  <2>1. w2 \in Seq(AnswerSymbol) /\ JoinOf(w2, w1, b)
    BY <1>3, <1>5, Join
  <2>2. Len(w1) = l2
    BY <1>5
  <2> HIDE DEF w2, l2
  <2> QED
    BY <1>3, <2>1, <2>2 DEF JoinOf
<1>6a. Render(e) = Cat(Cat(w2, v), c)
  BY <1>5a
<1> HIDE DEF w2
<1> DEFINE w3 == Cat(w2, v)
           l3 == l2 + 3
<1>7. /\ w3 \in Seq(AnswerSymbol) /\ Len(w3) = l3 + n
      /\ \A i \in 1..l3 : w3[i] = w2[i]
      /\ \A i \in 1..n : w3[l3 + i] = v[i]
  <2>1. w3 \in Seq(AnswerSymbol) /\ JoinOf(w3, w2, v)
    BY <1>1, <1>6, Join
  <2>2. Len(w2) = l3
    BY <1>6
  <2> HIDE DEF w3, l3, l2
  <2> QED
    BY <1>1, <2>1, <2>2 DEF JoinOf
<1>7a. Render(e) = Cat(w3, c)
  BY <1>6a
<1> HIDE DEF w3
<1> DEFINE w4 == Cat(w3, c)
           l4 == l3 + n
<1>8. /\ w4 \in Seq(AnswerSymbol) /\ Len(w4) = l4 + 3
      /\ \A i \in 1..l4 : w4[i] = w3[i]
      /\ \A i \in 1..3 : w4[l4 + i] = c[i]
  <2>1. w4 \in Seq(AnswerSymbol) /\ JoinOf(w4, w3, c)
    BY <1>4, <1>7, Join
  <2>2. Len(w3) = l4
    BY <1>7
  <2> HIDE DEF w4, l4, l3, l2
  <2> QED
    BY <1>4, <2>1, <2>2 DEF JoinOf
<1>8a. Render(e) = w4
  BY <1>7a
<1> HIDE DEF w4
<1>8b. l2 = m + 4 /\ l3 = m + 7 /\ l4 = m + n + 7
  BY <1>1
<1> HIDE DEF l2, l3, l4
<1>9. /\ w4[1] = "Begin" /\ w4[2] = "nl" /\ w4[3] = "Old" /\ w4[4] = "nl"
  BY <1>1, <1>2, <1>5, <1>6, <1>7, <1>8, <1>8b, SMTT(40)
<1>10. ASSUME NEW i \in 1..m
       PROVE  w4[i + 4] = u[i]
  <2> DEFINE q == 4 + i
  <2>1. q = i + 4 /\ q \in 1..l2 /\ q \in 1..l3 /\ q \in 1..l4
    BY <1>1, <1>8b
  <2>2. w1[q] = u[i]
    BY <1>5
  <2> HIDE DEF q
  <2>3. w4[q] = u[i]
    BY <1>6, <1>7, <1>8, <2>1, <2>2
  <2> QED
    BY <2>1, <2>3
<1>11. w4[m + 5] = "nl" /\ w4[m + 6] = "New" /\ w4[m + 7] = "nl"
  <2>1. ASSUME NEW i \in 1..3
        PROVE  w4[l2 + i] = b[i]
    <3> DEFINE q == l2 + i
    <3>1. q \in 1..l3 /\ q \in 1..l4
      BY <1>1, <1>8b
    <3>2. w2[q] = b[i]
      BY <1>6
    <3> HIDE DEF q
    <3>3. w4[q] = b[i]
      BY <1>7, <1>8, <3>1, <3>2
    <3> QED
      BY <3>3 DEF q
  <2>2. w4[l2 + 1] = "nl" /\ w4[l2 + 2] = "New" /\ w4[l2 + 3] = "nl"
    BY <1>3, <2>1
  <2>3. l2 + 1 = m + 5 /\ l2 + 2 = m + 6 /\ l2 + 3 = m + 7
    BY <1>1, <1>8b
  <2> QED
    BY <2>2, <2>3
<1>12. ASSUME NEW i \in 1..n
       PROVE  w4[m + 7 + i] = v[i]
  <2> DEFINE q == l3 + i
  <2>1. q = m + 7 + i /\ q \in 1..l4
    BY <1>1, <1>8b
  <2>2. w3[q] = v[i]
    BY <1>7
  <2> HIDE DEF q
  <2>3. w4[q] = v[i]
    BY <1>8, <2>1, <2>2
  <2> QED
    BY <2>1, <2>3
<1>13. w4[m + n + 8] = "nl" /\ w4[m + n + 9] = "End" /\ w4[m + n + 10] = "nl"
  <2>1. w4[l4 + 1] = "nl" /\ w4[l4 + 2] = "End" /\ w4[l4 + 3] = "nl"
    BY <1>4, <1>8
  <2>2. l4 + 1 = m + n + 8 /\ l4 + 2 = m + n + 9 /\ l4 + 3 = m + n + 10
    BY <1>1, <1>8b
  <2> QED
    BY <2>1, <2>2
<1>14. Len(w4) = m + n + 10
  BY <1>1, <1>8, <1>8b
<1> QED
  BY <1>8a, <1>8, <1>9, <1>10, <1>11, <1>12, <1>13, <1>14 DEF Shape, m, n, u, v

(* Each marker is in a block once, where Render puts it. *)
LEMMA MarkersOf ==
    ASSUME NEW e \in Edit, NEW R, Shape(R, e), NEW i \in 1..Len(R)
    PROVE  /\ R[i] = "Begin" <=> i = 1
           /\ R[i] = "Old" <=> i = 3
           /\ R[i] = "New" <=> i = Len(e.old) + 6
           /\ R[i] = "End" <=> i = Len(e.old) + Len(e.new) + 9
<1> DEFINE m == Len(e.old)
           n == Len(e.new)
<1>1. /\ m \in Nat /\ n \in Nat /\ Len(R) = m + n + 10 /\ i \in Nat
      /\ \A k \in 1..m : e.old[k] \in Char
      /\ \A k \in 1..n : e.new[k] \in Char
  BY EditIs DEF Shape
<1>2. \A x \in Char : x # "Begin" /\ x # "Old" /\ x # "New" /\ x # "End"
  BY CharAssumption
<1>3. /\ R[1] = "Begin" /\ R[2] = "nl" /\ R[3] = "Old" /\ R[4] = "nl"
      /\ \A k \in 1..m : R[k + 4] = e.old[k]
      /\ R[m + 5] = "nl" /\ R[m + 6] = "New" /\ R[m + 7] = "nl"
      /\ \A k \in 1..n : R[m + 7 + k] = e.new[k]
      /\ R[m + n + 8] = "nl" /\ R[m + n + 9] = "End" /\ R[m + n + 10] = "nl"
  BY DEF Shape
<1> HIDE DEF m, n
<1>4. CASE i \in 1..4
  <2>1. i = 1 \/ i = 2 \/ i = 3 \/ i = 4
    BY <1>4
  <2> QED
    BY <1>1, <1>3, <2>1 DEF m, n
<1>5. CASE i \in 5..m + 4
  <2> DEFINE k == i - 4
  <2>1. k \in 1..m /\ k + 4 = i
    BY <1>1, <1>5
  <2> HIDE DEF k
  <2>2. R[i] \in Char
    BY <1>1, <1>3, <2>1
  <2>3. i # 1 /\ i # 3 /\ i # m + 6 /\ i # m + n + 9
    BY <1>1, <1>5
  <2> QED
    BY <1>2, <2>2, <2>3 DEF m, n
<1>6. CASE i \in m + 5..m + 7
  <2>1. i = m + 5 \/ i = m + 6 \/ i = m + 7
    BY <1>1, <1>6
  <2>2. i # 1 /\ i # 3 /\ i # m + n + 9
    BY <1>1, <1>6
  <2>3. m + 5 # m + 6 /\ m + 7 # m + 6
    BY <1>1
  <2> QED
    BY <1>3, <2>1, <2>2, <2>3 DEF m, n
<1>7. CASE i \in m + 8..m + n + 7
  <2> DEFINE k == i - (m + 7)
  <2>1. k \in 1..n /\ m + 7 + k = i
    BY <1>1, <1>7
  <2> HIDE DEF k
  <2>2. R[i] \in Char
    BY <1>1, <1>3, <2>1
  <2>3. i # 1 /\ i # 3 /\ i # m + 6 /\ i # m + n + 9
    BY <1>1, <1>7
  <2> QED
    BY <1>2, <2>2, <2>3 DEF m, n
<1>8. CASE i \in m + n + 8..m + n + 10
  <2>1. i = m + n + 8 \/ i = m + n + 9 \/ i = m + n + 10
    BY <1>1, <1>8
  <2>2. i # 1 /\ i # 3 /\ i # m + 6
    BY <1>1, <1>8
  <2>3. m + n + 8 # m + n + 9 /\ m + n + 10 # m + n + 9
    BY <1>1
  <2> QED
    BY <1>3, <2>1, <2>2, <2>3 DEF m, n
<1>9. i \in 1..4 \/ i \in 5..m + 4 \/ i \in m + 5..m + 7 \/ i \in m + 8..m + n + 7
      \/ i \in m + n + 8..m + n + 10
  BY <1>1
<1> QED
  BY <1>4, <1>5, <1>6, <1>7, <1>8, <1>9

(* A part of a text, symbol by symbol. *)
LEMMA PartOf ==
    ASSUME NEW T, NEW t \in Seq(T), NEW a \in 1..Len(t) + 1, NEW b \in a - 1..Len(t)
    PROVE  /\ SubSeq(t, a, b) \in Seq(T) /\ Len(SubSeq(t, a, b)) = b + 1 - a
           /\ \A i \in 1..b + 1 - a : SubSeq(t, a, b)[i] = t[a - 1 + i]
<1>0. Len(t) \in Nat /\ a \in Int /\ b \in Int /\ \A i \in a..b : t[i] \in T
  OBVIOUS
<1>1. /\ SubSeq(t, a, b) \in Seq(T)
      /\ Len(SubSeq(t, a, b)) = IF a <= b THEN b - a + 1 ELSE 0
      /\ \A i \in 1..b - a + 1 : SubSeq(t, a, b)[i] = t[a + i - 1]
  BY <1>0, SubSeqProperties
<1> QED
  BY <1>0, <1>1

After(r) == From(r, Index(r, "Begin") + 1)

BlockOf(r) == SubSeq(After(r), 1, Index(After(r), "End") - 1)

(* What is behind the "Begin" that is at most one line end away. *)
LEMMA AfterIs ==
    ASSUME NEW r \in Seq(AnswerSymbol), NEW b \in {0, 1}, b = 1 => r[1] = "nl",
           b + 1 <= Len(r), r[b + 1] = "Begin"
    PROVE  /\ Index(r, "Begin") = b + 1
           /\ After(r) \in Seq(AnswerSymbol) /\ Len(After(r)) = Len(r) - b - 1
           /\ \A i \in 1..Len(r) - b - 1 : After(r)[i] = r[b + 1 + i]
<1>0. Len(r) \in Nat /\ b + 1 \in 1..Len(r) /\ b + 2 \in 1..Len(r) + 1 /\ (b + 1) + 1 = b + 2
  OBVIOUS
<1>1. Index(r, "Begin") = b + 1
  <2> DEFINE p == b + 1
  <2>1. p \in 1..Len(r) /\ r[p] = "Begin" /\ \A i \in 1..p - 1 : r[i] # "Begin"
    BY <1>0
  <2> HIDE DEF p
  <2>2. Index(r, "Begin") = p
    BY <2>1, IndexAt
  <2> QED
    BY <2>2 DEF p
<1> DEFINE q == b + 2
<1>2. After(r) = From(r, q)
  BY <1>0, <1>1 DEF After
<1>3. q \in 1..Len(r) + 1 /\ q = b + 2
  BY <1>0
<1> HIDE DEF q
<1>4. /\ From(r, q) \in Seq(AnswerSymbol) /\ Len(From(r, q)) = Len(r) + 1 - q
      /\ \A i \in 1..Len(r) + 1 - q : From(r, q)[i] = r[q - 1 + i]
  BY <1>3, FromIs, ZenonT(60)
<1>5. Len(r) + 1 - q = Len(r) - b - 1 /\ q - 1 = b + 1
  BY <1>0, <1>3
<1> QED
  BY <1>1, <1>2, <1>4, <1>5

OldOf(B) == TrimLineEnds(SubSeq(B, Index(B, "Old") + 1, Index(B, "New") - 1))

NewOf(B) == TrimLineEnds(From(B, Index(B, "New") + 1))

(* What is between the markers of a whole block. *)
Inner(B, R, e) ==
    /\ B \in Seq(AnswerSymbol) /\ Len(B) = Len(e.old) + Len(e.new) + 7
    /\ \A i \in 1..Len(e.old) + Len(e.new) + 7 : B[i] = R[i + 1]

(* Where the markers Old and New stand in a whole block. *)
LEMMA InnerMarkers ==
    ASSUME NEW e \in Edit, NEW R, Shape(R, e), NEW B, Inner(B, R, e)
    PROVE  Index(B, "Old") = 2 /\ Index(B, "New") = Len(e.old) + 5
<1> DEFINE m == Len(e.old)
           n == Len(e.new)
<1>1. m \in Nat /\ n \in Nat /\ Len(R) = m + n + 10
  BY EditIs DEF Shape
<1>2. B \in Seq(AnswerSymbol) /\ Len(B) = m + n + 7 /\ \A i \in 1..m + n + 7 : B[i] = R[i + 1]
  BY DEF Inner
<1> HIDE DEF m, n
<1>3. ASSUME NEW i \in 1..m + n + 7
      PROVE  (B[i] = "Old" <=> i = 2) /\ (B[i] = "New" <=> i = m + 5)
  <2> DEFINE k == i + 1
  <2>1. k \in 1..Len(R) /\ (k = 3 <=> i = 2) /\ (k = m + 6 <=> i = m + 5)
    <3>1. i \in Int /\ 1 <= i /\ i <= m + n + 7 /\ k = i + 1
      BY <1>1
    <3> HIDE DEF k
    <3> QED
      BY <1>1, <3>1
  <2>2. B[i] = R[k]
    BY <1>2
  <2> HIDE DEF k
  <2>3. (R[k] = "Old" <=> k = 3) /\ (R[k] = "New" <=> k = m + 6)
    BY <2>1, MarkersOf DEF m, n
  <2> QED
    BY <2>1, <2>2, <2>3
<1>4. Index(B, "Old") = 2
  <2>1. 2 \in 1..Len(B) /\ B[2] = "Old" /\ \A i \in 1..2 - 1 : B[i] # "Old"
    BY <1>1, <1>2, <1>3
  <2> QED
    BY <1>2, <2>1, IndexAt
<1>5. Index(B, "New") = m + 5
  <2> DEFINE p == m + 5
  <2>1. p \in 1..Len(B) /\ B[p] = "New" /\ \A i \in 1..p - 1 : B[i] # "New"
    BY <1>1, <1>2, <1>3
  <2> HIDE DEF p
  <2>2. Index(B, "New") = p
    BY <1>2, <2>1, IndexAt
  <2> QED
    BY <2>2 DEF p
<1> QED
  BY <1>4, <1>5 DEF m

(* A whole block is read as the edit it was written for. *)
LEMMA InnerTexts ==
    ASSUME NEW e \in Edit, NEW R, Shape(R, e), NEW B, Inner(B, R, e)
    PROVE  OldOf(B) = e.old /\ NewOf(B) = e.new
<1> DEFINE m == Len(e.old)
           n == Len(e.new)
           u == e.old
           v == e.new
<1>1. /\ m \in Nat /\ n \in Nat /\ u \in Seq(Char) /\ v \in Seq(Char)
      /\ m = Len(u) /\ n = Len(v)
  BY EditIs
<1>2. B \in Seq(AnswerSymbol) /\ Len(B) = m + n + 7 /\ \A i \in 1..m + n + 7 : B[i] = R[i + 1]
  BY DEF Inner
<1>3. /\ R[4] = "nl" /\ \A i \in 1..m : R[i + 4] = u[i]
      /\ R[m + 5] = "nl" /\ R[m + 7] = "nl"
      /\ \A i \in 1..n : R[m + 7 + i] = v[i]
      /\ R[m + n + 8] = "nl"
  BY DEF Shape
<1>4. Index(B, "Old") + 1 = 3 /\ Index(B, "New") - 1 = m + 4 /\ Index(B, "New") + 1 = m + 6
  BY <1>1, InnerMarkers
<1> DEFINE t == SubSeq(B, 3, m + 4)
           w == From(B, m + 6)
<1>5. OldOf(B) = TrimLineEnds(t) /\ NewOf(B) = TrimLineEnds(w)
  BY <1>4 DEF OldOf, NewOf
<1> HIDE DEF u, v, m, n
<1>6. /\ t \in Seq(AnswerSymbol) /\ Len(t) = m + 2
      /\ \A i \in 1..m + 2 : t[i] = R[i + 3]
  <2> DEFINE b == m + 4
  <2>1. 3 \in 1..Len(B) + 1 /\ b \in 3 - 1..Len(B) /\ b + 1 - 3 = m + 2
    BY <1>1, <1>2
  <2>2. t = SubSeq(B, 3, b)
    OBVIOUS
  <2> HIDE DEF t, b
  <2>3. /\ t \in Seq(AnswerSymbol) /\ Len(t) = b + 1 - 3
        /\ \A i \in 1..b + 1 - 3 : t[i] = B[3 - 1 + i]
    BY <1>2, <2>1, <2>2, PartOf
  <2>4. ASSUME NEW i \in 1..m + 2
        PROVE  t[i] = R[i + 3]
    <3> DEFINE k == i + 2
    <3>1. k \in 1..m + n + 7 /\ k + 1 = i + 3 /\ 3 - 1 + i = k
      BY <1>1
    <3>2. t[i] = B[k]
      BY <2>1, <2>3, <3>1
    <3> HIDE DEF k
    <3>3. B[k] = R[k + 1]
      BY <1>2, <3>1
    <3> QED
      BY <3>1, <3>2, <3>3
  <2> QED
    BY <2>1, <2>3, <2>4
<1>7. /\ w \in Seq(AnswerSymbol) /\ Len(w) = n + 2
      /\ \A i \in 1..n + 2 : w[i] = R[m + 6 + i]
  <2> DEFINE b == m + 6
  <2>1. b \in 1..Len(B) + 1 /\ Len(B) + 1 - b = n + 2
    BY <1>1, <1>2
  <2>2. w = From(B, b)
    OBVIOUS
  <2> HIDE DEF w, b
  <2>3. /\ w \in Seq(AnswerSymbol) /\ Len(w) = Len(B) + 1 - b
        /\ \A i \in 1..Len(B) + 1 - b : w[i] = B[b - 1 + i]
    BY <1>2, <2>1, <2>2, FromIs
  <2>4. ASSUME NEW i \in 1..n + 2
        PROVE  w[i] = R[m + 6 + i]
    <3> DEFINE k == b - 1 + i
    <3>1. k \in 1..m + n + 7 /\ k + 1 = m + 6 + i
      BY <1>1 DEF b
    <3>2. w[i] = B[k]
      BY <2>1, <2>3
    <3> HIDE DEF k
    <3>3. B[k] = R[k + 1]
      BY <1>2, <3>1
    <3> QED
      BY <3>1, <3>2, <3>3
  <2> QED
    BY <2>1, <2>3, <2>4
<1> HIDE DEF t, w
<1>8. TrimLineEnds(t) = u
  <2>1. /\ Len(t) = Len(u) + 2 /\ t[1] = "nl" /\ t[Len(t)] = "nl"
        /\ \A i \in 1..Len(u) : t[i + 1] = u[i]
    <3>1. t[1] = R[1 + 3] /\ t[m + 2] = R[(m + 2) + 3] /\ 1 + 3 = 4 /\ (m + 2) + 3 = m + 5
      BY <1>1, <1>6
    <3>2. ASSUME NEW i \in 1..m
          PROVE  t[i + 1] = u[i]
      <4> DEFINE k == i + 1
      <4>1. k \in 1..m + 2 /\ k + 3 = i + 4
        BY <1>1
      <4> HIDE DEF k
      <4>2. t[k] = R[i + 4]
        BY <1>6, <4>1
      <4> QED
        BY <1>3, <4>2 DEF k
    <3> QED
      BY <1>1, <1>3, <1>6, <3>1, <3>2
  <2> QED
    BY <1>1, <1>6, <2>1, TrimRendered
<1>9. TrimLineEnds(w) = v
  <2>1. /\ Len(w) = Len(v) + 2 /\ w[1] = "nl" /\ w[Len(w)] = "nl"
        /\ \A i \in 1..Len(v) : w[i + 1] = v[i]
    <3>1. /\ w[1] = R[m + 6 + 1] /\ w[n + 2] = R[m + 6 + (n + 2)]
          /\ m + 6 + 1 = m + 7 /\ m + 6 + (n + 2) = m + n + 8
      BY <1>1, <1>7
    <3>2. ASSUME NEW i \in 1..n
          PROVE  w[i + 1] = v[i]
      <4> DEFINE k == i + 1
      <4>1. k \in 1..n + 2 /\ m + 6 + k = m + 7 + i
        BY <1>1
      <4> HIDE DEF k
      <4>2. w[k] = R[m + 7 + i]
        BY <1>7, <4>1
      <4> QED
        BY <1>3, <4>2 DEF k
    <3> QED
      BY <1>1, <1>3, <1>7, <3>1, <3>2
  <2> QED
    BY <1>1, <1>7, <2>1, TrimRendered
<1> QED
  BY <1>5, <1>8, <1>9 DEF u, v

(* A block seen from outside: E is the place of its end marker, which is   *)
(* followed by the line end that parseMarkerEdits leaves unread.           *)
EndsAt(R, E) ==
    /\ E >= 9 /\ Len(R) = E + 1 /\ R[1] = "Begin"
    /\ \A i \in 1..E + 1 : R[i] = "End" <=> i = E

Reads(e) == Len(e.old) + Len(e.new) + 9

(* The End marker is the last symbol read of a block. *)
LEMMA EndsWhere ==
    ASSUME NEW e \in Edit, NEW R, Shape(R, e)
    PROVE  Reads(e) \in Nat /\ EndsAt(R, Reads(e))
<1> DEFINE o == Len(e.old)
           n == Len(e.new)
<1>1. o \in Nat /\ n \in Nat /\ Len(R) = o + n + 10 /\ R[1] = "Begin"
  BY EditIs DEF Shape
<1>1a. Reads(e) = o + n + 9
  BY DEF Reads
<1> HIDE DEF o, n
<1>2. /\ Reads(e) \in Nat /\ Reads(e) >= 9 /\ Len(R) = Reads(e) + 1
  BY <1>1, <1>1a
<1>3. \A i \in 1..Len(R) : R[i] = "End" <=> i = Reads(e)
  BY MarkersOf DEF Reads
<1> QED
  BY <1>1, <1>2, <1>3 DEF EndsAt

(* Behind at most one line end is a whole block. *)
IsWhole(r, b, R, E) ==
    /\ b = 0 \/ (b = 1 /\ r[1] = "nl")
    /\ b + E <= Len(r)
    /\ \A i \in 1..E : r[b + i] = R[i]

(* At a whole block, Begin and End are found where they stand. *)
LEMMA WholeMarkers ==
    ASSUME NEW R, NEW E \in Nat, EndsAt(R, E),
           NEW r \in Seq(AnswerSymbol), NEW b \in Nat, IsWhole(r, b, R, E)
    PROVE  /\ Index(r, "Begin") = b + 1
           /\ After(r) \in Seq(AnswerSymbol) /\ Len(After(r)) = Len(r) - b - 1
           /\ \A i \in 1..Len(r) - b - 1 : After(r)[i] = r[b + 1 + i]
           /\ Index(After(r), "End") = E - 1
           /\ BlockOf(r) \in Seq(AnswerSymbol) /\ Len(BlockOf(r)) = E - 2
           /\ \A i \in 1..E - 2 : BlockOf(r)[i] = R[i + 1]
<1> DEFINE t == After(r)
           l == Len(r)
<1>1. /\ l \in Nat /\ E >= 9 /\ b + E <= l
      /\ \A i \in 1..E : r[b + i] = R[i]
  BY DEF EndsAt, IsWhole
<1>1a. b \in {0, 1} /\ (b = 1 => r[1] = "nl")
  BY DEF IsWhole
<1>2. R[1] = "Begin" /\ \A i \in 1..E + 1 : R[i] = "End" <=> i = E
  BY DEF EndsAt
<1> HIDE DEF l
<1>3. b + 1 <= l /\ r[b + 1] = "Begin"
  BY <1>1, <1>2
<1>4. /\ Index(r, "Begin") = b + 1
      /\ t \in Seq(AnswerSymbol) /\ Len(t) = l - b - 1
      /\ \A i \in 1..l - b - 1 : t[i] = r[b + 1 + i]
  BY <1>1a, <1>3, AfterIs DEF l
<1> HIDE DEF t
<1>5. ASSUME NEW i \in 1..E - 1
      PROVE  t[i] = R[i + 1] /\ (t[i] = "End" <=> i = E - 1)
  <2> DEFINE k == i + 1
  <2>1. /\ k \in 1..E /\ k \in 1..E + 1 /\ b + 1 + i = b + k /\ i \in 1..l - b - 1
        /\ k = E <=> i = E - 1
    BY <1>1
  <2>2. t[i] = r[b + k]
    BY <1>4, <2>1
  <2> HIDE DEF k
  <2>3. t[i] = R[k] /\ (R[k] = "End" <=> k = E)
    BY <1>1, <1>2, <2>1, <2>2
  <2> QED
    BY <2>1, <2>3 DEF k
<1> DEFINE p == E - 1
<1>6. p \in 1..Len(t) /\ p \in 1..E - 1 /\ 1..p - 1 \subseteq 1..E - 1 /\ p = E - 1
  BY <1>1, <1>4
<1>7. Index(t, "End") = p
  <2> HIDE DEF p
  <2>1. t[p] = "End"
    BY <1>5, <1>6
  <2>2. \A i \in 1..p - 1 : i # E - 1
    BY <1>6
  <2>3. \A i \in 1..p - 1 : t[i] # "End"
    BY <1>5, <1>6, <2>2
  <2> QED
    BY <1>4, <1>6, <2>1, <2>3, IndexAt
<1> DEFINE q == p - 1
<1>8. BlockOf(r) = SubSeq(t, 1, q)
  BY <1>7 DEF BlockOf, t
<1>9. /\ 1 \in 1..Len(t) + 1 /\ q \in 1 - 1..Len(t) /\ q + 1 - 1 = q /\ q = E - 2
      /\ 1..q \subseteq 1..E - 1
  BY <1>1, <1>4, <1>6
<1> HIDE DEF p, q
<1>10. /\ SubSeq(t, 1, q) \in Seq(AnswerSymbol) /\ Len(SubSeq(t, 1, q)) = q + 1 - 1
       /\ \A i \in 1..q + 1 - 1 : SubSeq(t, 1, q)[i] = t[1 - 1 + i]
  BY <1>4, <1>9, PartOf
<1>11. ASSUME NEW i \in 1..q
       PROVE  SubSeq(t, 1, q)[i] = R[i + 1]
  <2>1. i \in 1..E - 1 /\ i \in 1..q + 1 - 1 /\ 1 - 1 + i = i
    BY <1>9
  <2> QED
    BY <1>5, <1>10, <2>1
<1> QED
  BY <1>4, <1>6, <1>7, <1>8, <1>9, <1>10, <1>11 DEF t, l

(* Behind at most one line end the answer ends in the block. *)
IsCut(r, b, R, E) ==
    /\ b = 0 \/ (b = 1 /\ r[1] = "nl")
    /\ b < Len(r) /\ Len(r) < b + E
    /\ \A i \in 1..Len(r) - b : r[b + i] = R[i]

(* At a block that is cut off, no End is found. *)
LEMMA CutMarkers ==
    ASSUME NEW R, NEW E \in Nat, EndsAt(R, E),
           NEW r \in Seq(AnswerSymbol), NEW b \in Nat, IsCut(r, b, R, E)
    PROVE  Index(r, "Begin") = b + 1 /\ Index(After(r), "End") = 0
<1> DEFINE t == After(r)
           l == Len(r)
           m == l - b
<1>1. /\ l \in Nat /\ E >= 9 /\ b < l /\ l < b + E
      /\ \A i \in 1..m : r[b + i] = R[i]
  BY DEF EndsAt, IsCut
<1>1a. b \in {0, 1} /\ (b = 1 => r[1] = "nl")
  BY DEF IsCut
<1>2. R[1] = "Begin" /\ \A i \in 1..E + 1 : R[i] = "End" <=> i = E
  BY DEF EndsAt
<1> HIDE DEF l
<1>3. b + 1 <= l /\ r[b + 1] = "Begin"
  BY <1>1, <1>2
<1>4. /\ Index(r, "Begin") = b + 1
      /\ t \in Seq(AnswerSymbol) /\ Len(t) = l - b - 1
      /\ \A i \in 1..l - b - 1 : t[i] = r[b + 1 + i]
  BY <1>1a, <1>3, AfterIs DEF l
<1> HIDE DEF t
<1>5. ASSUME NEW i \in 1..l - b - 1
      PROVE  t[i] # "End"
  <2> DEFINE k == i + 1
  <2>1. k \in 1..m /\ k \in 1..E + 1 /\ b + 1 + i = b + k /\ k # E
    BY <1>1
  <2>2. t[i] = r[b + k]
    BY <1>4, <2>1
  <2> HIDE DEF k, m
  <2> QED
    BY <1>1, <1>2, <2>1, <2>2
<1> DEFINE x == Index(t, "End")
<1>6. x \in 0..Len(t) /\ (x # 0 => t[x] = "End")
  BY <1>4, IndexIs
<1> HIDE DEF x
<1>7. x = 0 \/ x \in 1..l - b - 1
  BY <1>1, <1>4, <1>6
<1>8. x = 0
  BY <1>5, <1>6, <1>7
<1> QED
  BY <1>4, <1>8 DEF x, t

(* Behind at most one line end is the block without its symbol at g. *)
IsGapped(r, b, R, E, g) ==
    /\ b = 0 \/ (b = 1 /\ r[1] = "nl")
    /\ b + E - 1 <= Len(r)
    /\ \A i \in 1..E - 1 : r[b + i] = IF i < g THEN R[i] ELSE R[i + 1]

(* Of a block that lacks a symbol, what is read does not hold that symbol. *)
LEMMA GappedMarkers ==
    ASSUME NEW R, NEW E \in Nat, EndsAt(R, E), NEW g \in 2..E - 1,
           NEW r \in Seq(AnswerSymbol), NEW b \in Nat, IsGapped(r, b, R, E, g)
    PROVE  /\ Index(r, "Begin") = b + 1 /\ Index(After(r), "End") # 0
           /\ BlockOf(r) \in Seq(AnswerSymbol)
           /\ \A i \in 1..Len(BlockOf(r)) :
                  \E k \in 1..E : k # g /\ BlockOf(r)[i] = R[k]
<1> DEFINE t == After(r)
           l == Len(r)
<1>1. l \in Nat /\ E >= 9 /\ b + E - 1 <= l /\ g \in Nat /\ g > 1 /\ g < E
  BY DEF EndsAt, IsGapped
<1>1a. b \in {0, 1} /\ (b = 1 => r[1] = "nl")
  BY DEF IsGapped
<1>1b. \A i \in 1..E - 1 : r[b + i] = IF i < g THEN R[i] ELSE R[i + 1]
  BY DEF IsGapped
<1>2. R[1] = "Begin" /\ \A i \in 1..E + 1 : R[i] = "End" <=> i = E
  BY DEF EndsAt
<1> HIDE DEF l
<1>3. b + 1 <= l /\ r[b + 1] = "Begin"
  <2>1. b + 1 <= l /\ 1 \in 1..E - 1 /\ 1 < g
    BY <1>1
  <2> QED
    BY <1>1b, <1>2, <2>1
<1>4. /\ Index(r, "Begin") = b + 1
      /\ t \in Seq(AnswerSymbol) /\ Len(t) = l - b - 1
      /\ \A i \in 1..l - b - 1 : t[i] = r[b + 1 + i]
  BY <1>1a, <1>3, AfterIs DEF l
<1> HIDE DEF t
<1>5. ASSUME NEW i \in 1..E - 2
      PROVE  \E k \in 1..E : k # g /\ t[i] = R[k] /\ (k = E <=> i = E - 2)
  <2> DEFINE h == i + 1
             k == IF h < g THEN h ELSE h + 1
  <2>1. h \in 1..E - 1 /\ b + 1 + i = b + h /\ i \in 1..l - b - 1
    BY <1>1
  <2>2. t[i] = r[b + h]
    BY <1>4, <2>1
  <2>3. k \in 1..E /\ k # g /\ (k = E <=> i = E - 2)
    BY <1>1
  <2> HIDE DEF h
  <2>4. t[i] = R[k]
    BY <1>1b, <2>1, <2>2
  <2> HIDE DEF k
  <2> QED
    BY <2>3, <2>4
<1> DEFINE p == E - 2
<1>6. p \in 1..Len(t) /\ p \in 1..E - 2 /\ 1..p - 1 \subseteq 1..E - 2 /\ p = E - 2
  BY <1>1, <1>4
<1>6a. 1..E \subseteq 1..E + 1
  BY <1>1
<1>7. Index(t, "End") = p
  <2> HIDE DEF p
  <2>1. t[p] = "End"
    BY <1>2, <1>5, <1>6, <1>6a
  <2>2. \A i \in 1..p - 1 : i # E - 2
    BY <1>6
  <2>3. \A i \in 1..p - 1 : t[i] # "End"
    BY <1>2, <1>5, <1>6, <1>6a, <2>2
  <2> QED
    BY <1>4, <1>6, <2>1, <2>3, IndexAt
<1> DEFINE q == p - 1
<1>8. BlockOf(r) = SubSeq(t, 1, q)
  BY <1>7 DEF BlockOf, t
<1>9. /\ 1 \in 1..Len(t) + 1 /\ q \in 1 - 1..Len(t) /\ q + 1 - 1 = q /\ q = E - 3
      /\ 1..q \subseteq 1..E - 2 /\ p # 0
  BY <1>1, <1>4, <1>6
<1> HIDE DEF p, q
<1>10. /\ SubSeq(t, 1, q) \in Seq(AnswerSymbol) /\ Len(SubSeq(t, 1, q)) = q + 1 - 1
       /\ \A i \in 1..q + 1 - 1 : SubSeq(t, 1, q)[i] = t[1 - 1 + i]
  BY <1>4, <1>9, PartOf
<1>11. ASSUME NEW i \in 1..q
       PROVE  \E k \in 1..E : k # g /\ SubSeq(t, 1, q)[i] = R[k]
  <2>1. i \in 1..E - 2 /\ i \in 1..q + 1 - 1 /\ 1 - 1 + i = i
    BY <1>9
  <2>2. SubSeq(t, 1, q)[i] = t[i]
    BY <1>10, <2>1
  <2> QED
    BY <1>5, <2>1, <2>2
<1> QED
  BY <1>4, <1>7, <1>8, <1>9, <1>10, <1>11 DEF t

(* A whole block gives its edit. *)
LEMMA WholeBlock ==
    ASSUME NEW e \in Edit, NEW R, Shape(R, e),
           NEW r \in Seq(AnswerSymbol), NEW b \in Nat, IsWhole(r, b, R, Reads(e))
    PROVE  OldOf(BlockOf(r)) = e.old /\ NewOf(BlockOf(r)) = e.new
<1> DEFINE E == Reads(e)
           m == Len(e.old) + Len(e.new) + 7
           B == BlockOf(r)
<1>1. E \in Nat /\ EndsAt(R, E)
  BY EndsWhere
<1>2. Len(e.old) \in Nat /\ Len(e.new) \in Nat
  BY EditIs
<1>3. E - 2 = m
  BY <1>2 DEF Reads
<1> HIDE DEF E
<1>4. /\ B \in Seq(AnswerSymbol) /\ Len(B) = E - 2
      /\ \A i \in 1..E - 2 : B[i] = R[i + 1]
  BY <1>1, WholeMarkers DEF E
<1> HIDE DEF B
<1>5. Inner(B, R, e)
  BY <1>3, <1>4 DEF Inner
<1> QED
  BY <1>5, InnerTexts DEF B

(* A block that lacks the marker of one of its texts has none. *)
LEMMA GapBlock ==
    ASSUME NEW e \in Edit, NEW R, Shape(R, e),
           NEW g \in 1..Len(R), R[g] \in {"Old", "New"},
           NEW r \in Seq(AnswerSymbol), NEW b \in Nat, IsGapped(r, b, R, Reads(e), g)
    PROVE  \/ Index(BlockOf(r), "Old") = 0
           \/ Index(BlockOf(r), "New") = 0
<1> DEFINE E == Reads(e)
           B == BlockOf(r)
           o == Len(e.old)
           n == Len(e.new)
<1>1. E \in Nat /\ EndsAt(R, E)
  BY EndsWhere
<1>2. o \in Nat /\ n \in Nat
  BY EditIs
<1>3. E = o + n + 9
  BY DEF Reads
<1>4. /\ R[g] = "Old" <=> g = 3
      /\ R[g] = "New" <=> g = o + 6
      /\ \A k \in 1..Len(R) : /\ R[k] = "Old" <=> k = 3
                              /\ R[k] = "New" <=> k = o + 6
  BY MarkersOf
<1>5. Len(R) = E + 1
  BY <1>1 DEF EndsAt
<1> HIDE DEF E, o, n
<1>6. (g = 3 \/ g = o + 6) /\ g \in 2..E - 1
  BY <1>2, <1>3, <1>4
<1>7. /\ B \in Seq(AnswerSymbol)
      /\ \A i \in 1..Len(B) : \E k \in 1..E : k # g /\ B[i] = R[k]
  BY <1>1, <1>6, GappedMarkers DEF E
<1> HIDE DEF B
<1>8. 1..E \subseteq 1..Len(R)
  BY <1>1, <1>5
<1>9. ASSUME NEW x \in {"Old", "New"}, R[g] = x
      PROVE  Index(B, x) = 0
  <2> DEFINE y == Index(B, x)
  <2>1. y \in 0..Len(B) /\ (y # 0 => B[y] = x)
    BY <1>7, IndexIs
  <2> HIDE DEF y
  <2>2. Len(B) \in Nat
    BY <1>7
  <2>3. ASSUME NEW i \in 1..Len(B)
        PROVE  B[i] # x
    <3>1. PICK k \in 1..E : k # g /\ B[i] = R[k]
      BY <1>7
    <3> QED
      BY <1>4, <1>8, <1>9, <3>1
  <2>4. y = 0
    BY <2>1, <2>2, <2>3
  <2> QED
    BY <2>4 DEF y
<1>10. R[g] = "Old" \/ R[g] = "New"
  OBVIOUS
<1> QED
  BY <1>9, <1>10 DEF B

(* What is left of the answer A, read up to s: it may end early, or lack   *)
(* the marker at g.                                                        *)
Early(r, A, s) ==
    /\ s + Len(r) <= Len(A)
    /\ \A i \in 1..Len(r) : r[i] = A[s + i]

Lacking(r, A, s, g) ==
    /\ s + Len(r) + 1 = Len(A)
    /\ \A i \in 1..Len(r) : r[i] = IF s + i < g THEN A[s + i] ELSE A[s + i + 1]

(* Behind S symbols of A comes a block, whose line end is its last symbol. *)
StandsAt(A, S, R, E) ==
    /\ S + E + 1 <= Len(A)
    /\ \A i \in 1..E + 1 : A[S + i] = R[i]

(* A block that is begun is whole or cut off. *)
LEMMA EarlyBlock ==
    ASSUME NEW R, NEW E \in Nat, NEW A \in Seq(AnswerSymbol), NEW S \in Nat,
           StandsAt(A, S, R, E),
           NEW b \in Nat, NEW s \in Nat, s + b = S, b = 0 \/ (b = 1 /\ A[S] = "nl"),
           NEW r \in Seq(AnswerSymbol), Early(r, A, s), Index(r, "Begin") # 0
    PROVE  IsWhole(r, b, R, E) \/ IsCut(r, b, R, E)
<1> DEFINE l == Len(r)
<1>1. l \in Nat /\ s + l <= Len(A) /\ \A i \in 1..l : r[i] = A[s + i]
  BY DEF Early
<1>2. \A i \in 1..E + 1 : A[S + i] = R[i]
  BY DEF StandsAt
<1> DEFINE x == Index(r, "Begin")
<1>3. x \in 1..l /\ r[x] = "Begin"
  <2>1. x \in 0..l /\ x # 0 /\ (x # 0 => r[x] = "Begin")
    BY IndexIs
  <2> HIDE DEF x, l
  <2> QED
    BY <1>1, <2>1
<1> HIDE DEF l, x
<1>4. b = 1 => r[1] = "nl"
  <2>1. 1 \in 1..l /\ (b = 1 => s + 1 = S)
    BY <1>1, <1>3
  <2> QED
    BY <1>1, <2>1
<1>4a. b = 0 \/ (b = 1 /\ r[1] = "nl")
  BY <1>4
<1>5. b < l
  <2>1. b = 1 => x # 1
    BY <1>3, <1>4
  <2> QED
    BY <1>1, <1>3, <2>1
<1>6. ASSUME NEW i \in 1..E, b + i <= l
      PROVE  r[b + i] = R[i]
  <2> DEFINE k == b + i
  <2>1. k \in 1..l /\ s + k = S + i /\ i \in 1..E + 1
    BY <1>1, <1>6
  <2>2. r[k] = A[s + k]
    BY <1>1, <2>1
  <2> HIDE DEF k
  <2> QED
    BY <1>2, <2>1, <2>2 DEF k
<1>7. CASE b + E <= l
  <2>1. \A i \in 1..E : b + i <= l
    BY <1>1, <1>7
  <2>2. b + E <= Len(r) /\ \A i \in 1..E : r[b + i] = R[i]
    BY <1>6, <1>7, <2>1 DEF l
  <2> QED
    BY <1>4a, <2>2 DEF IsWhole
<1>8. CASE l < b + E
  <2>1. \A i \in 1..l - b : i \in 1..E /\ b + i <= l
    BY <1>1, <1>8
  <2>2. \A i \in 1..l - b : r[b + i] = R[i]
    BY <1>6, <2>1
  <2>3. b < Len(r) /\ Len(r) < b + E /\ \A i \in 1..Len(r) - b : r[b + i] = R[i]
    BY <1>5, <1>8, <2>2 DEF l
  <2> QED
    BY <1>4a, <2>3 DEF IsCut
<1> QED
  BY <1>1, <1>7, <1>8

(* Before the block that lacks its marker, blocks are whole. *)
LEMMA LackingBlock ==
    ASSUME NEW R, NEW E \in Nat, NEW A \in Seq(AnswerSymbol), NEW S \in Nat,
           StandsAt(A, S, R, E),
           NEW b \in Nat, NEW s \in Nat, s + b = S, b = 0 \/ (b = 1 /\ A[S] = "nl"),
           NEW r \in Seq(AnswerSymbol), NEW g \in S + 1..Len(A), Lacking(r, A, s, g)
    PROVE  /\ g > S + E + 1 => IsWhole(r, b, R, E)
           /\ g <= S + E => IsGapped(r, b, R, E, g - S)
<1> DEFINE l == Len(r)
           a == Len(A)
<1>1. /\ l \in Nat /\ a \in Nat /\ s + l + 1 = a
      /\ \A i \in 1..l : r[i] = IF s + i < g THEN A[s + i] ELSE A[s + i + 1]
  BY DEF Lacking
<1>2. S + E + 1 <= a /\ \A i \in 1..E + 1 : A[S + i] = R[i]
  BY DEF StandsAt
<1>3. g \in Nat /\ S < g /\ g <= a
  BY <1>1
<1> HIDE DEF l, a
<1>4. b + E <= l
  BY <1>1, <1>2
<1>5. b = 1 /\ l # 0 => r[1] = "nl"
  <2>1. l # 0 => 1 \in 1..l
    BY <1>1
  <2>2. b = 1 => s + 1 = S
    OBVIOUS
  <2> QED
    BY <1>1, <1>3, <2>1, <2>2
<1>6. CASE g > S + E + 1
  <2>1. ASSUME NEW i \in 1..E
        PROVE  r[b + i] = R[i]
    <3> DEFINE k == b + i
    <3>1. k \in 1..l /\ s + k = S + i /\ i \in 1..E + 1 /\ s + k < g
      BY <1>1, <1>3, <1>4, <1>6
    <3>2. r[k] = A[s + k]
      BY <1>1, <3>1
    <3> HIDE DEF k
    <3> QED
      BY <1>2, <3>1, <3>2 DEF k
  <2>2. b = 1 => l # 0
    BY <1>1, <1>4
  <2>3. ~(g <= S + E)
    BY <1>3, <1>6
  <2>4. b = 0 \/ (b = 1 /\ r[1] = "nl")
    BY <1>5, <2>2
  <2>5. IsWhole(r, b, R, E)
    BY <1>4, <2>1, <2>4 DEF IsWhole, l
  <2> QED
    BY <2>3, <2>5
<1>7. CASE g <= S + E
  <2>1. ASSUME NEW i \in 1..E - 1
        PROVE  r[b + i] = IF i < g - S THEN R[i] ELSE R[i + 1]
    <3> DEFINE k == b + i
               h == i + 1
    <3>1. /\ k \in 1..l /\ s + k = S + i /\ s + k + 1 = S + h
          /\ i \in 1..E + 1 /\ h \in 1..E + 1
          /\ (s + k < g) = (i < g - S)
      BY <1>1, <1>3, <1>4, <1>7
    <3>2. r[k] = IF s + k < g THEN A[s + k] ELSE A[s + k + 1]
      BY <1>1, <3>1
    <3>3. A[S + i] = R[i] /\ A[S + h] = R[h]
      BY <1>2, <3>1
    <3> HIDE DEF k, h
    <3>4. r[k] = IF i < g - S THEN R[i] ELSE R[h]
      BY <3>1, <3>2, <3>3
    <3> QED
      BY <3>4 DEF k, h
  <2>2. b + E - 1 <= l /\ (b = 1 => l # 0)
    BY <1>1, <1>4
  <2>3. ~(g > S + E + 1)
    BY <1>3, <1>7
  <2>4. b = 0 \/ (b = 1 /\ r[1] = "nl")
    BY <1>5, <2>2
  <2>5. IsGapped(r, b, R, E, g - S)
    BY <2>1, <2>2, <2>4 DEF IsGapped, l
  <2> QED
    BY <2>3, <2>5
<1> QED
  BY <1>3, <1>6, <1>7

(* What is left behind a whole block. *)
LEMMA BehindWhole ==
    ASSUME NEW R, NEW E \in Nat, EndsAt(R, E), NEW A \in Seq(AnswerSymbol), NEW S \in Nat,
           NEW b \in Nat, NEW s \in Nat, s + b = S,
           NEW r \in Seq(AnswerSymbol), IsWhole(r, b, R, E)
    PROVE  LET w == From(After(r), Index(After(r), "End") + 1)
           IN  /\ w \in Seq(AnswerSymbol)
               /\ Early(r, A, s) => Early(w, A, S + E)
               /\ \A g : Lacking(r, A, s, g) => Lacking(w, A, S + E, g)
<1> DEFINE l == Len(r)
           t == After(r)
           w == From(t, E)
<1>1. /\ t \in Seq(AnswerSymbol) /\ Len(t) = l - b - 1
      /\ \A i \in 1..l - b - 1 : t[i] = r[b + 1 + i]
      /\ Index(t, "End") = E - 1
  <2>1. After(r) \in Seq(AnswerSymbol)
    BY WholeMarkers
  <2>2. Len(After(r)) = Len(r) - b - 1
    BY WholeMarkers
  <2>3. \A i \in 1..Len(r) - b - 1 : After(r)[i] = r[b + 1 + i]
    BY WholeMarkers
  <2>4. Index(After(r), "End") = E - 1
    BY WholeMarkers
  <2> QED
    BY <2>1, <2>2, <2>3, <2>4
<1>2. l \in Nat /\ b + E <= l /\ E >= 9
  BY DEF IsWhole, EndsAt
<1>3. From(t, Index(t, "End") + 1) = w
  <2>1. (E - 1) + 1 = E
    OBVIOUS
  <2> QED
    BY <1>1, <2>1
<1> HIDE DEF t, l
<1>4. E \in 1..Len(t) + 1 /\ Len(t) + 1 - E = l - b - E
  BY <1>1, <1>2
<1>5. /\ w \in Seq(AnswerSymbol) /\ Len(w) = l - b - E
      /\ \A i \in 1..l - b - E : w[i] = t[E - 1 + i]
  <2> DEFINE n == Len(t) + 1 - E
  <2>1. /\ w \in Seq(AnswerSymbol) /\ Len(w) = n
        /\ \A i \in 1..n : w[i] = t[E - 1 + i]
    BY <1>1, <1>4, FromIs
  <2> HIDE DEF n, w
  <2>2. n = l - b - E
    BY <1>4 DEF n
  <2> QED
    BY <2>1, <2>2
<1> HIDE DEF w
<1>6. ASSUME NEW i \in 1..l - b - E
      PROVE  /\ b + E + i \in 1..l /\ s + (b + E + i) = S + E + i
             /\ w[i] = r[b + E + i]
  <2> DEFINE k == E - 1 + i
  <2>1. /\ k \in 1..l - b - 1 /\ b + 1 + k = b + E + i
        /\ b + E + i \in 1..l /\ s + (b + E + i) = S + E + i
    BY <1>2
  <2>2. w[i] = t[k]
    BY <1>5
  <2> HIDE DEF k
  <2>3. t[k] = r[b + 1 + k]
    BY <1>1, <2>1
  <2> QED
    BY <2>1, <2>2, <2>3
<1>7. ASSUME Early(r, A, s)
      PROVE  Early(w, A, S + E)
  <2>1. s + l <= Len(A) /\ \A i \in 1..l : r[i] = A[s + i]
    BY <1>7 DEF Early, l
  <2>2. (S + E) + Len(w) <= Len(A)
    <3>1. (S + E) + (l - b - E) = s + l
      BY <1>2
    <3> QED
      BY <1>5, <2>1, <3>1
  <2>3. \A i \in 1..Len(w) : w[i] = A[(S + E) + i]
    BY <1>5, <1>6, <2>1
  <2> QED
    BY <2>2, <2>3 DEF Early
<1>8. ASSUME NEW g, Lacking(r, A, s, g)
      PROVE  Lacking(w, A, S + E, g)
  <2>1. /\ s + l + 1 = Len(A)
        /\ \A i \in 1..l : r[i] = IF s + i < g THEN A[s + i] ELSE A[s + i + 1]
    BY <1>8 DEF Lacking, l
  <2>2. (S + E) + Len(w) + 1 = Len(A)
    <3>1. (S + E) + (l - b - E) = s + l
      BY <1>2
    <3> QED
      BY <1>5, <2>1, <3>1
  <2>3. ASSUME NEW i \in 1..Len(w)
        PROVE  w[i] = IF (S + E) + i < g THEN A[(S + E) + i] ELSE A[(S + E) + i + 1]
    <3> DEFINE k == b + E + i
    <3>1. k \in 1..l /\ s + k = S + E + i /\ w[i] = r[k]
      BY <1>5, <1>6
    <3> HIDE DEF k
    <3>2. r[k] = IF s + k < g THEN A[s + k] ELSE A[s + k + 1]
      BY <2>1, <3>1
    <3> QED
      BY <3>1, <3>2
  <2> QED
    BY <2>2, <2>3 DEF Lacking
<1> QED
  BY <1>3, <1>5, <1>7, <1>8 DEF t

(* Where the k-th part of a flattened sequence stands. *)
LEMMA FlatLayout ==
    ASSUME NEW T, NEW P \in Seq(Seq(T)), NEW k \in Nat, k < Len(P)
    PROVE  JoinOf(Flat(P, k + 1), Flat(P, k), P[k + 1])
<1>1. k \in 0..Len(P) - 1 /\ k \in 0..Len(P) /\ k + 1 \in 1..Len(P)
  OBVIOUS
<1>2. Flat(P, k) \in Seq(T) /\ P[k + 1] \in Seq(T)
  BY <1>1, FlatType
<1>3. Flat(P, k + 1) = Cat(Flat(P, k), P[k + 1])
  BY <1>1, FlatStep DEF Cat
<1> DEFINE u == Flat(P, k)
           v == P[k + 1]
<1> HIDE DEF u, v
<1>4. JoinOf(Cat(u, v), u, v)
  BY <1>2, Join DEF u, v
<1> QED
  BY <1>3, <1>4 DEF u, v

(* The first parts are a beginning of what more parts give. *)
LEMMA FlatGrows ==
    ASSUME NEW T, NEW P \in Seq(Seq(T)), NEW k \in Nat, NEW n \in Nat, k <= n, n <= Len(P)
    PROVE  /\ Len(Flat(P, k)) <= Len(Flat(P, n))
           /\ \A i \in 1..Len(Flat(P, k)) : Flat(P, n)[i] = Flat(P, k)[i]
<1> DEFINE f(m) == Flat(P, m)
           l(m) == Len(f(m))
           Good(m) == k <= m /\ m <= Len(P) =>
                          l(k) <= l(m) /\ \A i \in 1..l(k) : f(m)[i] = f(k)[i]
           G == {m \in Nat : Good(m)}
<1>0. Len(P) \in Nat
  OBVIOUS
<1>0a. ASSUME NEW m \in Nat, m <= Len(P)
       PROVE  l(m) \in Nat
  <2>1. m \in 0..Len(P)
    BY <1>0, <1>0a
  <2>2. Flat(P, m) \in Seq(T)
    BY <2>1, FlatType
  <2> QED
    BY <2>2
<1>1. 0 \in G
  <2>1. l(0) <= l(0)
    BY <1>0, <1>0a
  <2>2. k <= 0 => k = 0
    OBVIOUS
  <2> HIDE DEF f, l
  <2> QED
    BY <2>1, <2>2
<1>2. ASSUME NEW m \in Nat, m \in G
      PROVE  m + 1 \in G
  <2>1. CASE k = m + 1
    <3>1. m + 1 <= Len(P) => l(m + 1) \in Nat
      BY <1>0, <1>0a
    <3> HIDE DEF f, l
    <3> QED
      BY <2>1, <3>1
  <2>2. CASE ~(m + 1 <= Len(P))
    <3> HIDE DEF f, l
    <3> QED
      BY <2>2
  <2>3. CASE k # m + 1 /\ m + 1 <= Len(P) /\ k <= m + 1
    <3>1. k <= m /\ m <= Len(P) /\ m < Len(P) /\ k <= Len(P)
      BY <1>0, <2>3
    <3>2. JoinOf(f(m + 1), f(m), P[m + 1])
      BY <3>1, FlatLayout
    <3>3. l(k) \in Nat /\ l(m) \in Nat
      BY <1>0a, <3>1
    <3>4. Len(P[m + 1]) \in Nat
      <4>1. m + 1 \in 1..Len(P)
        BY <1>0, <2>3
      <4> QED
        BY <4>1
    <3> HIDE DEF f
    <3>5. l(k) <= l(m) /\ \A i \in 1..l(k) : f(m)[i] = f(k)[i]
      BY <1>2, <3>1
    <3>6. l(m + 1) = l(m) + Len(P[m + 1]) /\ \A i \in 1..l(m) : f(m + 1)[i] = f(m)[i]
      BY <3>2 DEF JoinOf
    <3> HIDE DEF l
    <3>7. l(k) <= l(m + 1)
      BY <1>0, <1>0a, <2>3, <3>3, <3>4, <3>5, <3>6, SMTT(40)
    <3>8. \A i \in 1..l(k) : f(m + 1)[i] = f(k)[i]
      BY <3>3, <3>5, <3>6
    <3> QED
      BY <3>7, <3>8
  <2>4. CASE ~(k <= m + 1)
    <3> HIDE DEF f, l
    <3> QED
      BY <2>4
  <2> QED
    BY <2>1, <2>2, <2>3, <2>4
<1> HIDE DEF G
<1>3. Nat \subseteq G
  BY <1>1, <1>2, SetInduction
<1>4. Good(n)
  BY <1>3 DEF G
<1> QED
  BY <1>4

Rendering(script) == [i \in DOMAIN script |-> Render(script[i])]

(* How many symbols stand before the (k+1)-th block. *)
Start(script, k) == Len(Flat(Rendering(script), k))

(* Where each block stands in an answer. *)
LEMMA Layout ==
    ASSUME NEW script \in Seq(Edit)
    PROVE  /\ Rendered(script) \in Seq(AnswerSymbol)
           /\ Start(script, 0) = 0 /\ Start(script, Len(script)) = Len(Rendered(script))
           /\ \A k \in Nat : k <= Len(script) => Start(script, k) \in Nat
           /\ \A k \in Nat : k < Len(script) =>
                  LET e == script[k + 1]
                      S == Start(script, k)
                  IN  /\ e \in Edit
                      /\ StandsAt(Rendered(script), S, Render(e), Reads(e))
                      /\ Start(script, k + 1) = S + Reads(e) + 1
<1> DEFINE P == Rendering(script)
           A == Rendered(script)
           n == Len(script)
<1>1. n \in Nat /\ DOMAIN script = 1..n /\ \A i \in 1..n : script[i] \in Edit
  OBVIOUS
<1>2. \A e \in Edit : Render(e) \in Seq(AnswerSymbol)
  BY RenderIs
<1>3. P = [i \in 1..n |-> Render(script[i])]
  BY <1>1 DEF Rendering
<1>4. P \in Seq(Seq(AnswerSymbol)) /\ Len(P) = n
  <2>1. P \in [1..n -> Seq(AnswerSymbol)]
    BY <1>1, <1>2, <1>3
  <2> QED
    BY <1>1, <2>1
<1>5. A = FlattenSeq(P)
  BY DEF Rendered, Rendering
<1> HIDE DEF P, A
<1>6. ASSUME NEW k \in Nat, k <= n
      PROVE  Flat(P, k) \in Seq(AnswerSymbol) /\ Start(script, k) \in Nat
  <2>1. k \in 0..Len(P)
    BY <1>1, <1>4, <1>6
  <2>2. Flat(P, k) \in Seq(AnswerSymbol)
    BY <1>4, <2>1, FlatType
  <2>3. Len(Flat(P, k)) \in Nat
    BY <2>2
  <2> QED
    BY <2>2, <2>3 DEF Start, P
<1>7. A = Flat(P, n)
  BY <1>4, <1>5, FlatAll
<1>8. Start(script, n) = Len(A)
  BY <1>7 DEF Start, P
<1>9. A \in Seq(AnswerSymbol)
  BY <1>1, <1>6, <1>7
<1>10. Start(script, 0) = 0
  <2>1. Flat(P, 0) = <<>>
    BY FlatZero
  <2> QED
    BY <2>1 DEF Start, P
<1>11. ASSUME NEW k \in Nat, k < n
       PROVE  /\ script[k + 1] \in Edit
              /\ StandsAt(A, Start(script, k), Render(script[k + 1]), Reads(script[k + 1]))
              /\ Start(script, k + 1) = Start(script, k) + Reads(script[k + 1]) + 1
  <2> DEFINE e == script[k + 1]
             S == Start(script, k)
             U == Start(script, k + 1)
             E == Reads(e)
             R == Render(e)
             u == Flat(P, k)
             w == Flat(P, k + 1)
  <2>1. k + 1 \in 1..n /\ k <= n /\ k + 1 <= n /\ k < Len(P) /\ k + 1 <= Len(P)
        /\ k + 1 \in Nat
    BY <1>1, <1>4, <1>11
  <2>2. e \in Edit /\ P[k + 1] = R
    BY <1>1, <1>3, <2>1
  <2>3. E \in Nat /\ Len(R) = E + 1
    <3>1. Shape(R, e)
      BY <2>2, RenderIs
    <3> HIDE DEF e, R
    <3> QED
      BY <2>2, <3>1, EndsWhere DEF EndsAt, E
  <2>4. JoinOf(w, u, R)
    BY <1>4, <2>1, <2>2, FlatLayout
  <2>5. /\ Len(w) <= Len(A) /\ \A i \in 1..Len(w) : A[i] = w[i]
    <3>1. Len(P) \in Nat /\ Len(P) <= Len(P) /\ A = Flat(P, Len(P))
      BY <1>1, <1>4, <1>7
    <3> QED
      BY <1>4, <2>1, <3>1, FlatGrows
  <2>6. S = Len(u) /\ U = Len(w) /\ S \in Nat /\ U \in Nat
    BY <1>6, <2>1 DEF Start, P
  <2> HIDE DEF e, E, R, u, w, S, U
  <2>7. U = S + (E + 1) /\ \A i \in 1..E + 1 : w[S + i] = R[i]
    BY <2>3, <2>4, <2>6 DEF JoinOf
  <2>8. ASSUME NEW i \in 1..E + 1
        PROVE  A[S + i] = R[i]
    <3> DEFINE h == S + i
    <3>1. h \in 1..Len(w)
      BY <2>3, <2>6, <2>7
    <3>2. w[h] = R[i]
      BY <2>7
    <3> HIDE DEF h
    <3>3. A[h] = R[i]
      BY <2>5, <3>1, <3>2
    <3> QED
      BY <3>3 DEF h
  <2>9. StandsAt(A, S, R, E) /\ U = S + E + 1
    <3>1. U = S + E + 1
      BY <2>3, <2>6, <2>7
    <3> QED
      BY <2>5, <2>6, <2>8, <3>1 DEF StandsAt
  <2> QED
    BY <2>2, <2>9 DEF e, E, R, S, U
<1> QED
  BY <1>6, <1>8, <1>9, <1>10, <1>11 DEF A

(* The edits es are read from the answer to script, and r is unread: the   *)
(* line end of the last block read and the blocks to come, except that the *)
(* answer may end early, or lack a marker in a block to come.              *)
ReadInv(script, es, r) ==
    LET A == Rendered(script)
        k == Len(es)
        S == Start(script, k)
    IN  /\ r \in Seq(AnswerSymbol)
        /\ es \in Seq(Edit) /\ k <= Len(script) /\ \A i \in 1..k : es[i] = script[i]
        /\ \E s \in 0..S, b \in {0, 1} :
               /\ s + b = S /\ (b = 1 => A[S] = "nl") /\ (k = 0 => b = 0)
               /\ \/ Early(r, A, s)
                  \/ \E g \in S + 1..Len(A) : A[g] \in {"Old", "New"} /\ Lacking(r, A, s, g)

NextEdit(r) == [old |-> OldOf(BlockOf(r)), new |-> NewOf(BlockOf(r))]

NextRest(r) == From(After(r), Index(After(r), "End") + 1)

(* A round of parseMarkerEdits reads the next edit, or finds that the      *)
(* block is not whole.                                                     *)
LEMMA ReadWhole ==
    ASSUME NEW script \in Seq(Edit), NEW es \in Seq(Edit), NEW k \in Nat,
           k = Len(es), k < Len(script), \A i \in 1..k : es[i] = script[i],
           NEW e \in Edit, e = script[k + 1], NEW w
    PROVE  /\ Append(es, e) \in Seq(Edit) /\ Len(Append(es, e)) = k + 1
           /\ k + 1 <= Len(script)
           /\ \A i \in 1..k + 1 : Append(es, e)[i] = script[i]
OBVIOUS

(* A block ends with a newline. *)
LEMMA LastOfBlock ==
    ASSUME NEW e \in Edit, NEW A, NEW S \in Nat, StandsAt(A, S, Render(e), Reads(e))
    PROVE  A[S + Reads(e) + 1] = "nl"
<1> DEFINE R == Render(e)
           o == Len(e.old)
           n == Len(e.new)
           E == Reads(e)
<1>1. Shape(R, e)
  BY RenderIs
<1>2. R[o + n + 10] = "nl"
  BY <1>1 DEF Shape
<1>3. o \in Nat /\ n \in Nat /\ E = o + n + 9
  BY EditIs DEF Reads
<1>4. \A i \in 1..E + 1 : A[S + i] = R[i]
  BY DEF StandsAt
<1> HIDE DEF R, o, n, E
<1>5. E + 1 \in 1..E + 1 /\ E + 1 = o + n + 10 /\ S + (E + 1) = S + E + 1
  BY <1>3
<1>6. A[S + (E + 1)] = R[E + 1]
  BY <1>4, <1>5
<1> QED
  BY <1>2, <1>5, <1>6 DEF E

(* One round of the parser: it finds no further block, finds it broken, or reads the
   edit meant. *)
LEMMA ReadStep ==
    ASSUME NEW script \in Seq(Edit), NEW es, NEW r, ReadInv(script, es, r),
           Index(r, "Begin") # 0
    PROVE  \/ Index(After(r), "End") = 0
           \/ Index(BlockOf(r), "Old") = 0
           \/ Index(BlockOf(r), "New") = 0
           \/ ReadInv(script, Append(es, NextEdit(r)), NextRest(r))
<1> DEFINE A == Rendered(script)
           k == Len(es)
           n == Len(script)
           S == Start(script, k)
<1>1. /\ r \in Seq(AnswerSymbol) /\ es \in Seq(Edit) /\ k <= n
      /\ \A i \in 1..k : es[i] = script[i]
  BY DEF ReadInv
<1>2. PICK s \in 0..S, b \in {0, 1} :
          /\ s + b = S /\ (b = 1 => A[S] = "nl") /\ (k = 0 => b = 0)
          /\ \/ Early(r, A, s)
             \/ \E g \in S + 1..Len(A) : A[g] \in {"Old", "New"} /\ Lacking(r, A, s, g)
  BY DEF ReadInv
<1>3. n \in Nat /\ k \in Nat
  BY <1>1
<1>4. /\ A \in Seq(AnswerSymbol) /\ Len(A) \in Nat /\ S \in Nat
      /\ k = n => S = Len(A)
  BY <1>1, <1>3, Layout
<1>5. s \in Nat /\ b \in Nat /\ (b = 0 \/ (b = 1 /\ A[S] = "nl"))
  BY <1>2, <1>4
<1> HIDE DEF A, k, n, S
<1>6. k # n
  <2> SUFFICES ASSUME k = n PROVE FALSE
    OBVIOUS
  <2>1. S = Len(A)
    BY <1>4
  <2>2. S + 1..Len(A) = {}
    BY <1>4, <2>1
  <2>3. Early(r, A, s)
    BY <1>2, <2>2
  <2>4. s + Len(r) <= Len(A) /\ \A i \in 1..Len(r) : r[i] = A[s + i]
    BY <2>3 DEF Early
  <2> DEFINE x == Index(r, "Begin")
             l == Len(r)
  <2>5. l \in Nat /\ x \in 0..l /\ x # 0 /\ (x # 0 => r[x] = "Begin")
    BY <1>1, IndexIs
  <2> HIDE DEF x, l
  <2>6. x = 1 /\ b = 1 /\ s + x = S
    BY <1>2, <1>4, <1>5, <2>1, <2>4, <2>5 DEF l
  <2>7. r[x] = A[s + x]
    BY <2>4, <2>5 DEF l
  <2> QED
    BY <1>5, <2>5, <2>6, <2>7
<1>7. k < n
  BY <1>1, <1>3, <1>6 DEF k, n
<1> DEFINE e == script[k + 1]
           R == Render(e)
           E == Reads(e)
           U == Start(script, k + 1)
<1>8. e \in Edit /\ StandsAt(A, S, R, E) /\ U = S + E + 1
  BY <1>3, <1>7, Layout DEF A, S, n
<1>9. A[S + E + 1] = "nl"
  BY <1>4, <1>8, LastOfBlock
<1> HIDE DEF e
<1>10. Shape(R, e)
  BY <1>8, RenderIs
<1>11. E \in Nat /\ EndsAt(R, E)
  BY <1>8, <1>10, EndsWhere
<1> HIDE DEF R, E, U
<1>12. ASSUME IsWhole(r, b, R, E),
              \/ Early(r, A, s)
              \/ \E g \in U + 1..Len(A) : A[g] \in {"Old", "New"} /\ Lacking(r, A, s, g)
       PROVE  ReadInv(script, Append(es, NextEdit(r)), NextRest(r))
  <2> DEFINE w == NextRest(r)
             fs == Append(es, NextEdit(r))
  <2>1. OldOf(BlockOf(r)) = e.old /\ NewOf(BlockOf(r)) = e.new
    BY <1>1, <1>5, <1>8, <1>10, <1>12, WholeBlock DEF E
  <2>2. NextEdit(r) = e
    BY <1>8, <2>1 DEF NextEdit, Edit
  <2>3. /\ fs \in Seq(Edit) /\ Len(fs) = k + 1 /\ k + 1 <= n
        /\ \A i \in 1..k + 1 : fs[i] = script[i]
    BY <1>1, <1>3, <1>7, <1>8, <2>2, ReadWhole DEF k, n, e
  <2>4. /\ w \in Seq(AnswerSymbol)
        /\ Early(r, A, s) => Early(w, A, S + E)
        /\ \A g : Lacking(r, A, s, g) => Lacking(w, A, S + E, g)
    BY <1>1, <1>2, <1>4, <1>5, <1>11, <1>12, BehindWhole DEF NextRest
  <2> HIDE DEF w, fs
  <2> DEFINE t == S + E
  <2>5. t \in 0..U /\ t + 1 = U /\ A[U] = "nl" /\ k + 1 # 0
    BY <1>3, <1>4, <1>8, <1>9, <1>11
  <2>6. \/ Early(w, A, t)
        \/ \E g \in U + 1..Len(A) : A[g] \in {"Old", "New"} /\ Lacking(w, A, t, g)
    BY <1>12, <2>4
  <2> HIDE DEF t
  <2>7. U = Start(script, Len(fs))
    BY <2>3 DEF U
  <2>8. \E z \in 0..U, c \in {0, 1} :
            /\ z + c = U /\ (c = 1 => A[U] = "nl") /\ (Len(fs) = 0 => c = 0)
            /\ \/ Early(w, A, z)
               \/ \E g \in U + 1..Len(A) : A[g] \in {"Old", "New"} /\ Lacking(w, A, z, g)
    BY <2>3, <2>5, <2>6
  <2>9. ReadInv(script, fs, w)
    BY <2>3, <2>4, <2>7, <2>8 DEF ReadInv, A, n
  <2> QED
    BY <2>9 DEF w, fs
<1>13. CASE Early(r, A, s)
  <2>1. IsWhole(r, b, R, E) \/ IsCut(r, b, R, E)
    BY <1>1, <1>2, <1>4, <1>5, <1>8, <1>11, <1>13, EarlyBlock
  <2>2. IsCut(r, b, R, E) => Index(After(r), "End") = 0
    BY <1>1, <1>5, <1>11, CutMarkers
  <2> QED
    BY <1>12, <1>13, <2>1, <2>2
<1>14. ASSUME NEW g \in S + 1..Len(A), A[g] \in {"Old", "New"}, Lacking(r, A, s, g)
       PROVE  \/ Index(BlockOf(r), "Old") = 0
              \/ Index(BlockOf(r), "New") = 0
              \/ ReadInv(script, Append(es, NextEdit(r)), NextRest(r))
  <2>0. /\ g > S + E + 1 => IsWhole(r, b, R, E)
        /\ g <= S + E => IsGapped(r, b, R, E, g - S)
    BY <1>1, <1>2, <1>4, <1>5, <1>8, <1>11, <1>14, LackingBlock
  <2>1. g \in Nat /\ S < g /\ g <= Len(A)
    BY <1>4
  <2>2. CASE g > S + E + 1
    <3>1. g \in U + 1..Len(A)
      BY <1>4, <1>8, <1>11, <2>1, <2>2
    <3> QED
      BY <1>12, <1>14, <2>0, <2>2, <3>1
  <2>3. CASE g = S + E + 1
    BY <1>9, <1>14, <2>3
  <2>4. CASE g <= S + E
    <3> DEFINE h == g - S
    <3>1. h \in 1..E + 1 /\ S + h = g
      BY <1>4, <1>11, <2>1, <2>4
    <3>2. IsGapped(r, b, R, E, h)
      BY <2>0, <2>4
    <3> HIDE DEF h
    <3>3. A[S + h] = R[h] /\ Len(R) = E + 1
      BY <1>8, <1>11, <3>1 DEF StandsAt, EndsAt
    <3>4. h \in 1..Len(R) /\ R[h] \in {"Old", "New"}
      BY <1>14, <3>1, <3>3
    <3> QED
      BY <1>1, <1>5, <1>8, <1>10, <3>2, <3>4, GapBlock DEF E
  <2> QED
    BY <1>4, <1>11, <2>1, <2>2, <2>3, <2>4
<1> QED
  BY <1>2, <1>13, <1>14

EditInv ==
    /\ meant \in Seq(Edit)
    /\ stage = "parse" /\ isJSON => rest = <<>> /\ edits = <<>>
    /\ stage = "parse" /\ ~isJSON => ReadInv(meant, edits, rest)
    /\ NoHalfEdit

(* What has been read is a prefix of what was meant. *)
LEMMA ReadIsPrefix ==
    ASSUME NEW script \in Seq(Edit), NEW es, NEW r, ReadInv(script, es, r)
    PROVE  IsPrefix(es, script)
<1>1. /\ es \in Seq(Edit) /\ Len(es) <= Len(script)
      /\ \A i \in 1..Len(es) : es[i] = script[i]
  BY DEF ReadInv
<1> DEFINE k == Len(es)
<1>2. k \in Nat /\ 1 \in 1..Len(script) + 1 /\ k \in 1 - 1..Len(script) /\ k + 1 - 1 = k
  BY <1>1
<1> HIDE DEF k
<1>3. /\ SubSeq(script, 1, k) \in Seq(Edit) /\ Len(SubSeq(script, 1, k)) = k + 1 - 1
      /\ \A i \in 1..k + 1 - 1 : SubSeq(script, 1, k)[i] = script[1 - 1 + i]
  BY <1>2, PartOf
<1>4. \A i \in 1..k : SubSeq(script, 1, k)[i] = es[i]
  BY <1>1, <1>2, <1>3 DEF k
<1>5. SubSeq(script, 1, k) = es
  BY <1>1, <1>2, <1>3, <1>4, SeqEqual DEF k
<1>6. SubSeq(es, 1, k) = es
  BY <1>1, SubSeqFull DEF k
<1> QED
  BY <1>1, <1>5, <1>6 DEF IsPrefix, k

(* A text without one of its symbols. *)
LEMMA RemovedAt ==
    ASSUME NEW T, NEW t \in Seq(T), NEW p \in 1..Len(t)
    PROVE  /\ RemoveAt(t, p) \in Seq(T) /\ Len(RemoveAt(t, p)) + 1 = Len(t)
           /\ \A i \in 1..Len(RemoveAt(t, p)) :
                  RemoveAt(t, p)[i] = IF i < p THEN t[i] ELSE t[i + 1]
<1> DEFINE n == Len(t)
           a == p - 1
           b == p + 1
           u == SubSeq(t, 1, a)
           v == SubSeq(t, b, n)
           w == Cat(u, v)
<1>1. n \in Nat /\ p \in Nat /\ p <= n /\ p >= 1
  OBVIOUS
<1>2. /\ 1 \in 1..n + 1 /\ a \in 1 - 1..n /\ a + 1 - 1 = a /\ a \in Nat
      /\ b \in 1..n + 1 /\ n \in b - 1..n /\ n + 1 - b = n - p
  BY <1>1
<1>3. RemoveAt(t, p) = w
  BY DEF RemoveAt, Cat
<1> HIDE DEF n, a, b
<1>4. /\ u \in Seq(T) /\ Len(u) = a + 1 - 1
      /\ \A i \in 1..a + 1 - 1 : u[i] = t[1 - 1 + i]
  BY <1>2, PartOf DEF n
<1>5. /\ v \in Seq(T) /\ Len(v) = n + 1 - b
      /\ \A i \in 1..n + 1 - b : v[i] = t[b - 1 + i]
  BY <1>2, PartOf DEF n
<1> HIDE DEF u, v
<1>6. w \in Seq(T) /\ JoinOf(w, u, v)
  BY <1>4, <1>5, Join
<1> HIDE DEF w
<1>7. /\ Len(w) = Len(u) + Len(v)
      /\ \A i \in 1..Len(u) : w[i] = u[i]
      /\ \A i \in 1..Len(v) : w[Len(u) + i] = v[i]
  BY <1>6 DEF JoinOf
<1>8. Len(u) = a /\ Len(v) = n - p /\ a = p - 1 /\ b = p + 1
  BY <1>2, <1>4, <1>5 DEF a, b
<1>9. Len(w) + 1 = n
  BY <1>1, <1>7, <1>8
<1>10. ASSUME NEW i \in 1..Len(w)
       PROVE  w[i] = IF i < p THEN t[i] ELSE t[i + 1]
  <2>1. CASE i < p
    <3>1. i \in 1..a /\ 1 - 1 + i = i
      BY <1>1, <1>8, <1>9, <2>1
    <3> QED
      BY <1>2, <1>4, <1>7, <1>8, <2>1, <3>1
  <2>2. CASE ~(i < p)
    <3> DEFINE k == i - a
    <3>1. k \in 1..n - p /\ a + k = i /\ b - 1 + k = i + 1
      BY <1>1, <1>8, <1>9, <2>2
    <3> HIDE DEF k
    <3>2. w[a + k] = v[k] /\ v[k] = t[b - 1 + k]
      BY <1>2, <1>5, <1>7, <1>8, <3>1
    <3> QED
      BY <2>2, <3>1, <3>2
  <2> QED
    BY <2>1, <2>2
<1> QED
  BY <1>3, <1>6, <1>9, <1>10 DEF n

(* Nothing is read yet. *)
LEMMA ReadNothing ==
    ASSUME NEW script \in Seq(Edit), NEW r \in Seq(AnswerSymbol),
           LET A == Rendered(script)
           IN  \/ Early(r, A, 0)
               \/ \E g \in 1..Len(A) : A[g] \in {"Old", "New"} /\ Lacking(r, A, 0, g)
    PROVE  ReadInv(script, <<>>, r)
<1> DEFINE A == Rendered(script)
<1>1. Start(script, 0) = 0
  BY Layout
<1>2. /\ <<>> \in Seq(Edit) /\ Len(<<>>) = 0 /\ 0 <= Len(script)
      /\ \A i \in 1..0 : <<>>[i] = script[i]
  OBVIOUS
<1>3. \/ Early(r, A, 0)
      \/ \E g \in 0 + 1..Len(A) : A[g] \in {"Old", "New"} /\ Lacking(r, A, 0, g)
  <2>1. 0 + 1 = 1
    OBVIOUS
  <2> QED
    BY <2>1
<1> HIDE DEF A
<1>4. \E s \in 0..0, b \in {0, 1} :
         /\ s + b = 0 /\ (b = 1 => A[0] = "nl") /\ (0 = 0 => b = 0)
         /\ \/ Early(r, A, s)
            \/ \E g \in 0 + 1..Len(A) : A[g] \in {"Old", "New"} /\ Lacking(r, A, s, g)
  <2>1. 0 \in 0..0 /\ 0 \in {0, 1} /\ 0 + 0 = 0
    OBVIOUS
  <2> QED
    BY <1>3, <2>1
<1> QED
  BY <1>1, <1>2, <1>4 DEF ReadInv, A

(* At first nothing is read, and the answer is what was meant, whole, cut off, or
   without one of its markers. *)
LEMMA EditInitially == EditInit => EditInv
<1> SUFFICES ASSUME EditInit PROVE EditInv
  OBVIOUS
<1> DEFINE A == Rendered(meant)
<1>1. stage = "parse" /\ edits = <<>> /\ NoHalfEdit
  BY DEF EditInit, NoHalfEdit
<1>2. meant \in Seq(Edit)
  BY EditBoundsAssumption, ScriptType DEF EditInit
<1>3. isJSON => rest = <<>>
  BY DEF EditInit
<1>4. A \in Seq(AnswerSymbol) /\ Len(A) \in Nat /\ DOMAIN A = 1..Len(A)
  <2>1. A \in Seq(AnswerSymbol)
    BY <1>2, Layout
  <2> HIDE DEF A
  <2> QED
    BY <2>1
<1>5. ~isJSON => \/ rest = A
                 \/ \E cut \in DOMAIN A : rest = SubSeq(A, 1, cut)
                 \/ \E p \in DOMAIN A : A[p] \in {"Old", "New"} /\ rest = RemoveAt(A, p)
  BY DEF EditInit
<1>6. ASSUME ~isJSON
      PROVE  /\ rest \in Seq(AnswerSymbol)
             /\ \/ Early(rest, A, 0)
                \/ \E g \in 1..Len(A) : A[g] \in {"Old", "New"} /\ Lacking(rest, A, 0, g)
  <2> HIDE DEF A
  <2>1. CASE rest = A
    <3>1. Early(A, A, 0)
      BY <1>4 DEF Early
    <3> QED
      BY <1>4, <2>1, <3>1
  <2>2. ASSUME NEW cut \in DOMAIN A, rest = SubSeq(A, 1, cut)
        PROVE  rest \in Seq(AnswerSymbol) /\ Early(rest, A, 0)
    <3>1. 1 \in 1..Len(A) + 1 /\ cut \in 1 - 1..Len(A) /\ cut + 1 - 1 = cut /\ cut \in Nat
          /\ cut <= Len(A)
      BY <1>4
    <3>2. /\ rest \in Seq(AnswerSymbol) /\ Len(rest) = cut + 1 - 1
          /\ \A i \in 1..cut + 1 - 1 : rest[i] = A[1 - 1 + i]
      BY <1>4, <2>2, <3>1, PartOf
    <3>3. \A i \in 1..cut : 1 - 1 + i = 0 + i
      BY <3>1
    <3> QED
      BY <1>4, <3>1, <3>2, <3>3 DEF Early
  <2>3. ASSUME NEW p \in DOMAIN A, A[p] \in {"Old", "New"}, rest = RemoveAt(A, p)
        PROVE  rest \in Seq(AnswerSymbol) /\ Lacking(rest, A, 0, p)
    <3>1. /\ rest \in Seq(AnswerSymbol) /\ Len(rest) + 1 = Len(A)
          /\ \A i \in 1..Len(rest) : rest[i] = IF i < p THEN A[i] ELSE A[i + 1]
      BY <1>4, <2>3, RemovedAt
    <3>2. Len(rest) \in Nat /\ 0 + Len(rest) + 1 = Len(A)
      BY <3>1
    <3>3. \A i \in 1..Len(rest) : 0 + i = i
      BY <3>2
    <3> QED
      BY <3>1, <3>2, <3>3 DEF Lacking
  <2> QED
    BY <1>4, <1>5, <1>6, <2>1, <2>2, <2>3
<1>7. ~isJSON => ReadInv(meant, <<>>, rest)
  BY <1>2, <1>6, ReadNothing
<1> QED
  BY <1>1, <1>2, <1>3, <1>7 DEF EditInv

(* Every step of parsing, validation and application keeps the invariant. *)
LEMMA EditStep == EditInv /\ [EditNext]_editVars => EditInv'
<1> SUFFICES ASSUME EditInv, [EditNext]_editVars PROVE EditInv'
  OBVIOUS
<1>1. ASSUME Fail PROVE EditInv'
  BY <1>1 DEF Fail, EditInv, NoHalfEdit
<1>2. CASE ParseJSON
  <2>1. ASSUME stage = "parse", isJSON, edits' = meant, stage' = "apply",
               UNCHANGED <<content, meant, isJSON, rest, applied, fixed>>
        PROVE  EditInv'
    <3>1. IsPrefix(meant, meant)
      <4>1. meant \in Seq(Edit) /\ Len(meant) <= Len(meant)
        BY DEF EditInv
      <4> QED
        BY <4>1 DEF IsPrefix
    <3> QED
      BY <2>1, <3>1 DEF EditInv, NoHalfEdit
  <2> QED
    BY <1>1, <1>2, <2>1 DEF ParseJSON
<1>3. CASE ParseBlock
  <2>1. stage = "parse" /\ Index(rest, "Begin") # 0
    BY <1>3 DEF ParseBlock
  <2>2. ~isJSON /\ meant \in Seq(Edit) /\ ReadInv(meant, edits, rest)
    <3>1. Index(<<>>, "Begin") = 0
      <4>1. <<>> \in Seq({}) /\ Len(<<>>) = 0
        OBVIOUS
      <4>2. Index(<<>>, "Begin") \in 0..Len(<<>>)
        BY <4>1, IndexIs
      <4> QED
        BY <4>1, <4>2
    <3> QED
      BY <2>1, <3>1 DEF EditInv
  <2>3. \/ Index(After(rest), "End") = 0
        \/ Index(BlockOf(rest), "Old") = 0
        \/ Index(BlockOf(rest), "New") = 0
        \/ ReadInv(meant, Append(edits, NextEdit(rest)), NextRest(rest))
    BY <2>1, <2>2, ReadStep
  <2>4. \/ Fail
        \/ /\ Index(After(rest), "End") # 0
           /\ Index(BlockOf(rest), "Old") # 0 /\ Index(BlockOf(rest), "New") # 0
           /\ edits' = Append(edits, NextEdit(rest)) /\ rest' = NextRest(rest)
           /\ UNCHANGED <<stage, content, meant, isJSON, applied, fixed>>
    BY <1>3 DEF ParseBlock, AfterBegin, After, BlockOf, NextEdit, NextRest, OldOf, NewOf
  <2>5. CASE /\ edits' = Append(edits, NextEdit(rest)) /\ rest' = NextRest(rest)
             /\ UNCHANGED <<stage, content, meant, isJSON, applied, fixed>>
             /\ ReadInv(meant, Append(edits, NextEdit(rest)), NextRest(rest))
    <3>1. ReadInv(meant, edits, rest)'
      BY <2>5
    <3>2. stage' = "parse" /\ ~isJSON' /\ (meant \in Seq(Edit))'
      BY <2>1, <2>2, <2>5
    <3> QED
      BY <3>1, <3>2 DEF EditInv, NoHalfEdit
  <2> QED
    BY <1>1, <2>3, <2>4, <2>5
<1>4. CASE EndOfBlocks
  <2>1. stage = "parse" /\ ~isJSON
    BY <1>4 DEF EndOfBlocks
  <2>2. meant \in Seq(Edit) /\ IsPrefix(edits, meant)
    BY <2>1, ReadIsPrefix DEF EditInv
  <2> QED
    BY <1>1, <1>4, <2>1, <2>2 DEF EndOfBlocks, EditInv, NoHalfEdit
<1>5. CASE ApplyEdit
  BY <1>1, <1>5 DEF ApplyEdit, EditInv, NoHalfEdit
<1>6. CASE Finish
  BY <1>1, <1>6 DEF Finish, EditInv, NoHalfEdit
<1>7. CASE UNCHANGED editVars
  BY <1>7 DEF editVars, EditInv, NoHalfEdit
<1> QED
  BY <1>2, <1>3, <1>4, <1>5, <1>6, <1>7 DEF EditNext

(* How far an answer is read is an invariant of rewriteFile. *)
THEOREM EditInvariant == EditSpec => []EditInv
<1> QED
  BY EditInitially, EditStep, PTL DEF EditSpec

(* A half edit is never applied. *)
THEOREM NoHalfEditHolds == EditSpec => []NoHalfEdit
<1>1. EditInv => NoHalfEdit
  BY DEF EditInv
<1> QED
  BY <1>1, EditInvariant, PTL
-----------------------------------------------------------------------------
(***************************************************************************)
(* The edits applied.  strings.Count of a text that cannot overlap itself  *)
(* counts every occurrence, so an Old block that it finds once is where    *)
(* the file has it, moved by what the edits before it have put in.         *)
(***************************************************************************)
(* Where a text is, symbol by symbol. *)
LEMMA PlacesAt ==
    ASSUME NEW T, NEW t \in Seq(T), NEW s \in Seq(T), NEW p
    PROVE  p \in Places(t, s) <=>
               /\ p \in 1..Len(t) + 1 - Len(s)
               /\ \A i \in 1..Len(s) : t[p - 1 + i] = s[i]
<1>0. Len(t) \in Nat /\ Len(s) \in Nat
  OBVIOUS
<1> SUFFICES ASSUME p \in 1..Len(t) + 1 - Len(s)
             PROVE  SubSeq(t, p, p + Len(s) - 1) = s <=>
                        \A i \in 1..Len(s) : t[p - 1 + i] = s[i]
  BY DEF Places
<1> DEFINE b == p + Len(s) - 1
           w == SubSeq(t, p, b)
<1>1. p \in 1..Len(t) + 1 /\ b \in p - 1..Len(t) /\ b + 1 - p = Len(s)
  BY <1>0
<1> HIDE DEF b
<1>2. w \in Seq(T) /\ Len(w) = Len(s) /\ \A i \in 1..Len(s) : w[i] = t[p - 1 + i]
  BY <1>1, PartOf
<1> HIDE DEF w
<1>3. (\A i \in 1..Len(s) : t[p - 1 + i] = s[i]) => w = s
  BY <1>2, SeqEqual
<1>4. w = s <=> \A i \in 1..Len(s) : t[p - 1 + i] = s[i]
  BY <1>2, <1>3
<1> QED
  BY <1>4 DEF w, b

(* Two occurrences of a text that does not overlap itself are apart. *)
LEMMA PlacesApart ==
    ASSUME NEW T, NEW t \in Seq(T), NEW s \in Seq(T), ~OverlapsItself(s),
           NEW p \in Places(t, s), NEW q \in Places(t, s), p < q
    PROVE  p + Len(s) <= q
<1>0. Len(t) \in Nat /\ Len(s) \in Nat /\ p \in Nat /\ q \in Nat
  BY PlacesAt
<1> SUFFICES ASSUME q < p + Len(s) PROVE FALSE
  BY <1>0
<1> DEFINE n == p + Len(s) - q
           a == Len(s) - n + 1
           u == SubSeq(s, 1, n)
           v == SubSeq(s, a, Len(s))
<1>1. /\ n \in 1..Len(s) - 1 /\ n \in 1 - 1..Len(s) /\ n + 1 - 1 = n
      /\ 1 \in 1..Len(s) + 1
  BY <1>0
<1>2. /\ a \in 1..Len(s) + 1 /\ Len(s) \in a - 1..Len(s) /\ Len(s) + 1 - a = n
      /\ a = q - p + 1
  BY <1>0
<1>3. /\ \A i \in 1..Len(s) : t[p - 1 + i] = s[i]
      /\ \A i \in 1..Len(s) : t[q - 1 + i] = s[i]
  <2>1. \A i \in 1..Len(s) : t[p - 1 + i] = s[i]
    BY PlacesAt
  <2>2. \A i \in 1..Len(s) : t[q - 1 + i] = s[i]
    BY PlacesAt
  <2> QED
    BY <2>1, <2>2
<1> HIDE DEF n, a
<1>4. /\ u \in Seq(T) /\ Len(u) = n + 1 - 1
      /\ \A i \in 1..n + 1 - 1 : u[i] = s[1 - 1 + i]
  BY <1>1, PartOf
<1>5. /\ v \in Seq(T) /\ Len(v) = Len(s) + 1 - a
      /\ \A i \in 1..Len(s) + 1 - a : v[i] = s[a - 1 + i]
  BY <1>2, PartOf
<1>6. ASSUME NEW i \in 1..n
      PROVE  u[i] = v[i]
  <2>1. /\ i \in 1..Len(s) /\ a - 1 + i \in 1..Len(s) /\ i \in Nat /\ 1 - 1 + i = i
        /\ p - 1 + (a - 1 + i) = q - 1 + i
    BY <1>0, <1>1, <1>2
  <2>2. s[i] = t[q - 1 + i] /\ s[a - 1 + i] = t[p - 1 + (a - 1 + i)]
    BY <1>3, <2>1
  <2>3. u[i] = s[i] /\ v[i] = s[a - 1 + i]
    BY <1>1, <1>2, <1>4, <1>5, <2>1
  <2> QED
    BY <2>1, <2>2, <2>3
<1> HIDE DEF u, v
<1>7. Len(u) = n /\ Len(v) = n
  BY <1>1, <1>2, <1>4, <1>5
<1>8. u = v
  BY <1>4, <1>5, <1>6, <1>7, SeqEqual
<1>9. \E m \in 1..Len(s) - 1 : SubSeq(s, 1, m) = SubSeq(s, Len(s) - m + 1, Len(s))
  BY <1>1, <1>8 DEF u, v, a
<1> QED
  BY <1>9 DEF OverlapsItself

(***************************************************************************)
(* What strings.Count has counted from each position on.                   *)
(***************************************************************************)
CountAt(f, t, s, p) ==
    IF p > Len(t) THEN 0
    ELSE IF p \in Places(t, s) THEN 1 + f[p + Len(s)] ELSE f[p + 1]

Counts(f, t, s) == f = [p \in 1..Len(t) + 1 |-> CountAt(f, t, s, p)]

(* The counts exist, from the end of the text backwards. *)
LEMMA CountsExist ==
    ASSUME NEW T, NEW t \in Seq(T), NEW s \in Seq(T), s # <<>>
    PROVE  \E f : Counts(f, t, s)
<1> DEFINE n == Len(t) + 1
           Upto(m, f) == \A p \in n - m..n : f[p] = CountAt(f, t, s, p)
           Good(m) == m < n => \E f \in [n - m..n -> Nat] : Upto(m, f)
           M == {m \in Nat : Good(m)}
<1>0. n \in Nat /\ n >= 1 /\ Len(t) \in Nat /\ n > Len(t) /\ Len(s) \in Nat /\ Len(s) >= 1
  BY EmptySeq
<1>1. \A p \in Places(t, s) : p + Len(s) \in p + 1..n
  BY <1>0, PlacesAt
<1>2. Good(0)
  <2> DEFINE f == [p \in n - 0..n |-> 0]
  <2>1. f \in [n - 0..n -> Nat] /\ n - 0..n = {n}
    BY <1>0
  <2>2. f[n] = 0 /\ n > Len(t)
    BY <1>0, <2>1
  <2> HIDE DEF f, n
  <2> QED
    BY <2>1, <2>2 DEF CountAt
<1> HIDE DEF n
<1>3. ASSUME NEW m \in Nat, Good(m)
      PROVE  Good(m + 1)
  <2> SUFFICES ASSUME m + 1 < n
               PROVE  \E f \in [n - (m + 1)..n -> Nat] : Upto(m + 1, f)
    OBVIOUS
  <2>1. PICK f \in [n - m..n -> Nat] : Upto(m, f)
    BY <1>0, <1>3
  <2> DEFINE k == n - (m + 1)
             x == CountAt(f, t, s, k)
             g == [p \in k..n |-> IF p = k THEN x ELSE f[p]]
  <2>2. k \in Nat /\ k < n /\ k + 1 = n - m /\ k >= 1
    BY <1>0
  <2> HIDE DEF k
  <2>3. ASSUME NEW p \in k..n
        PROVE  /\ p \in Places(t, s) => p + Len(s) \in k + 1..n
               /\ p <= Len(t) => p + 1 \in k + 1..n
    BY <1>0, <1>1, <2>2, <2>3
  <2>4. x \in Nat
    <3>1. k \in k..n /\ \A q \in k + 1..n : f[q] \in Nat
      BY <1>0, <2>1, <2>2
    <3>2. k <= Len(t) \/ k > Len(t)
      BY <1>0, <2>2
    <3> QED
      BY <2>3, <3>1, <3>2 DEF CountAt
  <2> HIDE DEF x
  <2>5. g \in [k..n -> Nat]
    BY <2>1, <2>2, <2>4
  <2>6. g[k] = x /\ \A q \in k + 1..n : g[q] = f[q]
    <3>1. k \in k..n /\ \A q \in k + 1..n : q \in k..n /\ q # k
      BY <1>0, <2>2
    <3> QED
      BY <3>1
  <2> HIDE DEF g
  <2>7. ASSUME NEW p \in k..n
        PROVE  g[p] = CountAt(g, t, s, p)
    <3>1. CountAt(g, t, s, p) = CountAt(f, t, s, p)
      <4>1. p <= Len(t) \/ p > Len(t)
        BY <1>0, <2>2
      <4> QED
        BY <2>3, <2>6, <4>1 DEF CountAt
    <3>2. CASE p = k
      BY <2>6, <3>1, <3>2 DEF x
    <3>3. CASE p # k
      <4>1. p \in k + 1..n /\ p \in n - m..n
        BY <1>0, <2>2, <3>3
      <4> QED
        BY <2>1, <2>6, <3>1, <4>1
    <3> QED
      BY <3>2, <3>3
  <2> QED
    BY <2>5, <2>7 DEF k
<1> HIDE DEF Good
<1>4. 0 \in M /\ \A m \in Nat : m \in M => m + 1 \in M
  BY <1>2, <1>3
<1> HIDE DEF M
<1>5. n - 1 \in Nat /\ n - 1 < n /\ n - (n - 1) = 1
  BY <1>0
<1>6. Good(n - 1)
  BY <1>4, <1>5, SetInduction DEF M
<1>7. PICK f \in [1..n -> Nat] : \A p \in 1..n : f[p] = CountAt(f, t, s, p)
  BY <1>5, <1>6 DEF Good
<1>8. f = [p \in 1..n |-> CountAt(f, t, s, p)]
  BY <1>7
<1> QED
  BY <1>8 DEF Counts, n

(* Each occurrence that is not overlapped is counted. *)
LEMMA CountsThem ==
    ASSUME NEW T, NEW t \in Seq(T), NEW s \in Seq(T), s # <<>>, ~OverlapsItself(s),
           NEW f, Counts(f, t, s)
    PROVE  \A p \in 1..Len(t) + 1 :
               /\ f[p] \in Nat
               /\ (\E q \in Places(t, s) : p <= q) => f[p] >= 1
               /\ (\E q, r \in Places(t, s) : p <= q /\ q < r) => f[p] >= 2
<1> DEFINE n == Len(t) + 1
           Here(p) == \E q \in Places(t, s) : p <= q
           Twice(p) == \E q, r \in Places(t, s) : p <= q /\ q < r
           Right(p) == f[p] \in Nat /\ (Here(p) => f[p] >= 1) /\ (Twice(p) => f[p] >= 2)
           Good(m) == m < n => \A p \in n - m..n : Right(p)
           M == {m \in Nat : Good(m)}
<1>0. n \in Nat /\ n >= 1 /\ Len(t) \in Nat /\ n > Len(t) /\ Len(s) \in Nat /\ Len(s) >= 1
  BY EmptySeq
<1>1. \A p \in Places(t, s) : p \in Nat /\ p + Len(s) \in p + 1..n /\ p < n
  BY <1>0, PlacesAt
<1>2. \A p \in 1..n : f[p] = CountAt(f, t, s, p)
  BY DEF Counts
<1>3. \A p, q \in Places(t, s) : p < q => p + Len(s) <= q
  BY PlacesApart
<1>4. Good(0)
  <2>1. n - 0..n = {n} /\ n \in 1..n
    BY <1>0
  <2>2. f[n] = 0
    BY <1>0, <1>2, <2>1 DEF CountAt
  <2>3. ~Here(n) /\ ~Twice(n)
    BY <1>0, <1>1
  <2> HIDE DEF n, Here, Twice
  <2> QED
    BY <2>1, <2>2, <2>3
<1> HIDE DEF n
<1>5. ASSUME NEW m \in Nat, Good(m)
      PROVE  Good(m + 1)
  <2> DEFINE k == n - (m + 1)
  <2> SUFFICES ASSUME m + 1 < n PROVE Right(k)
    <3>1. m + 1 < n => m < n /\ \A p \in n - (m + 1)..n : p = k \/ p \in n - m..n
      BY <1>0
    <3> HIDE DEF Right
    <3> QED
      BY <1>5, <3>1
  <2>1. /\ k \in 1..n /\ k <= Len(t) /\ ~(k > Len(t)) /\ m < n
        /\ n - m = k + 1
    BY <1>0 DEF n
  <2> HIDE DEF k
  <2>2. \A p \in k + 1..n : Right(p)
    BY <1>5, <2>1
  <2>3. CASE k \in Places(t, s)
    <3> DEFINE l == k + Len(s)
    <3>1. l \in k + 1..n
      BY <1>1, <2>3
    <3>2. f[k] = 1 + f[l]
      BY <1>2, <2>1, <2>3 DEF CountAt
    <3>3. \A q \in Places(t, s) : k < q => l <= q
      BY <1>3, <2>3
    <3> HIDE DEF l
    <3>4. f[l] \in Nat /\ (Here(l) => f[l] >= 1)
      BY <2>2, <3>1
    <3>5. Twice(k) => Here(l)
      <4> SUFFICES ASSUME NEW q \in Places(t, s), NEW r \in Places(t, s), k <= q, q < r
                   PROVE  l <= r
        OBVIOUS
      <4>1. k < r
        BY <1>1, <2>1
      <4> QED
        BY <3>3, <4>1
    <3> HIDE DEF Here, Twice
    <3> QED
      BY <3>2, <3>4, <3>5
  <2>4. CASE k \notin Places(t, s)
    <3>1. k + 1 \in k + 1..n
      BY <1>0, <2>1 DEF n
    <3>2. f[k] = f[k + 1]
      BY <1>2, <2>1, <2>4 DEF CountAt
    <3>3. \A q \in Places(t, s) : k <= q => k + 1 <= q
      BY <1>1, <2>1, <2>4
    <3>4. (Here(k) => Here(k + 1)) /\ (Twice(k) => Twice(k + 1))
      BY <3>3
    <3>5. Right(k + 1)
      BY <2>2, <3>1
    <3> HIDE DEF Here, Twice
    <3> QED
      BY <3>2, <3>4, <3>5
  <2> QED
    BY <2>3, <2>4
<1> HIDE DEF Good
<1>6. 0 \in M /\ \A m \in Nat : m \in M => m + 1 \in M
  BY <1>4, <1>5
<1> HIDE DEF M
<1>7. n - 1 \in Nat /\ n - 1 < n /\ n - (n - 1) = 1
  BY <1>0
<1>8. Good(n - 1)
  BY <1>6, <1>7, SetInduction DEF M
<1>9. \A p \in 1..n : Right(p)
  BY <1>7, <1>8 DEF Good
<1> QED
  BY <1>9 DEF n

(* A text that is counted once, and does not overlap itself, is in one place. *)
LEMMA UniqueIsOnce ==
    ASSUME NEW T, NEW t \in Seq(T), NEW s \in Seq(T), s # <<>>, ~OverlapsItself(s),
           Unique(t, s)
    PROVE  \A p, q \in Places(t, s) : p = q
<1> DEFINE f == CHOOSE g : Counts(g, t, s)
<1>1. MatchCount(t, s) = f[1]
  BY DEF MatchCount, Counts, CountAt
<1>2. Counts(f, t, s)
  BY CountsExist
<1> HIDE DEF f
<1>3. f[1] = 1 /\ 1 \in 1..Len(t) + 1
  BY <1>1 DEF Unique
<1>4. ~\E q, r \in Places(t, s) : 1 <= q /\ q < r
  BY <1>2, <1>3, CountsThem
<1>5. \A p \in Places(t, s) : p \in Nat /\ 1 <= p
  BY PlacesAt
<1> QED
  BY <1>4, <1>5

(* A text is part of another where it has a place. *)
LEMMA PartOfWhere ==
    ASSUME NEW T, NEW u \in Seq(T), NEW s \in Seq(T), s # <<>>
    PROVE  s \in SubSeqs(u) <=> Places(u, s) # {}
<1>0. Len(u) \in Nat /\ Len(s) \in Nat /\ Len(s) >= 1
  BY EmptySeq
<1>1. ASSUME s \in SubSeqs(u)
      PROVE  Places(u, s) # {}
  <2>1. PICK a \in 0..Len(u), b \in 0..Len(u) : s = SubSeq(u, a + 1, b)
    BY <1>1 DEF SubSeqs
  <2>2. a + 1 <= b
    <3>1. ~(a + 1 <= b) => SubSeq(u, a + 1, b) = <<>>
      BY SubSeqEmpty
    <3> QED
      BY <2>1, <3>1
  <2> DEFINE p == a + 1
  <2>3. p \in 1..Len(u) + 1 /\ b \in p - 1..Len(u) /\ b + 1 - p = b - a
    BY <1>0, <2>2
  <2> HIDE DEF p
  <2>4. Len(SubSeq(u, p, b)) = b + 1 - p
    BY <2>3, PartOf
  <2>5. Len(s) = b - a /\ s = SubSeq(u, p, b)
    BY <2>1, <2>3, <2>4 DEF p
  <2>6. p \in 1..Len(u) + 1 - Len(s) /\ p + Len(s) - 1 = b
    BY <1>0, <2>2, <2>5 DEF p
  <2> QED
    BY <2>5, <2>6 DEF Places
<1>2. ASSUME NEW p \in Places(u, s)
      PROVE  s \in SubSeqs(u)
  <2>1. p \in 1..Len(u) + 1 - Len(s) /\ SubSeq(u, p, p + Len(s) - 1) = s
    BY DEF Places
  <2>2. p - 1 \in 0..Len(u) /\ p + Len(s) - 1 \in 0..Len(u) /\ (p - 1) + 1 = p
    BY <1>0, <2>1
  <2> DEFINE a == p - 1
             b == p + Len(s) - 1
  <2>3. a \in 0..Len(u) /\ b \in 0..Len(u) /\ s = SubSeq(u, a + 1, b)
    BY <2>1, <2>2
  <2> HIDE DEF a, b
  <2> QED
    BY <2>3 DEF SubSeqs
<1> QED
  BY <1>1, <1>2

(* Within the first symbols of a text it has the places that end there. *)
LEMMA PlacesWithin ==
    ASSUME NEW T, NEW t \in Seq(T), NEW s \in Seq(T), NEW n \in 0..Len(t), NEW p
    PROVE  p \in Places(SubSeq(t, 1, n), s) <=> p \in Places(t, s) /\ p + Len(s) - 1 <= n
<1> DEFINE u == SubSeq(t, 1, n)
<1>0. Len(t) \in Nat /\ Len(s) \in Nat /\ n \in Nat
  OBVIOUS
<1>1. 1 \in 1..Len(t) + 1 /\ n \in 1 - 1..Len(t) /\ n + 1 - 1 = n
  BY <1>0
<1>2. u \in Seq(T) /\ Len(u) = n + 1 - 1 /\ \A i \in 1..n + 1 - 1 : u[i] = t[1 - 1 + i]
  BY <1>1, PartOf
<1>3. Len(u) = n /\ \A i \in 1..n : u[i] = t[i]
  BY <1>1, <1>2
<1> HIDE DEF u
<1>4. p \in Places(u, s) <=> /\ p \in 1..Len(u) + 1 - Len(s)
                             /\ \A i \in 1..Len(s) : u[p - 1 + i] = s[i]
  BY <1>2, PlacesAt
<1>5. p \in Places(t, s) <=> /\ p \in 1..Len(t) + 1 - Len(s)
                             /\ \A i \in 1..Len(s) : t[p - 1 + i] = s[i]
  BY PlacesAt
<1>6. p \in 1..Len(u) + 1 - Len(s) <=>
          p \in 1..Len(t) + 1 - Len(s) /\ p + Len(s) - 1 <= n
  BY <1>0, <1>3
<1>7. p \in 1..n + 1 - Len(s) => \A i \in 1..Len(s) : p - 1 + i \in 1..n
  BY <1>0
<1> QED
  BY <1>3, <1>4, <1>5, <1>6, <1>7 DEF u

(* strings.Replace of a text that is in one place. *)
LEMMA ReplacedThere ==
    ASSUME NEW T, NEW t \in Seq(T), NEW s \in Seq(T), s # <<>>, NEW r,
           NEW q \in Places(t, s), \A p \in Places(t, s) : p = q
    PROVE  ReplaceFirstSubSeq(r, s, t) =
               SubSeq(t, 1, q - 1) \o r \o SubSeq(t, q + Len(s), Len(t))
<1> DEFINE FirstEnd(i) == /\ s \in SubSeqs(SubSeq(t, 1, i))
                        /\ \A k \in 0..i - 1 : s \notin SubSeqs(SubSeq(t, 1, k))
           last == CHOOSE i \in 0..Len(t) : FirstEnd(i)
           l == q + Len(s) - 1
<1>0. Len(t) \in Nat /\ Len(s) \in Nat /\ Len(s) >= 1 /\ q \in 1..Len(t) + 1 - Len(s)
  BY EmptySeq, PlacesAt
<1>1. l \in 0..Len(t) /\ l - (Len(s) - 1) = q
  BY <1>0
<1>2. ASSUME NEW i \in 0..Len(t)
      PROVE  s \in SubSeqs(SubSeq(t, 1, i)) <=> l <= i
  <2> DEFINE u == SubSeq(t, 1, i)
  <2>1. 1 \in 1..Len(t) + 1 /\ i \in 1 - 1..Len(t)
    BY <1>0
  <2>2. u \in Seq(T)
    BY <2>1, PartOf
  <2>3. \A p : p \in Places(u, s) <=> p = q /\ l <= i
    BY PlacesWithin
  <2> HIDE DEF u, l
  <2>4. s \in SubSeqs(u) <=> Places(u, s) # {}
    BY <2>2, PartOfWhere
  <2>5. Places(u, s) # {} <=> l <= i
    BY <2>3
  <2> QED
    BY <2>4, <2>5 DEF u
<1> HIDE DEF l
<1>3. ASSUME NEW i \in 0..Len(t)
      PROVE  FirstEnd(i) <=> i = l
  <2>1. \A k \in 0..i - 1 : k \in 0..Len(t)
    BY <1>0
  <2>2. FirstEnd(i) <=> l <= i /\ \A k \in 0..i - 1 : ~(l <= k)
    BY <1>2, <2>1
  <2>3. l <= i /\ l # i => l \in 0..i - 1
    BY <1>1
  <2> HIDE DEF FirstEnd
  <2> QED
    BY <1>0, <1>1, <2>2, <2>3
<1>4. last = l
  <2> HIDE DEF FirstEnd
  <2> QED
    BY <1>1, <1>3
<1>5. IndexFirstSubSeq(s, t) = last - (Len(s) - 1)
  BY DEF IndexFirstSubSeq
<1> HIDE DEF last
<1>6. IndexFirstSubSeq(s, t) = q
  BY <1>1, <1>4, <1>5
<1>7. s \in SubSeqs(t)
  BY PartOfWhere
<1> QED
  BY <1>6, <1>7 DEF ReplaceFirstSubSeq, ReplaceSubSeqAt

(* A text in three parts, the middle of which is in one place. *)
LEMMA MiddleReplaced ==
    ASSUME NEW T, NEW u \in Seq(T), NEW s \in Seq(T), NEW v \in Seq(T), NEW r \in Seq(T),
           s # <<>>, \A p, q \in Places(Cat(Cat(u, s), v), s) : p = q
    PROVE  ReplaceFirstSubSeq(r, s, Cat(Cat(u, s), v)) = Cat(Cat(u, r), v)
<1> DEFINE us == Cat(u, s)
           t == Cat(us, v)
           q == Len(u) + 1
           k == Len(u) + Len(s) + 1
<1>0. Len(u) \in Nat /\ Len(s) \in Nat /\ Len(v) \in Nat
  OBVIOUS
<1>1. us \in Seq(T) /\ JoinOf(us, u, s)
  BY Join
<1> HIDE DEF us
<1>2. t \in Seq(T) /\ JoinOf(t, us, v)
  BY <1>1, Join
<1> HIDE DEF t
<1>3. /\ Len(t) = Len(u) + Len(s) + Len(v) /\ Len(us) = Len(u) + Len(s)
      /\ \A i \in 1..Len(u) + Len(s) : t[i] = us[i]
      /\ \A i \in 1..Len(v) : t[Len(u) + Len(s) + i] = v[i]
      /\ \A i \in 1..Len(u) : us[i] = u[i]
      /\ \A i \in 1..Len(s) : us[Len(u) + i] = s[i]
  BY <1>0, <1>1, <1>2 DEF JoinOf
<1>4. /\ \A i \in 1..Len(u) : i \in 1..Len(u) + Len(s)
      /\ \A i \in 1..Len(s) : Len(u) + i \in 1..Len(u) + Len(s)
  BY <1>0
<1>5. /\ \A i \in 1..Len(u) : t[i] = u[i]
      /\ \A i \in 1..Len(s) : t[Len(u) + i] = s[i]
  BY <1>3, <1>4
<1>6. q \in Places(t, s)
  <2>1. q \in 1..Len(t) + 1 - Len(s) /\ q - 1 = Len(u)
    BY <1>0, <1>3
  <2> HIDE DEF q
  <2> QED
    BY <1>2, <1>5, <2>1, PlacesAt
<1>7. q - 1 = Len(u) /\ q + Len(s) = k
  BY <1>0
<1> HIDE DEF q
<1>8. ReplaceFirstSubSeq(r, s, t) = SubSeq(t, 1, q - 1) \o r \o SubSeq(t, q + Len(s), Len(t))
  <2>1. \A p \in Places(t, s) : p = q
    BY <1>6 DEF t, us
  <2> QED
    BY <1>2, <1>6, <2>1, ReplacedThere
<1>9. SubSeq(t, 1, Len(u)) = u
  <2> DEFINE w == SubSeq(t, 1, Len(u))
             n == Len(u)
  <2>1. 1 \in 1..Len(t) + 1 /\ n \in 1 - 1..Len(t) /\ n + 1 - 1 = n
    BY <1>0, <1>3
  <2> HIDE DEF n
  <2>2. /\ SubSeq(t, 1, n) \in Seq(T) /\ Len(SubSeq(t, 1, n)) = n + 1 - 1
        /\ \A i \in 1..n + 1 - 1 : SubSeq(t, 1, n)[i] = t[1 - 1 + i]
    BY <1>2, <2>1, PartOf
  <2>3. \A i \in 1..n : SubSeq(t, 1, n)[i] = u[i]
    BY <1>0, <1>5, <2>1, <2>2 DEF n
  <2>4. SubSeq(t, 1, n) = u
    BY <2>1, <2>2, <2>3, SeqEqual DEF n
  <2> QED
    BY <2>4 DEF n
<1>10. SubSeq(t, k, Len(t)) = v
  <2> DEFINE n == Len(t)
             w == SubSeq(t, k, n)
  <2>1. k \in 1..n + 1 /\ n \in k - 1..n /\ n + 1 - k = Len(v) /\ k - 1 = Len(u) + Len(s)
    BY <1>0, <1>3
  <2> HIDE DEF k
  <2>2. w \in Seq(T) /\ Len(w) = n + 1 - k /\ \A i \in 1..n + 1 - k : w[i] = t[k - 1 + i]
    BY <1>2, <2>1, PartOf
  <2> HIDE DEF w
  <2>3. Len(w) = Len(v) /\ \A i \in 1..Len(v) : w[i] = v[i]
    <3>1. \A i \in 1..Len(v) : w[i] = t[Len(u) + Len(s) + i]
      BY <2>1, <2>2
    <3> QED
      BY <1>3, <2>1, <2>2, <3>1
  <2>4. w = v
    BY <2>2, <2>3, SeqEqual
  <2> QED
    BY <2>4 DEF w
<1> HIDE DEF k
<1>11. ReplaceFirstSubSeq(r, s, t) = u \o r \o v
  BY <1>7, <1>8, <1>9, <1>10, Zenon
<1> QED
  BY <1>11, Zenon DEF t, us, Cat

(***************************************************************************)
(* The file with the first k edits in it, symbol by symbol.                *)
(***************************************************************************)
AppliedPart(k, p) ==
    IF \E i \in 1..k : p = Place(edits[i])
    THEN edits[CHOOSE i \in 1..k : p = Place(edits[i])].new
    ELSE IF \E i \in 1..k : p \in Extent(edits[i])
    THEN <<>> ELSE <<content[p]>>

AppliedParts(k) == [p \in 1..Len(content) |-> AppliedPart(k, p)]

Prompted ==
    /\ content \in Seq(Char) /\ edits \in Seq(Edit) /\ ValidEdits(edits)
    /\ AsThePromptSays

(* Where the text of an edit is in the file. *)
LEMMA ExtentIs ==
    ASSUME Prompted, NEW i \in 1..Len(edits)
    PROVE  LET e == edits[i]
               a == Place(e)
               b == a + Len(e.old) - 1
           IN  /\ e \in Edit /\ e.old \in Seq(Char) /\ e.new \in Seq(Char) /\ e.old # <<>>
               /\ ~OverlapsItself(e.old)
               /\ a \in 1..Len(content) /\ b \in a..Len(content) /\ Len(e.old) = b + 1 - a
               /\ SubSeq(content, a, b) = e.old
               /\ Extent(e) = a..b
<1> DEFINE e == edits[i]
           a == Place(e)
           b == a + Len(e.old) - 1
<1>0. content \in Seq(Char) /\ e \in Edit /\ DOMAIN edits = 1..Len(edits)
  BY DEF Prompted
<1>1. e.old # <<>> /\ ~OverlapsItself(e.old) /\ Cardinality(Places(content, e.old)) = 1
  BY <1>0 DEF Prompted, ValidEdits, AsThePromptSays
<1>2. e.old \in Seq(Char) /\ e.new \in Seq(Char)
  BY <1>0, EditIs
<1> HIDE DEF e
<1>3. Places(content, e.old) # {}
  BY <1>1, FS_EmptySet
<1>4. a \in Places(content, e.old)
  BY <1>3 DEF Place
<1> HIDE DEF a
<1>5. a \in 1..Len(content) + 1 - Len(e.old) /\ SubSeq(content, a, b) = e.old
  BY <1>4 DEF Places
<1>6. Len(e.old) \in Nat /\ Len(e.old) >= 1 /\ Len(content) \in Nat
  BY <1>0, <1>1, <1>2, EmptySeq
<1>7. a \in 1..Len(content) /\ b \in a..Len(content) /\ Len(e.old) = b + 1 - a
  BY <1>5, <1>6
<1>8. Extent(e) = a..b
  BY DEF Extent, a
<1> QED
  BY <1>0, <1>1, <1>2, <1>5, <1>7, <1>8 DEF e, a

(* No two edits touch one symbol. *)
LEMMA ExtentsApart ==
    ASSUME Prompted, NEW i \in 1..Len(edits), NEW k \in 1..Len(edits),
           NEW p \in Extent(edits[i]), p \in Extent(edits[k])
    PROVE  i = k
BY DEF Prompted, AsThePromptSays

(* The part of each symbol, by the edit it is in. *)
LEMMA AppliedIs ==
    ASSUME Prompted, NEW k \in 0..Len(edits), NEW p
    PROVE  /\ \A i \in 1..k : p = Place(edits[i]) => AppliedPart(k, p) = edits[i].new
           /\ \A i \in 1..k : p \in Extent(edits[i]) /\ p # Place(edits[i]) =>
                  AppliedPart(k, p) = <<>>
           /\ (\A i \in 1..k : p \notin Extent(edits[i])) => AppliedPart(k, p) = <<content[p]>>
<1>0. Len(edits) \in Nat /\ 1..k \subseteq 1..Len(edits)
  BY DEF Prompted
<1>1. \A i \in 1..k : Place(edits[i]) \in Extent(edits[i])
  BY <1>0, ExtentIs
<1>2. \A i, n \in 1..k : p \in Extent(edits[i]) /\ p \in Extent(edits[n]) => i = n
  BY <1>0, ExtentsApart
<1>3. ASSUME NEW i \in 1..k, p = Place(edits[i])
      PROVE  AppliedPart(k, p) = edits[i].new
  <2>1. \A n \in 1..k : p = Place(edits[n]) => n = i
    BY <1>1, <1>2, <1>3
  <2>2. (CHOOSE n \in 1..k : p = Place(edits[n])) = i
    BY <1>3, <2>1
  <2> QED
    BY <1>3, <2>2, Zenon DEF AppliedPart
<1>4. ASSUME NEW i \in 1..k, p \in Extent(edits[i]), p # Place(edits[i])
      PROVE  AppliedPart(k, p) = <<>>
  <2>1. ~\E n \in 1..k : p = Place(edits[n])
    BY <1>1, <1>2, <1>4
  <2> QED
    BY <1>4, <2>1, Zenon DEF AppliedPart
<1>5. ASSUME \A i \in 1..k : p \notin Extent(edits[i])
      PROVE  AppliedPart(k, p) = <<content[p]>>
  <2>1. ~\E n \in 1..k : p = Place(edits[n])
    BY <1>1, <1>5
  <2> QED
    BY <1>5, <2>1, Zenon DEF AppliedPart
<1> QED
  BY <1>3, <1>4, <1>5

(* The parts are texts. *)
LEMMA AppliedType ==
    ASSUME Prompted, NEW k \in 0..Len(edits)
    PROVE  /\ AppliedParts(k) \in Seq(Seq(Char)) /\ Len(AppliedParts(k)) = Len(content)
           /\ \A p \in 1..Len(content) : AppliedParts(k)[p] = AppliedPart(k, p)
<1>0. Len(edits) \in Nat /\ 1..k \subseteq 1..Len(edits) /\ Len(content) \in Nat
      /\ content \in Seq(Char)
  BY DEF Prompted
<1>1. ASSUME NEW p \in 1..Len(content)
      PROVE  AppliedPart(k, p) \in Seq(Char)
  <2>1. <<>> \in Seq(Char) /\ <<content[p]>> \in Seq(Char)
    BY <1>0
  <2>2. \A i \in 1..k : edits[i].new \in Seq(Char)
    BY <1>0, ExtentIs
  <2> QED
    BY <2>1, <2>2, AppliedIs
<1>2. AppliedParts(k) \in [1..Len(content) -> Seq(Char)]
  BY <1>1, Zenon DEF AppliedParts
<1>3. AppliedParts(k) \in Seq(Seq(Char)) /\ Len(AppliedParts(k)) = Len(content)
  BY <1>0, <1>2, SeqDef, LenProperties
<1> QED
  BY <1>3 DEF AppliedParts

(* What one edit more changes. *)
LEMMA AppliedMore ==
    ASSUME Prompted, NEW k \in 0..Len(edits) - 1, NEW p
    PROVE  LET e == edits[k + 1]
           IN  /\ p \in Extent(e) => AppliedPart(k, p) = <<content[p]>>
               /\ p = Place(e) => AppliedPart(k + 1, p) = e.new
               /\ p \in Extent(e) /\ p # Place(e) => AppliedPart(k + 1, p) = <<>>
               /\ p \notin Extent(e) => AppliedPart(k + 1, p) = AppliedPart(k, p)
<1>0. /\ Len(edits) \in Nat /\ k \in 0..Len(edits) /\ k + 1 \in 0..Len(edits)
      /\ k + 1 \in 1..k + 1 /\ k + 1 \in 1..Len(edits) /\ k + 1 \notin 1..k
      /\ 1..k \subseteq 1..k + 1 /\ 1..k + 1 \subseteq 1..Len(edits)
      /\ \A i \in 1..k + 1 : i = k + 1 \/ i \in 1..k
  BY DEF Prompted
<1> DEFINE m == k + 1
<1>1. \A i, n \in 1..m : p \in Extent(edits[i]) /\ p \in Extent(edits[n]) => i = n
  BY <1>0, ExtentsApart
<1>2. \A i \in 1..m : p = Place(edits[i]) => p \in Extent(edits[i])
  BY <1>0, ExtentIs
<1>3. /\ \A i \in 1..k : p = Place(edits[i]) => AppliedPart(k, p) = edits[i].new
      /\ \A i \in 1..k : p \in Extent(edits[i]) /\ p # Place(edits[i]) =>
             AppliedPart(k, p) = <<>>
      /\ (\A i \in 1..k : p \notin Extent(edits[i])) => AppliedPart(k, p) = <<content[p]>>
  BY <1>0, AppliedIs
<1>4. /\ \A i \in 1..m : p = Place(edits[i]) => AppliedPart(m, p) = edits[i].new
      /\ \A i \in 1..m : p \in Extent(edits[i]) /\ p # Place(edits[i]) =>
             AppliedPart(m, p) = <<>>
      /\ (\A i \in 1..m : p \notin Extent(edits[i])) => AppliedPart(m, p) = <<content[p]>>
  BY <1>0, AppliedIs
<1>5. m \in 1..m /\ m \notin 1..k /\ 1..k \subseteq 1..m /\ \A i \in 1..m : i = m \/ i \in 1..k
  BY <1>0
<1> HIDE DEF m
<1>6. p \in Extent(edits[m]) => AppliedPart(k, p) = <<content[p]>>
  BY <1>1, <1>3, <1>5
<1>7. ASSUME p \notin Extent(edits[m])
      PROVE  AppliedPart(m, p) = AppliedPart(k, p)
  <2>1. CASE \E i \in 1..k : p \in Extent(edits[i])
    <3>1. PICK i \in 1..k : p \in Extent(edits[i])
      BY <2>1
    <3> QED
      BY <1>3, <1>4, <1>5, <3>1
  <2>2. CASE \A i \in 1..k : p \notin Extent(edits[i])
    BY <1>3, <1>4, <1>5, <1>7, <2>2
  <2> QED
    BY <2>1, <2>2
<1>8. (p = Place(edits[m]) => AppliedPart(m, p) = edits[m].new)
      /\ (p \in Extent(edits[m]) /\ p # Place(edits[m]) => AppliedPart(m, p) = <<>>)
  BY <1>4, <1>5
<1> QED
  BY <1>6, <1>7, <1>8 DEF m

(* Lists with the same first parts begin with the same text. *)
LEMMA SameHead ==
    ASSUME NEW S, NEW P \in Seq(Seq(S)), NEW Q \in Seq(Seq(S)),
           NEW n \in 0..Len(P), n <= Len(Q), \A p \in 1..n : Q[p] = P[p]
    PROVE  Flat(Q, n) = Flat(P, n)
<1>0. Len(P) \in Nat /\ Len(Q) \in Nat /\ n \in Nat
  OBVIOUS
<1>1. 1 \in 1..Len(P) + 1 /\ n \in 1 - 1..Len(P) /\ 1 \in 1..Len(Q) + 1 /\ n \in 1 - 1..Len(Q)
      /\ n + 1 - 1 = n
  BY <1>0
<1> DEFINE u == SubSeq(P, 1, n)
           v == SubSeq(Q, 1, n)
<1>2. u \in Seq(Seq(S)) /\ Len(u) = n + 1 - 1 /\ \A i \in 1..n + 1 - 1 : u[i] = P[1 - 1 + i]
  BY <1>1, PartOf
<1>3. v \in Seq(Seq(S)) /\ Len(v) = n + 1 - 1 /\ \A i \in 1..n + 1 - 1 : v[i] = Q[1 - 1 + i]
  BY <1>1, PartOf
<1> HIDE DEF u, v
<1>4. Len(u) = n /\ Len(v) = n
  BY <1>1, <1>2, <1>3
<1>5. ASSUME NEW i \in 1..n
      PROVE  v[i] = u[i]
  <2>1. i \in 1..n + 1 - 1 /\ 1 - 1 + i = i
    BY <1>0, <1>1
  <2>2. u[1 - 1 + i] = P[i] /\ v[1 - 1 + i] = Q[i]
    <3>1. u[i] = P[1 - 1 + i]
      BY <1>2, <2>1
    <3>2. v[i] = Q[1 - 1 + i]
      BY <1>3, <2>1
    <3> QED
      BY <2>1, <3>1, <3>2
  <2> QED
    BY <2>1, <2>2
<1>6. v = u
  BY <1>2, <1>3, <1>4, <1>5, SeqEqual
<1> QED
  BY <1>6 DEF u, v, Flat

(* Lists with the same parts from one on end in the same text. *)
SameAfter(P, Q, b) == Len(P) = Len(Q) /\ \A p \in b + 1..Len(P) : P[p] = Q[p]

LEMMA SameTail ==
    ASSUME NEW S, NEW P \in Seq(Seq(S)), NEW Q \in Seq(Seq(S)),
           NEW b \in 0..Len(P), SameAfter(P, Q, b)
    PROVE  \E v \in Seq(S) : /\ FlattenSeq(P) = Cat(Flat(P, b), v)
                             /\ FlattenSeq(Q) = Cat(Flat(Q, b), v)
<1> DEFINE Both(n, v) == Flat(P, n) = Cat(Flat(P, b), v) /\ Flat(Q, n) = Cat(Flat(Q, b), v)
           Good(n) == b <= n /\ n <= Len(P) => \E v \in Seq(S) : Both(n, v)
           M == {n \in Nat : Good(n)}
<1>0. /\ Len(P) \in Nat /\ b \in Nat /\ b <= Len(P) /\ b \in 0..Len(Q)
      /\ Flat(P, b) \in Seq(S) /\ Flat(Q, b) \in Seq(S)
      /\ Len(P) = Len(Q) /\ \A p \in b + 1..Len(P) : P[p] = Q[p]
  BY FlatType DEF SameAfter
<1>1. Good(b)
  <2>1. Cat(Flat(P, b), <<>>) = Flat(P, b) /\ Cat(Flat(Q, b), <<>>) = Flat(Q, b)
    BY <1>0, ConcatEmptySeq DEF Cat
  <2>2. <<>> \in Seq(S)
    OBVIOUS
  <2> QED
    BY <2>1, <2>2
<1>2. ASSUME b # 0
      PROVE  Good(0)
  BY <1>0, <1>2
<1>3. ASSUME NEW n \in Nat, Good(n), n + 1 # b
      PROVE  Good(n + 1)
  <2> SUFFICES ASSUME b <= n + 1, n + 1 <= Len(P)
               PROVE  \E v \in Seq(S) : Both(n + 1, v)
    OBVIOUS
  <2>1. /\ b <= n /\ n <= Len(P) /\ n \in 0..Len(P) - 1 /\ n \in 0..Len(Q) - 1
        /\ n + 1 \in b + 1..Len(P) /\ n + 1 \in 1..Len(P)
    BY <1>0, <1>3
  <2>2. PICK v \in Seq(S) : Both(n, v)
    BY <1>3, <2>1
  <2> DEFINE w == P[n + 1]
  <2>3. w \in Seq(S) /\ Q[n + 1] = w
    BY <1>0, <2>1
  <2>4. Flat(P, n + 1) = Cat(Flat(P, n), w) /\ Flat(Q, n + 1) = Cat(Flat(Q, n), Q[n + 1])
    BY <1>0, <2>1, FlatStep DEF Cat
  <2> HIDE DEF w
  <2>5. /\ Cat(Cat(Flat(P, b), v), w) = Cat(Flat(P, b), Cat(v, w))
        /\ Cat(Cat(Flat(Q, b), v), w) = Cat(Flat(Q, b), Cat(v, w))
    BY <1>0, <2>2, <2>3, OneMore
  <2>6. Cat(v, w) \in Seq(S)
    BY <2>2, <2>3, Join
  <2>7. Both(n + 1, Cat(v, w))
    BY <2>2, <2>3, <2>4, <2>5, Zenon
  <2> QED
    BY <2>6, <2>7
<1> HIDE DEF Good
<1>4. Good(0)
  <2>1. CASE b = 0
    BY <1>1, <2>1
  <2> QED
    BY <1>2, <2>1
<1>5. ASSUME NEW n \in Nat, Good(n)
      PROVE  Good(n + 1)
  <2>1. CASE n + 1 = b
    BY <1>1, <2>1
  <2> QED
    BY <1>3, <1>5, <2>1
<1>6. 0 \in M /\ \A n \in Nat : n \in M => n + 1 \in M
  BY <1>4, <1>5
<1> HIDE DEF M
<1>7. Good(Len(P))
  BY <1>0, <1>6, SetInduction DEF M
<1>8. PICK v \in Seq(S) : Both(Len(P), v)
  BY <1>0, <1>7 DEF Good
<1>9. Flat(P, Len(P)) = FlattenSeq(P) /\ Flat(Q, Len(P)) = FlattenSeq(Q)
  <2>1. Flat(P, Len(P)) = FlattenSeq(P)
    BY FlatAll
  <2>2. Flat(Q, Len(Q)) = FlattenSeq(Q)
    BY FlatAll
  <2> QED
    BY <1>0, <2>1, <2>2
<1> QED
  BY <1>8, <1>9

(* Where each part is its symbol, the text is as it was. *)
LEMMA AllCopied ==
    ASSUME NEW S, NEW t \in Seq(S)
    PROVE  FlattenSeq([p \in 1..Len(t) |-> <<t[p]>>]) = t
<1> DEFINE P == [p \in 1..Len(t) |-> <<t[p]>>]
           n == Len(t)
<1>0. n \in Nat /\ \A p \in 1..n : <<t[p]>> \in Seq(S)
  OBVIOUS
<1>1. P \in Seq(Seq(S)) /\ Len(P) = n
  <2>1. P \in [1..n -> Seq(S)]
    BY <1>0
  <2> HIDE DEF P
  <2> QED
    BY <1>0, <2>1, SeqDef, LenProperties
<1>2. Copied(P, t, 0, n)
  BY <1>0 DEF Copied
<1> HIDE DEF P
<1>3. 0 \in 0..Len(P) /\ n \in 0..Len(P) /\ Len(t) = Len(P)
  BY <1>0, <1>1
<1>4. Flat(P, n) = Flat(P, 0) \o SubSeq(t, 0 + 1, n)
  BY <1>1, <1>2, <1>3, FlatCopies
<1>5. SubSeq(t, 0 + 1, n) = t /\ Flat(P, 0) = <<>>
  BY FlatZero, SubSeqFull
<1>6. <<>> \o t = t
  BY ConcatEmptySeq
<1>7. Flat(P, n) = FlattenSeq(P)
  BY <1>1, FlatAll
<1> QED
  BY <1>4, <1>5, <1>6, <1>7 DEF P

(* One edit applied to the file that has those before it. *)
LEMMA OneApplied ==
    ASSUME Prompted, NEW k \in 0..Len(edits) - 1,
           Unique(FlattenSeq(AppliedParts(k)), edits[k + 1].old)
    PROVE  ReplaceFirstSubSeq(edits[k + 1].new, edits[k + 1].old, FlattenSeq(AppliedParts(k)))
               = FlattenSeq(AppliedParts(k + 1))
<1> DEFINE e == edits[k + 1]
           P == AppliedParts(k)
           Q == AppliedParts(k + 1)
           a == Place(e)
           b == a + Len(e.old) - 1
           u == Flat(P, a - 1)
<1>0. /\ Len(edits) \in Nat /\ k \in 0..Len(edits) /\ k + 1 \in 0..Len(edits)
      /\ k + 1 \in 1..Len(edits) /\ content \in Seq(Char) /\ Len(content) \in Nat
  BY DEF Prompted
<1>1. /\ P \in Seq(Seq(Char)) /\ Len(P) = Len(content)
      /\ Q \in Seq(Seq(Char)) /\ Len(Q) = Len(content)
      /\ \A p \in 1..Len(content) : P[p] = AppliedPart(k, p) /\ Q[p] = AppliedPart(k + 1, p)
  BY <1>0, AppliedType
<1>2. /\ e.old \in Seq(Char) /\ e.new \in Seq(Char) /\ e.old # <<>> /\ ~OverlapsItself(e.old)
      /\ a \in 1..Len(content) /\ b \in a..Len(content)
      /\ SubSeq(content, a, b) = e.old /\ Extent(e) = a..b
  BY <1>0, ExtentIs
<1>3. \A p : /\ p \in a..b => AppliedPart(k, p) = <<content[p]>>
             /\ p = a => AppliedPart(k + 1, p) = e.new
             /\ p \in a..b /\ p # a => AppliedPart(k + 1, p) = <<>>
             /\ p \notin a..b => AppliedPart(k + 1, p) = AppliedPart(k, p)
  BY <1>2, AppliedMore
<1> HIDE DEF P, Q, a, b, e
<1>4. /\ a \in Nat /\ b \in Nat /\ a - 1 \in 0..Len(P) - 1 /\ a - 1 \in 0..Len(P)
      /\ a - 1 \in 0..Len(Q) - 1 /\ a - 1 \in 0..Len(Q)
      /\ b \in 0..Len(P) /\ b \in a - 1..Len(P) /\ a \in 0..Len(Q) /\ b \in a..Len(Q)
      /\ (a - 1) + 1 = a /\ a \in a..b
      /\ \A p \in a..b : p \in 1..Len(content)
  <2> DEFINE n == Len(content)
  <2>1. n \in Nat /\ a \in 1..n /\ b \in a..n
    BY <1>0, <1>2
  <2> HIDE DEF n
  <2>2. /\ a \in Nat /\ b \in Nat /\ a - 1 \in 0..n - 1 /\ a - 1 \in 0..n
        /\ b \in 0..n /\ b \in a - 1..n /\ a \in 0..n /\ b \in a..n
        /\ (a - 1) + 1 = a /\ a \in a..b
    BY <2>1
  <2>4. \A p \in a..b : p \in 1..n
    BY <2>1
  <2>3. Len(P) = n /\ Len(Q) = n
    BY <1>1 DEF n
  <2> QED
    BY <2>2, <2>3, <2>4 DEF n
<1>5. u \in Seq(Char) /\ Flat(P, b) = Cat(u, e.old)
  <2> DEFINE c == a - 1
  <2>1. c \in 0..Len(P) /\ b \in c..Len(P) /\ c + 1 = a /\ Len(content) = Len(P)
    BY <1>1, <1>4
  <2>2. Copied(P, content, c, b)
    <3> SUFFICES ASSUME NEW p \in c + 1..b PROVE P[p] = <<content[p]>>
      BY DEF Copied
    <3>1. p \in a..b
      BY <2>1
    <3>2. p \in 1..Len(content)
      BY <1>4, <3>1
    <3> QED
      BY <1>1, <1>3, <3>1, <3>2
  <2> HIDE DEF c
  <2>3. Flat(P, b) = Flat(P, c) \o SubSeq(content, c + 1, b)
    BY <1>0, <1>1, <2>1, <2>2, FlatCopies
  <2>4. Flat(P, c) \in Seq(Char)
    BY <1>1, <2>1, FlatType
  <2> QED
    BY <1>2, <2>1, <2>3, <2>4, Zenon DEF c, Cat
<1>6. Flat(Q, b) = Cat(u, e.new)
  <2>1. Flat(Q, a - 1) = Flat(P, a - 1)
    <3>1. \A p \in 1..a - 1 : Q[p] = P[p]
      <4> SUFFICES ASSUME NEW p \in 1..a - 1 PROVE Q[p] = P[p]
        OBVIOUS
      <4>1. p \notin a..b /\ p \in 1..Len(P)
        BY <1>4
      <4> QED
        BY <1>1, <1>3, <4>1
    <3> DEFINE c == a - 1
    <3>2. c \in 0..Len(P) /\ c <= Len(Q) /\ \A p \in 1..c : Q[p] = P[p]
      BY <1>4, <3>1
    <3> HIDE DEF c
    <3>3. Flat(Q, c) = Flat(P, c)
      BY <1>1, <3>2, SameHead
    <3> QED
      BY <3>3 DEF c
  <2>2. Flat(Q, a) = Cat(u, Q[a])
    <3> DEFINE c == a - 1
    <3>1. c \in 0..Len(Q) - 1 /\ c + 1 = a
      BY <1>4
    <3> HIDE DEF c
    <3>2. Flat(Q, c + 1) = Flat(Q, c) \o Q[c + 1]
      BY <1>1, <3>1, FlatStep
    <3> QED
      BY <2>1, <3>1, <3>2, Zenon DEF c, Cat
  <2>3. Flat(Q, b) = Flat(Q, a)
    <3>1. \A p \in a + 1..b : Q[p] = <<>>
      <4> SUFFICES ASSUME NEW p \in a + 1..b PROVE Q[p] = <<>>
        OBVIOUS
      <4>1. p \in a..b /\ p # a
        BY <1>4
      <4>2. p \in 1..Len(content)
        BY <1>4, <4>1
      <4> QED
        BY <1>1, <1>3, <4>1, <4>2
    <3> QED
      BY <1>1, <1>4, <3>1, FlatSkips
  <2>4. Q[a] = e.new
    BY <1>1, <1>2, <1>3
  <2> QED
    BY <2>2, <2>3, <2>4, Zenon
<1>7. PICK v \in Seq(Char) : /\ FlattenSeq(P) = Cat(Flat(P, b), v)
                             /\ FlattenSeq(Q) = Cat(Flat(Q, b), v)
  <2>1. \A p \in b + 1..Len(P) : P[p] = Q[p]
    <3> SUFFICES ASSUME NEW p \in b + 1..Len(P) PROVE P[p] = Q[p]
      OBVIOUS
    <3>1. p \notin a..b /\ p \in 1..Len(content)
      BY <1>1, <1>4
    <3> QED
      BY <1>1, <1>3, <3>1
  <2>2. b \in 0..Len(P) /\ P \in Seq(Seq(Char)) /\ Q \in Seq(Seq(Char)) /\ SameAfter(P, Q, b)
    BY <1>1, <1>4, <2>1 DEF SameAfter
  <2> HIDE DEF u
  <2> QED
    BY <2>2, SameTail
<1> HIDE DEF u
<1>8. /\ FlattenSeq(P) = Cat(Cat(u, e.old), v)
      /\ FlattenSeq(Q) = Cat(Cat(u, e.new), v)
  BY <1>5, <1>6, <1>7, Zenon
<1>9. \A p, q \in Places(FlattenSeq(P), e.old) : p = q
  <2>1. FlattenSeq(P) \in Seq(Char)
    <3>1. Cat(u, e.old) \in Seq(Char)
      BY <1>2, <1>5, Join
    <3> QED
      BY <1>7, <1>8, <3>1, Join
  <2>2. Unique(FlattenSeq(P), e.old)
    BY DEF P, e
  <2> QED
    BY <1>2, <2>1, <2>2, UniqueIsOnce
<1>10. ReplaceFirstSubSeq(e.new, e.old, FlattenSeq(P)) = FlattenSeq(Q)
  <2>1. \A p, q \in Places(Cat(Cat(u, e.old), v), e.old) : p = q
    BY <1>8, <1>9
  <2>2. ReplaceFirstSubSeq(e.new, e.old, Cat(Cat(u, e.old), v)) = Cat(Cat(u, e.new), v)
    BY <1>2, <1>5, <2>1, MiddleReplaced
  <2> QED
    BY <1>8, <2>2, Zenon
<1> QED
  BY <1>10 DEF P, Q, e

(***************************************************************************)
(* What has been applied is in the file, and nothing else.                 *)
(***************************************************************************)
AppliedInv ==
    /\ content \in Seq(Char)
    /\ stage = "parse" => applied = 0 /\ fixed = content
    /\ stage \in {"apply", "fixed"} =>
           /\ edits \in Seq(Edit) /\ ValidEdits(edits) /\ applied \in 0..Len(edits)
           /\ AsThePromptSays => fixed = FlattenSeq(AppliedParts(applied))
    /\ stage = "fixed" => applied = Len(edits)

(* The definitions look at the file and the edits only. *)
LEMMA SamePrompt ==
    ASSUME UNCHANGED <<content, edits>>
    PROVE  /\ AsThePromptSays' <=> AsThePromptSays
           /\ \A k : AppliedParts(k)' = AppliedParts(k)
<1>1. \A e : Place(e)' = Place(e)
  BY DEF Place
<1>2. \A e : Extent(e)' = Extent(e)
  BY <1>1 DEF Extent
<1>3. AsThePromptSays' <=> AsThePromptSays
  BY <1>2 DEF AsThePromptSays
<1>4. \A k, p : AppliedPart(k, p)' = AppliedPart(k, p)
  BY <1>1, <1>2 DEF AppliedPart
<1> QED
  BY <1>3, <1>4 DEF AppliedParts

(* Before the first edit the file is as it was. *)
LEMMA NoneApplied ==
    ASSUME content \in Seq(Char), UNCHANGED content
    PROVE  FlattenSeq(AppliedParts(0)') = content
<1>1. 1..0 = {}
  OBVIOUS
<1>2. AppliedParts(0)' = [p \in 1..Len(content) |-> <<content[p]>>]
  BY <1>1 DEF AppliedParts, AppliedPart
<1> QED
  BY <1>2, AllCopied

(* Every step keeps what has been applied. *)
LEMMA AppliedStep == EditInv /\ AppliedInv /\ [EditNext]_editVars => AppliedInv'
<1> SUFFICES ASSUME EditInv, AppliedInv, [EditNext]_editVars PROVE AppliedInv'
  OBVIOUS
<1>0. content \in Seq(Char) /\ UNCHANGED content
  BY DEF AppliedInv, EditNext, ParseJSON, ParseBlock, EndOfBlocks, ApplyEdit, Finish, Fail,
     editVars
<1>1. ASSUME Fail PROVE AppliedInv'
  BY <1>0, <1>1 DEF Fail, AppliedInv
<1>2. ASSUME stage = "parse", stage' = "apply", UNCHANGED <<applied, fixed>>,
             edits' \in Seq(Edit), ValidEdits(edits')
      PROVE  AppliedInv'
  <2>1. applied' = 0 /\ fixed' = content
    BY <1>2 DEF AppliedInv
  <2>2. fixed' = FlattenSeq(AppliedParts(0)')
    BY <1>0, <2>1, NoneApplied
  <2>3. applied' \in 0..Len(edits')
    BY <1>2, <2>1
  <2>4. FlattenSeq(AppliedParts(applied))' = FlattenSeq(AppliedParts(0)')
    BY <2>1 DEF AppliedParts, AppliedPart
  <2> QED
    BY <1>0, <1>2, <2>2, <2>3, <2>4 DEF AppliedInv, ValidEdits
<1>3. CASE ParseJSON
  BY <1>1, <1>2, <1>3 DEF ParseJSON, EditInv
<1>4. CASE ParseBlock
  BY <1>0, <1>1, <1>4 DEF ParseBlock, AppliedInv
<1>5. CASE EndOfBlocks
  <2>1. stage = "parse" /\ edits \in Seq(Edit)
    BY <1>5 DEF EndOfBlocks, EditInv, ReadInv
  <2> QED
    BY <1>1, <1>2, <1>5, <2>1 DEF EndOfBlocks
<1>6. CASE ApplyEdit
  <2> DEFINE e == edits[applied + 1]
  <2>1. stage = "apply" /\ applied < Len(edits)
    BY <1>6 DEF ApplyEdit
  <2>2. edits \in Seq(Edit) /\ ValidEdits(edits) /\ applied \in 0..Len(edits) /\ Len(edits) \in Nat
        /\ (AsThePromptSays => fixed = FlattenSeq(AppliedParts(applied)))
    BY <2>1 DEF AppliedInv
  <2>3. ASSUME Unique(fixed, e.old), fixed' = ReplaceFirstSubSeq(e.new, e.old, fixed),
               applied' = applied + 1, UNCHANGED <<stage, content, meant, isJSON, rest, edits>>
        PROVE  AppliedInv'
    <3>1. applied \in 0..Len(edits) - 1 /\ applied + 1 \in 0..Len(edits)
      BY <2>1, <2>2
    <3>2. ASSUME AsThePromptSays
          PROVE  fixed' = FlattenSeq(AppliedParts(applied + 1))
      BY <1>0, <2>2, <2>3, <3>1, <3>2, OneApplied DEF Prompted
    <3> DEFINE n == applied + 1
    <3>3. UNCHANGED <<content, edits>> /\ applied' = n
      BY <2>3
    <3>4. AsThePromptSays' <=> AsThePromptSays
      BY <3>3, SamePrompt
    <3> HIDE DEF n
    <3>5. FlattenSeq(AppliedParts(applied))' = FlattenSeq(AppliedParts(n))
      <4>1. \A i : Place(edits[i])' = Place(edits[i]) /\ Extent(edits[i])' = Extent(edits[i])
        BY <3>3 DEF Place, Extent
      <4> QED
        BY <3>3, <4>1 DEF AppliedParts, AppliedPart
    <3>6. /\ content' \in Seq(Char) /\ stage' = "apply" /\ edits' \in Seq(Edit)
          /\ ValidEdits(edits)' /\ applied' \in 0..Len(edits')
      BY <1>0, <2>1, <2>2, <2>3, <3>1 DEF ValidEdits
    <3>7. AsThePromptSays' => fixed' = FlattenSeq(AppliedParts(applied))'
      BY <3>2, <3>4, <3>5 DEF n
    <3> QED
      BY <3>6, <3>7 DEF AppliedInv
  <2> QED
    BY <1>1, <1>6, <2>3 DEF ApplyEdit
<1>7. CASE Finish
  BY <1>0, <1>1, <1>7, SamePrompt DEF Finish, AppliedInv
<1>8. CASE UNCHANGED editVars
  BY <1>0, <1>8, SamePrompt DEF editVars, AppliedInv
<1> QED
  BY <1>3, <1>4, <1>5, <1>6, <1>7, <1>8 DEF EditNext

(* The file under rewriteFile is the one there was, with the edits applied so far. *)
THEOREM AppliedInvariant == EditSpec => [](EditInv /\ AppliedInv)
<1>1. EditInit => AppliedInv
  <2> SUFFICES ASSUME EditInit PROVE AppliedInv
    OBVIOUS
  <2>1. content \in Seq(Char)
    BY EditBoundsAssumption, ScriptType DEF EditInit
  <2> QED
    BY <2>1 DEF EditInit, AppliedInv
<1> QED
  BY <1>1, AppliedStep, EditInvariant, PTL DEF EditSpec

(* An accepted answer, given as the prompt asks for it, does all its edits at once, for
   files and scripts of any length: none of them can hit what another has put in. *)
THEOREM EditsAsOneHolds == EditSpec => []EditsAsOne
<1>1. EditInv /\ AppliedInv => EditsAsOne
  <2> SUFFICES ASSUME AppliedInv, stage = "fixed", AsThePromptSays
               PROVE  fixed = AllAtOnce
    BY DEF EditsAsOne
  <2>1. /\ content \in Seq(Char) /\ edits \in Seq(Edit)
        /\ fixed = FlattenSeq(AppliedParts(Len(edits)))
    BY DEF AppliedInv
  <2>2. DOMAIN content = 1..Len(content) /\ DOMAIN edits = 1..Len(edits)
    BY <2>1
  <2>3. AllAtOnce = FlattenSeq(AppliedParts(Len(edits)))
    BY <2>2 DEF AllAtOnce, AppliedParts, AppliedPart
  <2> QED
    BY <2>1, <2>3
<1> QED
  BY <1>1, AppliedInvariant, PTL
=============================================================================
