------------------------------ MODULE QueueFacts ------------------------------
(***************************************************************************)
(* Facts about numbers, sets and sequences that the proofs about the disk  *)
(* scheduler, the pager, the file server and its connections share.  The   *)
(* queues of the first three are sequences without repetition, of which it *)
(* matters what is in them.                                                *)
(***************************************************************************)
EXTENDS Naturals, SequencesExt, FiniteSetTheorems, SequenceTheorems, WellFoundedInduction, TLAPS

\* A non-empty set of natural numbers has a least element.
LEMMA Minimal ==
  ASSUME NEW R, IsWellFoundedOn(R, Nat), NEW T, T \subseteq Nat, T # {}
  PROVE  \E m \in T : \A k \in T : <<k, m>> \notin R
  BY WFMin

\* The order of the natural numbers is well-founded.
LEMMA LeastNatural ==
  ASSUME NEW T, T \subseteq Nat, T # {}
  PROVE  \E m \in T : \A k \in T : m <= k
<1>1. \E m \in T : \A k \in T : <<k, m>> \notin OpToRel(<, Nat)
  BY NatLessThanWellFounded, Minimal
<1>2. OpToRel(<, Nat) = {ss \in Nat \X Nat : ss[1] < ss[2]}
  BY DEF OpToRel
<1>3. ASSUME NEW m \in T, \A k \in T : <<k, m>> \notin OpToRel(<, Nat)
      PROVE  \A k \in T : m <= k
  <2>1. SUFFICES ASSUME NEW k \in T, k < m PROVE FALSE
    OBVIOUS
  <2>2. <<k, m>> \in {ss \in Nat \X Nat : ss[1] < ss[2]}
    BY <2>1
  <2>3. QED
    BY <1>2, <1>3, <2>2
<1>4. QED
  BY <1>1, <1>3

\* Min chooses the least element.
LEMMA MinProperties ==
  ASSUME NEW T, T \subseteq Nat, T # {}
  PROVE  Min(T) \in T /\ \A k \in T : Min(T) <= k
  BY LeastNatural, Zenon DEF Min

\* The elements of a sequence.
LEMMA ElementsOfSeq ==
  ASSUME NEW S, NEW s \in Seq(S)
  PROVE  /\ Len(s) \in Nat /\ DOMAIN s = 1 .. Len(s)
         /\ \A k \in 1 .. Len(s) : s[k] \in S
         /\ ToSet(s) = {s[k] : k \in 1 .. Len(s)}
         /\ ToSet(s) \subseteq S
  BY LenProperties DEF ToSet

\* Append adds one element, and keeps a sequence injective if the element is new.
LEMMA ElementsOfAppend ==
  ASSUME NEW S, NEW s \in Seq(S), NEW x \in S
  PROVE  /\ Append(s, x) \in Seq(S) /\ Len(Append(s, x)) = Len(s) + 1
         /\ ToSet(Append(s, x)) = ToSet(s) \cup {x}
         /\ IsInjective(s) /\ x \notin ToSet(s) => IsInjective(Append(s, x))
<1>1. /\ Append(s, x) \in Seq(S) /\ Len(Append(s, x)) = Len(s) + 1
      /\ \A k \in 1 .. Len(s) : Append(s, x)[k] = s[k]
      /\ Append(s, x)[Len(s) + 1] = x
  BY AppendProperties
<1>2. /\ Len(s) \in Nat /\ DOMAIN s = 1 .. Len(s)
      /\ DOMAIN Append(s, x) = 1 .. Len(s) + 1
  BY <1>1, LenProperties
<1>3. \A k \in 1 .. Len(s) + 1 : k \in 1 .. Len(s) \/ k = Len(s) + 1
  BY <1>2
<1>4. ToSet(Append(s, x)) = ToSet(s) \cup {x}
  BY <1>1, <1>2, <1>3 DEF ToSet
<1>5. ASSUME IsInjective(s), x \notin ToSet(s)
      PROVE  IsInjective(Append(s, x))
  BY <1>1, <1>2, <1>3, <1>5 DEF ToSet, IsInjective
<1>6. QED
  BY <1>1, <1>4, <1>5

\* Head of a sequence that is not empty.
LEMMA FirstElement ==
  ASSUME NEW S, NEW s \in Seq(S), s # <<>>
  PROVE  Head(s) = s[1]
<1>1. Len(s) \in Nat \ {0} /\ DOMAIN s = 1 .. Len(s)
  BY EmptySeq, LenProperties
<1>2. QED
  BY <1>1

\* Tail of an injective sequence loses the element Head and no other.
LEMMA ElementsOfTail ==
  ASSUME NEW S, NEW s \in Seq(S), s # <<>>
  PROVE  /\ Head(s) \in ToSet(s) /\ Tail(s) \in Seq(S)
         /\ Len(s) \in Nat \ {0} /\ Len(Tail(s)) = Len(s) - 1
         /\ IsInjective(s) => IsInjective(Tail(s)) /\ ToSet(Tail(s)) = ToSet(s) \ {Head(s)}
<1>1. /\ Len(s) \in Nat \ {0} /\ DOMAIN s = 1 .. Len(s) /\ Head(s) = s[1]
      /\ Tail(s) \in Seq(S) /\ Len(Tail(s)) = Len(s) - 1
      /\ \A k \in 1 .. Len(s) - 1 : Tail(s)[k] = s[k + 1]
  BY EmptySeq, LenProperties, HeadTailProperties, FirstElement
<1>2. DOMAIN Tail(s) = 1 .. Len(s) - 1
  BY <1>1, LenProperties
<1>3. Head(s) \in ToSet(s)
  BY <1>1 DEF ToSet
<1>4. ASSUME IsInjective(s)
      PROVE  IsInjective(Tail(s)) /\ ToSet(Tail(s)) = ToSet(s) \ {Head(s)}
  <2>1. \A k \in 1 .. Len(s) - 1 : k + 1 \in 1 .. Len(s) /\ k + 1 # 1
    BY <1>1
  <2>2. \A k \in 1 .. Len(s) : k = 1 \/ (k - 1 \in 1 .. Len(s) - 1 /\ (k - 1) + 1 = k)
    BY <1>1
  <2>3. IsInjective(Tail(s))
    <3>1. SUFFICES ASSUME NEW j \in 1 .. Len(s) - 1, NEW k \in 1 .. Len(s) - 1, Tail(s)[j] = Tail(s)[k]
                   PROVE  j = k
      BY <1>2 DEF IsInjective
    <3>2. j + 1 = k + 1
      BY <1>1, <1>4, <2>1, <3>1 DEF IsInjective
    <3>3. QED
      BY <3>2
  <2>4. \A x : x \in ToSet(Tail(s)) => x \in ToSet(s) /\ x # Head(s)
    BY <1>1, <1>2, <1>4, <2>1 DEF ToSet, IsInjective
  <2>5. \A x : x \in ToSet(s) /\ x # Head(s) => x \in ToSet(Tail(s))
    <3>1. SUFFICES ASSUME NEW k \in 1 .. Len(s), s[k] # Head(s) PROVE s[k] \in ToSet(Tail(s))
      BY <1>1 DEF ToSet
    <3>2. k - 1 \in 1 .. Len(s) - 1 /\ (k - 1) + 1 = k
      BY <1>1, <2>2, <3>1
    <3>3. Tail(s)[k - 1] = s[k]
      BY <1>1, <3>2
    <3>4. QED
      BY <1>2, <3>2, <3>3 DEF ToSet
  <2>6. QED
    BY <2>3, <2>4, <2>5
<1>5. QED
  BY <1>1, <1>3, <1>4

\* Two sequences put together are injective if each is and they share no element.
LEMMA ElementsOfConcat ==
  ASSUME NEW S, NEW s \in Seq(S), NEW t \in Seq(S)
  PROVE  /\ s \o t \in Seq(S) /\ Len(s \o t) = Len(s) + Len(t)
         /\ ToSet(s \o t) = ToSet(s) \cup ToSet(t)
         /\ IsInjective(s \o t) <=> IsInjective(s) /\ IsInjective(t) /\ ToSet(s) \cap ToSet(t) = {}
<1>1. /\ s \o t \in Seq(S) /\ Len(s \o t) = Len(s) + Len(t)
      /\ \A k \in 1 .. Len(s) + Len(t) : (s \o t)[k] = IF k <= Len(s) THEN s[k] ELSE t[k - Len(s)]
  BY ConcatProperties
<1>2. /\ Len(s) \in Nat /\ Len(t) \in Nat /\ DOMAIN s = 1 .. Len(s) /\ DOMAIN t = 1 .. Len(t)
      /\ DOMAIN (s \o t) = 1 .. Len(s) + Len(t)
  BY <1>1, LenProperties
<1> DEFINE st == s \o t
<1>3. \A k \in 1 .. Len(s) : k \in DOMAIN st /\ st[k] = s[k]
  BY <1>1, <1>2
<1>4. \A k \in 1 .. Len(t) : Len(s) + k \in DOMAIN st /\ st[Len(s) + k] = t[k]
  <2>1. SUFFICES ASSUME NEW k \in 1 .. Len(t)
                 PROVE  Len(s) + k \in DOMAIN st /\ st[Len(s) + k] = t[k]
    OBVIOUS
  <2>2. Len(s) + k \in 1 .. Len(s) + Len(t) /\ ~(Len(s) + k <= Len(s)) /\ (Len(s) + k) - Len(s) = k
    BY <1>2
  <2>3. QED
    BY <1>1, <1>2, <2>2
<1>5. \A m \in DOMAIN st : m \in 1 .. Len(s) \/ \E k \in 1 .. Len(t) : m = Len(s) + k
  <2>1. SUFFICES ASSUME NEW m \in 1 .. Len(s) + Len(t), m \notin 1 .. Len(s)
                 PROVE  \E k \in 1 .. Len(t) : m = Len(s) + k
    BY <1>2
  <2>2. m - Len(s) \in 1 .. Len(t) /\ m = Len(s) + (m - Len(s))
    BY <1>2, <2>1
  <2>3. QED
    BY <2>2
<1> HIDE DEF st
<1>6. ToSet(st) = ToSet(s) \cup ToSet(t)
  BY <1>2, <1>3, <1>4, <1>5, SMTT(30) DEF ToSet
<1>7. ASSUME IsInjective(st)
      PROVE  IsInjective(s) /\ IsInjective(t) /\ ToSet(s) \cap ToSet(t) = {}
  <2>1. IsInjective(s)
    BY <1>2, <1>3, <1>7 DEF IsInjective
  <2>2. IsInjective(t)
    <3>1. SUFFICES ASSUME NEW j \in 1 .. Len(t), NEW k \in 1 .. Len(t), t[j] = t[k] PROVE j = k
      BY <1>2 DEF IsInjective
    <3>2. Len(s) + j = Len(s) + k
      BY <1>4, <1>7, <3>1 DEF IsInjective
    <3>3. QED
      BY <1>2, <3>2
  <2>3. ASSUME NEW j \in 1 .. Len(s), NEW k \in 1 .. Len(t), s[j] = t[k] PROVE FALSE
    <3>1. j = Len(s) + k
      BY <1>3, <1>4, <1>7, <2>3 DEF IsInjective
    <3>2. QED
      BY <1>2, <3>1
  <2>4. QED
    BY <1>2, <2>1, <2>2, <2>3 DEF ToSet
<1>8. ASSUME IsInjective(s), IsInjective(t), ToSet(s) \cap ToSet(t) = {}
      PROVE  IsInjective(st)
  <2>1. \A j \in 1 .. Len(s), k \in 1 .. Len(t) : s[j] # t[k]
    BY <1>2, <1>8 DEF ToSet
  <2>2. SUFFICES ASSUME NEW m \in DOMAIN st, NEW n \in DOMAIN st, st[m] = st[n] PROVE m = n
    BY DEF IsInjective
  <2>3. CASE m \in 1 .. Len(s) /\ n \in 1 .. Len(s)
    BY <1>2, <1>3, <1>8, <2>2, <2>3 DEF IsInjective
  <2>4. CASE m \in 1 .. Len(s) /\ n \notin 1 .. Len(s)
    BY <1>3, <1>4, <1>5, <2>1, <2>2, <2>4
  <2>5. CASE m \notin 1 .. Len(s) /\ n \in 1 .. Len(s)
    BY <1>3, <1>4, <1>5, <2>1, <2>2, <2>5
  <2>6. CASE m \notin 1 .. Len(s) /\ n \notin 1 .. Len(s)
    <3>1. PICK j \in 1 .. Len(t) : m = Len(s) + j
      BY <1>5, <2>6
    <3>2. PICK k \in 1 .. Len(t) : n = Len(s) + k
      BY <1>5, <2>6
    <3>3. j = k
      BY <1>2, <1>4, <1>8, <2>2, <3>1, <3>2 DEF IsInjective
    <3>4. QED
      BY <3>1, <3>2, <3>3
  <2>7. QED
    BY <2>3, <2>4, <2>5, <2>6
<1>9. QED
  BY <1>1, <1>6, <1>7, <1>8 DEF st

\* A sequence without repetition has as many elements as places.
LEMMA InjectiveLength ==
  ASSUME NEW S, NEW s \in Seq(S)
  PROVE  /\ IsFiniteSet(ToSet(s)) /\ Cardinality(ToSet(s)) <= Len(s)
         /\ IsInjective(s) => Len(s) = Cardinality(ToSet(s))
<1>1. /\ Len(s) \in Nat /\ DOMAIN s = 1 .. Len(s)
      /\ ToSet(s) = {s[k] : k \in 1 .. Len(s)}
      /\ s \in [1 .. Len(s) -> S]
  BY ElementsOfSeq, LenProperties
<1>2. s \in Surjection(1 .. Len(s), ToSet(s))
  <2>1. s \in [1 .. Len(s) -> ToSet(s)]
    BY <1>1
  <2>2. \A t \in ToSet(s) : \E k \in 1 .. Len(s) : s[k] = t
    BY <1>1
  <2>3. QED
    BY <2>1, <2>2 DEF Surjection
<1>3. IsFiniteSet(1 .. Len(s)) /\ Cardinality(1 .. Len(s)) = Len(s)
  BY <1>1, FS_Interval
<1>4. /\ IsFiniteSet(ToSet(s)) /\ Cardinality(ToSet(s)) <= Len(s)
      /\ Cardinality(ToSet(s)) = Len(s) <=> s \in Injection(1 .. Len(s), ToSet(s))
  BY <1>2, <1>3, FS_Surjection
<1>5. ASSUME IsInjective(s)
      PROVE  s \in Injection(1 .. Len(s), ToSet(s))
  BY <1>1, <1>5 DEF Injection, IsInjective
<1>6. QED
  BY <1>4, <1>5

\* What RemoveAt leaves: the elements before the place, and those behind it one
\* place further to the front.
LEMMA RemoveAtProperties ==
  ASSUME NEW S, NEW s \in Seq(S), NEW n \in 1 .. Len(s)
  PROVE  /\ RemoveAt(s, n) \in Seq(S)
         /\ Len(RemoveAt(s, n)) = Len(s) - 1
         /\ \A k \in 1 .. Len(s) - 1 : RemoveAt(s, n)[k] = s[IF k < n THEN k ELSE k + 1]
<1>1. Len(s) \in Nat /\ \A k \in 1 .. Len(s) : s[k] \in S
  BY LenProperties
<1> DEFINE front == SubSeq(s, 1, n - 1)
           back  == SubSeq(s, n + 1, Len(s))
<1>2. /\ front \in Seq(S) /\ Len(front) = n - 1
      /\ \A k \in 1 .. n - 1 : front[k] = s[k]
  <2>1. \A k \in 1 .. n - 1 : s[k] \in S
    BY <1>1
  <2>2. QED
    BY <1>1, <2>1, SubSeqProperties
<1>3. /\ back \in Seq(S) /\ Len(back) = Len(s) - n
      /\ \A k \in 1 .. Len(s) - n : back[k] = s[n + k]
  <2>1. \A k \in n + 1 .. Len(s) : s[k] \in S
    BY <1>1
  <2>2. QED
    BY <1>1, <2>1, SubSeqProperties
<1>4. RemoveAt(s, n) = front \o back
  BY DEF RemoveAt
<1> HIDE DEF front, back
<1>5. /\ front \o back \in Seq(S)
      /\ Len(front \o back) = n - 1 + (Len(s) - n)
      /\ \A k \in 1 .. n - 1 + (Len(s) - n) :
           (front \o back)[k] = IF k <= n - 1 THEN front[k] ELSE back[k - (n - 1)]
  <2>1. /\ front \o back \in Seq(S)
        /\ Len(front \o back) = Len(front) + Len(back)
        /\ \A k \in 1 .. Len(front) + Len(back) :
             (front \o back)[k] = IF k <= Len(front) THEN front[k] ELSE back[k - Len(front)]
    BY <1>2, <1>3, ConcatProperties, Zenon
  <2>2. QED
    BY <1>2, <1>3, <2>1
<1>6. ASSUME NEW k \in 1 .. Len(s) - 1
      PROVE  (front \o back)[k] = s[IF k < n THEN k ELSE k + 1]
  <2>1. CASE k < n
    BY <1>1, <1>2, <1>5, <2>1
  <2>2. CASE ~(k < n)
    <3>1. k - (n - 1) \in 1 .. Len(s) - n /\ n + (k - (n - 1)) = k + 1
      BY <1>1, <2>2
    <3>2. QED
      BY <1>1, <1>3, <1>5, <2>2, <3>1
  <2>3. QED
    BY <2>1, <2>2
<1>7. QED
  BY <1>1, <1>4, <1>5, <1>6

\* Removing a place of an injective sequence removes its element and no other.
LEMMA ElementsOfRemoveAt ==
  ASSUME NEW S, NEW s \in Seq(S), NEW n \in 1 .. Len(s), IsInjective(s)
  PROVE  /\ ToSet(RemoveAt(s, n)) = ToSet(s) \ {s[n]}
         /\ IsInjective(RemoveAt(s, n))
<1> DEFINE r == RemoveAt(s, n)
<1>1. /\ r \in Seq(S) /\ Len(r) = Len(s) - 1 /\ Len(s) \in Nat
      /\ \A k \in 1 .. Len(s) - 1 : r[k] = s[IF k < n THEN k ELSE k + 1]
  BY RemoveAtProperties, LenProperties
<1> HIDE DEF r
<1>2. DOMAIN r = 1 .. Len(s) - 1 /\ DOMAIN s = 1 .. Len(s)
  BY <1>1, LenProperties
<1>3. \A k \in 1 .. Len(s) - 1 : \E m \in 1 .. Len(s) : m # n /\ r[k] = s[m] /\ m = (IF k < n THEN k ELSE k + 1)
  BY <1>1
<1>4. ToSet(r) \subseteq ToSet(s) \ {s[n]}
  <2>1. SUFFICES ASSUME NEW k \in 1 .. Len(s) - 1 PROVE r[k] \in ToSet(s) /\ r[k] # s[n]
    BY <1>2 DEF ToSet
  <2>2. PICK m \in 1 .. Len(s) : m # n /\ r[k] = s[m]
    BY <1>3
  <2>3. QED
    BY <1>2, <2>2 DEF ToSet, IsInjective
<1>5. ToSet(s) \ {s[n]} \subseteq ToSet(r)
  <2>1. SUFFICES ASSUME NEW m \in 1 .. Len(s), m # n PROVE s[m] \in ToSet(r)
    BY <1>2 DEF ToSet
  <2>2. PICK k \in 1 .. Len(s) - 1 : m = (IF k < n THEN k ELSE k + 1)
    <3>1. CASE m < n
      <4>1. m \in 1 .. Len(s) - 1
        BY <1>1, <3>1
      <4>2. QED
        BY <3>1, <4>1
    <3>2. CASE ~(m < n)
      <4>1. m - 1 \in 1 .. Len(s) - 1 /\ ~(m - 1 < n) /\ m = (m - 1) + 1
        BY <1>1, <2>1, <3>2
      <4>2. QED
        BY <4>1
    <3>3. QED
      BY <3>1, <3>2
  <2>3. r[k] = s[m]
    BY <1>1, <2>2
  <2>4. QED
    BY <1>2, <2>3 DEF ToSet
<1>6. IsInjective(r)
  <2>1. SUFFICES ASSUME NEW j \in 1 .. Len(s) - 1, NEW k \in 1 .. Len(s) - 1, r[j] = r[k] PROVE j = k
    BY <1>2 DEF IsInjective
  <2>2. PICK a \in 1 .. Len(s) : r[j] = s[a] /\ a = (IF j < n THEN j ELSE j + 1)
    BY <1>3
  <2>3. PICK b \in 1 .. Len(s) : r[k] = s[b] /\ b = (IF k < n THEN k ELSE k + 1)
    BY <1>3
  <2>4. a = b
    BY <1>2, <2>1, <2>2, <2>3 DEF IsInjective
  <2>5. QED
    BY <1>1, <2>2, <2>3, <2>4
<1>7. QED
  BY <1>4, <1>5, <1>6 DEF r

\* f is defined on 0 .. n by its value at 0 and by each value from the one before.
IsRecursive(f, S, a, G, n) ==
  /\ f \in [0 .. n -> S] /\ f[0] = a
  /\ \A m \in 1 .. n : f[m] = G[<<m, f[m - 1]>>]

\* There is such a function: otherwise there would be a first n up to which there is none.
LEMMA RecursionExists ==
  ASSUME NEW S, NEW a \in S, NEW G \in [Nat \X S -> S], NEW n \in Nat
  PROVE  \E f : IsRecursive(f, S, a, G, n)
<1> DEFINE Upto(k, f) == IsRecursive(f, S, a, G, k)
           T == {k \in Nat : ~ \E f : Upto(k, f)}
<1>1. SUFFICES ASSUME T # {} PROVE FALSE
  BY <1>1
<1>2. PICK k \in T : \A j \in T : k <= j
  BY <1>1, LeastNatural
<1>3. k # 0
  <2>1. Upto(0, [i \in 0 .. 0 |-> a])
    BY DEF IsRecursive
  <2>2. QED
    BY <1>2, <2>1
<1>4. k \in Nat /\ k - 1 \in Nat /\ k - 1 \notin T
  <2>1. k \in Nat
    OBVIOUS
  <2>2. k - 1 \in Nat /\ ~(k <= k - 1)
    BY <1>3, <2>1
  <2> HIDE DEF T
  <2>3. QED
    BY <1>2, <2>1, <2>2
<1>5. PICK f : Upto(k - 1, f)
  BY <1>4
<1> DEFINE g == [i \in 0 .. k |-> IF i = k THEN G[<<k, f[k - 1]>>] ELSE f[i]]
<1>6. /\ f[k - 1] \in S /\ G[<<k, f[k - 1]>>] \in S
      /\ \A i \in 0 .. k : i # k => i \in 0 .. (k - 1)
      /\ k - 1 \in 0 .. (k - 1)
  BY <1>3, <1>4, <1>5 DEF IsRecursive
<1>7. g \in [0 .. k -> S] /\ g[0] = a
  <2>1. \A i \in 0 .. k : g[i] \in S
    BY <1>5, <1>6 DEF IsRecursive
  <2>2. g[0] = a
    BY <1>3, <1>4, <1>5 DEF IsRecursive
  <2>3. QED
    BY <2>1, <2>2
<1>8. ASSUME NEW m \in 1 .. k PROVE g[m] = G[<<m, g[m - 1]>>]
  <2>1. m \in 0 .. k /\ m - 1 \in 0 .. k /\ m - 1 # k /\ m - 1 \in 0 .. (k - 1)
    BY <1>4
  <2>2. g[m - 1] = f[m - 1]
    BY <2>1
  <2>3. CASE m = k
    BY <2>1, <2>2, <2>3
  <2>4. CASE m # k
    <3>1. m \in 1 .. (k - 1)
      BY <1>4, <2>4
    <3>2. f[m] = G[<<m, f[m - 1]>>]
      BY <1>5, <3>1 DEF IsRecursive
    <3>3. QED
      BY <2>1, <2>2, <2>4, <3>2
  <2>5. QED
    BY <2>3, <2>4
<1>9. Upto(k, g)
  BY <1>7, <1>8 DEF IsRecursive
<1>10. QED
  BY <1>2, <1>9

\* What holds of 0, and of every number up to n that follows one it holds of, holds
\* of all numbers up to n; the property is given as the set of numbers that have it.
LEMMA UpTo ==
  ASSUME NEW n \in Nat, NEW P, 0 \in P, \A m \in 1 .. n : m - 1 \in P => m \in P
  PROVE  0 .. n \subseteq P
<1>1. SUFFICES ASSUME (0 .. n) \ P # {} PROVE FALSE
  OBVIOUS
<1>2. PICK m \in (0 .. n) \ P : \A k \in (0 .. n) \ P : m <= k
  <2>1. (0 .. n) \ P \subseteq Nat
    OBVIOUS
  <2>2. QED
    BY <1>1, <2>1, LeastNatural, Zenon
<1>3. m \in 1 .. n /\ m - 1 \in 0 .. n /\ ~(m <= m - 1)
  BY <1>2
<1>4. QED
  BY <1>2, <1>3
=============================================================================
