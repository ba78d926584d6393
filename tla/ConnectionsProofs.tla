--------------------------- MODULE ConnectionsProofs ---------------------------
(***************************************************************************)
(* What reading a request guarantees, for any number of connections, any   *)
(* streams and any sizes: the file system is given legal requests only, a  *)
(* legal request is understood as what it is, and a block is whole.        *)
(*                                                                         *)
(* The first part is about text: the pieces between separators (getline),  *)
(* the words between spaces (operator>>), and what both make of the line   *)
(* of a request.  It ends with the two facts that the rest needs: a header *)
(* that the checks accept is a legal request, and the line of a legal      *)
(* request is accepted, as that request.                                   *)
(***************************************************************************)
EXTENDS Connections, QueueFacts

-----------------------------------------------------------------------------
(* The smallest numbers of a set *)

\* How many elements of S are smaller than i.
Below(S, i) == {j \in S : j < i}

\* What is below a smaller number, or below what is below, is below.
LEMMA BelowFacts ==
  ASSUME NEW S, S \subseteq Nat, NEW m \in Nat
  PROVE  /\ Below(S, m) \subseteq S /\ m \notin Below(S, m)
         /\ \A i \in S : i \in Below(S, m) <=> ~(m <= i)
         /\ \A i \in Nat : i <= m => Below(S, i) \subseteq Below(S, m)
<1>1. \A i \in S : i \in Nat
  OBVIOUS
<1>2. Below(S, m) \subseteq S /\ m \notin Below(S, m)
  BY DEF Below
<1>3. \A i \in S : i \in Below(S, m) <=> ~(m <= i)
  BY <1>1 DEF Below
<1>4. ASSUME NEW i \in Nat, i <= m, NEW j \in Below(S, i) PROVE j \in Below(S, m)
  <2>1. j \in S /\ j \in Nat /\ j < i
    BY DEF Below
  <2>2. j < m
    BY <1>4, <2>1
  <2> QED
    BY <2>1, <2>2 DEF Below
<1> QED
  BY <1>2, <1>3, <1>4

\* More elements are below a greater one.
LEMMA BelowGrows ==
  ASSUME NEW S, S \subseteq Nat, IsFiniteSet(S), NEW i \in S, NEW m \in Nat, i < m
  PROVE  Cardinality(Below(S, i)) < Cardinality(Below(S, m))
<1>1. IsFiniteSet(Below(S, m)) /\ IsFiniteSet(Below(S, i))
  BY FS_Subset DEF Below
<1>2. Below(S, i) \subseteq Below(S, m) /\ i \in Below(S, m) /\ i \notin Below(S, i)
  <2>1. i \in Nat /\ i <= m /\ ~(m <= i)
    OBVIOUS
  <2> QED
    BY <2>1, BelowFacts
<1>3. Below(S, i) # Below(S, m)
  BY <1>2
<1>4. /\ Cardinality(Below(S, i)) \in Nat /\ Cardinality(Below(S, m)) \in Nat
      /\ Cardinality(Below(S, i)) <= Cardinality(Below(S, m))
      /\ Cardinality(Below(S, i)) # Cardinality(Below(S, m))
  BY <1>1, <1>2, <1>3, FS_Subset, FS_CardinalityType
<1> QED
  BY <1>4

\* A finite set of numbers has a k-th smallest for each k up to its size.
LEMMA NthExists ==
  ASSUME NEW S, S \subseteq Nat, IsFiniteSet(S), NEW k \in 1 .. Cardinality(S)
  PROVE  \E i \in S : Cardinality(Below(S, i)) = k - 1
<1> DEFINE n == Cardinality(S)
           P == {m \in Nat : m < n => \E i \in S : Cardinality(Below(S, i)) = m}
<1>1. n \in Nat
  BY FS_CardinalityType
<1>2. ASSUME NEW T \in SUBSET S, T # S, \A i \in S \ T : T \subseteq Below(S, i),
             \A i \in T : Below(S, i) \subseteq T
      PROVE  \E i \in S : Below(S, i) = T
  <2>1. PICK i \in S \ T : \A j \in S \ T : i <= j
    BY <1>2, LeastNatural
  <2>2. Below(S, i) \subseteq T
    BY <2>1, BelowFacts
  <2>3. T \subseteq Below(S, i)
    BY <1>2, <2>1
  <2>4. Below(S, i) = T
    BY <2>2, <2>3
  <2> QED
    BY <2>1, <2>4
<1>3. 0 \in P
  <2>1. SUFFICES ASSUME 0 < n PROVE \E i \in S : Cardinality(Below(S, i)) = 0
    OBVIOUS
  <2>2. S # {}
    BY <2>1, FS_EmptySet
  <2>3. PICK i \in S : Below(S, i) = {}
    BY <1>2, <2>2
  <2> QED
    BY <2>3, FS_EmptySet
<1>4. ASSUME NEW m \in 1 .. n, m - 1 \in P PROVE m \in P
  <2>1. SUFFICES ASSUME m < n PROVE \E i \in S : Cardinality(Below(S, i)) = m
    BY <1>1
  <2>2. PICK i \in S : Cardinality(Below(S, i)) = m - 1
    BY <1>1, <1>4, <2>1
  <2> DEFINE T == Below(S, i) \cup {i}
  <2>3. T \subseteq S /\ i \notin Below(S, i) /\ IsFiniteSet(Below(S, i))
    BY FS_Subset DEF Below
  <2>4. Cardinality(T) = m
    <3>1. Cardinality(T) = Cardinality(Below(S, i)) + 1
      BY <2>3, FS_AddElement
    <3> QED
      BY <2>2, <3>1
  <2>5. T # S
    BY <1>1, <2>1, <2>4
  <2>6. \A j \in S \ T : T \subseteq Below(S, j)
    <3>1. SUFFICES ASSUME NEW j \in S \ T PROVE T \subseteq Below(S, j)
      OBVIOUS
    <3>2. i \in Nat /\ j \in Nat /\ i <= j /\ j # i
      BY BelowFacts
    <3>3. Below(S, i) \subseteq Below(S, j)
      BY <3>2, BelowFacts
    <3>4. ~(j <= i)
      BY <3>2
    <3>5. i \in Below(S, j)
      BY <3>2, <3>4, BelowFacts
    <3> QED
      BY <3>3, <3>5
  <2>7. \A j \in T : Below(S, j) \subseteq T
    <3>1. SUFFICES ASSUME NEW j \in T PROVE Below(S, j) \subseteq Below(S, i)
      OBVIOUS
    <3>2. i \in Nat /\ j \in Nat /\ j <= i
      BY <2>3 DEF Below
    <3> QED
      BY <3>2, BelowFacts
  <2> HIDE DEF T
  <2>8. PICK j \in S : Below(S, j) = T
    BY <1>2, <2>3, <2>5, <2>6, <2>7
  <2> QED
    BY <2>4, <2>8
<1> HIDE DEF P
<1>5. 0 .. n \subseteq P
  BY <1>1, <1>3, <1>4, UpTo
<1>6. k - 1 \in 0 .. n /\ k - 1 < n
  BY <1>1
<1> QED
  BY <1>5, <1>6 DEF P

\* Nth chooses it, and it is the only one.
LEMMA NthProperties ==
  ASSUME NEW S, S \subseteq Nat, IsFiniteSet(S), NEW k \in 1 .. Cardinality(S)
  PROVE  /\ Nth(S, k) \in S /\ Cardinality(Below(S, Nth(S, k))) = k - 1
         /\ \A i \in S : Cardinality(Below(S, i)) = k - 1 => i = Nth(S, k)
<1>1. \E i \in S : Cardinality({j \in S : j < i}) = k - 1
  BY NthExists DEF Below
<1>2. Nth(S, k) \in S /\ Cardinality(Below(S, Nth(S, k))) = k - 1
  BY <1>1 DEF Nth, Below
<1>3. ASSUME NEW i \in S, Cardinality(Below(S, i)) = k - 1 PROVE i = Nth(S, k)
  <2>1. PICK m \in S : m = Nth(S, k)
    BY <1>2
  <2>2. i \in Nat /\ m \in Nat /\ Cardinality(Below(S, m)) = Cardinality(Below(S, i))
    BY <1>2, <1>3, <2>1
  <2>3. Cardinality(Below(S, i)) \in Nat
    BY <1>3
  <2>4. ~(i < m)
    <3>1. SUFFICES ASSUME i < m PROVE FALSE
      OBVIOUS
    <3>2. Cardinality(Below(S, i)) < Cardinality(Below(S, m))
      BY <2>2, <3>1, BelowGrows
    <3> QED
      BY <2>2, <2>3, <3>2
  <2>5. ~(m < i)
    <3>1. SUFFICES ASSUME m < i PROVE FALSE
      OBVIOUS
    <3>2. Cardinality(Below(S, m)) < Cardinality(Below(S, i))
      BY <2>2, <3>1, BelowGrows
    <3> QED
      BY <2>2, <2>3, <3>2
  <2> QED
    BY <2>1, <2>2, <2>4, <2>5
<1> QED
  BY <1>2, <1>3

\* A greater number does not change the order of the others, and is the last.
LEMMA NthAbove ==
  ASSUME NEW S, S \subseteq Nat, IsFiniteSet(S), NEW m \in Nat, \A i \in S : i < m
  PROVE  /\ IsFiniteSet(S \cup {m}) /\ Cardinality(S) \in Nat /\ Cardinality(S \cup {m}) = Cardinality(S) + 1
         /\ Nth(S \cup {m}, Cardinality(S) + 1) = m
         /\ \A k \in 1 .. Cardinality(S) : Nth(S \cup {m}, k) = Nth(S, k)
<1> DEFINE T == S \cup {m}
           n == Cardinality(S)
<1>1. m \notin S /\ n \in Nat /\ T \subseteq Nat
  BY FS_CardinalityType
<1>2. IsFiniteSet(T) /\ Cardinality(T) = n + 1
  BY <1>1, FS_AddElement
<1>3. Below(T, m) = S
  <2>1. \A i \in S : i \in Below(T, m)
    BY DEF Below
  <2>2. Below(T, m) \subseteq T /\ m \notin Below(T, m)
    BY <1>1, BelowFacts
  <2> QED
    BY <2>1, <2>2
<1>4. \A i \in S : Below(T, i) = Below(S, i)
  BY DEF Below
<1> HIDE DEF n, T
<1>5. Nth(T, n + 1) = m
  <2>1. m \in T /\ Cardinality(Below(T, m)) = (n + 1) - 1 /\ n + 1 \in 1 .. Cardinality(T)
    BY <1>1, <1>2, <1>3 DEF n, T
  <2> QED
    BY <1>1, <1>2, <2>1, NthProperties
<1>6. ASSUME NEW k \in 1 .. n PROVE Nth(T, k) = Nth(S, k)
  <2>1. Nth(S, k) \in S /\ Cardinality(Below(S, Nth(S, k))) = k - 1
    BY NthProperties DEF n
  <2>2. PICK i \in S : i = Nth(S, k)
    BY <2>1
  <2>3. k \in 1 .. Cardinality(T) /\ i \in T /\ Cardinality(Below(T, i)) = k - 1
    BY <1>1, <1>2, <1>4, <2>1, <2>2 DEF T
  <2>4. i = Nth(T, k)
    BY <1>1, <1>2, <2>3, NthProperties
  <2> QED
    BY <2>2, <2>4
<1> QED
  BY <1>1, <1>2, <1>5, <1>6 DEF n, T

\* A set of one number.
LEMMA NthOnly ==
  ASSUME NEW m \in Nat
  PROVE  IsFiniteSet({m}) /\ Cardinality({m}) = 1 /\ Nth({m}, 1) = m
<1>1. IsFiniteSet({}) /\ Cardinality({}) = 0 /\ {} \subseteq Nat /\ {} \cup {m} = {m}
  BY FS_EmptySet
<1>2. /\ IsFiniteSet({} \cup {m}) /\ Cardinality({} \cup {m}) = Cardinality({}) + 1
      /\ Nth({} \cup {m}, Cardinality({}) + 1) = m
  BY <1>1, NthAbove
<1> QED
  BY <1>1, <1>2

-----------------------------------------------------------------------------
(* Text, and what it is made of *)

\* None of the characters in a set occurs in s.
Free(s, separators) == \A i \in DOMAIN s : s[i] \notin separators

\* Text s, a character x and text w, one behind the other.
LEMMA Joint ==
  ASSUME NEW C, NEW s \in Seq(C), NEW x \in C, NEW w \in Seq(C), NEW t, t = (s \o <<x>>) \o w
  PROVE  /\ t \in Seq(C) /\ Len(s) \in Nat /\ Len(w) \in Nat /\ Len(t) = Len(s) + 1 + Len(w)
         /\ DOMAIN s = 1 .. Len(s) /\ DOMAIN w = 1 .. Len(w) /\ DOMAIN t = 1 .. Len(t)
         /\ \A i \in 1 .. Len(s) : t[i] = s[i]
         /\ t[Len(s) + 1] = x
         /\ \A i \in 1 .. Len(w) : t[Len(s) + 1 + i] = w[i]
<1>1. <<x>> \in Seq(C) /\ Len(<<x>>) = 1 /\ <<x>>[1] = x
  OBVIOUS
<1>2. PICK y \in Seq(C) : y = <<x>>
  BY <1>1
<1>3. PICK u : u = s \o y
  OBVIOUS
<1>4. /\ u \in Seq(C) /\ Len(u) = Len(s) + 1
      /\ \A i \in 1 .. Len(s) + 1 : u[i] = IF i <= Len(s) THEN s[i] ELSE y[i - Len(s)]
  BY <1>1, <1>2, <1>3, ConcatProperties
<1>5. t = u \o w
  BY <1>2, <1>3
<1>6. /\ t \in Seq(C) /\ Len(t) = Len(u) + Len(w)
      /\ \A i \in 1 .. Len(u) + Len(w) : t[i] = IF i <= Len(u) THEN u[i] ELSE w[i - Len(u)]
  BY <1>4, <1>5, ConcatProperties
<1>7. Len(s) \in Nat /\ Len(w) \in Nat /\ DOMAIN s = 1 .. Len(s) /\ DOMAIN w = 1 .. Len(w) /\ DOMAIN t = 1 .. Len(t)
  BY <1>6, LenProperties
<1>8. Len(t) = Len(s) + 1 + Len(w)
  BY <1>4, <1>6, <1>7
<1>9. ASSUME NEW i \in 1 .. Len(s) PROVE t[i] = s[i]
  <2>1. i \in 1 .. Len(s) + 1 /\ i <= Len(s) /\ i \in 1 .. Len(u) + Len(w) /\ i <= Len(u)
    BY <1>4, <1>7
  <2> QED
    BY <1>4, <1>6, <2>1
<1>10. t[Len(s) + 1] = x
  <2>1. PICK i : i = Len(s) + 1
    OBVIOUS
  <2>2. i \in 1 .. Len(s) + 1 /\ ~(i <= Len(s)) /\ i \in 1 .. Len(u) + Len(w) /\ i <= Len(u) /\ i - Len(s) = 1
    BY <1>4, <1>7, <2>1
  <2>3. t[i] = y[1]
    BY <1>4, <1>6, <2>2
  <2> QED
    BY <1>1, <1>2, <2>1, <2>3
<1>11. ASSUME NEW i \in 1 .. Len(w) PROVE t[Len(s) + 1 + i] = w[i]
  <2>1. PICK k : k = Len(s) + 1 + i
    OBVIOUS
  <2>2. k \in 1 .. Len(u) + Len(w) /\ ~(k <= Len(u)) /\ k - Len(u) = i
    BY <1>4, <1>7, <2>1
  <2>3. t[k] = w[i]
    BY <1>6, <2>2
  <2> QED
    BY <2>1, <2>3
<1> QED
  BY <1>6, <1>7, <1>8, <1>9, <1>10, <1>11

\* What a part of t is.
LEMMA PartElements ==
  ASSUME NEW C, NEW t, NEW a \in Int, NEW b \in Int, \A i \in a .. b : t[i] \in C
  PROVE  /\ SubSeq(t, a, b) \in Seq(C) /\ Len(SubSeq(t, a, b)) = IF a <= b THEN b - a + 1 ELSE 0
         /\ \A i \in 1 .. b - a + 1 : SubSeq(t, a, b)[i] = t[a + i - 1]
  BY SubSeqProperties

\* A part of s is the same part of what begins with s.
LEMMA PartOfFirst ==
  ASSUME NEW C, NEW s \in Seq(C), NEW x \in C, NEW w \in Seq(C), NEW t, t = (s \o <<x>>) \o w,
         NEW a \in Nat \ {0}, NEW b \in Int, b <= Len(s)
  PROVE  SubSeq(t, a, b) = SubSeq(s, a, b)
<1>1. /\ t \in Seq(C) /\ Len(s) \in Nat /\ Len(w) \in Nat /\ Len(t) = Len(s) + 1 + Len(w)
      /\ \A i \in 1 .. Len(s) : t[i] = s[i]
  BY Joint
<1>2. CASE b < a
  BY <1>2, SubSeqEmpty
<1>3. CASE a <= b
  <2>1. \A i \in a .. b : i \in 1 .. Len(s) /\ i \in 1 .. Len(t)
    BY <1>1
  <2>2. \A i \in a .. b : t[i] \in C /\ s[i] \in C
    BY <1>1, <2>1, ElementOfSeq
  <2>3. /\ SubSeq(t, a, b) \in Seq(C) /\ Len(SubSeq(t, a, b)) = b - a + 1
        /\ \A i \in 1 .. b - a + 1 : SubSeq(t, a, b)[i] = t[a + i - 1]
    BY <1>1, <1>3, <2>2, SubSeqProperties
  <2>4. /\ SubSeq(s, a, b) \in Seq(C) /\ Len(SubSeq(s, a, b)) = b - a + 1
        /\ \A i \in 1 .. b - a + 1 : SubSeq(s, a, b)[i] = s[a + i - 1]
    BY <1>3, <2>2, SubSeqProperties
  <2>5. \A i \in 1 .. b - a + 1 : t[a + i - 1] = s[a + i - 1]
    <3>1. \A i \in 1 .. b - a + 1 : a + i - 1 \in 1 .. Len(s)
      BY <1>1, <1>3
    <3> QED
      BY <1>1, <3>1
  <2>6. PICK u, v : u = SubSeq(t, a, b) /\ v = SubSeq(s, a, b)
    OBVIOUS
  <2>7. u \in Seq(C) /\ v \in Seq(C) /\ Len(u) = Len(v) /\ \A i \in 1 .. Len(u) : u[i] = v[i]
    BY <2>3, <2>4, <2>5, <2>6
  <2>8. u = v
    BY <2>7, SeqEqual
  <2> QED
    BY <2>6, <2>8
<1> QED
  BY <1>1, <1>2, <1>3

\* The rest behind s and x is w.
LEMMA PartOfLast ==
  ASSUME NEW C, NEW s \in Seq(C), NEW x \in C, NEW w \in Seq(C), NEW t, t = (s \o <<x>>) \o w
  PROVE  SubSeq(t, Len(s) + 2, Len(t)) = w
<1>1. /\ t \in Seq(C) /\ Len(s) \in Nat /\ Len(w) \in Nat /\ Len(t) = Len(s) + 1 + Len(w)
      /\ \A i \in 1 .. Len(w) : t[Len(s) + 1 + i] = w[i]
  BY Joint
<1>0. PICK z : z = t
  OBVIOUS
<1>2. PICK a, b, u : a = Len(s) + 2 /\ b = Len(t) /\ u = SubSeq(t, a, b)
  OBVIOUS
<1>3. a \in Int /\ b \in Int /\ \A i \in a .. b : z[i] \in C
  BY <1>0, <1>1, <1>2, ElementOfSeq
<1>4. /\ u \in Seq(C) /\ Len(u) = IF a <= b THEN b - a + 1 ELSE 0
      /\ \A i \in 1 .. b - a + 1 : u[i] = t[a + i - 1]
  <2>1. SubSeq(z, a, b) \in Seq(C)
    BY <1>3, PartElements
  <2>2. Len(SubSeq(z, a, b)) = IF a <= b THEN b - a + 1 ELSE 0
    BY <1>3, PartElements
  <2>3. \A i \in 1 .. b - a + 1 : SubSeq(z, a, b)[i] = z[a + i - 1]
    BY <1>3, PartElements
  <2> QED
    BY <1>0, <1>2, <2>1, <2>2, <2>3
<1>5. Len(u) = Len(w) /\ b - a + 1 = Len(w)
  BY <1>1, <1>2, <1>4
<1>6. \A i \in 1 .. Len(u) : u[i] = w[i]
  <2>1. SUFFICES ASSUME NEW i \in 1 .. Len(w) PROVE u[i] = w[i]
    BY <1>5
  <2>2. u[i] = t[a + i - 1]
    BY <1>4, <1>5
  <2>3. a + i - 1 = Len(s) + 1 + i
    BY <1>1, <1>2
  <2> QED
    BY <1>1, <2>2, <2>3
<1>7. u = w
  BY <1>4, <1>5, <1>6, SeqEqual
<1> QED
  BY <1>2, <1>7

-----------------------------------------------------------------------------
(* Pieces between separators *)

\* The ends of text s are its first and its last cut.
LEMMA CutsFacts ==
  ASSUME NEW C, NEW s \in Seq(C), NEW separators
  PROVE  LET cuts == Cuts(s, separators) IN
         /\ cuts \subseteq 0 .. Len(s) + 1 /\ cuts \subseteq Nat /\ IsFiniteSet(cuts)
         /\ Cardinality(cuts) \in Nat \ {0, 1} /\ Nth(cuts, Cardinality(cuts)) = Len(s) + 1
<1> DEFINE T == {0} \cup {i \in DOMAIN s : s[i] \in separators}
           n == Len(s)
<1>1. n \in Nat /\ DOMAIN s = 1 .. n
  BY LenProperties
<1>2. T \subseteq 0 .. n /\ T \subseteq Nat /\ \A i \in T : i < n + 1
  BY <1>1
<1>3. IsFiniteSet(T)
  <2>1. IsFiniteSet(0 .. n)
    BY <1>1, FS_Interval
  <2> QED
    BY <1>2, <2>1, FS_Subset
<1>4. Cuts(s, separators) = T \cup {n + 1}
  BY DEF Cuts
<1>5. Cardinality(T) \in Nat \ {0}
  <2>1. T # {}
    OBVIOUS
  <2> HIDE DEF T
  <2> QED
    BY <1>3, <2>1, FS_CardinalityType, FS_EmptySet
<1> HIDE DEF T
<1>6. n + 1 \in Nat /\ T \cup {n + 1} \subseteq 0 .. n + 1 /\ T \cup {n + 1} \subseteq Nat
  <2>1. n + 1 \in 0 .. n + 1 /\ 0 .. n \subseteq 0 .. n + 1 /\ n + 1 \in Nat
    BY <1>1
  <2> QED
    BY <1>2, <2>1
<1> HIDE DEF n
<1>7. /\ IsFiniteSet(T \cup {n + 1}) /\ Cardinality(T \cup {n + 1}) = Cardinality(T) + 1
      /\ Nth(T \cup {n + 1}, Cardinality(T) + 1) = n + 1
  BY <1>2, <1>3, <1>6, NthAbove
<1>8. PICK U : U = T \cup {n + 1}
  OBVIOUS
<1>9. U \subseteq 0 .. n + 1 /\ U \subseteq Nat /\ IsFiniteSet(U) /\ Cardinality(U) \in Nat \ {0, 1} /\ Nth(U, Cardinality(U)) = n + 1
  BY <1>5, <1>6, <1>7, <1>8
<1> QED
  BY <1>4, <1>8, <1>9 DEF n

\* Text without separators is one piece.
LEMMA PiecesNone ==
  ASSUME NEW C, NEW s \in Seq(C), NEW separators, Free(s, separators)
  PROVE  Pieces(s, separators) = <<s>>
<1>1. Len(s) \in Nat /\ Len(s) + 1 \in Nat /\ (Len(s) + 1) - 1 = Len(s)
  BY LenProperties
<1>2. Cuts(s, separators) = {0} \cup {Len(s) + 1}
  BY DEF Cuts, Free
<1>3. IsFiniteSet({0}) /\ Cardinality({0}) = 1 /\ Nth({0}, 1) = 0
  BY NthOnly
<1>4. PICK m : m = Len(s) + 1
  OBVIOUS
<1>5. m \in Nat /\ {0} \subseteq Nat /\ \A i \in {0} : i < m
  BY <1>1, <1>4
<1>6. /\ Cardinality({0} \cup {m}) = 2 /\ Nth({0} \cup {m}, 2) = m
      /\ Nth({0} \cup {m}, 1) = 0
  <2>1. PICK Z : Z = {0}
    OBVIOUS
  <2>2. /\ Cardinality(Z \cup {m}) = Cardinality(Z) + 1 /\ Nth(Z \cup {m}, Cardinality(Z) + 1) = m
        /\ \A k \in 1 .. Cardinality(Z) : Nth(Z \cup {m}, k) = Nth(Z, k)
    BY <1>3, <1>5, <2>1, NthAbove
  <2>3. Cardinality(Z) = 1 /\ 1 \in 1 .. 1 /\ Nth(Z, 1) = 0 /\ 1 + 1 = 2
    BY <1>3, <2>1
  <2> QED
    BY <2>1, <2>2, <2>3
<1>7. PICK U : U = {0} \cup {m}
  OBVIOUS
<1>8. Cuts(s, separators) = U /\ Cardinality(U) - 1 = 1 /\ Nth(U, 1) = 0 /\ Nth(U, 2) = m
  <2>1. Cuts(s, separators) = U
    BY <1>2, <1>4, <1>7
  <2>2. Cardinality(U) = 2 /\ Nth(U, 1) = 0 /\ Nth(U, 2) = m
    BY <1>6, <1>7
  <2> QED
    BY <2>1, <2>2
<1>9. Pieces(s, separators) = [k \in 1 .. 1 |-> SubSeq(s, Nth(U, k) + 1, Nth(U, k + 1) - 1)]
  BY <1>8 DEF Pieces
<1>10. SubSeq(s, Nth(U, 1) + 1, Nth(U, 1 + 1) - 1) = s
  BY <1>1, <1>4, <1>8, SubSeqFull
<1>11. [k \in 1 .. 1 |-> SubSeq(s, Nth(U, k) + 1, Nth(U, k + 1) - 1)] = [k \in 1 .. 1 |-> s]
  BY <1>10
<1>12. [k \in 1 .. 1 |-> s] = <<s>>
  OBVIOUS
<1> QED
  BY <1>9, <1>11, <1>12

\* A separator and text without separators make one piece more.
LEMMA PiecesAdd ==
  ASSUME NEW C, NEW separators, NEW s \in Seq(C), NEW x \in C, x \in separators, NEW w \in Seq(C),
         Free(w, separators)
  PROVE  LET t == (s \o <<x>>) \o w
             n == Cardinality(Cuts(s, separators)) - 1
         IN /\ n \in Nat /\ DOMAIN Pieces(s, separators) = 1 .. n
            /\ DOMAIN Pieces(t, separators) = 1 .. n + 1
            /\ \A k \in 1 .. n : Pieces(t, separators)[k] = Pieces(s, separators)[k]
            /\ Pieces(t, separators)[n + 1] = w
<1>1. PICK t : t = (s \o <<x>>) \o w
  OBVIOUS
<1>2. /\ t \in Seq(C) /\ Len(s) \in Nat /\ Len(w) \in Nat /\ Len(t) = Len(s) + 1 + Len(w)
      /\ DOMAIN s = 1 .. Len(s) /\ DOMAIN w = 1 .. Len(w) /\ DOMAIN t = 1 .. Len(t)
      /\ \A i \in 1 .. Len(s) : t[i] = s[i]
      /\ t[Len(s) + 1] = x
      /\ \A i \in 1 .. Len(w) : t[Len(s) + 1 + i] = w[i]
  BY <1>1, Joint
<1>3. PICK U : U = Cuts(s, separators)
  OBVIOUS
<1>4. PICK m : m = Len(t) + 1
  OBVIOUS
<1>5. Cuts(t, separators) = U \cup {m}
  <2>1. ASSUME NEW i \in DOMAIN t, t[i] \in separators PROVE i \in U
    <3>1. CASE i \in 1 .. Len(s)
      BY <1>2, <1>3, <2>1, <3>1 DEF Cuts
    <3>2. CASE i = Len(s) + 1
      BY <1>3, <3>2 DEF Cuts
    <3>3. CASE i \notin 1 .. Len(s) /\ i # Len(s) + 1
      <4>1. PICK j : j = i - (Len(s) + 1)
        OBVIOUS
      <4>2. j \in 1 .. Len(w) /\ i = Len(s) + 1 + j
        BY <1>2, <3>3, <4>1
      <4>3. t[i] \notin separators
        BY <1>2, <4>2 DEF Free
      <4> QED
        BY <2>1, <4>3
    <3> QED
      BY <3>1, <3>2, <3>3
  <2>2. ASSUME NEW i \in U, i # 0 PROVE i \in DOMAIN t /\ t[i] \in separators
    <3>1. CASE i = Len(s) + 1
      BY <1>2, <3>1
    <3>2. CASE i # Len(s) + 1
      <4>1. i \in 1 .. Len(s) /\ s[i] \in separators
        BY <1>2, <1>3, <2>2, <3>2 DEF Cuts
      <4> QED
        BY <1>2, <4>1
    <3> QED
      BY <3>1, <3>2
  <2>3. 0 \in U
    BY <1>3 DEF Cuts
  <2>4. Cuts(t, separators) = {0, m} \cup {i \in DOMAIN t : t[i] \in separators}
    BY <1>4 DEF Cuts
  <2> QED
    BY <2>1, <2>2, <2>3, <2>4
<1>6. PICK n : n = Cardinality(U) - 1
  OBVIOUS
<1>7. /\ U \subseteq 0 .. Len(s) + 1 /\ U \subseteq Nat /\ IsFiniteSet(U)
      /\ n \in Nat \ {0} /\ Cardinality(U) = n + 1 /\ Nth(U, n + 1) = Len(s) + 1
  <2>1. U \subseteq 0 .. Len(s) + 1 /\ U \subseteq Nat /\ IsFiniteSet(U)
    BY <1>3, CutsFacts
  <2>2. Cardinality(U) \in Nat \ {0, 1} /\ Nth(U, Cardinality(U)) = Len(s) + 1
    BY <1>3, CutsFacts
  <2>3. n \in Nat \ {0} /\ Cardinality(U) = n + 1
    BY <1>6, <2>2
  <2> QED
    BY <2>1, <2>2, <2>3
<1>8. PICK V : V = U \cup {m}
  OBVIOUS
<1>9. /\ Cardinality(V) = n + 2 /\ Nth(V, n + 2) = m
      /\ \A k \in 1 .. n + 1 : Nth(V, k) = Nth(U, k)
  <2>1. m \in Nat /\ \A i \in U : i < m
    BY <1>2, <1>4, <1>7
  <2>2. /\ Cardinality(V) = Cardinality(U) + 1 /\ Nth(V, Cardinality(U) + 1) = m
        /\ \A k \in 1 .. Cardinality(U) : Nth(V, k) = Nth(U, k)
    BY <1>7, <1>8, <2>1, NthAbove
  <2>3. Cardinality(U) = n + 1 /\ Cardinality(U) + 1 = n + 2
    BY <1>7
  <2> QED
    BY <2>2, <2>3
<1>10. /\ Pieces(s, separators) = [k \in 1 .. n |-> SubSeq(s, Nth(U, k) + 1, Nth(U, k + 1) - 1)]
       /\ Pieces(t, separators) = [k \in 1 .. n + 1 |-> SubSeq(t, Nth(V, k) + 1, Nth(V, k + 1) - 1)]
  <2>1. Pieces(s, separators) = [k \in 1 .. n |-> SubSeq(s, Nth(U, k) + 1, Nth(U, k + 1) - 1)]
    BY <1>3, <1>6 DEF Pieces
  <2>2. Cardinality(V) - 1 = n + 1 /\ Cuts(t, separators) = V
    BY <1>5, <1>7, <1>8, <1>9
  <2>3. Pieces(t, separators) = [k \in 1 .. n + 1 |-> SubSeq(t, Nth(V, k) + 1, Nth(V, k + 1) - 1)]
    BY <2>2 DEF Pieces
  <2> QED
    BY <2>1, <2>3
<1>11. ASSUME NEW k \in 1 .. n
       PROVE  SubSeq(t, Nth(V, k) + 1, Nth(V, k + 1) - 1) = SubSeq(s, Nth(U, k) + 1, Nth(U, k + 1) - 1)
  <2>1. k \in 1 .. n + 1 /\ k + 1 \in 1 .. n + 1 /\ k \in 1 .. Cardinality(U) /\ k + 1 \in 1 .. Cardinality(U)
    BY <1>7
  <2>2. PICK a, b : a = Nth(U, k) + 1 /\ b = Nth(U, k + 1) - 1
    OBVIOUS
  <2>3. Nth(U, k) \in U /\ Nth(U, k + 1) \in U
    BY <1>7, <2>1, NthProperties
  <2>4. a \in Nat \ {0} /\ b \in Int /\ b <= Len(s)
    <3>1. Nth(U, k) \in 0 .. Len(s) + 1 /\ Nth(U, k + 1) \in 0 .. Len(s) + 1
      BY <1>7, <2>3
    <3> QED
      BY <1>2, <2>2, <3>1
  <2>5. SubSeq(t, a, b) = SubSeq(s, a, b)
    BY <1>1, <2>4, PartOfFirst
  <2>6. Nth(V, k) = Nth(U, k) /\ Nth(V, k + 1) = Nth(U, k + 1)
    BY <1>9, <2>1
  <2> QED
    BY <2>2, <2>5, <2>6
<1>12. SubSeq(t, Nth(V, n + 1) + 1, Nth(V, (n + 1) + 1) - 1) = w
  <2>1. n + 1 \in 1 .. n + 1 /\ (n + 1) + 1 = n + 2
    BY <1>7
  <2>2. Nth(V, n + 1) = Len(s) + 1 /\ Nth(V, (n + 1) + 1) = m
    BY <1>7, <1>9, <2>1
  <2>3. Nth(V, n + 1) + 1 = Len(s) + 2 /\ Nth(V, (n + 1) + 1) - 1 = Len(t)
    BY <1>2, <1>4, <2>2
  <2> QED
    BY <1>1, <2>3, PartOfLast
<1>13. n + 1 \in 1 .. n + 1 /\ \A k \in 1 .. n : k \in 1 .. n + 1
  BY <1>7
<1> HIDE DEF Pieces
<1>14. /\ n \in Nat /\ DOMAIN Pieces(s, separators) = 1 .. n /\ DOMAIN Pieces(t, separators) = 1 .. n + 1
       /\ \A k \in 1 .. n : Pieces(t, separators)[k] = Pieces(s, separators)[k]
       /\ Pieces(t, separators)[n + 1] = w
  BY <1>7, <1>10, <1>11, <1>12, <1>13
<1> QED
  BY <1>1, <1>3, <1>6, <1>14

-----------------------------------------------------------------------------
(* Paths *)

\* FlattenSeq puts the sequences of q together one by one.
LEMMA FlattenFacts ==
  ASSUME NEW C, NEW q \in Seq(Seq(C))
  PROVE  \E f \in [0 .. Len(q) -> Seq(C)] :
           /\ f[0] = <<>> /\ FlattenSeq(q) = f[Len(q)]
           /\ \A m \in 1 .. Len(q) : f[m] = f[m - 1] \o q[m]
<1> DEFINE n == Len(q)
           G == [p \in Nat \X Seq(C) |-> IF p[1] \in 1 .. n THEN p[2] \o q[p[1]] ELSE p[2]]
           F(g) == [i \in 1 .. n |-> IF i = 1 THEN q[i] ELSE g[i - 1] \o q[i]]
           flatten == CHOOSE g : g = F(g)
<1>1. n \in Nat /\ DOMAIN q = 1 .. n /\ \A m \in 1 .. n : q[m] \in Seq(C)
  BY LenProperties, ElementOfSeq
<1>2. <<>> \in Seq(C)
  BY EmptySeq
<1>3. \E f : IsRecursive(f, Seq(C), <<>>, G, n)
  <2>1. G \in [Nat \X Seq(C) -> Seq(C)]
    <3>1. \A p \in Nat \X Seq(C) : p[2] \in Seq(C)
      OBVIOUS
    <3>2. \A p \in Nat \X Seq(C) : p[1] \in 1 .. n => p[2] \o q[p[1]] \in Seq(C)
      BY <1>1, <3>1, ConcatProperties
    <3> QED
      BY <3>1, <3>2
  <2> HIDE DEF G, n
  <2> QED
    BY <1>1, <1>2, <2>1, RecursionExists
<1>4. PICK f : IsRecursive(f, Seq(C), <<>>, G, n)
  BY <1>3
<1>5. f \in [0 .. n -> Seq(C)] /\ f[0] = <<>> /\ \A m \in 1 .. n : f[m] = G[<<m, f[m - 1]>>]
  BY <1>4 DEF IsRecursive
<1>6. ASSUME NEW m \in 1 .. n PROVE f[m] = f[m - 1] \o q[m]
  <2>1. m \in Nat /\ m - 1 \in 0 .. n
    BY <1>1
  <2>2. f[m - 1] \in Seq(C)
    BY <1>5, <2>1, ZenonT(60)
  <2>3. <<m, f[m - 1]>> \in Nat \X Seq(C)
    BY <2>1, <2>2
  <2> QED
    BY <1>5, <2>3
<1>7. CASE n = 0
  <2>1. q = <<>>
    BY <1>7, EmptySeq
  <2>2. FlattenSeq(q) = <<>>
    BY <1>7, <2>1 DEF FlattenSeq
  <2> QED
    BY <1>5, <1>6, <1>7, <2>2
<1>8. CASE n # 0
  <2>1. FlattenSeq(q) = flatten[n]
    BY <1>8 DEF FlattenSeq
  <2>2. flatten = F(flatten)
    <3> DEFINE g == [i \in 1 .. n |-> f[i]]
    <3>1. ASSUME NEW i \in 1 .. n PROVE g[i] = IF i = 1 THEN q[i] ELSE g[i - 1] \o q[i]
      <4>1. CASE i = 1
        <5>1. f[1] = <<>> \o q[1] /\ q[1] \in Seq(C)
          <6>1. 1 \in 1 .. n /\ 1 - 1 = 0
            BY <1>1, <4>1
          <6>2. f[1] = f[1 - 1] \o q[1] /\ q[1] \in Seq(C)
            BY <1>1, <1>6, <6>1
          <6> QED
            BY <1>5, <6>1, <6>2
        <5>2. f[1] = q[1]
          BY <5>1, ConcatEmptySeq
        <5> QED
          BY <4>1, <5>2
      <4>2. CASE i # 1
        <5>1. i - 1 \in 1 .. n
          BY <1>1, <4>2
        <5> QED
          BY <1>6, <4>2, <5>1
      <4> QED
        BY <4>1, <4>2
    <3>2. g = F(g)
      BY <3>1
    <3> HIDE DEF g, F
    <3> QED
      BY <3>2
  <2>3. \A i \in 1 .. n : flatten[i] = IF i = 1 THEN q[i] ELSE flatten[i - 1] \o q[i]
    <3> HIDE DEF flatten
    <3> QED
      BY <2>2
  <2> DEFINE P == {m \in Nat : m \in 1 .. n => flatten[m] = f[m]}
  <2> HIDE DEF flatten
  <2>4. 0 \in P
    OBVIOUS
  <2>5. ASSUME NEW m \in 1 .. n, m - 1 \in P PROVE m \in P
    <3>1. CASE m = 1
      <4>1. f[1] = <<>> \o q[1] /\ q[1] \in Seq(C)
        <5>1. 1 \in 1 .. n /\ 1 - 1 = 0
          BY <1>1, <3>1
        <5>2. f[1] = f[1 - 1] \o q[1] /\ q[1] \in Seq(C)
          BY <1>1, <1>6, <5>1
        <5> QED
          BY <1>5, <5>1, <5>2
      <4>2. f[1] = q[1]
        BY <4>1, ConcatEmptySeq
      <4> QED
        BY <2>3, <3>1, <4>2
    <3>2. CASE m # 1
      <4>1. m - 1 \in 1 .. n
        BY <1>1, <3>2
      <4>2. flatten[m - 1] = f[m - 1]
        BY <2>5, <4>1
      <4>3. flatten[m] = f[m]
        BY <1>6, <2>3, <3>2, <4>2
      <4> QED
        BY <4>3
    <3> QED
      BY <3>1, <3>2
  <2>6. 0 .. n \subseteq P
    <3> HIDE DEF P, n
    <3> QED
      BY <1>1, <2>4, <2>5, UpTo
  <2>7. n \in 0 .. n /\ n \in 1 .. n
    BY <1>1, <1>8
  <2>8. flatten[n] = f[n]
    BY <2>6, <2>7
  <2>9. FlattenSeq(q) = f[n]
    BY <2>1, <2>8
  <2> HIDE DEF P, F, G, n
  <2> QED
    BY <1>5, <1>6, <2>9 DEF n
<1> QED
  BY <1>7, <1>8

\* One sequence more.
LEMMA FlattenAdd ==
  ASSUME NEW C, NEW q \in Seq(Seq(C)), NEW x \in Seq(C)
  PROVE  FlattenSeq(q) \in Seq(C) /\ FlattenSeq(Append(q, x)) = FlattenSeq(q) \o x
<1>1. PICK n \in Nat : n = Len(q)
  BY LenProperties
<1>2. PICK t : t = Append(q, x)
  OBVIOUS
<1>3. /\ t \in Seq(Seq(C)) /\ Len(t) = n + 1 /\ \A i \in 1 .. n : t[i] = q[i]
      /\ t[n + 1] = x
  BY <1>1, <1>2, AppendProperties
<1>4. PICK f \in [0 .. n -> Seq(C)] :
        /\ f[0] = <<>> /\ FlattenSeq(q) = f[n]
        /\ \A m \in 1 .. n : f[m] = f[m - 1] \o q[m]
  BY <1>1, FlattenFacts
<1>5. PICK g \in [0 .. n + 1 -> Seq(C)] :
        /\ g[0] = <<>> /\ FlattenSeq(t) = g[n + 1]
        /\ \A m \in 1 .. n + 1 : g[m] = g[m - 1] \o t[m]
  <2>1. PICK z : z = t
    OBVIOUS
  <2>2. z \in Seq(Seq(C)) /\ Len(z) = n + 1
    BY <1>3, <2>1
  <2>3. \E g \in [0 .. Len(z) -> Seq(C)] :
          /\ g[0] = <<>> /\ FlattenSeq(z) = g[Len(z)]
          /\ \A m \in 1 .. Len(z) : g[m] = g[m - 1] \o z[m]
    BY <2>2, FlattenFacts
  <2> QED
    BY <2>1, <2>2, <2>3, ZenonT(60)
<1> DEFINE P == {m \in Nat : m \in 0 .. n => g[m] = f[m]}
<1>6. 0 \in P
  BY <1>4, <1>5
<1>7. ASSUME NEW m \in 1 .. n, m - 1 \in P PROVE m \in P
  <2>1. m \in 1 .. n + 1 /\ m - 1 \in 0 .. n
    BY <1>1
  <2>2. g[m - 1] = f[m - 1] /\ t[m] = q[m]
    BY <1>3, <1>7, <2>1
  <2>3. g[m] = f[m]
    BY <1>4, <1>5, <2>1, <2>2
  <2> QED
    BY <2>3
<1>8. 0 .. n \subseteq P
  <2> HIDE DEF P
  <2> QED
    BY <1>6, <1>7, UpTo
<1>9. n \in 0 .. n /\ n + 1 \in 1 .. n + 1 /\ (n + 1) - 1 = n
  BY <1>1
<1>10. g[n] = f[n]
  BY <1>8, <1>9
<1>11. g[n + 1] = g[n] \o t[n + 1]
  BY <1>5, <1>9
<1> QED
  BY <1>2, <1>3, <1>4, <1>5, <1>9, <1>10, <1>11

\* The empty path, and a path with one name more.
LEMMA PathnameAdd ==
  ASSUME NEW C, "/" \in C, NEW p \in Seq(Seq(C)), NEW n \in Seq(C)
  PROVE  /\ Pathname(<<>>) = <<>> /\ Pathname(p) \in Seq(C)
         /\ Pathname(Append(p, n)) = (Pathname(p) \o <<"/">>) \o n
<1>1. <<"/">> \in Seq(C)
  OBVIOUS
<1>2. \A w \in Seq(C) : <<"/">> \o w \in Seq(C)
  BY <1>1, ConcatProperties
<1>3. PICK k \in Nat : k = Len(p) /\ DOMAIN p = 1 .. k /\ \A i \in 1 .. k : p[i] \in Seq(C)
  BY LenProperties, ElementOfSeq
<1>4. PICK t : t = Append(p, n)
  OBVIOUS
<1>5. /\ t \in Seq(Seq(C)) /\ Len(t) = k + 1 /\ DOMAIN t = 1 .. k + 1 /\ \A i \in 1 .. k : t[i] = p[i]
      /\ t[k + 1] = n
  BY <1>3, <1>4, AppendProperties, LenProperties
<1> DEFINE u == [i \in DOMAIN p |-> <<"/">> \o p[i]]
           v == [i \in DOMAIN t |-> <<"/">> \o t[i]]
           last == <<"/">> \o n
<1>6. u \in Seq(Seq(C)) /\ Len(u) = k
  <2>1. \A i \in 1 .. k : <<"/">> \o p[i] \in Seq(C)
    BY <1>2, <1>3
  <2>2. u \in [1 .. k -> Seq(C)]
    BY <1>3, <2>1
  <2> HIDE DEF u
  <2> QED
    BY <2>2
<1>7. v \in Seq(Seq(C)) /\ Len(v) = k + 1
  <2>1. \A i \in 1 .. k + 1 : t[i] \in Seq(C)
    BY <1>5, ElementOfSeq
  <2>2. v \in [1 .. k + 1 -> Seq(C)]
    BY <1>2, <1>5, <2>1
  <2> HIDE DEF v
  <2> QED
    BY <2>2
<1>8. last \in Seq(C)
  BY <1>2
<1>9. \A i \in 1 .. k : v[i] = u[i]
  <2>1. \A i \in 1 .. k : i \in 1 .. k + 1
    OBVIOUS
  <2> QED
    BY <1>3, <1>5, <2>1
<1>10. v[k + 1] = last
  BY <1>5
<1>11. v = Append(u, last)
  <2> HIDE DEF u, v, last
  <2>1. PICK z : z = Append(u, last)
    OBVIOUS
  <2>2. z \in Seq(Seq(C)) /\ Len(z) = k + 1 /\ (\A i \in 1 .. k : z[i] = u[i]) /\ z[k + 1] = last
    BY <1>6, <1>8, <2>1, AppendProperties
  <2>3. \A i \in 1 .. k + 1 : i \in 1 .. k \/ i = k + 1
    OBVIOUS
  <2>4. \A i \in 1 .. k + 1 : v[i] = z[i]
    BY <1>9, <1>10, <2>2, <2>3
  <2>5. v = z
    BY <1>7, <2>2, <2>4, SeqEqual
  <2> QED
    BY <2>1, <2>5
<1>12. Pathname(p) = FlattenSeq(u) /\ Pathname(t) = FlattenSeq(v)
  BY DEF Pathname
<1>13. Pathname(p) \in Seq(C) /\ Pathname(t) = Pathname(p) \o last
  <2> HIDE DEF u, v, last
  <2> QED
    BY <1>6, <1>8, <1>11, <1>12, FlattenAdd
<1>14. (Pathname(p) \o <<"/">>) \o n = Pathname(p) \o last
  BY <1>1, <1>13, ConcatAssociative
<1>15. Pathname(<<>>) = <<>>
  <2>1. [i \in DOMAIN <<>> |-> <<"/">> \o (<<>>)[i]] = <<>>
    OBVIOUS
  <2> QED
    BY <2>1 DEF Pathname, FlattenSeq
<1> QED
  BY <1>4, <1>13, <1>14, <1>15

\* What holds of the empty sequence, and of one element more, holds of all.
LEMMA SeqInduction ==
  ASSUME NEW C, NEW P, <<>> \in P, \A s \in Seq(C) : \A x \in C : s \in P => Append(s, x) \in P
  PROVE  Seq(C) \subseteq P
<1> DEFINE T == {k \in Nat : \E s \in Seq(C) : Len(s) = k /\ s \notin P}
<1>1. SUFFICES ASSUME NEW s \in Seq(C), s \notin P PROVE FALSE
  OBVIOUS
<1>2. Len(s) \in T
  BY <1>1, LenProperties
<1>3. PICK k \in T : \A j \in T : k <= j
  <2>1. T \subseteq Nat /\ T # {}
    BY <1>2
  <2> HIDE DEF T
  <2> QED
    BY <2>1, LeastNatural
<1>4. PICK u \in Seq(C) : Len(u) = k /\ u \notin P
  BY <1>3
<1>5. PICK v \in Seq(C), x \in C : u = Append(v, x)
  BY <1>4, SequenceEmptyOrAppend
<1>6. Len(v) \in Nat /\ k = Len(v) + 1 /\ k \in Nat
  <2>1. Len(v) \in Nat
    BY LenProperties
  <2>2. Len(Append(v, x)) = Len(v) + 1
    BY AppendProperties
  <2> QED
    BY <1>4, <1>5, <2>1, <2>2
<1>7. v \notin P
  BY <1>4, <1>5
<1>8. Len(v) \in T
  BY <1>6, <1>7
<1> QED
  BY <1>3, <1>6, <1>8

\* Behind a first element, all that follows.
LEMMA TailOfJoint ==
  ASSUME NEW S, NEW h \in S, NEW p \in Seq(S)
  PROVE  /\ <<h>> \o p \in Seq(S) /\ Tail(<<h>> \o p) = p
         /\ DOMAIN (<<h>> \o p) = 1 .. Len(p) + 1 /\ Len(p) \in Nat
         /\ (<<h>> \o p)[1] = h /\ \A i \in 1 .. Len(p) : (<<h>> \o p)[i + 1] = p[i]
<1>1. PICK y \in Seq(S) : y = <<h>> /\ Len(y) = 1 /\ y[1] = h
  <2>1. <<h>> \in Seq(S) /\ Len(<<h>>) = 1 /\ <<h>>[1] = h
    OBVIOUS
  <2> QED
    BY <2>1
<1>2. PICK t : t = y \o p
  OBVIOUS
<1>3. Len(p) \in Nat
  BY LenProperties
<1>4. /\ t \in Seq(S) /\ Len(t) = Len(p) + 1
      /\ \A i \in 1 .. Len(p) + 1 : t[i] = IF i <= 1 THEN y[i] ELSE p[i - 1]
  <2>1. /\ y \o p \in Seq(S) /\ Len(y \o p) = Len(y) + Len(p)
        /\ \A i \in 1 .. Len(y) + Len(p) : (y \o p)[i] = IF i <= Len(y) THEN y[i] ELSE p[i - Len(y)]
    BY ConcatProperties
  <2>2. Len(y) = 1 /\ Len(y) + Len(p) = Len(p) + 1
    BY <1>1, <1>3
  <2> QED
    BY <1>2, <2>1, <2>2
<1>5. t[1] = h /\ \A i \in 1 .. Len(p) : t[i + 1] = p[i]
  BY <1>1, <1>3, <1>4
<1>6. t # <<>> /\ DOMAIN t = 1 .. Len(p) + 1
  BY <1>3, <1>4, LenProperties
<1>7. Tail(t) = p
  <2>1. PICK v : v = Tail(t)
    OBVIOUS
  <2>2. v \in Seq(S) /\ Len(v) = Len(p) /\ \A i \in 1 .. Len(p) : v[i] = p[i]
    <3>1. Tail(t) \in Seq(S) /\ Len(Tail(t)) = Len(t) - 1 /\ \A i \in 1 .. Len(Tail(t)) : Tail(t)[i] = t[i + 1]
      BY <1>4, <1>6, HeadTailProperties
    <3>2. Len(t) - 1 = Len(p)
      BY <1>3, <1>4
    <3> QED
      BY <1>5, <2>1, <3>1, <3>2
  <2> QED
    BY <2>1, <2>2, SeqEqual
<1> QED
  BY <1>1, <1>2, <1>3, <1>4, <1>5, <1>6, <1>7

\* Text, as a word of its own.
IsText(s, C) == s \in Seq(C)

\* Three pieces of text in a row.
LEMMA Regroup ==
  ASSUME NEW C, NEW a, NEW b, NEW c, IsText(a, C), IsText(b, C), IsText(c, C)
  PROVE  (a \o b) \o c = a \o (b \o c) /\ IsText(b \o c, C)
<1>1. a \in Seq(C) /\ b \in Seq(C) /\ c \in Seq(C)
  BY DEF IsText
<1>2. (a \o b) \o c = a \o (b \o c)
  BY <1>1, ConcatAssociative
<1>3. b \o c \in Seq(C)
  BY <1>1, ConcatProperties
<1> QED
  BY <1>2, <1>3 DEF IsText

\* Four pieces of text in a row.
LEMMA RegroupFour ==
  ASSUME NEW C, NEW a, NEW b, NEW c, NEW d,
         IsText(a, C), IsText(b, C), IsText(c, C), IsText(d, C)
  PROVE  a \o ((b \o c) \o d) = ((a \o b) \o c) \o d
<1>1. IsText(b \o c, C) /\ (a \o b) \o c = a \o (b \o c)
  BY Regroup
<1>2. (a \o (b \o c)) \o d = a \o ((b \o c) \o d)
  BY <1>1, Regroup
<1> QED
  BY <1>1, <1>2

\* Text, a path behind it, and a name more.
LEMMA PathBehind ==
  ASSUME NEW C, NEW h, NEW q, NEW n,
         "/" \in C, IsText(h, C), IsText(q, Seq(C)), IsText(n, C)
  PROVE  h \o Pathname(Append(q, n)) = ((h \o Pathname(q)) \o <<"/">>) \o n
<1>1. /\ IsText(Pathname(q), C)
      /\ Pathname(Append(q, n)) = (Pathname(q) \o <<"/">>) \o n
  BY PathnameAdd DEF IsText
<1>2. IsText(<<"/">>, C)
  BY DEF IsText
<1>3. PICK x, y : x = <<"/">> /\ y = Pathname(q)
  OBVIOUS
<1>4. IsText(x, C) /\ IsText(y, C)
  BY <1>1, <1>2, <1>3
<1>5. h \o ((y \o x) \o n) = ((h \o y) \o x) \o n
  BY <1>4, RegroupFour, SMTT(60)
<1> QED
  BY <1>1, <1>3, <1>5, Zenon

\* Text without slashes.
Names(C) == {n \in Seq(C) : Free(n, {"/"})}

\* What is in front of the first slash, and the names, are the pieces.
LEMMA PiecesOfPath ==
  ASSUME NEW C, "/" \in C, NEW h \in Names(C), NEW p \in Seq(Names(C))
  PROVE  Pieces(h \o Pathname(p), {"/"}) = <<h>> \o p
<1> DEFINE D == Names(C)
           P == {q \in Seq(D) : Pieces(h \o Pathname(q), {"/"}) = <<h>> \o q}
<1>1. D \subseteq Seq(C) /\ Seq(D) \subseteq Seq(Seq(C))
  <2>1. D \subseteq Seq(C)
    BY DEF Names
  <2> HIDE DEF D
  <2> QED
    BY <2>1, SeqMonotonic
<1>2. h \in Seq(C) /\ Free(h, {"/"})
  BY DEF Names
<1>3. <<>> \in P
  <2>1. <<>> \in Seq(D)
    BY EmptySeq
  <2>2. Pathname(<<>>) = <<>>
    BY <1>1, <2>1, PathnameAdd
  <2>3. h \o Pathname(<<>>) = h /\ <<h>> \o <<>> = <<h>>
    BY <1>2, <2>2, ConcatEmptySeq
  <2>4. Pieces(h, {"/"}) = <<h>>
    BY <1>2, PiecesNone
  <2> QED
    BY <2>1, <2>3, <2>4
<1>4. ASSUME NEW q \in Seq(D), NEW n \in D, q \in P PROVE Append(q, n) \in P
  <2>1. Append(q, n) \in Seq(D) /\ q \in Seq(Seq(C)) /\ n \in Seq(C)
    BY <1>1, <1>4, AppendProperties
  <2>2. /\ Pathname(q) \in Seq(C) /\ <<"/">> \in Seq(C) /\ h \o Pathname(q) \in Seq(C)
        /\ Pathname(Append(q, n)) = (Pathname(q) \o <<"/">>) \o n
    <3>1. Pathname(q) \in Seq(C) /\ Pathname(Append(q, n)) = (Pathname(q) \o <<"/">>) \o n
      BY <2>1, PathnameAdd
    <3> QED
      BY <1>2, <3>1, ConcatProperties
  <2>3. PICK s \in Seq(C) : s = h \o Pathname(q)
    BY <2>2
  <2>4. h \o Pathname(Append(q, n)) = (s \o <<"/">>) \o n
    <3>1. IsText(h, C) /\ IsText(q, Seq(C)) /\ IsText(n, C)
      BY <1>2, <2>1 DEF IsText
    <3> HIDE DEF D, P
    <3>2. h \o Pathname(Append(q, n)) = ((h \o Pathname(q)) \o <<"/">>) \o n
      BY <3>1, PathBehind, SMTT(60)
    <3> QED
      BY <2>3, <3>2
  <2>5. PICK u : u = Pieces((s \o <<"/">>) \o n, {"/"})
    OBVIOUS
  <2>6. PICK k : k = Cardinality(Cuts(s, {"/"})) - 1
    OBVIOUS
  <2>7. /\ k \in Nat /\ DOMAIN Pieces(s, {"/"}) = 1 .. k /\ DOMAIN u = 1 .. k + 1
        /\ \A i \in 1 .. k : u[i] = Pieces(s, {"/"})[i]
        /\ u[k + 1] = n
    <3>1. Free(n, {"/"}) /\ "/" \in {"/"} /\ n \in Seq(C)
      BY <1>4 DEF Names
    <3> HIDE DEF D, P
    <3> QED
      BY <2>5, <2>6, <3>1, PiecesAdd, SMTT(30)
  <2>8. PICK g \in Seq(D) : g = <<h>> \o q
    BY TailOfJoint
  <2>9. Pieces(s, {"/"}) = g
    BY <1>4, <2>3, <2>8
  <2>10. DOMAIN g = 1 .. Len(q) + 1 /\ Len(q) \in Nat /\ Len(g) = Len(q) + 1
    BY <2>8, TailOfJoint, LenProperties
  <2>11. k = Len(g)
    <3>1. 1 .. k = 1 .. Len(q) + 1
      BY <2>7, <2>9, <2>10
    <3>2. Len(q) + 1 \in 1 .. k /\ (k > Len(q) + 1 => k \in 1 .. Len(q) + 1)
      BY <2>7, <2>10, <3>1
    <3> QED
      BY <2>7, <2>10, <3>2
  <2>12. u = Append(g, n)
    <3>1. PICK v : v = Append(g, n)
      OBVIOUS
    <3>2. v \in Seq(D) /\ Len(v) = k + 1 /\ (\A i \in 1 .. k : v[i] = g[i]) /\ v[k + 1] = n
      BY <2>11, <3>1, AppendProperties
    <3>3. DOMAIN v = 1 .. k + 1 /\ v = [i \in 1 .. k + 1 |-> v[i]]
      BY <3>2, LenProperties
    <3>4. u = [i \in 1 .. k + 1 |-> u[i]]
      BY <2>5, <2>7 DEF Pieces
    <3>5. \A i \in 1 .. k + 1 : u[i] = v[i]
      <4>1. \A i \in 1 .. k + 1 : i \in 1 .. k \/ i = k + 1
        BY <2>7
      <4> QED
        BY <2>7, <2>9, <3>2, <4>1
    <3>6. u = v
      BY <3>3, <3>4, <3>5
    <3> QED
      BY <3>1, <3>6
  <2>13. Append(g, n) = <<h>> \o Append(q, n)
    <3>1. <<h>> \in Seq(D) /\ <<n>> \in Seq(D)
      BY <1>4
    <3>2. Append(g, n) = g \o <<n>> /\ Append(q, n) = q \o <<n>>
      BY <1>4, AppendIsConcat
    <3>3. (<<h>> \o q) \o <<n>> = <<h>> \o (q \o <<n>>)
      BY <1>4, <3>1, ConcatAssociative
    <3> QED
      BY <2>8, <3>2, <3>3
  <2> QED
    BY <2>1, <2>4, <2>5, <2>12, <2>13
<1>5. Seq(D) \subseteq P
  <2> HIDE DEF D, P
  <2> QED
    BY <1>3, <1>4, SeqInduction
<1> QED
  BY <1>5

\* Any text is text without slashes and a path behind it.
LEMMA EverythingIsAPath ==
  ASSUME NEW C, "/" \in C, NEW s \in Seq(C)
  PROVE  \E h \in Names(C), p \in Seq(Names(C)) : s = h \o Pathname(p)
<1> DEFINE D == Names(C)
           P == {u \in Seq(C) : \E h \in D, p \in Seq(D) : u = h \o Pathname(p)}
<1>1. D \subseteq Seq(C) /\ Seq(D) \subseteq Seq(Seq(C)) /\ <<>> \in Seq(D)
  <2>1. D \subseteq Seq(C)
    BY DEF Names
  <2> HIDE DEF D
  <2> QED
    BY <2>1, SeqMonotonic, EmptySeq
<1>2. <<>> \in D /\ <<>> \in Seq(C)
  BY EmptySeq DEF Names, Free
<1>3. \A p \in Seq(D) : Pathname(p) \in Seq(C)
  BY <1>1, PathnameAdd, EmptySeq
<1>4. Pathname(<<>>) = <<>>
  BY <1>1, <1>2, PathnameAdd
<1>5. <<>> \in P
  <2>1. <<>> \o Pathname(<<>>) = <<>>
    BY <1>2, <1>4, ConcatEmptySeq
  <2> QED
    BY <1>1, <1>2, <2>1
<1>6. \A n \in D : \A x \in C : x # "/" => Append(n, x) \in D
  <2>1. SUFFICES ASSUME NEW n \in D, NEW x \in C, x # "/" PROVE Append(n, x) \in D
    OBVIOUS
  <2>2. n \in Seq(C) /\ DOMAIN n = 1 .. Len(n) /\ Len(n) \in Nat /\ \A i \in 1 .. Len(n) : n[i] # "/"
    BY LenProperties DEF Names, Free
  <2>3. PICK v : v = Append(n, x)
    OBVIOUS
  <2>4. v \in Seq(C) /\ DOMAIN v = 1 .. Len(n) + 1 /\ (\A i \in 1 .. Len(n) : v[i] = n[i]) /\ v[Len(n) + 1] = x
    BY <2>2, <2>3, AppendProperties, LenProperties
  <2>5. \A i \in 1 .. Len(n) + 1 : i \in 1 .. Len(n) \/ i = Len(n) + 1
    BY <2>2
  <2>6. Free(v, {"/"})
    BY <2>1, <2>2, <2>4, <2>5 DEF Free
  <2> QED
    BY <2>3, <2>4, <2>6 DEF Names
<1>7. ASSUME NEW u \in Seq(C), NEW x \in C, u \in P PROVE Append(u, x) \in P
  <2>1. PICK h \in D, p \in Seq(D) : u = h \o Pathname(p)
    BY <1>7
  <2>2. h \in Seq(C) /\ p \in Seq(Seq(C)) /\ Pathname(p) \in Seq(C) /\ <<x>> \in Seq(C)
    BY <1>1, <1>3
  <2>3. Append(u, x) \in Seq(C) /\ Append(u, x) = u \o <<x>>
    BY AppendProperties, AppendIsConcat
  <2>4. u \o <<x>> = h \o (Pathname(p) \o <<x>>)
    BY <2>1, <2>2, ConcatAssociative, SMTT(60)
  <2> HIDE DEF D
  <2>5. CASE x = "/"
    <3>1. Append(p, <<>>) \in Seq(D)
      BY <1>2, AppendProperties
    <3>2. Pathname(Append(p, <<>>)) = (Pathname(p) \o <<x>>) \o <<>>
      BY <1>2, <2>2, <2>5, PathnameAdd
    <3>3. Pathname(p) \o <<x>> \in Seq(C)
      BY <2>2, ConcatProperties
    <3>4. Pathname(Append(p, <<>>)) = Pathname(p) \o <<x>>
      BY <3>2, <3>3, ConcatEmptySeq
    <3>5. Append(u, x) = h \o Pathname(Append(p, <<>>))
      BY <2>3, <2>4, <3>4
    <3> QED
      BY <2>3, <3>1, <3>5
  <2>6. CASE x # "/" /\ p = <<>>
    <3>1. Append(h, x) \in D /\ Append(h, x) \in Seq(C)
      BY <1>1, <1>6, <2>6
    <3>2. Pathname(p) = <<>> /\ u = h
      BY <1>4, <2>1, <2>2, <2>6, ConcatEmptySeq
    <3>3. Append(u, x) = Append(h, x) \o Pathname(p)
      BY <3>1, <3>2, ConcatEmptySeq
    <3> QED
      BY <2>3, <3>1, <3>3
  <2>7. CASE x # "/" /\ p # <<>>
    <3>1. PICK q \in Seq(D), n \in D : p = Append(q, n)
      BY <2>7, SequenceEmptyOrAppend
    <3>2. PICK m \in D : m = Append(n, x)
      BY <1>6, <2>7
    <3>3. n \in Seq(C) /\ m \in Seq(C) /\ m = n \o <<x>> /\ q \in Seq(Seq(C))
      BY <1>1, <3>2, AppendIsConcat
    <3>4. PICK y \in Seq(C) : y = Pathname(q) \o <<"/">>
      <4>1. Pathname(q) \in Seq(C) /\ <<"/">> \in Seq(C)
        BY <1>3
      <4> QED
        BY <4>1, ConcatProperties
    <3>5. Pathname(p) = y \o n /\ Pathname(Append(q, m)) = y \o m
      BY <3>1, <3>3, <3>4, PathnameAdd
    <3>6. (y \o n) \o <<x>> = y \o (n \o <<x>>)
      <4> HIDE DEF P
      <4>1. IsText(y, C) /\ IsText(n, C) /\ IsText(<<x>>, C)
        BY <2>2, <3>3, <3>4 DEF IsText
      <4> QED
        BY <4>1, Regroup, SMTT(60)
    <3>7. Append(u, x) = h \o Pathname(Append(q, m))
      BY <2>3, <2>4, <3>3, <3>5, <3>6
    <3>8. Append(q, m) \in Seq(D)
      BY AppendProperties
    <3> QED
      BY <2>3, <3>7, <3>8
  <2> QED
    BY <2>5, <2>6, <2>7
<1>8. Seq(C) \subseteq P
  <2> HIDE DEF D, P
  <2> QED
    BY <1>5, <1>7, SeqInduction
<1> QED
  BY <1>8

\* Text that begins with a slash is the path of the names that path_parser finds in it.
LEMMA NamesOfPath ==
  ASSUME NEW C, "/" \in C, NEW s \in Seq(C), s # <<>>, Head(s) = "/"
  PROVE  PathNames(s) \in Seq(Names(C)) /\ PathNames(s) # <<>> /\ Pathname(PathNames(s)) = s
<1>1. PICK h \in Names(C), p \in Seq(Names(C)) : s = h \o Pathname(p)
  BY EverythingIsAPath
<1>2. h \in Seq(C) /\ Free(h, {"/"}) /\ Pathname(p) \in Seq(C)
  <2>1. Names(C) \subseteq Seq(C)
    BY DEF Names
  <2>2. p \in Seq(Seq(C))
    BY <2>1, SeqMonotonic
  <2>3. Pathname(p) \in Seq(C)
    BY <2>2, EmptySeq, PathnameAdd
  <2> QED
    BY <2>1, <2>3 DEF Names
<1>3. h = <<>>
  <2>1. SUFFICES ASSUME h # <<>> PROVE FALSE
    OBVIOUS
  <2>2. Len(h) \in Nat \ {0} /\ 1 \in 1 .. Len(h) /\ DOMAIN h = 1 .. Len(h)
    BY <1>2, <2>1, EmptySeq, LenProperties
  <2>3. PICK v \in Seq(C) : v = Pathname(p) /\ Len(v) \in Nat
    BY <1>2, LenProperties
  <2>4. (h \o v)[1] = h[1]
    <3>1. 1 \in 1 .. Len(h) + Len(v) /\ 1 <= Len(h)
      BY <2>2, <2>3
    <3> QED
      BY <1>2, <3>1, ConcatProperties
  <2>5. s[1] = "/"
    BY FirstElement
  <2> QED
    BY <1>1, <1>2, <2>2, <2>3, <2>4, <2>5 DEF Free
<1>4. s = Pathname(p)
  BY <1>1, <1>2, <1>3, ConcatEmptySeq
<1>5. PathNames(s) = p
  <2>1. Pieces(s, {"/"}) = <<h>> \o p
    BY <1>1, PiecesOfPath
  <2>2. Tail(<<h>> \o p) = p
    BY TailOfJoint
  <2> QED
    BY <2>1, <2>2 DEF PathNames
<1>6. p # <<>>
  <2>1. Pathname(<<>>) = <<>>
    BY EmptySeq, PathnameAdd
  <2> QED
    BY <1>4, <2>1
<1> QED
  BY <1>4, <1>5, <1>6

\* And a path of names is read as these names.
LEMMA PathIsNames ==
  ASSUME NEW C, "/" \in C, NEW p \in Seq(Names(C))
  PROVE  Pieces(Pathname(p), {"/"}) = <<<<>>>> \o p /\ PathNames(Pathname(p)) = p
<1>1. PICK e \in Names(C) : e = <<>>
  <2>1. <<>> \in Seq(C) /\ Free(<<>>, {"/"})
    BY EmptySeq DEF Free
  <2> QED
    BY <2>1 DEF Names
<1>2. Pathname(p) \in Seq(C)
  <2>1. p \in Seq(Seq(C))
    BY SeqMonotonic DEF Names
  <2> QED
    BY <2>1, EmptySeq, PathnameAdd
<1>3. e \o Pathname(p) = Pathname(p)
  BY <1>1, <1>2, ConcatEmptySeq
<1>4. Pieces(Pathname(p), {"/"}) = <<e>> \o p
  BY <1>3, PiecesOfPath
<1>5. Tail(<<e>> \o p) = p
  BY TailOfJoint
<1> QED
  BY <1>1, <1>4, <1>5 DEF PathNames

-----------------------------------------------------------------------------
(* Words between spaces *)

\* A word starts at a place within the text.
LEMMA WordStartsFacts ==
  ASSUME NEW C, NEW s \in Seq(C)
  PROVE  /\ Len(s) \in Nat /\ DOMAIN s = 1 .. Len(s)
         /\ WordStarts(s) \subseteq 1 .. Len(s) /\ WordStarts(s) \subseteq Nat
         /\ IsFiniteSet(WordStarts(s)) /\ Cardinality(WordStarts(s)) \in Nat
<1>1. Len(s) \in Nat /\ DOMAIN s = 1 .. Len(s)
  BY LenProperties
<1>2. WordStarts(s) \subseteq 1 .. Len(s) /\ WordStarts(s) \subseteq Nat
  BY <1>1 DEF WordStarts
<1>3. IsFiniteSet(1 .. Len(s))
  BY <1>1, FS_Interval
<1>4. IsFiniteSet(WordStarts(s))
  BY <1>2, <1>3, FS_Subset
<1> QED
  BY <1>1, <1>2, <1>4, FS_CardinalityType

\* From i to j in s there is one word.
IsWord(s, i, j) ==
  /\ j \in i .. Len(s) /\ \A m \in i .. j : s[m] \notin Space
  /\ j = Len(s) \/ s[j + 1] \in Space

\* Each word that starts has an end, and one only.
LEMMA WordEndFacts ==
  ASSUME NEW C, NEW s \in Seq(C), NEW i \in WordStarts(s)
  PROVE  IsWord(s, i, WordEnd(s, i)) /\ \A j : IsWord(s, i, j) => j = WordEnd(s, i)
<1>1. Len(s) \in Nat /\ i \in 1 .. Len(s) /\ s[i] \notin Space
  BY WordStartsFacts DEF WordStarts
<1> DEFINE T == {j \in i .. Len(s) : j = Len(s) \/ s[j + 1] \in Space}
<1>2. PICK j \in T : \A k \in T : j <= k
  <2>1. Len(s) \in T /\ T \subseteq Nat
    BY <1>1
  <2> HIDE DEF T
  <2> QED
    BY <2>1, LeastNatural
<1>3. IsWord(s, i, j)
  <2>1. j \in i .. Len(s) /\ (j = Len(s) \/ s[j + 1] \in Space)
    BY <1>2
  <2>2. ASSUME NEW m \in i .. j PROVE s[m] \notin Space
    <3>1. CASE m = i
      BY <1>1, <3>1
    <3>2. CASE m # i
      <4>1. m - 1 \in i .. Len(s) /\ (m - 1) + 1 = m /\ m - 1 < j
        BY <1>1, <2>1, <3>2
      <4>2. m - 1 \notin T
        <5>1. j \in Nat /\ m - 1 \in Nat /\ ~(j <= m - 1)
          BY <1>1, <2>1, <4>1
        <5> HIDE DEF T
        <5> QED
          BY <1>2, <5>1
      <4> QED
        BY <4>1, <4>2
    <3> QED
      BY <3>1, <3>2
  <2> QED
    BY <2>1, <2>2 DEF IsWord
<1>4. \E k : IsWord(s, i, k)
  BY <1>3
<1>5. IsWord(s, i, WordEnd(s, i))
  <2>1. \E k \in i .. Len(s) : (\A m \in i .. k : s[m] \notin Space) /\ (k = Len(s) \/ s[k + 1] \in Space)
    BY <1>4 DEF IsWord
  <2> QED
    BY <2>1 DEF WordEnd, IsWord
<1>6. ASSUME NEW k, NEW l, IsWord(s, i, k), IsWord(s, i, l) PROVE ~(k < l)
  <2>1. SUFFICES ASSUME k < l PROVE FALSE
    OBVIOUS
  <2>2. k \in i .. Len(s) /\ l \in i .. Len(s)
    BY <1>6 DEF IsWord
  <2>3. k # Len(s) /\ k + 1 \in i .. l
    BY <1>1, <2>1, <2>2
  <2>4. s[k + 1] \in Space
    BY <1>6, <2>3 DEF IsWord
  <2>5. s[k + 1] \notin Space
    BY <1>6, <2>3 DEF IsWord
  <2> QED
    BY <2>4, <2>5
<1>7. ASSUME NEW k, IsWord(s, i, k) PROVE k = WordEnd(s, i)
  <2>1. PICK l : l = WordEnd(s, i)
    OBVIOUS
  <2>2. IsWord(s, i, l)
    BY <1>5, <2>1
  <2>3. ~(k < l) /\ ~(l < k)
    BY <1>6, <1>7, <2>2
  <2>4. k \in i .. Len(s) /\ l \in i .. Len(s)
    BY <1>7, <2>2 DEF IsWord
  <2>5. k = l
    BY <1>1, <2>3, <2>4
  <2> QED
    BY <2>1, <2>5
<1> QED
  BY <1>5, <1>7

\* Text that is not empty, and has no spaces.
WordsOf(C) == {w \in Seq(C) : w # <<>> /\ Free(w, Space)}

\* As many words as starts of words, and each of them is one.
LEMMA WordsFacts ==
  ASSUME NEW C, NEW s \in Seq(C)
  PROVE  Words(s) \in Seq(WordsOf(C)) /\ Len(Words(s)) = Cardinality(WordStarts(s))
<1>1. PICK n \in Nat : n = Cardinality(WordStarts(s))
  BY WordStartsFacts
<1>2. ASSUME NEW k \in 1 .. n
      PROVE  SubSeq(s, Nth(WordStarts(s), k), WordEnd(s, Nth(WordStarts(s), k))) \in WordsOf(C)
  <2>1. Nth(WordStarts(s), k) \in WordStarts(s)
    BY <1>1, WordStartsFacts, NthProperties
  <2>2. PICK i \in WordStarts(s) : i = Nth(WordStarts(s), k)
    BY <2>1
  <2>3. PICK j : j = WordEnd(s, i)
    OBVIOUS
  <2>4. PICK w : w = SubSeq(s, i, j)
    OBVIOUS
  <2>5. IsWord(s, i, j)
    BY <2>3, WordEndFacts
  <2>6. i \in Nat \ {0} /\ j \in Nat /\ i <= j /\ j <= Len(s) /\ Len(s) \in Nat /\ \A m \in i .. j : s[m] \notin Space
    <3>1. i \in 1 .. Len(s) /\ Len(s) \in Nat
      BY WordStartsFacts
    <3> QED
      BY <2>5, <3>1 DEF IsWord
  <2>7. /\ w \in Seq(C) /\ Len(w) = j - i + 1
        /\ \A m \in 1 .. j - i + 1 : w[m] = s[i + m - 1]
    <3>1. \A m \in i .. j : m \in 1 .. Len(s)
      BY <2>6
    <3>2. \A m \in i .. j : s[m] \in C
      BY <3>1, ElementOfSeq
    <3>3. i \in Int /\ j \in Int
      BY <2>6
    <3>4. /\ SubSeq(s, i, j) \in Seq(C) /\ Len(SubSeq(s, i, j)) = IF i <= j THEN j - i + 1 ELSE 0
          /\ \A m \in 1 .. j - i + 1 : SubSeq(s, i, j)[m] = s[i + m - 1]
      BY <3>2, <3>3, PartElements
    <3> QED
      BY <2>4, <2>6, <3>4
  <2>8. w # <<>>
    BY <2>6, <2>7, EmptySeq
  <2>9. Free(w, Space)
    <3>1. DOMAIN w = 1 .. j - i + 1
      BY <2>7, LenProperties
    <3>2. \A m \in 1 .. j - i + 1 : i + m - 1 \in i .. j
      BY <2>6
    <3>3. \A m \in 1 .. j - i + 1 : w[m] \notin Space
      BY <2>6, <2>7, <3>2
    <3> QED
      BY <3>1, <3>3 DEF Free
  <2> QED
    BY <2>2, <2>3, <2>4, <2>7, <2>8, <2>9 DEF WordsOf
<1>3. Words(s) = [k \in 1 .. n |-> SubSeq(s, Nth(WordStarts(s), k), WordEnd(s, Nth(WordStarts(s), k)))]
  BY <1>1 DEF Words
<1>4. Words(s) \in [1 .. n -> WordsOf(C)]
  BY <1>2, <1>3
<1>5. Words(s) \in Seq(WordsOf(C)) /\ Len(Words(s)) = n
  <2>1. PICK v \in [1 .. n -> WordsOf(C)] : v = Words(s)
    BY <1>4
  <2>2. v \in Seq(WordsOf(C)) /\ Len(v) = n
    OBVIOUS
  <2> QED
    BY <2>1, <2>2
<1> QED
  BY <1>1, <1>5

\* Text without spaces is one word.
LEMMA WordsOne ==
  ASSUME NEW C, NEW w \in WordsOf(C)
  PROVE  Words(w) = <<w>>
<1>1. w \in Seq(C) /\ w # <<>> /\ Free(w, Space)
  BY DEF WordsOf
<1>2. Len(w) \in Nat \ {0} /\ DOMAIN w = 1 .. Len(w) /\ \A i \in 1 .. Len(w) : w[i] \notin Space
  BY <1>1, EmptySeq, LenProperties DEF Free
<1>3. WordStarts(w) = {1}
  <2>1. \A i \in 1 .. Len(w) : i # 1 => i - 1 \in 1 .. Len(w)
    BY <1>2
  <2>2. 1 \in 1 .. Len(w)
    BY <1>2
  <2> QED
    BY <1>2, <2>1, <2>2 DEF WordStarts
<1>4. WordEnd(w, 1) = Len(w)
  <2>1. IsWord(w, 1, Len(w))
    BY <1>2 DEF IsWord
  <2> QED
    BY <1>1, <1>3, <2>1, WordEndFacts
<1>5. Cardinality(WordStarts(w)) = 1 /\ Nth(WordStarts(w), 1) = 1
  BY <1>3, NthOnly
<1>6. Words(w) = [k \in 1 .. 1 |-> SubSeq(w, Nth(WordStarts(w), k), WordEnd(w, Nth(WordStarts(w), k)))]
  BY <1>5 DEF Words
<1>7. SubSeq(w, Nth(WordStarts(w), 1), WordEnd(w, Nth(WordStarts(w), 1))) = w
  BY <1>1, <1>4, <1>5, SubSeqFull
<1>8. Words(w) = [k \in 1 .. 1 |-> w]
  BY <1>6, <1>7
<1>9. [k \in 1 .. 1 |-> w] = <<w>>
  OBVIOUS
<1> QED
  BY <1>8, <1>9

\* A space and a word make one word more.
LEMMA WordsAdd ==
  ASSUME NEW C, NEW x \in C, x \in Space, NEW s \in Seq(C), NEW w \in WordsOf(C)
  PROVE  Words((s \o <<x>>) \o w) = Append(Words(s), w)
<1>1. w \in Seq(C) /\ w # <<>> /\ Free(w, Space)
  BY DEF WordsOf
<1>2. PICK t : t = (s \o <<x>>) \o w
  OBVIOUS
<1>3. /\ t \in Seq(C) /\ Len(s) \in Nat /\ Len(w) \in Nat \ {0} /\ Len(t) = Len(s) + 1 + Len(w)
      /\ DOMAIN s = 1 .. Len(s) /\ DOMAIN t = 1 .. Len(t)
      /\ \A i \in 1 .. Len(s) : t[i] = s[i]
      /\ t[Len(s) + 1] = x
      /\ \A i \in 1 .. Len(w) : t[Len(s) + 1 + i] = w[i] /\ w[i] \notin Space
  <2>1. /\ t \in Seq(C) /\ Len(s) \in Nat /\ Len(w) \in Nat /\ Len(t) = Len(s) + 1 + Len(w)
        /\ DOMAIN s = 1 .. Len(s) /\ DOMAIN w = 1 .. Len(w) /\ DOMAIN t = 1 .. Len(t)
        /\ \A i \in 1 .. Len(s) : t[i] = s[i]
        /\ t[Len(s) + 1] = x
        /\ \A i \in 1 .. Len(w) : t[Len(s) + 1 + i] = w[i]
    BY <1>1, <1>2, Joint
  <2>2. Len(w) # 0
    BY <1>1, EmptySeq
  <2>3. \A i \in 1 .. Len(w) : w[i] \notin Space
    BY <1>1, <2>1, SMTT(60) DEF Free
  <2> QED
    BY <2>1, <2>2, <2>3
<1>4. PICK U : U = WordStarts(s)
  OBVIOUS
<1>5. PICK n \in Nat, e \in Nat \ {0}, g \in Nat, m \in Nat :
        n = Len(s) /\ e = Len(w) /\ g = Len(t) /\ g = n + 1 + e /\ m = n + 2
  <2>1. PICK n \in Nat : n = Len(s)
    BY <1>3
  <2>2. PICK e \in Nat \ {0} : e = Len(w)
    BY <1>3
  <2>3. n + 1 + e \in Nat /\ n + 2 \in Nat
    OBVIOUS
  <2> QED
    BY <1>3, <2>1, <2>2, <2>3, ZenonT(60)
<1> HIDE DEF Free
<1>19. /\ DOMAIN s = 1 .. n /\ DOMAIN t = 1 .. g
       /\ \A i \in 1 .. n : t[i] = s[i]
       /\ t[n + 1] = x
       /\ \A i \in 1 .. e : t[n + 1 + i] = w[i] /\ w[i] \notin Space
  BY <1>3, <1>5
<1>6. ASSUME NEW i \in 1 .. g, i > n + 1
      PROVE  t[i] \notin Space
  <2>1. i - (n + 1) \in 1 .. e /\ i = n + 1 + (i - (n + 1))
    BY <1>5, <1>19, <1>6
  <2>2. PICK k \in 1 .. e : i = n + 1 + k
    BY <2>1
  <2> QED
    BY <1>5, <1>19, <2>2
<1>7. WordStarts(t) = U \cup {m}
  <2>1. ASSUME NEW i \in 1 .. g, i <= n PROVE i \in WordStarts(t) <=> i \in U
    <3>1. i \in 1 .. n /\ t[i] = s[i] /\ (i # 1 => i - 1 \in 1 .. n /\ t[i - 1] = s[i - 1])
      BY <1>5, <1>19, <2>1
    <3> QED
      BY <1>4, <1>5, <1>19, <3>1 DEF WordStarts
  <2>2. n + 1 \notin WordStarts(t)
    BY <1>5, <1>19 DEF WordStarts
  <2>3. m \in WordStarts(t)
    <3>1. m \in 1 .. g /\ m > n + 1 /\ m - 1 = n + 1
      BY <1>5, <1>19
    <3>2. t[m] \notin Space
      BY <1>6, <3>1
    <3>3. t[m - 1] \in Space
      BY <1>5, <1>19, <3>1
    <3> QED
      BY <1>5, <1>19, <3>1, <3>2, <3>3 DEF WordStarts
  <2>4. ASSUME NEW i \in 1 .. g, i > n + 2 PROVE i \notin WordStarts(t)
    <3>1. i - 1 \in 1 .. g /\ i - 1 > n + 1 /\ i # 1
      BY <1>5, <1>19, <2>4
    <3> QED
      BY <1>6, <3>1 DEF WordStarts
  <2>5. U \subseteq 1 .. n /\ WordStarts(t) \subseteq 1 .. g /\ n \in Nat /\ m = n + 2
        /\ (\A i \in 1 .. n : i \in 1 .. g)
    <3>1. WordStarts(s) \subseteq 1 .. n
      BY <1>5, WordStartsFacts
    <3>2. WordStarts(t) \subseteq 1 .. g
      BY <1>3, <1>5, WordStartsFacts
    <3>3. \A i \in 1 .. n : i \in 1 .. g
      BY <1>5
    <3> QED
      BY <1>4, <1>5, <3>1, <3>2, <3>3
  <2>6. \A i \in 1 .. g : i <= n \/ i = n + 1 \/ i = m \/ i > n + 2
    BY <1>5, <1>19, <2>5
  <2>7. \A i \in WordStarts(t) : i \in U \/ i = m
    BY <2>1, <2>2, <2>4, <2>5, <2>6
  <2>8. \A i \in U : i \in WordStarts(t)
    <3>1. \A i \in U : i \in 1 .. g /\ i <= n
      BY <2>5
    <3> QED
      BY <2>1, <3>1
  <2> QED
    BY <2>3, <2>7, <2>8
<1>8. PICK V : V = U \cup {m}
  OBVIOUS
<1>9. PICK k \in Nat : k = Cardinality(U)
  BY <1>4, WordStartsFacts
<1>10. /\ Cardinality(V) = k + 1 /\ Nth(V, k + 1) = m
       /\ \A l \in 1 .. k : Nth(V, l) = Nth(U, l) /\ Nth(U, l) \in U
  <2>1. U \subseteq Nat /\ IsFiniteSet(U) /\ m \in Nat /\ U \subseteq 1 .. n
    BY <1>4, <1>5, <1>19, WordStartsFacts
  <2>2. \A i \in U : i < m
    BY <1>5, <1>19, <2>1
  <2>3. /\ Cardinality(V) = Cardinality(U) + 1 /\ Nth(V, Cardinality(U) + 1) = m
        /\ \A l \in 1 .. Cardinality(U) : Nth(V, l) = Nth(U, l)
    BY <1>8, <2>1, <2>2, NthAbove
  <2>4. \A l \in 1 .. Cardinality(U) : Nth(U, l) \in U
    BY <2>1, NthProperties
  <2> QED
    BY <1>9, <2>3, <2>4
<1>11. ASSUME NEW i \in U
       PROVE  SubSeq(t, i, WordEnd(t, i)) = SubSeq(s, i, WordEnd(s, i))
  <2>1. PICK j : j = WordEnd(s, i)
    OBVIOUS
  <2>2. IsWord(s, i, j)
    BY <1>4, <2>1, WordEndFacts
  <2>3. i \in Nat \ {0} /\ j \in Nat /\ i <= j /\ j <= n
    BY <1>4, <1>5, <1>19, <2>2, WordStartsFacts DEF IsWord
  <2>4. IsWord(t, i, j)
    <3>1. j \in i .. g
      BY <1>5, <1>19, <2>3
    <3>2. \A l \in i .. j : t[l] \notin Space
      <4>1. \A l \in i .. j : l \in 1 .. n
        BY <1>5, <1>19, <2>3
      <4> QED
        BY <1>5, <1>19, <2>2, <4>1 DEF IsWord
    <3>3. t[j + 1] \in Space
      <4>1. CASE j = n
        BY <1>5, <1>19, <4>1
      <4>2. CASE j # n
        <5>1. j + 1 \in 1 .. n
          BY <1>5, <1>19, <2>3, <4>2
        <5>2. s[j + 1] \in Space
          BY <1>5, <2>2, <4>2 DEF IsWord
        <5> QED
          BY <1>5, <1>19, <5>1, <5>2
      <4> QED
        BY <4>1, <4>2
    <3>4. Len(t) = g
      BY <1>5
    <3> QED
      BY <3>1, <3>2, <3>3, <3>4 DEF IsWord
  <2>5. WordEnd(t, i) = j
    <3>1. i \in WordStarts(t) /\ t \in Seq(C)
      BY <1>3, <1>7
    <3> QED
      BY <2>4, <3>1, WordEndFacts
  <2>6. SubSeq(t, i, j) = SubSeq(s, i, j)
    BY <1>1, <1>2, <1>5, <2>3, PartOfFirst
  <2> QED
    BY <2>1, <2>5, <2>6
<1>12. SubSeq(t, m, WordEnd(t, m)) = w
  <2>1. IsWord(t, m, Len(t))
    <3>1. Len(t) \in m .. g
      BY <1>5, <1>19
    <3>2. \A l \in m .. g : l \in 1 .. g /\ l > n + 1
      BY <1>5, <1>19
    <3>3. \A l \in m .. g : t[l] \notin Space
      BY <1>6, <3>2
    <3> QED
      BY <3>1, <3>3 DEF IsWord
  <2>2. m \in WordStarts(t)
    BY <1>7
  <2>3. WordEnd(t, m) = Len(t)
    BY <1>3, <2>1, <2>2, WordEndFacts
  <2>4. SubSeq(t, Len(s) + 2, Len(t)) = w
    BY <1>1, <1>2, PartOfLast
  <2> QED
    BY <1>5, <2>3, <2>4
<1>13. PICK v : v = Append(Words(s), w)
  OBVIOUS
<1>14. /\ DOMAIN v = 1 .. k + 1 /\ v = [l \in 1 .. k + 1 |-> v[l]]
       /\ \A l \in 1 .. k : v[l] = Words(s)[l]
       /\ v[k + 1] = w
  <2>1. PICK z \in Seq(WordsOf(C)) : z = Words(s) /\ Len(z) = k
    BY <1>4, <1>9, WordsFacts
  <2>2. v = Append(z, w)
    BY <1>13, <2>1
  <2>3. v \in Seq(WordsOf(C)) /\ Len(v) = k + 1 /\ (\A l \in 1 .. k : v[l] = z[l]) /\ v[k + 1] = w
    BY <2>1, <2>2, AppendProperties
  <2>4. DOMAIN v = 1 .. k + 1 /\ v = [l \in 1 .. k + 1 |-> v[l]]
    BY <2>3, LenProperties
  <2> QED
    BY <2>1, <2>3, <2>4
<1>15. \A l \in 1 .. k : Words(s)[l] = SubSeq(s, Nth(U, l), WordEnd(s, Nth(U, l)))
  BY <1>4, <1>9 DEF Words
<1>16. Words(t) = [l \in 1 .. k + 1 |-> SubSeq(t, Nth(V, l), WordEnd(t, Nth(V, l)))]
  BY <1>7, <1>8, <1>10 DEF Words
<1>17. ASSUME NEW l \in 1 .. k + 1 PROVE SubSeq(t, Nth(V, l), WordEnd(t, Nth(V, l))) = v[l]
  <2>1. CASE l = k + 1
    BY <1>10, <1>12, <1>14, <2>1
  <2>2. CASE l # k + 1
    <3>1. l \in 1 .. k
      BY <1>9, <2>2
    <3>2. Nth(V, l) = Nth(U, l) /\ Nth(U, l) \in U
      BY <1>10, <3>1
    <3>3. SubSeq(t, Nth(U, l), WordEnd(t, Nth(U, l))) = SubSeq(s, Nth(U, l), WordEnd(s, Nth(U, l)))
      BY <1>11, <3>2
    <3> QED
      BY <1>14, <1>15, <3>1, <3>2, <3>3
  <2> QED
    BY <2>1, <2>2
<1>18. Words(t) = [l \in 1 .. k + 1 |-> v[l]]
  BY <1>16, <1>17
<1> QED
  BY <1>2, <1>13, <1>14, <1>18

-----------------------------------------------------------------------------
(* Lines of words *)

\* Where the character x stands in s: find_space counts the spaces.
Places(s, x) == {i \in DOMAIN s : s[i] = x}

\* Text without x, and text with one x more.
LEMMA PlacesAdd ==
  ASSUME NEW C, NEW x \in C, NEW s \in Seq(C), NEW w \in Seq(C), Free(w, {x})
  PROVE  /\ Cardinality(Places(w, x)) = 0 /\ Cardinality(Places(s, x)) \in Nat
         /\ Cardinality(Places((s \o <<x>>) \o w, x)) = Cardinality(Places(s, x)) + 1
<1>1. Cardinality(Places(w, x)) = 0
  <2>1. Places(w, x) = {}
    BY DEF Places, Free
  <2> QED
    BY <2>1, FS_EmptySet
<1>2. PICK t : t = (s \o <<x>>) \o w
  OBVIOUS
<1>3. /\ t \in Seq(C) /\ Len(s) \in Nat /\ Len(w) \in Nat /\ Len(t) = Len(s) + 1 + Len(w)
      /\ DOMAIN s = 1 .. Len(s) /\ DOMAIN w = 1 .. Len(w) /\ DOMAIN t = 1 .. Len(t)
      /\ \A i \in 1 .. Len(s) : t[i] = s[i]
      /\ t[Len(s) + 1] = x
      /\ \A i \in 1 .. Len(w) : t[Len(s) + 1 + i] = w[i]
  BY <1>2, Joint
<1>4. PICK U : U = Places(s, x)
  OBVIOUS
<1>5. Places(t, x) = U \cup {Len(s) + 1}
  <2>1. ASSUME NEW i \in DOMAIN t, t[i] = x PROVE i \in U \cup {Len(s) + 1}
    <3>1. CASE i \in 1 .. Len(s)
      BY <1>3, <1>4, <2>1, <3>1 DEF Places
    <3>2. CASE i = Len(s) + 1
      BY <3>2
    <3>3. CASE i \notin 1 .. Len(s) /\ i # Len(s) + 1
      <4>1. PICK j : j = i - (Len(s) + 1)
        OBVIOUS
      <4>2. j \in 1 .. Len(w) /\ i = Len(s) + 1 + j
        BY <1>3, <3>3, <4>1
      <4>3. t[i] # x
        BY <1>3, <4>2 DEF Free
      <4> QED
        BY <2>1, <4>3
    <3> QED
      BY <3>1, <3>2, <3>3
  <2>2. ASSUME NEW i \in U \cup {Len(s) + 1} PROVE i \in DOMAIN t /\ t[i] = x
    <3>1. CASE i = Len(s) + 1
      BY <1>3, <3>1
    <3>2. CASE i # Len(s) + 1
      <4>1. i \in 1 .. Len(s) /\ s[i] = x
        BY <1>3, <1>4, <3>2 DEF Places
      <4> QED
        BY <1>3, <4>1
    <3> QED
      BY <3>1, <3>2
  <2> QED
    BY <2>1, <2>2 DEF Places
<1>6. IsFiniteSet(U) /\ Len(s) + 1 \notin U
  <2>1. IsFiniteSet(1 .. Len(s)) /\ U \subseteq 1 .. Len(s)
    BY <1>3, <1>4, FS_Interval DEF Places
  <2>2. IsFiniteSet(U)
    BY <2>1, FS_Subset
  <2> QED
    BY <1>3, <2>1, <2>2
<1>7. Cardinality(U \cup {Len(s) + 1}) = Cardinality(U) + 1 /\ Cardinality(U) \in Nat
  BY <1>6, FS_AddElement, FS_CardinalityType
<1> QED
  BY <1>1, <1>2, <1>4, <1>5, <1>7

\* Text without some characters, joined.
LEMMA FreeJoint ==
  ASSUME NEW C, NEW x \in C, NEW s \in Seq(C), NEW w \in Seq(C), NEW separators, x \notin separators,
         Free(s, separators), Free(w, separators)
  PROVE  Free((s \o <<x>>) \o w, separators)
<1>1. PICK t : t = (s \o <<x>>) \o w
  OBVIOUS
<1>2. /\ t \in Seq(C) /\ Len(s) \in Nat /\ Len(w) \in Nat /\ Len(t) = Len(s) + 1 + Len(w)
      /\ DOMAIN s = 1 .. Len(s) /\ DOMAIN w = 1 .. Len(w) /\ DOMAIN t = 1 .. Len(t)
      /\ \A i \in 1 .. Len(s) : t[i] = s[i]
      /\ t[Len(s) + 1] = x
      /\ \A i \in 1 .. Len(w) : t[Len(s) + 1 + i] = w[i]
  BY <1>1, Joint
<1>3. ASSUME NEW i \in 1 .. Len(t) PROVE t[i] \notin separators
  <2>1. CASE i \in 1 .. Len(s)
    BY <1>2, <2>1 DEF Free
  <2>2. CASE i = Len(s) + 1
    BY <1>2, <2>2
  <2>3. CASE i \notin 1 .. Len(s) /\ i # Len(s) + 1
    <3>1. PICK j : j = i - (Len(s) + 1)
      OBVIOUS
    <3>2. j \in 1 .. Len(w) /\ i = Len(s) + 1 + j
      BY <1>2, <2>3, <3>1
    <3> QED
      BY <1>2, <3>2 DEF Free
  <2> QED
    BY <2>1, <2>2, <2>3
<1> QED
  BY <1>1, <1>2, <1>3 DEF Free

\* The characters of C that are neither spaces nor the end of a header.
Black(C) == {c \in C : c \notin Space /\ c # "NUL"}

\* Text of them is without spaces, and a word unless it is empty.
LEMMA BlackText ==
  ASSUME NEW C, NEW s \in Seq(Black(C))
  PROVE  s \in Seq(C) /\ Free(s, Space) /\ Free(s, {"NUL"}) /\ (s # <<>> => s \in WordsOf(C))
<1>1. Black(C) \subseteq C
  BY DEF Black
<1>2. s \in Seq(C)
  BY <1>1, SeqMonotonic
<1>3. \A i \in DOMAIN s : s[i] \in Black(C)
  BY LenProperties, ElementOfSeq
<1>4. Free(s, Space) /\ Free(s, {"NUL"})
  BY <1>3 DEF Free, Black
<1> QED
  BY <1>2, <1>4 DEF WordsOf

\* A word behind a text, after a space.
LEMMA LineAdd ==
  ASSUME NEW C, NEW x \in C, x \in Space, x # "NUL", NEW s \in Seq(C), Free(s, {"NUL"}),
         NEW w \in Seq(Black(C)), w # <<>>
  PROVE  LET t == (s \o <<x>>) \o w IN
         /\ t \in Seq(C) /\ Free(t, {"NUL"}) /\ Words(t) = Append(Words(s), w)
         /\ Len(t) = Len(s) + 1 + Len(w) /\ Len(s) \in Nat
         /\ Cardinality(Places(s, x)) \in Nat /\ Cardinality(Places(t, x)) = Cardinality(Places(s, x)) + 1
<1>1. w \in Seq(C) /\ Free(w, Space) /\ Free(w, {"NUL"}) /\ w \in WordsOf(C)
  BY BlackText
<1>2. (s \o <<x>>) \o w \in Seq(C) /\ Len((s \o <<x>>) \o w) = Len(s) + 1 + Len(w) /\ Len(s) \in Nat
  <2>1. PICK t : t = (s \o <<x>>) \o w
    OBVIOUS
  <2>2. t \in Seq(C) /\ Len(t) = Len(s) + 1 + Len(w) /\ Len(s) \in Nat
    BY <1>1, <2>1, Joint
  <2> QED
    BY <2>1, <2>2
<1>3. Free((s \o <<x>>) \o w, {"NUL"})
  <2>1. x \notin {"NUL"}
    OBVIOUS
  <2> QED
    BY <1>1, <2>1, FreeJoint
<1>4. Words((s \o <<x>>) \o w) = Append(Words(s), w)
  BY <1>1, WordsAdd
<1>5. /\ Cardinality(Places(s, x)) \in Nat
      /\ Cardinality(Places((s \o <<x>>) \o w, x)) = Cardinality(Places(s, x)) + 1
  <2>1. Free(w, {x})
    BY <1>1 DEF Free
  <2> QED
    BY <1>1, <2>1, PlacesAdd
<1> QED
  BY <1>2, <1>3, <1>4, <1>5

\* The length of a line.
LEMMA JointLength ==
  ASSUME NEW C, NEW x \in C, NEW s \in Seq(C), NEW w \in Seq(Black(C))
  PROVE  Len((s \o <<x>>) \o w) = Len(s) + 1 + Len(w)
<1>1. PICK t : t = (s \o <<x>>) \o w
  OBVIOUS
<1>2. w \in Seq(C)
  BY BlackText
<1>3. Len(t) = Len(s) + 1 + Len(w)
  BY <1>1, <1>2, Joint
<1> QED
  BY <1>1, <1>3

\* Sequences written out: two in a row.
LEMMA TwoInARow ==
  ASSUME NEW a, NEW b
  PROVE  Append(<<a>>, b) = <<a, b>>
<1> DEFINE S == {a, b}
<1>1. PICK t \in Seq(S) : t = <<a>> /\ Len(t) = 1 /\ t[1] = a
  <2>1. <<a>> \in Seq(S)
    OBVIOUS
  <2> QED
    BY <2>1
<1>2. PICK v \in Seq(S) : v = <<a, b>> /\ Len(v) = 2 /\ v[1] = a /\ v[2] = b
  <2>1. <<a, b>> \in Seq(S)
    OBVIOUS
  <2> QED
    BY <2>1
<1>3. PICK z : z = Append(t, b)
  OBVIOUS
<1>4. z \in Seq(S) /\ Len(z) = 2 /\ (\A i \in 1 .. 1 : z[i] = t[i]) /\ z[2] = b
  <2>1. b \in S /\ Len(t) + 1 = 2
    BY <1>1
  <2> HIDE DEF S
  <2> QED
    BY <1>1, <1>3, <2>1, AppendProperties
<1>5. \A i \in 1 .. 2 : z[i] = v[i]
  <2>1. \A i \in 1 .. 2 : i \in {1, 2}
    OBVIOUS
  <2>2. z[1] = v[1] /\ z[2] = v[2]
    BY <1>1, <1>2, <1>4
  <2> QED
    BY <2>1, <2>2
<1>6. z = v
  <2> HIDE DEF S
  <2> QED
    BY <1>2, <1>4, <1>5, SeqEqual
<1> QED
  BY <1>1, <1>2, <1>3, <1>6

\* Three in a row.
LEMMA ThreeInARow ==
  ASSUME NEW a, NEW b, NEW c
  PROVE  Append(<<a, b>>, c) = <<a, b, c>>
<1> DEFINE S == {a, b, c}
<1>1. PICK t \in Seq(S) : t = <<a, b>> /\ Len(t) = 2 /\ t[1] = a /\ t[2] = b
  <2>1. <<a, b>> \in Seq(S)
    OBVIOUS
  <2> QED
    BY <2>1
<1>2. PICK v \in Seq(S) : v = <<a, b, c>> /\ Len(v) = 3 /\ v[1] = a /\ v[2] = b /\ v[3] = c
  <2>1. <<a, b, c>> \in Seq(S)
    OBVIOUS
  <2> QED
    BY <2>1
<1>3. PICK z : z = Append(t, c)
  OBVIOUS
<1>4. z \in Seq(S) /\ Len(z) = 3 /\ (\A i \in 1 .. 2 : z[i] = t[i]) /\ z[3] = c
  <2>1. c \in S /\ Len(t) + 1 = 3
    BY <1>1
  <2> HIDE DEF S
  <2> QED
    BY <1>1, <1>3, <2>1, AppendProperties
<1>5. \A i \in 1 .. 3 : z[i] = v[i]
  <2>1. \A i \in 1 .. 3 : i \in {1, 2, 3}
    OBVIOUS
  <2>2. z[1] = v[1] /\ z[2] = v[2] /\ z[3] = v[3]
    BY <1>1, <1>2, <1>4
  <2> QED
    BY <2>1, <2>2
<1>6. z = v
  <2> HIDE DEF S
  <2> QED
    BY <1>2, <1>4, <1>5, SeqEqual
<1> QED
  BY <1>1, <1>2, <1>3, <1>6

\* Four in a row.
LEMMA FourInARow ==
  ASSUME NEW a, NEW b, NEW c, NEW d
  PROVE  Append(<<a, b, c>>, d) = <<a, b, c, d>>
<1> DEFINE S == {a, b, c, d}
<1>1. PICK t \in Seq(S) : t = <<a, b, c>> /\ Len(t) = 3 /\ t[1] = a /\ t[2] = b /\ t[3] = c
  <2>1. <<a, b, c>> \in Seq(S)
    OBVIOUS
  <2> QED
    BY <2>1
<1>2. PICK v \in Seq(S) : v = <<a, b, c, d>> /\ Len(v) = 4 /\ v[1] = a /\ v[2] = b /\ v[3] = c /\ v[4] = d
  <2>1. <<a, b, c, d>> \in Seq(S)
    OBVIOUS
  <2> QED
    BY <2>1
<1>3. PICK z : z = Append(t, d)
  OBVIOUS
<1>4. z \in Seq(S) /\ Len(z) = 4 /\ (\A i \in 1 .. 3 : z[i] = t[i]) /\ z[4] = d
  <2>1. d \in S /\ Len(t) + 1 = 4
    BY <1>1
  <2> HIDE DEF S
  <2> QED
    BY <1>1, <1>3, <2>1, AppendProperties
<1>5. \A i \in 1 .. 4 : z[i] = v[i]
  <2>1. \A i \in 1 .. 4 : i \in {1, 2, 3, 4}
    OBVIOUS
  <2>2. z[1] = v[1] /\ z[2] = v[2] /\ z[3] = v[3] /\ z[4] = v[4]
    BY <1>1, <1>2, <1>4
  <2> QED
    BY <2>1, <2>2
<1>6. z = v
  <2> HIDE DEF S
  <2> QED
    BY <1>2, <1>4, <1>5, SeqEqual
<1> QED
  BY <1>1, <1>2, <1>3, <1>6

\* A line of three words, or of four.
LEMMA LineOfWords ==
  ASSUME NEW C, NEW x \in C, x \in Space, x # "NUL", NEW a \in Black(C),
         NEW u \in Seq(Black(C)), u # <<>>, NEW p \in Seq(Black(C)), p # <<>>, NEW g \in Seq(Black(C))
  PROVE  LET s == (((<<a>> \o <<x>>) \o u) \o <<x>>) \o p IN
         /\ s \in Seq(C) /\ Free(s, {"NUL"}) /\ Words(s) = <<<<a>>, u, p>>
         /\ Len(s) = 1 + 1 + Len(u) + 1 + Len(p) /\ Cardinality(Places(s, x)) = 2
         /\ g # <<>> => LET t == (s \o <<x>>) \o g IN
              /\ t \in Seq(C) /\ Free(t, {"NUL"}) /\ Words(t) = <<<<a>>, u, p, g>>
              /\ Len(t) = 1 + 1 + Len(u) + 1 + Len(p) + 1 + Len(g) /\ Cardinality(Places(t, x)) = 3
<1>1. PICK w \in Seq(Black(C)) : w = <<a>> /\ Len(w) = 1 /\ w # <<>>
  <2>1. <<a>> \in Seq(Black(C)) /\ Len(<<a>>) = 1 /\ <<a>> # <<>>
    OBVIOUS
  <2> QED
    BY <2>1
<1>2. w \in Seq(C) /\ w \in WordsOf(C) /\ Free(w, Space) /\ Free(w, {"NUL"}) /\ Words(w) = <<w>>
  BY <1>1, BlackText, WordsOne
<1>3. Cardinality(Places(w, x)) = 0
  <2>1. Free(w, {x})
    BY <1>2 DEF Free
  <2> QED
    BY <1>2, <2>1, PlacesAdd
<1>4. Len(u) \in Nat /\ Len(p) \in Nat /\ Len(g) \in Nat
  BY LenProperties
<1>5. PICK y : y = (w \o <<x>>) \o u
  OBVIOUS
<1>6. /\ y \in Seq(C) /\ Free(y, {"NUL"}) /\ Words(y) = Append(<<w>>, u)
      /\ Len(y) = 1 + 1 + Len(u) /\ Cardinality(Places(y, x)) = 1
  <2>1. /\ y \in Seq(C) /\ Free(y, {"NUL"}) /\ Words(y) = Append(Words(w), u)
        /\ Len(y) = Len(w) + 1 + Len(u) /\ Cardinality(Places(y, x)) = Cardinality(Places(w, x)) + 1
    <3>1. y \in Seq(C)
      BY <1>2, <1>5, LineAdd
    <3>2. Free(y, {"NUL"})
      BY <1>2, <1>5, LineAdd
    <3>3. Words(y) = Append(Words(w), u)
      BY <1>2, <1>5, LineAdd, ZenonT(60)
    <3>4. Len(y) = Len(w) + 1 + Len(u) /\ Cardinality(Places(y, x)) = Cardinality(Places(w, x)) + 1
      BY <1>2, <1>5, LineAdd
    <3> QED
      BY <3>1, <3>2, <3>3, <3>4
  <2> QED
    BY <1>1, <1>2, <1>3, <2>1
<1>7. PICK z : z = (y \o <<x>>) \o p
  OBVIOUS
<1>8. /\ z \in Seq(C) /\ Free(z, {"NUL"}) /\ Words(z) = Append(Append(<<w>>, u), p)
      /\ Len(z) = 1 + 1 + Len(u) + 1 + Len(p) /\ Cardinality(Places(z, x)) = 2
  <2>1. /\ z \in Seq(C) /\ Free(z, {"NUL"}) /\ Words(z) = Append(Words(y), p)
        /\ Len(z) = Len(y) + 1 + Len(p) /\ Cardinality(Places(z, x)) = Cardinality(Places(y, x)) + 1
    <3>1. z \in Seq(C)
      BY <1>6, <1>7, LineAdd
    <3>2. Free(z, {"NUL"})
      BY <1>6, <1>7, LineAdd
    <3>3. Words(z) = Append(Words(y), p)
      BY <1>6, <1>7, LineAdd
    <3>4. Len(z) = Len(y) + 1 + Len(p)
      <4>1. Len((y \o <<x>>) \o p) = Len(y) + 1 + Len(p)
        <5>1. y \in Seq(C)
          BY <1>6
        <5> QED
          BY <5>1, JointLength
      <4> QED
        BY <4>1, <1>6, <1>7
    <3>5. Cardinality(Places(z, x)) = Cardinality(Places(y, x)) + 1
      BY <1>6, <1>7, LineAdd
    <3> QED
      BY <3>1, <3>2, <3>3, <3>4, <3>5
  <2> QED
    BY <1>6, <2>1
<1>9. z = (((<<a>> \o <<x>>) \o u) \o <<x>>) \o p
  BY <1>1, <1>5, <1>7
<1>10. Append(Append(<<w>>, u), p) = <<w, u, p>>
  <2>1. Append(<<w>>, u) = <<w, u>>
    BY TwoInARow
  <2>2. Append(<<w, u>>, p) = <<w, u, p>>
    BY ThreeInARow
  <2> QED
    BY <2>1, <2>2
<1>11. ASSUME g # <<>>
       PROVE  LET t == (z \o <<x>>) \o g IN
              /\ t \in Seq(C) /\ Free(t, {"NUL"}) /\ Words(t) = <<w, u, p, g>>
              /\ Len(t) = 1 + 1 + Len(u) + 1 + Len(p) + 1 + Len(g) /\ Cardinality(Places(t, x)) = 3
  <2>1. PICK t : t = (z \o <<x>>) \o g
    OBVIOUS
  <2>2. /\ t \in Seq(C) /\ Free(t, {"NUL"}) /\ Words(t) = Append(Words(z), g)
        /\ Len(t) = Len(z) + 1 + Len(g) /\ Cardinality(Places(t, x)) = Cardinality(Places(z, x)) + 1
    <3>1. t \in Seq(C)
      BY <1>8, <1>11, <2>1, LineAdd
    <3>2. Free(t, {"NUL"})
      BY <1>8, <1>11, <2>1, LineAdd
    <3>3. Words(t) = Append(Words(z), g)
      BY <1>8, <1>11, <2>1, LineAdd, ZenonT(60)
    <3>4. Len(t) = Len(z) + 1 + Len(g)
      <4>1. Len((z \o <<x>>) \o g) = Len(z) + 1 + Len(g)
        <5>1. z \in Seq(C)
          BY <1>8
        <5> QED
          BY <5>1, JointLength
      <4> QED
        BY <4>1, <1>8, <1>11, <2>1
    <3>5. Cardinality(Places(t, x)) = Cardinality(Places(z, x)) + 1
      BY <1>8, <1>11, <2>1, LineAdd
    <3> QED
      BY <3>1, <3>2, <3>3, <3>4, <3>5
  <2>3. Words(t) = <<w, u, p, g>>
    <3>1. Append(<<w, u, p>>, g) = <<w, u, p, g>>
      BY FourInARow
    <3> QED
      BY <1>8, <1>10, <2>2, <3>1
  <2>4. Len(t) = 1 + 1 + Len(u) + 1 + Len(p) + 1 + Len(g) /\ Cardinality(Places(t, x)) = 3
    BY <1>8, <2>2
  <2> QED
    BY <2>1, <2>2, <2>3, <2>4
<1>12. z \in Seq(C) /\ Free(z, {"NUL"}) /\ Words(z) = <<w, u, p>>
       /\ Len(z) = 1 + 1 + Len(u) + 1 + Len(p) /\ Cardinality(Places(z, x)) = 2
  BY <1>8, <1>10
<1> QED
  BY <1>1, <1>9, <1>11, <1>12

-----------------------------------------------------------------------------
(* Requests *)

\* A path of one name or more begins with a slash, and does not end with one
\* if the names are not empty.
LEMMA PathEnds ==
  ASSUME NEW C, "/" \in C, NEW p \in Seq(Names(C)), p # <<>>, \A i \in DOMAIN p : p[i] # <<>>
  PROVE  /\ Pathname(p) \in Seq(C) /\ Pathname(p) # <<>>
         /\ Head(Pathname(p)) = "/" /\ Last(Pathname(p)) # "/"
<1> DEFINE D == Names(C)
           P == {q \in Seq(D) : q # <<>> => Pathname(q) # <<>> /\ Head(Pathname(q)) = "/"}
<1>1. D \subseteq Seq(C) /\ Seq(D) \subseteq Seq(Seq(C))
  <2>1. D \subseteq Seq(C)
    BY DEF Names
  <2> HIDE DEF D
  <2> QED
    BY <2>1, SeqMonotonic
<1>2. <<>> \in P
  BY EmptySeq
<1>3. ASSUME NEW q \in Seq(D), NEW n \in D
      PROVE  \E y \in Seq(C) :
               /\ y = Pathname(q) /\ n \in Seq(C) /\ Pathname(Append(q, n)) = (y \o <<"/">>) \o n
               /\ Append(q, n) \in Seq(D) /\ (q = <<>> => y = <<>>)
  <2>1. q \in Seq(Seq(C)) /\ n \in Seq(C) /\ Append(q, n) \in Seq(D)
    BY <1>1, <1>3, AppendProperties
  <2>2. Pathname(q) \in Seq(C) /\ Pathname(Append(q, n)) = (Pathname(q) \o <<"/">>) \o n /\ Pathname(<<>>) = <<>>
    BY <2>1, PathnameAdd
  <2> QED
    BY <2>1, <2>2
<1>4. ASSUME NEW q \in Seq(D), NEW n \in D, q \in P PROVE Append(q, n) \in P
  <2>1. PICK y \in Seq(C) :
          /\ y = Pathname(q) /\ n \in Seq(C) /\ Pathname(Append(q, n)) = (y \o <<"/">>) \o n
          /\ Append(q, n) \in Seq(D) /\ (q = <<>> => y = <<>>)
    BY <1>3
  <2>2. PICK t : t = (y \o <<"/">>) \o n
    OBVIOUS
  <2>3. /\ t \in Seq(C) /\ Len(y) \in Nat /\ Len(n) \in Nat /\ Len(t) = Len(y) + 1 + Len(n)
        /\ DOMAIN y = 1 .. Len(y)
        /\ \A i \in 1 .. Len(y) : t[i] = y[i]
        /\ t[Len(y) + 1] = "/"
    BY <2>1, <2>2, Joint
  <2>4. t # <<>>
    BY <2>3, EmptySeq
  <2>5. t[1] = "/"
    <3>1. CASE y = <<>>
      <4>1. Len(y) = 0
        BY <3>1, EmptySeq
      <4> QED
        BY <2>3, <4>1
    <3>2. CASE y # <<>>
      <4>1. Head(y) = "/"
        BY <1>4, <2>1, <3>2
      <4>2. y[1] = "/" /\ 1 \in 1 .. Len(y)
        BY <2>1, <2>3, <3>2, <4>1, EmptySeq, FirstElement
      <4> QED
        BY <2>3, <4>2
    <3> QED
      BY <3>1, <3>2
  <2>6. Head(t) = "/"
    BY <2>3, <2>4, <2>5, FirstElement
  <2> QED
    BY <2>1, <2>2, <2>4, <2>6
<1>5. Seq(D) \subseteq P
  <2> HIDE DEF D, P
  <2> QED
    BY <1>2, <1>4, SeqInduction
<1>6. Pathname(p) # <<>> /\ Head(Pathname(p)) = "/"
  BY <1>5
<1>7. PICK q \in Seq(D), n \in D : p = Append(q, n)
  BY SequenceEmptyOrAppend
<1>8. PICK y \in Seq(C) : n \in Seq(C) /\ Pathname(p) = (y \o <<"/">>) \o n
  BY <1>3, <1>7
<1>9. n # <<>>
  <2>1. Len(q) \in Nat /\ p[Len(q) + 1] = n /\ DOMAIN p = 1 .. Len(q) + 1
    <3>1. PICK z : z = Append(q, n)
      OBVIOUS
    <3>2. z \in Seq(D) /\ Len(z) = Len(q) + 1 /\ z[Len(q) + 1] = n
      BY <3>1, AppendProperties
    <3> QED
      BY <1>7, <3>1, <3>2, LenProperties
  <2>2. Len(q) + 1 \in DOMAIN p
    BY <2>1
  <2> QED
    BY <2>1, <2>2
<1>10. PICK t : t = (y \o <<"/">>) \o n
  OBVIOUS
<1>11. /\ t \in Seq(C) /\ Len(y) \in Nat /\ Len(n) \in Nat /\ Len(t) = Len(y) + 1 + Len(n)
       /\ DOMAIN n = 1 .. Len(n)
       /\ \A i \in 1 .. Len(n) : t[Len(y) + 1 + i] = n[i]
  BY <1>8, <1>10, Joint
<1>12. Len(n) \in 1 .. Len(n) /\ t[Len(t)] = n[Len(n)]
  <2>1. Len(n) # 0
    BY <1>8, <1>9, EmptySeq
  <2> QED
    BY <1>11, <2>1
<1>13. n[Len(n)] # "/"
  <2>1. Free(n, {"/"})
    BY DEF Names
  <2> QED
    BY <1>11, <1>12, <2>1 DEF Free
<1> QED
  BY <1>6, <1>8, <1>10, <1>11, <1>12, <1>13 DEF Last

\* Such a path is accepted if the names are not too long, and understood.
LEMMA PathAccepted ==
  ASSUME NEW C, "/" \in C, NEW p \in Seq(Names(C)), p # <<>>,
         \A i \in DOMAIN p : Len(p[i]) \in 1 .. MaxFileName
  PROVE  /\ Pathname(p) \in Seq(C) /\ Pathname(p) # <<>>
         /\ path_parser(Pathname(p)) /\ PathNames(Pathname(p)) = p
<1>1. \A i \in DOMAIN p : p[i] # <<>>
  BY EmptySeq
<1>2. /\ Pathname(p) \in Seq(C) /\ Pathname(p) # <<>>
      /\ Head(Pathname(p)) = "/" /\ Last(Pathname(p)) # "/"
  BY <1>1, PathEnds
<1>3. PathNames(Pathname(p)) = p
  BY PathIsNames
<1>4. \A n \in Range(p) : Len(n) \in 1 .. MaxFileName
  BY DEF Range
<1> QED
  BY <1>2, <1>3, <1>4 DEF path_parser, PathNames

\* The characters of the digits are no spaces.
LEMMA DigitsBlack == \A x \in Digit : x \notin Space /\ x # "NUL"
  BY Zenon DEF Digit, Space

\* The text of a legal request.
LEMMA RequestText ==
  ASSUME NEW r \in Request, Legal(r)
  PROVE  \E C : \E x \in C :
           /\ x = " " /\ x \in Space /\ x # "NUL" /\ "/" \in Black(C)
           /\ r.type \in Black(C) /\ r.user \in Seq(Black(C)) /\ r.path \in Seq(Names(Black(C)))
           /\ r.arg \in Seq(Black(C))
<1> DEFINE N == UNION {Range(n) : n \in Range(r.path)}
           B == {r.type, "/"} \cup Range(r.user) \cup N \cup Range(r.arg)
<1>1. PICK x : x = " " /\ x \in Space /\ x # "NUL"
  <2>1. " " \in Space /\ " " # "NUL"
    BY Zenon DEF Space
  <2> QED
    BY <2>1, Zenon
<1> DEFINE C == B \cup {x}
<1>2. /\ r.user \in Seq(Range(r.user)) /\ r.path \in Seq(Range(r.path)) /\ r.arg \in Seq(Range(r.arg))
      /\ \A n \in Range(r.path) : n \in Seq(Range(n))
  BY RequestAssumption, Zenon
<1>3. /\ \A c \in Range(r.user) : c \notin Space /\ c # "NUL"
      /\ \A n \in Range(r.path) : \A c \in Range(n) : c \notin Space /\ c # "NUL" /\ c # "/"
  <2>1. /\ Range(r.user) \cap {" ", "\t", "NUL"} = {}
        /\ \A n \in Range(r.path) : Range(n) \cap {" ", "\t", "NUL", "/"} = {}
    BY RequestAssumption, Zenon
  <2> QED
    BY <2>1, Zenon DEF Space
<1>4. r.type \notin Space /\ r.type # "NUL"
  <2>1. r.type \in {"FS_DELETE", "FS_CREATE", "FS_READBLOCK", "FS_WRITEBLOCK"}
    BY DEF Legal
  <2> QED
    BY <2>1, Zenon DEF Space
<1>5. "/" \notin Space /\ "/" # "NUL"
  BY Zenon DEF Space
<1>6. \A c \in Range(r.arg) : c \notin Space /\ c # "NUL"
  <2>1. "f" \notin Space /\ "d" \notin Space /\ "f" # "NUL" /\ "d" # "NUL"
    BY Zenon DEF Space
  <2>2. r.arg = <<>> \/ r.arg \in {<<"f">>, <<"d">>} \/ Range(r.arg) \subseteq Digit
    BY DEF Legal
  <2>3. CASE r.arg = <<>>
    BY <2>3 DEF Range
  <2>4. CASE r.arg \in {<<"f">>, <<"d">>}
    BY <2>1, <2>4 DEF Range
  <2>5. CASE Range(r.arg) \subseteq Digit
    BY <2>5, DigitsBlack
  <2> QED
    BY <2>2, <2>3, <2>4, <2>5
<1>7. \A c \in B : c \notin Space /\ c # "NUL"
  <2>1. SUFFICES ASSUME NEW c \in B PROVE c \notin Space /\ c # "NUL"
    OBVIOUS
  <2>2. \/ c = r.type \/ c = "/" \/ c \in Range(r.user) \/ c \in Range(r.arg)
        \/ \E n \in Range(r.path) : c \in Range(n)
    <3>1. c \in N => \E n \in Range(r.path) : c \in Range(n)
      BY Zenon
    <3> HIDE DEF N
    <3>2. c \in {r.type, "/"} \/ c \in Range(r.user) \/ c \in N \/ c \in Range(r.arg)
      BY Zenon
    <3> QED
      BY <3>1, <3>2, Zenon
  <2> HIDE DEF B
  <2> QED
    BY <1>3, <1>4, <1>5, <1>6, <2>2
<1>8. B \subseteq Black(C)
  BY <1>7 DEF Black
<1>9. /\ r.type \in Black(C) /\ "/" \in Black(C) /\ Range(r.user) \subseteq Black(C) /\ Range(r.arg) \subseteq Black(C)
      /\ \A n \in Range(r.path) : Range(n) \subseteq Black(C)
  <2>1. r.type \in B /\ "/" \in B /\ Range(r.user) \subseteq B /\ Range(r.arg) \subseteq B
    BY Zenon
  <2>2. \A n \in Range(r.path) : Range(n) \subseteq B
    OBVIOUS
  <2> HIDE DEF B
  <2> QED
    BY <1>8, <2>1, <2>2
<1> HIDE DEF B, C
<1>10. r.user \in Seq(Black(C)) /\ r.arg \in Seq(Black(C))
  BY <1>2, <1>9, SeqMonotonic
<1>11. ASSUME NEW n \in Range(r.path) PROVE n \in Names(Black(C))
  <2>1. n \in Seq(Range(n)) /\ Range(n) \subseteq Black(C)
    BY <1>2, <1>9
  <2>2. n \in Seq(Black(C))
    BY <2>1, SeqMonotonic
  <2>3. \A i \in DOMAIN n : n[i] # "/"
    BY <1>3 DEF Range
  <2>4. Free(n, {"/"})
    BY <2>3 DEF Free
  <2> QED
    BY <2>2, <2>4 DEF Names
<1>12. r.path \in Seq(Names(Black(C)))
  <2>1. Range(r.path) \subseteq Names(Black(C))
    BY <1>11
  <2> QED
    BY <1>2, <2>1, SeqMonotonic
<1>13. x \in C
  BY DEF C
<1> QED
  BY <1>1, <1>9, <1>10, <1>12, <1>13

\* The checks of the argument, for deletions and for the others.
LEMMA ArgumentCases ==
  ASSUME NEW w
  PROVE  /\ w[1] = <<"FS_DELETE">> => ArgumentAccepted(w)
         /\ w[1] # <<"FS_DELETE">> =>
              (ArgumentAccepted(w) <=>
                 /\ Len(w) >= 4
                 /\ w[1] = <<"FS_CREATE">> => w[4] \in {<<"f">>, <<"d">>}
                 /\ w[1] # <<"FS_CREATE">> => isblock(w[4]) /\ stoi(w[4]) < MaxFileBlocks)
  BY Zenon DEF ArgumentAccepted

\* What is accepted is legal: a user and names that are not empty and not too
\* long, a path within its limit, an argument if there has to be one.
LEMMA AcceptedLegal ==
  ASSUME NEW C, NEW s \in Seq(C), Dispatched(s), ArgumentAccepted(Words(s)), path_parser(Words(s)[3])
  PROVE  Legal(Parsed(Words(s))) /\ Parsed(Words(s)).type \in {"FS_READBLOCK", "FS_WRITEBLOCK", "FS_CREATE", "FS_DELETE"}
<1> DEFINE B == C \cup {"/"}
<1>1. PICK w : w = Words(s)
  OBVIOUS
<1>2. w \in Seq(WordsOf(B))
  <2>1. s \in Seq(B)
    <3>1. C \subseteq B
      OBVIOUS
    <3> HIDE DEF B
    <3> QED
      BY <3>1, SeqMonotonic
  <2> HIDE DEF B
  <2> QED
    BY <1>1, <2>1, WordsFacts
<1> HIDE DEF B
<1>3. /\ Len(w) \in Nat /\ Len(w) >= 3 /\ Len(w[2]) <= MaxUserName /\ Len(w[3]) <= MaxPathName
      /\ w[1] \in {<<"FS_READBLOCK">>, <<"FS_WRITEBLOCK">>, <<"FS_CREATE">>, <<"FS_DELETE">>}
  BY <1>1, <1>2, LenProperties DEF Dispatched, check_request_type
<1>4. \A k \in 1 .. Len(w) : w[k] \in Seq(B) /\ w[k] # <<>> /\ Len(w[k]) \in Nat \ {0}
  <2>1. SUFFICES ASSUME NEW k \in 1 .. Len(w) PROVE w[k] \in Seq(B) /\ w[k] # <<>> /\ Len(w[k]) \in Nat \ {0}
    OBVIOUS
  <2>2. w[k] \in WordsOf(B)
    BY <1>2, ElementOfSeq
  <2>3. w[k] \in Seq(B) /\ w[k] # <<>>
    BY <2>2 DEF WordsOf
  <2> QED
    BY <2>3, EmptySeq
<1>5. 2 \in 1 .. Len(w) /\ 3 \in 1 .. Len(w)
  BY <1>3
<1>6. PICK p : p = PathNames(w[3])
  OBVIOUS
<1>7. p \in Seq(Names(B)) /\ p # <<>> /\ Pathname(p) = w[3] /\ \A n \in Range(p) : Len(n) \in 1 .. MaxFileName
  <2>1. PICK v : v = w[3]
    OBVIOUS
  <2>2. v \in Seq(B) /\ v # <<>> /\ "/" \in B
    BY <1>4, <1>5, <2>1 DEF B
  <2>3. Head(v) = "/" /\ \A n \in Range(p) : Len(n) \in 1 .. MaxFileName
    BY <1>1, <1>6, <2>1 DEF path_parser, PathNames
  <2>4. PathNames(v) \in Seq(Names(B)) /\ PathNames(v) # <<>> /\ Pathname(PathNames(v)) = v
    BY <2>2, <2>3, NamesOfPath
  <2> QED
    BY <1>6, <2>1, <2>3, <2>4
<1>8. \A i \in DOMAIN p : Len(p[i]) \in 1 .. MaxFileName
  BY <1>7 DEF Range
<1>9. Len(w[2]) \in 1 .. MaxUserName
  <2>1. Len(w[2]) \in Nat \ {0}
    BY <1>4, <1>5
  <2> QED
    BY <1>3, <2>1, SizesAssumption
<1>10. PICK g : g = IF w[1] = <<"FS_DELETE">> THEN <<>> ELSE w[4]
  OBVIOUS
<1>11. \/ w[1] = <<"FS_DELETE">> /\ g = <<>>
       \/ w[1] = <<"FS_CREATE">> /\ g \in {<<"f">>, <<"d">>}
       \/ /\ w[1] \in {<<"FS_READBLOCK">>, <<"FS_WRITEBLOCK">>}
          /\ Len(g) \in 1 .. 3 /\ Range(g) \subseteq Digit /\ stoi(g) < MaxFileBlocks
  <2>1. CASE w[1] = <<"FS_DELETE">>
    BY <1>10, <2>1
  <2>2. CASE w[1] # <<"FS_DELETE">>
    <3>1. Len(w) >= 4 /\ g = w[4]
      <4>1. Len(w) >= 4
        BY <1>1, <2>2, ArgumentCases, Zenon
      <4> QED
        BY <1>3, <1>10, <2>2, <4>1
    <3>2. Len(g) \in Nat \ {0}
      <4>1. 4 \in 1 .. Len(w)
        BY <1>3, <3>1
      <4> QED
        BY <1>4, <3>1, <4>1
    <3>3. CASE w[1] = <<"FS_CREATE">>
      <4>1. w[4] \in {<<"f">>, <<"d">>}
        BY <1>1, <2>2, <3>3, ArgumentCases, Zenon
      <4> QED
        BY <3>1, <3>3, <4>1
    <3>4. CASE w[1] # <<"FS_CREATE">>
      <4>1. isblock(w[4]) /\ stoi(w[4]) < MaxFileBlocks
        BY <1>1, <2>2, <3>4, ArgumentCases, Zenon
      <4>2. Len(g) <= 3 /\ Range(g) \subseteq Digit
        BY <3>1, <4>1 DEF isblock
      <4> QED
        <5>1. stoi(g) < MaxFileBlocks /\ Len(g) \in 1 .. 3
          <6>1. PICK k : k = Len(g)
            OBVIOUS
          <6>2. k \in Nat \ {0} /\ k <= 3
            BY <3>2, <4>2, <6>1
          <6>3. k \in 1 .. 3
            BY <6>2
          <6> QED
            BY <3>1, <4>1, <6>1, <6>3
        <5> HIDE DEF stoi
        <5> QED
          BY <1>3, <2>2, <3>4, <4>2, <5>1
    <3> QED
      BY <3>3, <3>4
  <2> QED
    BY <2>1, <2>2
<1>12. PICK t : t = w[1][1]
  OBVIOUS
<1>13. /\ w[1] = <<"FS_DELETE">> => t = "FS_DELETE"
       /\ w[1] = <<"FS_CREATE">> => t = "FS_CREATE"
       /\ w[1] = <<"FS_READBLOCK">> => t = "FS_READBLOCK"
       /\ w[1] = <<"FS_WRITEBLOCK">> => t = "FS_WRITEBLOCK"
  BY <1>12
<1>14. Parsed(w) = [type |-> t, user |-> w[2], path |-> p, arg |-> g]
  BY <1>6, <1>10, <1>12 DEF Parsed
<1>15. /\ Parsed(w).type = t /\ Parsed(w).user = w[2] /\ Parsed(w).path = p /\ Parsed(w).arg = g
  BY <1>14
<1>16. Len(Pathname(p)) <= MaxPathName
  BY <1>3, <1>7
<1>17. \/ t = "FS_DELETE" /\ g = <<>>
       \/ t = "FS_CREATE" /\ g \in {<<"f">>, <<"d">>}
       \/ /\ t \in {"FS_READBLOCK", "FS_WRITEBLOCK"}
          /\ Len(g) \in 1 .. 3 /\ Range(g) \subseteq Digit /\ stoi(g) < MaxFileBlocks
  BY <1>11, <1>13
<1> HIDE DEF Parsed, stoi
<1>18. Legal(Parsed(w))
  BY <1>7, <1>8, <1>9, <1>15, <1>16, <1>17 DEF Legal
<1>19. Parsed(w).type \in {"FS_READBLOCK", "FS_WRITEBLOCK", "FS_CREATE", "FS_DELETE"}
  BY <1>15, <1>17
<1> QED
  BY <1>1, <1>18, <1>19

\* A legal request is accepted and understood, and its header is not too long.
LEMMA LegalAccepted ==
  ASSUME NEW r \in Request, Legal(r)
  PROVE  /\ \E C : Line(r) \in Seq(C)
         /\ Free(Line(r), {"NUL"}) /\ Len(Line(r)) <= max_header_len
         /\ Dispatched(Line(r)) /\ ArgumentAccepted(Words(Line(r)))
         /\ path_parser(Words(Line(r))[3]) /\ Parsed(Words(Line(r))) = r
<1>1. PICK C : \E x \in C :
        /\ x = " " /\ x \in Space /\ x # "NUL" /\ "/" \in Black(C)
        /\ r.type \in Black(C) /\ r.user \in Seq(Black(C)) /\ r.path \in Seq(Names(Black(C)))
        /\ r.arg \in Seq(Black(C))
  BY RequestText
<1>2. PICK x \in C :
        /\ x = " " /\ x \in Space /\ x # "NUL" /\ "/" \in Black(C)
        /\ r.type \in Black(C) /\ r.user \in Seq(Black(C)) /\ r.path \in Seq(Names(Black(C)))
        /\ r.arg \in Seq(Black(C))
  BY <1>1
<1>3. PICK a, u, p, g : a = r.type /\ u = r.user /\ p = Pathname(r.path) /\ g = r.arg
  OBVIOUS
<1>4. /\ x \in Space /\ x # "NUL" /\ a \in Black(C) /\ u \in Seq(Black(C)) /\ g \in Seq(Black(C))
  BY <1>2, <1>3, Zenon
<1>5. /\ Len(u) \in 1 .. MaxUserName /\ Len(p) <= MaxPathName
      /\ \/ a = "FS_DELETE" /\ g = <<>>
         \/ a = "FS_CREATE" /\ g \in {<<"f">>, <<"d">>}
         \/ /\ a \in {"FS_READBLOCK", "FS_WRITEBLOCK"}
            /\ Len(g) \in 1 .. 3 /\ Range(g) \subseteq Digit /\ stoi(g) < MaxFileBlocks
  BY <1>3 DEF Legal
<1>6. p \in Seq(Black(C)) /\ p # <<>> /\ path_parser(p) /\ PathNames(p) = r.path
  <2>1. r.path # <<>> /\ \A i \in DOMAIN r.path : Len(r.path[i]) \in 1 .. MaxFileName
    BY DEF Legal
  <2>2. PICK q : q = r.path
    OBVIOUS
  <2>3. "/" \in Black(C) /\ q \in Seq(Names(Black(C))) /\ q # <<>> /\ \A i \in DOMAIN q : Len(q[i]) \in 1 .. MaxFileName
    BY <1>2, <2>1, <2>2, Zenon
  <2>4. Pathname(q) \in Seq(Black(C)) /\ Pathname(q) # <<>> /\ path_parser(Pathname(q)) /\ PathNames(Pathname(q)) = q
    BY <2>3, PathAccepted
  <2> QED
    BY <1>3, <2>2, <2>4
<1>7. u # <<>>
  BY <1>5, EmptySeq
<1>8. PICK s : s = (((<<a>> \o <<x>>) \o u) \o <<x>>) \o p
  OBVIOUS
<1>9. PICK t : t = (s \o <<x>>) \o g
  OBVIOUS
<1>10. /\ s \in Seq(C) /\ Free(s, {"NUL"}) /\ Words(s) = <<<<a>>, u, p>>
       /\ Len(s) = 1 + 1 + Len(u) + 1 + Len(p) /\ Cardinality(Places(s, x)) = 2
  BY <1>4, <1>6, <1>7, <1>8, LineOfWords
<1>11. ASSUME g # <<>>
       PROVE  /\ t \in Seq(C) /\ Free(t, {"NUL"}) /\ Words(t) = <<<<a>>, u, p, g>>
              /\ Len(t) = 1 + 1 + Len(u) + 1 + Len(p) + 1 + Len(g) /\ Cardinality(Places(t, x)) = 3
  <2>0. t \in Seq(C)
    BY <1>4, <1>6, <1>7, <1>8, <1>9, <1>11, LineOfWords
  <2>4. Free(t, {"NUL"})
    BY <1>4, <1>6, <1>7, <1>8, <1>9, <1>11, LineOfWords
  <2>1. Words(t) = <<<<a>>, u, p, g>>
    BY <1>4, <1>6, <1>7, <1>8, <1>9, <1>11, LineOfWords
  <2>2. Len(t) = 1 + 1 + Len(u) + 1 + Len(p) + 1 + Len(g)
    BY <1>4, <1>6, <1>7, <1>8, <1>9, <1>11, LineOfWords
  <2>3. Cardinality(Places(t, x)) = 3
    BY <1>4, <1>6, <1>7, <1>8, <1>9, <1>11, LineOfWords
  <2> QED
    BY <2>0, <2>1, <2>2, <2>3, <2>4
<1>12. Line(r) = IF g = <<>> THEN s ELSE t
  <2>1. PICK y : y = (((<<a>> \o <<x>>) \o u) \o <<x>>)
    OBVIOUS
  <2>2. <<a, x>> = <<a>> \o <<x>>
    OBVIOUS
  <2>3. s \o <<>> = s
    BY <1>10, ConcatEmptySeq
  <2>4. (s \o <<x>>) \o g = s \o (<<x>> \o g)
    <3>1. s \in Seq(C) /\ <<x>> \in Seq(C)
      BY <1>10
    <3>2. g \in Seq(C)
      BY <1>4, BlackText
    <3> QED
      BY <3>1, <3>2, ConcatAssociative
  <2>5. Line(r) = s \o (IF g = <<>> THEN <<>> ELSE <<x>> \o g)
    BY <1>2, <1>3, <1>8, <2>2, Zenon DEF Line
  <2> QED
    BY <1>9, <2>3, <2>4, <2>5
<1>13. PICK l : l = Line(r)
  OBVIOUS
<1>14. Len(u) \in Nat /\ Len(p) \in Nat /\ Len(g) \in Nat
  BY <1>4, <1>6, LenProperties
<1>15. g = <<>> \/ Len(g) \in 1 .. 3
  BY <1>5
<1>16. l \in Seq(C) /\ Free(l, {"NUL"}) /\ Len(l) <= max_header_len
  <2>0. Len(u) <= MaxUserName /\ Len(p) <= MaxPathName /\ MaxUserName \in Nat /\ MaxPathName \in Nat
    BY <1>5, SizesAssumption
  <2>1. 1 + 1 + Len(u) + 1 + Len(p) <= max_header_len
    BY <1>14, <2>0 DEF max_header_len
  <2>2. Len(g) \in 1 .. 3 => 1 + 1 + Len(u) + 1 + Len(p) + 1 + Len(g) <= max_header_len
    <3>1. PICK k, m, n : k = Len(u) /\ m = Len(p) /\ n = Len(g)
      OBVIOUS
    <3>2. k \in Nat /\ m \in Nat /\ n \in Nat /\ k <= MaxUserName /\ m <= MaxPathName
      BY <1>14, <2>0, <3>1
    <3>3. n \in 1 .. 3 => 1 + 1 + k + 1 + m + 1 + n <= 1 + MaxUserName + MaxPathName + 3 + 3
      BY <2>0, <3>2
    <3> QED
      BY <3>1, <3>3 DEF max_header_len
  <2>3. CASE g = <<>>
    BY <1>10, <1>12, <1>13, <2>1, <2>3
  <2>4. CASE g # <<>>
    BY <1>11, <1>12, <1>13, <1>15, <2>2, <2>4
  <2> QED
    BY <2>3, <2>4
<1>17. find_space(l) = Cardinality(Places(l, x))
  BY <1>2, Zenon DEF find_space, Places
<1>18. PICK w : w = Words(l)
  OBVIOUS
<1>19. /\ Len(w) >= 3 /\ w[1] = <<a>> /\ w[2] = u /\ w[3] = p
       /\ g = <<>> => find_space(l) = 2
       /\ g # <<>> => Len(w) = 4 /\ w[4] = g /\ find_space(l) = 3
  <2>1. CASE g = <<>>
    <3>1. w = <<<<a>>, u, p>>
      BY <1>10, <1>12, <1>13, <1>18, <2>1
    <3> QED
      BY <1>10, <1>12, <1>13, <1>17, <2>1, <3>1
  <2>2. CASE g # <<>>
    <3>1. w = <<<<a>>, u, p, g>>
      BY <1>11, <1>12, <1>13, <1>18, <2>2
    <3> QED
      BY <1>11, <1>12, <1>13, <1>17, <2>2, <3>1
  <2> QED
    BY <2>1, <2>2
<1>20. /\ a = "FS_DELETE" => g = <<>>
       /\ a # "FS_DELETE" => g # <<>>
       /\ a \in {"FS_DELETE", "FS_CREATE", "FS_READBLOCK", "FS_WRITEBLOCK"}
  BY <1>5, EmptySeq
<1>21. /\ w[1] = <<"FS_DELETE">> <=> a = "FS_DELETE"
       /\ w[1] = <<"FS_CREATE">> <=> a = "FS_CREATE"
       /\ w[1][1] = a
  BY <1>19
<1>22. Dispatched(l)
  <2>1. check_request_type(w[1], l)
    BY <1>19, <1>20 DEF check_request_type
  <2>2. Len(w[2]) <= MaxUserName /\ Len(w[3]) <= MaxPathName
    BY <1>5, <1>19
  <2> QED
    BY <1>18, <1>19, <2>1, <2>2 DEF Dispatched
<1>23. ArgumentAccepted(w)
  <2>1. CASE a = "FS_DELETE"
    BY <1>21, <2>1, ArgumentCases, Zenon
  <2>2. CASE a = "FS_CREATE"
    <3>1. w[1] # <<"FS_DELETE">> /\ w[1] = <<"FS_CREATE">> /\ Len(w) >= 4 /\ w[4] \in {<<"f">>, <<"d">>}
      <4>1. a # "FS_DELETE" /\ a # "FS_READBLOCK" /\ a # "FS_WRITEBLOCK"
        BY <2>2
      <4>2. g \in {<<"f">>, <<"d">>}
        BY <1>5, <4>1
      <4>3. Len(w) = 4 /\ w[4] = g
        BY <1>19, <1>20, <4>1
      <4>4. Len(w) >= 4
        BY <4>3
      <4>5. w[1] # <<"FS_DELETE">> /\ w[1] = <<"FS_CREATE">>
        BY <1>21, <2>2, <4>1
      <4> QED
        BY <4>2, <4>3, <4>4, <4>5
    <3> QED
      BY <3>1, ArgumentCases, Zenon
  <2>3. CASE a \in {"FS_READBLOCK", "FS_WRITEBLOCK"}
    <3>1. w[1] # <<"FS_DELETE">> /\ w[1] # <<"FS_CREATE">> /\ Len(w) >= 4 /\ isblock(w[4]) /\ stoi(w[4]) < MaxFileBlocks
      <4>1. a # "FS_DELETE" /\ a # "FS_CREATE"
        BY <2>3
      <4>2. Len(g) \in 1 .. 3 /\ Range(g) \subseteq Digit /\ stoi(g) < MaxFileBlocks
        BY <1>5, <4>1
      <4>3. Len(w) = 4 /\ w[4] = g
        BY <1>19, <1>20, <4>1
      <4>4. isblock(g)
        <5>1. PICK k : k = Len(g)
          OBVIOUS
        <5>2. k \in 1 .. 3
          BY <4>2, <5>1
        <5>3. k <= 3
          BY <5>2
        <5> QED
          BY <4>2, <5>1, <5>3 DEF isblock
      <4>5. w[1] # <<"FS_DELETE">> /\ w[1] # <<"FS_CREATE">>
        BY <1>21, <4>1
      <4>6. Len(w) >= 4
        BY <4>3
      <4> QED
        BY <4>2, <4>3, <4>4, <4>5, <4>6, Zenon
    <3> HIDE DEF stoi
    <3> QED
      BY <3>1, ArgumentCases, Zenon
  <2> QED
    BY <1>20, <2>1, <2>2, <2>3
<1>24. Parsed(w) = r
  <2>1. Parsed(w) = [type |-> a, user |-> u, path |-> r.path, arg |-> g]
    <3>1. (IF w[1] = <<"FS_DELETE">> THEN <<>> ELSE w[4]) = g
      BY <1>19, <1>20, <1>21
    <3>2. w[1][1] = a /\ w[2] = u /\ PathNames(w[3]) = r.path
      BY <1>6, <1>19, <1>21
    <3> QED
      BY <3>1, <3>2 DEF Parsed
  <2>2. r = [type |-> r.type, user |-> r.user, path |-> r.path, arg |-> r.arg]
    BY RequestAssumption, Zenon
  <2> QED
    BY <1>3, <2>1, <2>2
<1> QED
  BY <1>6, <1>13, <1>16, <1>18, <1>19, <1>22, <1>23, <1>24

-----------------------------------------------------------------------------
(* The block of a write *)

\* The stages of a connection.
Stages == {"none", "queued", "header", "data", "handling", "answering", "closed"}

\* The part of the state that the block of a write depends on.
BlockType ==
  /\ stage \in [Connection -> Stages]
  /\ peer \in [Connection -> {"open", "finished", "reset"}]
  /\ DOMAIN request = Connection /\ request = [c \in Connection |-> request[c]]
  /\ recvd \in [Connection -> 0..BlockSize]

\* Together with the property it is inductive.
BlockInv == BlockType /\ WholeBlocks

USE SizesAssumption

\* A request that goes on without a block is not a write.
LEMMA OnlyWritesTakeData ==
  ASSUME NEW s, NEW w, w = Words(s), Dispatched(s), w[1] # <<"FS_WRITEBLOCK">>
  PROVE  Parsed(w).type # "FS_WRITEBLOCK"
<1>1. w[1] \in {<<"FS_READBLOCK">>, <<"FS_CREATE">>, <<"FS_DELETE">>}
  BY DEF Dispatched, check_request_type
<1>2. Parsed(w).type = w[1][1]
  BY DEF Parsed
<1> QED
  BY <1>1, <1>2

\* At the start nothing is read or sent.
LEMMA BlockInit == Init => BlockInv
  BY DEF Init, BlockInv, BlockType, WholeBlocks, Stages, NoRequest

\* Closing a connection takes its thread out of the handler.
LEMMA CloseKeeps ==
  ASSUME BlockInv, NEW c \in Connection, Close(c)
  PROVE  BlockInv'
  BY DEF Close, BlockInv, BlockType, WholeBlocks, Stages

\* The end of the server.
LEMMA TerminateKeeps == ASSUME BlockInv, Terminate PROVE BlockInv'
  BY DEF Terminate, BlockInv, BlockType, WholeBlocks, Stages

\* The header of a request is read up to its end, or the connection fails.
LEMMA HeaderKeeps ==
  ASSUME BlockInv, NEW c \in Connection, HeaderCharacter(c) \/ HeaderEnds(c) \/ HeaderFails(c)
  PROVE  BlockInv'
<1>1. CASE HeaderCharacter(c)
  <2>1. CASE Close(c)
    BY <2>1, CloseKeeps
  <2>2. CASE UNCHANGED <<server, stage, peer, stream, request, recvd, sent>>
    BY <2>2 DEF BlockInv, BlockType, WholeBlocks
  <2> QED
    BY <1>1, <2>1, <2>2 DEF HeaderCharacter
<1>2. CASE HeaderEnds(c)
  <2>1. CASE Close(c)
    BY <2>1, CloseKeeps
  <2>2. CASE /\ Dispatched(header[c])
             /\ request' = [request EXCEPT ![c] = Parsed(Words(header[c]))]
             /\ stage' = [stage EXCEPT ![c] = IF Words(header[c])[1] = <<"FS_WRITEBLOCK">>
                                              THEN "data" ELSE "handling"]
             /\ UNCHANGED <<server, peer, stream, recvd, sent>>
    <3>1. BlockType'
      BY <2>2 DEF BlockInv, BlockType, Stages
    <3>2. stage'[c] = "handling" => request'[c].type # "FS_WRITEBLOCK"
      <4>1. request'[c] = Parsed(Words(header[c]))
        BY <2>2 DEF BlockInv, BlockType
      <4>2. stage'[c] = "handling" => Words(header[c])[1] # <<"FS_WRITEBLOCK">>
        BY <2>2 DEF BlockInv, BlockType
      <4> QED
        BY <2>2, <4>1, <4>2, OnlyWritesTakeData
    <3>3. stage'[c] \in {"data", "handling"}
      BY <2>2 DEF BlockInv, BlockType
    <3>4. \A b \in Connection \ {c} : UNCHANGED <<stage[b], peer[b], request[b], recvd[b]>>
      BY <2>2 DEF BlockInv, BlockType
    <3> QED
      BY <3>1, <3>2, <3>3, <3>4 DEF BlockInv, WholeBlocks
  <2> QED
    BY <1>2, <2>1, <2>2 DEF HeaderEnds
<1>3. CASE HeaderFails(c)
  BY <1>3, CloseKeeps, TerminateKeeps DEF HeaderFails
<1> QED
  BY <1>1, <1>2, <1>3

\* recv never returns more than the rest of the block, so the loop ends with
\* exactly a block, unless the client ends first.
LEMMA DataKeeps ==
  ASSUME BlockInv, NEW c \in Connection, Data(c) \/ DataFails(c)
  PROVE  BlockInv'
<1>1. CASE Data(c)
  <2>1. PICK n \in 1..Room(c) :
          /\ recvd' = [recvd EXCEPT ![c] = @ + n]
          /\ IF recvd[c] + n >= BlockSize THEN DataEnds(c) ELSE UNCHANGED stage
    BY <1>1 DEF Data
  <2>2. recvd'[c] = recvd[c] + n /\ recvd'[c] \in 0..BlockSize
    BY <2>1 DEF Room, BlockInv, BlockType
  <2>3. stage'[c] \in {"handling", "answering"} => recvd'[c] = BlockSize
    <3>1. stage[c] = "data"
      BY <1>1 DEF Data
    <3> QED
      BY <2>1, <2>2, <3>1 DEF BlockInv, BlockType
  <2>4. BlockType'
    <3>1. recvd' \in [Connection -> 0..BlockSize]
      BY <2>1, <2>2 DEF BlockInv, BlockType
    <3>2. stage' \in [Connection -> Stages]
      BY <2>1 DEF DataEnds, BlockInv, BlockType, Stages
    <3>3. UNCHANGED <<peer, request>>
      BY <1>1 DEF Data
    <3> QED
      BY <3>1, <3>2, <3>3 DEF BlockInv, BlockType
  <2>5. \A b \in Connection \ {c} : UNCHANGED <<stage[b], peer[b], request[b], recvd[b]>>
    BY <1>1, <2>1 DEF Data, DataEnds, BlockInv, BlockType
  <2> QED
    BY <2>3, <2>4, <2>5 DEF BlockInv, WholeBlocks
<1>2. CASE DataFails(c)
  <2>1. CASE Terminate
    BY <2>1, TerminateKeeps
  <2>2. CASE peer[c] = "finished" /\ DataEnds(c) /\ UNCHANGED <<server, peer, stream, inbox, header, request, recvd, sent>>
    <3>1. BlockType'
      BY <2>2 DEF DataEnds, BlockInv, BlockType, Stages
    <3>2. \A b \in Connection \ {c} : UNCHANGED <<stage[b], peer[b], request[b], recvd[b]>>
      BY <2>2 DEF DataEnds, BlockInv, BlockType
    <3>3. recvd'[c] = BlockSize \/ (recvd'[c] < BlockSize /\ peer'[c] # "open")
      BY <2>2 DEF BlockInv, BlockType
    <3> QED
      BY <3>1, <3>2, <3>3 DEF BlockInv, WholeBlocks
  <2> QED
    BY <1>2, <2>1, <2>2 DEF DataFails
<1> QED
  BY <1>1, <1>2

\* A request is refused, or answered and the answer sent or not.
LEMMA AnswerKeeps ==
  ASSUME BlockInv, NEW c \in Connection, Refuse(c) \/ Answer(c) \/ Send(c) \/ SendFails(c)
  PROVE  BlockInv'
<1>1. CASE Refuse(c)
  BY <1>1, CloseKeeps DEF Refuse
<1>2. CASE Answer(c)
  BY <1>2 DEF Answer, BlockInv, BlockType, WholeBlocks, Stages
<1>3. CASE Send(c)
  BY <1>3 DEF Send, BlockInv, BlockType, WholeBlocks, Stages
<1>4. CASE SendFails(c)
  BY <1>4 DEF SendFails, BlockInv, BlockType, WholeBlocks
<1> QED
  BY <1>1, <1>2, <1>3, <1>4

\* A client connects, sends, ends its request or resets the connection.
LEMMA ClientKeeps ==
  ASSUME BlockInv, NEW c \in Connection, Client(c)
  PROVE  BlockInv'
<1>1. CASE Connect(c)
  BY <1>1 DEF Connect, BlockInv, BlockType, WholeBlocks, Stages
<1>2. CASE ClientEnds(c)
  BY <1>2 DEF ClientEnds, BlockInv, BlockType, WholeBlocks
<1>3. CASE Reset(c)
  BY <1>3 DEF Reset, BlockInv, BlockType, WholeBlocks
<1> QED
  BY <1>1, <1>2, <1>3 DEF Client

\* The block that handle_writeblock gives to the file system is complete and
\* nothing else, or the client has ended before it was (file_server.cpp:403-416).
THEOREM BlocksWhole == Spec => []WholeBlocks
<1>1. BlockInv /\ [Next]_vars => BlockInv'
  <2> SUFFICES ASSUME BlockInv, [Next]_vars PROVE BlockInv'
    OBVIOUS
  <2>1. CASE SetUp
    BY <2>1 DEF SetUp, BlockInv, BlockType, WholeBlocks
  <2>2. ASSUME NEW c \in Connection, Accept(c) PROVE BlockInv'
    BY <2>2 DEF Accept, BlockInv, BlockType, WholeBlocks, Stages
  <2>3. ASSUME NEW c \in Connection, Serve(c) PROVE BlockInv'
    BY <2>3, HeaderKeeps, DataKeeps, AnswerKeeps DEF Serve
  <2>4. ASSUME NEW c \in Connection, Client(c) PROVE BlockInv'
    BY <2>4, ClientKeeps
  <2>5. CASE UNCHANGED vars
    BY <2>5 DEF vars, BlockInv, BlockType, WholeBlocks
  <2> QED
    BY <2>1, <2>2, <2>3, <2>4, <2>5 DEF Next
<1>2. BlockInv => WholeBlocks
  BY DEF BlockInv
<1> QED
  BY BlockInit, <1>1, <1>2, PTL DEF Spec

-----------------------------------------------------------------------------
(* What a connection has read *)

\* The header passes all checks before the one of the path.
Accepted(s) == Dispatched(s) /\ ArgumentAccepted(Words(s))

\* The header is the beginning of the stream s up to its end, and the rest is
\* not yet read; the request is what the header says, and one of LegalRequests
\* if the stream begins with its header.
Reads(at, end, s, in, h, r) ==
  /\ h \in Seq(Range(s)) /\ Len(h) <= Len(s)
  /\ \A i \in 1 .. Len(h) : h[i] = s[i] /\ h[i] # "NUL"
  /\ at \in {"none", "queued", "header"} =>
       r = NoRequest /\ (in # <<>> => in = SubSeq(s, Len(h) + 1, Len(s)))
  /\ at = "data" => Accepted(h) /\ r = Parsed(Words(h))
  /\ at \in {"data", "handling", "answering"} => r # NoRequest
  /\ at \in {"handling", "answering"} => Legal(r)
  /\ r # NoRequest \/ (at = "closed" /\ end = "open") =>
       \A q \in LegalRequests : IsPrefix(q.header, s) => r = q.is

\* A stream that begins with the header of a legal request.
LEMMA BeginsWithLine ==
  ASSUME NEW s, s \in Seq(Range(s)), NEW q \in LegalRequests, IsPrefix(q.header, s)
  PROVE  \E C : \E l \in Seq(C) :
           /\ l = Line(q.is) /\ q.is \in Request /\ Legal(q.is)
           /\ Len(l) \in Nat /\ Len(l) <= max_header_len
           /\ Len(l) + 1 <= Len(s) /\ s[Len(l) + 1] = "NUL"
           /\ \A i \in 1 .. Len(l) : l[i] = s[i] /\ s[i] # "NUL"
<1>1. PICK r \in Request : Legal(r) /\ q = [is |-> r, header |-> Encoded(r)]
  BY DEF LegalRequests
<1>2. q.is = r /\ q.header = Encoded(r)
  BY <1>1
<1>3. PICK C : Line(r) \in Seq(C)
  BY <1>1, LegalAccepted
<1>4. PICK l : l = Line(r)
  OBVIOUS
<1>5. Free(l, {"NUL"}) /\ Len(l) <= max_header_len
  BY <1>1, <1>4, LegalAccepted
<1> DEFINE D == C \cup Range(s) \cup {"NUL"}
<1>6. l \in Seq(D) /\ s \in Seq(D) /\ "NUL" \in D
  <2>1. C \subseteq D /\ Range(s) \subseteq D /\ "NUL" \in D
    OBVIOUS
  <2> HIDE DEF D
  <2> QED
    BY <1>3, <1>4, <2>1, SeqMonotonic
<1> HIDE DEF D
<1>7. Len(l) \in Nat /\ Len(s) \in Nat /\ DOMAIN l = 1 .. Len(l)
  BY <1>6, LenProperties
<1>8. PICK e : e = Append(l, "NUL")
  OBVIOUS
<1>9. /\ e \in Seq(D) /\ Len(e) = Len(l) + 1 /\ e[Len(l) + 1] = "NUL"
      /\ \A i \in 1 .. Len(l) : e[i] = l[i]
  BY <1>6, <1>8, AppendProperties
<1>10. q.header = e
  BY <1>2, <1>4, <1>6, <1>8, AppendIsConcat DEF Encoded
<1>11. Len(e) <= Len(s) /\ SubSeq(e, 1, Len(e)) = SubSeq(s, 1, Len(e))
  BY <1>10 DEF IsPrefix
<1>12. \A i \in 1 .. Len(l) + 1 : e[i] = s[i]
  <2>1. PICK n \in Nat : n = Len(l) + 1 /\ n = Len(e) /\ n <= Len(s)
    BY <1>7, <1>9, <1>11
  <2>2. e = SubSeq(s, 1, n)
    BY <1>9, <1>11, <2>1, SubSeqFull
  <2>3. \A i \in 1 .. n : s[i] \in D
    BY <1>6, <1>7, <2>1, ElementOfSeq
  <2>4. \A i \in 1 .. n - 1 + 1 : SubSeq(s, 1, n)[i] = s[1 + i - 1]
    BY <2>3, SubSeqProperties
  <2> QED
    BY <2>1, <2>2, <2>4
<1>13. Len(l) + 1 <= Len(s) /\ s[Len(l) + 1] = "NUL"
  <2>1. Len(l) + 1 \in 1 .. Len(l) + 1
    BY <1>7
  <2> QED
    BY <1>9, <1>11, <1>12, <2>1
<1>14. \A i \in 1 .. Len(l) : l[i] = s[i] /\ s[i] # "NUL"
  <2>1. \A i \in 1 .. Len(l) : i \in 1 .. Len(l) + 1
    BY <1>7
  <2>2. \A i \in 1 .. Len(l) : l[i] # "NUL"
    BY <1>5, <1>7 DEF Free
  <2> QED
    BY <1>9, <1>12, <2>1, <2>2
<1> QED
  BY <1>1, <1>2, <1>3, <1>4, <1>5, <1>7, <1>13, <1>14

\* One more character of the header, and the end of it, are the next of the stream.
LEMMA NextOfStream ==
  ASSUME NEW s, s \in Seq(Range(s)), NEW h, h \in Seq(Range(s)), Len(h) <= Len(s),
         NEW in, in # <<>>, in = SubSeq(s, Len(h) + 1, Len(s))
  PROVE  /\ Len(h) \in Nat /\ Len(s) \in Nat /\ Len(h) + 1 <= Len(s)
         /\ Head(in) = s[Len(h) + 1] /\ Head(in) \in Range(s)
         /\ Tail(in) = SubSeq(s, (Len(h) + 1) + 1, Len(s))
<1>1. Len(h) \in Nat /\ Len(s) \in Nat /\ DOMAIN s = 1 .. Len(s)
  BY LenProperties
<1>2. PICK m \in Nat, n \in Nat : m = Len(h) + 1 /\ n = Len(s)
  <2>1. Len(h) + 1 \in Nat /\ Len(s) \in Nat
    BY <1>1
  <2> QED
    BY <2>1, Zenon
<1>3. m <= n
  <2>1. CASE n < m
    <3>1. SubSeq(s, m, n) = <<>>
      BY <2>1, SubSeqEmpty
    <3> QED
      BY <1>2, <3>1
  <2> QED
    BY <2>1
<1>4. m \in 1 .. n /\ n \in m .. n
  BY <1>1, <1>2, <1>3
<1>5. Head(SubSeq(s, m, n)) = s[m] /\ Tail(SubSeq(s, m, n)) = SubSeq(s, m + 1, n)
  <2>1. m \in 1 .. Len(s) /\ n \in m .. Len(s)
    BY <1>2, <1>4
  <2> QED
    BY <2>1, HeadTailOfSubSeq
<1>6. s[m] \in Range(s)
  BY <1>1, <1>2, <1>4 DEF Range
<1> QED
  BY <1>1, <1>2, <1>3, <1>5, <1>6

\* A header that has ended is the line of the request its stream begins with.
LEMMA HeaderIsLine ==
  ASSUME NEW s, s \in Seq(Range(s)), NEW h, h \in Seq(Range(s)),
         \A i \in 1 .. Len(h) : h[i] = s[i] /\ h[i] # "NUL",
         Len(h) + 1 <= Len(s), s[Len(h) + 1] = "NUL",
         NEW q \in LegalRequests, IsPrefix(q.header, s)
  PROVE  Accepted(h) /\ path_parser(Words(h)[3]) /\ Parsed(Words(h)) = q.is
<1>1. PICK C : \E l \in Seq(C) :
           /\ l = Line(q.is) /\ q.is \in Request /\ Legal(q.is)
           /\ Len(l) \in Nat /\ Len(l) <= max_header_len
           /\ Len(l) + 1 <= Len(s) /\ s[Len(l) + 1] = "NUL"
           /\ \A i \in 1 .. Len(l) : l[i] = s[i] /\ s[i] # "NUL"
  BY BeginsWithLine
<1>2. PICK l \in Seq(C) :
           /\ l = Line(q.is) /\ q.is \in Request /\ Legal(q.is)
           /\ Len(l) \in Nat /\ Len(l) <= max_header_len
           /\ Len(l) + 1 <= Len(s) /\ s[Len(l) + 1] = "NUL"
           /\ \A i \in 1 .. Len(l) : l[i] = s[i] /\ s[i] # "NUL"
  BY <1>1
<1>3. Len(h) \in Nat
  BY LenProperties
<1>4. Len(h) = Len(l)
  <2>1. ~(Len(h) < Len(l))
    <3>1. SUFFICES ASSUME Len(h) < Len(l) PROVE FALSE
      OBVIOUS
    <3>2. Len(h) + 1 \in 1 .. Len(l)
      BY <1>2, <1>3, <3>1
    <3> QED
      BY <1>2, <3>2
  <2>2. ~(Len(l) < Len(h))
    <3>1. SUFFICES ASSUME Len(l) < Len(h) PROVE FALSE
      OBVIOUS
    <3>2. Len(l) + 1 \in 1 .. Len(h)
      BY <1>2, <1>3, <3>1
    <3> QED
      BY <1>2, <3>2
  <2> QED
    BY <1>2, <1>3, <2>1, <2>2
<1>5. h = l
  <2> DEFINE D == C \cup Range(s)
  <2>1. C \subseteq D /\ Range(s) \subseteq D
    OBVIOUS
  <2> HIDE DEF D
  <2>2. h \in Seq(D) /\ l \in Seq(D)
    BY <2>1, SeqMonotonic
  <2>3. \A i \in 1 .. Len(h) : h[i] = l[i]
    BY <1>2, <1>4
  <2> QED
    BY <1>4, <2>2, <2>3, SeqEqual
<1>6. PICK r \in Request : r = q.is /\ Legal(r)
  BY <1>2
<1>7. /\ Dispatched(Line(r)) /\ ArgumentAccepted(Words(Line(r)))
      /\ path_parser(Words(Line(r))[3]) /\ Parsed(Words(Line(r))) = r
  BY <1>6, LegalAccepted
<1> QED
  BY <1>2, <1>5, <1>6, <1>7 DEF Accepted

\* One more character: the header is still the beginning of the stream, and if
\* it is too long for that the stream does not begin with a legal request.
LEMMA ReadsCharacter ==
  ASSUME NEW end, NEW s, s \in Seq(Range(s)), NEW in, NEW h, NEW r,
         Reads("header", end, s, in, h, r), in # <<>>, Head(in) # "NUL"
  PROVE  /\ Reads("header", end, s, Tail(in), Append(h, Head(in)), r)
         /\ Len(h) + 1 > max_header_len => Reads("closed", end, s, Tail(in), Append(h, Head(in)), r)
<1>1. /\ h \in Seq(Range(s)) /\ Len(h) <= Len(s)
      /\ \A i \in 1 .. Len(h) : h[i] = s[i] /\ h[i] # "NUL"
      /\ r = NoRequest /\ in = SubSeq(s, Len(h) + 1, Len(s))
  BY DEF Reads
<1>2. /\ Len(h) \in Nat /\ Len(s) \in Nat /\ Len(h) + 1 <= Len(s)
      /\ Head(in) = s[Len(h) + 1] /\ Head(in) \in Range(s)
      /\ Tail(in) = SubSeq(s, (Len(h) + 1) + 1, Len(s))
  BY <1>1, NextOfStream, SMTT(60)
<1>3. PICK x, v, g : x = Head(in) /\ v = Tail(in) /\ g = Append(h, Head(in))
  OBVIOUS
<1>4. /\ g \in Seq(Range(s)) /\ Len(g) = Len(h) + 1 /\ g[Len(h) + 1] = x
      /\ \A i \in 1 .. Len(h) : g[i] = h[i]
  BY <1>1, <1>2, <1>3, AppendProperties
<1>5. \A i \in 1 .. Len(g) : g[i] = s[i] /\ g[i] # "NUL"
  <2>1. \A i \in 1 .. Len(g) : i \in 1 .. Len(h) \/ i = Len(h) + 1
    BY <1>2, <1>4
  <2> QED
    BY <1>1, <1>2, <1>3, <1>4, <2>1
<1>6. Len(g) <= Len(s) /\ v = SubSeq(s, Len(g) + 1, Len(s))
  BY <1>2, <1>3, <1>4
<1>7. Reads("header", end, s, v, g, r)
  BY <1>1, <1>4, <1>5, <1>6 DEF Reads
<1>8. ASSUME Len(h) + 1 > max_header_len, NEW q \in LegalRequests, IsPrefix(q.header, s) PROVE FALSE
  <2>1. PICK C : \E l \in Seq(C) :
           /\ l = Line(q.is) /\ q.is \in Request /\ Legal(q.is)
           /\ Len(l) \in Nat /\ Len(l) <= max_header_len
           /\ Len(l) + 1 <= Len(s) /\ s[Len(l) + 1] = "NUL"
           /\ \A i \in 1 .. Len(l) : l[i] = s[i] /\ s[i] # "NUL"
    BY <1>8, BeginsWithLine
  <2>2. PICK n \in Nat : n <= max_header_len /\ s[n + 1] = "NUL"
    BY <2>1
  <2>3. max_header_len \in Nat
    BY SizesAssumption DEF max_header_len
  <2>4. n + 1 \in 1 .. Len(g)
    BY <1>2, <1>4, <1>8, <2>2, <2>3
  <2> QED
    BY <1>5, <2>2, <2>4
<1>9. Len(h) + 1 > max_header_len => Reads("closed", end, s, v, g, r)
  BY <1>1, <1>4, <1>5, <1>6, <1>8 DEF Reads
<1> QED
  BY <1>3, <1>7, <1>9

\* The end of the header: its request is legal, and if the stream begins with
\* a legal request it is this one; then it is not turned away.
LEMMA ReadsEnd ==
  ASSUME NEW end, NEW s, s \in Seq(Range(s)), NEW in, NEW h, NEW r,
         Reads("header", end, s, in, h, r), in # <<>>, Head(in) = "NUL",
         NEW w, w = Words(h)
  PROVE  /\ Accepted(h) /\ w[1] = <<"FS_WRITEBLOCK">> => Reads("data", end, s, Tail(in), h, Parsed(w))
         /\ Accepted(h) /\ path_parser(w[3]) => Reads("handling", end, s, Tail(in), h, Parsed(w))
         /\ ~(Accepted(h) /\ path_parser(w[3])) => Reads("closed", end, s, Tail(in), h, r)
<1>1. /\ h \in Seq(Range(s)) /\ Len(h) <= Len(s)
      /\ \A i \in 1 .. Len(h) : h[i] = s[i] /\ h[i] # "NUL"
      /\ r = NoRequest /\ in = SubSeq(s, Len(h) + 1, Len(s))
  BY DEF Reads
<1>2. Len(h) + 1 <= Len(s) /\ s[Len(h) + 1] = "NUL"
  <2>1. Len(h) + 1 <= Len(s) /\ Head(in) = s[Len(h) + 1]
    BY <1>1, NextOfStream, SMTT(60)
  <2> QED
    BY <2>1
<1>3. ASSUME NEW q \in LegalRequests, IsPrefix(q.header, s)
      PROVE  Accepted(h) /\ path_parser(w[3]) /\ Parsed(w) = q.is
  BY <1>1, <1>2, <1>3, HeaderIsLine
<1>4. Accepted(h) => Parsed(w) # NoRequest
  <2>1. SUFFICES ASSUME Accepted(h), Parsed(w) = NoRequest PROVE FALSE
    OBVIOUS
  <2>2. w[1] \in {<<"FS_READBLOCK">>, <<"FS_WRITEBLOCK">>, <<"FS_CREATE">>, <<"FS_DELETE">>}
    BY <2>1 DEF Accepted, Dispatched, check_request_type
  <2>3. w[1][1] # "none"
    BY <2>2
  <2>4. Parsed(w).type = w[1][1] /\ NoRequest.type = "none"
    BY DEF Parsed, NoRequest
  <2> QED
    BY <2>1, <2>3, <2>4
<1>5. Accepted(h) /\ path_parser(w[3]) => Legal(Parsed(w))
  BY <1>1, AcceptedLegal DEF Accepted
<1>6. PICK v, p : v = Tail(in) /\ p = Parsed(w)
  OBVIOUS
<1>7. Accepted(h) => Reads("data", end, s, v, h, p)
  BY <1>1, <1>3, <1>4, <1>6 DEF Reads
<1>8. Accepted(h) /\ path_parser(w[3]) => Reads("handling", end, s, v, h, p)
  BY <1>1, <1>3, <1>4, <1>5, <1>6 DEF Reads
<1>9. ~(Accepted(h) /\ path_parser(w[3])) => Reads("closed", end, s, v, h, r)
  BY <1>1, <1>3 DEF Reads
<1> QED
  BY <1>6, <1>7, <1>8, <1>9

\* A connection goes on, or is closed once its request is known or the client
\* has ended; what is not yet read may be lost.
LEMMA ReadsOn ==
  ASSUME NEW at, NEW end, NEW s, NEW in, NEW h, NEW r, Reads(at, end, s, in, h, r)
  PROVE  /\ at = "none" => Reads("queued", end, s, in, h, r)
         /\ at = "queued" => Reads("header", end, s, in, h, r)
         /\ at = "header" /\ end # "open" => Reads("closed", end, s, in, h, r)
         /\ at = "data" => \A v : Reads("data", end, s, v, h, r)
         /\ at = "data" => \A v : Reads("closed", end, s, v, h, r)
         /\ at = "data" /\ path_parser(Words(h)[3]) => \A v : Reads("handling", end, s, v, h, r)
         /\ at \in {"handling", "answering"} => Reads("answering", end, s, in, h, r) /\ Reads("closed", end, s, in, h, r)
         /\ Reads(at, "finished", s, in, h, r) /\ Reads(at, "reset", s, <<>>, h, r)
<1>1. at = "none" => Reads("queued", end, s, in, h, r)
  BY DEF Reads
<1>2. at = "queued" => Reads("header", end, s, in, h, r)
  BY DEF Reads
<1>3. at = "header" /\ end # "open" => Reads("closed", end, s, in, h, r)
  BY DEF Reads
<1>4. at = "data" => \A v : Reads("data", end, s, v, h, r)
  BY DEF Reads
<1>5. at = "data" => \A v : Reads("closed", end, s, v, h, r)
  BY DEF Reads
<1>6. at = "data" /\ path_parser(Words(h)[3]) => \A v : Reads("handling", end, s, v, h, r)
  <2>1. SUFFICES ASSUME at = "data", path_parser(Words(h)[3]), NEW v PROVE Reads("handling", end, s, v, h, r)
    OBVIOUS
  <2>2. Accepted(h) /\ r = Parsed(Words(h)) /\ h \in Seq(Range(s))
    BY <2>1 DEF Reads
  <2>3. Legal(r)
    BY <2>1, <2>2, AcceptedLegal DEF Accepted
  <2> QED
    BY <2>1, <2>3 DEF Reads
<1>7. at \in {"handling", "answering"} => Reads("answering", end, s, in, h, r) /\ Reads("closed", end, s, in, h, r)
  BY DEF Reads
<1>8. Reads(at, "finished", s, in, h, r) /\ Reads(at, "reset", s, <<>>, h, r)
  BY DEF Reads
<1> QED
  BY <1>1, <1>2, <1>3, <1>4, <1>5, <1>6, <1>7, <1>8

\* A variable has a value for each connection.
OfConnections(f) == f = [c \in Connection |-> f[c]]

\* What connection c has read.
Reading(c) == Reads(stage[c], peer[c], stream[c], inbox[c], header[c], request[c])

\* The inductive invariant about what all connections have read.
ReadInv ==
  /\ OfConnections(stage) /\ OfConnections(peer) /\ OfConnections(inbox)
  /\ OfConnections(header) /\ OfConnections(request)
  /\ \A c \in Connection : stream[c] \in Seq(Range(stream[c])) /\ Reading(c)

\* A change of the value for one connection.
LEMMA ChangeOfOne ==
  ASSUME NEW f, OfConnections(f), NEW c \in Connection, NEW v
  PROVE  LET g == [f EXCEPT ![c] = v] IN
         OfConnections(g) /\ g[c] = v /\ \A b \in Connection \ {c} : g[b] = f[b]
  BY DEF OfConnections

\* A step of one connection: only what it has read can change.
LEMMA OneReads ==
  ASSUME ReadInv, NEW c \in Connection, UNCHANGED stream,
         OfConnections(stage)', OfConnections(peer)', OfConnections(inbox)',
         OfConnections(header)', OfConnections(request)',
         \A b \in Connection \ {c} :
           UNCHANGED <<stage[b], peer[b], inbox[b], header[b], request[b]>>,
         Reads(stage'[c], peer'[c], stream[c], inbox'[c], header'[c], request'[c])
  PROVE  ReadInv'
<1>1. ASSUME NEW b \in Connection PROVE stream'[b] \in Seq(Range(stream'[b])) /\ Reading(b)'
  <2>1. stream'[b] \in Seq(Range(stream'[b]))
    BY DEF ReadInv
  <2>2. CASE b = c
    BY <2>1, <2>2 DEF Reading
  <2>3. CASE b # c
    <3>1. Reads(stage[b], peer[b], stream[b], inbox[b], header[b], request[b])
      BY DEF ReadInv, Reading
    <3>2. UNCHANGED <<stage[b], peer[b], inbox[b], header[b], request[b]>> /\ stream'[b] = stream[b]
      BY <2>3
    <3> QED
      BY <2>1, <3>1, <3>2 DEF Reading
  <2> QED
    BY <2>2, <2>3
<1> QED
  BY <1>1 DEF ReadInv

\* Steps that change the stage only, and steps that close.
LEMMA StageReads ==
  ASSUME ReadInv, NEW c \in Connection, NEW v, stage' = [stage EXCEPT ![c] = v],
         UNCHANGED <<peer, stream, inbox, header, request>>,
         Reads(v, peer[c], stream[c], inbox[c], header[c], request[c])
  PROVE  ReadInv'
<1>1. OfConnections(stage)' /\ stage'[c] = v /\ \A b \in Connection \ {c} : stage'[b] = stage[b]
  BY ChangeOfOne DEF ReadInv, OfConnections
<1>2. /\ OfConnections(peer)' /\ OfConnections(inbox)' /\ OfConnections(header)' /\ OfConnections(request)'
      /\ peer' = peer /\ inbox' = inbox /\ header' = header /\ request' = request
  BY DEF ReadInv, OfConnections
<1> QED
  BY <1>1, <1>2, OneReads

\* Steps that change nothing of all this.
LEMMA OtherReads == ASSUME ReadInv, UNCHANGED <<stage, peer, stream, inbox, header, request>> PROVE ReadInv'
  BY DEF ReadInv, Reading, OfConnections

\* At the start nothing is read.
LEMMA ReadInit == Init => ReadInv
<1>1. SUFFICES ASSUME Init PROVE ReadInv
  OBVIOUS
<1>2. /\ OfConnections(stage) /\ OfConnections(peer) /\ OfConnections(header) /\ OfConnections(request)
  BY <1>1 DEF Init, OfConnections
<1>3. /\ stream = [c \in Connection |-> stream[c]] /\ inbox = stream
      /\ \A c \in Connection : stream[c] \in Seq(Range(stream[c]))
  BY <1>1, StreamsAssumption DEF Init
<1>4. ASSUME NEW c \in Connection PROVE Reading(c)
  <2>1. /\ stage[c] = "none" /\ peer[c] = "open" /\ inbox[c] = stream[c]
        /\ header[c] = <<>> /\ request[c] = NoRequest
    BY <1>1 DEF Init
  <2>2. PICK s : s = stream[c]
    OBVIOUS
  <2>3. s \in Seq(Range(s))
    BY <1>3, <2>2
  <2>4. <<>> \in Seq(Range(s)) /\ Len(<<>>) = 0 /\ Len(s) \in Nat
    BY <2>3, EmptySeq, LenProperties
  <2>5. s = SubSeq(s, Len(<<>>) + 1, Len(s))
    BY <2>3, <2>4, SubSeqFull
  <2>6. Reads("none", "open", s, s, <<>>, NoRequest)
    BY <2>4, <2>5 DEF Reads
  <2> QED
    BY <2>1, <2>2, <2>6 DEF Reading
<1> QED
  BY <1>2, <1>3, <1>4 DEF ReadInv, OfConnections

\* The header is read up to its end, or the connection fails.
LEMMA HeaderReads ==
  ASSUME ReadInv, NEW c \in Connection, HeaderCharacter(c) \/ HeaderEnds(c) \/ HeaderFails(c)
  PROVE  ReadInv'
<1>1. /\ Reads(stage[c], peer[c], stream[c], inbox[c], header[c], request[c])
      /\ stream[c] \in Seq(Range(stream[c]))
      /\ OfConnections(stage) /\ OfConnections(peer) /\ OfConnections(inbox)
      /\ OfConnections(header) /\ OfConnections(request)
  BY DEF ReadInv, Reading
<1>2. CASE HeaderCharacter(c)
  <2>1. /\ stage[c] = "header" /\ inbox[c] # <<>> /\ Head(inbox[c]) # "NUL"
        /\ header' = [header EXCEPT ![c] = Append(header[c], Head(inbox[c]))]
        /\ inbox' = [inbox EXCEPT ![c] = Tail(inbox[c])]
        /\ \/ Len(header[c]) + 1 > max_header_len /\ Close(c)
           \/ UNCHANGED <<server, stage, peer, stream, request, recvd, sent>>
    BY <1>2 DEF HeaderCharacter
  <2>2. /\ OfConnections(header)' /\ header'[c] = Append(header[c], Head(inbox[c]))
        /\ \A b \in Connection \ {c} : header'[b] = header[b]
    BY <1>1, <2>1, ChangeOfOne DEF OfConnections
  <2>3. /\ OfConnections(inbox)' /\ inbox'[c] = Tail(inbox[c])
        /\ \A b \in Connection \ {c} : inbox'[b] = inbox[b]
    BY <1>1, <2>1, ChangeOfOne DEF OfConnections
  <2>4. /\ Reads("header", peer[c], stream[c], inbox'[c], header'[c], request[c])
        /\ Len(header[c]) + 1 > max_header_len => Reads("closed", peer[c], stream[c], inbox'[c], header'[c], request[c])
    <3>1. PICK end, s, in, h, r :
            end = peer[c] /\ s = stream[c] /\ in = inbox[c] /\ h = header[c] /\ r = request[c]
      OBVIOUS
    <3>2. /\ Reads("header", end, s, in, h, r) /\ s \in Seq(Range(s)) /\ in # <<>> /\ Head(in) # "NUL"
      BY <1>1, <2>1, <3>1
    <3>3. /\ Reads("header", end, s, Tail(in), Append(h, Head(in)), r)
          /\ Len(h) + 1 > max_header_len => Reads("closed", end, s, Tail(in), Append(h, Head(in)), r)
      BY <3>2, ReadsCharacter
    <3> QED
      BY <2>2, <2>3, <3>1, <3>3
  <2>5. UNCHANGED <<peer, stream, request>>
    BY <2>1 DEF Close
  <2>6. OfConnections(peer)' /\ OfConnections(request)'
    BY <1>1, <2>5 DEF OfConnections
  <2>7. CASE Len(header[c]) + 1 > max_header_len /\ Close(c)
    <3>1. OfConnections(stage)' /\ stage'[c] = "closed" /\ \A b \in Connection \ {c} : stage'[b] = stage[b]
      BY <1>1, <2>7, ChangeOfOne DEF Close, OfConnections
    <3> QED
      BY <2>2, <2>3, <2>4, <2>5, <2>6, <2>7, <3>1, OneReads
  <2>8. CASE UNCHANGED <<server, stage, peer, stream, request, recvd, sent>>
    <3>1. OfConnections(stage)' /\ stage' = stage
      BY <1>1, <2>8 DEF OfConnections
    <3> QED
      BY <2>1, <2>2, <2>3, <2>4, <2>5, <2>6, <3>1, OneReads
  <2> QED
    BY <2>1, <2>7, <2>8
<1>3. CASE HeaderEnds(c)
  <2>1. PICK w : w = Words(header[c])
    OBVIOUS
  <2>2. /\ stage[c] = "header" /\ inbox[c] # <<>> /\ Head(inbox[c]) = "NUL"
        /\ inbox' = [inbox EXCEPT ![c] = Tail(inbox[c])] /\ UNCHANGED header
        /\ \/ /\ Accepted(header[c]) /\ (w[1] = <<"FS_WRITEBLOCK">> \/ path_parser(w[3]))
              /\ request' = [request EXCEPT ![c] = Parsed(w)]
              /\ stage' = [stage EXCEPT ![c] = IF w[1] = <<"FS_WRITEBLOCK">> THEN "data" ELSE "handling"]
              /\ UNCHANGED <<server, peer, stream, recvd, sent>>
           \/ ~(Accepted(header[c]) /\ path_parser(w[3])) /\ Close(c)
    BY <1>3, <2>1 DEF HeaderEnds, Accepted
  <2>3. /\ OfConnections(inbox)' /\ inbox'[c] = Tail(inbox[c])
        /\ \A b \in Connection \ {c} : inbox'[b] = inbox[b]
    BY <1>1, <2>2, ChangeOfOne DEF OfConnections
  <2>4. /\ Accepted(header[c]) /\ w[1] = <<"FS_WRITEBLOCK">> =>
             Reads("data", peer[c], stream[c], inbox'[c], header[c], Parsed(w))
        /\ Accepted(header[c]) /\ path_parser(w[3]) =>
             Reads("handling", peer[c], stream[c], inbox'[c], header[c], Parsed(w))
        /\ ~(Accepted(header[c]) /\ path_parser(w[3])) =>
             Reads("closed", peer[c], stream[c], inbox'[c], header[c], request[c])
    <3>1. PICK end, s, in, h, r :
            end = peer[c] /\ s = stream[c] /\ in = inbox[c] /\ h = header[c] /\ r = request[c]
      OBVIOUS
    <3>2. Reads("header", end, s, in, h, r) /\ s \in Seq(Range(s)) /\ in # <<>> /\ Head(in) = "NUL" /\ w = Words(h)
      BY <1>1, <2>1, <2>2, <3>1
    <3>3. /\ Accepted(h) /\ w[1] = <<"FS_WRITEBLOCK">> => Reads("data", end, s, Tail(in), h, Parsed(w))
          /\ Accepted(h) /\ path_parser(w[3]) => Reads("handling", end, s, Tail(in), h, Parsed(w))
          /\ ~(Accepted(h) /\ path_parser(w[3])) => Reads("closed", end, s, Tail(in), h, r)
      BY <3>2, ReadsEnd
    <3> QED
      BY <2>3, <3>1, <3>3
  <2>5. UNCHANGED <<peer, stream, header>> /\ OfConnections(peer)' /\ OfConnections(header)'
    BY <1>1, <2>2 DEF Close, OfConnections
  <2>6. CASE /\ Accepted(header[c]) /\ (w[1] = <<"FS_WRITEBLOCK">> \/ path_parser(w[3]))
             /\ request' = [request EXCEPT ![c] = Parsed(w)]
             /\ stage' = [stage EXCEPT ![c] = IF w[1] = <<"FS_WRITEBLOCK">> THEN "data" ELSE "handling"]
    <3>1. /\ OfConnections(request)' /\ request'[c] = Parsed(w)
          /\ \A b \in Connection \ {c} : request'[b] = request[b]
      BY <1>1, <2>6, ChangeOfOne DEF OfConnections
    <3>2. /\ OfConnections(stage)' /\ stage'[c] = (IF w[1] = <<"FS_WRITEBLOCK">> THEN "data" ELSE "handling")
          /\ \A b \in Connection \ {c} : stage'[b] = stage[b]
      BY <1>1, <2>6, ChangeOfOne DEF OfConnections
    <3>3. Reads(stage'[c], peer'[c], stream[c], inbox'[c], header'[c], request'[c])
      <4>1. peer'[c] = peer[c] /\ header'[c] = header[c]
        BY <2>5
      <4>2. CASE w[1] = <<"FS_WRITEBLOCK">>
        BY <2>4, <2>6, <3>1, <3>2, <4>1, <4>2
      <4>3. CASE w[1] # <<"FS_WRITEBLOCK">>
        BY <2>4, <2>6, <3>1, <3>2, <4>1, <4>3
      <4> QED
        BY <4>2, <4>3
    <3> QED
      BY <2>3, <2>5, <3>1, <3>2, <3>3, OneReads
  <2>7. CASE ~(Accepted(header[c]) /\ path_parser(w[3])) /\ Close(c)
    <3>1. OfConnections(stage)' /\ stage'[c] = "closed" /\ \A b \in Connection \ {c} : stage'[b] = stage[b]
      BY <1>1, <2>7, ChangeOfOne DEF Close, OfConnections
    <3>2. request' = request /\ OfConnections(request)'
      BY <1>1, <2>7 DEF Close, OfConnections
    <3> QED
      BY <2>3, <2>4, <2>5, <2>7, <3>1, <3>2, OneReads
  <2> QED
    BY <2>2, <2>6, <2>7
<1>4. CASE HeaderFails(c)
  <2>1. CASE Terminate
    BY <2>1, OtherReads DEF Terminate
  <2>2. CASE stage[c] = "header" /\ peer[c] # "open" /\ Close(c) /\ UNCHANGED <<inbox, header>>
    <3>1. Reads("closed", peer[c], stream[c], inbox[c], header[c], request[c])
      BY <1>1, <2>2, ReadsOn
    <3> QED
      BY <2>2, <3>1, StageReads DEF Close
  <2> QED
    BY <1>4, <2>1, <2>2 DEF HeaderFails
<1> QED
  BY <1>2, <1>3, <1>4

\* The block is read, or the client ends before.
LEMMA DataReads ==
  ASSUME ReadInv, NEW c \in Connection, Data(c) \/ DataFails(c)
  PROVE  ReadInv'
<1>1. /\ Reads(stage[c], peer[c], stream[c], inbox[c], header[c], request[c])
      /\ OfConnections(stage) /\ OfConnections(peer) /\ OfConnections(inbox)
      /\ OfConnections(header) /\ OfConnections(request)
  BY DEF ReadInv, Reading
<1>2. ASSUME NEW v, stage[c] = "data", DataEnds(c) \/ UNCHANGED stage
      PROVE  /\ OfConnections(stage)' /\ \A b \in Connection \ {c} : stage'[b] = stage[b]
             /\ Reads(stage'[c], peer[c], stream[c], v, header[c], request[c])
  <2>1. CASE UNCHANGED stage
    BY <1>1, <1>2, <2>1, ReadsOn DEF OfConnections
  <2>2. CASE DataEnds(c)
    <3>1. /\ OfConnections(stage)' /\ \A b \in Connection \ {c} : stage'[b] = stage[b]
          /\ stage'[c] = (IF path_parser(Words(header[c])[3]) THEN "handling" ELSE "closed")
      BY <1>1, <2>2, ChangeOfOne DEF DataEnds, OfConnections
    <3>2. CASE path_parser(Words(header[c])[3])
      <4>1. Reads("handling", peer[c], stream[c], v, header[c], request[c])
        BY <1>1, <1>2, <3>2, ReadsOn
      <4> QED
        BY <3>1, <3>2, <4>1
    <3>3. CASE ~path_parser(Words(header[c])[3])
      <4>1. Reads("closed", peer[c], stream[c], v, header[c], request[c])
        BY <1>1, <1>2, ReadsOn
      <4> QED
        BY <3>1, <3>3, <4>1
    <3> QED
      BY <3>2, <3>3
  <2> QED
    BY <1>2, <2>1, <2>2
<1>3. CASE Data(c)
  <2>1. PICK n : inbox' = [inbox EXCEPT ![c] = SubSeq(inbox[c], n + 1, Len(inbox[c]))]
    BY <1>3 DEF Data
  <2>2. OfConnections(inbox)' /\ \A b \in Connection \ {c} : inbox'[b] = inbox[b]
    BY <1>1, <2>1, ChangeOfOne DEF OfConnections
  <2>3. stage[c] = "data" /\ (DataEnds(c) \/ UNCHANGED stage) /\ UNCHANGED <<peer, stream, header, request>>
    BY <1>3 DEF Data
  <2>4. OfConnections(peer)' /\ OfConnections(header)' /\ OfConnections(request)'
    BY <1>1, <2>3 DEF OfConnections
  <2>5. /\ OfConnections(stage)' /\ \A b \in Connection \ {c} : stage'[b] = stage[b]
        /\ Reads(stage'[c], peer[c], stream[c], inbox'[c], header[c], request[c])
    BY <1>2, <2>3
  <2> QED
    BY <2>2, <2>3, <2>4, <2>5, OneReads
<1>4. CASE DataFails(c)
  <2>1. CASE Terminate
    BY <2>1, OtherReads DEF Terminate
  <2>2. CASE stage[c] = "data" /\ DataEnds(c) /\ UNCHANGED <<peer, stream, inbox, header, request>>
    <3>1. /\ OfConnections(peer)' /\ OfConnections(header)' /\ OfConnections(request)' /\ OfConnections(inbox)'
      BY <1>1, <2>2 DEF OfConnections
    <3>2. /\ OfConnections(stage)' /\ \A b \in Connection \ {c} : stage'[b] = stage[b]
          /\ Reads(stage'[c], peer[c], stream[c], inbox[c], header[c], request[c])
      BY <1>2, <2>2
    <3> QED
      BY <2>2, <3>1, <3>2, OneReads
  <2> QED
    BY <1>4, <2>1, <2>2 DEF DataFails
<1> QED
  BY <1>3, <1>4

\* A request is refused, or answered and the answer sent or not.
LEMMA AnswerReads ==
  ASSUME ReadInv, NEW c \in Connection, Refuse(c) \/ Answer(c) \/ Send(c) \/ SendFails(c)
  PROVE  ReadInv'
<1>1. Reads(stage[c], peer[c], stream[c], inbox[c], header[c], request[c]) /\ OfConnections(stage)
  BY DEF ReadInv, Reading
<1>2. stage[c] \in {"handling", "answering"} =>
        /\ Reads("answering", peer[c], stream[c], inbox[c], header[c], request[c])
        /\ Reads("closed", peer[c], stream[c], inbox[c], header[c], request[c])
  BY <1>1, ReadsOn
<1>3. CASE Refuse(c)
  BY <1>2, <1>3, StageReads DEF Refuse, Close
<1>4. CASE Answer(c)
  BY <1>2, <1>4, StageReads DEF Answer
<1>5. CASE Send(c)
  <2>1. PICK n : stage' = [stage EXCEPT ![c] = IF sent[c] + n < AnswerLength THEN stage[c] ELSE "closed"]
    BY <1>5 DEF Send
  <2>2. stage[c] = "answering" /\ UNCHANGED <<peer, stream, inbox, header, request>>
    BY <1>5 DEF Send
  <2>3. PICK v : v = (IF sent[c] + n < AnswerLength THEN stage[c] ELSE "closed")
    OBVIOUS
  <2>4. stage' = [stage EXCEPT ![c] = v] /\ v \in {"answering", "closed"}
    BY <2>1, <2>2, <2>3
  <2>5. Reads(v, peer[c], stream[c], inbox[c], header[c], request[c])
    BY <1>2, <2>2, <2>4
  <2> QED
    BY <2>2, <2>4, <2>5, StageReads
<1>6. CASE SendFails(c)
  BY <1>6, OtherReads DEF SendFails
<1> QED
  BY <1>3, <1>4, <1>5, <1>6

\* A client connects, ends or resets the connection.
LEMMA ClientReads ==
  ASSUME ReadInv, NEW c \in Connection, Accept(c) \/ Client(c)
  PROVE  ReadInv'
<1>1. /\ Reads(stage[c], peer[c], stream[c], inbox[c], header[c], request[c])
      /\ OfConnections(stage) /\ OfConnections(peer) /\ OfConnections(inbox)
      /\ OfConnections(header) /\ OfConnections(request)
  BY DEF ReadInv, Reading
<1>2. /\ stage[c] = "none" => Reads("queued", peer[c], stream[c], inbox[c], header[c], request[c])
      /\ stage[c] = "queued" => Reads("header", peer[c], stream[c], inbox[c], header[c], request[c])
      /\ Reads(stage[c], "finished", stream[c], inbox[c], header[c], request[c])
      /\ Reads(stage[c], "reset", stream[c], <<>>, header[c], request[c])
  BY <1>1, ReadsOn
<1>3. CASE Accept(c)
  BY <1>2, <1>3, StageReads DEF Accept
<1>4. CASE Connect(c)
  BY <1>2, <1>4, StageReads DEF Connect
<1>5. CASE ClientEnds(c)
  <2>1. /\ OfConnections(peer)' /\ peer'[c] = "finished" /\ \A b \in Connection \ {c} : peer'[b] = peer[b]
    BY <1>1, <1>5, ChangeOfOne DEF ClientEnds, OfConnections
  <2>2. UNCHANGED <<stage, stream, inbox, header, request>>
    BY <1>5 DEF ClientEnds
  <2>3. /\ OfConnections(stage)' /\ OfConnections(inbox)' /\ OfConnections(header)' /\ OfConnections(request)'
    BY <1>1, <2>2 DEF OfConnections
  <2> QED
    BY <1>2, <2>1, <2>2, <2>3, OneReads
<1>6. CASE Reset(c)
  <2>1. /\ OfConnections(peer)' /\ peer'[c] = "reset" /\ \A b \in Connection \ {c} : peer'[b] = peer[b]
    BY <1>1, <1>6, ChangeOfOne DEF Reset, OfConnections
  <2>2. /\ OfConnections(inbox)' /\ inbox'[c] = <<>> /\ \A b \in Connection \ {c} : inbox'[b] = inbox[b]
    BY <1>1, <1>6, ChangeOfOne DEF Reset, OfConnections
  <2>3. UNCHANGED <<stage, stream, header, request>>
    BY <1>6 DEF Reset
  <2>4. /\ OfConnections(stage)' /\ OfConnections(header)' /\ OfConnections(request)'
    BY <1>1, <2>3 DEF OfConnections
  <2> QED
    BY <1>2, <2>1, <2>2, <2>3, <2>4, OneReads
<1> QED
  BY <1>3, <1>4, <1>5, <1>6 DEF Client

\* What a connection has read stays the beginning of its stream.
LEMMA ReadNext == ReadInv /\ [Next]_vars => ReadInv'
<1> SUFFICES ASSUME ReadInv, [Next]_vars PROVE ReadInv'
  OBVIOUS
<1>1. CASE SetUp
  BY <1>1, OtherReads DEF SetUp
<1>2. ASSUME NEW c \in Connection, Accept(c) PROVE ReadInv'
  BY <1>2, ClientReads
<1>3. ASSUME NEW c \in Connection, Serve(c) PROVE ReadInv'
  BY <1>3, HeaderReads, DataReads, AnswerReads DEF Serve
<1>4. ASSUME NEW c \in Connection, Client(c) PROVE ReadInv'
  BY <1>4, ClientReads
<1>5. CASE UNCHANGED vars
  BY <1>5, OtherReads DEF vars
<1> QED
  BY <1>1, <1>2, <1>3, <1>4, <1>5 DEF Next

\* Whatever a client sends, the file system is given legal requests only
\* (file_server.cpp:70-87, 169, 396-400, 475-503, 533).
THEOREM RequestsLegal == Spec => []OnlyLegalRequests
<1>1. ReadInv => OnlyLegalRequests
  BY DEF ReadInv, Reading, Reads, OnlyLegalRequests
<1> QED
  BY ReadInit, ReadNext, <1>1, PTL DEF Spec

\* A legal request that the client sends in full is understood as what it is,
\* and is not turned away before the file system has had it
\* (file_server.cpp:514-554).
THEOREM LegalUnderstood == Spec => []RequestsUnderstood
<1>1. ReadInv => RequestsUnderstood
  BY DEF ReadInv, Reading, Reads, RequestsUnderstood
<1> QED
  BY ReadInit, ReadNext, <1>1, PTL DEF Spec
=============================================================================
