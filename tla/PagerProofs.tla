----------------------------- MODULE PagerProofs -----------------------------
(***************************************************************************)
(* Proofs about the pager, for any number of processes, physical pages,    *)
(* swap blocks and files: the types, PagesPartitioned, ProtectionFollows,  *)
(* PeersExact, DirtyBits, SwapConserved and RetrySucceeds, and that the    *)
(* processes see the arenas of AddressSpace.                               *)
(*                                                                         *)
(* They are one inductive invariant: the clock evicts a page correctly     *)
(* only because every PTE of it is in peer_map, a PTE is right only        *)
(* because the two queues and peer_in_phys agree, and a process that ends  *)
(* frees the right pages only because no swap block has two owners.  The   *)
(* parts about memory take the state they speak of as arguments, so that a *)
(* fault can be followed in its two halves: what the clock does, and what  *)
(* set_physical_page and set_peer make of it.                              *)
(***************************************************************************)
EXTENDS Pager, QueueFacts

OwnPage   == PhysicalPage \ {0}
PageId    == file_id \cup {SwapId(0)}
BackedIds == SwapIds \cup ReadableIds

physical_page == [id : PageId, dirty : BOOLEAN, referenced : BOOLEAN]
page_table    == [vps : Seq(virtual_page), occupied_swap_blocks : Nat]

MemoryTypes ==
  /\ physmem \in [PhysicalPage -> Value]
  /\ physical_table \in [PhysicalPage -> physical_page]
  /\ available_physical_pages \in Seq(OwnPage)
  /\ clock_queue \in Seq(OwnPage)
  /\ DOMAIN peer_in_phys \subseteq file_id
  /\ peer_in_phys \in [DOMAIN peer_in_phys -> PhysicalPage]
  /\ backing \in [BackedIds -> Value]
  /\ accessed \subseteq ReadableIds

TablesType(t) ==
  /\ DOMAIN t \subseteq Pid
  /\ t \in [DOMAIN t -> page_table]
  /\ \A p \in DOMAIN t : Len(t[p].vps) <= MAX_PAGE_NUM

\* pm points to the entries of t, each under its file_id.
PeersOK(pm, t) ==
  pm = UNION {{<<t[p].vps[n].id, <<p, n>>>> : n \in DOMAIN t[p].vps} : p \in DOMAIN t}

\* cur_table and cur_pid belong together, except that a pid is left behind when
\* its process has ended.
ControlInv ==
  /\ running = cur_table
  /\ cur_pid \in Pid \cup {NoPid}
  /\ cur_table # NoPid => cur_table = cur_pid /\ cur_table \in DOMAIN tables
  /\ cur_table = NoPid => cur_pid \notin DOMAIN tables

RetryCalls == [op : {"retry"}, page : 1..MAX_PAGE_NUM, write : BOOLEAN]
MapCalls   == [op : {"map"}, at : Nat, name : Seq(Value \ Ending), block : FileBlock]

\* What a process is in the middle of: an access that will succeed, or the name
\* of a file, of which every page read lies before the next.  The page it will be
\* mapped to still fits when the name has been read.
CallInv ==
  /\ call \in {Idle} \cup RetryCalls \cup MapCalls
  /\ call.op = "retry" => /\ CanCall
                          /\ call.page \in DOMAIN tables[cur_table].vps
                          /\ ~Denied(call.page, call.write)
  /\ call.op = "map" => CanCall /\ HasRoom /\ Len(call.name) < call.at

\* The two queues a, of free pages, and c, the clock, hold each page once.
PartOK(a, c) ==
  /\ IsInjective(a) /\ IsInjective(c)
  /\ ToSet(a) \cap ToSet(c) = {}
  /\ ToSet(a) \cup ToSet(c) = OwnPage

\* The pages in C are those in peer_in_phys.
PagesOK(C, pt, pip) ==
  /\ \A q \in C : pt[q].id \in DOMAIN pip /\ pip[pt[q].id] = q /\ pt[q].id \in BackedIds
  /\ \A id \in DOMAIN pip :
       IF pip[id] = 0 THEN id.swap_backed ELSE pip[id] \in C /\ pt[pip[id]].id = id

\* The PTE e agrees with the physical page it shows.
EntryOK(e, pt, pip) ==
  IF e.id \in DOMAIN pip
  THEN /\ e.ppage = pip[e.id]
       /\ e.read_enable <=> (e.ppage = 0 \/ pt[e.ppage].referenced)
       /\ e.write_enable <=> (e.ppage # 0 /\ pt[e.ppage].referenced /\ pt[e.ppage].dirty)
  ELSE ~e.read_enable /\ ~e.write_enable

ProtectionOK(t, pt, pip) ==
  \A p \in DOMAIN t : \A n \in DOMAIN t[p].vps : EntryOK(t[p].vps[n], pt, pip)

\* The free pages A are clean, and the clean pages in C are the same on disk.
DirtyOK(A, C, pt, mem, back) ==
  /\ \A q \in C : ~pt[q].dirty => mem[q] = back[pt[q].id]
  /\ \A q \in A : ~pt[q].dirty

\* Every swap block is free or has one owner, and the owners are counted.
SwapOK(t, avail) ==
  /\ IsInjective(avail)
  /\ \A b \in SwapBlock :
       b \in ToSet(avail) <=> \A p \in DOMAIN t : \A n \in DOMAIN t[p].vps : t[p].vps[n].id # SwapId(b)
  /\ \A p, r \in DOMAIN t : \A n \in DOMAIN t[p].vps, m \in DOMAIN t[r].vps :
       t[p].vps[n].id.swap_backed /\ t[p].vps[n].id = t[r].vps[m].id => p = r /\ n = m
  /\ \A p \in DOMAIN t :
       t[p].occupied_swap_blocks = Cardinality({n \in DOMAIN t[p].vps : t[p].vps[n].id.swap_backed})

\* A free swap block is not in a physical page, but may still show the pinned one.
FreeSwapOK(avail, pip) ==
  \A b \in ToSet(avail) : SwapId(b) \in DOMAIN pip => pip[SwapId(b)] = 0

\* Reservations for children apart, the free blocks can be reserved.
SwapCountInv ==
  /\ available_swap_blocks \in Seq(SwapBlock)
  /\ num_swap_blocks \in Nat
  /\ num_swap_blocks <= Len(available_swap_blocks)
  /\ ~ManagedForks => num_swap_blocks = Len(available_swap_blocks)

MemoryInv ==
  /\ MemoryTypes
  /\ PartOK(available_physical_pages, clock_queue)
  /\ PagesOK(ToSet(clock_queue), physical_table, peer_in_phys)
  /\ DirtyOK(ToSet(available_physical_pages), ToSet(clock_queue), physical_table, physmem, backing)

TablesInv ==
  /\ TablesType(tables)
  /\ PeersOK(peer_map, tables)
  /\ ProtectionOK(tables, physical_table, peer_in_phys)

SwapInv ==
  /\ SwapOK(tables, available_swap_blocks)
  /\ FreeSwapOK(available_swap_blocks, peer_in_phys)
  /\ SwapCountInv

IInv == MemoryInv /\ TablesInv /\ SwapInv /\ ControlInv /\ CallInv

-----------------------------------------------------------------------------
(* Numbers and sequences *)

\* A sequence turned by m places has the same elements, and starts behind them.
IsRotation(r, s, m, S) ==
  /\ r \in Seq(S) /\ r # <<>>
  /\ Head(r) = s[IF m < Len(s) THEN m + 1 ELSE 1]
  /\ ToSet(r) = ToSet(s)
  /\ IsInjective(s) => IsInjective(r)

\* A rotated sequence has the same elements as before, each as often.
LEMMA ElementsOfRotation ==
  ASSUME NEW S, NEW s \in Seq(S), s # <<>>, NEW m \in 0 .. Len(s),
         NEW r, r = SubSeq(s, m + 1, Len(s)) \o SubSeq(s, 1, m)
  PROVE  IsRotation(r, s, m, S)
<1>1. /\ Len(s) \in Nat \ {0} /\ DOMAIN s = 1 .. Len(s) /\ m \in Nat /\ m <= Len(s)
      /\ \A k \in 1 .. Len(s) : s[k] \in S
  <2>1. Len(s) \in Nat /\ DOMAIN s = 1 .. Len(s)
    BY LenProperties
  <2>2. Len(s) # 0
    BY EmptySeq
  <2>3. m \in Nat /\ m <= Len(s)
    BY <2>1
  <2>4. QED
    BY <2>1, <2>2, <2>3, ElementsOfSeq
<1>2. PICK back : back = SubSeq(s, m + 1, Len(s))
  OBVIOUS
<1>3. PICK front : front = SubSeq(s, 1, m)
  OBVIOUS
<1>4. /\ back \in Seq(S) /\ Len(back) = Len(s) - m
      /\ \A k \in 1 .. Len(s) - m : back[k] = s[m + k]
  <2>1. \A k \in m + 1 .. Len(s) : s[k] \in S
    BY <1>1
  <2>2. /\ back \in Seq(S)
        /\ Len(back) = IF m + 1 <= Len(s) THEN Len(s) - (m + 1) + 1 ELSE 0
        /\ \A k \in 1 .. Len(s) - (m + 1) + 1 : back[k] = s[(m + 1) + k - 1]
    BY <1>1, <1>2, <2>1, SubSeqProperties
  <2>3. \A k \in 1 .. Len(s) - m : (m + 1) + k - 1 = m + k
    BY <1>1
  <2>4. Len(s) - (m + 1) + 1 = Len(s) - m
    BY <1>1
  <2>5. Len(back) = Len(s) - m
    <3>1. \A a, b \in Nat : b <= a => (IF b + 1 <= a THEN a - (b + 1) + 1 ELSE 0) = a - b
      OBVIOUS
    <3>2. QED
      BY <1>1, <2>2, <3>1, Zenon
  <2>6. QED
    BY <2>2, <2>3, <2>4, <2>5
<1>5. /\ front \in Seq(S) /\ Len(front) = m
      /\ \A k \in 1 .. m : front[k] = s[k]
  <2>1. \A k \in 1 .. m : s[k] \in S
    BY <1>1
  <2>2. /\ front \in Seq(S)
        /\ Len(front) = IF 1 <= m THEN m - 1 + 1 ELSE 0
        /\ \A k \in 1 .. m - 1 + 1 : front[k] = s[1 + k - 1]
    BY <1>1, <1>3, <2>1, SubSeqProperties
  <2>3. \A k \in 1 .. m : 1 + k - 1 = k
    BY <1>1
  <2>4. QED
    BY <1>1, <2>2, <2>3
<1>6. DOMAIN back = 1 .. Len(s) - m /\ DOMAIN front = 1 .. m
  BY <1>4, <1>5, LenProperties
<1>7. r = back \o front
  BY <1>2, <1>3
<1>8. /\ back \o front \in Seq(S) /\ Len(back \o front) = Len(back) + Len(front)
      /\ ToSet(back \o front) = ToSet(back) \cup ToSet(front)
      /\ IsInjective(back \o front) <=>
           IsInjective(back) /\ IsInjective(front) /\ ToSet(back) \cap ToSet(front) = {}
  BY <1>4, <1>5, ElementsOfConcat, Zenon
<1>9. r # <<>> /\ Head(r) = r[1] /\ r \in Seq(S)
  <2>1. Len(r) = (Len(s) - m) + m
    BY <1>4, <1>5, <1>7, <1>8
  <2>2. (Len(s) - m) + m # 0
    BY <1>1
  <2>3. r \in Seq(S)
    BY <1>7, <1>8
  <2>4. r # <<>>
    BY <2>1, <2>2, <2>3, EmptySeq
  <2>5. Head(r) = r[1]
    BY <2>3, <2>4, FirstElement, Zenon
  <2>6. QED
    BY <2>3, <2>4, <2>5
<1>10. r[1] = s[IF m < Len(s) THEN m + 1 ELSE 1]
  <2>1. \A k \in 1 .. Len(back) + Len(front) :
          (back \o front)[k] = IF k <= Len(back) THEN back[k] ELSE front[k - Len(back)]
    BY <1>4, <1>5, ConcatProperties, Zenon
  <2>2. 1 \in 1 .. Len(back) + Len(front)
    BY <1>1, <1>4, <1>5
  <2>3. r[1] = IF 1 <= Len(back) THEN back[1] ELSE front[1 - Len(back)]
    BY <1>7, <2>1, <2>2
  <2>4. CASE m < Len(s)
    <3>1. 1 \in 1 .. Len(s) - m
      BY <1>1, <2>4
    <3>2. back[1] = s[m + 1]
      BY <1>4, <3>1
    <3>3. 1 <= Len(back)
      BY <1>4, <3>1
    <3>4. QED
      BY <2>3, <2>4, <3>2, <3>3, Zenon
  <2>5. CASE ~(m < Len(s))
    <3>0. \A a, b \in Nat : b <= a /\ ~(b < a) /\ a # 0 => b = a /\ a - b = 0 /\ 1 \in 1 .. b /\ 1 - 0 = 1 /\ ~(1 <= 0)
      OBVIOUS
    <3>1. m = Len(s) /\ Len(back) = 0 /\ 1 - 0 = 1 /\ 1 \in 1 .. m /\ ~(1 <= 0)
      <4>1. m \in Nat /\ Len(s) \in Nat /\ m <= Len(s) /\ Len(s) # 0
        BY <1>1
      <4>2. QED
        BY <1>4, <2>5, <3>0, <4>1, Zenon
    <3>2. r[1] = front[1]
      BY <2>3, <3>1
    <3>3. QED
      BY <1>5, <2>5, <3>1, <3>2
  <2>6. QED
    BY <2>4, <2>5
<1>11. ToSet(back) \cup ToSet(front) = ToSet(s)
  <2>1. ASSUME NEW k \in 1 .. Len(s) - m
        PROVE  back[k] \in ToSet(s)
    <3>1. m + k \in 1 .. Len(s)
      BY <1>1
    <3>2. QED
      BY <1>1, <1>4, <3>1 DEF ToSet
  <2>2. ASSUME NEW k \in 1 .. m
        PROVE  front[k] \in ToSet(s)
    <3>1. k \in 1 .. Len(s)
      BY <1>1
    <3>2. QED
      BY <1>1, <1>5, <3>1 DEF ToSet
  <2>3. ASSUME NEW k \in 1 .. Len(s)
        PROVE  s[k] \in ToSet(back) \cup ToSet(front)
    <3>1. CASE k <= m
      <4>1. k \in 1 .. m
        BY <1>1, <3>1
      <4>2. QED
        BY <1>5, <1>6, <4>1 DEF ToSet
    <3>2. CASE ~(k <= m)
      <4>1. k - m \in 1 .. Len(s) - m /\ m + (k - m) = k
        BY <1>1, <3>2
      <4>2. back[k - m] = s[k]
        BY <1>4, <4>1
      <4>3. QED
        BY <1>6, <4>1, <4>2 DEF ToSet
    <3>3. QED
      BY <3>1, <3>2
  <2>4. QED
    BY <1>1, <1>6, <2>1, <2>2, <2>3 DEF ToSet
<1>12. ASSUME IsInjective(s)
       PROVE  IsInjective(r)
  <2>1. IsInjective(front)
    <3>1. \A k \in 1 .. m : k \in DOMAIN s
      BY <1>1
    <3>2. QED
      BY <3>1, <1>5, <1>6, <1>12 DEF IsInjective
  <2>2. IsInjective(back)
    <3>1. SUFFICES ASSUME NEW j \in 1 .. Len(s) - m, NEW k \in 1 .. Len(s) - m, back[j] = back[k]
                   PROVE  j = k
      BY <1>6 DEF IsInjective
    <3>2. m + j \in DOMAIN s /\ m + k \in DOMAIN s
      BY <1>1
    <3>3. m + j = m + k
      BY <1>4, <1>12, <3>1, <3>2 DEF IsInjective
    <3>4. QED
      BY <1>1, <3>3
  <2>3. ASSUME NEW j \in 1 .. Len(s) - m, NEW k \in 1 .. m, back[j] = front[k] PROVE FALSE
    <3>1. m + j \in DOMAIN s /\ k \in DOMAIN s
      BY <1>1
    <3>2. m + j = k
      BY <1>4, <1>5, <1>12, <2>3, <3>1 DEF IsInjective
    <3>3. QED
      BY <1>1, <3>2
  <2>4. ToSet(back) \cap ToSet(front) = {}
    BY <1>6, <2>3 DEF ToSet
  <2>5. QED
    BY <1>7, <1>8, <2>1, <2>2, <2>4
<1>13. QED
  BY <1>7, <1>8, <1>9, <1>10, <1>11, <1>12 DEF IsRotation

-----------------------------------------------------------------------------
(* KeptIn *)

\* The recursive function of KeptIn, up to place n.
IsKept(f, s, S, n) ==
  f = [m \in 0 .. n |->
         IF m = 0 THEN <<>>
         ELSE IF s[m] \in S THEN Append(f[m - 1], s[m]) ELSE f[m - 1]]

\* There is one: otherwise there would be a first n without.
LEMMA KeptExists ==
  ASSUME NEW s, NEW S, NEW n \in Nat
  PROVE  \E f : IsKept(f, s, S, n)
<1> DEFINE T == {k \in Nat : ~ \E f : IsKept(f, s, S, k)}
<1>1. SUFFICES ASSUME T # {} PROVE FALSE
  BY <1>1
<1>2. PICK m \in T : \A k \in T : m <= k
  BY <1>1, LeastNatural
<1>3. m # 0
  <2>1. IsKept([k \in 0 .. 0 |-> <<>>], s, S, 0)
    BY DEF IsKept
  <2>2. QED
    BY <1>2, <2>1
<1>4. PICK f : IsKept(f, s, S, m - 1)
  BY <1>2, <1>3
<1> DEFINE g == [k \in 0 .. m |->
                   IF k = m THEN IF s[m] \in S THEN Append(f[m - 1], s[m]) ELSE f[m - 1]
                   ELSE f[k]]
<1>5. IsKept(g, s, S, m)
  <2>1. \A k \in 0 .. (m - 1) : g[k] = f[k]
    BY <1>2, <1>3
  <2>2. \A k \in 0 .. (m - 1) :
          f[k] = IF k = 0 THEN <<>> ELSE IF s[k] \in S THEN Append(f[k - 1], s[k]) ELSE f[k - 1]
    BY <1>2, <1>3, <1>4 DEF IsKept
  <2>3. \A k \in 0 .. m :
          g[k] = IF k = 0 THEN <<>> ELSE IF s[k] \in S THEN Append(g[k - 1], s[k]) ELSE g[k - 1]
    <3>1. SUFFICES ASSUME NEW k \in 0 .. m
                   PROVE  g[k] = IF k = 0 THEN <<>>
                                 ELSE IF s[k] \in S THEN Append(g[k - 1], s[k]) ELSE g[k - 1]
      OBVIOUS
    <3>2. CASE k = m
      <4>1. k # 0 /\ k - 1 \in 0 .. (m - 1)
        BY <1>2, <1>3, <3>2
      <4>2. g[k - 1] = f[m - 1]
        BY <2>1, <3>2, <4>1
      <4>3. QED
        BY <3>2, <4>1, <4>2
    <3>3. CASE k # m
      <4>1. k \in 0 .. (m - 1)
        BY <1>2, <1>3, <3>3
      <4>2. CASE k = 0
        BY <2>1, <2>2, <4>1, <4>2
      <4>3. CASE k # 0
        <5>1. k - 1 \in 0 .. (m - 1)
          BY <1>2, <4>1, <4>3
        <5>2. QED
          BY <2>1, <2>2, <4>1, <4>3, <5>1
      <4>4. QED
        BY <4>2, <4>3
    <3>4. QED
      BY <3>2, <3>3
  <2> HIDE DEF g
  <2>4. g = [k \in 0 .. m |-> g[k]]
    BY DEF g
  <2>5. QED
    BY <2>3, <2>4, Zenon DEF IsKept
<1>6. QED
  BY <1>2, <1>5

\* KeptIn is the last value of the recursive function it is defined by.
LEMMA KeptUnfolds ==
  ASSUME NEW s, NEW S, Len(s) \in Nat
  PROVE  \E f : IsKept(f, s, S, Len(s)) /\ KeptIn(s, S) = f[Len(s)]
<1>1. PICK f : IsKept(f, s, S, Len(s))
  BY KeptExists
<1> DEFINE Eqn(g) == g = [m \in 0 .. Len(s) |->
                            IF m = 0 THEN <<>>
                            ELSE IF s[m] \in S THEN Append(g[m - 1], s[m]) ELSE g[m - 1]]
<1>2. Eqn(CHOOSE g : Eqn(g))
  <2>1. Eqn(f)
    BY <1>1 DEF IsKept
  <2> HIDE DEF Eqn
  <2>2. QED
    BY <2>1, Zenon
<1>3. KeptIn(s, S) = (CHOOSE g : Eqn(g))[Len(s)]
  BY Zenon DEF KeptIn
<1>4. QED
  BY <1>2, <1>3 DEF IsKept

\* What is kept of the first m elements of s, and where they are.
Places(s, S, m) == {k \in 1 .. m : s[k] \in S}

KeptOK(g, s, S, T, m) ==
  /\ g \in Seq(T)
  /\ ToSet(g) = {s[k] : k \in Places(s, S, m)}
  /\ Len(g) = Cardinality(Places(s, S, m))
  /\ (\A j, k \in Places(s, S, m) : s[j] = s[k] => j = k) => IsInjective(g)

\* One more element of s considered, whether it is kept or not.
LEMMA KeptStep ==
  ASSUME NEW T, NEW s \in Seq(T), NEW S, NEW m \in 1 .. Len(s), NEW g, KeptOK(g, s, S, T, m - 1)
  PROVE  KeptOK(IF s[m] \in S THEN Append(g, s[m]) ELSE g, s, S, T, m)
<1>1. /\ Len(s) \in Nat /\ s[m] \in T /\ m \in Nat \ {0} /\ m - 1 \in Nat
      /\ \A k : k \in 1 .. m <=> (k \in 1 .. (m - 1) \/ k = m)
      /\ m \notin 1 .. (m - 1)
  BY ElementsOfSeq
<1>2. CASE s[m] \in S
  <2>1. Places(s, S, m) = Places(s, S, m - 1) \cup {m} /\ m \notin Places(s, S, m - 1)
    BY <1>1, <1>2 DEF Places
  <2>2. IsFiniteSet(Places(s, S, m - 1))
    <3>1. IsFiniteSet(1 .. (m - 1))
      BY <1>1, FS_Interval
    <3>2. QED
      BY <3>1, FS_Subset DEF Places
  <2>3. Cardinality(Places(s, S, m)) = Cardinality(Places(s, S, m - 1)) + 1
    BY <2>1, <2>2, FS_AddElement
  <2>4. /\ Append(g, s[m]) \in Seq(T) /\ Len(Append(g, s[m])) = Len(g) + 1
        /\ ToSet(Append(g, s[m])) = ToSet(g) \cup {s[m]}
        /\ IsInjective(g) /\ s[m] \notin ToSet(g) => IsInjective(Append(g, s[m]))
    BY <1>1, ElementsOfAppend DEF KeptOK
  <2>5. ToSet(Append(g, s[m])) = {s[k] : k \in Places(s, S, m)}
    BY <2>1, <2>4 DEF KeptOK
  <2>6. ASSUME \A j, k \in Places(s, S, m) : s[j] = s[k] => j = k
        PROVE  IsInjective(Append(g, s[m]))
    <3>1. IsInjective(g)
      BY <2>1, <2>6 DEF KeptOK
    <3>2. s[m] \notin ToSet(g)
      BY <2>1, <2>6 DEF KeptOK
    <3>3. QED
      BY <2>4, <3>1, <3>2
  <2>7. QED
    BY <1>2, <2>3, <2>4, <2>5, <2>6 DEF KeptOK
<1>3. CASE s[m] \notin S
  <2>1. Places(s, S, m) = Places(s, S, m - 1)
    BY <1>1, <1>3 DEF Places
  <2>2. QED
    BY <1>3, <2>1 DEF KeptOK
<1>4. QED
  BY <1>2, <1>3

\* KeptIn keeps the elements that are in S, each as often as it occurs.
LEMMA KeptProperties ==
  ASSUME NEW T, NEW s \in Seq(T), NEW S
  PROVE  /\ KeptIn(s, S) \in Seq(T)
         /\ ToSet(KeptIn(s, S)) = ToSet(s) \cap S
         /\ Len(KeptIn(s, S)) = Cardinality({k \in DOMAIN s : s[k] \in S})
         /\ (\A j, k \in DOMAIN s : s[j] \in S /\ s[j] = s[k] => j = k) => IsInjective(KeptIn(s, S))
<1>1. Len(s) \in Nat /\ DOMAIN s = 1 .. Len(s) /\ ToSet(s) = {s[k] : k \in 1 .. Len(s)}
  BY ElementsOfSeq
<1>2. PICK f : IsKept(f, s, S, Len(s)) /\ KeptIn(s, S) = f[Len(s)]
  BY <1>1, KeptUnfolds
<1>3. \A m \in 0 .. Len(s) :
        f[m] = IF m = 0 THEN <<>> ELSE IF s[m] \in S THEN Append(f[m - 1], s[m]) ELSE f[m - 1]
  <2>1. f = [m \in 0 .. Len(s) |->
               IF m = 0 THEN <<>> ELSE IF s[m] \in S THEN Append(f[m - 1], s[m]) ELSE f[m - 1]]
    BY <1>2 DEF IsKept
  <2>2. QED
    BY <2>1, Zenon
<1> DEFINE Wrong == {m \in Nat : m <= Len(s) /\ ~KeptOK(f[m], s, S, T, m)}
<1>4. Wrong = {}
  <2>1. SUFFICES ASSUME Wrong # {} PROVE FALSE
    OBVIOUS
  <2>2. PICK m \in Wrong : \A k \in Wrong : m <= k
    BY <2>1, LeastNatural
  <2>3. m # 0
    <3>1. f[0] = <<>>
      BY <1>1, <1>3
    <3>2. Places(s, S, 0) = {}
      BY DEF Places
    <3>3. KeptOK(<<>>, s, S, T, 0)
      <4>1. <<>> \in Seq(T) /\ Len(<<>>) = 0 /\ DOMAIN <<>> = {}
        BY EmptySeq
      <4>2. ToSet(<<>>) = {} /\ IsInjective(<<>>)
        BY <4>1 DEF ToSet, IsInjective
      <4>3. Cardinality({}) = 0
        BY FS_EmptySet
      <4>4. QED
        BY <3>2, <4>1, <4>2, <4>3 DEF KeptOK
    <3>4. QED
      BY <2>2, <3>1, <3>3
  <2>4. m \in 1 .. Len(s) /\ m - 1 \in Nat /\ m - 1 <= Len(s) /\ ~(m <= m - 1)
    BY <1>1, <2>2, <2>3
  <2>5. KeptOK(f[m - 1], s, S, T, m - 1)
    BY <2>2, <2>4
  <2>6. KeptOK(IF s[m] \in S THEN Append(f[m - 1], s[m]) ELSE f[m - 1], s, S, T, m)
    BY <2>4, <2>5, KeptStep
  <2>7. f[m] = IF s[m] \in S THEN Append(f[m - 1], s[m]) ELSE f[m - 1]
    BY <1>1, <1>3, <2>3, <2>4
  <2>8. QED
    BY <2>2, <2>6, <2>7
<1>5. KeptOK(KeptIn(s, S), s, S, T, Len(s))
  BY <1>1, <1>2, <1>4
<1>6. Places(s, S, Len(s)) = {k \in DOMAIN s : s[k] \in S}
  BY <1>1 DEF Places
<1>7. {s[k] : k \in Places(s, S, Len(s))} = ToSet(s) \cap S
  BY <1>1 DEF Places
<1>8. QED
  BY <1>5, <1>6, <1>7 DEF KeptOK
-----------------------------------------------------------------------------
(* Tables *)

\* u has the pages of t, with other PTEs.
SameShape(t, u) ==
  /\ DOMAIN u = DOMAIN t
  /\ \A p \in DOMAIN t :
       /\ u[p].occupied_swap_blocks = t[p].occupied_swap_blocks
       /\ Len(u[p].vps) = Len(t[p].vps)
       /\ DOMAIN u[p].vps = DOMAIN t[p].vps
       /\ \A n \in DOMAIN t[p].vps : u[p].vps[n].id = t[p].vps[n].id

\* What TablesType says of one page table.
LEMMA TableTypes ==
  ASSUME NEW t, TablesType(t), NEW p \in DOMAIN t
  PROVE  /\ p \in Pid /\ t[p] \in page_table /\ t[p].vps \in Seq(virtual_page)
         /\ t[p].occupied_swap_blocks \in Nat
         /\ Len(t[p].vps) \in Nat /\ DOMAIN t[p].vps = 1 .. Len(t[p].vps)
         /\ t[p].vps \in [1 .. Len(t[p].vps) -> virtual_page]
         /\ \A n \in DOMAIN t[p].vps : t[p].vps[n] \in virtual_page
         /\ Len(t[p].vps) <= MAX_PAGE_NUM
<1>1. p \in Pid /\ t[p] \in page_table /\ Len(t[p].vps) <= MAX_PAGE_NUM
  BY DEF TablesType
<1>2. t[p].vps \in Seq(virtual_page) /\ t[p].occupied_swap_blocks \in Nat
  BY <1>1 DEF page_table
<1>3. QED
  BY <1>1, <1>2, LenProperties

\* What clearing the bits of some PTEs does.
DisabledIn(t, vps) == UpdateEntries(t, vps, Disabled)

\* Disabling a set of pages keeps all file_ids and touches the other PTEs not at all.
LEMMA DisabledEntries ==
  ASSUME NEW t, TablesType(t), NEW vps, NEW u, u = DisabledIn(t, vps)
  PROVE  /\ TablesType(u) /\ SameShape(t, u)
         /\ \A p \in DOMAIN t : \A n \in DOMAIN t[p].vps :
              u[p].vps[n] = IF <<p, n>> \in vps THEN Disabled(t[p].vps[n]) ELSE t[p].vps[n]
<1>1. /\ DOMAIN u = DOMAIN t
      /\ \A p \in DOMAIN t :
           u[p] = [t[p] EXCEPT !.vps = [n \in DOMAIN t[p].vps |->
                     IF <<p, n>> \in vps THEN Disabled(t[p].vps[n]) ELSE t[p].vps[n]]]
  BY DEF DisabledIn, UpdateEntries
<1>2. ASSUME NEW p \in DOMAIN t
      PROVE  /\ u[p] \in page_table
             /\ u[p].occupied_swap_blocks = t[p].occupied_swap_blocks
             /\ u[p].vps = [n \in DOMAIN t[p].vps |->
                              IF <<p, n>> \in vps THEN Disabled(t[p].vps[n]) ELSE t[p].vps[n]]
             /\ Len(u[p].vps) = Len(t[p].vps)
  <2>1. /\ t[p] \in page_table /\ t[p].occupied_swap_blocks \in Nat
        /\ Len(t[p].vps) \in Nat /\ DOMAIN t[p].vps = 1 .. Len(t[p].vps)
        /\ \A n \in DOMAIN t[p].vps : t[p].vps[n] \in virtual_page
    BY TableTypes
  <2> DEFINE w == [n \in DOMAIN t[p].vps |->
                     IF <<p, n>> \in vps THEN Disabled(t[p].vps[n]) ELSE t[p].vps[n]]
  <2>2. u[p] = [t[p] EXCEPT !.vps = w]
    BY <1>1
  <2>3. w \in [1 .. Len(t[p].vps) -> virtual_page]
    <3>1. ASSUME NEW e \in virtual_page PROVE Disabled(e) \in virtual_page
      BY DEF Disabled, virtual_page
    <3>2. QED
      BY <2>1, <3>1
  <2> HIDE DEF w
  <2>4. w \in Seq(virtual_page) /\ Len(w) = Len(t[p].vps)
    BY <2>1, <2>3
  <2>5. u[p].vps = w /\ u[p].occupied_swap_blocks = t[p].occupied_swap_blocks /\ u[p] \in page_table
    BY <2>1, <2>2, <2>4 DEF page_table
  <2>6. QED
    BY <2>4, <2>5 DEF w
<1>3. TablesType(u)
  <2>1. u \in [DOMAIN u -> page_table]
    <3>1. u = [p \in DOMAIN t |-> u[p]]
      BY <1>1 DEF DisabledIn, UpdateEntries
    <3>2. QED
      BY <1>1, <1>2, <3>1
  <2>2. QED
    BY <1>1, <1>2, <2>1 DEF TablesType
<1>4. \A p \in DOMAIN t : \A n \in DOMAIN t[p].vps :
        u[p].vps[n] = IF <<p, n>> \in vps THEN Disabled(t[p].vps[n]) ELSE t[p].vps[n]
  BY <1>2
<1>5. SameShape(t, u)
  <2>1. ASSUME NEW p \in DOMAIN t, NEW n \in DOMAIN t[p].vps
        PROVE  u[p].vps[n].id = t[p].vps[n].id
    <3>1. t[p].vps[n] \in virtual_page
      BY TableTypes
    <3>2. QED
      BY <1>4, <3>1 DEF Disabled, virtual_page
  <2>2. QED
    BY <1>1, <1>2, <2>1 DEF SameShape
<1>6. QED
  BY <1>3, <1>4, <1>5

\* The elements of peer_map, one per page of a process.
LEMMA PeersMembers ==
  ASSUME NEW t, NEW pm, PeersOK(pm, t)
  PROVE  \A x : x \in pm <=> \E p \in DOMAIN t : \E n \in DOMAIN t[p].vps : x = <<t[p].vps[n].id, <<p, n>>>>
  BY DEF PeersOK

\* A step that changes only PTEs leaves peer_map right.
LEMMA PeersSameShape ==
  ASSUME NEW t, NEW u, SameShape(t, u), NEW pm, PeersOK(pm, t)
  PROVE  PeersOK(pm, u)
<1>1. \A p \in DOMAIN t : {<<u[p].vps[n].id, <<p, n>>>> : n \in DOMAIN u[p].vps}
                        = {<<t[p].vps[n].id, <<p, n>>>> : n \in DOMAIN t[p].vps}
  BY DEF SameShape
<1>2. QED
  BY <1>1 DEF PeersOK, SameShape

\* Following peer_map from a set of file_ids gives their pages.
LEMMA PeersFollowed ==
  ASSUME NEW t, PeersOK(peer_map, t), NEW ids, NEW p \in DOMAIN t, NEW n \in DOMAIN t[p].vps
  PROVE  <<p, n>> \in Peers(ids) <=> t[p].vps[n].id \in ids
<1>1. ASSUME <<p, n>> \in Peers(ids)
      PROVE  t[p].vps[n].id \in ids
  <2>1. PICK x \in peer_map : x[1] \in ids /\ <<p, n>> = x[2]
    BY <1>1 DEF Peers
  <2>2. PICK q \in DOMAIN t : \E k \in DOMAIN t[q].vps : x = <<t[q].vps[k].id, <<q, k>>>>
    BY <2>1, PeersMembers
  <2>3. PICK m \in DOMAIN t[q].vps : x = <<t[q].vps[m].id, <<q, m>>>>
    BY <2>2
  <2>4. q = p /\ m = n
    BY <2>1, <2>3
  <2>5. QED
    BY <2>1, <2>3, <2>4
<1>2. ASSUME t[p].vps[n].id \in ids
      PROVE  <<p, n>> \in Peers(ids)
  <2>1. <<t[p].vps[n].id, <<p, n>>>> \in peer_map
    BY PeersMembers
  <2>2. QED
    BY <1>2, <2>1 DEF Peers
<1>3. QED
  BY <1>1, <1>2

\* The swap blocks do not depend on PTEs.
LEMMA SwapSameShape ==
  ASSUME NEW t, NEW u, SameShape(t, u), NEW avail, SwapOK(t, avail)
  PROVE  SwapOK(u, avail)
<1>1. \A p \in DOMAIN t : \A n \in DOMAIN t[p].vps : u[p].vps[n].id = t[p].vps[n].id
  BY DEF SameShape
<1>2. \A p \in DOMAIN t : DOMAIN u[p].vps = DOMAIN t[p].vps
  BY DEF SameShape
<1>3. \A p \in DOMAIN t : {n \in DOMAIN u[p].vps : u[p].vps[n].id.swap_backed}
                        = {n \in DOMAIN t[p].vps : t[p].vps[n].id.swap_backed}
  BY <1>1, <1>2
<1>4. QED
  BY <1>1, <1>2, <1>3 DEF SwapOK, SameShape

\* What set_peer does.
Mapped(e, ppage, write_enable) ==
  [e EXCEPT !.ppage = ppage, !.read_enable = TRUE, !.write_enable = write_enable]

\* set_peer gives every page with the file_id of page n the same PTE, and changes no other.
LEMMA MappedEntries ==
  ASSUME NEW t, TablesType(t), PeersOK(peer_map, t),
         cur_table \in DOMAIN t, NEW n \in DOMAIN t[cur_table].vps, t[cur_table].vps[n].id = Page(n).id,
         NEW ppage \in PhysicalPage, NEW write_enable \in BOOLEAN,
         NEW u, u = set_peer(t, n, ppage, write_enable)
  PROVE  /\ TablesType(u) /\ SameShape(t, u)
         /\ \A p \in DOMAIN t : \A m \in DOMAIN t[p].vps :
              u[p].vps[m] = IF t[p].vps[m].id = Page(n).id
                            THEN Mapped(t[p].vps[m], ppage, write_enable) ELSE t[p].vps[m]
<1> DEFINE vps == Peers({Page(n).id}) \cup {<<cur_table, n>>}
<1>0. \A p \in DOMAIN t : \A m \in DOMAIN t[p].vps : <<p, m>> \in vps <=> t[p].vps[m].id = Page(n).id
  <2>1. ASSUME NEW p \in DOMAIN t, NEW m \in DOMAIN t[p].vps
        PROVE  <<p, m>> \in Peers({Page(n).id}) <=> t[p].vps[m].id \in {Page(n).id}
    BY PeersFollowed
  <2>2. QED
    BY <2>1
<1> HIDE DEF vps
<1>1. /\ DOMAIN u = DOMAIN t
      /\ u = [p \in DOMAIN t |-> u[p]]
      /\ \A p \in DOMAIN t :
           u[p] = [t[p] EXCEPT !.vps = [m \in DOMAIN t[p].vps |->
                     IF <<p, m>> \in vps THEN Mapped(t[p].vps[m], ppage, write_enable)
                     ELSE t[p].vps[m]]]
  BY DEF UpdateEntries, set_peer, Mapped, vps
<1>2. ASSUME NEW p \in DOMAIN t
      PROVE  /\ u[p] \in page_table
             /\ u[p].occupied_swap_blocks = t[p].occupied_swap_blocks
             /\ u[p].vps = [m \in DOMAIN t[p].vps |->
                              IF <<p, m>> \in vps THEN Mapped(t[p].vps[m], ppage, write_enable)
                              ELSE t[p].vps[m]]
             /\ Len(u[p].vps) = Len(t[p].vps)
  <2>1. /\ t[p] \in page_table /\ t[p].occupied_swap_blocks \in Nat
        /\ Len(t[p].vps) \in Nat /\ DOMAIN t[p].vps = 1 .. Len(t[p].vps)
        /\ \A m \in DOMAIN t[p].vps : t[p].vps[m] \in virtual_page
    BY TableTypes
  <2> DEFINE w == [m \in DOMAIN t[p].vps |->
                     IF <<p, m>> \in vps THEN Mapped(t[p].vps[m], ppage, write_enable)
                     ELSE t[p].vps[m]]
  <2>2. u[p] = [t[p] EXCEPT !.vps = w]
    BY <1>1
  <2>3. w \in [1 .. Len(t[p].vps) -> virtual_page]
    <3>0. ppage \in 0 .. num_memory_pages
      BY SizesAssumption DEF PhysicalPage
    <3>1. ASSUME NEW e \in virtual_page PROVE Mapped(e, ppage, write_enable) \in virtual_page
      BY <3>0 DEF Mapped, virtual_page
    <3>2. QED
      BY <2>1, <3>1
  <2> HIDE DEF w
  <2>4. w \in Seq(virtual_page) /\ Len(w) = Len(t[p].vps)
    BY <2>1, <2>3
  <2>5. u[p].vps = w /\ u[p].occupied_swap_blocks = t[p].occupied_swap_blocks /\ u[p] \in page_table
    BY <2>1, <2>2, <2>4 DEF page_table
  <2>6. QED
    BY <2>4, <2>5 DEF w
<1>3. TablesType(u)
  <2>1. u \in [DOMAIN u -> page_table]
    BY <1>1, <1>2
  <2>2. QED
    BY <1>1, <1>2, <2>1 DEF TablesType
<1>4. \A p \in DOMAIN t : \A m \in DOMAIN t[p].vps :
        u[p].vps[m] = IF t[p].vps[m].id = Page(n).id
                      THEN Mapped(t[p].vps[m], ppage, write_enable) ELSE t[p].vps[m]
  BY <1>0, <1>2
<1>5. SameShape(t, u)
  <2>1. ASSUME NEW p \in DOMAIN t, NEW m \in DOMAIN t[p].vps
        PROVE  u[p].vps[m].id = t[p].vps[m].id
    <3>1. t[p].vps[m] \in virtual_page
      BY TableTypes
    <3>2. QED
      BY <1>4, <3>1 DEF Mapped, virtual_page
  <2>2. QED
    BY <1>1, <1>2, <2>1 DEF SameShape
<1>6. QED
  BY <1>3, <1>4, <1>5

-----------------------------------------------------------------------------
(* The clock *)

\* The pinned page is a physical page, and at least one other is.
LEMMA PhysicalPages ==
  /\ 0 \in PhysicalPage /\ OwnPage \subseteq PhysicalPage /\ 0 \notin OwnPage /\ OwnPage # {}
  /\ IsFiniteSet(PhysicalPage) /\ IsFiniteSet(OwnPage) /\ num_memory_pages \notin PhysicalPage
<1>1. num_memory_pages \in Nat /\ num_memory_pages # 0 /\ num_memory_pages # 1
  BY SizesAssumption
<1>2. 0 \in PhysicalPage /\ 1 \in OwnPage /\ num_memory_pages \notin PhysicalPage
  BY <1>1 DEF PhysicalPage, OwnPage
<1>3. IsFiniteSet(PhysicalPage)
  BY <1>1, FS_Interval DEF PhysicalPage
<1>4. IsFiniteSet(OwnPage)
  BY <1>3, FS_Subset DEF OwnPage
<1>5. QED
  BY <1>2, <1>3, <1>4 DEF OwnPage

\* The clock after the hand has passed some pages: the same pages, and the next in front.
LEMMA Rotated ==
  ASSUME clock_queue \in Seq(OwnPage), clock_queue # <<>>, Passed \in 0 .. Len(clock_queue)
  PROVE  /\ ClockRotated \in Seq(OwnPage) /\ ClockRotated # <<>>
         /\ Head(ClockRotated) = clock_queue[IF Passed < Len(clock_queue) THEN Passed + 1 ELSE 1]
         /\ ToSet(ClockRotated) = ToSet(clock_queue)
         /\ IsInjective(clock_queue) => IsInjective(ClockRotated)
<1>1. ClockRotated = SubSeq(clock_queue, Passed + 1, Len(clock_queue)) \o SubSeq(clock_queue, 1, Passed)
  BY DEF ClockRotated
<1>2. IsRotation(ClockRotated, clock_queue, Passed, OwnPage)
  BY <1>1, ElementsOfRotation, Zenon
<1>3. QED
  BY <1>2 DEF IsRotation

\* Where the hand stops: the page evicted is one it has passed or one that is not referenced.
LEMMA HandStops ==
  ASSUME MemoryTypes, PartOK(available_physical_pages, clock_queue), NeedsSweep
  PROVE  /\ Passed \in 0 .. Len(clock_queue)
         /\ ClockRotated \in Seq(OwnPage) /\ ClockRotated # <<>>
         /\ ToSet(ClockRotated) = OwnPage /\ ToSet(clock_queue) = OwnPage
         /\ IsInjective(ClockRotated)
         /\ Head(ClockRotated) \in OwnPage
         /\ Head(ClockRotated) \in PassedPages \/ ~physical_table[Head(ClockRotated)].referenced
<1>1. /\ clock_queue \in Seq(OwnPage) /\ Len(clock_queue) \in Nat /\ DOMAIN clock_queue = 1 .. Len(clock_queue)
      /\ IsInjective(clock_queue)
  BY ElementsOfSeq DEF MemoryTypes, PartOK
<1>2. ToSet(clock_queue) = OwnPage
  <2>1. ToSet(<<>>) = {}
    BY EmptySeq DEF ToSet
  <2>2. QED
    BY <2>1 DEF PartOK, NeedsSweep
<1>3. clock_queue # <<>> /\ Len(clock_queue) # 0
  <2>1. ToSet(<<>>) = {}
    BY EmptySeq DEF ToSet
  <2>2. clock_queue # <<>>
    BY <1>2, <2>1, PhysicalPages
  <2>3. QED
    BY <1>1, <2>2, EmptySeq
<1>4. Unreferenced \subseteq 1 .. Len(clock_queue) /\ Unreferenced \subseteq Nat
  BY <1>1 DEF Unreferenced
<1>5. CASE Unreferenced = {}
  <2>1. Passed = Len(clock_queue)
    BY <1>5 DEF Passed, NeedsSweep
  <2>2. Passed \in 0 .. Len(clock_queue) /\ ~(Passed < Len(clock_queue)) /\ 1 \in 1 .. Passed
    BY <1>1, <1>3, <2>1
  <2>3. /\ ClockRotated \in Seq(OwnPage) /\ ClockRotated # <<>>
        /\ Head(ClockRotated) = clock_queue[IF Passed < Len(clock_queue) THEN Passed + 1 ELSE 1]
        /\ ToSet(ClockRotated) = ToSet(clock_queue)
        /\ IsInjective(clock_queue) => IsInjective(ClockRotated)
    <3>1. Passed \in 0 .. Len(clock_queue)
      BY <2>2
    <3>2. QED
      BY <1>1, <1>3, <3>1, Rotated
  <2>4. Head(ClockRotated) = clock_queue[1]
    <3>1. (IF Passed < Len(clock_queue) THEN Passed + 1 ELSE 1) = 1
      BY <2>2
    <3>2. QED
      BY <2>3, <3>1, Zenon
  <2>5. Head(ClockRotated) \in PassedPages
    BY <2>2, <2>4 DEF PassedPages
  <2>6. Head(ClockRotated) \in OwnPage
    BY <2>3, HeadTailProperties
  <2>7. QED
    BY <1>1, <1>2, <2>2, <2>3, <2>5, <2>6
<1>6. CASE Unreferenced # {}
  <2>1. Min(Unreferenced) \in Unreferenced /\ Passed = Min(Unreferenced) - 1
    BY <1>4, <1>6, MinProperties DEF Passed, NeedsSweep
  <2>2. Passed \in 0 .. Len(clock_queue) /\ Passed < Len(clock_queue) /\ Passed + 1 = Min(Unreferenced)
    <3>1. \A a, b \in Nat : a \in 1 .. b => a - 1 \in 0 .. b /\ a - 1 < b /\ (a - 1) + 1 = a
      OBVIOUS
    <3>2. Min(Unreferenced) \in Nat /\ Min(Unreferenced) \in 1 .. Len(clock_queue)
      BY <1>4, <2>1, Zenon
    <3>3. QED
      BY <1>1, <2>1, <3>1, <3>2, Zenon
  <2>3. /\ ClockRotated \in Seq(OwnPage) /\ ClockRotated # <<>>
        /\ Head(ClockRotated) = clock_queue[IF Passed < Len(clock_queue) THEN Passed + 1 ELSE 1]
        /\ ToSet(ClockRotated) = ToSet(clock_queue)
        /\ IsInjective(clock_queue) => IsInjective(ClockRotated)
    <3>1. Passed \in 0 .. Len(clock_queue)
      BY <2>2
    <3>2. QED
      BY <1>1, <1>3, <3>1, Rotated
  <2>4. Head(ClockRotated) = clock_queue[Min(Unreferenced)]
    <3>1. (IF Passed < Len(clock_queue) THEN Passed + 1 ELSE 1) = Min(Unreferenced)
      BY <2>2, Zenon
    <3>2. QED
      BY <2>3, <3>1, Zenon
  <2>5. ~physical_table[Head(ClockRotated)].referenced
    BY <2>1, <2>4 DEF Unreferenced
  <2>6. Head(ClockRotated) \in OwnPage
    BY <2>3, HeadTailProperties
  <2>7. QED
    BY <1>1, <1>2, <2>2, <2>3, <2>5, <2>6
<1>7. QED
  BY <1>5, <1>6

\* The queues after the sweep, and which pages the hand has met.
LEMMA QueuesAfterSweep ==
  ASSUME MemoryTypes, PartOK(available_physical_pages, clock_queue)
  PROVE  /\ AvailableAfterSweep \in Seq(OwnPage) /\ AvailableAfterSweep # <<>>
         /\ ClockAfterSweep \in Seq(OwnPage)
         /\ PartOK(AvailableAfterSweep, ClockAfterSweep)
         /\ PassedPages \subseteq ToSet(clock_queue) /\ Evicted \subseteq ToSet(clock_queue)
         /\ ToSet(ClockAfterSweep) = ToSet(clock_queue) \ Evicted
         /\ ToSet(AvailableAfterSweep) = ToSet(available_physical_pages) \cup Evicted
         /\ \A q \in Evicted : q \in PassedPages \/ ~physical_table[q].referenced
<1>1. /\ clock_queue \in Seq(OwnPage) /\ Len(clock_queue) \in Nat /\ DOMAIN clock_queue = 1 .. Len(clock_queue)
      /\ ToSet(clock_queue) = {clock_queue[k] : k \in 1 .. Len(clock_queue)}
      /\ available_physical_pages \in Seq(OwnPage)
  BY ElementsOfSeq DEF MemoryTypes, PartOK
<1>2. CASE ~NeedsSweep
  <2>1. Passed = 0 /\ Evicted = {}
    BY <1>2 DEF Passed, Evicted
  <2>2. PassedPages = {}
    BY <2>1 DEF PassedPages
  <2>3. AvailableAfterSweep = available_physical_pages /\ ClockAfterSweep = clock_queue
    BY <1>2 DEF AvailableAfterSweep, ClockAfterSweep
  <2>4. QED
    BY <1>1, <1>2, <2>1, <2>2, <2>3 DEF NeedsSweep
<1>3. CASE NeedsSweep
  <2>1. PICK v : v = Head(ClockRotated)
    OBVIOUS
  <2>2. PICK r : r = ClockRotated
    OBVIOUS
  <2>3. /\ Passed \in 0 .. Len(clock_queue)
        /\ r \in Seq(OwnPage) /\ r # <<>>
        /\ ToSet(r) = OwnPage /\ ToSet(clock_queue) = OwnPage
        /\ IsInjective(r)
        /\ v \in OwnPage /\ v = Head(r)
        /\ v \in PassedPages \/ ~physical_table[v].referenced
    BY <1>3, <2>1, <2>2, HandStops
  <2>4. /\ Evicted = {v} /\ ClockAfterSweep = Tail(r) /\ AvailableAfterSweep = <<v>>
    BY <1>3, <2>1, <2>2 DEF Evicted, ClockAfterSweep, AvailableAfterSweep
  <2>5. Tail(r) \in Seq(OwnPage) /\ IsInjective(Tail(r)) /\ ToSet(Tail(r)) = OwnPage \ {v}
    BY <2>3, ElementsOfTail
  <2>6. /\ <<v>> \in Seq(OwnPage) /\ <<v>> # <<>> /\ DOMAIN <<v>> = 1 .. 1 /\ <<v>>[1] = v
    BY <2>3
  <2>7. ToSet(<<v>>) = {v} /\ IsInjective(<<v>>)
    BY <2>6 DEF ToSet, IsInjective
  <2>8. ToSet(available_physical_pages) = {}
    BY <1>3, EmptySeq DEF NeedsSweep, ToSet
  <2>9. PassedPages \subseteq ToSet(clock_queue)
    <3>1. \A k \in 1 .. Passed : k \in 1 .. Len(clock_queue)
      BY <1>1, <2>3
    <3>2. QED
      BY <1>1, <3>1 DEF PassedPages
  <2>10. PartOK(<<v>>, Tail(r))
    BY <2>3, <2>5, <2>7 DEF PartOK
  <2>11. QED
    BY <2>3, <2>4, <2>5, <2>6, <2>7, <2>8, <2>9, <2>10
<1>4. QED
  BY <1>2, <1>3

\* The physical pages after the sweep, and what is in peer_in_phys and on disk.
LEMMA PhysicalSwept ==
  ASSUME MemoryInv
  PROVE  /\ PhysicalAfterSweep \in [PhysicalPage -> physical_page]
         /\ \A q \in PhysicalPage :
              /\ PhysicalAfterSweep[q].id = physical_table[q].id
              /\ PhysicalAfterSweep[q].referenced <=> physical_table[q].referenced /\ q \notin PassedPages
              /\ PhysicalAfterSweep[q].dirty <=> physical_table[q].dirty /\ q \notin Evicted
         /\ DOMAIN ResidentAfterSweep = DOMAIN peer_in_phys \ {physical_table[q].id : q \in Evicted}
         /\ \A id \in DOMAIN ResidentAfterSweep : ResidentAfterSweep[id] = peer_in_phys[id]
         /\ ResidentAfterSweep \in [DOMAIN ResidentAfterSweep -> PhysicalPage]
         /\ BackingAfterSweep \in [BackedIds -> Value]
         /\ \A id \in BackedIds : (\A q \in Evicted : physical_table[q].id # id)
                                    => BackingAfterSweep[id] = backing[id]
<1>1. /\ physmem \in [PhysicalPage -> Value]
      /\ physical_table \in [PhysicalPage -> physical_page]
      /\ peer_in_phys \in [DOMAIN peer_in_phys -> PhysicalPage]
      /\ backing \in [BackedIds -> Value]
      /\ clock_queue \in Seq(OwnPage)
  BY DEF MemoryInv, MemoryTypes
<1>2. ASSUME NEW q \in PhysicalPage
      PROVE  /\ PhysicalAfterSweep[q] \in physical_page
             /\ PhysicalAfterSweep[q].id = physical_table[q].id
             /\ PhysicalAfterSweep[q].referenced <=> physical_table[q].referenced /\ q \notin PassedPages
             /\ PhysicalAfterSweep[q].dirty <=> physical_table[q].dirty /\ q \notin Evicted
  <2>1. physical_table[q] \in [id : PageId, dirty : BOOLEAN, referenced : BOOLEAN]
    BY <1>1 DEF physical_page
  <2>2. PhysicalAfterSweep[q] = [[physical_table[q] EXCEPT
                                    !.referenced = physical_table[q].referenced /\ q \notin PassedPages]
                                  EXCEPT !.dirty = physical_table[q].dirty /\ q \notin Evicted]
    BY <2>1 DEF PhysicalAfterSweep
  <2>3. QED
    BY <2>1, <2>2 DEF physical_page
<1>3. PhysicalAfterSweep \in [PhysicalPage -> physical_page]
  <2>1. DOMAIN PhysicalAfterSweep = PhysicalPage /\ PhysicalAfterSweep = [q \in PhysicalPage |-> PhysicalAfterSweep[q]]
    BY DEF PhysicalAfterSweep
  <2>2. QED
    BY <1>2, <2>1
<1>4. ResidentAfterSweep = [id \in DOMAIN peer_in_phys \ {physical_table[q].id : q \in Evicted} |-> peer_in_phys[id]]
  BY DEF ResidentAfterSweep, Restrict
<1>5. BackingAfterSweep \in [BackedIds -> Value]
  <2>1. Evicted \subseteq PhysicalPage
    BY QueuesAfterSweep, PhysicalPages, ElementsOfSeq DEF MemoryInv, MemoryTypes
  <2>2. ASSUME NEW id \in BackedIds
        PROVE  (IF \E q \in Evicted : physical_table[q].dirty /\ physical_table[q].id = id
                THEN physmem[CHOOSE q \in Evicted : TRUE] ELSE backing[id]) \in Value
    BY <1>1, <2>1
  <2>3. QED
    BY <1>1, <2>2 DEF BackingAfterSweep
<1>6. \A id \in BackedIds : (\A q \in Evicted : physical_table[q].id # id)
                              => BackingAfterSweep[id] = backing[id]
  BY <1>1 DEF BackingAfterSweep
<1>7. QED
  BY <1>1, <1>2, <1>3, <1>4, <1>5, <1>6

\* The sweep leaves memory in order: it evicts a page entirely or not at all.
LEMMA MemorySwept ==
  ASSUME MemoryInv
  PROVE  /\ PagesOK(ToSet(ClockAfterSweep), PhysicalAfterSweep, ResidentAfterSweep)
         /\ DirtyOK(ToSet(AvailableAfterSweep), ToSet(ClockAfterSweep), PhysicalAfterSweep, physmem,
                    BackingAfterSweep)
         /\ \A id \in DOMAIN peer_in_phys : peer_in_phys[id] = 0 => id \in DOMAIN ResidentAfterSweep
<1> DEFINE C  == ToSet(clock_queue)
           A  == ToSet(available_physical_pages)
           C2 == ToSet(ClockAfterSweep)
           A2 == ToSet(AvailableAfterSweep)
           E  == Evicted
           PT == PhysicalAfterSweep
           R  == ResidentAfterSweep
           B  == BackingAfterSweep
<1>1. /\ C \subseteq OwnPage /\ A \subseteq OwnPage /\ A \cap C = {}
      /\ E \subseteq C /\ C2 = C \ E /\ A2 = A \cup E
      /\ OwnPage \subseteq PhysicalPage /\ 0 \notin OwnPage
  BY QueuesAfterSweep, ElementsOfSeq, PhysicalPages DEF MemoryInv, MemoryTypes, PartOK
<1>2. /\ \A q \in PhysicalPage : /\ PT[q].id = physical_table[q].id
                                 /\ PT[q].dirty <=> physical_table[q].dirty /\ q \notin E
      /\ DOMAIN R = DOMAIN peer_in_phys \ {physical_table[q].id : q \in E}
      /\ \A id \in DOMAIN R : R[id] = peer_in_phys[id]
      /\ \A id \in BackedIds : (\A q \in E : physical_table[q].id # id) => B[id] = backing[id]
  BY PhysicalSwept
<1>3. /\ \A q \in C : /\ physical_table[q].id \in DOMAIN peer_in_phys
                      /\ peer_in_phys[physical_table[q].id] = q /\ physical_table[q].id \in BackedIds
      /\ \A id \in DOMAIN peer_in_phys :
            IF peer_in_phys[id] = 0 THEN id.swap_backed
            ELSE peer_in_phys[id] \in C /\ physical_table[peer_in_phys[id]].id = id
  BY DEF MemoryInv, PagesOK
<1>4. /\ \A q \in C : ~physical_table[q].dirty => physmem[q] = backing[physical_table[q].id]
      /\ \A q \in A : ~physical_table[q].dirty
  BY DEF MemoryInv, DirtyOK
<1> HIDE DEF C, A, C2, A2, E, PT, R, B
<1>5. \A q \in C2, v \in E : physical_table[q].id # physical_table[v].id
  BY <1>1, <1>3
<1>6. PagesOK(C2, PT, R)
  <2>1. ASSUME NEW q \in C2
        PROVE  PT[q].id \in DOMAIN R /\ R[PT[q].id] = q /\ PT[q].id \in BackedIds
    BY <1>1, <1>2, <1>3, <1>5
  <2>2. ASSUME NEW id \in DOMAIN R
        PROVE  IF R[id] = 0 THEN id.swap_backed ELSE R[id] \in C2 /\ PT[R[id]].id = id
    <3>1. id \in DOMAIN peer_in_phys /\ R[id] = peer_in_phys[id] /\ \A v \in E : physical_table[v].id # id
      BY <1>2
    <3>2. CASE R[id] = 0
      BY <1>3, <3>1, <3>2
    <3>3. CASE R[id] # 0
      <4>1. R[id] \in C /\ physical_table[R[id]].id = id
        BY <1>3, <3>1, <3>3
      <4>2. R[id] \notin E
        BY <3>1, <4>1
      <4>3. QED
        BY <1>1, <1>2, <3>3, <4>1, <4>2
    <3>4. QED
      BY <3>2, <3>3
  <2>3. QED
    BY <2>1, <2>2 DEF PagesOK
<1>7. DirtyOK(A2, C2, PT, physmem, B)
  <2>1. ASSUME NEW q \in C2, ~PT[q].dirty
        PROVE  physmem[q] = B[PT[q].id]
    <3>1. q \in C /\ q \notin E /\ q \in PhysicalPage
      BY <1>1
    <3>2. ~physical_table[q].dirty /\ PT[q].id = physical_table[q].id /\ physical_table[q].id \in BackedIds
      BY <1>2, <1>3, <2>1, <3>1
    <3>3. B[physical_table[q].id] = backing[physical_table[q].id]
      BY <1>2, <1>5, <3>2
    <3>4. QED
      BY <1>4, <3>1, <3>2, <3>3
  <2>2. ASSUME NEW q \in A2
        PROVE  ~PT[q].dirty
    BY <1>1, <1>2, <1>4
  <2>3. QED
    BY <2>1, <2>2 DEF DirtyOK
<1>8. \A id \in DOMAIN peer_in_phys : peer_in_phys[id] = 0 => id \in DOMAIN R
  BY <1>1, <1>2, <1>3
<1>9. QED
  BY <1>6, <1>7, <1>8 DEF C2, A2, PT, R, B

\* The sweep keeps the PTEs right: those of the pages it passed are disabled, and a page that
\* it evicts without passing it was not accessible.
LEMMA TablesSwept ==
  ASSUME MemoryInv, TablesInv
  PROVE  /\ TablesType(TablesAfterSweep) /\ SameShape(tables, TablesAfterSweep)
         /\ ProtectionOK(TablesAfterSweep, PhysicalAfterSweep, ResidentAfterSweep)
<1> DEFINE C  == ToSet(clock_queue)
           E  == Evicted
           P  == PassedPages
           ids == {physical_table[q].id : q \in P}
           PT == PhysicalAfterSweep
           R  == ResidentAfterSweep
           T  == TablesAfterSweep
<1>1. /\ C \subseteq OwnPage /\ E \subseteq C /\ P \subseteq C
      /\ OwnPage \subseteq PhysicalPage /\ 0 \notin OwnPage
      /\ \A q \in E : q \in P \/ ~physical_table[q].referenced
  BY QueuesAfterSweep, ElementsOfSeq, PhysicalPages DEF MemoryInv, MemoryTypes
<1>2. /\ \A q \in PhysicalPage :
           /\ PT[q].referenced <=> physical_table[q].referenced /\ q \notin P
           /\ PT[q].dirty <=> physical_table[q].dirty /\ q \notin E
      /\ DOMAIN R = DOMAIN peer_in_phys \ {physical_table[q].id : q \in E}
      /\ \A id \in DOMAIN R : R[id] = peer_in_phys[id]
  BY PhysicalSwept
<1>3. /\ \A q \in C : peer_in_phys[physical_table[q].id] = q
      /\ \A id \in DOMAIN peer_in_phys :
            peer_in_phys[id] # 0 => peer_in_phys[id] \in C /\ physical_table[peer_in_phys[id]].id = id
  BY DEF MemoryInv, PagesOK
<1>4. TablesType(tables) /\ PeersOK(peer_map, tables) /\ ProtectionOK(tables, physical_table, peer_in_phys)
  BY DEF TablesInv
<1>5. T = DisabledIn(tables, Peers(ids))
  BY DEF TablesAfterSweep, DisabledIn
<1> HIDE DEF C, E, P, ids, PT, R, T
<1>6. /\ TablesType(T) /\ SameShape(tables, T)
      /\ \A p \in DOMAIN tables : \A n \in DOMAIN tables[p].vps :
           T[p].vps[n] = IF <<p, n>> \in Peers(ids) THEN Disabled(tables[p].vps[n]) ELSE tables[p].vps[n]
  BY <1>4, <1>5, DisabledEntries
<1>7. ASSUME NEW p \in DOMAIN tables, NEW n \in DOMAIN tables[p].vps
      PROVE  EntryOK(T[p].vps[n], PT, R)
  <2>1. PICK e : e = tables[p].vps[n]
    OBVIOUS
  <2>2. PICK f : f = T[p].vps[n]
    OBVIOUS
  <2>3. f = IF e.id \in ids THEN Disabled(e) ELSE e
    BY <1>4, <1>6, <2>1, <2>2, PeersFollowed
  <2>4. e \in virtual_page /\ EntryOK(e, physical_table, peer_in_phys)
    BY <1>4, <2>1, TableTypes DEF ProtectionOK
  <2>5. /\ f.id = e.id /\ f.ppage = e.ppage
        /\ f.read_enable <=> e.read_enable /\ e.id \notin ids
        /\ f.write_enable <=> e.write_enable /\ e.id \notin ids
    BY <2>3, <2>4 DEF virtual_page, Disabled
  <2>6. CASE e.id \notin DOMAIN peer_in_phys
    <3>1. e.id \notin DOMAIN R
      BY <1>2, <2>6
    <3>2. ~e.read_enable /\ ~e.write_enable
      BY <2>4, <2>6 DEF EntryOK
    <3>3. QED
      BY <2>2, <2>5, <3>1, <3>2 DEF EntryOK
  <2>7. CASE e.id \in DOMAIN peer_in_phys
    <3>1. /\ e.ppage = peer_in_phys[e.id]
          /\ e.read_enable <=> (e.ppage = 0 \/ physical_table[e.ppage].referenced)
          /\ e.write_enable <=> (e.ppage # 0 /\ physical_table[e.ppage].referenced
                                             /\ physical_table[e.ppage].dirty)
      BY <2>4, <2>7 DEF EntryOK
    <3>2. CASE e.ppage = 0
      <4>1. e.id \notin ids /\ e.id \in DOMAIN R
        <5>1. \A q \in C : physical_table[q].id # e.id
          <6>1. 0 \notin C
            BY <1>1
          <6>2. peer_in_phys[e.id] = 0
            BY <3>1, <3>2
          <6>3. \A q \in C : peer_in_phys[physical_table[q].id] = q
            BY <1>3
          <6>4. QED
            BY <6>1, <6>2, <6>3, Zenon
        <5>2. QED
          <6>1. e.id \notin ids
            BY <1>1, <5>1 DEF ids
          <6>2. e.id \notin {physical_table[q].id : q \in E}
            BY <1>1, <5>1
          <6>3. QED
            BY <1>2, <2>7, <6>1, <6>2
      <4>2. QED
        BY <1>2, <2>2, <2>5, <3>1, <3>2, <4>1 DEF EntryOK
    <3>3. CASE e.ppage # 0
      <4>1. e.ppage \in C /\ physical_table[e.ppage].id = e.id /\ e.ppage \in PhysicalPage
        BY <1>1, <1>3, <2>7, <3>1, <3>3
      <4>2. e.id \in ids <=> e.ppage \in P
        BY <1>1, <1>3, <3>1, <4>1 DEF ids
      <4>3. e.id \notin DOMAIN R <=> e.ppage \in E
        BY <1>1, <1>2, <1>3, <2>7, <3>1, <4>1
      <4>4. CASE e.ppage \in E
        <5>1. ~f.read_enable /\ ~f.write_enable
          BY <1>1, <2>5, <3>1, <3>3, <4>2, <4>4
        <5>2. QED
          BY <2>2, <2>5, <4>3, <4>4, <5>1 DEF EntryOK
      <4>5. CASE e.ppage \notin E
        <5>1. f.ppage = R[f.id] /\ f.id \in DOMAIN R
          BY <1>2, <2>5, <3>1, <4>3, <4>5
        <5>2. /\ PT[f.ppage].referenced <=> physical_table[e.ppage].referenced /\ e.ppage \notin P
              /\ PT[f.ppage].dirty <=> physical_table[e.ppage].dirty
          BY <1>2, <2>5, <4>1, <4>5
        <5>3. QED
          BY <2>2, <2>5, <3>1, <3>3, <4>2, <5>1, <5>2 DEF EntryOK
      <4>6. QED
        BY <4>4, <4>5
    <3>4. QED
      BY <3>2, <3>3
  <2>8. QED
    BY <2>6, <2>7
<1>8. ProtectionOK(T, PT, R)
  <2>1. DOMAIN T = DOMAIN tables /\ \A p \in DOMAIN tables : DOMAIN T[p].vps = DOMAIN tables[p].vps
    BY <1>6 DEF SameShape
  <2>2. QED
    BY <1>7, <2>1 DEF ProtectionOK
<1>9. QED
  BY <1>6, <1>8 DEF PT, R, T

-----------------------------------------------------------------------------
(* Faults *)

\* Faults leave the swap blocks alone.
LEMMA SwapKept ==
  ASSUME SwapInv, SameShape(tables, tables'), UNCHANGED swapVars,
         FreeSwapOK(available_swap_blocks, peer_in_phys')
  PROVE  SwapInv'
<1>1. SwapOK(tables, available_swap_blocks)
  BY DEF SwapInv
<1>2. SwapOK(tables', available_swap_blocks)
  BY <1>1, SwapSameShape
<1>3. UNCHANGED <<available_swap_blocks, num_swap_blocks>>
  BY DEF swapVars
<1>4. QED
  BY <1>2, <1>3 DEF SwapInv, SwapCountInv

\* The page of a fault has a PTE of its type that agrees with its physical page.
LEMMA PageFacts ==
  ASSUME MemoryInv, TablesInv, ControlInv, CanCall, NEW n \in DOMAIN tables[cur_table].vps
  PROVE  /\ cur_table \in DOMAIN tables /\ Page(n) = tables[cur_table].vps[n]
         /\ Page(n) \in virtual_page
         /\ EntryOK(Page(n), physical_table, peer_in_phys)
         /\ n \in 1 .. MAX_PAGE_NUM /\ n \in Nat
<1>1. cur_table \in DOMAIN tables
  BY DEF CanCall, ControlInv
<1>2. Page(n) = tables[cur_table].vps[n]
  BY DEF Page
<1>3. Page(n) \in virtual_page /\ n \in 1 .. Len(tables[cur_table].vps) /\ Len(tables[cur_table].vps) \in Nat
      /\ Len(tables[cur_table].vps) <= MAX_PAGE_NUM
  BY <1>1, <1>2, TableTypes DEF TablesInv
<1>4. EntryOK(Page(n), physical_table, peer_in_phys)
  BY <1>1, <1>2 DEF TablesInv, ProtectionOK
<1>5. n \in 1 .. MAX_PAGE_NUM /\ n \in Nat
  BY <1>3, SizesAssumption
<1>6. QED
  BY <1>1, <1>2, <1>3, <1>4, <1>5

\* A fault on a resident page: referenced and dirty bits, and with them every PTE of it.
LEMMA ResidentFault ==
  ASSUME MemoryInv, TablesInv, SwapInv, ControlInv, CanCall,
         NEW n \in DOMAIN tables[cur_table].vps, NEW write \in BOOLEAN, Denied(n, write),
         FaultOnResident(n, write), UNCHANGED <<peer_map, swapVars, current>>
  PROVE  MemoryInv' /\ TablesInv' /\ SwapInv' /\ SameShape(tables, tables') /\ ~Denied(n, write)'
<1> DEFINE q == Page(n).ppage
           w == WriteEnabled(n, write)
           C == ToSet(clock_queue)
<1>1. /\ cur_table \in DOMAIN tables /\ Page(n) = tables[cur_table].vps[n] /\ Page(n) \in virtual_page
      /\ EntryOK(Page(n), physical_table, peer_in_phys)
  BY PageFacts
<1>2. Page(n).id \in DOMAIN peer_in_phys /\ ~(write /\ q = 0)
  BY DEF FaultOnResident, NeedsPage, Resident
<1>3. /\ q = peer_in_phys[Page(n).id]
      /\ Page(n).read_enable <=> (q = 0 \/ physical_table[q].referenced)
      /\ Page(n).write_enable <=> (q # 0 /\ physical_table[q].referenced /\ physical_table[q].dirty)
  BY <1>1, <1>2 DEF EntryOK
<1>4. q # 0
  BY <1>2, <1>3 DEF Denied
<1>5. /\ \A x \in C : /\ physical_table[x].id \in DOMAIN peer_in_phys
                      /\ peer_in_phys[physical_table[x].id] = x /\ physical_table[x].id \in BackedIds
      /\ \A id \in DOMAIN peer_in_phys :
            IF peer_in_phys[id] = 0 THEN id.swap_backed
            ELSE peer_in_phys[id] \in C /\ physical_table[peer_in_phys[id]].id = id
  BY DEF MemoryInv, PagesOK
<1>6. C \subseteq OwnPage /\ OwnPage \subseteq PhysicalPage /\ 0 \notin C
  BY ElementsOfSeq, PhysicalPages DEF MemoryInv, MemoryTypes
<1>7. q \in C /\ physical_table[q].id = Page(n).id /\ q \in PhysicalPage
  BY <1>2, <1>3, <1>4, <1>5, <1>6
<1>8. physical_table \in [PhysicalPage -> physical_page]
  BY DEF MemoryInv, MemoryTypes
<1>9. w \in BOOLEAN /\ (w <=> write \/ physical_table[q].dirty)
  BY <1>1, <1>3, <1>7, <1>8 DEF WriteEnabled, virtual_page, physical_page
<1>10. /\ physical_table' \in [PhysicalPage -> physical_page]
       /\ \A x \in PhysicalPage : physical_table'[x].id = physical_table[x].id
       /\ \A x \in PhysicalPage : x # q => physical_table'[x] = physical_table[x]
       /\ physical_table'[q].dirty <=> physical_table[q].dirty \/ write
       /\ physical_table'[q].referenced
  <2>1. physical_table[q] \in [id : PageId, dirty : BOOLEAN, referenced : BOOLEAN]
    BY <1>7, <1>8 DEF physical_page
  <2>2. PICK r : r = [[physical_table[q] EXCEPT !.dirty = physical_table[q].dirty \/ write]
                        EXCEPT !.referenced = TRUE]
    OBVIOUS
  <2>3. r \in physical_page /\ r.id = physical_table[q].id /\ r.referenced
        /\ (r.dirty <=> physical_table[q].dirty \/ write)
    BY <2>1, <2>2 DEF physical_page
  <2>4. physical_table' = [physical_table EXCEPT ![q] = r]
    BY <1>7, <1>8, <2>2 DEF FaultOnResident
  <2>5. QED
    BY <1>7, <1>8, <2>3, <2>4
<1>11. UNCHANGED <<physmem, available_physical_pages, clock_queue, peer_in_phys, backing, accessed,
                   peer_map, available_swap_blocks, num_swap_blocks, cur_table>>
  BY DEF FaultOnResident, swapVars, current
<1>12. tables' = set_peer(tables, n, q, w)
  BY DEF FaultOnResident
<1>13. /\ TablesType(tables') /\ SameShape(tables, tables')
       /\ \A p \in DOMAIN tables : \A m \in DOMAIN tables[p].vps :
            tables'[p].vps[m] = IF tables[p].vps[m].id = Page(n).id THEN Mapped(tables[p].vps[m], q, w)
                                ELSE tables[p].vps[m]
  <2>1. TablesType(tables) /\ PeersOK(peer_map, tables)
    BY DEF TablesInv
  <2> HIDE DEF q, w
  <2>2. QED
    BY <1>1, <1>7, <1>9, <1>12, <2>1, MappedEntries
<1> HIDE DEF q, w, C
<1>14. MemoryInv'
  <2>1. MemoryTypes'
    BY <1>10, <1>11 DEF MemoryInv, MemoryTypes
  <2>2. PagesOK(C, physical_table', peer_in_phys)
    BY <1>5, <1>6, <1>10 DEF PagesOK
  <2>3. DirtyOK(ToSet(available_physical_pages), C, physical_table', physmem, backing)
    <3>1. /\ \A x \in C : ~physical_table[x].dirty => physmem[x] = backing[physical_table[x].id]
          /\ \A x \in ToSet(available_physical_pages) : ~physical_table[x].dirty
      BY DEF MemoryInv, DirtyOK, C
    <3>2. /\ ToSet(available_physical_pages) \cap C = {}
          /\ ToSet(available_physical_pages) \subseteq PhysicalPage
      BY <1>6, ElementsOfSeq DEF MemoryInv, MemoryTypes, PartOK, C
    <3>3. ASSUME NEW x \in C, ~physical_table'[x].dirty
          PROVE  physmem[x] = backing[physical_table'[x].id]
      BY <1>6, <1>10, <3>1, <3>3
    <3>4. ASSUME NEW x \in ToSet(available_physical_pages)
          PROVE  ~physical_table'[x].dirty
      BY <1>7, <1>10, <3>1, <3>2
    <3>5. QED
      BY <3>3, <3>4 DEF DirtyOK
  <2>4. PartOK(available_physical_pages, clock_queue)
    BY DEF MemoryInv
  <2>5. QED
    BY <1>11, <2>1, <2>2, <2>3, <2>4 DEF MemoryInv, C
<1>15. ASSUME NEW p \in DOMAIN tables, NEW m \in DOMAIN tables[p].vps
       PROVE  EntryOK(tables'[p].vps[m], physical_table', peer_in_phys)
  <2>1. PICK e : e = tables[p].vps[m]
    OBVIOUS
  <2>2. e \in virtual_page /\ EntryOK(e, physical_table, peer_in_phys)
    BY <2>1, TableTypes DEF TablesInv, ProtectionOK
  <2>3. CASE e.id = Page(n).id
    <3>1. tables'[p].vps[m] = Mapped(e, q, w)
      BY <1>13, <2>1, <2>3
    <3>2. PICK f : f = Mapped(e, q, w)
      OBVIOUS
    <3>3. f.id = e.id /\ f.ppage = q /\ f.read_enable = TRUE /\ f.write_enable = w
      BY <2>2, <3>2 DEF Mapped, virtual_page
    <3>4. EntryOK(f, physical_table', peer_in_phys)
      BY <1>2, <1>3, <1>4, <1>9, <1>10, <2>3, <3>3 DEF EntryOK
    <3>5. QED
      BY <3>1, <3>2, <3>4
  <2>4. CASE e.id # Page(n).id
    <3>1. tables'[p].vps[m] = e
      BY <1>13, <2>1, <2>4
    <3>2. CASE e.id \in DOMAIN peer_in_phys
      <4>1. e.ppage = peer_in_phys[e.id]
        BY <2>2, <3>2 DEF EntryOK
      <4>2. e.ppage # 0 => e.ppage \in PhysicalPage /\ e.ppage # q
        BY <1>5, <1>6, <1>7, <2>4, <3>2, <4>1
      <4>3. e.ppage # 0 => physical_table'[e.ppage] = physical_table[e.ppage]
        BY <1>10, <4>2
      <4>4. EntryOK(e, physical_table', peer_in_phys)
        BY <2>2, <3>2, <4>3 DEF EntryOK
      <4>5. QED
        BY <3>1, <4>4
    <3>3. CASE e.id \notin DOMAIN peer_in_phys
      BY <2>2, <3>1, <3>3 DEF EntryOK
    <3>4. QED
      BY <3>2, <3>3
  <2>5. QED
    BY <2>3, <2>4
<1>16. TablesInv'
  <2>1. PeersOK(peer_map, tables')
    BY <1>13, PeersSameShape DEF TablesInv
  <2>2. ProtectionOK(tables', physical_table', peer_in_phys)
    BY <1>13, <1>15 DEF ProtectionOK, SameShape
  <2>3. QED
    BY <1>11, <1>13, <2>1, <2>2 DEF TablesInv
<1>17. SwapInv'
  <2>1. FreeSwapOK(available_swap_blocks, peer_in_phys')
    BY <1>11 DEF SwapInv
  <2>2. QED
    BY <1>13, <2>1, SwapKept
<1>18. ~Denied(n, write)'
  <2>1. tables'[cur_table].vps[n] = Mapped(Page(n), q, w)
    BY <1>1, <1>13
  <2>2. Mapped(Page(n), q, w).read_enable = TRUE /\ Mapped(Page(n), q, w).write_enable = w
    BY <1>1 DEF Mapped, virtual_page
  <2>3. QED
    BY <1>9, <1>11, <2>1, <2>2 DEF Denied, Page
<1>19. QED
  BY <1>13, <1>14, <1>16, <1>17, <1>18

\* A fault that fails leaves what the sweep has done.
LEMMA FailedFault ==
  ASSUME MemoryInv, TablesInv, SwapInv, NEW n, NEW write,
         FaultFails(n, write), UNCHANGED <<peer_map, swapVars, current>>
  PROVE  MemoryInv' /\ TablesInv' /\ SwapInv' /\ SameShape(tables, tables')
<1>1. /\ physical_table' = PhysicalAfterSweep
      /\ available_physical_pages' = AvailableAfterSweep
      /\ clock_queue' = ClockAfterSweep
      /\ peer_in_phys' = ResidentAfterSweep
      /\ backing' = BackingAfterSweep
      /\ tables' = TablesAfterSweep
      /\ UNCHANGED <<physmem, accessed, peer_map, swapVars, available_swap_blocks, num_swap_blocks>>
  BY DEF FaultFails, swapVars
<1>2. /\ AvailableAfterSweep \in Seq(OwnPage) /\ ClockAfterSweep \in Seq(OwnPage)
      /\ PartOK(AvailableAfterSweep, ClockAfterSweep)
  BY QueuesAfterSweep DEF MemoryInv
<1>3. /\ PhysicalAfterSweep \in [PhysicalPage -> physical_page]
      /\ DOMAIN ResidentAfterSweep \subseteq DOMAIN peer_in_phys
      /\ \A id \in DOMAIN ResidentAfterSweep : ResidentAfterSweep[id] = peer_in_phys[id]
      /\ ResidentAfterSweep \in [DOMAIN ResidentAfterSweep -> PhysicalPage]
      /\ BackingAfterSweep \in [BackedIds -> Value]
  BY PhysicalSwept
<1>4. /\ PagesOK(ToSet(ClockAfterSweep), PhysicalAfterSweep, ResidentAfterSweep)
      /\ DirtyOK(ToSet(AvailableAfterSweep), ToSet(ClockAfterSweep), PhysicalAfterSweep, physmem,
                 BackingAfterSweep)
  BY MemorySwept
<1>5. /\ TablesType(TablesAfterSweep) /\ SameShape(tables, TablesAfterSweep)
      /\ ProtectionOK(TablesAfterSweep, PhysicalAfterSweep, ResidentAfterSweep)
  BY TablesSwept
<1>6. MemoryInv'
  <2>1. /\ physmem \in [PhysicalPage -> Value] /\ accessed \subseteq ReadableIds
        /\ DOMAIN peer_in_phys \subseteq file_id
    BY DEF MemoryInv, MemoryTypes
  <2>2. MemoryTypes'
    BY <1>1, <1>2, <1>3, <2>1 DEF MemoryTypes
  <2>3. QED
    BY <1>1, <1>2, <1>4, <2>2 DEF MemoryInv
<1>7. TablesInv'
  <2>1. PeersOK(peer_map, TablesAfterSweep)
    BY <1>5, PeersSameShape DEF TablesInv
  <2>2. QED
    BY <1>1, <1>5, <2>1 DEF TablesInv
<1>8. SwapInv'
  <2>1. FreeSwapOK(available_swap_blocks, peer_in_phys')
    BY <1>1, <1>3 DEF SwapInv, FreeSwapOK
  <2>2. QED
    BY <1>1, <1>5, <2>1, SwapKept
<1>9. QED
  BY <1>1, <1>5, <1>6, <1>7, <1>8

\* A page that needs a physical page shows none but the pinned one, before and after the sweep.
LEMMA NeedyPage ==
  ASSUME MemoryInv, TablesInv, ControlInv, CanCall,
         NEW n \in DOMAIN tables[cur_table].vps, NEW write \in BOOLEAN, NeedsPage(n, write)
  PROVE  /\ Page(n).id \in DOMAIN peer_in_phys => write /\ peer_in_phys[Page(n).id] = 0
         /\ Page(n).id \in DOMAIN ResidentAfterSweep => ResidentAfterSweep[Page(n).id] = 0
         /\ \A q \in ToSet(ClockAfterSweep) : PhysicalAfterSweep[q].id # Page(n).id
         /\ TablesAfterSweep[cur_table].vps[n].id = Page(n).id
         /\ ~TablesAfterSweep[cur_table].vps[n].write_enable
<1>1. /\ cur_table \in DOMAIN tables /\ Page(n) = tables[cur_table].vps[n] /\ Page(n) \in virtual_page
      /\ EntryOK(Page(n), physical_table, peer_in_phys)
  BY PageFacts
<1>2. Page(n).id \in DOMAIN peer_in_phys => write /\ peer_in_phys[Page(n).id] = 0
  BY <1>1 DEF NeedsPage, Resident, EntryOK
<1>3. /\ DOMAIN ResidentAfterSweep \subseteq DOMAIN peer_in_phys
      /\ \A id \in DOMAIN ResidentAfterSweep : ResidentAfterSweep[id] = peer_in_phys[id]
  BY PhysicalSwept
<1>4. Page(n).id \in DOMAIN ResidentAfterSweep => ResidentAfterSweep[Page(n).id] = 0
  BY <1>2, <1>3
<1>5. ASSUME NEW q \in ToSet(ClockAfterSweep)
      PROVE  PhysicalAfterSweep[q].id # Page(n).id
  <2>1. q # 0
    BY QueuesAfterSweep, ElementsOfSeq, PhysicalPages DEF MemoryInv
  <2>2. /\ PhysicalAfterSweep[q].id \in DOMAIN ResidentAfterSweep
        /\ ResidentAfterSweep[PhysicalAfterSweep[q].id] = q
    BY MemorySwept DEF PagesOK
  <2>3. QED
    BY <1>4, <2>1, <2>2
<1>6. /\ DOMAIN TablesAfterSweep = DOMAIN tables
      /\ n \in DOMAIN TablesAfterSweep[cur_table].vps
      /\ TablesAfterSweep[cur_table].vps[n].id = Page(n).id
  BY <1>1, TablesSwept DEF SameShape
<1>7. EntryOK(TablesAfterSweep[cur_table].vps[n], PhysicalAfterSweep, ResidentAfterSweep)
  BY <1>1, <1>6, TablesSwept DEF ProtectionOK
<1>8. ~TablesAfterSweep[cur_table].vps[n].write_enable
  BY <1>4, <1>6, <1>7 DEF EntryOK
<1>9. QED
  BY <1>2, <1>4, <1>5, <1>6, <1>8

\* The page found for a fault leaves the free pages and joins the clock.
LEMMA PageFound ==
  ASSUME MemoryInv, NEW q, q = Head(AvailableAfterSweep)
  PROVE  /\ q \in OwnPage /\ q \in ToSet(AvailableAfterSweep) /\ q \notin ToSet(ClockAfterSweep)
         /\ Tail(AvailableAfterSweep) \in Seq(OwnPage)
         /\ Append(ClockAfterSweep, q) \in Seq(OwnPage)
         /\ ToSet(Tail(AvailableAfterSweep)) = ToSet(AvailableAfterSweep) \ {q}
         /\ ToSet(Append(ClockAfterSweep, q)) = ToSet(ClockAfterSweep) \cup {q}
         /\ PartOK(Tail(AvailableAfterSweep), Append(ClockAfterSweep, q))
<1>1. /\ AvailableAfterSweep \in Seq(OwnPage) /\ AvailableAfterSweep # <<>>
      /\ ClockAfterSweep \in Seq(OwnPage)
      /\ PartOK(AvailableAfterSweep, ClockAfterSweep)
  BY QueuesAfterSweep DEF MemoryInv
<1>2. /\ q \in ToSet(AvailableAfterSweep) /\ Tail(AvailableAfterSweep) \in Seq(OwnPage)
      /\ IsInjective(Tail(AvailableAfterSweep))
      /\ ToSet(Tail(AvailableAfterSweep)) = ToSet(AvailableAfterSweep) \ {q}
  BY <1>1, ElementsOfTail DEF PartOK
<1>3. q \in OwnPage /\ q \notin ToSet(ClockAfterSweep)
  BY <1>1, <1>2, ElementsOfSeq DEF PartOK
<1>4. /\ Append(ClockAfterSweep, q) \in Seq(OwnPage)
      /\ ToSet(Append(ClockAfterSweep, q)) = ToSet(ClockAfterSweep) \cup {q}
      /\ IsInjective(Append(ClockAfterSweep, q))
  BY <1>1, <1>3, ElementsOfAppend DEF PartOK
<1>5. PartOK(Tail(AvailableAfterSweep), Append(ClockAfterSweep, q))
  BY <1>1, <1>2, <1>3, <1>4 DEF PartOK
<1>6. QED
  BY <1>2, <1>3, <1>4, <1>5

\* A fault that finds a physical page: the page read or copied is the only one that changes.
LEMMA ReadFault ==
  ASSUME MemoryInv, TablesInv, SwapInv, ControlInv, CanCall,
         NEW n \in DOMAIN tables[cur_table].vps, NEW write \in BOOLEAN,
         FaultWithRead(n, write), UNCHANGED <<peer_map, swapVars, current>>
  PROVE  MemoryInv' /\ TablesInv' /\ SwapInv' /\ SameShape(tables, tables') /\ ~Denied(n, write)'
<1> DEFINE id == Page(n).id
           q  == Head(AvailableAfterSweep)
           A2 == ToSet(AvailableAfterSweep)
           C2 == ToSet(ClockAfterSweep)
           PT == PhysicalAfterSweep
           R  == ResidentAfterSweep
           B  == BackingAfterSweep
           T  == TablesAfterSweep
<1>1. /\ cur_table \in DOMAIN tables /\ Page(n) = tables[cur_table].vps[n] /\ Page(n) \in virtual_page
      /\ EntryOK(Page(n), physical_table, peer_in_phys)
  BY PageFacts
<1>2. NeedsPage(n, write) /\ id \in DOMAIN backing
  BY DEF FaultWithRead
<1>3. /\ id \in DOMAIN peer_in_phys => write /\ peer_in_phys[id] = 0
      /\ id \in DOMAIN R => R[id] = 0
      /\ \A x \in C2 : PT[x].id # id
      /\ T[cur_table].vps[n].id = id /\ ~T[cur_table].vps[n].write_enable
  BY <1>2, NeedyPage
<1>4. /\ q \in OwnPage /\ q \in A2 /\ q \notin C2
      /\ Tail(AvailableAfterSweep) \in Seq(OwnPage)
      /\ Append(ClockAfterSweep, q) \in Seq(OwnPage)
      /\ ToSet(Tail(AvailableAfterSweep)) = A2 \ {q}
      /\ ToSet(Append(ClockAfterSweep, q)) = C2 \cup {q}
      /\ PartOK(Tail(AvailableAfterSweep), Append(ClockAfterSweep, q))
  BY PageFound
<1>5. /\ A2 \subseteq PhysicalPage /\ C2 \subseteq PhysicalPage /\ 0 \notin C2 /\ q \in PhysicalPage /\ q # 0
  BY <1>4, QueuesAfterSweep, ElementsOfSeq, PhysicalPages DEF MemoryInv
<1>6. /\ PT \in [PhysicalPage -> physical_page]
      /\ DOMAIN R \subseteq DOMAIN peer_in_phys
      /\ \A x \in DOMAIN R : R[x] = peer_in_phys[x]
      /\ R \in [DOMAIN R -> PhysicalPage]
      /\ B \in [BackedIds -> Value]
  BY PhysicalSwept
<1>7. PagesOK(C2, PT, R) /\ DirtyOK(A2, C2, PT, physmem, B)
  BY MemorySwept
<1>8. TablesType(T) /\ SameShape(tables, T) /\ ProtectionOK(T, PT, R)
  BY TablesSwept
<1>9. /\ physmem \in [PhysicalPage -> Value] /\ backing \in [BackedIds -> Value]
      /\ accessed \subseteq ReadableIds /\ DOMAIN peer_in_phys \subseteq file_id
  BY DEF MemoryInv, MemoryTypes
<1>10. id \in BackedIds /\ id \in file_id
  BY <1>1, <1>2, <1>9 DEF virtual_page
<1>11. ~PT[q].dirty
  BY <1>4, <1>7 DEF DirtyOK
<1>12. /\ physmem' = [physmem EXCEPT ![q] = IF id \in DOMAIN peer_in_phys THEN physmem[Page(n).ppage] ELSE B[id]]
       /\ accessed' = IF id.swap_backed THEN accessed ELSE accessed \cup {id}
       /\ physical_table' = [PT EXCEPT ![q].id = id, ![q].referenced = TRUE, ![q].dirty = @ \/ write]
       /\ available_physical_pages' = Tail(AvailableAfterSweep)
       /\ clock_queue' = Append(ClockAfterSweep, q)
       /\ peer_in_phys' = [x \in DOMAIN R \cup {id} |-> IF x = id THEN q ELSE R[x]]
       /\ backing' = B
       /\ tables' = set_peer(T, n, q, write \/ T[cur_table].vps[n].write_enable)
       /\ UNCHANGED <<peer_map, swapVars, available_swap_blocks, num_swap_blocks, cur_table>>
  BY DEF FaultWithRead, Resident, swapVars, current
<1>13. /\ TablesType(tables') /\ SameShape(T, tables')
       /\ \A p \in DOMAIN T : \A m \in DOMAIN T[p].vps :
            tables'[p].vps[m] = IF T[p].vps[m].id = id THEN Mapped(T[p].vps[m], q, write)
                                ELSE T[p].vps[m]
  <2>1. PeersOK(peer_map, T)
    BY <1>8, PeersSameShape DEF TablesInv
  <2>2. cur_table \in DOMAIN T /\ n \in DOMAIN T[cur_table].vps
    BY <1>1, <1>8 DEF SameShape
  <2>3. PICK w \in BOOLEAN : w = (write \/ T[cur_table].vps[n].write_enable)
    OBVIOUS
  <2>4. w = write
    BY <1>3, <2>3
  <2>5. tables' = set_peer(T, n, q, w)
    BY <1>12, <2>3
  <2>6. tables' = set_peer(T, n, q, write)
    BY <2>4, <2>5
  <2> HIDE DEF q, T
  <2>7. QED
    BY <1>3, <1>5, <1>8, <2>1, <2>2, <2>6, MappedEntries
<1> HIDE DEF id, q, A2, C2, PT, R, B, T
<1>14. /\ physical_table' \in [PhysicalPage -> physical_page]
       /\ \A x \in PhysicalPage : x # q => physical_table'[x] = PT[x]
       /\ physical_table'[q].id = id /\ physical_table'[q].referenced = TRUE
       /\ physical_table'[q].dirty <=> write
  <2>1. PT[q] \in [id : PageId, dirty : BOOLEAN, referenced : BOOLEAN] /\ id \in PageId
    BY <1>5, <1>6, <1>10 DEF physical_page, PageId
  <2>2. PICK r : r = [[[PT[q] EXCEPT !.id = id] EXCEPT !.referenced = TRUE] EXCEPT !.dirty = PT[q].dirty \/ write]
    OBVIOUS
  <2>3. r \in physical_page /\ r.id = id /\ r.referenced = TRUE /\ (r.dirty <=> PT[q].dirty \/ write)
    BY <2>1, <2>2 DEF physical_page
  <2>4. physical_table' = [PT EXCEPT ![q] = r]
    BY <1>5, <1>6, <1>12, <2>1, <2>2
  <2>5. QED
    BY <1>5, <1>6, <1>11, <2>3, <2>4
<1>15. /\ physmem' \in [PhysicalPage -> Value]
       /\ \A x \in PhysicalPage : x # q => physmem'[x] = physmem[x]
       /\ ~write => physmem'[q] = B[id]
  <2>1. B[id] \in Value
    BY <1>6, <1>10
  <2>2. ~write => id \notin DOMAIN peer_in_phys
    BY <1>3
  <2>3. id \in DOMAIN peer_in_phys => physmem[Page(n).ppage] \in Value
    <3>1. id \in DOMAIN peer_in_phys => Page(n).ppage = 0
      BY <1>1, <1>3 DEF EntryOK, id
    <3>2. QED
      BY <1>9, <3>1, PhysicalPages
  <2>4. QED
    BY <1>5, <1>9, <1>12, <2>1, <2>2, <2>3
<1>16. /\ DOMAIN peer_in_phys' = DOMAIN R \cup {id}
       /\ peer_in_phys'[id] = q
       /\ \A x \in DOMAIN R : x # id => peer_in_phys'[x] = R[x]
       /\ peer_in_phys' \in [DOMAIN peer_in_phys' -> PhysicalPage]
  BY <1>5, <1>6, <1>12
<1>17. MemoryInv'
  <2>1. accessed' \subseteq ReadableIds
    <3>1. ~id.swap_backed => id \in ReadableIds
      BY <1>10 DEF BackedIds, SwapIds, SwapId
    <3>2. QED
      BY <1>9, <1>12, <3>1
  <2>2. DOMAIN peer_in_phys' \subseteq file_id
    BY <1>6, <1>9, <1>10, <1>16
  <2>3. MemoryTypes'
    BY <1>4, <1>6, <1>12, <1>14, <1>15, <1>16, <2>1, <2>2 DEF MemoryTypes
  <2>4. PagesOK(C2 \cup {q}, physical_table', peer_in_phys')
    <3>1. ASSUME NEW x \in C2 \cup {q}
          PROVE  /\ physical_table'[x].id \in DOMAIN peer_in_phys'
                 /\ peer_in_phys'[physical_table'[x].id] = x /\ physical_table'[x].id \in BackedIds
      <4>1. CASE x = q
        BY <1>10, <1>14, <1>16, <4>1
      <4>2. CASE x # q
        <5>1. x \in C2 /\ x \in PhysicalPage /\ physical_table'[x] = PT[x] /\ PT[x].id # id
          BY <1>3, <1>5, <1>14, <3>1, <4>2
        <5>2. PT[x].id \in DOMAIN R /\ R[PT[x].id] = x /\ PT[x].id \in BackedIds
          BY <1>7, <5>1 DEF PagesOK
        <5>3. QED
          BY <1>16, <5>1, <5>2
      <4>3. QED
        BY <4>1, <4>2
    <3>2. ASSUME NEW y \in DOMAIN peer_in_phys'
          PROVE  IF peer_in_phys'[y] = 0 THEN y.swap_backed
                 ELSE peer_in_phys'[y] \in C2 \cup {q} /\ physical_table'[peer_in_phys'[y]].id = y
      <4>1. CASE y = id
        BY <1>5, <1>14, <1>16, <4>1
      <4>2. CASE y # id
        <5>1. y \in DOMAIN R /\ peer_in_phys'[y] = R[y]
          BY <1>16, <4>2
        <5>2. IF R[y] = 0 THEN y.swap_backed ELSE R[y] \in C2 /\ PT[R[y]].id = y
          BY <1>7, <5>1 DEF PagesOK
        <5>3. CASE R[y] = 0
          BY <5>1, <5>2, <5>3
        <5>4. CASE R[y] # 0
          <6>1. R[y] \in C2 /\ R[y] # q /\ R[y] \in PhysicalPage
            BY <1>4, <1>5, <5>2, <5>4
          <6>2. QED
            BY <1>14, <5>1, <5>2, <5>4, <6>1
        <5>5. QED
          BY <5>3, <5>4
      <4>3. QED
        BY <4>1, <4>2
    <3>3. QED
      BY <3>1, <3>2 DEF PagesOK
  <2>5. DirtyOK(A2 \ {q}, C2 \cup {q}, physical_table', physmem', B)
    <3>1. ASSUME NEW x \in C2 \cup {q}, ~physical_table'[x].dirty
          PROVE  physmem'[x] = B[physical_table'[x].id]
      <4>1. CASE x = q
        BY <1>14, <1>15, <3>1, <4>1
      <4>2. CASE x # q
        <5>1. x \in C2 /\ x \in PhysicalPage /\ physical_table'[x] = PT[x] /\ physmem'[x] = physmem[x]
          BY <1>5, <1>14, <1>15, <3>1, <4>2
        <5>2. QED
          BY <1>7, <3>1, <5>1 DEF DirtyOK
      <4>3. QED
        BY <4>1, <4>2
    <3>2. ASSUME NEW x \in A2 \ {q}
          PROVE  ~physical_table'[x].dirty
      BY <1>5, <1>7, <1>14 DEF DirtyOK
    <3>3. QED
      BY <3>1, <3>2 DEF DirtyOK
  <2>6. QED
    BY <1>4, <1>12, <2>3, <2>4, <2>5 DEF MemoryInv
<1>18. SameShape(tables, tables')
  BY <1>8, <1>13 DEF SameShape
<1>19. ASSUME NEW p \in DOMAIN T, NEW m \in DOMAIN T[p].vps
       PROVE  EntryOK(tables'[p].vps[m], physical_table', peer_in_phys')
  <2>1. PICK e : e = T[p].vps[m]
    OBVIOUS
  <2>2. e \in virtual_page /\ EntryOK(e, PT, R)
    BY <1>8, <2>1, TableTypes DEF ProtectionOK
  <2>3. CASE e.id = id
    <3>1. PICK f : f = Mapped(e, q, write)
      OBVIOUS
    <3>2. f.id = id /\ f.ppage = q /\ f.read_enable = TRUE /\ f.write_enable = write
      BY <2>2, <2>3, <3>1 DEF Mapped, virtual_page
    <3>3. EntryOK(f, physical_table', peer_in_phys')
      BY <1>5, <1>14, <1>16, <3>2 DEF EntryOK
    <3>4. QED
      BY <1>13, <2>1, <2>3, <3>1, <3>3
  <2>4. CASE e.id # id
    <3>1. tables'[p].vps[m] = e /\ (e.id \in DOMAIN peer_in_phys' <=> e.id \in DOMAIN R)
      BY <1>13, <1>16, <2>1, <2>4
    <3>2. CASE e.id \in DOMAIN R
      <4>1. e.ppage = R[e.id] /\ peer_in_phys'[e.id] = R[e.id]
        BY <1>16, <2>2, <2>4, <3>2 DEF EntryOK
      <4>2. e.ppage # 0 => e.ppage \in C2
        BY <1>7, <3>2, <4>1 DEF PagesOK
      <4>3. e.ppage # 0 => physical_table'[e.ppage] = PT[e.ppage]
        BY <1>4, <1>5, <1>14, <4>2
      <4>4. EntryOK(e, physical_table', peer_in_phys')
        BY <2>2, <3>1, <3>2, <4>1, <4>3 DEF EntryOK
      <4>5. QED
        BY <3>1, <4>4
    <3>3. CASE e.id \notin DOMAIN R
      BY <2>2, <3>1, <3>3 DEF EntryOK
    <3>4. QED
      BY <3>2, <3>3
  <2>5. QED
    BY <2>3, <2>4
<1>20. TablesInv'
  <2>1. PeersOK(peer_map, tables')
    BY <1>18, PeersSameShape DEF TablesInv
  <2>2. ProtectionOK(tables', physical_table', peer_in_phys')
    BY <1>13, <1>19 DEF ProtectionOK, SameShape
  <2>3. QED
    BY <1>12, <1>13, <2>1, <2>2 DEF TablesInv
<1>21. SwapInv'
  <2>1. ASSUME NEW b \in ToSet(available_swap_blocks)
        PROVE  SwapId(b) # id
    <3>1. b \in SwapBlock
      BY ElementsOfSeq DEF SwapInv, SwapCountInv
    <3>2. QED
      BY <1>1, <2>1, <3>1 DEF SwapInv, SwapOK, id
  <2>2. FreeSwapOK(available_swap_blocks, peer_in_phys')
    <3>1. \A b \in ToSet(available_swap_blocks) : SwapId(b) \in DOMAIN peer_in_phys => peer_in_phys[SwapId(b)] = 0
      BY DEF SwapInv, FreeSwapOK
    <3>2. QED
      BY <1>6, <1>16, <2>1, <3>1 DEF FreeSwapOK
  <2>3. QED
    BY <1>12, <1>18, <2>2, SwapKept
<1>22. ~Denied(n, write)'
  <2>1. cur_table \in DOMAIN T /\ n \in DOMAIN T[cur_table].vps
    BY <1>1, <1>8 DEF SameShape
  <2>2. tables'[cur_table].vps[n] = Mapped(T[cur_table].vps[n], q, write)
    BY <1>3, <1>13, <2>1
  <2>3. T[cur_table].vps[n] \in virtual_page
    BY <1>8, <2>1, TableTypes
  <2>4. /\ Mapped(T[cur_table].vps[n], q, write).read_enable = TRUE
        /\ Mapped(T[cur_table].vps[n], q, write).write_enable = write
    BY <2>3 DEF Mapped, virtual_page
  <2>5. QED
    BY <1>12, <2>2, <2>4 DEF Denied, Page
<1>23. QED
  BY <1>17, <1>18, <1>20, <1>21, <1>22

-----------------------------------------------------------------------------
(* The actions *)

\* A process that is in the middle of nothing.
LEMMA IdleCall ==
  ASSUME call' = Idle PROVE CallInv'
  BY DEF CallInv, Idle

\* A process about to repeat an access that its PTE allows now.
LEMMA RetryCall ==
  ASSUME NEW n \in 1 .. MAX_PAGE_NUM, NEW write \in BOOLEAN, call' = Retry(n, write),
         CanCall', n \in DOMAIN tables'[cur_table'].vps, ~Denied(n, write)'
  PROVE  CallInv'
<1>1. /\ call'.op = "retry" /\ call'.page = n /\ call'.write = write
      /\ call' \in RetryCalls
  BY DEF Retry, RetryCalls
<1>2. ~Denied(call.page, call.write)'
  BY <1>1 DEF Denied, Page
<1>3. QED
  BY <1>1, <1>2 DEF CallInv

\* A step that changes neither the processes nor which of them runs.
LEMMA ControlKept ==
  ASSUME ControlInv, UNCHANGED current, DOMAIN tables' = DOMAIN tables
  PROVE  ControlInv' /\ (CanCall => CanCall')
  BY DEF ControlInv, current, CanCall

\* vm_fault, whether it finds the page resident or reads it.
LEMMA vm_faultKeeps ==
  ASSUME MemoryInv, TablesInv, SwapInv, ControlInv, CanCall,
         NEW n \in DOMAIN tables[cur_table].vps, NEW write \in BOOLEAN, Denied(n, write),
         vm_fault(n, write), UNCHANGED <<peer_map, swapVars, current>>
  PROVE  MemoryInv' /\ TablesInv' /\ SwapInv' /\ SameShape(tables, tables') /\ ~Denied(n, write)'
  BY ResidentFault, ReadFault DEF vm_fault

\* vm_fault at a load or a store of the running process, whether it succeeds or not.
LEMMA FaultKeeps ==
  ASSUME IInv, NEW n \in 1 .. MAX_PAGE_NUM, NEW write \in BOOLEAN, Fault(n, write)
  PROVE  IInv'
<1>1. /\ CanCall /\ n \in DOMAIN tables[cur_table].vps /\ Denied(n, write)
      /\ UNCHANGED <<peer_map, swapVars, current>>
  BY DEF Fault
<1>2. MemoryInv /\ TablesInv /\ SwapInv /\ ControlInv /\ cur_table \in DOMAIN tables
  BY <1>1 DEF IInv, CanCall, ControlInv
<1>3. CASE vm_fault(n, write) /\ call' = Retry(n, write)
  <2>1. MemoryInv' /\ TablesInv' /\ SwapInv' /\ SameShape(tables, tables') /\ ~Denied(n, write)'
    BY <1>1, <1>2, <1>3, vm_faultKeeps
  <2>2. ControlInv' /\ CanCall'
    BY <1>1, <1>2, <2>1, ControlKept DEF SameShape
  <2>3. n \in DOMAIN tables'[cur_table'].vps
    BY <1>1, <1>2, <2>1 DEF SameShape, current
  <2>4. CallInv'
    BY <1>3, <2>1, <2>2, <2>3, RetryCall
  <2>5. QED
    BY <2>1, <2>2, <2>4 DEF IInv
<1>4. CASE FaultFails(n, write) /\ call' = Idle
  <2>1. MemoryInv' /\ TablesInv' /\ SwapInv' /\ SameShape(tables, tables')
    BY <1>1, <1>2, <1>4, FailedFault
  <2>2. ControlInv'
    BY <1>1, <1>2, <2>1, ControlKept DEF SameShape
  <2>3. QED
    BY <1>4, <2>1, <2>2, IdleCall DEF IInv
<1>5. QED
  BY <1>3, <1>4 DEF Fault

\* Steps that change nothing but call.
LEMMA OnlyCall ==
  ASSUME IInv, UNCHANGED <<memory, peer_map, tables, swapVars, current>>, CallInv'
  PROVE  IInv'
<1>1. UNCHANGED <<physmem, physical_table, available_physical_pages, clock_queue, peer_in_phys,
                  backing, accessed, peer_map, tables, available_swap_blocks, num_swap_blocks,
                  cur_table, cur_pid, running>>
  BY DEF memory, swapVars, current
<1>2. MemoryInv'
  BY <1>1 DEF IInv, MemoryInv, MemoryTypes
<1>3. TablesInv'
  BY <1>1 DEF IInv, TablesInv
<1>4. SwapInv'
  BY <1>1 DEF IInv, SwapInv, SwapCountInv
<1>5. ControlInv'
  BY <1>1 DEF IInv, ControlInv
<1>6. QED
  BY <1>2, <1>3, <1>4, <1>5 DEF IInv

\* A load, which changes nothing.
LEMMA LoadKeeps ==
  ASSUME IInv, NEW n \in 1 .. MAX_PAGE_NUM, Load(n)
  PROVE  IInv'
  BY OnlyCall, IdleCall DEF Load

\* vm_map of a file begins to read the name.
LEMMA MapFileKeeps ==
  ASSUME IInv, NEW n \in 1 .. MAX_PAGE_NUM, NEW block \in FileBlock, MapFile(n, block)
  PROVE  IInv'
<1>1. /\ CanCall /\ call' = [op |-> "map", at |-> n, name |-> <<>>, block |-> block]
      /\ UNCHANGED <<memory, peer_map, tables, swapVars, current>>
  BY DEF MapFile
<1>2. <<>> \in Seq(Value \ Ending) /\ Len(<<>>) = 0 /\ n \in Nat /\ 0 < n
  BY EmptySeq, SizesAssumption
<1>3. call' \in MapCalls /\ call'.op = "map" /\ Len(call'.name) < call'.at
  BY <1>1, <1>2 DEF MapCalls
<1>4. CanCall' /\ HasRoom'
  BY <1>1 DEF MapFile, CanCall, HasRoom, current
<1>5. CallInv'
  BY <1>3, <1>4 DEF CallInv
<1>6. QED
  BY <1>1, <1>5, OnlyCall

\* vm_map of a file whose name runs out of the arena.
LEMMA NameRefusedKeeps ==
  ASSUME IInv, NameRefused
  PROVE  IInv'
  BY OnlyCall, IdleCall DEF NameRefused

\* What is known while a name is read.
LEMMA InMapFacts ==
  ASSUME IInv, InMap
  PROVE  /\ CanCall /\ cur_table \in DOMAIN tables /\ call \in MapCalls
         /\ call.at \in Nat /\ call.name \in Seq(Value \ Ending) /\ call.block \in FileBlock
         /\ Len(call.name) \in Nat /\ Len(call.name) < call.at /\ HasRoom
         /\ ~AtEnd => call.at \in DOMAIN tables[cur_table].vps /\ call.at <= MAX_PAGE_NUM
<1>1. CanCall /\ call.op = "map" /\ cur_table \in DOMAIN tables
  BY DEF InMap, IInv, ControlInv, CanCall
<1>2. call \in MapCalls /\ Len(call.name) < call.at /\ HasRoom
  BY <1>1 DEF IInv, CallInv, Idle, RetryCalls
<1>3. call.at \in Nat /\ call.name \in Seq(Value \ Ending) /\ call.block \in FileBlock
  BY <1>2 DEF MapCalls
<1>4. Len(call.name) \in Nat
  BY <1>3, LenProperties
<1>5. ASSUME ~AtEnd
      PROVE  call.at \in DOMAIN tables[cur_table].vps /\ call.at <= MAX_PAGE_NUM
  <2>1. /\ Len(tables[cur_table].vps) \in Nat /\ Len(tables[cur_table].vps) <= MAX_PAGE_NUM
        /\ DOMAIN tables[cur_table].vps = 1 .. Len(tables[cur_table].vps)
    BY <1>1, TableTypes DEF IInv, TablesInv
  <2>2. call.at <= Len(tables[cur_table].vps)
    BY <1>3, <1>5, <2>1 DEF AtEnd
  <2>3. QED
    BY <1>2, <1>3, <1>4, <2>1, <2>2, SizesAssumption
<1>6. QED
  BY <1>1, <1>2, <1>3, <1>4, <1>5

\* vm_map faults on a page of the name.
LEMMA NameFaultKeeps ==
  ASSUME IInv, NameFault
  PROVE  IInv'
<1>1. InMap /\ ~AtEnd /\ Denied(call.at, FALSE) /\ UNCHANGED <<peer_map, swapVars, current>>
  BY DEF NameFault
<1>2. /\ CanCall /\ cur_table \in DOMAIN tables /\ call \in MapCalls
      /\ Len(call.name) < call.at /\ call.at \in DOMAIN tables[cur_table].vps /\ HasRoom
  BY <1>1, InMapFacts
<1>3. MemoryInv /\ TablesInv /\ SwapInv /\ ControlInv /\ FALSE \in BOOLEAN
  BY DEF IInv
<1>4. CASE vm_fault(call.at, FALSE) /\ UNCHANGED call
  <2>1. PICK n \in DOMAIN tables[cur_table].vps : n = call.at
    BY <1>2
  <2>2. PICK write \in BOOLEAN : write = FALSE
    OBVIOUS
  <2>3. Denied(n, write) /\ vm_fault(n, write)
    BY <1>1, <1>4, <2>1, <2>2
  <2>4. MemoryInv' /\ TablesInv' /\ SwapInv' /\ SameShape(tables, tables')
    BY <1>1, <1>2, <1>3, <2>3, vm_faultKeeps
  <2>5. ControlInv' /\ CanCall'
    BY <1>1, <1>2, <1>3, <2>4, ControlKept DEF SameShape
  <2>6. call.op = "map"
    BY <1>2 DEF MapCalls
  <2>7. HasRoom'
    BY <1>1, <1>2, <2>4 DEF HasRoom, SameShape, current
  <2>8. CallInv'
    BY <1>2, <1>4, <2>5, <2>6, <2>7 DEF CallInv
  <2>9. QED
    BY <2>4, <2>5, <2>8 DEF IInv
<1>5. CASE FaultFails(call.at, FALSE) /\ call' = Idle
  <2>1. MemoryInv' /\ TablesInv' /\ SwapInv' /\ SameShape(tables, tables')
    BY <1>1, <1>3, <1>5, FailedFault
  <2>2. ControlInv'
    BY <1>1, <1>3, <2>1, ControlKept DEF SameShape
  <2>3. QED
    BY <1>5, <2>1, <2>2, IdleCall DEF IInv
<1>6. QED
  BY <1>4, <1>5 DEF NameFault

\* The page of the name that is read next is one of the current process that can be read.
LEMMA NamePartFacts ==
  ASSUME IInv, InMap, ~AtEnd, ~Denied(call.at, FALSE)
  PROVE  NamePart \in Value /\ Page(call.at).id \in DOMAIN peer_in_phys
<1>1. CanCall /\ call.at \in DOMAIN tables[cur_table].vps
  BY InMapFacts
<1>2. EntryOK(Page(call.at), physical_table, peer_in_phys) /\ Page(call.at).read_enable
  BY <1>1, PageFacts DEF IInv, Denied
<1>3. /\ Page(call.at).id \in DOMAIN peer_in_phys
      /\ Page(call.at).ppage = peer_in_phys[Page(call.at).id]
  BY <1>2 DEF EntryOK
<1>4. peer_in_phys[Page(call.at).id] \in PhysicalPage /\ physmem \in [PhysicalPage -> Value]
  BY <1>3 DEF IInv, MemoryInv, MemoryTypes
<1>5. QED
  BY <1>3, <1>4 DEF NamePart

\* vm_map reads the part of the name in one page.
LEMMA ReadNameKeeps ==
  ASSUME IInv, ReadName
  PROVE  IInv'
<1>1. /\ InMap /\ ~AtEnd /\ ~Denied(call.at, FALSE) /\ NamePart \notin Ending
      /\ call' = [call EXCEPT !.at = @ + 1, !.name = Append(@, NamePart)]
      /\ UNCHANGED <<memory, peer_map, tables, swapVars, current>>
  BY DEF ReadName
<1>2. /\ CanCall /\ call \in MapCalls
      /\ call.at \in Nat /\ call.name \in Seq(Value \ Ending) /\ call.block \in FileBlock
      /\ Len(call.name) \in Nat /\ Len(call.name) < call.at /\ HasRoom
  BY <1>1, InMapFacts
<1>3. NamePart \in Value \ Ending
  BY <1>1, NamePartFacts
<1>4. /\ Append(call.name, NamePart) \in Seq(Value \ Ending)
      /\ Len(Append(call.name, NamePart)) = Len(call.name) + 1
  BY <1>2, <1>3, AppendProperties
<1>5. /\ call'.op = "map" /\ call'.at = call.at + 1 /\ call'.name = Append(call.name, NamePart)
      /\ call'.block = call.block /\ call' \in MapCalls
  <2>1. call.at + 1 \in Nat
    BY <1>2
  <2>2. QED
    BY <1>1, <1>2, <1>4, <2>1 DEF MapCalls
<1>6. Len(call'.name) < call'.at
  <2>1. \A i, j \in Nat : i < j => i + 1 < j + 1
    OBVIOUS
  <2>2. QED
    BY <1>2, <1>4, <1>5, <2>1, Zenon
<1>7. CanCall' /\ HasRoom'
  BY <1>1, <1>2 DEF CanCall, HasRoom, current
<1>8. CallInv'
  BY <1>5, <1>6, <1>7 DEF CallInv
<1>9. QED
  BY <1>1, <1>8, OnlyCall

\* A store goes to a dirty page, since the PTE allows it.
LEMMA StoreKeeps ==
  ASSUME IInv, NEW n \in 1 .. MAX_PAGE_NUM, NEW value \in Value, Store(n, value)
  PROVE  IInv'
<1>1. /\ CanCall /\ n \in DOMAIN tables[cur_table].vps /\ ~Denied(n, TRUE)
      /\ physmem' = [physmem EXCEPT ![Page(n).ppage] = value] /\ call' = Idle
      /\ UNCHANGED <<physical_table, available_physical_pages, clock_queue, peer_in_phys, backing,
                     accessed, peer_map, tables, available_swap_blocks, num_swap_blocks,
                     cur_table, cur_pid, running>>
  BY DEF Store, swapVars, current
<1> DEFINE q == Page(n).ppage
<1>2. EntryOK(Page(n), physical_table, peer_in_phys) /\ Page(n).write_enable
  BY <1>1, PageFacts DEF IInv, Denied
<1>3. Page(n).id \in DOMAIN peer_in_phys /\ q = peer_in_phys[Page(n).id] /\ physical_table[q].dirty
  BY <1>2 DEF EntryOK
<1>4. /\ physmem \in [PhysicalPage -> Value] /\ q \in PhysicalPage
      /\ ToSet(clock_queue) \subseteq PhysicalPage
  BY <1>3, ElementsOfSeq, PhysicalPages DEF IInv, MemoryInv, MemoryTypes
<1> HIDE DEF q
<1>5. physmem' \in [PhysicalPage -> Value] /\ \A x \in PhysicalPage : x # q => physmem'[x] = physmem[x]
  BY <1>1, <1>4 DEF q
<1>6. MemoryInv'
  <2>1. MemoryTypes'
    BY <1>1, <1>5 DEF IInv, MemoryInv, MemoryTypes
  <2>2. DirtyOK(ToSet(available_physical_pages), ToSet(clock_queue), physical_table, physmem', backing)
    <3>1. DirtyOK(ToSet(available_physical_pages), ToSet(clock_queue), physical_table, physmem, backing)
      BY DEF IInv, MemoryInv
    <3>2. QED
      BY <1>3, <1>4, <1>5, <3>1 DEF DirtyOK
  <2>3. QED
    BY <1>1, <2>1, <2>2 DEF IInv, MemoryInv
<1>7. TablesInv' /\ SwapInv' /\ ControlInv'
  BY <1>1 DEF IInv, TablesInv, SwapInv, SwapCountInv, ControlInv
<1>8. QED
  BY <1>1, <1>6, <1>7, IdleCall DEF IInv

-----------------------------------------------------------------------------
(* vm_map *)

\* What AddPage makes of the tables: one more page of the current process.
AddedPage(t, u, p, e) ==
  LET L == Len(t[p].vps) + 1
  IN /\ DOMAIN u = DOMAIN t
     /\ \A r \in DOMAIN t : r # p => u[r] = t[r]
     /\ Len(u[p].vps) = L /\ DOMAIN u[p].vps = DOMAIN t[p].vps \cup {L} /\ L \notin DOMAIN t[p].vps
     /\ L \in Nat
     /\ u[p].vps[L] = e
     /\ \A n \in DOMAIN t[p].vps : u[p].vps[n] = t[p].vps[n]
     /\ u[p].occupied_swap_blocks
          = IF e.id.swap_backed THEN t[p].occupied_swap_blocks + 1 ELSE t[p].occupied_swap_blocks

\* The new entry.
NewEntry(id, ppage, r, w) == [id |-> id, ppage |-> ppage, read_enable |-> r, write_enable |-> w]

\* AddPage keeps the types, and adds the new page to peer_map.
LEMMA AddPageTables ==
  ASSUME TablesInv, ControlInv, CanCall, HasRoom,
         NEW id \in file_id, NEW ppage \in 0 .. num_memory_pages, NEW r \in BOOLEAN, NEW w \in BOOLEAN,
         AddPage(id, ppage, r, w)
  PROVE  /\ cur_table \in DOMAIN tables
         /\ TablesType(tables') /\ PeersOK(peer_map', tables')
         /\ AddedPage(tables, tables', cur_table, NewEntry(id, ppage, r, w))
<1> DEFINE p == cur_table
           V == tables[p].vps
           o == tables[p].occupied_swap_blocks
           e == NewEntry(id, ppage, r, w)
           L == Len(V) + 1
           W == Append(V, e)
<1>1. p \in DOMAIN tables
  BY DEF CanCall, ControlInv
<1>2. /\ tables[p] \in [vps : Seq(virtual_page), occupied_swap_blocks : Nat]
      /\ V \in Seq(virtual_page) /\ o \in Nat /\ Len(V) \in Nat
      /\ DOMAIN V = 1 .. Len(V) /\ Len(V) < MAX_PAGE_NUM
      /\ tables \in [DOMAIN tables -> page_table] /\ DOMAIN tables \subseteq Pid
      /\ \A x \in DOMAIN tables : Len(tables[x].vps) <= MAX_PAGE_NUM
  BY <1>1, TableTypes DEF TablesInv, TablesType, page_table, HasRoom
<1>3. e \in virtual_page /\ e.id = id
  BY DEF NewEntry, virtual_page
<1>4. PICK k : k = IF id.swap_backed THEN o + 1 ELSE o
  OBVIOUS
<1>5. k \in Nat
  BY <1>2, <1>4
<1>6. /\ peer_map' = peer_map \cup {<<id, <<p, L>>>>}
      /\ tables' = [tables EXCEPT ![p] = [[tables[p] EXCEPT !.vps = W] EXCEPT !.occupied_swap_blocks = k]]
  BY <1>1, <1>2, <1>4 DEF AddPage, NewEntry
<1> HIDE DEF p, e
<1>7. /\ W \in Seq(virtual_page) /\ Len(W) = L /\ W[L] = e
      /\ \A n \in 1 .. Len(V) : W[n] = V[n]
  BY <1>2, <1>3, AppendProperties
<1>8. /\ DOMAIN W = DOMAIN V \cup {L} /\ L \notin DOMAIN V /\ L \in Nat
  <2>1. DOMAIN W = 1 .. L
    BY <1>7, LenProperties
  <2>2. \A i \in Nat : 1 .. i + 1 = 1 .. i \cup {i + 1} /\ i + 1 \notin 1 .. i /\ i + 1 \in Nat
    OBVIOUS
  <2>3. QED
    BY <1>2, <2>1, <2>2
<1>9. L <= MAX_PAGE_NUM
  BY <1>2, SizesAssumption
<1> HIDE DEF W, V, L, o
<1>10. /\ DOMAIN tables' = DOMAIN tables
       /\ \A x \in DOMAIN tables : x # p => tables'[x] = tables[x]
       /\ tables'[p].vps = W /\ tables'[p].occupied_swap_blocks = k
       /\ tables'[p] \in page_table
  <2>1. PICK y : y = [[tables[p] EXCEPT !.vps = W] EXCEPT !.occupied_swap_blocks = k]
    OBVIOUS
  <2>2. y.vps = W /\ y.occupied_swap_blocks = k /\ y \in page_table
    BY <1>2, <1>5, <1>7, <2>1 DEF page_table
  <2>3. tables' = [tables EXCEPT ![p] = y]
    BY <1>6, <2>1
  <2>4. QED
    BY <1>1, <1>2, <2>2, <2>3
<1>11. TablesType(tables')
  <2>1. tables' \in [DOMAIN tables' -> page_table]
    BY <1>2, <1>6, <1>10
  <2>2. QED
    BY <1>2, <1>7, <1>9, <1>10, <2>1 DEF TablesType
<1>12. AddedPage(tables, tables', p, e)
  <2>1. Len(tables[p].vps) + 1 = L
    BY DEF L, V
  <2>2. QED
    BY <1>3, <1>4, <1>7, <1>8, <1>10, <1>2, <2>1 DEF AddedPage, V, o
<1>13. PeersOK(peer_map', tables')
  <2>1. \A x : x \in peer_map <=> \E s \in DOMAIN tables : \E n \in DOMAIN tables[s].vps :
                                    x = <<tables[s].vps[n].id, <<s, n>>>>
    BY PeersMembers DEF TablesInv
  <2>2. \A x : x \in peer_map' => \E s \in DOMAIN tables' : \E n \in DOMAIN tables'[s].vps :
                                    x = <<tables'[s].vps[n].id, <<s, n>>>>
    <3>1. ASSUME NEW s \in DOMAIN tables, NEW n \in DOMAIN tables[s].vps
          PROVE  n \in DOMAIN tables'[s].vps /\ tables'[s].vps[n].id = tables[s].vps[n].id
      BY <1>2, <1>7, <1>8, <1>10 DEF V
    <3>2. L \in DOMAIN tables'[p].vps /\ tables'[p].vps[L].id = id
      BY <1>3, <1>7, <1>8, <1>10
    <3>3. QED
      BY <1>1, <1>6, <1>10, <2>1, <3>1, <3>2
  <2>3. ASSUME NEW s \in DOMAIN tables', NEW n \in DOMAIN tables'[s].vps
        PROVE  <<tables'[s].vps[n].id, <<s, n>>>> \in peer_map'
    <3>1. CASE s = p /\ n = L
      BY <1>3, <1>6, <1>7, <1>10, <3>1
    <3>2. CASE ~(s = p /\ n = L)
      <4>1. n \in DOMAIN tables[s].vps /\ tables'[s].vps[n].id = tables[s].vps[n].id
        BY <1>2, <1>7, <1>8, <1>10, <2>3, <3>2 DEF V
      <4>2. QED
        BY <1>6, <1>10, <2>1, <4>1
    <3>3. QED
      BY <3>1, <3>2
  <2>4. QED
    BY <2>2, <2>3 DEF PeersOK
<1>14. QED
  BY <1>1, <1>11, <1>12, <1>13 DEF p, e

\* The PTEs of the pages there were, when the new page changes no physical page.
LEMMA AddedProtection ==
  ASSUME NEW t, NEW u, NEW p \in DOMAIN t, NEW e, AddedPage(t, u, p, e), NEW pt, NEW pip, NEW pip2,
         ProtectionOK(t, pt, pip), EntryOK(e, pt, pip2),
         \A r \in DOMAIN t : \A n \in DOMAIN t[r].vps :
           EntryOK(t[r].vps[n], pt, pip) => EntryOK(t[r].vps[n], pt, pip2)
  PROVE  ProtectionOK(u, pt, pip2)
<1>1. SUFFICES ASSUME NEW r \in DOMAIN u, NEW n \in DOMAIN u[r].vps
               PROVE  EntryOK(u[r].vps[n], pt, pip2)
  BY DEF ProtectionOK
<1>2. CASE r = p /\ n = Len(t[p].vps) + 1
  BY <1>2 DEF AddedPage
<1>3. CASE ~(r = p /\ n = Len(t[p].vps) + 1)
  <2>1. r \in DOMAIN t /\ n \in DOMAIN t[r].vps /\ u[r].vps[n] = t[r].vps[n]
    BY <1>1, <1>3 DEF AddedPage
  <2>2. QED
    BY <2>1 DEF ProtectionOK
<1>4. QED
  BY <1>2, <1>3

\* The pages of p that are swap-backed.
SwapPages(t, p) == {n \in DOMAIN t[p].vps : t[p].vps[n].id.swap_backed}

\* A process has no more swap-backed pages than pages.
LEMMA SwapPagesFinite ==
  ASSUME NEW t, TablesType(t), NEW p \in DOMAIN t
  PROVE  IsFiniteSet(SwapPages(t, p)) /\ Cardinality(SwapPages(t, p)) \in Nat
         /\ Cardinality(SwapPages(t, p)) <= Len(t[p].vps)
<1>1. Len(t[p].vps) \in Nat /\ DOMAIN t[p].vps = 1 .. Len(t[p].vps)
  BY TableTypes
<1>2. IsFiniteSet(1 .. Len(t[p].vps)) /\ Cardinality(1 .. Len(t[p].vps)) = Len(t[p].vps)
  <2>1. \A k \in Nat : IsFiniteSet(1 .. k) /\ Cardinality(1 .. k) = k
    BY FS_Interval
  <2>2. QED
    BY <1>1, <2>1, Zenon
<1>3. SwapPages(t, p) \subseteq 1 .. Len(t[p].vps)
  BY <1>1 DEF SwapPages
<1>4. /\ IsFiniteSet(SwapPages(t, p))
      /\ Cardinality(SwapPages(t, p)) <= Cardinality(1 .. Len(t[p].vps))
  <2>1. PICK S : S = 1 .. Len(t[p].vps)
    OBVIOUS
  <2>2. PICK T : T = SwapPages(t, p)
    OBVIOUS
  <2>3. T \in SUBSET S /\ IsFiniteSet(S)
    BY <1>2, <1>3, <2>1, <2>2
  <2>4. IsFiniteSet(T) /\ Cardinality(T) <= Cardinality(S)
    BY <2>3, FS_Subset, Zenon
  <2>5. QED
    BY <2>1, <2>2, <2>4
<1>5. Cardinality(SwapPages(t, p)) \in Nat
  BY <1>4, FS_CardinalityType
<1>6. QED
  BY <1>2, <1>4, <1>5

\* A page of a file changes nothing for the swap blocks.
LEMMA AddedFile ==
  ASSUME NEW t, NEW u, NEW p \in DOMAIN t, NEW e, AddedPage(t, u, p, e), NEW avail,
         SwapOK(t, avail), ~e.id.swap_backed
  PROVE  SwapOK(u, avail)
<1> DEFINE L == Len(t[p].vps) + 1
<1>1. /\ DOMAIN u = DOMAIN t
      /\ \A r \in DOMAIN t : r # p => u[r] = t[r]
      /\ DOMAIN u[p].vps = DOMAIN t[p].vps \cup {L}
      /\ u[p].vps[L] = e
      /\ \A n \in DOMAIN t[p].vps : u[p].vps[n] = t[p].vps[n]
      /\ u[p].occupied_swap_blocks = t[p].occupied_swap_blocks
  BY DEF AddedPage
<1> HIDE DEF L
<1>2. \A r \in DOMAIN t : \A n \in DOMAIN u[r].vps :
        u[r].vps[n].id.swap_backed => n \in DOMAIN t[r].vps /\ u[r].vps[n] = t[r].vps[n]
  BY <1>1
<1>3. \A r \in DOMAIN t : \A n \in DOMAIN t[r].vps : n \in DOMAIN u[r].vps /\ u[r].vps[n] = t[r].vps[n]
  BY <1>1
<1>4. \A b : SwapId(b).swap_backed
  BY DEF SwapId
<1>5. \A b \in SwapBlock :
        b \in ToSet(avail) <=> \A r \in DOMAIN u : \A n \in DOMAIN u[r].vps : u[r].vps[n].id # SwapId(b)
  <2>1. \A b \in SwapBlock :
          b \in ToSet(avail) <=> \A r \in DOMAIN t : \A n \in DOMAIN t[r].vps : t[r].vps[n].id # SwapId(b)
    BY DEF SwapOK
  <2>2. ASSUME NEW b \in SwapBlock
        PROVE  (\A r \in DOMAIN t : \A n \in DOMAIN t[r].vps : t[r].vps[n].id # SwapId(b))
               <=> (\A r \in DOMAIN u : \A n \in DOMAIN u[r].vps : u[r].vps[n].id # SwapId(b))
    BY <1>1, <1>2, <1>3, <1>4
  <2>3. QED
    BY <2>1, <2>2
<1>6. \A s, r \in DOMAIN u : \A n \in DOMAIN u[s].vps, m \in DOMAIN u[r].vps :
        u[s].vps[n].id.swap_backed /\ u[s].vps[n].id = u[r].vps[m].id => s = r /\ n = m
  <2>1. ASSUME NEW s \in DOMAIN u, NEW r \in DOMAIN u, NEW n \in DOMAIN u[s].vps, NEW m \in DOMAIN u[r].vps,
               u[s].vps[n].id.swap_backed, u[s].vps[n].id = u[r].vps[m].id
        PROVE  s = r /\ n = m
    <3>1. /\ n \in DOMAIN t[s].vps /\ u[s].vps[n] = t[s].vps[n]
          /\ m \in DOMAIN t[r].vps /\ u[r].vps[m] = t[r].vps[m]
      BY <1>1, <1>2, <2>1
    <3>2. QED
      BY <1>1, <2>1, <3>1 DEF SwapOK
  <2>2. QED
    BY <2>1
<1>7. \A r \in DOMAIN u : SwapPages(u, r) = SwapPages(t, r)
  BY <1>1, <1>2, <1>3 DEF SwapPages
<1>8. \A r \in DOMAIN u : u[r].occupied_swap_blocks = Cardinality(SwapPages(u, r))
  <2>1. \A r \in DOMAIN t : t[r].occupied_swap_blocks = Cardinality(SwapPages(t, r))
    BY DEF SwapOK, SwapPages
  <2>2. \A r \in DOMAIN t : u[r].occupied_swap_blocks = t[r].occupied_swap_blocks
    BY <1>1
  <2>3. QED
    BY <1>1, <1>7, <2>1, <2>2
<1>9. QED
  BY <1>5, <1>6, <1>8 DEF SwapOK, SwapPages

\* A swap-backed page takes the first free block.
LEMMA AddedSwap ==
  ASSUME NEW t, TablesType(t), NEW u, NEW p \in DOMAIN t, NEW e, AddedPage(t, u, p, e),
         NEW avail \in Seq(SwapBlock), avail # <<>>, SwapOK(t, avail), e.id = SwapId(Head(avail))
  PROVE  SwapOK(u, Tail(avail))
<1> DEFINE L == Len(t[p].vps) + 1
           h == Head(avail)
<1>1. /\ DOMAIN u = DOMAIN t
      /\ \A r \in DOMAIN t : r # p => u[r] = t[r]
      /\ DOMAIN u[p].vps = DOMAIN t[p].vps \cup {L} /\ L \notin DOMAIN t[p].vps
      /\ u[p].vps[L] = e
      /\ \A n \in DOMAIN t[p].vps : u[p].vps[n] = t[p].vps[n]
      /\ u[p].occupied_swap_blocks = t[p].occupied_swap_blocks + 1
  BY DEF AddedPage, SwapId
<1>2. h \in ToSet(avail) /\ IsInjective(Tail(avail)) /\ ToSet(Tail(avail)) = ToSet(avail) \ {h}
  BY ElementsOfTail DEF SwapOK
<1>3. h \in SwapBlock
  BY <1>2, ElementsOfSeq
<1> HIDE DEF L, h
<1>4. \A r \in DOMAIN t : \A n \in DOMAIN u[r].vps :
        (r = p /\ n = L) \/ (n \in DOMAIN t[r].vps /\ u[r].vps[n] = t[r].vps[n])
  BY <1>1
<1>5. \A r \in DOMAIN t : \A n \in DOMAIN t[r].vps : n \in DOMAIN u[r].vps /\ u[r].vps[n] = t[r].vps[n]
  BY <1>1
<1>6. /\ u[p].vps[L].id = SwapId(h) /\ L \in DOMAIN u[p].vps
      /\ \A b : SwapId(b).swap_backed /\ SwapId(b).block = b
  BY <1>1 DEF SwapId, h
<1>7. \A b \in SwapBlock :
        b \in ToSet(avail) <=> \A r \in DOMAIN t : \A n \in DOMAIN t[r].vps : t[r].vps[n].id # SwapId(b)
  BY DEF SwapOK
<1>8. ASSUME NEW b \in SwapBlock
      PROVE  b \in ToSet(Tail(avail))
               <=> \A r \in DOMAIN u : \A n \in DOMAIN u[r].vps : u[r].vps[n].id # SwapId(b)
  <2>1. CASE b = h
    BY <1>1, <1>2, <1>6, <2>1
  <2>2. CASE b # h
    <3>1. SwapId(b) # SwapId(h)
      BY <1>6, <2>2
    <3>2. (\A r \in DOMAIN t : \A n \in DOMAIN t[r].vps : t[r].vps[n].id # SwapId(b))
          <=> (\A r \in DOMAIN u : \A n \in DOMAIN u[r].vps : u[r].vps[n].id # SwapId(b))
      BY <1>1, <1>4, <1>5, <1>6, <3>1
    <3>3. QED
      BY <1>2, <1>7, <2>2, <3>2
  <2>3. QED
    BY <2>1, <2>2
<1>9. ASSUME NEW s \in DOMAIN u, NEW r \in DOMAIN u, NEW n \in DOMAIN u[s].vps, NEW m \in DOMAIN u[r].vps,
             u[s].vps[n].id.swap_backed, u[s].vps[n].id = u[r].vps[m].id
      PROVE  s = r /\ n = m
  <2>1. \A x \in DOMAIN t : \A k \in DOMAIN t[x].vps : t[x].vps[k].id # SwapId(h)
    BY <1>2, <1>3, <1>7
  <2>2. CASE s = p /\ n = L
    BY <1>1, <1>4, <1>6, <1>9, <2>1, <2>2
  <2>3. CASE r = p /\ m = L
    BY <1>1, <1>4, <1>6, <1>9, <2>1, <2>3
  <2>4. CASE ~(s = p /\ n = L) /\ ~(r = p /\ m = L)
    <3>1. /\ n \in DOMAIN t[s].vps /\ u[s].vps[n] = t[s].vps[n]
          /\ m \in DOMAIN t[r].vps /\ u[r].vps[m] = t[r].vps[m]
      BY <1>1, <1>4, <2>4
    <3>2. QED
      BY <1>1, <1>9, <3>1 DEF SwapOK
  <2>5. QED
    BY <2>2, <2>3, <2>4
<1>10. ASSUME NEW r \in DOMAIN u
       PROVE  u[r].occupied_swap_blocks = Cardinality(SwapPages(u, r))
  <2>1. t[r].occupied_swap_blocks = Cardinality(SwapPages(t, r))
    BY <1>1 DEF SwapOK, SwapPages
  <2>2. CASE r # p
    BY <1>1, <2>1, <2>2 DEF SwapPages
  <2>3. CASE r = p
    <3>1. SwapPages(u, p) = SwapPages(t, p) \cup {L} /\ L \notin SwapPages(t, p)
      BY <1>1, <1>6 DEF SwapPages
    <3>2. Cardinality(SwapPages(u, p)) = Cardinality(SwapPages(t, p)) + 1
      BY <3>1, SwapPagesFinite, FS_AddElement
    <3>3. QED
      BY <1>1, <2>1, <2>3, <3>2
  <2>4. QED
    BY <2>2, <2>3
<1>11. QED
  BY <1>2, <1>8, <1>9, <1>10 DEF SwapOK, SwapPages

\* vm_map of a swap-backed page takes the first free block, and can reserve it.
LEMMA MapSwapKeeps ==
  ASSUME IInv, MapSwap
  PROVE  IInv'
<1> DEFINE h == Head(available_swap_blocks)
           id == SwapId(h)
<1>1. /\ CanCall /\ call = Idle /\ HasRoom /\ num_swap_blocks # 0
      /\ AddPage(id, 0, TRUE, FALSE)
      /\ peer_in_phys' = [x \in DOMAIN peer_in_phys \cup {id} |-> IF x = id THEN 0 ELSE peer_in_phys[x]]
      /\ available_swap_blocks' = Tail(available_swap_blocks)
      /\ num_swap_blocks' = num_swap_blocks - 1
      /\ UNCHANGED <<physmem, physical_table, available_physical_pages, clock_queue, backing, accessed,
                     cur_table, cur_pid, running, call>>
  BY DEF MapSwap, current
<1>2. /\ available_swap_blocks \in Seq(SwapBlock)
      /\ num_swap_blocks \in Nat /\ num_swap_blocks <= Len(available_swap_blocks)
      /\ ~ManagedForks => num_swap_blocks = Len(available_swap_blocks)
      /\ SwapOK(tables, available_swap_blocks) /\ FreeSwapOK(available_swap_blocks, peer_in_phys)
  BY DEF IInv, SwapInv, SwapCountInv
<1>3. available_swap_blocks # <<>>
  <2>1. Len(available_swap_blocks) \in Nat
    BY <1>2, LenProperties
  <2>2. Len(available_swap_blocks) # 0
    BY <1>1, <1>2, <2>1
  <2>3. QED
    BY <1>2, <2>2, EmptySeq
<1>4. /\ h \in ToSet(available_swap_blocks) /\ Tail(available_swap_blocks) \in Seq(SwapBlock)
      /\ Len(available_swap_blocks) \in Nat \ {0}
      /\ Len(Tail(available_swap_blocks)) = Len(available_swap_blocks) - 1
      /\ ToSet(Tail(available_swap_blocks)) = ToSet(available_swap_blocks) \ {h}
  BY <1>2, <1>3, ElementsOfTail DEF SwapOK
<1>5. h \in SwapBlock /\ id \in SwapIds /\ id \in file_id /\ id.swap_backed
  <2>1. h \in SwapBlock
    BY <1>2, <1>4, ElementsOfSeq
  <2>2. QED
    BY <2>1 DEF SwapIds, file_id, SwapId
<1>6. id \in DOMAIN peer_in_phys => peer_in_phys[id] = 0
  BY <1>2, <1>4 DEF FreeSwapOK
<1>7. \A p \in DOMAIN tables : \A n \in DOMAIN tables[p].vps : tables[p].vps[n].id # id
  BY <1>2, <1>4, <1>5 DEF SwapOK
<1>8. 0 \in 0 .. num_memory_pages /\ TRUE \in BOOLEAN /\ FALSE \in BOOLEAN
  BY SizesAssumption
<1> DEFINE e == NewEntry(id, 0, TRUE, FALSE)
<1> HIDE DEF id, h
<1>9. /\ cur_table \in DOMAIN tables
      /\ TablesType(tables') /\ PeersOK(peer_map', tables')
      /\ AddedPage(tables, tables', cur_table, e)
  BY <1>1, <1>5, <1>8, AddPageTables DEF IInv
<1>10. e.id = id /\ e.ppage = 0 /\ e.read_enable = TRUE /\ e.write_enable = FALSE
  BY DEF NewEntry
<1> HIDE DEF e
<1>11. /\ DOMAIN peer_in_phys' = DOMAIN peer_in_phys \cup {id} /\ peer_in_phys'[id] = 0
       /\ \A x \in DOMAIN peer_in_phys : peer_in_phys'[x] = peer_in_phys[x]
       /\ peer_in_phys' \in [DOMAIN peer_in_phys' -> PhysicalPage]
  <2>1. peer_in_phys \in [DOMAIN peer_in_phys -> PhysicalPage]
    BY DEF IInv, MemoryInv, MemoryTypes
  <2>2. QED
    BY <1>1, <1>6, <2>1, PhysicalPages
<1>12. MemoryInv'
  <2>1. MemoryTypes'
    BY <1>1, <1>5, <1>11 DEF IInv, MemoryInv, MemoryTypes
  <2>2. PagesOK(ToSet(clock_queue), physical_table, peer_in_phys')
    <3>1. 0 \notin ToSet(clock_queue)
      BY ElementsOfSeq, PhysicalPages DEF IInv, MemoryInv, MemoryTypes
    <3>2. PagesOK(ToSet(clock_queue), physical_table, peer_in_phys)
      BY DEF IInv, MemoryInv
    <3>3. ASSUME NEW x \in DOMAIN peer_in_phys'
          PROVE  IF peer_in_phys'[x] = 0 THEN x.swap_backed
                 ELSE /\ peer_in_phys'[x] \in ToSet(clock_queue)
                      /\ physical_table[peer_in_phys'[x]].id = x
      <4>1. CASE x = id
        BY <1>5, <1>11, <4>1
      <4>2. CASE x # id
        BY <1>11, <3>2, <4>2 DEF PagesOK
      <4>3. QED
        BY <4>1, <4>2
    <3>4. QED
      BY <1>11, <3>2, <3>3 DEF PagesOK
  <2>3. QED
    BY <1>1, <2>1, <2>2 DEF IInv, MemoryInv
<1>13. TablesInv'
  <2>1. EntryOK(e, physical_table, peer_in_phys')
    BY <1>10, <1>11 DEF EntryOK
  <2>2. ASSUME NEW p \in DOMAIN tables, NEW n \in DOMAIN tables[p].vps,
               EntryOK(tables[p].vps[n], physical_table, peer_in_phys)
        PROVE  EntryOK(tables[p].vps[n], physical_table, peer_in_phys')
    <3>1. tables[p].vps[n].id \in DOMAIN peer_in_phys' <=> tables[p].vps[n].id \in DOMAIN peer_in_phys
      BY <1>7, <1>11
    <3>2. QED
      BY <1>11, <2>2, <3>1 DEF EntryOK
  <2>3. ProtectionOK(tables', physical_table, peer_in_phys')
    <3>1. ProtectionOK(tables, physical_table, peer_in_phys)
      BY DEF IInv, TablesInv
    <3>2. QED
      BY <1>9, <2>1, <2>2, <3>1, AddedProtection
  <2>4. QED
    BY <1>1, <1>9, <2>3 DEF TablesInv
<1>14. SwapInv'
  <2>1. SwapOK(tables', Tail(available_swap_blocks))
    <3>1. TablesType(tables)
      BY DEF IInv, TablesInv
    <3>2. e.id = SwapId(Head(available_swap_blocks))
      BY <1>10 DEF id, h
    <3>3. QED
      BY <1>2, <1>3, <1>9, <3>1, <3>2, AddedSwap
  <2>2. FreeSwapOK(Tail(available_swap_blocks), peer_in_phys')
    <3>1. ASSUME NEW b \in ToSet(Tail(available_swap_blocks)), SwapId(b) \in DOMAIN peer_in_phys'
          PROVE  peer_in_phys'[SwapId(b)] = 0
      BY <1>2, <1>4, <1>11, <3>1 DEF FreeSwapOK
    <3>2. QED
      BY <3>1 DEF FreeSwapOK
  <2>3. /\ num_swap_blocks - 1 \in Nat
        /\ num_swap_blocks - 1 <= Len(Tail(available_swap_blocks))
        /\ ~ManagedForks => num_swap_blocks - 1 = Len(Tail(available_swap_blocks))
    <3>1. \A i, j \in Nat : i # 0 /\ j # 0 =>
            i - 1 \in Nat /\ (i <= j => i - 1 <= j - 1) /\ (i = j => i - 1 = j - 1)
      OBVIOUS
    <3>2. num_swap_blocks \in Nat /\ num_swap_blocks # 0 /\ Len(available_swap_blocks) \in Nat
          /\ Len(available_swap_blocks) # 0
      BY <1>1, <1>2, <1>4
    <3>3. QED
      BY <1>2, <1>4, <3>1, <3>2, Zenon
  <2>4. SwapCountInv'
    BY <1>1, <1>4, <2>3 DEF SwapCountInv
  <2>5. QED
    BY <1>1, <2>1, <2>2, <2>4 DEF SwapInv
<1>15. ControlInv'
  BY <1>1, <1>9 DEF IInv, ControlInv, AddedPage
<1>16. CallInv'
  BY <1>1, IdleCall
<1>17. QED
  BY <1>12, <1>13, <1>14, <1>15, <1>16 DEF IInv

\* The name that was read is one: its last part ends it, and no other does.
LEMMA NameRead ==
  ASSUME NEW s \in Seq(Value \ Ending), NEW v \in Ending, Len(s) + 1 <= MAX_PAGE_NUM
  PROVE  Append(s, v) \in Name
<1>1. Ending \subseteq Value /\ MAX_PAGE_NUM \in Nat
  BY ValueAssumption, SizesAssumption
<1>2. s \in Seq(Value) /\ Len(s) \in Nat /\ \A k \in 1 .. Len(s) : s[k] \in Value \ Ending
  BY ElementsOfSeq
<1>3. PICK t : t = Append(s, v)
  OBVIOUS
<1>4. PICK L \in Nat : L = Len(s) + 1
  BY <1>2
<1>5. /\ t \in Seq(Value) /\ Len(t) = L /\ t[L] = v
      /\ \A k \in 1 .. Len(s) : t[k] = s[k]
  BY <1>1, <1>2, <1>3, <1>4, AppendProperties
<1>6. DOMAIN t = 1 .. L /\ t \in [1 .. L -> Value]
  BY <1>5, LenProperties
<1>7. L \in 0 .. MAX_PAGE_NUM
  BY <1>1, <1>4
<1>8. t \in BoundedSeq(Value, MAX_PAGE_NUM)
  BY <1>6, <1>7 DEF BoundedSeq, SeqOf
<1>9. t # <<>>
  BY <1>2, <1>4, <1>5, EmptySeq
<1>10. \A k \in DOMAIN t : t[k] \in Ending <=> k = Len(t)
  <2>1. \A k \in 1 .. L : k \in 1 .. Len(s) \/ k = L
    BY <1>2, <1>4
  <2>2. L \notin 1 .. Len(s)
    BY <1>2, <1>4
  <2>3. QED
    BY <1>2, <1>5, <1>6, <2>1, <2>2
<1>11. QED
  BY <1>3, <1>8, <1>9, <1>10 DEF Name

\* A page of a file, with the protection it should have, joins the others.
LEMMA FileMapped ==
  ASSUME IInv, cur_table \in DOMAIN tables, NEW e, ~e.id.swap_backed,
         AddedPage(tables, tables', cur_table, e), TablesType(tables'), PeersOK(peer_map', tables'),
         EntryOK(e, physical_table, peer_in_phys), call' = Idle,
         UNCHANGED <<physmem, physical_table, available_physical_pages, clock_queue, peer_in_phys,
                     backing, accessed, available_swap_blocks, num_swap_blocks,
                     cur_table, cur_pid, running>>
  PROVE  IInv'
<1>1. MemoryInv'
  BY DEF IInv, MemoryInv, MemoryTypes
<1>2. TablesInv'
  <2>1. ProtectionOK(tables, physical_table, peer_in_phys)
    BY DEF IInv, TablesInv
  <2>2. ProtectionOK(tables', physical_table, peer_in_phys)
    BY <2>1, AddedProtection
  <2>3. QED
    BY <2>2 DEF TablesInv
<1>3. SwapInv'
  <2>1. SwapOK(tables, available_swap_blocks)
    BY DEF IInv, SwapInv
  <2>2. SwapOK(tables', available_swap_blocks)
    BY <2>1, AddedFile
  <2>3. QED
    BY <2>2 DEF IInv, SwapInv, SwapCountInv
<1>4. ControlInv'
  BY DEF IInv, ControlInv, AddedPage
<1>5. QED
  BY <1>1, <1>2, <1>3, <1>4, IdleCall DEF IInv

\* vm_map has the name and adds the page, with the PTE that its file_id has elsewhere.
LEMMA EndNameKeeps ==
  ASSUME IInv, EndName
  PROVE  IInv'
<1> DEFINE id    == FileId(<<Append(call.name, NamePart), call.block>>)
           ppage == IF Resident(id) THEN peer_in_phys[id] ELSE num_memory_pages
           r     == ReadableAtOnce(id)
           w     == WritableAtOnce(id)
<1>1. /\ InMap /\ ~AtEnd /\ ~Denied(call.at, FALSE) /\ NamePart \in Ending
      /\ AddPage(id, ppage, r, w) /\ call' = Idle
      /\ UNCHANGED <<physmem, physical_table, available_physical_pages, clock_queue, peer_in_phys,
                     backing, accessed, available_swap_blocks, num_swap_blocks,
                     cur_table, cur_pid, running>>
  BY DEF EndName, memory, swapVars, current
<1>2. /\ CanCall /\ HasRoom /\ cur_table \in DOMAIN tables /\ call.at \in Nat
      /\ call.name \in Seq(Value \ Ending) /\ call.block \in FileBlock
      /\ Len(call.name) \in Nat /\ Len(call.name) < call.at /\ call.at <= MAX_PAGE_NUM
  BY <1>1, InMapFacts
<1>3. Len(call.name) + 1 <= MAX_PAGE_NUM
  BY <1>2, SizesAssumption
<1>4. Append(call.name, NamePart) \in Name
  BY <1>1, <1>2, <1>3, NameRead
<1>5. id \in file_id /\ ~id.swap_backed
  <2>1. PICK file : file = <<Append(call.name, NamePart), call.block>>
    OBVIOUS
  <2>2. file \in Name \X FileBlock /\ id = FileId(file)
    BY <1>2, <1>4, <2>1
  <2>3. QED
    BY <2>2 DEF file_id, FileId
<1> HIDE DEF id
<1>6. PagesOK(ToSet(clock_queue), physical_table, peer_in_phys)
  BY DEF IInv, MemoryInv
<1>7. /\ physical_table \in [PhysicalPage -> physical_page]
      /\ peer_in_phys \in [DOMAIN peer_in_phys -> PhysicalPage]
  BY DEF IInv, MemoryInv, MemoryTypes
<1>8. CASE id \in DOMAIN peer_in_phys
  <2>1. /\ ppage = peer_in_phys[id] /\ ppage \in PhysicalPage /\ ppage # 0
        /\ (r <=> physical_table[ppage].referenced)
        /\ (w <=> physical_table[ppage].referenced /\ physical_table[ppage].dirty)
    BY <1>5, <1>6, <1>7, <1>8 DEF Resident, ReadableAtOnce, WritableAtOnce, PagesOK
  <2>2. r \in BOOLEAN /\ w \in BOOLEAN
    BY DEF ReadableAtOnce, WritableAtOnce, Resident
  <2>3. ppage \in 0 .. num_memory_pages
    BY <2>1, SizesAssumption DEF PhysicalPage
  <2> HIDE DEF ppage, r, w
  <2>4. EntryOK(NewEntry(id, ppage, r, w), physical_table, peer_in_phys)
    BY <1>8, <2>1 DEF EntryOK, NewEntry
  <2>5. QED
    <3>1. /\ TablesType(tables') /\ PeersOK(peer_map', tables')
          /\ AddedPage(tables, tables', cur_table, NewEntry(id, ppage, r, w))
      BY <1>1, <1>2, <1>5, <2>2, <2>3, AddPageTables DEF IInv
    <3>2. PICK e : e = NewEntry(id, ppage, r, w)
      OBVIOUS
    <3>3. ~e.id.swap_backed
      BY <1>5, <3>2 DEF NewEntry
    <3>4. QED
      BY <1>1, <1>2, <2>4, <3>1, <3>2, <3>3, FileMapped
<1>9. CASE id \notin DOMAIN peer_in_phys
  <2>1. ppage = num_memory_pages /\ ~r /\ ~w
    BY <1>9 DEF Resident, ReadableAtOnce, WritableAtOnce
  <2>2. r \in BOOLEAN /\ w \in BOOLEAN
    BY DEF ReadableAtOnce, WritableAtOnce, Resident
  <2>3. ppage \in 0 .. num_memory_pages
    BY <2>1, SizesAssumption
  <2> HIDE DEF ppage, r, w
  <2>4. EntryOK(NewEntry(id, ppage, r, w), physical_table, peer_in_phys)
    BY <1>9, <2>1 DEF EntryOK, NewEntry
  <2>5. QED
    <3>1. /\ TablesType(tables') /\ PeersOK(peer_map', tables')
          /\ AddedPage(tables, tables', cur_table, NewEntry(id, ppage, r, w))
      BY <1>1, <1>2, <1>5, <2>2, <2>3, AddPageTables DEF IInv
    <3>2. PICK e : e = NewEntry(id, ppage, r, w)
      OBVIOUS
    <3>3. ~e.id.swap_backed
      BY <1>5, <3>2 DEF NewEntry
    <3>4. QED
      BY <1>1, <1>2, <2>4, <3>1, <3>2, <3>3, FileMapped
<1>10. QED
  BY <1>8, <1>9

-----------------------------------------------------------------------------
(* vm_create, vm_switch *)

\* vm_create adds a process without pages, and may reserve swap blocks.
LEMMA vm_createKeeps ==
  ASSUME IInv, NEW parent \in Pid \cup {Shell}, NEW child \in Pid, vm_create(parent, child)
  PROVE  IInv'
<1> DEFINE empty == [vps |-> <<>>, occupied_swap_blocks |-> 0]
<1>1. /\ call = Idle /\ child \notin DOMAIN tables \cup {cur_pid}
      /\ parent = Shell \/ (parent = running /\ CanCall /\ (ManagedForks \/ tables[running].vps = <<>>))
      /\ Reserved(parent) <= num_swap_blocks
      /\ num_swap_blocks' = num_swap_blocks - Reserved(parent)
      /\ tables' = [p \in DOMAIN tables \cup {child} |-> IF p = child THEN empty ELSE tables[p]]
      /\ UNCHANGED <<physmem, physical_table, available_physical_pages, clock_queue, peer_in_phys,
                     backing, accessed, peer_map, available_swap_blocks,
                     cur_table, cur_pid, running, call>>
  BY DEF vm_create, MayCreate, memory, current
<1>2. TablesType(tables) /\ PeersOK(peer_map, tables) /\ ProtectionOK(tables, physical_table, peer_in_phys)
  BY DEF IInv, TablesInv
<1>3. empty \in page_table /\ empty.vps = <<>> /\ DOMAIN empty.vps = {} /\ empty.occupied_swap_blocks = 0
      /\ Len(empty.vps) = 0
  BY EmptySeq DEF page_table
<1> HIDE DEF empty
<1>4. /\ DOMAIN tables' = DOMAIN tables \cup {child} /\ child \notin DOMAIN tables
      /\ tables'[child] = empty
      /\ \A p \in DOMAIN tables : tables'[p] = tables[p]
  BY <1>1
<1>5. MemoryInv'
  BY <1>1 DEF IInv, MemoryInv, MemoryTypes
<1>6. TablesInv'
  <2>1. TablesType(tables')
    <3>1. tables' \in [DOMAIN tables' -> page_table]
      BY <1>1, <1>2, <1>3, <1>4 DEF TablesType
    <3>2. \A p \in DOMAIN tables' : Len(tables'[p].vps) <= MAX_PAGE_NUM
      BY <1>2, <1>3, <1>4, SizesAssumption DEF TablesType
    <3>3. QED
      BY <1>2, <1>4, <3>1, <3>2 DEF TablesType
  <2>2. PeersOK(peer_map, tables')
    <3>1. \A x : x \in peer_map <=> \E p \in DOMAIN tables : \E n \in DOMAIN tables[p].vps :
                                      x = <<tables[p].vps[n].id, <<p, n>>>>
      BY <1>2, PeersMembers
    <3>2. \A x : x \in peer_map <=> \E p \in DOMAIN tables' : \E n \in DOMAIN tables'[p].vps :
                                      x = <<tables'[p].vps[n].id, <<p, n>>>>
      BY <1>3, <1>4, <3>1
    <3>3. QED
      BY <3>2 DEF PeersOK
  <2>3. ProtectionOK(tables', physical_table, peer_in_phys)
    BY <1>2, <1>3, <1>4 DEF ProtectionOK
  <2>4. QED
    BY <1>1, <2>1, <2>2, <2>3 DEF TablesInv
<1>7. SwapInv'
  <2>1. SwapOK(tables, available_swap_blocks)
    BY DEF IInv, SwapInv
  <2>2. \A p \in DOMAIN tables' : \A n \in DOMAIN tables'[p].vps :
          p \in DOMAIN tables /\ n \in DOMAIN tables[p].vps /\ tables'[p].vps[n] = tables[p].vps[n]
    BY <1>3, <1>4
  <2>3. \A p \in DOMAIN tables : \A n \in DOMAIN tables[p].vps :
          p \in DOMAIN tables' /\ n \in DOMAIN tables'[p].vps /\ tables'[p].vps[n] = tables[p].vps[n]
    BY <1>4
  <2>4. \A b \in SwapBlock :
          b \in ToSet(available_swap_blocks)
            <=> \A p \in DOMAIN tables' : \A n \in DOMAIN tables'[p].vps : tables'[p].vps[n].id # SwapId(b)
    <3>1. ASSUME NEW b \in SwapBlock
          PROVE  (\A p \in DOMAIN tables : \A n \in DOMAIN tables[p].vps : tables[p].vps[n].id # SwapId(b))
                 <=> (\A p \in DOMAIN tables' : \A n \in DOMAIN tables'[p].vps :
                        tables'[p].vps[n].id # SwapId(b))
      BY <2>2, <2>3
    <3>2. QED
      BY <2>1, <3>1 DEF SwapOK
  <2>5. ASSUME NEW p \in DOMAIN tables', NEW r \in DOMAIN tables',
               NEW n \in DOMAIN tables'[p].vps, NEW m \in DOMAIN tables'[r].vps,
               tables'[p].vps[n].id.swap_backed, tables'[p].vps[n].id = tables'[r].vps[m].id
        PROVE  p = r /\ n = m
    BY <2>1, <2>2, <2>5 DEF SwapOK
  <2>6. ASSUME NEW p \in DOMAIN tables'
        PROVE  tables'[p].occupied_swap_blocks = Cardinality(SwapPages(tables', p))
    <3>1. CASE p = child
      <4>1. SwapPages(tables', p) = {}
        BY <1>3, <1>4, <3>1 DEF SwapPages
      <4>2. QED
        BY <1>3, <1>4, <3>1, <4>1, FS_EmptySet
    <3>2. CASE p # child
      BY <1>4, <2>1, <3>2 DEF SwapOK, SwapPages
    <3>3. QED
      BY <3>1, <3>2
  <2>7. SwapOK(tables', available_swap_blocks)
    BY <2>1, <2>4, <2>5, <2>6 DEF SwapOK, SwapPages
  <2>8. Reserved(parent) \in Nat
    <3>1. \A p \in DOMAIN tables : tables[p].occupied_swap_blocks \in Nat
      BY <1>2, TableTypes
    <3>2. QED
      BY <3>1 DEF Reserved
  <2>9. ~ManagedForks => Reserved(parent) = 0
    <3>1. CASE parent = Shell
      BY <1>2, <3>1, PidAssumption DEF Reserved, TablesType
    <3>2. CASE parent # Shell /\ ~ManagedForks /\ parent \in DOMAIN tables
      <4>1. tables[parent].vps = <<>>
        BY <1>1, <3>2
      <4>2. SwapPages(tables, parent) = {}
        BY <4>1, EmptySeq DEF SwapPages
      <4>3. tables[parent].occupied_swap_blocks = Cardinality(SwapPages(tables, parent))
        BY <2>1, <3>2 DEF SwapOK, SwapPages
      <4>4. QED
        BY <3>2, <4>2, <4>3, FS_EmptySet DEF Reserved
    <3>3. CASE parent \notin DOMAIN tables
      BY <3>3 DEF Reserved
    <3>4. QED
      BY <3>1, <3>2, <3>3
  <2>10. SwapCountInv'
    <3>1. SwapCountInv /\ Len(available_swap_blocks) \in Nat
      BY LenProperties DEF IInv, SwapInv, SwapCountInv
    <3>2. \A i, j, k \in Nat : k <= i /\ i <= j => i - k \in Nat /\ i - k <= j
      OBVIOUS
    <3>3. num_swap_blocks' \in Nat /\ num_swap_blocks' <= Len(available_swap_blocks)
      BY <1>1, <2>8, <3>1, <3>2, Zenon DEF SwapCountInv
    <3>4. ~ManagedForks => num_swap_blocks' = Len(available_swap_blocks)
      BY <1>1, <2>9, <3>1 DEF SwapCountInv
    <3>5. QED
      BY <1>1, <3>1, <3>3, <3>4 DEF SwapCountInv
  <2>11. QED
    BY <1>1, <2>7, <2>10 DEF IInv, SwapInv
<1>8. ControlInv'
  BY <1>1, <1>4 DEF IInv, ControlInv
<1>9. CallInv'
  BY <1>1, IdleCall
<1>10. QED
  BY <1>5, <1>6, <1>7, <1>8, <1>9 DEF IInv

\* vm_switch changes the current page table only.
LEMMA vm_switchKeeps ==
  ASSUME IInv, NEW pid \in Pid, vm_switch(pid)
  PROVE  IInv'
<1>1. /\ call = Idle /\ pid \in DOMAIN tables \ {running} /\ running' = pid
      /\ IF cur_pid # pid THEN cur_table' = pid /\ cur_pid' = pid ELSE UNCHANGED <<cur_table, cur_pid>>
      /\ UNCHANGED <<physmem, physical_table, available_physical_pages, clock_queue, peer_in_phys,
                     backing, accessed, peer_map, tables, available_swap_blocks, num_swap_blocks, call>>
  BY DEF vm_switch, memory, swapVars
<1>2. MemoryInv' /\ TablesInv' /\ SwapInv'
  BY <1>1 DEF IInv, MemoryInv, MemoryTypes, TablesInv, SwapInv, SwapCountInv
<1>3. cur_pid # pid
  BY <1>1 DEF IInv, ControlInv
<1>4. ControlInv'
  BY <1>1, <1>3, PidAssumption DEF IInv, ControlInv
<1>5. QED
  BY <1>1, <1>2, <1>4, IdleCall DEF IInv

-----------------------------------------------------------------------------
(* vm_destroy *)

\* The swap-backed pages of a process that ends, and the physical pages it frees: each once.
LEMMA FreedFacts ==
  ASSUME IInv, CanCall
  PROVE  LET V == tables[cur_table].vps
             F == ToSet(FreedPages)
         IN /\ cur_table \in DOMAIN tables
            /\ SwapEntries \in Seq(virtual_page) /\ IsInjective(SwapEntries)
            /\ ToSet(SwapEntries) = {e \in ToSet(V) : e.id.swap_backed}
            /\ Len(SwapEntries) = tables[cur_table].occupied_swap_blocks
            /\ FreedEntries \in Seq(virtual_page)
            /\ ToSet(FreedEntries) = {e \in ToSet(V) : e.id.swap_backed /\ Resident(e.id) /\ e.ppage # 0}
            /\ FreedPages \in Seq(OwnPage) /\ IsInjective(FreedPages)
            /\ F = {e.ppage : e \in ToSet(FreedEntries)}
            /\ F \subseteq ToSet(clock_queue)
            /\ \A e \in ToSet(FreedEntries) : /\ e.ppage = peer_in_phys[e.id]
                                              /\ physical_table[e.ppage].id = e.id
<1> DEFINE V == tables[cur_table].vps
           S == {e \in ToSet(V) : e.id.swap_backed}
           G == {e \in ToSet(SwapEntries) : Resident(e.id) /\ e.ppage # 0}
<1>1. /\ cur_table \in DOMAIN tables /\ V \in Seq(virtual_page)
      /\ Len(V) \in Nat /\ DOMAIN V = 1 .. Len(V)
      /\ ToSet(V) = {V[k] : k \in 1 .. Len(V)} /\ ToSet(V) \subseteq virtual_page
  <2>1. cur_table \in DOMAIN tables
    BY DEF IInv, ControlInv, CanCall
  <2>2. V \in Seq(virtual_page)
    BY <2>1, TableTypes DEF IInv, TablesInv
  <2>3. QED
    BY <2>1, <2>2, ElementsOfSeq
<1>2. \A j, k \in DOMAIN V : V[j].id.swap_backed /\ V[j].id = V[k].id => j = k
  BY <1>1 DEF IInv, SwapInv, SwapOK
<1>3. \A k \in DOMAIN V : EntryOK(V[k], physical_table, peer_in_phys)
  BY <1>1 DEF IInv, TablesInv, ProtectionOK
<1>4. SwapEntries = KeptIn(V, S) /\ FreedEntries = KeptIn(SwapEntries, G)
  BY DEF SwapEntries, FreedEntries
<1>5. tables[cur_table].occupied_swap_blocks = Cardinality({k \in DOMAIN V : V[k].id.swap_backed})
  BY <1>1 DEF IInv, SwapInv, SwapOK
<1> HIDE DEF V
<1>6. {k \in DOMAIN V : V[k] \in S} = {k \in DOMAIN V : V[k].id.swap_backed}
  BY <1>1
<1>7. \A j, k \in DOMAIN V : V[j] \in S /\ V[j] = V[k] => j = k
  BY <1>2
<1> HIDE DEF S, G
<1>8. /\ SwapEntries \in Seq(virtual_page)
      /\ ToSet(SwapEntries) = ToSet(V) \cap S
      /\ Len(SwapEntries) = Cardinality({k \in DOMAIN V : V[k] \in S})
      /\ IsInjective(SwapEntries)
  BY <1>1, <1>4, <1>7, KeptProperties
<1>9. ToSet(SwapEntries) = {e \in ToSet(V) : e.id.swap_backed}
  BY <1>8 DEF S
<1>10. \A j, k \in DOMAIN SwapEntries : SwapEntries[j] \in G /\ SwapEntries[j] = SwapEntries[k] => j = k
  BY <1>8 DEF IsInjective
<1>11. /\ FreedEntries \in Seq(virtual_page)
       /\ ToSet(FreedEntries) = ToSet(SwapEntries) \cap G
       /\ IsInjective(FreedEntries)
  BY <1>4, <1>8, <1>10, KeptProperties
<1>12. ToSet(FreedEntries) = {e \in ToSet(V) : e.id.swap_backed /\ Resident(e.id) /\ e.ppage # 0}
  BY <1>9, <1>11 DEF G
<1>13. ASSUME NEW e \in ToSet(FreedEntries)
       PROVE  /\ e.ppage = peer_in_phys[e.id] /\ physical_table[e.ppage].id = e.id
              /\ e.ppage \in ToSet(clock_queue)
  <2>1. PICK k \in DOMAIN V : e = V[k]
    BY <1>1, <1>12
  <2>2. e.id \in DOMAIN peer_in_phys /\ e.ppage # 0 /\ e.ppage = peer_in_phys[e.id]
    BY <1>3, <1>12, <2>1 DEF EntryOK, Resident
  <2>3. QED
    BY <2>2 DEF IInv, MemoryInv, PagesOK
<1>14. ToSet(clock_queue) \subseteq OwnPage
  BY ElementsOfSeq DEF IInv, MemoryInv, MemoryTypes
<1>15. /\ Len(FreedEntries) \in Nat /\ DOMAIN FreedEntries = 1 .. Len(FreedEntries)
       /\ ToSet(FreedEntries) = {FreedEntries[k] : k \in 1 .. Len(FreedEntries)}
  BY <1>11, ElementsOfSeq
<1>16. FreedPages \in [1 .. Len(FreedEntries) -> OwnPage]
  BY <1>13, <1>14, <1>15 DEF FreedPages
<1>17. /\ FreedPages \in Seq(OwnPage) /\ DOMAIN FreedPages = 1 .. Len(FreedEntries)
       /\ \A k \in 1 .. Len(FreedEntries) : FreedPages[k] = FreedEntries[k].ppage
  BY <1>15, <1>16 DEF FreedPages
<1>18. ToSet(FreedPages) = {e.ppage : e \in ToSet(FreedEntries)}
  BY <1>15, <1>17 DEF ToSet
<1>19. IsInjective(FreedPages)
  <2>1. SUFFICES ASSUME NEW j \in 1 .. Len(FreedEntries), NEW k \in 1 .. Len(FreedEntries),
                        FreedPages[j] = FreedPages[k]
                 PROVE  j = k
    BY <1>17 DEF IsInjective
  <2>2. PICK d \in ToSet(FreedEntries) : d = FreedEntries[j]
    BY <1>15
  <2>3. PICK e \in ToSet(FreedEntries) : e = FreedEntries[k]
    BY <1>15
  <2>4. d.ppage = e.ppage
    BY <1>17, <2>1, <2>2, <2>3
  <2>5. d.id = e.id
    BY <1>13, <2>4
  <2>6. PICK x \in DOMAIN V : d = V[x]
    BY <1>1, <1>12
  <2>7. PICK y \in DOMAIN V : e = V[y]
    BY <1>1, <1>12
  <2>8. d = e
    BY <1>2, <1>12, <2>5, <2>6, <2>7
  <2>9. QED
    BY <1>11, <1>15, <2>2, <2>3, <2>8 DEF IsInjective
<1>20. ToSet(FreedPages) \subseteq ToSet(clock_queue)
  BY <1>13, <1>18
<1>21. QED
  BY <1>1, <1>5, <1>6, <1>8, <1>9, <1>11, <1>12, <1>13, <1>17, <1>18, <1>19, <1>20 DEF V

\* The file_id of a swap-backed page is that of its block.
LEMMA SwapIdOfBlock ==
  ASSUME NEW id \in file_id, id.swap_backed
  PROVE  id.block \in SwapBlock /\ id = SwapId(id.block)
<1>1. id \in SwapIds
  BY DEF file_id, FileId
<1>2. QED
  BY <1>1 DEF SwapIds, SwapId

\* The swap blocks a process returns are those of its pages, and none was free.
LEMMA SwapReturned ==
  ASSUME IInv, CanCall,
         DOMAIN tables' = DOMAIN tables \ {cur_table},
         \A p \in DOMAIN tables' : tables'[p] = tables[p],
         available_swap_blocks' = SwapAfterDestroy,
         num_swap_blocks' = num_swap_blocks + tables[cur_table].occupied_swap_blocks,
         DOMAIN peer_in_phys' = DOMAIN peer_in_phys \ {FreedEntries[k].id : k \in DOMAIN FreedEntries},
         \A id \in DOMAIN peer_in_phys' : peer_in_phys'[id] = peer_in_phys[id]
  PROVE  SwapInv'
<1> DEFINE V == tables[cur_table].vps
           R == [k \in DOMAIN SwapEntries |-> SwapEntries[k].id.block]
           B == {b \in SwapBlock : \E k \in DOMAIN V : V[k].id = SwapId(b)}
<1>1. /\ cur_table \in DOMAIN tables
      /\ SwapEntries \in Seq(virtual_page) /\ IsInjective(SwapEntries)
      /\ ToSet(SwapEntries) = {e \in ToSet(V) : e.id.swap_backed}
      /\ Len(SwapEntries) = tables[cur_table].occupied_swap_blocks
      /\ FreedEntries \in Seq(virtual_page)
      /\ ToSet(FreedEntries) = {e \in ToSet(V) : e.id.swap_backed /\ Resident(e.id) /\ e.ppage # 0}
  BY FreedFacts
<1>2. /\ V \in Seq(virtual_page) /\ ToSet(V) = {V[k] : k \in DOMAIN V} /\ ToSet(V) \subseteq virtual_page
      /\ \A k \in DOMAIN V : V[k] \in ToSet(V)
  <2>1. V \in Seq(virtual_page)
    BY <1>1, TableTypes DEF IInv, TablesInv
  <2>2. QED
    BY <2>1, ElementsOfSeq
<1>3. /\ Len(SwapEntries) \in Nat /\ DOMAIN SwapEntries = 1 .. Len(SwapEntries)
      /\ ToSet(SwapEntries) = {SwapEntries[k] : k \in 1 .. Len(SwapEntries)}
  BY <1>1, ElementsOfSeq
<1>4. SwapAfterDestroy = available_swap_blocks \o R
  BY DEF SwapAfterDestroy
<1>5. /\ available_swap_blocks \in Seq(SwapBlock) /\ Len(available_swap_blocks) \in Nat
      /\ num_swap_blocks \in Nat /\ num_swap_blocks <= Len(available_swap_blocks)
      /\ ~ManagedForks => num_swap_blocks = Len(available_swap_blocks)
      /\ SwapOK(tables, available_swap_blocks) /\ FreeSwapOK(available_swap_blocks, peer_in_phys)
  BY LenProperties DEF IInv, SwapInv, SwapCountInv
<1> HIDE DEF V
<1>6. ASSUME NEW e \in ToSet(SwapEntries)
      PROVE  e.id.block \in SwapBlock /\ e.id = SwapId(e.id.block)
  <2>1. e.id \in file_id /\ e.id.swap_backed
    BY <1>1, <1>2 DEF virtual_page
  <2>2. QED
    BY <2>1, SwapIdOfBlock
<1>7. /\ R \in Seq(SwapBlock) /\ Len(R) = Len(SwapEntries) /\ DOMAIN R = 1 .. Len(SwapEntries)
      /\ \A k \in 1 .. Len(SwapEntries) : R[k] = SwapEntries[k].id.block
  <2>1. R \in [1 .. Len(SwapEntries) -> SwapBlock]
    BY <1>3, <1>6
  <2>2. QED
    BY <1>3, <2>1
<1> HIDE DEF R
<1>8. ToSet(R) = B
  <2>1. ASSUME NEW k \in 1 .. Len(SwapEntries)
        PROVE  R[k] \in B
    <3>1. PICK e \in ToSet(SwapEntries) : e = SwapEntries[k]
      BY <1>3
    <3>2. PICK j \in DOMAIN V : e = V[j]
      BY <1>1, <1>2
    <3>3. QED
      BY <1>6, <1>7, <3>1, <3>2
  <2>2. ASSUME NEW b \in B
        PROVE  b \in ToSet(R)
    <3>1. PICK j \in DOMAIN V : V[j].id = SwapId(b)
      OBVIOUS
    <3>2. V[j] \in ToSet(V) /\ V[j].id.swap_backed /\ V[j].id.block = b
      BY <1>2, <3>1 DEF SwapId
    <3>3. V[j] \in ToSet(SwapEntries)
      BY <1>1, <3>2
    <3>4. PICK k \in 1 .. Len(SwapEntries) : SwapEntries[k] = V[j]
      BY <1>3, <3>3
    <3>5. QED
      BY <1>7, <3>2, <3>4 DEF ToSet
  <2>3. QED
    BY <1>7, <2>1, <2>2 DEF ToSet
<1>9. IsInjective(R)
  <2>1. SUFFICES ASSUME NEW j \in 1 .. Len(SwapEntries), NEW k \in 1 .. Len(SwapEntries), R[j] = R[k]
                 PROVE  j = k
    BY <1>7 DEF IsInjective
  <2>2. PICK d \in ToSet(SwapEntries) : d = SwapEntries[j]
    BY <1>3
  <2>3. PICK e \in ToSet(SwapEntries) : e = SwapEntries[k]
    BY <1>3
  <2>4. d.id = e.id
    BY <1>6, <1>7, <2>1, <2>2, <2>3
  <2>5. PICK x \in DOMAIN V : d = V[x]
    BY <1>1, <1>2
  <2>6. PICK y \in DOMAIN V : e = V[y]
    BY <1>1, <1>2
  <2>7. x = y
    BY <1>1, <1>5, <2>4, <2>5, <2>6 DEF SwapOK, V
  <2>8. QED
    BY <1>1, <1>3, <2>2, <2>3, <2>5, <2>6, <2>7 DEF IsInjective
<1>10. \A b \in SwapBlock :
         b \in ToSet(available_swap_blocks)
           <=> \A p \in DOMAIN tables : \A n \in DOMAIN tables[p].vps : tables[p].vps[n].id # SwapId(b)
  BY <1>5 DEF SwapOK
<1>11. ToSet(available_swap_blocks) \cap B = {}
  BY <1>1, <1>10 DEF V
<1>12. /\ available_swap_blocks \o R \in Seq(SwapBlock)
       /\ Len(available_swap_blocks \o R) = Len(available_swap_blocks) + Len(R)
       /\ ToSet(available_swap_blocks \o R) = ToSet(available_swap_blocks) \cup B
       /\ IsInjective(available_swap_blocks \o R)
  <2>1. IsInjective(available_swap_blocks)
    BY <1>5 DEF SwapOK
  <2>2. QED
    <3>1. /\ available_swap_blocks \o R \in Seq(SwapBlock)
          /\ Len(available_swap_blocks \o R) = Len(available_swap_blocks) + Len(R)
          /\ ToSet(available_swap_blocks \o R) = ToSet(available_swap_blocks) \cup ToSet(R)
          /\ IsInjective(available_swap_blocks \o R)
               <=> IsInjective(available_swap_blocks) /\ IsInjective(R)
                   /\ ToSet(available_swap_blocks) \cap ToSet(R) = {}
      BY <1>5, <1>7, ElementsOfConcat, ZenonT(40)
    <3>2. QED
      BY <1>8, <1>9, <1>11, <2>1, <3>1, Zenon
<1>13. ASSUME NEW b \in SwapBlock
       PROVE  b \in ToSet(available_swap_blocks) \cup B
                <=> \A p \in DOMAIN tables' : \A n \in DOMAIN tables'[p].vps : tables'[p].vps[n].id # SwapId(b)
  <2>1. CASE b \in B
    <3>1. PICK k \in DOMAIN V : V[k].id = SwapId(b)
      BY <2>1
    <3>2. SwapId(b).swap_backed
      BY DEF SwapId
    <3>3. ASSUME NEW p \in DOMAIN tables', NEW n \in DOMAIN tables'[p].vps
          PROVE  tables'[p].vps[n].id # SwapId(b)
      BY <1>1, <1>5, <3>1, <3>2 DEF SwapOK, V
    <3>4. QED
      BY <2>1, <3>3
  <2>2. CASE b \notin B
    BY <1>1, <1>10, <2>2 DEF V
  <2>3. QED
    BY <2>1, <2>2
<1>14. SwapOK(tables', available_swap_blocks \o R)
  <2>1. \A p \in DOMAIN tables' : p \in DOMAIN tables
    OBVIOUS
  <2>2. \A p, r \in DOMAIN tables' : \A n \in DOMAIN tables'[p].vps, m \in DOMAIN tables'[r].vps :
          tables'[p].vps[n].id.swap_backed /\ tables'[p].vps[n].id = tables'[r].vps[m].id => p = r /\ n = m
    BY <1>5, <2>1 DEF SwapOK
  <2>3. \A p \in DOMAIN tables' : tables'[p].occupied_swap_blocks = Cardinality(SwapPages(tables', p))
    <3>1. ASSUME NEW p \in DOMAIN tables'
          PROVE  tables'[p].occupied_swap_blocks = Cardinality(SwapPages(tables', p))
      <4>1. tables[p].occupied_swap_blocks = Cardinality(SwapPages(tables, p))
        BY <1>5, <2>1 DEF SwapOK, SwapPages
      <4>2. SwapPages(tables', p) = SwapPages(tables, p)
        BY DEF SwapPages
      <4>3. QED
        BY <4>1, <4>2
    <3>2. QED
      BY <3>1
  <2>4. QED
    BY <1>12, <1>13, <2>2, <2>3 DEF SwapOK, SwapPages
<1>15. FreeSwapOK(available_swap_blocks \o R, peer_in_phys')
  <2>1. SUFFICES ASSUME NEW b \in ToSet(available_swap_blocks) \cup B, SwapId(b) \in DOMAIN peer_in_phys'
                 PROVE  peer_in_phys'[SwapId(b)] = 0
    BY <1>12 DEF FreeSwapOK
  <2>2. CASE b \in ToSet(available_swap_blocks)
    BY <1>5, <2>1, <2>2 DEF FreeSwapOK
  <2>3. CASE b \in B
    <3>1. PICK k \in DOMAIN V : V[k].id = SwapId(b)
      BY <2>3
    <3>2. PICK e : e = V[k]
      OBVIOUS
    <3>3. e \in ToSet(V) /\ e.id = SwapId(b) /\ e.id.swap_backed /\ Resident(e.id)
      BY <1>2, <2>1, <3>1, <3>2 DEF SwapId, Resident
    <3>4. e \notin ToSet(FreedEntries)
      <4>1. \A d \in ToSet(FreedEntries) : \E i \in DOMAIN FreedEntries : d = FreedEntries[i]
        BY DEF ToSet
      <4>2. QED
        BY <2>1, <3>3, <4>1
    <3>5. e.ppage = 0
      BY <1>1, <3>3, <3>4
    <3>6. EntryOK(e, physical_table, peer_in_phys)
      BY <1>1, <3>1, <3>2 DEF IInv, TablesInv, ProtectionOK, V
    <3>7. peer_in_phys[SwapId(b)] = 0
      BY <2>1, <3>3, <3>5, <3>6 DEF EntryOK
    <3>8. QED
      BY <2>1, <3>7
  <2>4. QED
    BY <2>1, <2>2, <2>3
<1>16. SwapCountInv'
  <2>1. \A i, j, k \in Nat : i + k \in Nat /\ (i <= j => i + k <= j + k) /\ (i = j => i + k = j + k)
    OBVIOUS
  <2>2. /\ num_swap_blocks' \in Nat /\ num_swap_blocks' <= Len(available_swap_blocks \o R)
        /\ ~ManagedForks => num_swap_blocks' = Len(available_swap_blocks \o R)
    <3>1. PICK o \in Nat : o = Len(SwapEntries)
      BY <1>3
    <3>2. num_swap_blocks' = num_swap_blocks + o
      BY <1>1, <3>1
    <3>3. Len(available_swap_blocks \o R) = Len(available_swap_blocks) + o
      BY <1>7, <1>12, <3>1
    <3>4. num_swap_blocks + o \in Nat /\ num_swap_blocks + o <= Len(available_swap_blocks) + o
      BY <1>5, <2>1
    <3>5. ~ManagedForks => num_swap_blocks + o = Len(available_swap_blocks) + o
      BY <1>5
    <3>6. QED
      BY <3>2, <3>3, <3>4, <3>5, Zenon
  <2>3. QED
    BY <1>4, <1>12, <2>2 DEF SwapCountInv
<1>17. QED
  BY <1>4, <1>14, <1>15, <1>16 DEF SwapInv

\* vm_destroy takes the pages of the process out of every structure they are in.
LEMMA vm_destroyKeeps ==
  ASSUME IInv, vm_destroy
  PROVE  IInv'
<1> DEFINE V  == tables[cur_table].vps
           F  == ToSet(FreedPages)
           C  == ToSet(clock_queue)
           A  == ToSet(available_physical_pages)
           FE == ToSet(FreedEntries)
           D  == {FreedEntries[k].id : k \in DOMAIN FreedEntries}
<1>1. /\ CanCall /\ call = Idle
      /\ peer_map' = PeersAfterDestroy
      /\ physical_table' = PhysicalAfterDestroy
      /\ available_physical_pages' = available_physical_pages \o FreedPages
      /\ clock_queue' = ClockAfterDestroy
      /\ peer_in_phys' = Restrict(peer_in_phys, DOMAIN peer_in_phys \ D)
      /\ available_swap_blocks' = SwapAfterDestroy
      /\ num_swap_blocks' = num_swap_blocks + tables[cur_table].occupied_swap_blocks
      /\ tables' = Restrict(tables, DOMAIN tables \ {cur_pid})
      /\ cur_table' = NoPid /\ running' = NoPid
      /\ UNCHANGED <<physmem, backing, accessed, cur_pid, call>>
  BY DEF vm_destroy
<1>2. /\ cur_table \in DOMAIN tables
      /\ SwapEntries \in Seq(virtual_page) /\ IsInjective(SwapEntries)
      /\ ToSet(SwapEntries) = {e \in ToSet(V) : e.id.swap_backed}
      /\ Len(SwapEntries) = tables[cur_table].occupied_swap_blocks
      /\ FreedEntries \in Seq(virtual_page)
      /\ FE = {e \in ToSet(V) : e.id.swap_backed /\ Resident(e.id) /\ e.ppage # 0}
      /\ FreedPages \in Seq(OwnPage) /\ IsInjective(FreedPages)
      /\ F = {e.ppage : e \in FE}
      /\ F \subseteq C
      /\ \A e \in FE : e.ppage = peer_in_phys[e.id] /\ physical_table[e.ppage].id = e.id
  BY <1>1, FreedFacts
<1>3. cur_pid = cur_table /\ cur_pid \in Pid \cup {NoPid}
  BY <1>1 DEF IInv, ControlInv, CanCall
<1>4. /\ V \in Seq(virtual_page) /\ ToSet(V) = {V[k] : k \in DOMAIN V} /\ ToSet(V) \subseteq virtual_page
      /\ \A k \in DOMAIN V : V[k] \in ToSet(V)
  <2>1. V \in Seq(virtual_page)
    BY <1>2, TableTypes DEF IInv, TablesInv
  <2>2. \A k \in DOMAIN V : V[k] \in ToSet(V)
    BY DEF ToSet
  <2> HIDE DEF V
  <2>3. QED
    BY <2>1, <2>2, ElementsOfSeq
<1>5. D = {e.id : e \in FE}
  BY <1>2, ElementsOfSeq DEF ToSet
<1>6. /\ DOMAIN tables' = DOMAIN tables \ {cur_table}
      /\ \A p \in DOMAIN tables' : tables'[p] = tables[p]
      /\ tables' = [p \in DOMAIN tables \ {cur_table} |-> tables[p]]
  BY <1>1, <1>3 DEF Restrict
<1>7. /\ DOMAIN peer_in_phys' = DOMAIN peer_in_phys \ D
      /\ \A id \in DOMAIN peer_in_phys' : peer_in_phys'[id] = peer_in_phys[id]
      /\ peer_in_phys' = [id \in DOMAIN peer_in_phys \ D |-> peer_in_phys[id]]
  BY <1>1 DEF Restrict
<1>8. /\ clock_queue \in Seq(OwnPage) /\ available_physical_pages \in Seq(OwnPage)
      /\ C \subseteq OwnPage /\ A \subseteq OwnPage /\ C \subseteq PhysicalPage /\ A \subseteq PhysicalPage
      /\ physical_table \in [PhysicalPage -> physical_page]
      /\ peer_in_phys \in [DOMAIN peer_in_phys -> PhysicalPage]
  BY ElementsOfSeq, PhysicalPages DEF IInv, MemoryInv, MemoryTypes
<1>9. PartOK(available_physical_pages, clock_queue)
  BY DEF IInv, MemoryInv
<1>10. /\ \A q \in C : /\ physical_table[q].id \in DOMAIN peer_in_phys
                       /\ peer_in_phys[physical_table[q].id] = q /\ physical_table[q].id \in BackedIds
       /\ \A id \in DOMAIN peer_in_phys :
             IF peer_in_phys[id] = 0 THEN id.swap_backed
             ELSE peer_in_phys[id] \in C /\ physical_table[peer_in_phys[id]].id = id
  BY DEF IInv, MemoryInv, PagesOK
<1>11. ClockAfterDestroy \in Seq(OwnPage) /\ ToSet(ClockAfterDestroy) = C \ F /\ IsInjective(ClockAfterDestroy)
  <2>1. \A j, k \in DOMAIN clock_queue :
          clock_queue[j] \in PhysicalPage \ F /\ clock_queue[j] = clock_queue[k] => j = k
    BY <1>9 DEF PartOK, IsInjective
  <2>2. /\ KeptIn(clock_queue, PhysicalPage \ F) \in Seq(OwnPage)
        /\ ToSet(KeptIn(clock_queue, PhysicalPage \ F)) = C \cap (PhysicalPage \ F)
        /\ IsInjective(KeptIn(clock_queue, PhysicalPage \ F))
    BY <1>8, <2>1, KeptProperties
  <2>3. QED
    BY <1>8, <2>2 DEF ClockAfterDestroy
<1> HIDE DEF V, F, C, A, FE, D
<1>12. /\ available_physical_pages \o FreedPages \in Seq(OwnPage)
       /\ ToSet(available_physical_pages \o FreedPages) = A \cup F
       /\ IsInjective(available_physical_pages \o FreedPages)
  <2>1. IsInjective(available_physical_pages) /\ A \cap F = {}
    BY <1>2, <1>9 DEF PartOK, A, C
  <2>2. QED
    BY <1>2, <1>8, <2>1, ElementsOfConcat DEF A, F
<1>13. /\ physical_table' \in [PhysicalPage -> physical_page]
       /\ \A q \in PhysicalPage : /\ physical_table'[q].id = physical_table[q].id
                                  /\ physical_table'[q].referenced = physical_table[q].referenced
                                  /\ physical_table'[q].dirty <=> physical_table[q].dirty /\ q \notin F
  <2>1. ASSUME NEW q \in PhysicalPage
        PROVE  /\ physical_table'[q] \in physical_page
               /\ physical_table'[q].id = physical_table[q].id
               /\ physical_table'[q].referenced = physical_table[q].referenced
               /\ physical_table'[q].dirty <=> physical_table[q].dirty /\ q \notin F
    <3>1. physical_table[q] \in [id : PageId, dirty : BOOLEAN, referenced : BOOLEAN]
      BY <1>8 DEF physical_page
    <3>2. physical_table'[q] = [physical_table[q] EXCEPT !.dirty = physical_table[q].dirty /\ q \notin F]
      BY <1>1, <3>1 DEF PhysicalAfterDestroy, F
    <3>3. QED
      BY <3>1, <3>2 DEF physical_page
  <2>2. physical_table' = [q \in PhysicalPage |-> physical_table'[q]]
    BY <1>1 DEF PhysicalAfterDestroy
  <2>3. QED
    BY <2>1, <2>2
  \* A page in the clock that is not freed is not of a file_id that is erased.
<1>14. \A q \in C \ F : physical_table[q].id \notin D
  <2>1. SUFFICES ASSUME NEW q \in C \ F, NEW e \in FE, physical_table[q].id = e.id PROVE FALSE
    BY <1>5
  <2>2. peer_in_phys[e.id] = q /\ e.ppage = q
    BY <1>2, <1>10, <2>1
  <2>3. QED
    BY <1>2, <2>1, <2>2
<1>15. \A id \in DOMAIN peer_in_phys \ D : peer_in_phys[id] \notin F
  <2>1. SUFFICES ASSUME NEW id \in DOMAIN peer_in_phys \ D, NEW e \in FE, peer_in_phys[id] = e.ppage PROVE FALSE
    BY <1>2
  <2>2. e.ppage \in C /\ 0 \notin C
    BY <1>2, <1>8, PhysicalPages
  <2>3. physical_table[peer_in_phys[id]].id = id
    BY <1>10, <2>1, <2>2
  <2>4. e.id = id
    BY <1>2, <2>1, <2>3
  <2>5. QED
    BY <1>5, <2>1, <2>4
<1>16. MemoryInv'
  <2>1. MemoryTypes'
    <3>1. peer_in_phys' \in [DOMAIN peer_in_phys' -> PhysicalPage]
      BY <1>7, <1>8
    <3>2. QED
      BY <1>1, <1>7, <1>11, <1>12, <1>13, <3>1 DEF IInv, MemoryInv, MemoryTypes
  <2>2. PartOK(available_physical_pages \o FreedPages, ClockAfterDestroy)
    BY <1>2, <1>9, <1>11, <1>12 DEF PartOK, A, C
  <2>3. PagesOK(C \ F, physical_table', peer_in_phys')
    <3>1. ASSUME NEW q \in C \ F
          PROVE  /\ physical_table'[q].id \in DOMAIN peer_in_phys'
                 /\ peer_in_phys'[physical_table'[q].id] = q /\ physical_table'[q].id \in BackedIds
      BY <1>7, <1>8, <1>10, <1>13, <1>14
    <3>2. ASSUME NEW id \in DOMAIN peer_in_phys'
          PROVE  IF peer_in_phys'[id] = 0 THEN id.swap_backed
                 ELSE peer_in_phys'[id] \in C \ F /\ physical_table'[peer_in_phys'[id]].id = id
      <4>1. id \in DOMAIN peer_in_phys /\ peer_in_phys'[id] = peer_in_phys[id] /\ peer_in_phys[id] \notin F
        BY <1>7, <1>15
      <4>2. QED
        BY <1>8, <1>10, <1>13, <4>1
    <3>3. QED
      BY <3>1, <3>2 DEF PagesOK
  <2>4. DirtyOK(A \cup F, C \ F, physical_table', physmem, backing)
    <3>1. /\ \A q \in C : ~physical_table[q].dirty => physmem[q] = backing[physical_table[q].id]
          /\ \A q \in A : ~physical_table[q].dirty
      BY DEF IInv, MemoryInv, DirtyOK, A, C
    <3>2. ASSUME NEW q \in C \ F, ~physical_table'[q].dirty
          PROVE  physmem[q] = backing[physical_table'[q].id]
      BY <1>8, <1>13, <3>1, <3>2
    <3>3. ASSUME NEW q \in A \cup F
          PROVE  ~physical_table'[q].dirty
      BY <1>2, <1>8, <1>13, <3>1
    <3>4. QED
      BY <3>2, <3>3 DEF DirtyOK
  <2>5. QED
    BY <1>1, <1>11, <1>12, <2>1, <2>2, <2>3, <2>4 DEF MemoryInv
<1>17. \A p \in DOMAIN tables' : \A n \in DOMAIN tables'[p].vps : tables'[p].vps[n].id \notin D
  <2>1. SUFFICES ASSUME NEW p \in DOMAIN tables', NEW n \in DOMAIN tables'[p].vps, NEW e \in FE,
                        tables'[p].vps[n].id = e.id
                 PROVE  FALSE
    BY <1>5
  <2>2. PICK k \in DOMAIN V : e = V[k]
    BY <1>2, <1>4
  <2>3. p \in DOMAIN tables /\ p # cur_table /\ n \in DOMAIN tables[p].vps
        /\ tables[p].vps[n].id = tables[cur_table].vps[k].id /\ k \in DOMAIN tables[cur_table].vps
        /\ tables[cur_table].vps[k].id.swap_backed
    BY <1>2, <1>6, <2>1, <2>2 DEF V
  <2>4. QED
    BY <1>2, <2>3 DEF IInv, SwapInv, SwapOK
<1>18. TablesInv'
  <2>1. TablesType(tables')
    BY <1>6 DEF IInv, TablesInv, TablesType
  <2>2. PeersOK(peer_map', tables')
    <3>1. \A x : x \in peer_map <=> \E p \in DOMAIN tables : \E n \in DOMAIN tables[p].vps :
                                      x = <<tables[p].vps[n].id, <<p, n>>>>
      BY PeersMembers DEF IInv, TablesInv
    <3>2. \A x : x \in peer_map' <=> x \in peer_map /\ x[2][1] # cur_table
      BY <1>1 DEF PeersAfterDestroy
    <3>3. \A x : x \in peer_map' <=> \E p \in DOMAIN tables' : \E n \in DOMAIN tables'[p].vps :
                                      x = <<tables'[p].vps[n].id, <<p, n>>>>
      BY <1>6, <3>1, <3>2
    <3>4. QED
      BY <3>3 DEF PeersOK
  <2>3. ASSUME NEW p \in DOMAIN tables', NEW n \in DOMAIN tables'[p].vps
        PROVE  EntryOK(tables'[p].vps[n], physical_table', peer_in_phys')
    <3>1. PICK e : e = tables'[p].vps[n]
      OBVIOUS
    <3>2. EntryOK(e, physical_table, peer_in_phys) /\ e.id \notin D
      BY <1>6, <1>17, <3>1 DEF IInv, TablesInv, ProtectionOK
    <3>3. CASE e.id \in DOMAIN peer_in_phys
      <4>1. /\ e.id \in DOMAIN peer_in_phys' /\ peer_in_phys'[e.id] = peer_in_phys[e.id]
            /\ e.ppage = peer_in_phys[e.id] /\ e.ppage \in PhysicalPage /\ e.ppage \notin F
        BY <1>7, <1>8, <1>15, <3>2, <3>3 DEF EntryOK
      <4>2. EntryOK(e, physical_table', peer_in_phys')
        BY <1>13, <3>2, <3>3, <4>1 DEF EntryOK
      <4>3. QED
        BY <3>1, <4>2
    <3>4. CASE e.id \notin DOMAIN peer_in_phys
      BY <1>7, <3>1, <3>2, <3>4 DEF EntryOK
    <3>5. QED
      BY <3>3, <3>4
  <2>4. QED
    BY <2>1, <2>2, <2>3 DEF TablesInv, ProtectionOK
<1>19. SwapInv'
  BY <1>1, <1>6, <1>7, SwapReturned DEF D
<1>20. ControlInv'
  BY <1>1, <1>3, <1>6 DEF ControlInv
<1>21. QED
  BY <1>1, <1>16, <1>18, <1>19, <1>20, IdleCall DEF IInv

-----------------------------------------------------------------------------
(* The invariant *)

\* At the start every page but the pinned one, and every swap block, is free.
LEMMA InitialQueues ==
  ASSUME Init
  PROVE  /\ available_physical_pages \in Seq(OwnPage) /\ IsInjective(available_physical_pages)
         /\ ToSet(available_physical_pages) = OwnPage
         /\ available_swap_blocks \in Seq(SwapBlock) /\ IsInjective(available_swap_blocks)
         /\ ToSet(available_swap_blocks) = SwapBlock /\ Len(available_swap_blocks) = SwapBlocks
<1>1. num_memory_pages \in Nat /\ num_memory_pages # 0 /\ SwapBlocks \in Nat
  BY SizesAssumption
<1>2. PICK N \in Nat : N = num_memory_pages - 1
  BY <1>1
<1>3. PICK a : a = available_physical_pages
  OBVIOUS
<1>4. a = [k \in 1 .. N |-> k] /\ OwnPage = 1 .. N
  BY <1>1, <1>2, <1>3 DEF Init, OwnPage, PhysicalPage
<1>5. a \in Seq(OwnPage) /\ DOMAIN a = 1 .. N
  BY <1>4
<1>6. IsInjective(a) /\ ToSet(a) = OwnPage
  BY <1>4 DEF IsInjective, ToSet
<1>7. PICK s : s = available_swap_blocks
  OBVIOUS
<1>8. s = [k \in 1 .. SwapBlocks |-> k - 1]
  BY <1>7 DEF Init
<1>9. s \in [1 .. SwapBlocks -> SwapBlock]
  BY <1>1, <1>8 DEF SwapBlock
<1>10. s \in Seq(SwapBlock) /\ DOMAIN s = 1 .. SwapBlocks /\ Len(s) = SwapBlocks
  BY <1>1, <1>8, <1>9
<1>11. IsInjective(s)
  BY <1>1, <1>8 DEF IsInjective
<1>12. ToSet(s) = SwapBlock
  <2>1. ASSUME NEW b \in SwapBlock
        PROVE  b + 1 \in 1 .. SwapBlocks /\ (b + 1) - 1 = b
    BY <1>1 DEF SwapBlock
  <2>2. ASSUME NEW b \in SwapBlock
        PROVE  b \in ToSet(s)
    BY <1>8, <2>1 DEF ToSet
  <2>3. ToSet(s) \subseteq SwapBlock
    BY <1>10, ElementsOfSeq
  <2>4. QED
    BY <2>2, <2>3
<1>13. QED
  BY <1>3, <1>5, <1>6, <1>7, <1>10, <1>11, <1>12

\* vm_init establishes the invariant.
LEMMA InitIInv ==
  ASSUME Init
  PROVE  IInv
<1>1. /\ physmem = [q \in PhysicalPage |-> Zero]
      /\ physical_table = [q \in PhysicalPage |-> [id |-> SwapId(0), dirty |-> FALSE, referenced |-> FALSE]]
      /\ clock_queue = <<>> /\ peer_in_phys = <<>> /\ peer_map = {} /\ tables = <<>>
      /\ cur_table = NoPid /\ cur_pid = NoPid /\ running = NoPid
      /\ num_swap_blocks = SwapBlocks /\ backing \in InitialBacking /\ accessed = {} /\ call = Idle
  BY DEF Init
<1>2. DOMAIN <<>> = {} /\ \A S : <<>> \in Seq(S) /\ \A T : <<>> \in [{} -> T]
  BY EmptySeq
<1>3. ToSet(clock_queue) = {} /\ IsInjective(clock_queue) /\ DOMAIN tables = {} /\ DOMAIN peer_in_phys = {}
  BY <1>1, <1>2 DEF ToSet, IsInjective
<1>4. MemoryInv
  <2>1. physical_table \in [PhysicalPage -> physical_page] /\ \A q \in PhysicalPage : ~physical_table[q].dirty
    BY <1>1 DEF physical_page, PageId
  <2>2. MemoryTypes
    BY <1>1, <1>2, <1>3, <2>1, InitialQueues, ValueAssumption, BackingAssumption DEF MemoryTypes, BackedIds
  <2>3. PartOK(available_physical_pages, clock_queue)
    BY <1>3, InitialQueues DEF PartOK
  <2>4. PagesOK(ToSet(clock_queue), physical_table, peer_in_phys)
    BY <1>3 DEF PagesOK
  <2>5. DirtyOK(ToSet(available_physical_pages), ToSet(clock_queue), physical_table, physmem, backing)
    BY <1>3, <2>1, InitialQueues, PhysicalPages DEF DirtyOK
  <2>6. QED
    BY <2>2, <2>3, <2>4, <2>5 DEF MemoryInv
<1>5. TablesInv
  <2>1. TablesType(tables)
    BY <1>1, <1>2, <1>3 DEF TablesType
  <2>2. PeersOK(peer_map, tables)
    BY <1>1, <1>3 DEF PeersOK
  <2>3. QED
    BY <1>3, <2>1, <2>2 DEF TablesInv, ProtectionOK
<1>6. SwapInv
  <2>1. SwapOK(tables, available_swap_blocks)
    BY <1>3, InitialQueues DEF SwapOK
  <2>2. FreeSwapOK(available_swap_blocks, peer_in_phys)
    BY <1>3 DEF FreeSwapOK
  <2>3. SwapCountInv
    BY <1>1, InitialQueues, SizesAssumption DEF SwapCountInv
  <2>4. QED
    BY <2>1, <2>2, <2>3 DEF SwapInv
<1>7. ControlInv
  BY <1>1, <1>3 DEF ControlInv
<1>8. CallInv
  BY <1>1 DEF CallInv, Idle
<1>9. QED
  BY <1>4, <1>5, <1>6, <1>7, <1>8 DEF IInv

\* Every call, access and fault preserves the invariant.
LEMMA NextKeeps ==
  ASSUME IInv, Next
  PROVE  IInv'
<1>1. ASSUME NEW n \in 1 .. MAX_PAGE_NUM, NEW write \in BOOLEAN, Fault(n, write) PROVE IInv'
  BY <1>1, FaultKeeps
<1>2. ASSUME NEW n \in 1 .. MAX_PAGE_NUM, Load(n) PROVE IInv'
  BY <1>2, LoadKeeps
<1>3. ASSUME NEW n \in 1 .. MAX_PAGE_NUM, NEW value \in Value, Store(n, value) PROVE IInv'
  BY <1>3, StoreKeeps
<1>4. ASSUME NEW n \in 1 .. MAX_PAGE_NUM, NEW block \in FileBlock, MapFile(n, block) PROVE IInv'
  BY <1>4, MapFileKeeps
<1>5. CASE MapSwap
  BY <1>5, MapSwapKeeps
<1>6. CASE NameFault
  BY <1>6, NameFaultKeeps
<1>7. CASE ReadName
  BY <1>7, ReadNameKeeps
<1>8. CASE NameRefused
  BY <1>8, NameRefusedKeeps
<1>9. CASE EndName
  BY <1>9, EndNameKeeps
<1>10. ASSUME NEW parent \in Pid \cup {Shell}, NEW child \in Pid, vm_create(parent, child) PROVE IInv'
  BY <1>10, vm_createKeeps
<1>11. ASSUME NEW pid \in Pid, vm_switch(pid) PROVE IInv'
  BY <1>11, vm_switchKeeps
<1>12. CASE vm_destroy
  BY <1>12, vm_destroyKeeps
<1>13. QED
  BY <1>1, <1>2, <1>3, <1>4, <1>5, <1>6, <1>7, <1>8, <1>9, <1>10, <1>11, <1>12 DEF Next

\* So does a step that changes nothing.
LEMMA StutterKeeps ==
  ASSUME IInv, UNCHANGED vars
  PROVE  IInv'
<1>1. UNCHANGED <<memory, peer_map, tables, swapVars, current>> /\ call' = call
  BY DEF vars
<1>2. CallInv'
  BY <1>1 DEF IInv, CallInv, CanCall, HasRoom, Denied, Page, current
<1>3. QED
  BY <1>1, <1>2, OnlyCall

\* After any sequence of calls, accesses and faults, by any number of processes, memory,
\* page tables, swap blocks and the call in progress agree with each other.
THEOREM PagerInvariant == Spec => []IInv
<1>1. Init => IInv
  BY InitIInv
<1>2. IInv /\ [Next]_vars => IInv'
  BY NextKeeps, StutterKeeps
<1>3. QED
  BY <1>1, <1>2, PTL DEF Spec

-----------------------------------------------------------------------------
(* The properties *)

\* The types of vm_pager.h and my_utils.h.
THEOREM PagerTypes == Spec => []TypeOK
<1>1. IInv => TypeOK
  <2>1. SUFFICES ASSUME IInv PROVE TypeOK
    OBVIOUS
  <2>2. /\ physmem \in [PhysicalPage -> Value]
        /\ physical_table \in [PhysicalPage -> [id : file_id \cup {SwapId(0)},
                                                dirty : BOOLEAN, referenced : BOOLEAN]]
        /\ available_physical_pages \in Seq(PhysicalPage \ {0})
        /\ clock_queue \in Seq(PhysicalPage \ {0})
        /\ DOMAIN peer_in_phys \subseteq file_id
        /\ \A id \in DOMAIN peer_in_phys : peer_in_phys[id] \in PhysicalPage
        /\ backing \in [SwapIds \cup ReadableIds -> Value]
        /\ accessed \subseteq ReadableIds
    BY <2>1 DEF IInv, MemoryInv, MemoryTypes, physical_page, PageId, OwnPage, BackedIds
  <2>3. TablesType(tables)
    BY <2>1 DEF IInv, TablesInv
  <2>4. ASSUME NEW p \in DOMAIN tables
        PROVE  /\ p \in Pid /\ tables[p].vps \in Seq(virtual_page) /\ Len(tables[p].vps) <= MAX_PAGE_NUM
               /\ tables[p].occupied_swap_blocks \in 0 .. MAX_PAGE_NUM
               /\ \A n \in DOMAIN tables[p].vps : n \in 1 .. MAX_PAGE_NUM /\ tables[p].vps[n].id \in file_id
    <3>1. /\ p \in Pid /\ tables[p].vps \in Seq(virtual_page)
          /\ Len(tables[p].vps) \in Nat /\ DOMAIN tables[p].vps = 1 .. Len(tables[p].vps)
          /\ Len(tables[p].vps) <= MAX_PAGE_NUM
          /\ \A n \in DOMAIN tables[p].vps : tables[p].vps[n] \in virtual_page
      BY <2>3, TableTypes
    <3>2. /\ Cardinality(SwapPages(tables, p)) \in Nat
          /\ Cardinality(SwapPages(tables, p)) <= Len(tables[p].vps)
          /\ tables[p].occupied_swap_blocks = Cardinality(SwapPages(tables, p))
      BY <2>1, <2>3, SwapPagesFinite DEF IInv, SwapInv, SwapOK, SwapPages
    <3>3. \A i, j, k \in Nat : i <= j /\ j <= k => i \in 0 .. k
      OBVIOUS
    <3>4. tables[p].occupied_swap_blocks \in 0 .. MAX_PAGE_NUM
      BY <3>1, <3>2, <3>3, SizesAssumption, Zenon
    <3>5. \A n \in DOMAIN tables[p].vps : n \in 1 .. MAX_PAGE_NUM
      BY <3>1, SizesAssumption
    <3>6. QED
      BY <3>1, <3>4, <3>5 DEF virtual_page
  <2>5. peer_map \subseteq file_id \X (Pid \X (1 .. MAX_PAGE_NUM))
    <3>1. SUFFICES ASSUME NEW x \in peer_map PROVE x \in file_id \X (Pid \X (1 .. MAX_PAGE_NUM))
      OBVIOUS
    <3>2. PeersOK(peer_map, tables)
      BY <2>1 DEF IInv, TablesInv
    <3>3. PICK p \in DOMAIN tables : \E n \in DOMAIN tables[p].vps : x = <<tables[p].vps[n].id, <<p, n>>>>
      BY <3>2, PeersMembers
    <3>4. QED
      BY <2>4, <3>3
  <2>6. {cur_table, cur_pid, running} \subseteq Pid \cup {NoPid}
    BY <2>1, <2>4 DEF IInv, ControlInv
  <2>7. available_swap_blocks \in Seq(SwapBlock) /\ num_swap_blocks \in 0 .. SwapBlocks
    <3>1. /\ available_swap_blocks \in Seq(SwapBlock) /\ Len(available_swap_blocks) \in Nat
          /\ num_swap_blocks \in Nat /\ num_swap_blocks <= Len(available_swap_blocks)
          /\ IsInjective(available_swap_blocks)
      BY <2>1, LenProperties DEF IInv, SwapInv, SwapCountInv, SwapOK
    <3>2. /\ Len(available_swap_blocks) = Cardinality(ToSet(available_swap_blocks))
          /\ ToSet(available_swap_blocks) \subseteq SwapBlock
      BY <3>1, InjectiveLength, ElementsOfSeq
    <3>3. IsFiniteSet(SwapBlock) /\ Cardinality(SwapBlock) = SwapBlocks
      BY FS_Interval, SizesAssumption DEF SwapBlock
    <3>4. Len(available_swap_blocks) <= SwapBlocks
      BY <3>2, <3>3, FS_Subset
    <3>5. \A i, j, k \in Nat : i <= j /\ j <= k => i \in 0 .. k
      OBVIOUS
    <3>6. QED
      BY <3>1, <3>4, <3>5, SizesAssumption, Zenon
  <2>8. QED
    BY <2>2, <2>4, <2>5, <2>6, <2>7 DEF TypeOK
<1>2. QED
  BY <1>1, PagerInvariant, PTL

\* The queues and peer_in_phys divide the physical pages among them.
THEOREM PhysicalPagesPartitioned == Spec => []PagesPartitioned
<1>1. IInv => PagesPartitioned
  <2>1. SUFFICES ASSUME IInv PROVE PagesPartitioned
    OBVIOUS
  <2>2. /\ available_physical_pages \in Seq(OwnPage) /\ clock_queue \in Seq(OwnPage)
        /\ PartOK(available_physical_pages, clock_queue)
        /\ PagesOK(ToSet(clock_queue), physical_table, peer_in_phys)
    BY <2>1 DEF IInv, MemoryInv, MemoryTypes
  <2>3. PICK s : s = available_physical_pages \o clock_queue
    OBVIOUS
  <2>4. s \in Seq(OwnPage) /\ ToSet(s) = OwnPage /\ IsInjective(s)
    <3>1. /\ available_physical_pages \o clock_queue \in Seq(OwnPage)
          /\ ToSet(available_physical_pages \o clock_queue)
               = ToSet(available_physical_pages) \cup ToSet(clock_queue)
          /\ IsInjective(available_physical_pages \o clock_queue)
               <=> IsInjective(available_physical_pages) /\ IsInjective(clock_queue)
                   /\ ToSet(available_physical_pages) \cap ToSet(clock_queue) = {}
      BY <2>2, ElementsOfConcat, ZenonT(40)
    <3>2. QED
      BY <2>2, <2>3, <3>1, Zenon DEF PartOK
  <2>5. Len(s) = Cardinality(OwnPage)
    BY <2>4, InjectiveLength
  <2>6. IsPermutation(available_physical_pages \o clock_queue, PhysicalPage \ {0})
    BY <2>3, <2>4, <2>5 DEF IsPermutation, OwnPage
  <2>7. QED
    BY <2>2, <2>6 DEF PagesPartitioned, PagesOK, Resident
<1>2. QED
  BY <1>1, PagerInvariant, PTL

\* vm_fault, the clock and vm_map keep the PTEs of all pages with a file_id the same.
THEOREM ProtectionIsRight == Spec => []ProtectionFollows
<1>1. IInv => ProtectionFollows
  <2>1. SUFFICES ASSUME IInv, NEW vp \in VirtualPages
                 PROVE  LET e == Entry(vp)
                        IN IF ~Resident(e.id) THEN ~e.read_enable /\ ~e.write_enable
                           ELSE /\ e.ppage = peer_in_phys[e.id]
                                /\ e.read_enable  <=> (e.ppage = 0 \/ physical_table[e.ppage].referenced)
                                /\ e.write_enable <=> (e.ppage # 0 /\ physical_table[e.ppage].referenced
                                                                   /\ physical_table[e.ppage].dirty)
    BY DEF ProtectionFollows
  <2>2. EntryOK(Entry(vp), physical_table, peer_in_phys)
    BY <2>1 DEF VirtualPages, Entry, IInv, TablesInv, ProtectionOK
  <2>3. QED
    BY <2>2 DEF EntryOK, Resident
<1>2. QED
  BY <1>1, PagerInvariant, PTL

\* The virtual pages are the entries of the page tables.
LEMMA ArenaPages ==
  ASSUME IInv, NEW p \in DOMAIN tables, NEW n \in DOMAIN tables[p].vps
  PROVE  <<p, n>> \in VirtualPages /\ Entry(<<p, n>>) = tables[p].vps[n]
<1>1. TablesType(tables)
  BY DEF IInv, TablesInv
<1>2. p \in Pid /\ n \in 1 .. Len(tables[p].vps) /\ Len(tables[p].vps) \in Nat
      /\ Len(tables[p].vps) <= MAX_PAGE_NUM
  BY <1>1, TableTypes
<1>3. n \in 1 .. MAX_PAGE_NUM
  BY <1>2, SizesAssumption
<1>4. QED
  BY <1>2, <1>3 DEF VirtualPages, Entry

\* peer_map holds the pages of the processes that exist, and nothing else.
LEMMA ExactPeers == IInv => PeersExact
<1>1. SUFFICES ASSUME IInv PROVE PeersExact
  OBVIOUS
<1>2. TablesType(tables) /\ PeersOK(peer_map, tables)
  BY <1>1 DEF IInv, TablesInv
<1>3. ASSUME NEW p \in DOMAIN tables, NEW n \in DOMAIN tables[p].vps
      PROVE  <<p, n>> \in VirtualPages /\ Entry(<<p, n>>) = tables[p].vps[n]
  BY <1>1, ArenaPages
<1>4. ASSUME NEW vp \in VirtualPages
      PROVE  vp = <<vp[1], vp[2]>> /\ vp[1] \in DOMAIN tables /\ vp[2] \in DOMAIN tables[vp[1]].vps
  BY DEF VirtualPages
<1>5. \A x : x \in peer_map <=> \E p \in DOMAIN tables : \E n \in DOMAIN tables[p].vps :
                                  x = <<tables[p].vps[n].id, <<p, n>>>>
  BY <1>2, PeersMembers
<1>6. ASSUME NEW x \in peer_map
      PROVE  \E vp \in VirtualPages : x = <<Entry(vp).id, vp>>
  <2>1. PICK p \in DOMAIN tables : \E n \in DOMAIN tables[p].vps : x = <<tables[p].vps[n].id, <<p, n>>>>
    BY <1>5
  <2>2. PICK n \in DOMAIN tables[p].vps : x = <<tables[p].vps[n].id, <<p, n>>>>
    BY <2>1
  <2>3. QED
    BY <1>3, <2>2
<1>7. ASSUME NEW vp \in VirtualPages
      PROVE  <<Entry(vp).id, vp>> \in peer_map
  <2>1. PICK p \in DOMAIN tables : p = vp[1]
    BY <1>4
  <2>2. PICK n \in DOMAIN tables[p].vps : n = vp[2]
    BY <1>4, <2>1
  <2>3. vp = <<p, n>> /\ Entry(vp) = tables[p].vps[n]
    BY <1>3, <1>4, <2>1, <2>2
  <2>4. QED
    BY <1>5, <2>3
<1>8. QED
  BY <1>6, <1>7 DEF PeersExact

\* set_peer and the clock follow pointers to existing pages, and miss none.
THEOREM PeersAreExact == Spec => []PeersExact
  BY ExactPeers, PagerInvariant, PTL

\* Evicting a clean page without file_write loses nothing, and free pages are clean.
THEOREM DirtyBitsAreTrue == Spec => []DirtyBits
<1>1. IInv => DirtyBits
  BY DEF IInv, MemoryInv, DirtyOK, DirtyBits
<1>2. QED
  BY <1>1, PagerInvariant, PTL

\* The access that a fault was for succeeds.
THEOREM RetriesSucceed == Spec => []RetrySucceeds
<1>1. IInv => RetrySucceeds
  BY DEF IInv, CallInv, RetrySucceeds
<1>2. QED
  BY <1>1, PagerInvariant, PTL

\* The swap blocks, whether or not processes with pages fork: every block is free or belongs
\* to one page, and no more can be reserved than are free.
SwapOwned ==
  LET used == {vp \in VirtualPages : Entry(vp).id.swap_backed}
  IN /\ num_swap_blocks <= Len(available_swap_blocks)
     /\ IsPermutation(available_swap_blocks, SwapBlock \ {Entry(vp).id.block : vp \in used})
     /\ \A vp, other \in used : Entry(vp).id = Entry(other).id => vp = other
     /\ \A p \in DOMAIN tables :
           tables[p].occupied_swap_blocks = Cardinality({vp \in used : vp[1] = p})

\* Pairing the elements of a finite set with the same value does not change their number.
LEMMA PairedCardinality ==
  ASSUME NEW S, IsFiniteSet(S), NEW p
  PROVE  Cardinality({<<p, n>> : n \in S}) = Cardinality(S)
<1> DEFINE T == {<<p, n>> : n \in S}
           f == [n \in S |-> <<p, n>>]
<1>1. f \in Surjection(S, T)
  BY DEF Surjection
<1>2. f \in Injection(S, T)
  <2>1. f \in [S -> T]
    OBVIOUS
  <2>2. ASSUME NEW a \in S, NEW b \in S, f[a] = f[b]
        PROVE  a = b
    <3>1. <<p, a>> = <<p, b>>
      BY <2>2
    <3>2. QED
      BY <3>1
  <2> HIDE DEF f, T
  <2>3. QED
    BY <2>1, <2>2 DEF Injection, IsInjective
<1> HIDE DEF f, T
<1>3. Cardinality(T) = Cardinality(S) <=> f \in Injection(S, T)
  BY <1>1, FS_Surjection
<1>4. QED
  BY <1>2, <1>3 DEF T

\* The owners of the blocks, counted over all pages of all processes.
LEMMA OwnedSwap == IInv => SwapOwned
<1>1. SUFFICES ASSUME IInv PROVE SwapOwned
  OBVIOUS
<1> DEFINE used == {vp \in VirtualPages : Entry(vp).id.swap_backed}
<1>2. TablesType(tables) /\ SwapOK(tables, available_swap_blocks) /\ SwapCountInv
  BY <1>1 DEF IInv, TablesInv, SwapInv
<1>3. ASSUME NEW p \in DOMAIN tables, NEW n \in DOMAIN tables[p].vps
      PROVE  /\ <<p, n>> \in VirtualPages /\ Entry(<<p, n>>) = tables[p].vps[n]
             /\ tables[p].vps[n].id \in file_id
  <2>1. tables[p].vps[n] \in virtual_page
    BY <1>2, TableTypes
  <2>2. QED
    BY <1>1, <2>1, ArenaPages DEF virtual_page
<1>4. ASSUME NEW vp \in VirtualPages
      PROVE  vp = <<vp[1], vp[2]>> /\ vp[1] \in DOMAIN tables /\ vp[2] \in DOMAIN tables[vp[1]].vps
  BY DEF VirtualPages
<1>5. ASSUME NEW p \in DOMAIN tables
      PROVE  tables[p].occupied_swap_blocks = Cardinality({vp \in used : vp[1] = p})
  <2>1. {vp \in used : vp[1] = p} = {<<p, n>> : n \in SwapPages(tables, p)}
    <3>1. ASSUME NEW vp \in used, vp[1] = p
          PROVE  vp \in {<<p, n>> : n \in SwapPages(tables, p)}
      BY <1>3, <1>4, <3>1 DEF SwapPages
    <3>2. ASSUME NEW n \in SwapPages(tables, p)
          PROVE  <<p, n>> \in used /\ <<p, n>>[1] = p
      BY <1>3 DEF SwapPages
    <3> HIDE DEF used
    <3>3. QED
      BY <3>1, <3>2
  <2>2. IsFiniteSet(SwapPages(tables, p))
    BY <1>2, SwapPagesFinite
  <2>3. tables[p].occupied_swap_blocks = Cardinality(SwapPages(tables, p))
    BY <1>2 DEF SwapOK, SwapPages
  <2>4. Cardinality({<<p, n>> : n \in SwapPages(tables, p)}) = Cardinality(SwapPages(tables, p))
    BY <2>2, PairedCardinality, Zenon
  <2>5. QED
    BY <2>1, <2>3, <2>4
<1>6. ASSUME NEW vp \in used, NEW other \in used, Entry(vp).id = Entry(other).id
      PROVE  vp = other
  <2>1. PICK p \in DOMAIN tables : p = vp[1]
    BY <1>4
  <2>2. PICK n \in DOMAIN tables[p].vps : n = vp[2]
    BY <1>4, <2>1
  <2>3. PICK r \in DOMAIN tables : r = other[1]
    BY <1>4
  <2>4. PICK m \in DOMAIN tables[r].vps : m = other[2]
    BY <1>4, <2>3
  <2>5. vp = <<p, n>> /\ other = <<r, m>>
    BY <1>4, <2>1, <2>2, <2>3, <2>4
  <2>6. /\ tables[p].vps[n].id.swap_backed
        /\ tables[p].vps[n].id = tables[r].vps[m].id
    BY <1>3, <1>6, <2>5
  <2>7. p = r /\ n = m
    BY <1>2, <2>6 DEF SwapOK
  <2>8. QED
    BY <2>5, <2>7
<1>7. ToSet(available_swap_blocks) = SwapBlock \ {Entry(vp).id.block : vp \in used}
  <2>1. ToSet(available_swap_blocks) \subseteq SwapBlock
    BY <1>2, ElementsOfSeq DEF SwapCountInv
  <2>2. ASSUME NEW vp \in used
        PROVE  Entry(vp).id.block \notin ToSet(available_swap_blocks)
    <3>1. PICK p \in DOMAIN tables : p = vp[1]
      BY <1>4
    <3>2. PICK n \in DOMAIN tables[p].vps : n = vp[2]
      BY <1>4, <3>1
    <3>3. Entry(vp) = tables[p].vps[n]
      BY <3>1, <3>2 DEF Entry
    <3>4. PICK id \in file_id : id = tables[p].vps[n].id
      BY <1>3
    <3>5. id.swap_backed
      BY <3>3, <3>4
    <3>6. id.block \in SwapBlock /\ id = SwapId(id.block)
      BY <3>5, SwapIdOfBlock
    <3>7. QED
      BY <1>2, <3>3, <3>4, <3>6 DEF SwapOK
  <2>3. ASSUME NEW b \in SwapBlock, b \notin ToSet(available_swap_blocks)
        PROVE  \E vp \in used : b = Entry(vp).id.block
    <3>1. PICK p \in DOMAIN tables : \E n \in DOMAIN tables[p].vps : tables[p].vps[n].id = SwapId(b)
      BY <1>2, <2>3 DEF SwapOK
    <3>2. PICK n \in DOMAIN tables[p].vps : tables[p].vps[n].id = SwapId(b)
      BY <3>1
    <3>3. SwapId(b).swap_backed /\ SwapId(b).block = b
      BY DEF SwapId
    <3>4. <<p, n>> \in VirtualPages /\ Entry(<<p, n>>).id = SwapId(b)
      BY <1>3, <3>2
    <3>5. QED
      BY <3>3, <3>4
  <2> HIDE DEF used
  <2>4. QED
    BY <2>1, <2>2, <2>3
<1>8. IsPermutation(available_swap_blocks, SwapBlock \ {Entry(vp).id.block : vp \in used})
  <2>1. Len(available_swap_blocks) = Cardinality(ToSet(available_swap_blocks))
    BY <1>2, InjectiveLength DEF SwapOK, SwapCountInv
  <2> HIDE DEF used
  <2>2. QED
    BY <1>7, <2>1 DEF IsPermutation
<1>9. num_swap_blocks <= Len(available_swap_blocks)
  BY <1>2 DEF SwapCountInv
<1>10. QED
  BY <1>5, <1>6, <1>8, <1>9 DEF SwapOwned

\* vm_map, vm_create and vm_destroy never give a swap block to two pages, nor lose one from
\* the queue, nor let more be reserved than are free.
THEOREM SwapBlocksOwned == Spec => []SwapOwned
  BY OwnedSwap, PagerInvariant, PTL

\* As long as only processes without pages fork, the count of the blocks that can be
\* reserved is exact, too.  (A fork of a process with pages takes the blocks of the
\* child from the count for ever: vm_create does not give the child its pages.)
THEOREM SwapNeverLost ==
  ASSUME ~ManagedForks
  PROVE  Spec => []SwapConserved
<1>1. IInv => SwapConserved
  <2>1. SUFFICES ASSUME IInv PROVE SwapConserved
    OBVIOUS
  <2>2. num_swap_blocks = Len(available_swap_blocks)
    BY <2>1 DEF IInv, SwapInv, SwapCountInv
  <2>3. SwapOwned
    BY <2>1, OwnedSwap
  <2>4. QED
    BY <2>2, <2>3 DEF SwapConserved, SwapOwned
<1>2. QED
  BY <1>1, PagerInvariant, PTL

-----------------------------------------------------------------------------
(* What a page holds, wherever it is.                                        *)

\* The contents of the page id, when memory and disk are as given.
ContentIn(id, pip, mem, back) == IF id \in DOMAIN pip THEN mem[pip[id]] ELSE back[id]

\* No page of a file or of a process changes its contents.
ContentsKept == \A id \in BackedIds : Contents(id)' = Contents(id)

\* The sweep writes a page back if it must, so that it holds the same on disk.
LEMMA SweptContents ==
  ASSUME MemoryInv, NEW id \in BackedIds
  PROVE  ContentIn(id, ResidentAfterSweep, physmem, BackingAfterSweep) = Contents(id)
<1>1. /\ DOMAIN ResidentAfterSweep = DOMAIN peer_in_phys \ {physical_table[q].id : q \in Evicted}
      /\ \A x \in DOMAIN ResidentAfterSweep : ResidentAfterSweep[x] = peer_in_phys[x]
      /\ (\A q \in Evicted : physical_table[q].id # id) => BackingAfterSweep[id] = backing[id]
  BY PhysicalSwept
<1>2. PagesOK(ToSet(clock_queue), physical_table, peer_in_phys)
      /\ DirtyOK(ToSet(available_physical_pages), ToSet(clock_queue), physical_table, physmem, backing)
      /\ backing \in [BackedIds -> Value]
  BY DEF MemoryInv, MemoryTypes
<1>3. CASE \A q \in Evicted : physical_table[q].id # id
  BY <1>1, <1>3 DEF ContentIn, Contents, Resident
<1>4. CASE \E q \in Evicted : physical_table[q].id = id
  <2>1. PICK q \in Evicted : physical_table[q].id = id
    BY <1>4
  <2>2. Evicted = {q}
    BY <2>1 DEF Evicted
  <2>3. q \in ToSet(clock_queue)
    BY <2>1, QueuesAfterSweep DEF MemoryInv
  <2>4. id \in DOMAIN peer_in_phys /\ peer_in_phys[id] = q
    BY <1>2, <2>1, <2>3 DEF PagesOK
  <2>5. id \notin DOMAIN ResidentAfterSweep
    BY <1>1, <2>1
  <2>6. BackingAfterSweep[id] = IF physical_table[q].dirty THEN physmem[q] ELSE backing[id]
    <3>1. (CHOOSE x \in Evicted : TRUE) = q
      BY <2>2
    <3>2. (\E x \in Evicted : physical_table[x].dirty /\ physical_table[x].id = id) <=> physical_table[q].dirty
      BY <2>1, <2>2
    <3>3. id \in DOMAIN backing
      BY <1>2
    <3>4. QED
      BY <3>1, <3>2, <3>3 DEF BackingAfterSweep
  <2>7. ~physical_table[q].dirty => physmem[q] = backing[id]
    BY <1>2, <2>1, <2>3 DEF DirtyOK
  <2>8. QED
    BY <2>4, <2>5, <2>6, <2>7 DEF ContentIn, Contents, Resident
<1>5. QED
  BY <1>3, <1>4

\* A fault moves pages between memory and disk, and changes none.
LEMMA FaultContents ==
  ASSUME MemoryInv, TablesInv, ControlInv, CanCall,
         NEW n \in DOMAIN tables[cur_table].vps, NEW write \in BOOLEAN,
         vm_fault(n, write) \/ FaultFails(n, write)
  PROVE  ContentsKept /\ physmem'[0] = physmem[0]
<1>1. CASE FaultOnResident(n, write)
  BY <1>1 DEF FaultOnResident, ContentsKept, Contents, Resident
<1>2. CASE FaultFails(n, write)
  <2>1. /\ peer_in_phys' = ResidentAfterSweep /\ backing' = BackingAfterSweep /\ physmem' = physmem
    BY <1>2 DEF FaultFails
  <2>2. ASSUME NEW id \in BackedIds
        PROVE  Contents(id)' = Contents(id)
    BY <2>1, SweptContents DEF ContentIn, Contents, Resident
  <2>3. QED
    BY <2>1, <2>2 DEF ContentsKept
<1>3. CASE FaultWithRead(n, write)
  <2> DEFINE id == Page(n).id
             q  == Head(AvailableAfterSweep)
             R  == ResidentAfterSweep
             B  == BackingAfterSweep
  <2>1. NeedsPage(n, write) /\ id \in DOMAIN backing
    BY <1>3 DEF FaultWithRead
  <2>2. /\ id \in DOMAIN peer_in_phys => peer_in_phys[id] = 0
        /\ id \in DOMAIN R => R[id] = 0
        /\ \A x \in ToSet(ClockAfterSweep) : PhysicalAfterSweep[x].id # id
    BY <2>1, NeedyPage
  <2>3. /\ physmem \in [PhysicalPage -> Value] /\ backing \in [BackedIds -> Value]
        /\ EntryOK(Page(n), physical_table, peer_in_phys)
    BY PageFacts DEF MemoryInv, MemoryTypes
  <2>4. q \in OwnPage /\ q \in PhysicalPage /\ q # 0 /\ q \notin ToSet(ClockAfterSweep)
    BY PageFound, PhysicalPages
  <2>5. PagesOK(ToSet(ClockAfterSweep), PhysicalAfterSweep, R)
    BY MemorySwept
  <2>6. \A x \in DOMAIN R : R[x] # q
    BY <2>4, <2>5 DEF PagesOK
  <2>7. /\ physmem' = [physmem EXCEPT ![q] = IF id \in DOMAIN peer_in_phys THEN physmem[Page(n).ppage] ELSE B[id]]
        /\ peer_in_phys' = [x \in DOMAIN R \cup {id} |-> IF x = id THEN q ELSE R[x]]
        /\ backing' = B
    BY <1>3 DEF FaultWithRead, Resident
  <2>8. id \in DOMAIN peer_in_phys => Page(n).ppage = peer_in_phys[id]
    BY <2>3 DEF EntryOK
  <2>9. R \in [DOMAIN R -> PhysicalPage] /\ DOMAIN R \subseteq DOMAIN peer_in_phys
    BY PhysicalSwept
  <2>10. \A x \in BackedIds : ContentIn(x, R, physmem, B) = Contents(x)
    BY SweptContents
  <2> HIDE DEF id, q, R, B
  <2>11. ASSUME NEW x \in BackedIds
         PROVE  Contents(x)' = Contents(x)
    <3>1. CASE x = id
      <4>1. Contents(x)' = IF id \in DOMAIN peer_in_phys THEN physmem[peer_in_phys[id]] ELSE B[id]
        BY <2>3, <2>4, <2>7, <2>8, <3>1 DEF Contents, Resident
      <4>2. id \notin DOMAIN peer_in_phys => id \notin DOMAIN R
        BY <2>9
      <4>3. QED
        BY <2>10, <3>1, <4>1, <4>2 DEF ContentIn, Contents, Resident
    <3>2. CASE x # id
      <4>1. x \in DOMAIN peer_in_phys' <=> x \in DOMAIN R
        BY <2>7, <3>2
      <4>2. CASE x \in DOMAIN R
        <5>1. peer_in_phys'[x] = R[x] /\ R[x] \in PhysicalPage /\ R[x] # q
          BY <2>6, <2>7, <2>9, <3>2, <4>2
        <5>2. physmem'[R[x]] = physmem[R[x]]
          BY <2>3, <2>4, <2>7, <5>1
        <5>3. Contents(x)' = physmem[R[x]]
          BY <4>1, <4>2, <5>1, <5>2 DEF Contents, Resident
        <5>4. QED
          BY <2>10, <4>2, <5>3 DEF ContentIn
      <4>3. CASE x \notin DOMAIN R
        BY <2>7, <2>10, <4>1, <4>3 DEF ContentIn, Contents, Resident
      <4>4. QED
        BY <4>2, <4>3
    <3>3. QED
      BY <3>1, <3>2
  <2>12. physmem'[0] = physmem[0]
    BY <2>3, <2>4, <2>7, PhysicalPages
  <2>13. QED
    BY <2>11, <2>12 DEF ContentsKept
<1>4. QED
  BY <1>1, <1>2, <1>3 DEF vm_fault

\* A page that is resident can be read, and so can every swap-backed one.
LEMMA ReadableId ==
  ASSUME MemoryInv, NEW id \in file_id, id \in DOMAIN peer_in_phys \/ id.swap_backed
  PROVE  id \in BackedIds
<1>1. CASE id.swap_backed
  <2>1. id.block \in SwapBlock /\ id = SwapId(id.block)
    BY <1>1, SwapIdOfBlock
  <2>2. QED
    BY <2>1 DEF BackedIds, SwapIds
<1>2. CASE id \in DOMAIN peer_in_phys /\ ~id.swap_backed
  BY <1>2 DEF MemoryInv, PagesOK
<1>3. QED
  BY <1>1, <1>2

\* A store changes the contents of one page, and it is not the pinned one.
LEMMA StoreContents ==
  ASSUME IInv, NEW n \in 1 .. MAX_PAGE_NUM, NEW value \in Value, Store(n, value)
  PROVE  /\ cur_table \in DOMAIN tables /\ n \in DOMAIN tables[cur_table].vps
         /\ Page(n).id \in BackedIds
         /\ \A id \in BackedIds : Contents(id)' = IF id = Page(n).id THEN value ELSE Contents(id)
         /\ physmem'[0] = physmem[0]
<1>1. /\ CanCall /\ n \in DOMAIN tables[cur_table].vps /\ ~Denied(n, TRUE)
      /\ physmem' = [physmem EXCEPT ![Page(n).ppage] = value]
      /\ UNCHANGED <<peer_in_phys, backing>>
  BY DEF Store
<1>2. /\ cur_table \in DOMAIN tables /\ EntryOK(Page(n), physical_table, peer_in_phys)
      /\ Page(n).write_enable /\ Page(n) \in virtual_page
  BY <1>1, PageFacts DEF IInv, Denied
<1>3. PICK i : i = Page(n).id
  OBVIOUS
<1>4. i \in DOMAIN peer_in_phys /\ i \in file_id /\ Page(n).ppage = peer_in_phys[i] /\ peer_in_phys[i] # 0
  BY <1>2, <1>3 DEF EntryOK, virtual_page
<1>5. i \in BackedIds
  BY <1>4, ReadableId DEF IInv
<1>6. /\ physmem \in [PhysicalPage -> Value] /\ peer_in_phys \in [DOMAIN peer_in_phys -> PhysicalPage]
      /\ PagesOK(ToSet(clock_queue), physical_table, peer_in_phys)
  BY DEF IInv, MemoryInv, MemoryTypes
<1>7. \A id \in DOMAIN peer_in_phys : peer_in_phys[id] = peer_in_phys[i] => id = i
  BY <1>4, <1>6 DEF PagesOK
<1>8. \A id \in DOMAIN peer_in_phys :
        physmem'[peer_in_phys[id]] = IF id = i THEN value ELSE physmem[peer_in_phys[id]]
  BY <1>1, <1>4, <1>6, <1>7
<1>9. \A id \in BackedIds : Contents(id)' = IF id = i THEN value ELSE Contents(id)
  BY <1>1, <1>4, <1>8 DEF Contents, Resident
<1>10. physmem'[0] = physmem[0]
  BY <1>1, <1>4, <1>6, PhysicalPages
<1>11. QED
  BY <1>1, <1>2, <1>3, <1>5, <1>9, <1>10

\* A new swap-backed page shows the pinned one; no process has it or has had it shown.
LEMMA MapSwapContents ==
  ASSUME IInv, MapSwap
  PROVE  \E new \in file_id :
           /\ new = SwapId(Head(available_swap_blocks)) /\ new.swap_backed
           /\ Contents(new)' = physmem[0]
           /\ \A id : id # new => Contents(id)' = Contents(id)
           /\ \A p \in DOMAIN tables : \A n \in DOMAIN tables[p].vps : tables[p].vps[n].id # new
           /\ physmem' = physmem /\ available_swap_blocks # <<>>
<1>1. /\ num_swap_blocks # 0
      /\ \A new : new = SwapId(Head(available_swap_blocks)) =>
           peer_in_phys' = [x \in DOMAIN peer_in_phys \cup {new} |-> IF x = new THEN 0 ELSE peer_in_phys[x]]
      /\ UNCHANGED <<physmem, backing>>
  BY DEF MapSwap
<1>2. /\ available_swap_blocks \in Seq(SwapBlock)
      /\ num_swap_blocks \in Nat /\ num_swap_blocks <= Len(available_swap_blocks)
      /\ SwapOK(tables, available_swap_blocks)
  BY DEF IInv, SwapInv, SwapCountInv
<1>3. available_swap_blocks # <<>>
  <2>1. Len(available_swap_blocks) \in Nat
    BY <1>2, LenProperties
  <2>2. Len(available_swap_blocks) # 0
    BY <1>1, <1>2, <2>1
  <2>3. QED
    BY <1>2, <2>2, EmptySeq
<1>h. PICK h : h = Head(available_swap_blocks)
  OBVIOUS
<1>4. h \in ToSet(available_swap_blocks) /\ h \in SwapBlock
  BY <1>h, <1>2, <1>3, ElementsOfTail, ElementsOfSeq
<1>n. PICK new : new = SwapId(h)
  OBVIOUS
<1>5. new.swap_backed /\ new \in file_id
  BY <1>4, <1>n DEF SwapIds, file_id, SwapId
<1>6. \A p \in DOMAIN tables : \A n \in DOMAIN tables[p].vps : tables[p].vps[n].id # new
  BY <1>2, <1>4, <1>n DEF SwapOK
<1>m. /\ new = SwapId(Head(available_swap_blocks))
      /\ peer_in_phys' = [x \in DOMAIN peer_in_phys \cup {new} |-> IF x = new THEN 0 ELSE peer_in_phys[x]]
  BY <1>h, <1>n, <1>1
<1>7. Contents(new)' = physmem[0]
  BY <1>1, <1>m DEF Contents, Resident
<1>8. ASSUME NEW id, id # new
      PROVE  Contents(id)' = Contents(id)
  BY <1>1, <1>m, <1>8 DEF Contents, Resident
<1>9. QED
  BY <1>1, <1>3, <1>m, <1>5, <1>6, <1>7, <1>8

\* vm_destroy drops the contents of the pages of the process that ends, and of no other.
LEMMA DestroyContents ==
  ASSUME IInv, vm_destroy
  PROVE  /\ cur_table \in DOMAIN tables /\ cur_pid = cur_table
         /\ \A id : ~id.swap_backed \/ (\A n \in DOMAIN tables[cur_table].vps : tables[cur_table].vps[n].id # id)
              => Contents(id)' = Contents(id)
         /\ physmem' = physmem
<1> DEFINE D == {FreedEntries[k].id : k \in DOMAIN FreedEntries}
<1>1. /\ CanCall
      /\ peer_in_phys' = Restrict(peer_in_phys, DOMAIN peer_in_phys \ D)
      /\ UNCHANGED <<physmem, backing>>
  BY DEF vm_destroy
<1>2. /\ cur_table \in DOMAIN tables /\ FreedEntries \in Seq(virtual_page)
      /\ ToSet(FreedEntries) = {e \in ToSet(tables[cur_table].vps) : e.id.swap_backed /\ Resident(e.id) /\ e.ppage # 0}
  BY <1>1, FreedFacts
<1>3. cur_pid = cur_table
  BY <1>1 DEF IInv, ControlInv, CanCall
<1>4. ASSUME NEW id \in D
      PROVE  id.swap_backed /\ \E n \in DOMAIN tables[cur_table].vps : tables[cur_table].vps[n].id = id
  <2>1. PICK k \in DOMAIN FreedEntries : id = FreedEntries[k].id
    BY <1>4
  <2>2. FreedEntries[k] \in ToSet(FreedEntries)
    BY DEF ToSet
  <2>3. PICK e \in ToSet(tables[cur_table].vps) : e = FreedEntries[k] /\ e.id.swap_backed
    BY <1>2, <2>2
  <2>4. \E n \in DOMAIN tables[cur_table].vps : e = tables[cur_table].vps[n]
    BY DEF ToSet
  <2>5. QED
    BY <2>1, <2>3, <2>4
<1> HIDE DEF D
<1>5. peer_in_phys' = [id \in DOMAIN peer_in_phys \ D |-> peer_in_phys[id]]
  BY <1>1 DEF Restrict
<1>6. ASSUME NEW id, id \notin D
      PROVE  Contents(id)' = Contents(id)
  BY <1>1, <1>5, <1>6 DEF Contents, Resident
<1>7. QED
  BY <1>1, <1>2, <1>3, <1>4, <1>6

-----------------------------------------------------------------------------
(* The pinned page and the name *)

\* The page that the k-th part of the name was read from.
PartPage(k) == call.at - Len(call.name) - 1 + k

\* What vm_map has read of a name is what the pages hold, even if they have been evicted
\* since: the process that called it does not run in between.
NameInv ==
  call.op = "map" =>
    \A k \in 1 .. Len(call.name) :
      /\ PartPage(k) \in DOMAIN tables[cur_table].vps
      /\ Page(PartPage(k)).id \in BackedIds
      /\ call.name[k] = Contents(Page(PartPage(k)).id)

\* The pinned page holds zeroes as vm_init has made it.
ContentInv == physmem[0] = Zero /\ NameInv

\* The next part of the name is what the page holds.
LEMMA NamePartContents ==
  ASSUME IInv, InMap, ~AtEnd, ~Denied(call.at, FALSE)
  PROVE  /\ call.at \in DOMAIN tables[cur_table].vps
         /\ Page(call.at).id \in BackedIds /\ NamePart = Contents(Page(call.at).id)
<1>1. CanCall /\ call.at \in DOMAIN tables[cur_table].vps
  BY InMapFacts
<1>2. /\ EntryOK(Page(call.at), physical_table, peer_in_phys) /\ Page(call.at) \in virtual_page
  BY <1>1, PageFacts DEF IInv
<1>3. Page(call.at).id \in DOMAIN peer_in_phys /\ Page(call.at).id \in file_id
  BY <1>2, NamePartFacts DEF virtual_page
<1>4. Page(call.at).id \in BackedIds
  BY <1>3, ReadableId DEF IInv
<1>5. NamePart = Contents(Page(call.at).id)
  BY <1>2, <1>3 DEF NamePart, Contents, Resident, EntryOK
<1>6. QED
  BY <1>1, <1>4, <1>5

\* A fault in the middle of a name does not change what has been read.
LEMMA NameKept ==
  ASSUME NameInv, IInv, InMap, ContentsKept, SameShape(tables, tables'), call' = call, cur_table' = cur_table
  PROVE  NameInv'
<1>1. cur_table \in DOMAIN tables
  BY InMapFacts
<1>2. ASSUME NEW k \in 1 .. Len(call.name)
      PROVE  /\ PartPage(k)' \in DOMAIN tables'[cur_table'].vps
             /\ Page(PartPage(k))'.id \in BackedIds
             /\ call'.name[k] = Contents(Page(PartPage(k)).id)'
  <2>1. PICK m : m = PartPage(k)
    OBVIOUS
  <2>2. PartPage(k)' = m
    BY <2>1 DEF PartPage
  <2>3. /\ m \in DOMAIN tables[cur_table].vps /\ Page(m).id \in BackedIds
        /\ call.name[k] = Contents(Page(m).id)
    BY <2>1 DEF NameInv, InMap
  <2>4. PICK i \in BackedIds : i = Page(m).id
    BY <2>3
  <2>5. m \in DOMAIN tables'[cur_table'].vps /\ Page(m)'.id = i
    BY <1>1, <2>3, <2>4 DEF SameShape, Page
  <2>6. Contents(i)' = Contents(i)
    BY DEF ContentsKept
  <2>7. Page(PartPage(k))'.id = i
    BY <2>2, <2>5 DEF Page
  <2>8. Contents(Page(PartPage(k)).id)' = Contents(i)'
    BY <2>7 DEF Contents, Resident
  <2>9. QED
    BY <2>2, <2>3, <2>4, <2>5, <2>6, <2>7, <2>8
<1>3. QED
  BY <1>2 DEF NameInv

\* Steps that leave memory alone change no contents.
LEMMA SameMemory ==
  ASSUME UNCHANGED memory
  PROVE  ContentsKept /\ physmem' = physmem /\ \A id : Contents(id)' = Contents(id)
  BY DEF memory, ContentsKept, Contents, Resident

\* Between two calls no name is being read.
LEMMA NoName ==
  ASSUME call' = Idle \/ (\E n, write : call' = Retry(n, write))
  PROVE  NameInv'
  BY DEF NameInv, Idle, Retry

\* A fault at an access, or in the middle of a name, keeps contents and the shape of the arenas.
LEMMA SomeFault ==
  ASSUME IInv, CanCall, NEW n \in DOMAIN tables[cur_table].vps, NEW write \in BOOLEAN,
         Denied(n, write), vm_fault(n, write) \/ FaultFails(n, write),
         UNCHANGED <<peer_map, swapVars, current>>
  PROVE  ContentsKept /\ physmem'[0] = physmem[0] /\ SameShape(tables, tables')
<1>1. MemoryInv /\ TablesInv /\ SwapInv /\ ControlInv
  BY DEF IInv
<1>2. ContentsKept /\ physmem'[0] = physmem[0]
  BY <1>1, FaultContents
<1>3. CASE vm_fault(n, write)
  BY <1>1, <1>2, <1>3, vm_faultKeeps
<1>4. CASE FaultFails(n, write)
  BY <1>1, <1>2, <1>4, FailedFault
<1>5. QED
  BY <1>3, <1>4

\* The fault of vm_map.
LEMMA NameFaultContents ==
  ASSUME IInv, NameFault
  PROVE  ContentsKept /\ physmem'[0] = physmem[0] /\ SameShape(tables, tables')
<1>1. /\ InMap /\ ~AtEnd /\ Denied(call.at, FALSE) /\ UNCHANGED <<peer_map, swapVars, current>>
      /\ vm_fault(call.at, FALSE) \/ FaultFails(call.at, FALSE)
  BY DEF NameFault
<1>2. CanCall /\ call.at \in DOMAIN tables[cur_table].vps
  BY <1>1, InMapFacts
<1>3. PICK n \in DOMAIN tables[cur_table].vps : n = call.at
  BY <1>2
<1>4. PICK write \in BOOLEAN : write = FALSE
  OBVIOUS
<1>5. Denied(n, write) /\ (vm_fault(n, write) \/ FaultFails(n, write))
  BY <1>1, <1>3, <1>4
<1>6. QED
  BY <1>1, <1>2, <1>5, SomeFault

\* The next part of the name belongs to the next page.
LEMMA ReadNameContents ==
  ASSUME IInv, NameInv, ReadName
  PROVE  NameInv'
<1>1. /\ InMap /\ ~AtEnd /\ ~Denied(call.at, FALSE)
      /\ call' = [call EXCEPT !.at = @ + 1, !.name = Append(@, NamePart)]
      /\ UNCHANGED <<memory, tables, cur_table>>
  BY DEF ReadName, current
<1>2. /\ call \in MapCalls /\ call.at \in Nat /\ call.name \in Seq(Value \ Ending)
      /\ Len(call.name) \in Nat /\ call.op = "map"
  BY <1>1, InMapFacts DEF InMap
<1>3. /\ call.at \in DOMAIN tables[cur_table].vps
      /\ Page(call.at).id \in BackedIds /\ NamePart = Contents(Page(call.at).id)
  BY <1>1, NamePartContents
<1>4. PICK L \in Nat : L = Len(call.name)
  BY <1>2
<1>5. PICK at \in Nat : at = call.at
  BY <1>2
<1>6. PICK v : v = NamePart
  OBVIOUS
<1>7. call'.at = at + 1 /\ call'.name = Append(call.name, v)
  BY <1>1, <1>2, <1>5, <1>6 DEF MapCalls
<1>8. /\ Len(call'.name) = L + 1
      /\ \A k \in 1 .. L : call'.name[k] = call.name[k]
      /\ call'.name[L + 1] = v
  <2>1. PICK S : S = Value \ Ending
    OBVIOUS
  <2>2. call.name \in Seq(S \cup {v}) 
    <3>1. S \subseteq S \cup {v}
      OBVIOUS
    <3>2. call.name \in Seq(S)
      BY <1>2, <2>1
    <3>3. QED
      BY <3>1, <3>2, SeqMonotonic
  <2>3. v \in S \cup {v}
    OBVIOUS
  <2>4. QED
    BY <1>4, <1>7, <2>2, <2>3, AppendProperties
<1>9. \A k \in 1 .. L + 1 : k \in 1 .. L \/ k = L + 1
  OBVIOUS
<1>10. \A k \in Nat : (at + 1) - (L + 1) - 1 + k = at - L - 1 + k
  OBVIOUS
<1>11. at - L - 1 + (L + 1) = at
  OBVIOUS
<1>12. ASSUME NEW k \in 1 .. Len(call'.name)
       PROVE  /\ PartPage(k)' \in DOMAIN tables'[cur_table'].vps
              /\ Page(PartPage(k))'.id \in BackedIds
              /\ call'.name[k] = Contents(Page(PartPage(k)).id)'
  <2>1. k \in 1 .. L + 1 /\ k \in Nat
    BY <1>8
  <2>2. PICK m : m = PartPage(k)
    OBVIOUS
  <2>3. m = at - L - 1 + k
    BY <1>4, <1>5, <2>2 DEF PartPage
  <2>4. PartPage(k)' = m
    BY <1>7, <1>8, <1>10, <2>1, <2>3 DEF PartPage
  <2>5. /\ m \in DOMAIN tables[cur_table].vps /\ Page(m).id \in BackedIds
        /\ call'.name[k] = Contents(Page(m).id)
    <3>1. CASE k \in 1 .. L
      BY <1>2, <1>4, <1>8, <2>2, <3>1 DEF NameInv
    <3>2. CASE k = L + 1
      BY <1>3, <1>5, <1>6, <1>8, <1>11, <2>3, <3>2
    <3>3. QED
      BY <1>9, <2>1, <3>1, <3>2
  <2>6. Page(PartPage(k))' = Page(m)
    BY <1>1, <2>4 DEF Page
  <2>7. Contents(Page(PartPage(k)).id)' = Contents(Page(m).id)
    <3>1. PICK i : i = Page(m).id
      OBVIOUS
    <3>2. Contents(Page(PartPage(k)).id)' = Contents(i)'
      BY <2>6, <3>1 DEF Contents, Resident
    <3>3. Contents(i)' = Contents(i)
      BY <1>1, SameMemory
    <3>4. QED
      BY <3>1, <3>2, <3>3
  <2>8. QED
    BY <1>1, <2>4, <2>5, <2>6, <2>7
<1>13. QED
  BY <1>12 DEF NameInv

\* Every step keeps the zeroes of the pinned page and the parts of the name.
LEMMA NextContents ==
  ASSUME IInv, ContentInv, Next
  PROVE  ContentInv'
<1>1. ASSUME NEW n \in 1 .. MAX_PAGE_NUM, NEW write \in BOOLEAN, Fault(n, write) PROVE ContentInv'
  <2>1. /\ CanCall /\ n \in DOMAIN tables[cur_table].vps /\ Denied(n, write)
        /\ vm_fault(n, write) \/ FaultFails(n, write)
        /\ UNCHANGED <<peer_map, swapVars, current>>
        /\ call' = Idle \/ call' = Retry(n, write)
    BY <1>1 DEF Fault
  <2>2. physmem'[0] = physmem[0]
    BY <2>1, SomeFault
  <2>3. QED
    BY <2>1, <2>2, NoName DEF ContentInv
<1>2. ASSUME NEW n \in 1 .. MAX_PAGE_NUM, Load(n) PROVE ContentInv'
  BY <1>2, NoName DEF Load, memory, ContentInv
<1>3. ASSUME NEW n \in 1 .. MAX_PAGE_NUM, NEW value \in Value, Store(n, value) PROVE ContentInv'
  <2>1. physmem'[0] = physmem[0] /\ call' = Idle
    BY <1>3, StoreContents DEF Store
  <2>2. QED
    BY <2>1, NoName DEF ContentInv
<1>4. ASSUME NEW n \in 1 .. MAX_PAGE_NUM, NEW block \in FileBlock, MapFile(n, block) PROVE ContentInv'
  <2>1. physmem' = physmem /\ call' = [op |-> "map", at |-> n, name |-> <<>>, block |-> block]
    BY <1>4 DEF MapFile, memory
  <2>2. Len(call'.name) = 0
    BY <2>1, EmptySeq
  <2>3. 1 .. Len(call'.name) = {}
    BY <2>2
  <2>4. NameInv'
    BY <2>3 DEF NameInv
  <2>5. QED
    BY <2>1, <2>4 DEF ContentInv
<1>5. CASE MapSwap
  BY <1>5, NoName DEF MapSwap, ContentInv
<1>6. CASE NameFault
  <2>1. ContentsKept /\ physmem'[0] = physmem[0] /\ SameShape(tables, tables')
    BY <1>6, NameFaultContents
  <2>2. /\ InMap /\ cur_table' = cur_table /\ (call' = call \/ call' = Idle)
    BY <1>6 DEF NameFault, current
  <2>3. QED
    BY <2>1, <2>2, NameKept, NoName DEF ContentInv
<1>7. CASE ReadName
  <2>1. physmem' = physmem
    BY <1>7 DEF ReadName, memory
  <2>2. QED
    BY <1>7, <2>1, ReadNameContents DEF ContentInv
<1>8. CASE NameRefused
  BY <1>8, NoName DEF NameRefused, memory, ContentInv
<1>9. CASE EndName
  BY <1>9, NoName DEF EndName, memory, ContentInv
<1>10. ASSUME NEW parent \in Pid \cup {Shell}, NEW child \in Pid, vm_create(parent, child) PROVE ContentInv'
  BY <1>10, NoName DEF vm_create, MayCreate, memory, ContentInv
<1>11. ASSUME NEW pid \in Pid, vm_switch(pid) PROVE ContentInv'
  BY <1>11, NoName DEF vm_switch, memory, ContentInv
<1>12. CASE vm_destroy
  BY <1>12, NoName DEF vm_destroy, ContentInv
<1>13. QED
  BY <1>1, <1>2, <1>3, <1>4, <1>5, <1>6, <1>7, <1>8, <1>9, <1>10, <1>11, <1>12 DEF Next

\* So does a step that changes nothing.
LEMMA StutterContents ==
  ASSUME IInv, ContentInv, UNCHANGED vars
  PROVE  ContentInv'
<1>1. UNCHANGED <<physmem, peer_in_phys, backing, tables, cur_table, call>>
  BY DEF vars, memory, current
<1>2. QED
  BY <1>1 DEF ContentInv, NameInv, PartPage, Page, Contents, Resident

\* vm_init fills the pinned page with zeroes.
LEMMA InitContents ==
  ASSUME Init
  PROVE  ContentInv
  BY PhysicalPages DEF Init, ContentInv, NameInv, Idle

\* The pinned page holds zeroes for ever, and a name stays what the pages hold while it is read.
LEMMA ContentsHold == Spec => []ContentInv
<1>1. Init => ContentInv
  BY InitContents
<1>2. IInv /\ ContentInv /\ [Next]_vars => ContentInv'
  BY NextContents, StutterContents
<1>3. QED
  BY <1>1, <1>2, PagerInvariant, PTL DEF Spec

-----------------------------------------------------------------------------
(* What the processes see: the arenas of AddressSpace                        *)

\* What a process sees of a page.
Shown(id) ==
  IF id.swap_backed THEN [shared |-> FALSE, value |-> Contents(id)]
                    ELSE [shared |-> TRUE, file |-> <<id.filename, id.block>>]

\* The arena of a process shows its pages.
LEMMA ArenaShows ==
  ASSUME NEW p
  PROVE  /\ DOMAIN ArenaOf(p) = DOMAIN tables[p].vps
         /\ ArenaOf(p) = [n \in DOMAIN ArenaOf(p) |-> ArenaOf(p)[n]]
         /\ \A n \in DOMAIN tables[p].vps : \A id :
              id = tables[p].vps[n].id => ArenaOf(p)[n] = Shown(id)
  BY DEF ArenaOf, Shown

\* So does the one after a step.
LEMMA ArenaShowsNext ==
  ASSUME NEW p
  PROVE  /\ DOMAIN ArenaOf(p)' = DOMAIN tables'[p].vps
         /\ ArenaOf(p)' = [n \in DOMAIN ArenaOf(p)' |-> ArenaOf(p)'[n]]
         /\ \A n \in DOMAIN tables'[p].vps : \A id :
              id = tables'[p].vps[n].id => ArenaOf(p)'[n] = Shown(id)'
<1>1. ArenaOf(p)' = [n \in DOMAIN tables'[p].vps |->
                       IF tables'[p].vps[n].id.swap_backed
                       THEN [shared |-> FALSE, value |-> Contents(tables[p].vps[n].id)']
                       ELSE [shared |-> TRUE,
                             file |-> <<tables'[p].vps[n].id.filename, tables'[p].vps[n].id.block>>]]
  BY DEF ArenaOf
<1>2. ASSUME NEW n \in DOMAIN tables'[p].vps, NEW id, id = tables'[p].vps[n].id
      PROVE  ArenaOf(p)'[n] = Shown(id)'
  <2>1. Contents(tables[p].vps[n].id)' = Contents(id)'
    BY <1>2 DEF Contents, Resident
  <2>2. QED
    BY <1>1, <1>2, <2>1 DEF Shown
<1>3. QED
  BY <1>1, <1>2

\* A page looks the same as long as it is the same file or has the same contents.
LEMMA SameShown ==
  ASSUME NEW id, id.swap_backed => Contents(id)' = Contents(id)
  PROVE  Shown(id)' = Shown(id)
  BY DEF Shown

\* An arena looks the same when its pages are the same and no private one has changed.
LEMMA SameArena ==
  ASSUME NEW p, DOMAIN tables'[p].vps = DOMAIN tables[p].vps,
         \A n \in DOMAIN tables[p].vps : tables'[p].vps[n].id = tables[p].vps[n].id,
         \A n \in DOMAIN tables[p].vps : \A id :
           id = tables[p].vps[n].id /\ id.swap_backed => Contents(id)' = Contents(id)
  PROVE  ArenaOf(p)' = ArenaOf(p)
<1>1. ASSUME NEW n \in DOMAIN tables[p].vps
      PROVE  ArenaOf(p)'[n] = ArenaOf(p)[n]
  <2>1. PICK id : id = tables[p].vps[n].id
    OBVIOUS
  <2>2. Shown(id)' = Shown(id)
    BY <2>1, SameShown
  <2>3. ArenaOf(p)'[n] = Shown(id)' /\ ArenaOf(p)[n] = Shown(id)
    BY <2>1, ArenaShows, ArenaShowsNext
  <2>4. QED
    BY <2>2, <2>3
<1>2. DOMAIN ArenaOf(p)' = DOMAIN tables[p].vps /\ DOMAIN ArenaOf(p) = DOMAIN tables[p].vps
  BY ArenaShows, ArenaShowsNext
<1>3. /\ ArenaOf(p)' = [n \in DOMAIN tables[p].vps |-> ArenaOf(p)'[n]]
      /\ ArenaOf(p)  = [n \in DOMAIN tables[p].vps |-> ArenaOf(p)[n]]
  BY <1>2, ArenaShows, ArenaShowsNext
<1>4. QED
  BY <1>1, <1>3

\* The arenas, one per process.
LEMMA SpaceShows ==
  /\ DOMAIN Space = DOMAIN tables /\ \A p \in DOMAIN tables : Space[p] = ArenaOf(p)
  /\ Space = [p \in DOMAIN tables |-> Space[p]]
  /\ DOMAIN Space' = DOMAIN tables' /\ \A p \in DOMAIN tables' : Space'[p] = ArenaOf(p)'
  /\ Space' = [p \in DOMAIN tables' |-> Space'[p]]
  BY DEF Space

\* The pages of a process that are private have contents.
LEMMA PageIdFacts ==
  ASSUME IInv, NEW p \in DOMAIN tables, NEW n \in DOMAIN tables[p].vps
  PROVE  /\ tables[p].vps[n].id \in file_id
         /\ tables[p].vps[n].id.swap_backed \in BOOLEAN
         /\ tables[p].vps[n].id.swap_backed => tables[p].vps[n].id \in BackedIds
<1>1. tables[p].vps[n] \in virtual_page
  BY TableTypes DEF IInv, TablesInv
<1>2. tables[p].vps[n].id \in file_id
  BY <1>1 DEF virtual_page
<1>3. tables[p].vps[n].id.swap_backed \in BOOLEAN
  <2>1. \A id \in SwapIds : id.swap_backed = TRUE
    BY DEF SwapIds, SwapId
  <2>2. \A file : FileId(file).swap_backed = FALSE
    BY DEF FileId
  <2>3. QED
    BY <1>2, <2>1, <2>2 DEF file_id
<1>4. QED
  BY <1>2, <1>3, ReadableId DEF IInv

\* The files that can be read, and their names as pairs.
LEMMA FileIds ==
  /\ \A file \in Files : FileId(file) \in BackedIds /\ ~FileId(file).swap_backed
  /\ \A file \in Files : FileId(file).filename = file[1] /\ FileId(file).block = file[2]
                         /\ file = <<FileId(file).filename, FileId(file).block>>
  /\ \A id \in BackedIds : ~id.swap_backed =>
       /\ <<id.filename, id.block>> \in Files /\ id = FileId(<<id.filename, id.block>>)
<1>1. \A file \in Files : file = <<file[1], file[2]>>
  BY FilesAssumption
<1>2. \A file \in Files : /\ FileId(file).filename = file[1] /\ FileId(file).block = file[2]
                          /\ ~FileId(file).swap_backed
  BY DEF FileId
<1>3. \A file \in Files : FileId(file) \in BackedIds
  BY DEF BackedIds, ReadableIds
<1>4. ASSUME NEW id \in BackedIds, ~id.swap_backed
      PROVE  <<id.filename, id.block>> \in Files /\ id = FileId(<<id.filename, id.block>>)
  <2>1. id \in ReadableIds
    BY <1>4 DEF BackedIds, SwapIds, SwapId
  <2>2. PICK file \in Files : id = FileId(file)
    BY <2>1 DEF ReadableIds
  <2>3. <<id.filename, id.block>> = file
    BY <1>1, <1>2, <2>2
  <2>4. QED
    BY <2>2, <2>3
<1>5. QED
  BY <1>1, <1>2, <1>3, <1>4

\* The contents of files.
LEMMA FilesShow ==
  /\ FileContent \in [Files -> {Contents(FileId(file)) : file \in Files}]
  /\ \A file \in Files : \A id : id = FileId(file) => FileContent[file] = Contents(id)
  /\ FileContent = [file \in Files |-> FileContent[file]]
  /\ FileContent' = [file \in Files |-> FileContent'[file]]
  /\ \A file \in Files : \A id : id = FileId(file) => FileContent'[file] = Contents(id)'
<1>1. FileContent' = [file \in Files |-> Contents(FileId(file))']
  BY DEF FileContent
<1>2. ASSUME NEW file \in Files, NEW id, id = FileId(file)
      PROVE  FileContent'[file] = Contents(id)'
  <2>1. Contents(FileId(file))' = Contents(id)'
    BY <1>2 DEF Contents, Resident, FileId
  <2>2. QED
    BY <1>1, <2>1
<1>3. QED
  BY <1>1, <1>2 DEF FileContent

\* Files look the same when their contents have not changed.
LEMMA SameFiles ==
  ASSUME \A id \in BackedIds : ~id.swap_backed => Contents(id)' = Contents(id)
  PROVE  FileContent' = FileContent
<1>1. ASSUME NEW file \in Files
      PROVE  FileContent'[file] = FileContent[file]
  <2>1. PICK id : id = FileId(file)
    OBVIOUS
  <2>2. id \in BackedIds /\ ~id.swap_backed
    BY <2>1, FileIds
  <2>3. QED
    BY <2>1, <2>2, FilesShow
<1>2. QED
  BY <1>1, FilesShow

\* Nothing of this shows: the pages are the same and so are their contents.
LEMMA Unseen ==
  ASSUME IInv, ContentsKept, SameShape(tables, tables'), running' = running
  PROVE  UNCHANGED <<Space, FileContent, running>>
<1>1. ASSUME NEW p \in DOMAIN tables
      PROVE  ArenaOf(p)' = ArenaOf(p)
  <2>1. /\ DOMAIN tables'[p].vps = DOMAIN tables[p].vps
        /\ \A n \in DOMAIN tables[p].vps : tables'[p].vps[n].id = tables[p].vps[n].id
    BY DEF SameShape
  <2>2. ASSUME NEW n \in DOMAIN tables[p].vps, NEW id, id = tables[p].vps[n].id, id.swap_backed
        PROVE  Contents(id)' = Contents(id)
    BY <2>2, PageIdFacts DEF ContentsKept
  <2>3. QED
    BY <2>1, <2>2, SameArena
<1>2. DOMAIN tables' = DOMAIN tables
  BY DEF SameShape
<1>3. \A p \in DOMAIN tables : Space'[p] = Space[p]
  BY <1>1, <1>2, SpaceShows
<1>4. Space' = Space
  BY <1>2, <1>3, SpaceShows
<1>5. FileContent' = FileContent
  BY SameFiles DEF ContentsKept
<1>6. QED
  BY <1>4, <1>5

\* A store changes a private page, or a file for everybody who maps it.
LEMMA StoreShows ==
  ASSUME IInv, NEW n \in 1 .. MAX_PAGE_NUM, NEW value \in Value, Store(n, value)
  PROVE  Abstract!Store(n, value)
<1>1. /\ cur_table \in DOMAIN tables /\ n \in DOMAIN tables[cur_table].vps
      /\ Page(n).id \in BackedIds
      /\ \A id \in BackedIds : Contents(id)' = IF id = Page(n).id THEN value ELSE Contents(id)
  BY StoreContents
<1>2. CanCall /\ tables' = tables /\ running' = running
  BY DEF Store, current
<1>3. running # NoPid /\ running = cur_table
  BY <1>2 DEF IInv, ControlInv, CanCall
<1>4. PICK i \in BackedIds : i = tables[running].vps[n].id
  BY <1>1, <1>3 DEF Page
<1>5. \A id \in BackedIds : Contents(id)' = IF id = i THEN value ELSE Contents(id)
  BY <1>1, <1>3, <1>4 DEF Page
<1>6. i.swap_backed \in BOOLEAN
  BY <1>1, <1>3, <1>4, PageIdFacts
<1>7. /\ running \in DOMAIN Space /\ n \in DOMAIN Space[running] /\ Space[running][n] = Shown(i)
  BY <1>1, <1>3, <1>4, SpaceShows, ArenaShows
<1>8. /\ DOMAIN Space' = DOMAIN Space /\ DOMAIN Space = DOMAIN tables
      /\ \A p \in DOMAIN tables : Space'[p] = ArenaOf(p)' /\ Space[p] = ArenaOf(p)
  BY <1>2, SpaceShows
<1>9. CASE ~i.swap_backed
  <2>1. PICK file \in Files : file = <<i.filename, i.block>> /\ i = FileId(file)
    BY <1>4, <1>9, FileIds
  <2>2. Shown(i) = [shared |-> TRUE, file |-> file]
    BY <1>9, <2>1 DEF Shown
  <2>3. FileContent' = [FileContent EXCEPT ![file] = value]
    <3>1. ASSUME NEW f \in Files
          PROVE  FileContent'[f] = IF f = file THEN value ELSE FileContent[f]
      <4>1. PICK id : id = FileId(f)
        OBVIOUS
      <4>2. id \in BackedIds /\ (id = i <=> f = file)
        BY <2>1, <4>1, FileIds
      <4>3. FileContent'[f] = Contents(id)' /\ FileContent[f] = Contents(id)
        BY <4>1, FilesShow
      <4>4. QED
        BY <1>5, <4>2, <4>3
    <3>2. FileContent' = [f \in Files |-> IF f = file THEN value ELSE FileContent[f]]
      BY <3>1, FilesShow
    <3>3. QED
      BY <3>2, FilesShow
  <2>4. Space' = Space
    <3>1. ASSUME NEW p \in DOMAIN tables
          PROVE  ArenaOf(p)' = ArenaOf(p)
      <4>1. ASSUME NEW m \in DOMAIN tables[p].vps, NEW id, id = tables[p].vps[m].id, id.swap_backed
            PROVE  Contents(id)' = Contents(id)
        BY <1>5, <1>9, <4>1, PageIdFacts
      <4>2. QED
        BY <1>2, <4>1, SameArena
    <3>2. QED
      BY <1>2, <1>8, <3>1, SpaceShows
  <2>5. QED
    BY <1>2, <1>3, <1>7, <2>2, <2>3, <2>4 DEF Abstract!Store, Abstract!Readable
<1>10. CASE i.swap_backed
  <2>1. Shown(i) = [shared |-> FALSE, value |-> Contents(i)]
    BY <1>10 DEF Shown
  <2>2. FileContent' = FileContent
    <3>1. \A id \in BackedIds : ~id.swap_backed => Contents(id)' = Contents(id)
      BY <1>5, <1>10
    <3>2. QED
      BY <3>1, SameFiles
  <2>3. Shown(i)' = [shared |-> FALSE, value |-> value]
    BY <1>5, <1>10 DEF Shown
  <2>4. \A p \in DOMAIN tables : \A m \in DOMAIN tables[p].vps :
          tables[p].vps[m].id = i => p = running /\ m = n
    BY <1>1, <1>3, <1>4, <1>10 DEF IInv, SwapInv, SwapOK
  <2>5. ASSUME NEW p \in DOMAIN tables, p # running
        PROVE  ArenaOf(p)' = ArenaOf(p)
    <3>1. ASSUME NEW m \in DOMAIN tables[p].vps, NEW id, id = tables[p].vps[m].id, id.swap_backed
          PROVE  Contents(id)' = Contents(id)
      <4>1. id \in BackedIds
        BY <3>1, PageIdFacts
      <4>2. id # i
        BY <2>4, <2>5, <3>1
      <4>3. QED
        BY <1>5, <4>1, <4>2
    <3>2. QED
      BY <1>2, <3>1, SameArena
  <2>6. ArenaOf(running)' = [ArenaOf(running) EXCEPT ![n] = [shared |-> FALSE, value |-> value]]
    <3>1. ASSUME NEW m \in DOMAIN tables[running].vps
          PROVE  ArenaOf(running)'[m]
                   = IF m = n THEN [shared |-> FALSE, value |-> value] ELSE ArenaOf(running)[m]
      <4>1. PICK id : id = tables[running].vps[m].id
        OBVIOUS
      <4>2. ArenaOf(running)'[m] = Shown(id)' /\ ArenaOf(running)[m] = Shown(id)
        BY <1>2, <4>1, ArenaShows, ArenaShowsNext
      <4>3. CASE m = n
        BY <1>4, <2>3, <4>1, <4>2, <4>3
      <4>4. CASE m # n
        <5>1. id.swap_backed => id \in BackedIds
          BY <1>1, <1>3, <4>1, PageIdFacts
        <5>2. id # i
          BY <1>1, <1>3, <2>4, <4>1, <4>4
        <5>3. Shown(id)' = Shown(id)
          BY <1>5, <5>1, <5>2, SameShown
        <5>4. QED
          BY <4>2, <4>4, <5>3
      <4>5. QED
        BY <4>3, <4>4
    <3>2. /\ DOMAIN ArenaOf(running)' = DOMAIN tables[running].vps
          /\ DOMAIN ArenaOf(running) = DOMAIN tables[running].vps
      BY <1>2, ArenaShows, ArenaShowsNext
    <3>3. ArenaOf(running)' = [m \in DOMAIN tables[running].vps |-> ArenaOf(running)'[m]]
      BY <3>2, ArenaShowsNext
    <3>4. PICK A : A = ArenaOf(running) /\ DOMAIN A = DOMAIN tables[running].vps /\ A = [m \in DOMAIN A |-> A[m]]
      BY <3>2, ArenaShows
    <3>5. QED
      BY <3>1, <3>3, <3>4
  <2>7. Space' = [Space EXCEPT ![running][n].value = value]
    <3>1. PICK A : A = ArenaOf(running)
      OBVIOUS
    <3>2. A[n] = [shared |-> FALSE, value |-> Contents(i)] /\ n \in DOMAIN A
      BY <1>1, <1>3, <1>7, <1>8, <2>1, <3>1
    <3>3. [A[n] EXCEPT !.value = value] = [shared |-> FALSE, value |-> value]
      <4>1. PICK y : y = [A[n] EXCEPT !.value = value]
        OBVIOUS
      <4>2. A[n] \in [shared : {FALSE}, value : {Contents(i)}]
        BY <3>2
      <4>3. y \in [shared : {FALSE}, value : {value}]
        BY <4>1, <4>2
      <4>4. y = [shared |-> FALSE, value |-> value]
        BY <4>3
      <4>5. QED
        BY <4>1, <4>4
    <3>4. PICK B : B = [A EXCEPT ![n] = [shared |-> FALSE, value |-> value]]
      OBVIOUS
    <3>5. PICK S : S = Space /\ S = [p \in DOMAIN tables |-> S[p]]
      BY SpaceShows
    <3>6. PICK r : r = running
      OBVIOUS
    <3>7. S[r] = A /\ r \in DOMAIN tables
      BY <1>1, <1>3, <1>8, <3>1, <3>5, <3>6
    <3>8. [S EXCEPT ![r][n].value = value] = [p \in DOMAIN tables |-> IF p = r THEN B ELSE S[p]]
      <4>1. [S EXCEPT ![r][n].value = value] = [S EXCEPT ![r] = [S[r] EXCEPT ![n] = [S[r][n] EXCEPT !.value = value]]]
        OBVIOUS
      <4>2. [S EXCEPT ![r][n].value = value] = [S EXCEPT ![r] = B]
        BY <3>3, <3>4, <3>7, <4>1
      <4>3. QED
        BY <3>5, <4>2
    <3>9. ASSUME NEW p \in DOMAIN tables
          PROVE  Space'[p] = IF p = r THEN B ELSE S[p]
      <4>1. Space'[p] = ArenaOf(p)' /\ S[p] = ArenaOf(p)
        BY <1>8, <3>5
      <4>2. CASE p = r
        <5>1. ArenaOf(p)' = ArenaOf(running)'
          <6>1. tables'[p] = tables[r] /\ tables'[running] = tables[r]
            BY <1>2, <3>6, <4>2
          <6>2. QED
            BY <6>1, <1>2, <3>6, <4>2 DEF ArenaOf, Contents, Resident
        <5>2. QED
          BY <2>6, <3>1, <3>4, <4>1, <4>2, <5>1
      <4>3. CASE p # r
        BY <2>5, <3>6, <4>1, <4>3
      <4>4. QED
        BY <4>2, <4>3
    <3>10. Space' = [p \in DOMAIN tables |-> IF p = r THEN B ELSE S[p]]
      BY <1>2, <3>9, SpaceShows
    <3>11. S = Space
      BY <3>5
    <3>12. [Space EXCEPT ![running][n].value = value] = [S EXCEPT ![r][n].value = value]
      BY <3>6, <3>11, Zenon
    <3>13. QED
      BY <3>8, <3>10, <3>12
  <2>8. Space[running][n].shared = FALSE
    BY <1>7, <2>1
  <2>9. Abstract!Readable(Space[running][n])
    BY <2>8 DEF Abstract!Readable
  <2>10. running' = running
    BY <1>2
  <2>11. QED
    BY <1>3, <1>7, <2>2, <2>7, <2>8, <2>9, <2>10, Zenon DEF Abstract!Store
<1>11. QED
  BY <1>6, <1>9, <1>10

\* A new process has an empty arena.
LEMMA CreateShows ==
  ASSUME NEW parent, NEW child \in Pid, vm_create(parent, child)
  PROVE  Abstract!Create(child)
<1>1. /\ child \notin DOMAIN tables
      /\ tables' = [p \in DOMAIN tables \cup {child} |->
                      IF p = child THEN [vps |-> <<>>, occupied_swap_blocks |-> 0] ELSE tables[p]]
      /\ UNCHANGED memory /\ running' = running
  BY DEF vm_create, MayCreate, current
<1>2. FileContent' = FileContent
  BY <1>1, SameMemory, SameFiles
<1>3. ASSUME NEW p \in DOMAIN tables
      PROVE  ArenaOf(p)' = ArenaOf(p)
  BY <1>1, SameMemory, SameArena
<1>4. ArenaOf(child)' = <<>>
  BY <1>1 DEF ArenaOf
<1>5. DOMAIN tables' = DOMAIN tables \cup {child}
  BY <1>1
<1>6. Space' = [p \in DOMAIN tables \cup {child} |-> IF p = child THEN <<>> ELSE Space[p]]
  BY <1>1, <1>3, <1>4, <1>5, SpaceShows
<1>7. QED
  BY <1>1, <1>2, <1>6, SpaceShows DEF Abstract!Create

\* vm_switch runs another process.
LEMMA SwitchShows ==
  ASSUME NEW pid \in Pid, vm_switch(pid)
  PROVE  Abstract!Switch(pid)
<1>1. pid \in DOMAIN tables /\ running' = pid /\ tables' = tables /\ UNCHANGED memory
  BY DEF vm_switch
<1>2. FileContent' = FileContent
  BY <1>1, SameMemory, SameFiles
<1>3. \A p \in DOMAIN tables : ArenaOf(p)' = ArenaOf(p)
  BY <1>1, SameMemory, SameArena
<1>4. Space' = Space
  BY <1>1, <1>3, SpaceShows
<1>5. QED
  BY <1>1, <1>2, <1>4, SpaceShows DEF Abstract!Switch

\* vm_destroy takes one arena away and leaves files and the other arenas as they are.
LEMMA DestroyShows ==
  ASSUME IInv, vm_destroy
  PROVE  Abstract!Exit
<1>1. /\ cur_table \in DOMAIN tables /\ cur_pid = cur_table
      /\ \A id : ~id.swap_backed \/ (\A n \in DOMAIN tables[cur_table].vps : tables[cur_table].vps[n].id # id)
           => Contents(id)' = Contents(id)
  BY DestroyContents
<1>2. CanCall /\ tables' = Restrict(tables, DOMAIN tables \ {cur_pid}) /\ running' = NoPid
  BY DEF vm_destroy
<1>3. running # NoPid /\ running = cur_table
  BY <1>2 DEF IInv, ControlInv, CanCall
<1>4. tables' = [p \in DOMAIN tables \ {running} |-> tables[p]]
  BY <1>1, <1>2, <1>3 DEF Restrict
<1>5. ASSUME NEW p \in DOMAIN tables \ {running}
      PROVE  ArenaOf(p)' = ArenaOf(p)
  <2>1. ASSUME NEW m \in DOMAIN tables[p].vps, NEW id, id = tables[p].vps[m].id, id.swap_backed
        PROVE  Contents(id)' = Contents(id)
    <3>1. \A n \in DOMAIN tables[running].vps : tables[running].vps[n].id # id
      BY <1>1, <1>3, <2>1 DEF IInv, SwapInv, SwapOK
    <3>2. QED
      BY <1>1, <1>3, <3>1
  <2>2. tables'[p] = tables[p]
    BY <1>4
  <2>3. QED
    BY <2>1, <2>2, SameArena
<1>6. DOMAIN tables' = DOMAIN tables \ {running}
  BY <1>4
<1>7. Space' = [p \in DOMAIN tables \ {running} |-> Space[p]]
  BY <1>5, <1>6, SpaceShows
<1>8. FileContent' = FileContent
  BY <1>1, SameFiles
<1>9. QED
  BY <1>2, <1>3, <1>7, <1>8, SpaceShows DEF Abstract!Exit

\* At the start there are no processes and the files are as they are.
LEMMA InitShows ==
  ASSUME Init
  PROVE  Abstract!Init
<1>1. tables = <<>> /\ running = NoPid /\ peer_in_phys = <<>> /\ backing \in [BackedIds -> Value]
  BY BackingAssumption DEF Init, BackedIds
<1>2. DOMAIN tables = {}
  BY <1>1
<1>3. Space = <<>>
  BY <1>2 DEF Space
<1>4. ASSUME NEW file \in Files
      PROVE  Contents(FileId(file)) \in Value
  BY <1>1, FileIds DEF Contents, Resident
<1>5. FileContent \in [Files -> Value]
  BY <1>4 DEF FileContent
<1>6. QED
  BY <1>1, <1>3, <1>5 DEF Abstract!Init

\* Append, for functions with an interval as domain.
LEMMA AppendedFunction ==
  ASSUME NEW L \in Nat, NEW A, NEW B, NEW x,
         DOMAIN A = 1 .. L, A = [k \in DOMAIN A |-> A[k]],
         DOMAIN B = 1 .. L \cup {L + 1}, B = [k \in DOMAIN B |-> B[k]],
         \A k \in 1 .. L : B[k] = A[k], B[L + 1] = x
  PROVE  Len(A) = L /\ B = Append(A, x)
<1> DEFINE S == {B[k] : k \in 1 .. L + 1}
<1>1. 1 .. L \cup {L + 1} = 1 .. L + 1
  OBVIOUS
<1>2. x \in S /\ \A k \in 1 .. L : A[k] \in S
  BY <1>1
<1>3. B \in [1 .. L + 1 -> S]
  BY <1>1
<1> HIDE DEF S
<1>4. A \in [1 .. L -> S]
  BY <1>2
<1>5. A \in Seq(S)
  BY <1>4, SeqDef
<1>6. DOMAIN A = 1 .. Len(A) /\ Len(A) \in Nat
  BY <1>5, LenProperties
<1>7. Len(A) = L
  <2>1. 1 .. Len(A) = 1 .. L
    BY <1>6
  <2>2. ASSUME NEW m \in Nat, 1 .. m = 1 .. L
        PROVE  m = L
    <3>1. ~(m < L)
      <4>1. m < L => L \in 1 .. L /\ L \notin 1 .. m
        OBVIOUS
      <4>2. QED
        BY <2>2, <4>1
    <3>2. ~(L < m)
      <4>1. L < m => m \in 1 .. m /\ m \notin 1 .. L
        OBVIOUS
      <4>2. QED
        BY <2>2, <4>1
    <3>3. QED
      BY <3>1, <3>2
  <2>3. QED
    BY <1>6, <2>1, <2>2
<1>8. /\ Append(A, x) \in Seq(S) /\ Len(Append(A, x)) = L + 1
      /\ \A k \in 1 .. L : Append(A, x)[k] = A[k]
      /\ Append(A, x)[L + 1] = x
  BY <1>2, <1>5, <1>7, AppendProperties
<1>9. Append(A, x) \in [1 .. L + 1 -> S]
  BY <1>8, LenProperties
<1>10. \A k \in 1 .. L + 1 : B[k] = Append(A, x)[k]
  BY <1>1, <1>8
<1>11. QED
  BY <1>3, <1>7, <1>9, <1>10

\* A page that is mapped appears at the end of the arena.
LEMMA NewPageShows ==
  ASSUME IInv, CanCall, HasRoom, NEW e, NEW id, e.id = id,
         AddedPage(tables, tables', cur_table, e), running' = running,
         \A p \in DOMAIN tables : \A n \in DOMAIN tables[p].vps : \A i :
           i = tables[p].vps[n].id /\ i.swap_backed => Contents(i)' = Contents(i),
         FileContent' = FileContent, NEW page, page = Shown(id)'
  PROVE  Abstract!NewPage(page)
<1>1. running # NoPid /\ running = cur_table /\ cur_table \in DOMAIN tables
  BY DEF IInv, ControlInv, CanCall
<1>2. PICK r \in DOMAIN tables : r = running
  BY <1>1
<1>3. PICK L : L = Len(tables[r].vps)
  OBVIOUS
<1>4. /\ L \in Nat /\ DOMAIN tables[r].vps = 1 .. L
      /\ L < MAX_PAGE_NUM
  BY <1>1, <1>2, <1>3, TableTypes DEF IInv, TablesInv, HasRoom
<1>5. /\ DOMAIN tables' = DOMAIN tables
      /\ \A p \in DOMAIN tables : p # r => tables'[p] = tables[p]
      /\ DOMAIN tables'[r].vps = 1 .. L \cup {L + 1}
      /\ tables'[r].vps[L + 1] = e
      /\ \A n \in 1 .. L : tables'[r].vps[n] = tables[r].vps[n]
  BY <1>1, <1>2, <1>3, <1>4 DEF AddedPage
<1>6. ASSUME NEW p \in DOMAIN tables, p # r
      PROVE  ArenaOf(p)' = ArenaOf(p)
  BY <1>5, <1>6, SameArena
<1>7. PICK A : A = ArenaOf(r)
  OBVIOUS
<1>8. DOMAIN A = 1 .. L /\ A = [k \in DOMAIN A |-> A[k]]
  BY <1>4, <1>7, ArenaShows
<1>9. PICK B : B = ArenaOf(r)'
  OBVIOUS
<1>10. DOMAIN B = 1 .. L \cup {L + 1} /\ B = [k \in DOMAIN B |-> B[k]]
  <2>1. DOMAIN B = DOMAIN tables'[r].vps
    BY <1>9, ArenaShowsNext
  <2>2. ArenaOf(r)' = [n \in DOMAIN ArenaOf(r)' |-> ArenaOf(r)'[n]]
    BY ArenaShowsNext
  <2>3. B = [k \in DOMAIN B |-> B[k]]
    BY <1>9, <2>2, Zenon
  <2>4. QED
    BY <1>5, <2>1, <2>3
<1>11. ASSUME NEW k \in 1 .. L
       PROVE  B[k] = A[k]
  <2>1. PICK i : i = tables[r].vps[k].id
    OBVIOUS
  <2>2. i.swap_backed => Contents(i)' = Contents(i)
    BY <1>4, <2>1
  <2>3. Shown(i)' = Shown(i)
    BY <2>2, SameShown
  <2>4. A[k] = Shown(i) /\ B[k] = Shown(i)'
    BY <1>4, <1>5, <1>7, <1>9, <2>1, ArenaShows, ArenaShowsNext
  <2>5. QED
    BY <2>3, <2>4
<1>12. B[L + 1] = page
  BY <1>5, <1>9, ArenaShowsNext
<1>13. Len(A) = L /\ B = Append(A, page)
  BY <1>4, <1>8, <1>10, <1>11, <1>12, AppendedFunction
<1>14. PICK S : S = Space /\ S = [p \in DOMAIN tables |-> S[p]]
  BY SpaceShows
<1>15. S[r] = A /\ \A p \in DOMAIN tables : S[p] = ArenaOf(p)
  BY <1>7, <1>14, SpaceShows
<1>16. Space' = [p \in DOMAIN tables |-> IF p = r THEN B ELSE S[p]]
  <2>1. ASSUME NEW p \in DOMAIN tables
        PROVE  Space'[p] = IF p = r THEN B ELSE S[p]
    <3>1. Space'[p] = ArenaOf(p)' /\ S[p] = ArenaOf(p)
      BY <1>5, <1>15, SpaceShows
    <3>2. CASE p = r
      <4>1. ArenaOf(p)' = ArenaOf(r)'
        BY <3>2 DEF ArenaOf, Contents, Resident
      <4>2. QED
        BY <1>9, <3>1, <3>2, <4>1
    <3>3. CASE p # r
      BY <1>6, <3>1, <3>3
    <3>4. QED
      BY <3>2, <3>3
  <2>2. QED
    BY <1>5, <2>1, SpaceShows
<1>17. [S EXCEPT ![r] = Append(S[r], page)] = [p \in DOMAIN tables |-> IF p = r THEN B ELSE S[p]]
  BY <1>13, <1>14, <1>15
<1>18. Space' = [S EXCEPT ![r] = Append(S[r], page)]
  BY <1>16, <1>17
<1>19. S = Space
  BY <1>14
<1>20. Space' = [Space EXCEPT ![running] = Append(Space[running], page)]
  BY <1>2, <1>18, <1>19, Zenon
<1>21. Len(Space[running]) < MAX_PAGE_NUM
  BY <1>2, <1>4, <1>13, <1>15, <1>19
<1>22. QED
  BY <1>1, <1>20, <1>21 DEF Abstract!NewPage

\* The finite sets of AddressSpace are those of this module.
LEMMA SameCardinality ==
  ASSUME NEW S
  PROVE  Abstract!Cardinality(S) = Cardinality(S)
  BY DEF Abstract!Cardinality, Cardinality

\* As many pages can be private as there are swap blocks, and one less while one is free.
LEMMA RoomForOneMore ==
  ASSUME IInv, available_swap_blocks # <<>>
  PROVE  Cardinality(Abstract!PrivatePages) < SwapBlocks
<1>1. PICK h : h = Head(available_swap_blocks)
  OBVIOUS
<1>2. h \in SwapBlock /\ h \in ToSet(available_swap_blocks)
  BY <1>1, ElementsOfTail, ElementsOfSeq DEF IInv, SwapInv, SwapCountInv
<1>3. IsFiniteSet(SwapBlock \ {h}) /\ Cardinality(SwapBlock \ {h}) = SwapBlocks - 1
  <2>1. SwapBlocks \in Nat /\ SwapBlocks - 1 \in Int /\ 0 \in Int
    BY SizesAssumption
  <2>2. IsFiniteSet(SwapBlock) /\ Cardinality(SwapBlock) = IF 0 > SwapBlocks - 1 THEN 0 ELSE SwapBlocks - 1 - 0 + 1
    BY <2>1, FS_Interval DEF SwapBlock
  <2>3. ~(0 > SwapBlocks - 1)
    BY <1>2, <2>1 DEF SwapBlock
  <2>4. Cardinality(SwapBlock) = SwapBlocks
    BY <2>1, <2>2, <2>3
  <2>5. QED
    BY <1>2, <2>2, <2>4, FS_RemoveElement
<1> DEFINE P == Abstract!PrivatePages
           f == [vp \in P |-> tables[vp[1]].vps[vp[2]].id.block]
<1>4. ASSUME NEW vp \in P
      PROVE  /\ vp[1] \in DOMAIN tables /\ vp[2] \in DOMAIN tables[vp[1]].vps
             /\ vp = <<vp[1], vp[2]>>
             /\ tables[vp[1]].vps[vp[2]].id.swap_backed
             /\ tables[vp[1]].vps[vp[2]].id = SwapId(f[vp]) /\ f[vp] \in SwapBlock \ {h}
  <2>1. /\ vp \in Pid \X (1 .. MAX_PAGE_NUM) /\ vp[1] \in DOMAIN Space /\ vp[2] \in DOMAIN Space[vp[1]]
        /\ ~Space[vp[1]][vp[2]].shared
    BY DEF Abstract!PrivatePages
  <2>2. PICK p \in DOMAIN tables : p = vp[1]
    BY <2>1, SpaceShows
  <2>3. Space[p] = ArenaOf(p)
    BY SpaceShows
  <2>4. PICK n \in DOMAIN tables[p].vps : n = vp[2]
    BY <2>1, <2>2, <2>3, ArenaShows
  <2>5. PICK id : id = tables[p].vps[n].id
    OBVIOUS
  <2>6. ~Shown(id).shared
    BY <2>1, <2>2, <2>3, <2>4, <2>5, ArenaShows
  <2>7. id.swap_backed
    BY <2>6 DEF Shown
  <2>8. id \in file_id
    BY <2>5, PageIdFacts
  <2>9. id.block \in SwapBlock /\ id = SwapId(id.block)
    BY <2>7, <2>8, SwapIdOfBlock
  <2>10. id # SwapId(h)
    BY <1>2, <2>5 DEF IInv, SwapInv, SwapOK
  <2>11. f[vp] = id.block
    BY <2>2, <2>4, <2>5
  <2> HIDE DEF f, P
  <2>12. QED
    BY <2>1, <2>2, <2>4, <2>5, <2>7, <2>9, <2>10, <2>11
<1>5. \A vp, other \in P : f[vp] = f[other] => vp = other
  <2>1. SUFFICES ASSUME NEW vp \in P, NEW other \in P, f[vp] = f[other]
                 PROVE  vp = other
    OBVIOUS
  <2> HIDE DEF f, P
  <2>2. PICK b : b = f[vp]
    OBVIOUS
  <2>3. PICK p \in DOMAIN tables : p = vp[1]
    BY <1>4
  <2>4. PICK n \in DOMAIN tables[p].vps : n = vp[2]
    BY <1>4, <2>3
  <2>5. PICK r \in DOMAIN tables : r = other[1]
    BY <1>4
  <2>6. PICK m \in DOMAIN tables[r].vps : m = other[2]
    BY <1>4, <2>5
  <2>7. /\ tables[p].vps[n].id = SwapId(b) /\ tables[r].vps[m].id = SwapId(b)
        /\ tables[p].vps[n].id.swap_backed
    BY <1>4, <2>1, <2>2, <2>3, <2>4, <2>5, <2>6
  <2>8. p = r /\ n = m
    BY <2>7 DEF IInv, SwapInv, SwapOK
  <2>9. vp = <<p, n>> /\ other = <<r, m>>
    BY <1>4, <2>3, <2>4, <2>5, <2>6
  <2>10. QED
    BY <2>8, <2>9
<1>6. f \in [P -> SwapBlock \ {h}]
  BY <1>4
<1>7. f \in Injection(P, SwapBlock \ {h})
  <2> HIDE DEF f, P
  <2>1. DOMAIN f = P
    BY <1>6
  <2>2. QED
    BY <1>5, <1>6, <2>1 DEF Injection, IsInjective
<1> HIDE DEF f, P
<1>8. IsFiniteSet(P) /\ Cardinality(P) <= Cardinality(SwapBlock \ {h})
  <2>1. PICK T : T = SwapBlock \ {h}
    OBVIOUS
  <2>2. f \in Injection(P, T) /\ IsFiniteSet(T)
    BY <1>3, <1>7, <2>1
  <2>3. IsFiniteSet(P) /\ Cardinality(P) <= Cardinality(T)
    BY <2>2, FS_Injection
  <2>4. QED
    BY <2>1, <2>3
<1>9. Cardinality(P) \in Nat
  BY <1>8, FS_CardinalityType
<1>10. Cardinality(P) < SwapBlocks
  BY <1>3, <1>8, <1>9, SizesAssumption
<1>11. QED
  BY <1>10 DEF P

\* vm_map of a private page.
LEMMA MapSwapShows ==
  ASSUME IInv, ContentInv, MapSwap
  PROVE  Abstract!MapPrivate
<1>1. PICK new \in file_id :
        /\ new = SwapId(Head(available_swap_blocks)) /\ new.swap_backed
        /\ Contents(new)' = physmem[0]
        /\ \A id : id # new => Contents(id)' = Contents(id)
        /\ \A p \in DOMAIN tables : \A n \in DOMAIN tables[p].vps : tables[p].vps[n].id # new
        /\ physmem' = physmem /\ available_swap_blocks # <<>>
  BY MapSwapContents
<1>2. /\ CanCall /\ HasRoom /\ AddPage(new, 0, TRUE, FALSE) /\ running' = running
  BY <1>1 DEF MapSwap, current
<1>3. 0 \in 0 .. num_memory_pages /\ TRUE \in BOOLEAN /\ FALSE \in BOOLEAN
  BY SizesAssumption
<1>4. PICK e : e = NewEntry(new, 0, TRUE, FALSE)
  OBVIOUS
<1>5. AddedPage(tables, tables', cur_table, e)
  BY <1>2, <1>3, <1>4, AddPageTables DEF IInv
<1>6. e.id = new
  BY <1>4 DEF NewEntry
<1>7. PICK page : page = [shared |-> FALSE, value |-> Zero]
  OBVIOUS
<1>8. page = Shown(new)'
  BY <1>1, <1>7 DEF Shown, ContentInv
<1>9. FileContent' = FileContent
  BY <1>1, SameFiles
<1>10. \A p \in DOMAIN tables : \A n \in DOMAIN tables[p].vps : \A i :
         i = tables[p].vps[n].id /\ i.swap_backed => Contents(i)' = Contents(i)
  BY <1>1
<1>11. Abstract!NewPage(page)
  BY <1>2, <1>5, <1>6, <1>8, <1>9, <1>10, NewPageShows
<1>12. Abstract!PrivatePage(Zero) = page
  BY <1>7 DEF Abstract!PrivatePage
<1>13. Abstract!Cardinality(Abstract!PrivatePages) < SwapBlocks
  BY <1>1, RoomForOneMore, SameCardinality
<1>14. Abstract!NewPage(Abstract!PrivatePage(Zero))
  BY <1>11, <1>12
<1>15. QED
  BY <1>13, <1>14, Zenon DEF Abstract!MapPrivate

\* What a process finds in a page that it can read.
LEMMA ValueShown ==
  ASSUME NEW id \in BackedIds
  PROVE  Abstract!Readable(Shown(id)) /\ Abstract!ValueOf(Shown(id)) = Contents(id)
<1>1. CASE id.swap_backed
  <2>1. Shown(id) = [shared |-> FALSE, value |-> Contents(id)]
    BY <1>1 DEF Shown
  <2>2. QED
    BY <2>1 DEF Abstract!Readable, Abstract!ValueOf
<1>2. CASE ~id.swap_backed
  <2>1. PICK file \in Files : file = <<id.filename, id.block>> /\ id = FileId(file)
    BY <1>2, FileIds
  <2>2. Shown(id) = [shared |-> TRUE, file |-> file]
    BY <1>2, <2>1 DEF Shown
  <2>3. FileContent[file] = Contents(id)
    BY <2>1, FilesShow
  <2>4. QED
    BY <2>2, <2>3 DEF Abstract!Readable, Abstract!ValueOf
<1>3. QED
  BY <1>1, <1>2

\* vm_map of a file: the name is what the pages hold, from its first page to the last read.
LEMMA EndNameShows ==
  ASSUME IInv, NameInv, EndName
  PROVE  \E first, last \in 1 .. MAX_PAGE_NUM, block \in FileBlock :
           first <= last /\ Abstract!MapFile(first, last, block)
<1>1. /\ InMap /\ ~AtEnd /\ ~Denied(call.at, FALSE) /\ NamePart \in Ending
      /\ UNCHANGED memory /\ running' = running
  BY DEF EndName, current
<1>2. /\ CanCall /\ HasRoom /\ cur_table \in DOMAIN tables /\ call.op = "map"
      /\ call.at \in Nat /\ call.name \in Seq(Value \ Ending) /\ call.block \in FileBlock
      /\ Len(call.name) \in Nat /\ Len(call.name) < call.at
      /\ call.at \in DOMAIN tables[cur_table].vps /\ call.at <= MAX_PAGE_NUM
  BY <1>1, InMapFacts DEF InMap
<1>3. running # NoPid /\ running = cur_table
  BY <1>2 DEF IInv, ControlInv, CanCall
<1>4. PICK r \in DOMAIN tables : r = running /\ r = cur_table
  BY <1>2, <1>3
<1>5. PICK name \in Seq(Value \ Ending) : name = call.name
  BY <1>2
<1>6. PICK v : v = NamePart
  OBVIOUS
<1>7. PICK L \in Nat : L = Len(name)
  BY <1>2, <1>5
<1>8. PICK at \in Nat : at = call.at
  BY <1>2
<1>9. PICK block \in FileBlock : block = call.block
  BY <1>2
<1>10. PICK first \in Nat : first = at - L /\ 1 <= first /\ first <= at
  <2>1. L < at
    BY <1>2, <1>5, <1>7, <1>8
  <2>2. at - L \in Nat /\ 1 <= at - L /\ at - L <= at
    BY <2>1
  <2>3. QED
    BY <2>2
<1>11. first \in 1 .. MAX_PAGE_NUM /\ at \in 1 .. MAX_PAGE_NUM
  BY <1>2, <1>8, <1>10, SizesAssumption
\* The parts of the name, and the pages they are in.
<1>12. /\ Append(name, v) \in Seq((Value \ Ending) \cup {v}) /\ Len(Append(name, v)) = L + 1
       /\ \A k \in 1 .. L : Append(name, v)[k] = name[k] /\ name[k] \in Value \ Ending
       /\ Append(name, v)[L + 1] = v
  <2>1. PICK S : S = Value \ Ending
    OBVIOUS
  <2>2. name \in Seq(S) /\ S \subseteq S \cup {v} /\ v \in S \cup {v}
    BY <2>1
  <2>3. name \in Seq(S \cup {v})
    BY <2>2, SeqMonotonic
  <2>4. /\ Append(name, v) \in Seq(S \cup {v}) /\ Len(Append(name, v)) = L + 1
        /\ \A k \in 1 .. L : Append(name, v)[k] = name[k]
        /\ Append(name, v)[L + 1] = v
    BY <1>7, <2>2, <2>3, AppendProperties
  <2>5. \A k \in 1 .. L : name[k] \in S
    BY <1>7, <2>2, ElementsOfSeq
  <2>6. QED
    BY <2>1, <2>4, <2>5
<1>13. ASSUME NEW k \in 1 .. L + 1, NEW i, i = first + k - 1
       PROVE  /\ i \in DOMAIN tables[r].vps /\ tables[r].vps[i].id \in BackedIds
              /\ Contents(tables[r].vps[i].id) = Append(name, v)[k]
  <2>1. CASE k \in 1 .. L
    <3>1. i = at - L - 1 + k
      BY <1>10, <1>13, <2>1
    <3>2. i = PartPage(k)
      BY <1>5, <1>7, <1>8, <3>1 DEF PartPage
    <3>3. k \in 1 .. Len(call.name)
      BY <1>5, <1>7, <2>1
    <3>4. /\ PartPage(k) \in DOMAIN tables[cur_table].vps
          /\ Page(PartPage(k)).id \in BackedIds
          /\ call.name[k] = Contents(Page(PartPage(k)).id)
      BY <1>2, <3>3 DEF NameInv
    <3>5. QED
      BY <1>4, <1>5, <1>12, <2>1, <3>2, <3>4 DEF Page
  <2>2. CASE k = L + 1
    <3>1. i = at
      BY <1>10, <1>13, <2>2
    <3>2. /\ call.at \in DOMAIN tables[cur_table].vps
          /\ Page(call.at).id \in BackedIds /\ NamePart = Contents(Page(call.at).id)
      BY <1>1, NamePartContents
    <3>3. QED
      BY <1>4, <1>6, <1>8, <1>12, <2>2, <3>1, <3>2 DEF Page
  <2>3. k \in 1 .. L \/ k = L + 1
    OBVIOUS
  <2>4. QED
    BY <2>1, <2>2, <2>3
<1>14. ASSUME NEW k \in 1 .. L + 1, NEW i, i = first + k - 1
       PROVE  /\ i \in DOMAIN Space[running] /\ Abstract!Readable(Space[running][i])
              /\ Abstract!ValueOf(Space[running][i]) = Append(name, v)[k]
  <2>1. PICK id : id = tables[r].vps[i].id
    OBVIOUS
  <2>2. i \in DOMAIN tables[r].vps /\ id \in BackedIds /\ Contents(id) = Append(name, v)[k]
    BY <1>13, <1>14, <2>1
  <2>3. i \in DOMAIN ArenaOf(r) /\ ArenaOf(r)[i] = Shown(id)
    BY <2>1, <2>2, ArenaShows
  <2>4. Space[running] = ArenaOf(r)
    BY <1>4, SpaceShows
  <2>5. QED
    BY <2>2, <2>3, <2>4, ValueShown
<1>15. ASSUME NEW i \in first .. at
       PROVE  /\ i \in DOMAIN Space[running] /\ Abstract!Readable(Space[running][i])
              /\ Abstract!ValueOf(Space[running][i]) \in Ending <=> i = at
  <2>1. PICK k \in 1 .. L + 1 : i = first + k - 1
    <3>1. i - first + 1 \in 1 .. L + 1 /\ i = first + (i - first + 1) - 1
      BY <1>10
    <3>2. QED
      BY <3>1
  <2>2. /\ i \in DOMAIN Space[running] /\ Abstract!Readable(Space[running][i])
        /\ Abstract!ValueOf(Space[running][i]) = Append(name, v)[k]
    BY <1>14, <2>1
  <2>3. k \in 1 .. L => Append(name, v)[k] \notin Ending /\ i # at
    BY <1>10, <1>12, <2>1
  <2>4. k = L + 1 => Append(name, v)[k] \in Ending /\ i = at
    BY <1>1, <1>6, <1>10, <1>12, <2>1
  <2>5. k \in 1 .. L \/ k = L + 1
    OBVIOUS
  <2>6. QED
    BY <2>2, <2>3, <2>4, <2>5
<1>16. [k \in 1 .. at - first + 1 |-> Abstract!ValueOf(Space[running][first + k - 1])] = Append(name, v)
  <2>1. at - first + 1 = L + 1
    BY <1>10
  <2>2. PICK F : F = [k \in 1 .. L + 1 |-> Abstract!ValueOf(Space[running][first + k - 1])]
    OBVIOUS
  <2>3. \A k \in 1 .. L + 1 : F[k] = Append(name, v)[k]
    BY <1>14, <2>2
  <2>4. Append(name, v) = [k \in 1 .. L + 1 |-> Append(name, v)[k]]
    BY <1>12, LenProperties
  <2>5. F = Append(name, v)
    BY <2>2, <2>3, <2>4
  <2>6. QED
    BY <2>1, <2>2, <2>5
\* The page that shows the file of that name.
<1>17. PICK file : file = <<Append(name, v), block>>
  OBVIOUS
<1>18. PICK id \in file_id : id = FileId(file) /\ id.swap_backed = FALSE
                             /\ id.filename = Append(name, v) /\ id.block = block
  <2>1. L + 1 <= MAX_PAGE_NUM
    BY <1>10, <1>11, SizesAssumption
  <2>2. v \in Ending
    BY <1>1, <1>6
  <2>3. Append(name, v) \in Name
    BY <1>7, <2>1, <2>2, NameRead
  <2>4. FileId(file) \in file_id
    BY <1>17, <2>3 DEF file_id
  <2>5. QED
    BY <1>17, <2>4 DEF FileId
<1>19. PICK page : page = Abstract!FilePage(file)
  OBVIOUS
<1>20. Abstract!NewPage(page)
  <2>1. PICK ppage : ppage = IF Resident(id) THEN peer_in_phys[id] ELSE num_memory_pages
    OBVIOUS
  <2>2. PICK a : a = ReadableAtOnce(id)
    OBVIOUS
  <2>3. PICK w : w = WritableAtOnce(id)
    OBVIOUS
  <2>4. AddPage(id, ppage, a, w) /\ running' = running
    BY <1>5, <1>6, <1>9, <1>17, <1>18, <2>1, <2>2, <2>3 DEF EndName, current
  <2>5. ppage \in 0 .. num_memory_pages
    <3>1. peer_in_phys \in [DOMAIN peer_in_phys -> PhysicalPage]
      BY DEF IInv, MemoryInv, MemoryTypes
    <3>2. QED
      BY <2>1, <3>1, SizesAssumption DEF PhysicalPage, Resident
  <2>6. a \in BOOLEAN /\ w \in BOOLEAN
    <3>1. /\ physical_table \in [PhysicalPage -> physical_page]
          /\ peer_in_phys \in [DOMAIN peer_in_phys -> PhysicalPage]
      BY DEF IInv, MemoryInv, MemoryTypes
    <3>2. QED
      BY <2>2, <2>3, <3>1 DEF ReadableAtOnce, WritableAtOnce, Resident
  <2>7. PICK e : e = NewEntry(id, ppage, a, w)
    OBVIOUS
  <2>8. e.id = id
    BY <2>7 DEF NewEntry
  <2>9. AddedPage(tables, tables', cur_table, e)
    BY <1>2, <2>4, <2>5, <2>6, <2>7, AddPageTables DEF IInv
  <2>10. page = Shown(id)'
    BY <1>17, <1>18, <1>19 DEF Shown, Abstract!FilePage
  <2>11. FileContent' = FileContent
    BY <1>1, SameMemory, SameFiles
  <2>12. \A p \in DOMAIN tables : \A n \in DOMAIN tables[p].vps : \A i :
           i = tables[p].vps[n].id /\ i.swap_backed => Contents(i)' = Contents(i)
    BY <1>1, SameMemory
  <2>13. QED
    BY <1>2, <2>4, <2>8, <2>9, <2>10, <2>11, <2>12, NewPageShows
<1>21. Abstract!MapFile(first, at, block)
  <2>1. first .. at \subseteq DOMAIN Space[running]
    BY <1>15
  <2>2. \A i \in first .. at : /\ Abstract!Readable(Space[running][i])
                               /\ Abstract!ValueOf(Space[running][i]) \in Ending <=> i = at
    BY <1>15
  <2>3. <<[k \in 1 .. at - first + 1 |-> Abstract!ValueOf(Space[running][first + k - 1])], block>> = file
    BY <1>16, <1>17
  <2>4. Abstract!NewPage(Abstract!FilePage(
          <<[k \in 1 .. at - first + 1 |-> Abstract!ValueOf(Space[running][first + k - 1])], block>>))
    BY <1>19, <1>20, <2>3
  <2>5. QED
    BY <1>3, <2>1, <2>2, <2>4, Zenon DEF Abstract!MapFile
<1>22. QED
  BY <1>10, <1>11, <1>21

\* What a step of the pager is for the processes.
Implements == [Abstract!Next]_(Abstract!vars)

\* Faults, loads and the reading of a name do not show.
LEMMA InvisibleSteps ==
  ASSUME IInv, UNCHANGED <<Space, FileContent, running>>
  PROVE  Implements
  BY DEF Implements, Abstract!vars

\* Steps that change nothing but the call in progress.
LEMMA CallUnseen ==
  ASSUME IInv, UNCHANGED <<memory, tables, current>>
  PROVE  Implements
<1>1. ContentsKept /\ running' = running /\ tables' = tables
  BY SameMemory DEF current
<1>2. SameShape(tables, tables')
  BY <1>1 DEF SameShape
<1>3. QED
  BY <1>1, <1>2, Unseen, InvisibleSteps

\* Every step of the pager is a step of AddressSpace, or does not show.
LEMMA NextShows ==
  ASSUME IInv, ContentInv, Next
  PROVE  Implements
<1>1. ASSUME NEW n \in 1 .. MAX_PAGE_NUM, NEW write \in BOOLEAN, Fault(n, write) PROVE Implements
  <2>1. /\ CanCall /\ n \in DOMAIN tables[cur_table].vps /\ Denied(n, write)
        /\ vm_fault(n, write) \/ FaultFails(n, write)
        /\ UNCHANGED <<peer_map, swapVars, current>> /\ running' = running
    BY <1>1 DEF Fault, current
  <2>2. ContentsKept /\ SameShape(tables, tables')
    BY <2>1, SomeFault
  <2>3. QED
    BY <2>1, <2>2, Unseen, InvisibleSteps
<1>2. ASSUME NEW n \in 1 .. MAX_PAGE_NUM, Load(n) PROVE Implements
  BY <1>2, CallUnseen DEF Load
<1>3. ASSUME NEW n \in 1 .. MAX_PAGE_NUM, NEW value \in Value, Store(n, value) PROVE Implements
  BY <1>3, StoreShows, Zenon DEF Implements, Abstract!Next
<1>4. ASSUME NEW n \in 1 .. MAX_PAGE_NUM, NEW block \in FileBlock, MapFile(n, block) PROVE Implements
  BY <1>4, CallUnseen DEF MapFile
<1>5. CASE MapSwap
  BY <1>5, MapSwapShows, Zenon DEF Implements, Abstract!Next
<1>6. CASE NameFault
  <2>1. ContentsKept /\ SameShape(tables, tables')
    BY <1>6, NameFaultContents
  <2>2. running' = running
    BY <1>6 DEF NameFault, current
  <2>3. QED
    BY <2>1, <2>2, Unseen, InvisibleSteps
<1>7. CASE ReadName
  BY <1>7, CallUnseen DEF ReadName
<1>8. CASE NameRefused
  BY <1>8, CallUnseen DEF NameRefused
<1>9. CASE EndName
  <2>1. \E first, last \in 1 .. MAX_PAGE_NUM, block \in FileBlock :
          first <= last /\ Abstract!MapFile(first, last, block)
    BY <1>9, EndNameShows DEF ContentInv
  <2>2. QED
    BY <2>1, Zenon DEF Implements, Abstract!Next
<1>10. ASSUME NEW parent \in Pid \cup {Shell}, NEW child \in Pid, vm_create(parent, child) PROVE Implements
  BY <1>10, CreateShows, Zenon DEF Implements, Abstract!Next
<1>11. ASSUME NEW pid \in Pid, vm_switch(pid) PROVE Implements
  BY <1>11, SwitchShows, Zenon DEF Implements, Abstract!Next
<1>12. CASE vm_destroy
  BY <1>12, DestroyShows, Zenon DEF Implements, Abstract!Next
<1>13. QED
  BY <1>1, <1>2, <1>3, <1>4, <1>5, <1>6, <1>7, <1>8, <1>9, <1>10, <1>11, <1>12 DEF Next

\* A step that changes nothing does not show.
LEMMA StutterShows ==
  ASSUME IInv, UNCHANGED vars
  PROVE  Implements
  BY CallUnseen DEF vars

\* The processes see the arenas that AddressSpace promises: eviction, write-back, reading in
\* and copying the page of zeroes never change what a page holds (my_vm_pager.cpp).
THEOREM PagerImplementsAddressSpace == Spec => ImplementsAddressSpace
<1>1. Init => Abstract!Init
  BY InitShows
<1>2. IInv /\ ContentInv /\ [Next]_vars => [Abstract!Next]_(Abstract!vars)
  BY NextShows, StutterShows DEF Implements
<1>3. QED
  BY <1>1, <1>2, PagerInvariant, ContentsHold, PTL DEF Spec, ImplementsAddressSpace, Abstract!Spec

=============================================================================
