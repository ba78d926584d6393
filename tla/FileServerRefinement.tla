------------------------- MODULE FileServerRefinement -------------------------
(***************************************************************************)
(* Proof that the file server implements FileSystem: its requests take     *)
(* effect at once on a tree of files, whatever their handlers' steps and   *)
(* the server's crashes are interleaved with.                              *)
(*                                                                         *)
(* The tree is what TreeOf reads from the disk, and a request takes effect *)
(* in one disk_writeblock: the one that links the file that create makes,  *)
(* unlinks the one that delete removes, or makes the data that write       *)
(* stores part of its file.  No other write changes the tree.  That the    *)
(* request is allowed then follows from what its handler has checked,      *)
(* which others have not changed since: ServedInv, beside the invariant    *)
(* IInv of FileServerProofs.  The tree is changed at the one path that     *)
(* leads to the file (OnePath), and nowhere else, because what one handler *)
(* writes is apart from the inodes of other files (OtherNodes).            *)
(***************************************************************************)
EXTENDS FileServerProofs

-----------------------------------------------------------------------------
(* What the handlers have checked *)

\* User u may pass path q: it leads to a directory of u.
Passable(d, q, u) ==
  \E i \in TreeInodes(d) :
    Resolve(d, q) = {i} /\ TypeAt(d, i) = "d" /\ ReadInode(d, i).owner = u

\* The user of r may pass the first m directories of its path.
Passes(d, r, m) == \A n \in 1 .. m : Passable(d, SubSeq(Names(r), 1, n), r.user)

\* How many directories of its path a handler at p has found to be its user's.
Passed(p, r, L) ==
  CASE p = "look" -> L.depth
    [] p \in {"step", "target"} -> L.depth - 1
    [] p \in {"create", "delete"} \cup Reading \cup Writing -> Len(Names(r)) - 1
    [] p \in {"alloc", "new_inode", "new_entry", "grow", "child", "clear", "shrink"} -> Len(Names(r))
    [] OTHER -> 0

\* The values a write may leave in a block.
StoredBy(r) == IF r.data = Junk THEN Value \cup {Junk} ELSE {r.data}

\* What a handler has checked of its request, and where its client's data is.
Checked(d, p, r, L, o) ==
  /\ p \notin Decided => o = "none"
  /\ Passes(d, r, Passed(p, r, L))
  /\ p \in {"child", "clear", "shrink"} => EntryIn(d, EntrySlot(L)).name = Last(r.path)
  /\ p \in {"clear", "shrink"} => L.old.owner = r.user
  /\ p \in {"read_data", "append", "write_data", "write_inode"} =>
       L.inode.type = "f" /\ L.inode.owner = r.user
  /\ p = "append" => r.block = Len(L.inode.blocks)
  /\ p \in {"write_data", "write_inode"} =>
       /\ r.block < Len(L.inode.blocks) /\ L.inode.blocks[r.block + 1] = L.block
       /\ L.grown => r.block + 1 = Len(L.inode.blocks)
  /\ p = "write_inode" => \E v \in StoredBy(r) : d[L.block] = FileData(v)

\* The root alone has no owner; every file is one that requests speak of.
OwnersKnown(d) ==
  /\ TypeAt(d, 0) = "d"
  /\ \A i \in TreeInodes(d) : ReadInode(d, i).owner = NoOwner <=> i = 0
PathsKnown(d) ==
  \A i \in TreeInodes(d) \ {0} : \E path \in Path : Resolve(d, path) = {i}

ServedInv ==
  /\ OwnersKnown(disk) /\ PathsKnown(disk)
  /\ \A h \in Handler : Checked(disk, pc[h], req[h], loc[h], outcome[h])

-----------------------------------------------------------------------------
(* Paths and the inodes they lead to *)

\* Requests speak of the prefixes of their paths.
LEMMA PathFacts ==
  /\ \A q \in Path : q \in Seq(Name) /\ q # <<>> /\ Len(q) \in Nat \ {0}
  /\ \A r \in Request :
       /\ r.path \in Path
       /\ \A n \in 1 .. Len(r.path) : SubSeq(r.path, 1, n) \in Path
<1>1. ASSUME NEW r \in Request
      PROVE  /\ r.path \in Seq(Name) /\ r.path # <<>> /\ Len(r.path) \in Nat \ {0}
             /\ SubSeq(r.path, 1, Len(r.path)) = r.path
  <2>1. r.path \in Seq(Name) /\ r.path # <<>>
    BY RequestAssumption
  <2>2. PICK p \in Seq(Name) : p = r.path
    BY <2>1
  <2>3. Len(p) \in Nat \ {0}
    BY <2>1, <2>2
  <2>4. SubSeq(p, 1, Len(p)) = p
    BY WholePath
  <2>5. QED
    BY <2>1, <2>2, <2>3, <2>4
<1>2. ASSUME NEW q \in Path
      PROVE  q \in Seq(Name) /\ q # <<>> /\ Len(q) \in Nat \ {0}
  <2>1. PICK r \in Request : q \in {SubSeq(r.path, 1, n) : n \in 1 .. Len(r.path)}
    BY DEF Path
  <2>2. PICK n \in 1 .. Len(r.path) : q = SubSeq(r.path, 1, n)
    BY <2>1
  <2>3. PICK p \in Seq(Name) : p = r.path
    BY <1>1
  <2>4. n \in 1 .. Len(p) /\ q = SubSeq(p, 1, n)
    BY <2>2, <2>3
  <2>5. QED
    BY <2>4
<1>3. ASSUME NEW r \in Request, NEW n \in 1 .. Len(r.path)
      PROVE  SubSeq(r.path, 1, n) \in Path
  BY DEF Path
<1>4. ASSUME NEW r \in Request
      PROVE  r.path \in Path
  <2>1. PICK n : n = Len(r.path)
    OBVIOUS
  <2>2. n \in 1 .. Len(r.path)
    BY <1>1, <2>1
  <2>3. SubSeq(r.path, 1, n) \in Path
    BY <1>3, <2>2
  <2>4. QED
    BY <1>1, <2>1, <2>3
<1>5. QED
  BY <1>2, <1>3, <1>4

\* The last name of a path.
LEMMA LastName ==
  ASSUME NEW d \in [Block -> Content], NEW q \in Seq(Name), q # <<>>
  PROVE  /\ Len(q) \in Nat \ {0} /\ Front(q) \in Seq(Name) /\ Len(Front(q)) = Len(q) - 1
         /\ Front(q) = SubSeq(q, 1, Len(q) - 1)
         /\ Last(q) = q[Len(q)] /\ Last(q) \in Name
         /\ Resolve(d, q) = StepOf(d, Resolve(d, Front(q)), Last(q))
<1>1. Len(q) \in Nat \ {0}
  OBVIOUS
<1>2. Front(q) = SubSeq(q, 1, Len(q) - 1) /\ Last(q) = q[Len(q)]
  BY DEF Front, Last
<1>3. Front(q) \in Seq(Name) /\ Len(Front(q)) = Len(q) - 1
  <2>1. ASSUME NEW n \in Nat, n = Len(q) - 1
        PROVE  SubSeq(q, 1, n) \in Seq(Name) /\ Len(SubSeq(q, 1, n)) = n
    BY <1>1, <2>1
  <2>2. Len(q) - 1 \in Nat
    BY <1>1
  <2>3. QED
    BY <1>2, <2>1, <2>2, Zenon
<1>4. Last(q) \in Name
  BY <1>1, <1>2
<1>5. PICK n : n = Len(q)
  OBVIOUS
<1>6. n \in 1 .. Len(q) /\ SubSeq(q, 1, n) = q
  BY <1>1, <1>5, WholePath
<1>7. Resolve(d, SubSeq(q, 1, n)) = StepOf(d, Resolve(d, SubSeq(q, 1, n - 1)), q[n])
  BY <1>6, ResolveStep
<1>8. Resolve(d, q) = StepOf(d, Resolve(d, Front(q)), Last(q))
  <2>1. SubSeq(q, 1, n - 1) = Front(q) /\ q[n] = Last(q)
    BY <1>2, <1>5
  <2>2. QED
    BY <1>6, <1>7, <2>1
<1>9. QED
  BY <1>1, <1>2, <1>3, <1>4, <1>8

\* An inode is named once in the tree.
LEMMA LinkedOnce ==
  ASSUME NEW d \in [Block -> Content], InOrder(d), NEW b \in TreeInodes(d), NEW a \in TreeInodes(d),
         NEW x, NEW y, NEW c, Linked(d, b, x, c), Linked(d, a, y, c)
  PROVE  b = a /\ x = y /\ c # 0 /\ c \in TreeInodes(d)
<1>1. PICK s \in Slots(d, b) : EntryIn(d, s).name = x /\ EntryIn(d, s).inode_block = c
  BY DEF Linked
<1>2. PICK t \in Slots(d, a) : EntryIn(d, t).name = y /\ EntryIn(d, t).inode_block = c
  BY DEF Linked
<1>3. b = a /\ s = t
  BY <1>1, <1>2 DEF InOrder
<1>4. b \in Block
  BY TreeClosed
<1>5. c # 0
  BY <1>1, <1>4, SlotFacts
<1>6. c \in Children(d, b)
  BY <1>1, <1>4, EntriesBySlots
<1>7. c \in TreeInodes(d)
  BY <1>6, TreeClosed
<1>8. QED
  BY <1>1, <1>2, <1>3, <1>5, <1>7

\* Where the last step of a path comes from.
LEMMA StepBack ==
  ASSUME NEW d \in [Block -> Content], InOrder(d), NEW q \in Seq(Name), NEW n \in 1 .. Len(q),
         NEW x, x \in Resolve(d, SubSeq(q, 1, n))
  PROVE  /\ \E b \in TreeInodes(d) : Resolve(d, SubSeq(q, 1, n - 1)) = {b} /\ Linked(d, b, q[n], x)
         /\ x # 0
<1>1. n - 1 \in 0 .. Len(q)
  OBVIOUS
<1>2. PICK S : S = Resolve(d, SubSeq(q, 1, n - 1))
  OBVIOUS
<1>3. x \in StepOf(d, S, q[n])
  BY <1>2, ResolveStep
<1>4. PICK b \in S : Linked(d, b, q[n], x)
  BY <1>3 DEF StepOf
<1>5. S \subseteq TreeInodes(d) /\ \A y, z \in S : y = z
  BY <1>1, <1>2, ResolveFacts
<1>6. b \in TreeInodes(d) /\ S = {b}
  BY <1>5
<1>7. x # 0
  BY <1>4, <1>6, LinkedOnce
<1>8. QED
  BY <1>2, <1>4, <1>6, <1>7

\* One path alone leads to an inode.
LEMMA OnePath ==
  ASSUME NEW d \in [Block -> Content], InOrder(d), NEW p \in Seq(Name), NEW q \in Seq(Name),
         NEW x, x \in Resolve(d, p), x \in Resolve(d, q)
  PROVE  p = q
<1> DEFINE R(s, n) == Resolve(d, SubSeq(s, 1, n))
           P == {n \in 0 .. Len(p) : \A m \in 0 .. Len(q) :
                   R(p, n) \cap R(q, m) # {} => m = n /\ \A k \in 1 .. n : p[k] = q[k]}
<1>1. Len(p) \in Nat /\ Len(q) \in Nat
  OBVIOUS
<1>2. R(p, 0) = {0} /\ R(q, 0) = {0}
  BY ResolveStep
<1>3. ASSUME NEW n \in 1 .. Len(p), NEW y \in R(p, n)
      PROVE  y # 0 /\ \E b \in TreeInodes(d) : R(p, n - 1) = {b} /\ Linked(d, b, p[n], y)
  <2>1. y \in Resolve(d, SubSeq(p, 1, n))
    BY <1>3
  <2>2. /\ \E b \in TreeInodes(d) : Resolve(d, SubSeq(p, 1, n - 1)) = {b} /\ Linked(d, b, p[n], y)
        /\ y # 0
    BY <2>1, StepBack
  <2>3. QED
    BY <2>2
<1>4. ASSUME NEW m \in 1 .. Len(q), NEW y \in R(q, m)
      PROVE  y # 0 /\ \E b \in TreeInodes(d) : R(q, m - 1) = {b} /\ Linked(d, b, q[m], y)
  <2>1. y \in Resolve(d, SubSeq(q, 1, m))
    BY <1>4
  <2>2. /\ \E b \in TreeInodes(d) : Resolve(d, SubSeq(q, 1, m - 1)) = {b} /\ Linked(d, b, q[m], y)
        /\ y # 0
    BY <2>1, StepBack
  <2>3. QED
    BY <2>2
<1> HIDE DEF R
<1>5. 0 \in P
  <2>1. SUFFICES ASSUME NEW m \in 0 .. Len(q), R(p, 0) \cap R(q, m) # {} PROVE m = 0
    BY <1>1
  <2>2. 0 \in R(q, m)
    BY <1>2, <2>1
  <2>3. QED
    BY <1>1, <1>4, <2>2
<1>6. ASSUME NEW n \in 1 .. Len(p), n - 1 \in P
      PROVE  n \in P
  <2>1. n \in 0 .. Len(p) /\ n - 1 \in Nat /\ n \in Nat
    BY <1>1
  <2>2. SUFFICES ASSUME NEW m \in 0 .. Len(q), NEW y \in R(p, n) \cap R(q, m)
                 PROVE  m = n /\ \A k \in 1 .. n : p[k] = q[k]
    BY <2>1
  <2>3. PICK b \in TreeInodes(d) : R(p, n - 1) = {b} /\ Linked(d, b, p[n], y)
    BY <1>3, <2>2
  <2>4. y # 0
    BY <1>3, <2>2
  <2>5. m \in 1 .. Len(q) /\ m - 1 \in 0 .. Len(q)
    BY <1>1, <1>2, <2>2, <2>4
  <2>6. PICK a \in TreeInodes(d) : R(q, m - 1) = {a} /\ Linked(d, a, q[m], y)
    BY <1>4, <2>2, <2>5
  <2>7. b = a /\ p[n] = q[m]
    BY <2>3, <2>6, LinkedOnce
  <2>8. R(p, n - 1) \cap R(q, m - 1) # {}
    BY <2>3, <2>6, <2>7
  <2>9. m - 1 = n - 1 /\ \A k \in 1 .. n - 1 : p[k] = q[k]
    BY <1>6, <2>5, <2>8
  <2>10. m = n
    BY <2>1, <2>5, <2>9
  <2>11. QED
    BY <2>1, <2>7, <2>9, <2>10
<1> HIDE DEF P
<1>7. 0 .. Len(p) \subseteq P
  BY <1>1, <1>5, <1>6, UpTo
<1>8. Len(p) \in P /\ Len(q) \in 0 .. Len(q)
  BY <1>1, <1>7
<1>9. x \in R(p, Len(p)) \cap R(q, Len(q))
  BY WholePath DEF R
<1>10. Len(q) = Len(p) /\ \A k \in 1 .. Len(p) : p[k] = q[k]
  BY <1>8, <1>9 DEF P
<1>11. QED
  BY <1>10

-----------------------------------------------------------------------------
(* The tree of files, by inodes *)

\* What a client sees of an inode.
LEMMA NodeFacts ==
  ASSUME NEW d \in [Block -> Content], InOrder(d), NEW i \in TreeInodes(d)
  PROVE  /\ i \in Block /\ TypeAt(d, i) \in {"f", "d"}
         /\ NodeIn(d, i).type = TypeAt(d, i) /\ NodeIn(d, i).owner = ReadInode(d, i).owner
         /\ TypeAt(d, i) = "d" => NodeIn(d, i).data = <<>>
         /\ TypeAt(d, i) = "f" =>
              NodeIn(d, i).data = [k \in 1 .. Len(ReadInode(d, i).blocks) |-> ReadValue(d, ReadInode(d, i).blocks[k])]
         /\ NodeIn(d, i) = [type |-> NodeIn(d, i).type, owner |-> NodeIn(d, i).owner, data |-> NodeIn(d, i).data]
         /\ NodeIn(d, i) # Absent
<1>1. i \in Block
  BY TreeClosed
<1>2. TypeAt(d, i) \in {"f", "d"}
  BY DEF InOrder
<1>3. NodeIn(d, i).type = TypeAt(d, i) /\ NodeIn(d, i).owner = ReadInode(d, i).owner
  BY DEF NodeIn, TypeAt
<1>4. TypeAt(d, i) = "d" => NodeIn(d, i).data = <<>>
  BY DEF NodeIn, TypeAt
<1>5. TypeAt(d, i) = "f" =>
        NodeIn(d, i).data = [k \in 1 .. Len(ReadInode(d, i).blocks) |-> ReadValue(d, ReadInode(d, i).blocks[k])]
  BY DEF NodeIn, TypeAt
<1>6. NodeIn(d, i) = [type |-> NodeIn(d, i).type, owner |-> NodeIn(d, i).owner, data |-> NodeIn(d, i).data]
  BY DEF NodeIn
<1>7. NodeIn(d, i) # Absent
  <2>1. Absent.type = "absent"
    BY DEF Absent
  <2>2. QED
    BY <1>2, <1>3, <2>1
<1>8. QED
  BY <1>1, <1>2, <1>3, <1>4, <1>5, <1>6, <1>7

\* A path that requests speak of leads to one inode, not the root, or nowhere.
LEMMA PathLeads ==
  ASSUME NEW d \in [Block -> Content], InOrder(d), NEW q \in Path
  PROVE  q \in Seq(Name) /\ (Resolve(d, q) = {} \/ \E i \in TreeInodes(d) \ {0} : Resolve(d, q) = {i})
<1>1. q \in Seq(Name) /\ Len(q) \in Nat \ {0}
  BY PathFacts
<1>2. PICK n : n = Len(q)
  OBVIOUS
<1>3. n \in 1 .. Len(q) /\ n \in 0 .. Len(q) /\ SubSeq(q, 1, n) = q
  BY <1>1, <1>2, WholePath
<1>4. Resolve(d, SubSeq(q, 1, n)) \subseteq TreeInodes(d) /\ \A x, y \in Resolve(d, SubSeq(q, 1, n)) : x = y
  BY <1>1, <1>3, ResolveFacts
<1>5. ASSUME NEW x \in Resolve(d, SubSeq(q, 1, n))
      PROVE  x # 0
  BY <1>1, <1>3, StepBack
<1>6. PICK S : S = Resolve(d, q)
  OBVIOUS
<1>7. S \subseteq TreeInodes(d) \ {0} /\ \A x, y \in S : x = y
  BY <1>3, <1>4, <1>5, <1>6
<1>8. S = {} \/ \E i \in TreeInodes(d) \ {0} : S = {i}
  BY <1>7
<1>9. QED
  BY <1>1, <1>6, <1>8

\* The node at a path is that of the inode it leads to.
LEMMA TreeAt ==
  ASSUME NEW d \in [Block -> Content], InOrder(d), NEW q \in Path
  PROVE  /\ Resolve(d, q) = {} => TreeOf(d)[q] = Absent
         /\ \A i : Resolve(d, q) = {i} => TreeOf(d)[q] = NodeIn(d, i) /\ TreeOf(d)[q] # Absent
<1>1. TreeOf(d)[q] = IF Resolve(d, q) = {} THEN Absent
                     ELSE CHOOSE node \in {NodeIn(d, b) : b \in Resolve(d, q)} : TRUE
  BY DEF TreeOf
<1>2. ASSUME NEW i, Resolve(d, q) = {i}
      PROVE  TreeOf(d)[q] = NodeIn(d, i) /\ TreeOf(d)[q] # Absent
  <2>1. i \in TreeInodes(d)
    BY <1>2, PathLeads
  <2>2. {NodeIn(d, b) : b \in Resolve(d, q)} = {NodeIn(d, i)}
    BY <1>2
  <2>3. Resolve(d, q) # {}
    BY <1>2
  <2>4. PICK N : N = NodeIn(d, i)
    OBVIOUS
  <2>5. TreeOf(d)[q] = CHOOSE node \in {N} : TRUE
    <3>1. TreeOf(d)[q] = CHOOSE node \in {NodeIn(d, b) : b \in Resolve(d, q)} : TRUE
      BY <1>1, <2>3
    <3>2. {NodeIn(d, b) : b \in Resolve(d, q)} = {N}
      BY <2>2, <2>4
    <3>3. QED
      BY <3>1, <3>2, Zenon
  <2>6. TreeOf(d)[q] = N
    BY <2>5
  <2>7. QED
    <3>1. NodeIn(d, i) # Absent
      BY <2>1, NodeFacts
    <3>2. QED
      BY <2>4, <2>6, <3>1
<1>3. QED
  BY <1>1, <1>2

\* Trees that differ in the inodes C alone.
LEMMA ApartTrees ==
  ASSUME NEW d \in [Block -> Content], NEW e \in [Block -> Content], NEW C, Apart(d, e, C)
  PROVE  TreeInodes(e) \subseteq TreeInodes(d) \cup C /\ TreeInodes(d) \ C \subseteq TreeInodes(e)
<1>1. PICK S : S = TreeInodes(d) \cup C
  OBVIOUS
<1>2. 0 \in S
  BY <1>1, TreeClosed
<1>3. ASSUME NEW b \in S \cap Block, NEW c \in Children(e, b)
      PROVE  c \in S
  <2>1. PICK s \in Slots(e, b) : EntryIn(e, s).inode_block = c
    BY <1>3, EntriesBySlots
  <2>2. b \notin C
    BY <2>1 DEF Apart
  <2>3. b \in TreeInodes(d) \ C
    BY <1>1, <2>2
  <2>4. EntryIn(e, s).name \in Name /\ c \in Block
    BY <2>1, SlotFacts
  <2>5. PICK x \in Name : x = EntryIn(e, s).name
    BY <2>4
  <2>6. Linked(e, b, x, c)
    BY <2>1, <2>5 DEF Linked
  <2>7. CASE c \in C
    BY <1>1, <2>7
  <2>8. CASE c \notin C
    <3>1. Linked(d, b, x, c)
      BY <2>3, <2>4, <2>6, <2>8 DEF Apart
    <3>2. c \in Children(d, b)
      BY <3>1, EntriesBySlots DEF Linked
    <3>3. QED
      BY <1>1, <2>3, <3>2, TreeClosed
  <2>9. QED
    BY <2>7, <2>8
<1>4. TreeInodes(e) \subseteq S
  BY <1>2, <1>3, TreeLeast
<1>5. QED
  BY <1>1, <1>4 DEF Apart

\* Paths lead to the same inodes in them, those of C apart.
LEMMA ApartPaths ==
  ASSUME NEW d \in [Block -> Content], NEW e \in [Block -> Content], NEW C, Apart(d, e, C),
         InOrder(d), NEW q \in Path
  PROVE  Resolve(d, q) \ C = Resolve(e, q) \ C
<1>1. q \in Seq(Name) /\ Len(q) \in Nat \ {0}
  BY PathFacts
<1>2. PICK n : n = Len(q)
  OBVIOUS
<1>3. n \in 0 .. Len(q) /\ SubSeq(q, 1, n) = q
  BY <1>1, <1>2, WholePath
<1>4. Resolve(d, SubSeq(q, 1, n)) \ C = Resolve(e, SubSeq(q, 1, n)) \ C
  BY <1>1, <1>3, ResolveApart
<1>5. QED
  BY <1>3, <1>4

\* So do files that are neither among C nor rewritten.
LEMMA SameNode ==
  ASSUME NEW d \in [Block -> Content], NEW e \in [Block -> Content], InOrder(d), InOrder(e),
         NEW C, Apart(d, e, C), NEW q \in Path,
         Resolve(d, q) \cap C = {}, Resolve(e, q) \cap C = {},
         \A i \in TreeInodes(d) \ C : i \in Resolve(d, q) => NodeIn(e, i) = NodeIn(d, i)
  PROVE  TreeOf(e)[q] = TreeOf(d)[q]
<1>1. Resolve(d, q) \ C = Resolve(e, q) \ C
  BY ApartPaths
<1>2. Resolve(e, q) = Resolve(d, q)
  BY <1>1
<1>3. CASE Resolve(d, q) = {}
  BY <1>2, <1>3, TreeAt
<1>4. CASE \E i \in TreeInodes(d) \ {0} : Resolve(d, q) = {i}
  <2>1. PICK i \in TreeInodes(d) : Resolve(d, q) = {i}
    BY <1>4
  <2>2. i \in Resolve(d, q) /\ i \notin C
    BY <2>1
  <2>3. NodeIn(e, i) = NodeIn(d, i)
    BY <2>2
  <2>4. Resolve(e, q) = {i}
    BY <1>2, <2>1
  <2>5. TreeOf(d)[q] = NodeIn(d, i)
    BY <2>1, TreeAt
  <2>6. TreeOf(e)[q] = NodeIn(e, i)
    BY <2>4, TreeAt
  <2>7. QED
    BY <2>3, <2>5, <2>6
<1>5. QED
  BY <1>3, <1>4, PathLeads

\* Nothing changes in the tree when no file does.
LEMMA TreeStays ==
  ASSUME NEW d \in [Block -> Content], NEW e \in [Block -> Content], InOrder(d), InOrder(e),
         Apart(d, e, {}), \A i \in TreeInodes(d) : NodeIn(e, i) = NodeIn(d, i)
  PROVE  TreeOf(e) = TreeOf(d)
<1>1. ASSUME NEW q \in Path
      PROVE  TreeOf(e)[q] = TreeOf(d)[q]
  <2>1. PICK C : C = {}
    OBVIOUS
  <2>2. /\ Apart(d, e, C) /\ Resolve(d, q) \cap C = {} /\ Resolve(e, q) \cap C = {}
        /\ \A i \in TreeInodes(d) \ C : i \in Resolve(d, q) => NodeIn(e, i) = NodeIn(d, i)
    BY <2>1
  <2>3. QED
    BY <2>2, SameNode
<1>2. QED
  BY <1>1 DEF TreeOf

\* A function that differs at one point.
LEMMA OneChanged ==
  ASSUME NEW d, NEW e, NEW q \in Path, NEW N, TreeOf(e)[q] = N,
         \A p \in Path \ {q} : TreeOf(e)[p] = TreeOf(d)[p]
  PROVE  TreeOf(e) = [TreeOf(d) EXCEPT ![q] = N]
<1>1. PICK T : T = TreeOf(d)
  OBVIOUS
<1>2. PICK U : U = TreeOf(e)
  OBVIOUS
<1>3. T = [p \in Path |-> T[p]] /\ U = [p \in Path |-> U[p]]
  BY <1>1, <1>2 DEF TreeOf
<1>4. U[q] = N /\ \A p \in Path \ {q} : U[p] = T[p]
  BY <1>1, <1>2
<1>5. U = [T EXCEPT ![q] = N]
  BY <1>3, <1>4
<1>6. QED
  BY <1>1, <1>2, <1>5

\* One file is rewritten.
LEMMA TreeRewritten ==
  ASSUME NEW d \in [Block -> Content], NEW e \in [Block -> Content], InOrder(d), InOrder(e),
         Apart(d, e, {}), NEW t, \A i \in TreeInodes(d) : i # t => NodeIn(e, i) = NodeIn(d, i),
         NEW q \in Path, Resolve(d, q) = {t}
  PROVE  TreeOf(e) = [TreeOf(d) EXCEPT ![q] = NodeIn(e, t)]
<1>1. PICK C : C = {}
  OBVIOUS
<1>2. Apart(d, e, C)
  BY <1>1
<1>3. TreeOf(e)[q] = NodeIn(e, t)
  <2>1. Resolve(d, q) \ C = Resolve(e, q) \ C
    BY <1>2, ApartPaths
  <2>2. Resolve(e, q) = {t}
    BY <1>1, <2>1
  <2>3. QED
    BY <2>2, TreeAt
<1>4. ASSUME NEW p \in Path \ {q}
      PROVE  TreeOf(e)[p] = TreeOf(d)[p]
  <2>1. p \in Seq(Name) /\ q \in Seq(Name) /\ p # q
    BY PathFacts
  <2>2. t \in Resolve(d, q)
    OBVIOUS
  <2>3. t \notin Resolve(d, p)
    BY <2>1, <2>2, OnePath
  <2>4. /\ Resolve(d, p) \cap C = {} /\ Resolve(e, p) \cap C = {}
        /\ \A i \in TreeInodes(d) \ C : i \in Resolve(d, p) => NodeIn(e, i) = NodeIn(d, i)
    BY <1>1, <2>3
  <2>5. QED
    BY <1>2, <2>4, SameNode
<1>5. QED
  BY <1>3, <1>4, OneChanged

\* A file appears.
LEMMA TreeMade ==
  ASSUME NEW d \in [Block -> Content], NEW e \in [Block -> Content], InOrder(d), InOrder(e),
         NEW c, NEW C, C = {c}, Apart(d, e, C), c \notin TreeInodes(d),
         \A i \in TreeInodes(d) : NodeIn(e, i) = NodeIn(d, i),
         NEW q \in Path, Resolve(e, q) = {c}
  PROVE  Resolve(d, q) = {} /\ TreeOf(e) = [TreeOf(d) EXCEPT ![q] = NodeIn(e, c)]
<1>1. ASSUME NEW p \in Path
      PROVE  c \notin Resolve(d, p)
  BY PathLeads
<1>2. Resolve(d, q) = {}
  <2>1. Resolve(d, q) \ C = Resolve(e, q) \ C
    BY ApartPaths
  <2>2. QED
    BY <1>1, <2>1
<1>3. TreeOf(e)[q] = NodeIn(e, c)
  BY TreeAt
<1>4. ASSUME NEW p \in Path \ {q}
      PROVE  TreeOf(e)[p] = TreeOf(d)[p]
  <2>1. p \in Seq(Name) /\ q \in Seq(Name) /\ p # q
    BY PathFacts
  <2>2. c \in Resolve(e, q)
    OBVIOUS
  <2>3. c \notin Resolve(e, p)
    BY <2>1, <2>2, OnePath
  <2>4. /\ Resolve(d, p) \cap C = {} /\ Resolve(e, p) \cap C = {}
        /\ \A i \in TreeInodes(d) \ C : i \in Resolve(d, p) => NodeIn(e, i) = NodeIn(d, i)
    BY <1>1, <2>3
  <2>5. QED
    BY <2>4, SameNode
<1>5. TreeOf(e) = [TreeOf(d) EXCEPT ![q] = NodeIn(e, c)]
  <2>1. PICK N : N = NodeIn(e, c)
    OBVIOUS
  <2>2. TreeOf(e)[q] = N
    BY <1>3, <2>1
  <2>3. \A p \in Path \ {q} : TreeOf(e)[p] = TreeOf(d)[p]
    BY <1>4
  <2>4. TreeOf(e) = [TreeOf(d) EXCEPT ![q] = N]
    BY <2>2, <2>3, OneChanged
  <2>5. QED
    BY <2>1, <2>4
<1>6. QED
  BY <1>2, <1>5

\* A file disappears.
LEMMA TreeRemoved ==
  ASSUME NEW d \in [Block -> Content], NEW e \in [Block -> Content], InOrder(d), InOrder(e),
         NEW c, NEW C, C = {c}, Apart(d, e, C), c \notin TreeInodes(e),
         \A i \in TreeInodes(d) : i # c => NodeIn(e, i) = NodeIn(d, i),
         NEW q \in Path, Resolve(d, q) = {c}
  PROVE  TreeOf(e) = [TreeOf(d) EXCEPT ![q] = Absent]
<1>1. ASSUME NEW p \in Path
      PROVE  c \notin Resolve(e, p)
  BY PathLeads
<1>2. TreeOf(e)[q] = Absent
  <2>1. Resolve(d, q) \ C = Resolve(e, q) \ C
    BY ApartPaths
  <2>2. Resolve(e, q) = {}
    BY <1>1, <2>1
  <2>3. QED
    BY <2>2, TreeAt
<1>3. ASSUME NEW p \in Path \ {q}
      PROVE  TreeOf(e)[p] = TreeOf(d)[p]
  <2>1. p \in Seq(Name) /\ q \in Seq(Name) /\ p # q
    BY PathFacts
  <2>2. c \in Resolve(d, q)
    OBVIOUS
  <2>3. c \notin Resolve(d, p)
    BY <2>1, <2>2, OnePath
  <2>4. /\ Resolve(d, p) \cap C = {} /\ Resolve(e, p) \cap C = {}
        /\ \A i \in TreeInodes(d) \ C : i \in Resolve(d, p) => NodeIn(e, i) = NodeIn(d, i)
    BY <1>1, <2>3
  <2>5. QED
    BY <2>4, SameNode
<1>4. QED
  BY <1>2, <1>3, OneChanged

-----------------------------------------------------------------------------
(* What a write leaves as it is, and what the file system says in terms of the disk *)

\* A file none of whose blocks is written.
LEMMA NodeElsewhere ==
  ASSUME NEW d \in [Block -> Content], NEW e \in [Block -> Content], InOrder(d), NEW w,
         \A b \in Block \ {w} : e[b] = d[b], NEW i \in TreeInodes(d), w # i, w \notin BlocksAt(d, i)
  PROVE  NodeIn(e, i) = NodeIn(d, i)
<1>1. i \in Block /\ BlocksAt(d, i) \subseteq Block
  BY TreeClosed, ReadInodeFacts
<1>2. e[i] = d[i] /\ \A k \in BlocksAt(d, i) : e[k] = d[k]
  BY <1>1
<1>3. ReadInode(e, i) = ReadInode(d, i)
  BY <1>2 DEF ReadInode
<1>4. \A k \in BlocksAt(d, i) : ReadValue(e, k) = ReadValue(d, k)
  BY <1>2 DEF ReadValue
<1>5. PICK B : B = ReadInode(d, i).blocks
  OBVIOUS
<1>6. \A k \in 1 .. Len(B) : B[k] \in BlocksAt(d, i)
  BY <1>1, <1>5, ReadInodeFacts
<1>7. [k \in 1 .. Len(B) |-> ReadValue(e, B[k])] = [k \in 1 .. Len(B) |-> ReadValue(d, B[k])]
  BY <1>4, <1>6
<1>8. QED
  BY <1>3, <1>5, <1>7 DEF NodeIn

\* A write to a file changes no other.
LEMMA OtherNodes ==
  ASSUME NEW d \in [Block -> Content], NEW e \in [Block -> Content], InOrder(d),
         NEW t \in TreeInodes(d), NEW w, w = t \/ w \in BlocksAt(d, t), \A b \in Block \ {w} : e[b] = d[b]
  PROVE  \A i \in TreeInodes(d) : i # t => NodeIn(e, i) = NodeIn(d, i)
<1>1. ASSUME NEW i \in TreeInodes(d), i # t
      PROVE  NodeIn(e, i) = NodeIn(d, i)
  <2>1. /\ \A k \in BlocksAt(d, i) : k \notin TreeInodes(d)
        /\ \A k \in BlocksAt(d, t) : k \notin TreeInodes(d)
        /\ BlocksAt(d, i) \cap BlocksAt(d, t) = {}
    BY <1>1 DEF InOrder
  <2>2. w # i /\ w \notin BlocksAt(d, i)
    BY <1>1, <2>1
  <2>3. QED
    BY <2>2, NodeElsewhere
<1>2. QED
  BY <1>1

\* A write outside the tree changes none.
LEMMA NodesOutside ==
  ASSUME NEW d \in [Block -> Content], NEW e \in [Block -> Content], InOrder(d), NEW w,
         w \notin UsedBlocks(d), \A b \in Block \ {w} : e[b] = d[b]
  PROVE  \A i \in TreeInodes(d) : NodeIn(e, i) = NodeIn(d, i)
<1>1. ASSUME NEW i \in TreeInodes(d)
      PROVE  NodeIn(e, i) = NodeIn(d, i)
  <2>1. w # i /\ w \notin BlocksAt(d, i)
    BY UsedFacts
  <2>2. QED
    BY <2>1, NodeElsewhere
<1>2. QED
  BY <1>1

\* Of a directory a client sees its owner alone.
LEMMA DirectoryNode ==
  ASSUME NEW d, NEW e, NEW t, TypeAt(d, t) = "d", TypeAt(e, t) = "d",
         ReadInode(e, t).owner = ReadInode(d, t).owner
  PROVE  NodeIn(e, t) = NodeIn(d, t)
  BY DEF NodeIn, TypeAt

\* What exists, and whose it is.
LEMMA NodesOnDisk ==
  ASSUME disk \in [Block -> Content], InOrder(disk), NEW q \in Path, NEW u
  PROVE  /\ FS!Exists(q) <=> Resolve(disk, q) # {}
         /\ FS!IsDirOf(q, u) <=> Passable(disk, q, u)
         /\ \A i : Resolve(disk, q) = {i} =>
              (FS!IsFileOf(q, u) <=> TypeAt(disk, i) = "f" /\ ReadInode(disk, i).owner = u)
<1>1. CASE Resolve(disk, q) = {}
  <2>1. TreeOf(disk)[q] = Absent
    BY <1>1, TreeAt
  <2>2. ~FS!Exists(q)
    BY <2>1 DEF FS!Exists
  <2>3. ~FS!IsDirOf(q, u)
    BY <2>2 DEF FS!IsDirOf
  <2>4. ~Passable(disk, q, u)
    BY <1>1 DEF Passable
  <2>5. \A i : Resolve(disk, q) # {i}
    BY <1>1
  <2>6. QED
    BY <1>1, <2>2, <2>3, <2>4, <2>5
<1>2. CASE \E i \in TreeInodes(disk) \ {0} : Resolve(disk, q) = {i}
  <2>1. PICK i \in TreeInodes(disk) : Resolve(disk, q) = {i}
    BY <1>2
  <2>2. TreeOf(disk)[q] = NodeIn(disk, i) /\ TreeOf(disk)[q] # Absent
    BY <2>1, TreeAt
  <2>3. NodeIn(disk, i).type = TypeAt(disk, i) /\ NodeIn(disk, i).owner = ReadInode(disk, i).owner
    BY <2>1, NodeFacts
  <2>4. FS!Exists(q)
    BY <2>2 DEF FS!Exists
  <2>5. FS!IsDirOf(q, u) <=> TypeAt(disk, i) = "d" /\ ReadInode(disk, i).owner = u
    BY <2>2, <2>3, <2>4 DEF FS!IsDirOf
  <2>6. FS!IsFileOf(q, u) <=> TypeAt(disk, i) = "f" /\ ReadInode(disk, i).owner = u
    BY <2>2, <2>3, <2>4 DEF FS!IsFileOf
  <2>7. Passable(disk, q, u) <=> TypeAt(disk, i) = "d" /\ ReadInode(disk, i).owner = u
    BY <2>1 DEF Passable
  <2>8. Resolve(disk, q) # {} /\ \A j : Resolve(disk, q) = {j} => j = i
    BY <2>1
  <2>9. QED
    BY <2>4, <2>5, <2>6, <2>7, <2>8
<1>3. QED
  BY <1>1, <1>2, PathLeads

\* The directories before the last name of a path.
LEMMA ReachableOnDisk ==
  ASSUME disk \in [Block -> Content], InOrder(disk), NEW r \in Request
  PROVE  FS!Reachable(r.path, r.user) <=>
           \A n \in 1 .. Len(r.path) - 1 : Passable(disk, SubSeq(r.path, 1, n), r.user)
<1>1. r.path \in Path /\ Len(r.path) \in Nat
  BY PathFacts
<1>2. ASSUME NEW n \in 1 .. Len(r.path) - 1
      PROVE  FS!IsDirOf(SubSeq(r.path, 1, n), r.user) <=> Passable(disk, SubSeq(r.path, 1, n), r.user)
  <2>1. n \in 1 .. Len(r.path)
    BY <1>1
  <2>2. SubSeq(r.path, 1, n) \in Path
    BY <2>1, PathFacts
  <2>3. QED
    BY <2>2, NodesOnDisk
<1>3. QED
  BY <1>2 DEF FS!Reachable

\* A path longer by a name, and where it comes from.
LEMMA NameBelow ==
  ASSUME NEW d \in [Block -> Content], InOrder(d), NEW p \in Path, NEW k, Resolve(d, p) = {k},
         NEW n, n = Len(p) - 1
  PROVE  /\ n \in Nat /\ SubSeq(p, 1, n) \in Seq(Name) /\ Len(SubSeq(p, 1, n)) = n
         /\ \E b \in TreeInodes(d) : Resolve(d, SubSeq(p, 1, n)) = {b} /\ \E x : Linked(d, b, x, k)
<1>1. p \in Seq(Name) /\ Len(p) \in Nat \ {0}
  BY PathFacts
<1>2. PICK m : m = Len(p)
  OBVIOUS
<1>3. m \in 1 .. Len(p) /\ SubSeq(p, 1, m) = p /\ n = m - 1
  BY <1>1, <1>2, WholePath
<1>4. k \in Resolve(d, SubSeq(p, 1, m))
  BY <1>3
<1>5. \E b \in TreeInodes(d) : Resolve(d, SubSeq(p, 1, m - 1)) = {b} /\ Linked(d, b, p[m], k)
  BY <1>1, <1>3, <1>4, StepBack
<1>6. n \in Nat /\ n <= Len(p)
  BY <1>1, <1>2, <1>3
<1>7. SubSeq(p, 1, n) \in Seq(Name) /\ Len(SubSeq(p, 1, n)) = n
  BY <1>1, <1>6
<1>8. \E b \in TreeInodes(d) : Resolve(d, SubSeq(p, 1, n)) = {b} /\ \E x : Linked(d, b, x, k)
  BY <1>3, <1>5
<1>9. QED
  BY <1>6, <1>7, <1>8

\* A directory without entries is empty for every client,
LEMMA EmptyWithoutSlots ==
  ASSUME disk \in [Block -> Content], InOrder(disk), NEW q \in Path, NEW c,
         Resolve(disk, q) = {c}, Slots(disk, c) = {}
  PROVE  FS!Empty(q)
<1>1. SUFFICES ASSUME NEW p \in Path, FS!Exists(p), Len(p) = Len(q) + 1, SubSeq(p, 1, Len(q)) = q
               PROVE  FALSE
  BY DEF FS!Empty
<1>2. Resolve(disk, p) # {}
  BY <1>1, NodesOnDisk
<1>3. PICK k : Resolve(disk, p) = {k}
  BY <1>2, PathLeads
<1>4. Len(q) \in Nat
  BY PathFacts
<1>5. PICK n : n = Len(p) - 1
  OBVIOUS
<1>6. n = Len(q) /\ SubSeq(p, 1, n) = q
  BY <1>1, <1>4, <1>5
<1>7. PICK b : Resolve(disk, SubSeq(p, 1, n)) = {b} /\ \E x : Linked(disk, b, x, k)
  BY <1>3, <1>5, NameBelow
<1>8. b = c
  BY <1>6, <1>7
<1>9. QED
  BY <1>7, <1>8 DEF Linked

\* and no other is.
LEMMA NotEmptyWithSlots ==
  ASSUME disk \in [Block -> Content], InOrder(disk), PathsKnown(disk), NEW q \in Path, NEW c,
         Resolve(disk, q) = {c}, Slots(disk, c) # {}
  PROVE  ~FS!Empty(q)
<1>1. q \in Seq(Name) /\ Len(q) \in Nat
  BY PathFacts
<1>2. c \in TreeInodes(disk) /\ c \in Block
  BY PathLeads, TreeClosed
<1>3. PICK s : s \in Slots(disk, c)
  OBVIOUS
<1>4. PICK k : k = EntryIn(disk, s).inode_block
  OBVIOUS
<1>5. PICK y : y = EntryIn(disk, s).name
  OBVIOUS
<1>6. Linked(disk, c, y, k)
  BY <1>3, <1>4, <1>5 DEF Linked
<1>7. k \in TreeInodes(disk) \ {0}
  BY <1>2, <1>6, LinkedOnce
<1>8. PICK p \in Path : Resolve(disk, p) = {k}
  BY <1>7 DEF PathsKnown
<1>9. PICK n : n = Len(p) - 1
  OBVIOUS
<1>10. n \in Nat /\ SubSeq(p, 1, n) \in Seq(Name) /\ Len(SubSeq(p, 1, n)) = n
  <2>1. p \in Seq(Name) /\ Len(p) \in Nat \ {0}
    BY PathFacts
  <2>2. n \in Nat /\ n <= Len(p)
    BY <1>9, <2>1
  <2>3. QED
    BY <2>1, <2>2
<1>11. PICK b \in TreeInodes(disk) : Resolve(disk, SubSeq(p, 1, n)) = {b} /\ \E x : Linked(disk, b, x, k)
  BY <1>8, <1>9, NameBelow
<1>12. b = c
  <2>1. PICK x : Linked(disk, b, x, k)
    BY <1>11
  <2>2. QED
    BY <1>2, <1>6, <2>1, LinkedOnce
<1>13. SubSeq(p, 1, n) = q
  <2>1. c \in Resolve(disk, SubSeq(p, 1, n)) /\ c \in Resolve(disk, q)
    BY <1>11, <1>12
  <2>2. QED
    BY <1>1, <1>10, <2>1, OnePath
<1>14. Len(p) = Len(q) + 1 /\ SubSeq(p, 1, Len(q)) = q
  <2>1. n = Len(q)
    BY <1>10, <1>13
  <2>2. Len(p) \in Nat
    BY PathFacts
  <2>3. QED
    BY <1>9, <1>13, <2>1, <2>2
<1>15. FS!Exists(p)
  BY <1>8, NodesOnDisk
<1>16. QED
  BY <1>14, <1>15 DEF FS!Empty

-----------------------------------------------------------------------------
(* What the handlers have checked, by label *)

\* Before they have found their file, and after they have decided.
LEMMA CheckedEarly ==
  ASSUME NEW d, NEW r, NEW L, NEW o
  PROVE  /\ \A p \in {"idle", "reserve", "root"} : Checked(d, p, r, L, o) <=> o = "none"
         /\ \A p \in Decided : Checked(d, p, r, L, o)
         /\ Checked(d, "look", r, L, o) <=> o = "none" /\ Passes(d, r, L.depth)
         /\ \A p \in {"step", "target"} : Checked(d, p, r, L, o) <=> o = "none" /\ Passes(d, r, L.depth - 1)
         /\ \A p \in {"create", "delete", "read", "write"} :
              Checked(d, p, r, L, o) <=> o = "none" /\ Passes(d, r, Len(Names(r)) - 1)
<1>1. Passes(d, r, 0)
  BY DEF Passes
<1>2. \A p \in {"idle", "reserve", "root"} : Checked(d, p, r, L, o) <=> o = "none"
  BY <1>1 DEF Checked, Passed, Reading, Writing, Decided
<1>3. \A p \in Decided : Checked(d, p, r, L, o)
  BY <1>1 DEF Checked, Passed, Reading, Writing, Decided
<1>4. Checked(d, "look", r, L, o) <=> o = "none" /\ Passes(d, r, L.depth)
  BY DEF Checked, Passed, Reading, Writing, Decided
<1>5. \A p \in {"step", "target"} : Checked(d, p, r, L, o) <=> o = "none" /\ Passes(d, r, L.depth - 1)
  BY DEF Checked, Passed, Reading, Writing, Decided
<1>6. \A p \in {"create", "delete", "read", "write"} :
        Checked(d, p, r, L, o) <=> o = "none" /\ Passes(d, r, Len(Names(r)) - 1)
  BY DEF Checked, Passed, Reading, Writing, Decided
<1>7. QED
  BY <1>2, <1>3, <1>4, <1>5, <1>6

\* In between.
LEMMA CheckedLate ==
  ASSUME NEW d, NEW r, NEW L, NEW o
  PROVE  /\ \A p \in {"alloc", "new_inode", "new_entry", "grow"} :
              Checked(d, p, r, L, o) <=> o = "none" /\ Passes(d, r, Len(Names(r)))
         /\ Checked(d, "child", r, L, o) <=>
              /\ o = "none" /\ Passes(d, r, Len(Names(r)))
              /\ EntryIn(d, EntrySlot(L)).name = Last(r.path)
         /\ \A p \in {"clear", "shrink"} : Checked(d, p, r, L, o) <=>
              /\ o = "none" /\ Passes(d, r, Len(Names(r)))
              /\ EntryIn(d, EntrySlot(L)).name = Last(r.path) /\ L.old.owner = r.user
         /\ Checked(d, "read_data", r, L, o) <=>
              /\ o = "none" /\ Passes(d, r, Len(Names(r)) - 1)
              /\ L.inode.type = "f" /\ L.inode.owner = r.user
         /\ Checked(d, "append", r, L, o) <=>
              /\ o = "none" /\ Passes(d, r, Len(Names(r)) - 1)
              /\ L.inode.type = "f" /\ L.inode.owner = r.user
              /\ r.block = Len(L.inode.blocks)
         /\ Checked(d, "write_data", r, L, o) <=>
              /\ o = "none" /\ Passes(d, r, Len(Names(r)) - 1)
              /\ L.inode.type = "f" /\ L.inode.owner = r.user
              /\ r.block < Len(L.inode.blocks) /\ L.inode.blocks[r.block + 1] = L.block
              /\ L.grown => r.block + 1 = Len(L.inode.blocks)
         /\ Checked(d, "write_inode", r, L, o) <=>
              /\ o = "none" /\ Passes(d, r, Len(Names(r)) - 1)
              /\ L.inode.type = "f" /\ L.inode.owner = r.user
              /\ r.block < Len(L.inode.blocks) /\ L.inode.blocks[r.block + 1] = L.block
              /\ L.grown => r.block + 1 = Len(L.inode.blocks)
              /\ \E v \in StoredBy(r) : d[L.block] = FileData(v)
<1>1. \A p \in {"alloc", "new_inode", "new_entry", "grow"} :
        Checked(d, p, r, L, o) <=> o = "none" /\ Passes(d, r, Len(Names(r)))
  BY DEF Checked, Passed, Reading, Writing, Decided
<1>2. Checked(d, "child", r, L, o) <=>
        /\ o = "none" /\ Passes(d, r, Len(Names(r)))
        /\ EntryIn(d, EntrySlot(L)).name = Last(r.path)
  BY DEF Checked, Passed, Reading, Writing, Decided
<1>3. \A p \in {"clear", "shrink"} : Checked(d, p, r, L, o) <=>
        /\ o = "none" /\ Passes(d, r, Len(Names(r)))
        /\ EntryIn(d, EntrySlot(L)).name = Last(r.path) /\ L.old.owner = r.user
  BY DEF Checked, Passed, Reading, Writing, Decided
<1>4. Checked(d, "read_data", r, L, o) <=>
        /\ o = "none" /\ Passes(d, r, Len(Names(r)) - 1)
        /\ L.inode.type = "f" /\ L.inode.owner = r.user
  BY DEF Checked, Passed, Reading, Writing, Decided
<1>5. Checked(d, "append", r, L, o) <=>
        /\ o = "none" /\ Passes(d, r, Len(Names(r)) - 1)
        /\ L.inode.type = "f" /\ L.inode.owner = r.user
        /\ r.block = Len(L.inode.blocks)
  BY DEF Checked, Passed, Reading, Writing, Decided
<1>6. Checked(d, "write_data", r, L, o) <=>
        /\ o = "none" /\ Passes(d, r, Len(Names(r)) - 1)
        /\ L.inode.type = "f" /\ L.inode.owner = r.user
        /\ r.block < Len(L.inode.blocks) /\ L.inode.blocks[r.block + 1] = L.block
        /\ L.grown => r.block + 1 = Len(L.inode.blocks)
  BY DEF Checked, Passed, Reading, Writing, Decided
<1>7. Checked(d, "write_inode", r, L, o) <=>
        /\ o = "none" /\ Passes(d, r, Len(Names(r)) - 1)
        /\ L.inode.type = "f" /\ L.inode.owner = r.user
        /\ r.block < Len(L.inode.blocks) /\ L.inode.blocks[r.block + 1] = L.block
        /\ L.grown => r.block + 1 = Len(L.inode.blocks)
        /\ \E v \in StoredBy(r) : d[L.block] = FileData(v)
  BY DEF Checked, Passed, Reading, Writing, Decided
<1>8. QED
  BY <1>1, <1>2, <1>3, <1>4, <1>5, <1>6, <1>7

-----------------------------------------------------------------------------
(* How it stays true *)

\* The files that two trees have in common have the same types and owners.
SameFiles(d, e) ==
  \A i \in TreeInodes(d) : i \in TreeInodes(e) =>
    TypeAt(e, i) = TypeAt(d, i) /\ ReadInode(e, i).owner = ReadInode(d, i).owner

\* That is so if their nodes are the same.
LEMMA SameNodesSameFiles ==
  ASSUME NEW d, NEW e, \A i \in TreeInodes(d) : i \in TreeInodes(e) => NodeIn(e, i) = NodeIn(d, i)
  PROVE  SameFiles(d, e)
  BY DEF SameFiles, NodeIn, TypeAt

\* The directories that a path passes stay what they are when others make or
\* remove a file that the path does not lead to: they have entries.
LEMMA PassesKept ==
  ASSUME NEW d \in [Block -> Content], NEW e \in [Block -> Content], InOrder(d), InOrder(e),
         NEW C, Apart(d, e, C), SameFiles(d, e), NEW r \in Request,
         NEW K \in 0 .. Len(Names(r)), NEW x,
         Resolve(d, SubSeq(Names(r), 1, K)) = {x}, Resolve(e, SubSeq(Names(r), 1, K)) = {x},
         NEW m, m \in {K - 1, K}, Passes(d, r, m)
  PROVE  Passes(e, r, m)
<1> DEFINE q == Names(r)
<1>1. q \in Seq(Name) /\ Len(q) \in Nat
  BY RequestFacts
<1> SUFFICES ASSUME NEW n \in 1 .. m
             PROVE  Passable(e, SubSeq(q, 1, n), r.user)
  BY DEF Passes
<1>2. n \in 1 .. K /\ n \in 0 .. Len(q)
  BY <1>1
<1>3. PICK i \in TreeInodes(d) :
        Resolve(d, SubSeq(q, 1, n)) = {i} /\ TypeAt(d, i) = "d" /\ ReadInode(d, i).owner = r.user
  BY DEF Passes, Passable
<1>4. Resolve(e, SubSeq(q, 1, n)) = {i}
  <2>1. CASE n = K
    BY <1>3, <2>1
  <2>2. CASE n # K
    <3>1. PICK k : k = n + 1
      OBVIOUS
    <3>2. k \in 1 .. Len(q) /\ k - 1 = n /\ (k = K \/ k \in 1 .. m)
      BY <1>1, <1>2, <2>2, <3>1
    <3>3. \E y : y \in Resolve(d, SubSeq(q, 1, k))
      BY <3>2 DEF Passes, Passable
    <3>4. PICK y : y \in Resolve(d, SubSeq(q, 1, k))
      BY <3>3
    <3>5. PICK b \in TreeInodes(d) : Resolve(d, SubSeq(q, 1, k - 1)) = {b} /\ Linked(d, b, q[k], y)
      BY <1>1, <3>2, <3>4, StepBack
    <3>6. b = i /\ i \notin C
      <4>1. b = i
        BY <1>3, <3>2, <3>5
      <4>2. Slots(d, i) # {}
        BY <3>5, <4>1 DEF Linked
      <4>3. i \notin C
        BY <4>2 DEF Apart
      <4>4. QED
        BY <4>1, <4>3
    <3>7. QED
      BY <1>1, <1>2, <1>3, <3>6, PathKept
  <2>3. QED
    BY <2>1, <2>2
<1>5. i \in TreeInodes(e)
  BY <1>1, <1>2, <1>4, ResolveFacts
<1>6. TypeAt(e, i) = "d" /\ ReadInode(e, i).owner = r.user
  BY <1>3, <1>5 DEF SameFiles
<1>7. QED
  BY <1>4, <1>5, <1>6 DEF Passable

\* The first m directories of its path are above the one that it stands on, or that one too.
Above(d, p, r, L, m) ==
  \/ m = 0
  \/ /\ r \in Request /\ L.depth \in 0 .. Len(Names(r)) /\ m \in {L.depth - 1, L.depth}
     /\ Resolve(d, SubSeq(Names(r), 1, L.depth)) = {IF p = "look" THEN L.parent ELSE L.target}
     /\ p \in Resolving
  \/ /\ r \in Request /\ m \in {Len(Names(r)) - 1, Len(Names(r))}
     /\ Resolve(d, Names(r)) = {L.target} /\ p \in Modifying

\* That is so of those it has passed, by its label.
LEMMA PassedFacts ==
  ASSUME NEW d, NEW p, NEW r, NEW L, HandlerOK(d, p, r, L)
  PROVE  Above(d, p, r, L, Passed(p, r, L))
<1>1. CASE p \in Resolving
  <2>1. r \in Request /\ L.depth \in 0 .. Len(Names(r))
        /\ Resolve(d, SubSeq(Names(r), 1, L.depth)) = {IF p = "look" THEN L.parent ELSE L.target}
    BY <1>1 DEF HandlerOK, PathOK, ServesOK, Resolving
  <2>2. Passed(p, r, L) \in {L.depth - 1, L.depth}
    <3>1. p = "look" => Passed(p, r, L) = L.depth
      BY DEF Passed, Reading, Writing
    <3>2. p \in {"step", "target"} => Passed(p, r, L) = L.depth - 1
      BY DEF Passed, Reading, Writing
    <3>3. QED
      BY <1>1, <3>1, <3>2 DEF Resolving
  <2>3. PICK m : m = Passed(p, r, L)
    OBVIOUS
  <2>4. m \in {L.depth - 1, L.depth}
    BY <2>2, <2>3
  <2>5. Above(d, p, r, L, m)
    BY <1>1, <2>1, <2>4 DEF Above
  <2>6. QED
    BY <2>3, <2>5
<1>2. CASE p \in Modifying
  <2>1. r \in Request /\ Resolve(d, Names(r)) = {L.target}
    BY <1>2 DEF HandlerOK, PathOK, ServesOK, Modifying
  <2>2. Passed(p, r, L) \in {0, Len(Names(r)) - 1, Len(Names(r))}
    BY <1>2 DEF Passed, Modifying, Reading, Writing
  <2>3. QED
    BY <1>2, <2>1, <2>2 DEF Above
<1>3. CASE p \notin Resolving \cup Modifying
  <2>1. Passed(p, r, L) = 0
    BY <1>3 DEF Passed, Resolving, Modifying, Reading, Writing
  <2>2. QED
    BY <2>1 DEF Above
<1>4. QED
  BY <1>1, <1>2, <1>3

\* What a handler has checked stays so when others write, if what it knows does.
LEMMA CheckedKept ==
  ASSUME NEW d \in [Block -> Content], NEW e \in [Block -> Content], InOrder(d), InOrder(e),
         NEW C, Apart(d, e, C), SameFiles(d, e), NEW p, NEW r, NEW L, NEW o,
         HandlerOK(d, p, r, L), HandlerOK(e, p, r, L), Checked(d, p, r, L, o),
         p \in {"child", "clear", "shrink", "write_inode"} => e[L.block] = d[L.block]
  PROVE  Checked(e, p, r, L, o)
<1>1. PICK m : m = Passed(p, r, L)
  OBVIOUS
<1>2. Above(d, p, r, L, m) /\ Above(e, p, r, L, m) /\ Passes(d, r, m)
  BY <1>1, PassedFacts DEF Checked
<1>3. Passes(e, r, m)
  <2>1. CASE m = 0
    BY <2>1 DEF Passes
  <2>2. CASE m # 0 /\ p \in Resolving
    <3>1. p \notin Modifying
      BY <2>2 DEF Resolving, Modifying
    <3>2. PICK x : x = IF p = "look" THEN L.parent ELSE L.target
      OBVIOUS
    <3>3. PICK K : K = L.depth
      OBVIOUS
    <3>4. r \in Request /\ K \in 0 .. Len(Names(r)) /\ m \in {K - 1, K}
      BY <1>2, <2>2, <3>1, <3>3 DEF Above
    <3>5. Resolve(d, SubSeq(Names(r), 1, K)) = {x}
      BY <1>2, <2>2, <3>1, <3>2, <3>3 DEF Above
    <3>6. Resolve(e, SubSeq(Names(r), 1, K)) = {x}
      BY <1>2, <2>2, <3>1, <3>2, <3>3 DEF Above
    <3>7. QED
      BY <1>2, <3>4, <3>5, <3>6, PassesKept
  <2>3. CASE m # 0 /\ p \notin Resolving
    <3>1. /\ r \in Request /\ m \in {Len(Names(r)) - 1, Len(Names(r))}
          /\ Resolve(d, Names(r)) = {L.target} /\ Resolve(e, Names(r)) = {L.target}
      BY <1>2, <2>3 DEF Above
    <3>2. PICK K : K = Len(Names(r))
      OBVIOUS
    <3>3. K \in 0 .. Len(Names(r)) /\ Names(r) \in Seq(Name)
      BY <3>1, <3>2, RequestFacts
    <3>4. SubSeq(Names(r), 1, K) = Names(r)
      BY <3>2, <3>3, WholePath
    <3>5. PICK x : x = L.target
      OBVIOUS
    <3>6. /\ m \in {K - 1, K}
          /\ Resolve(d, SubSeq(Names(r), 1, K)) = {x} /\ Resolve(e, SubSeq(Names(r), 1, K)) = {x}
      BY <3>1, <3>2, <3>4, <3>5
    <3>7. QED
      BY <1>2, <3>1, <3>3, <3>6, PassesKept
  <2>4. QED
    BY <2>1, <2>2, <2>3
<1>4. p \in {"child", "clear", "shrink"} => EntryIn(e, EntrySlot(L)) = EntryIn(d, EntrySlot(L))
  BY DEF EntryIn, EntrySlot, ReadEntries
<1>5. QED
  BY <1>1, <1>3, <1>4 DEF Checked

-----------------------------------------------------------------------------
(* What is known of all files *)

\* It stays known, if a file that is made has an owner, and a path that requests speak of.
LEMMA KnownKept ==
  ASSUME NEW d \in [Block -> Content], NEW e \in [Block -> Content], InOrder(d), InOrder(e),
         NEW C, Apart(d, e, C), SameFiles(d, e), OwnersKnown(d), PathsKnown(d),
         \A c \in C : c \in TreeInodes(e) =>
           ReadInode(e, c).owner # NoOwner /\ \E q \in Path : Resolve(e, q) = {c}
  PROVE  OwnersKnown(e) /\ PathsKnown(e)
<1>1. 0 \notin C /\ TreeInodes(e) \subseteq TreeInodes(d) \cup C /\ 0 \in TreeInodes(d) /\ 0 \in TreeInodes(e)
  BY ApartTrees, TreeClosed DEF Apart
<1>2. TypeAt(e, 0) = "d"
  BY <1>1 DEF OwnersKnown, SameFiles
<1>3. \A i \in TreeInodes(e) : ReadInode(e, i).owner = NoOwner <=> i = 0
  BY <1>1 DEF OwnersKnown, SameFiles
<1>4. ASSUME NEW i \in TreeInodes(e) \ {0}, i \notin C
      PROVE  \E q \in Path : Resolve(e, q) = {i}
  <2>1. i \in TreeInodes(d) \ {0}
    BY <1>1, <1>4
  <2>2. PICK q \in Path : Resolve(d, q) = {i}
    BY <2>1 DEF PathsKnown
  <2>3. q \in Seq(Name)
    BY PathFacts
  <2>4. PICK n : n = Len(q)
    OBVIOUS
  <2>5. n \in 0 .. Len(q) /\ SubSeq(q, 1, n) = q
    BY <2>3, <2>4, WholePath
  <2>6. Resolve(d, SubSeq(q, 1, n)) = {i}
    BY <2>2, <2>5
  <2>7. Resolve(e, SubSeq(q, 1, n)) = {i}
    BY <1>4, <2>3, <2>5, <2>6, PathKept
  <2>8. QED
    BY <2>5, <2>7
<1>5. QED
  BY <1>2, <1>3, <1>4 DEF OwnersKnown, PathsKnown

\* If nothing is written.
LEMMA ApartSame ==
  ASSUME NEW d \in [Block -> Content], InOrder(d)
  PROVE  \A C : C = {} => Apart(d, d, C) /\ SameFiles(d, d)
  BY DEF Apart, SameFiles

-----------------------------------------------------------------------------
(* A step of one handler *)

\* If it knows owners and paths, and what it has checked, the invariant is kept.
LEMMA ServedByOne ==
  ASSUME IInv, IInv', ServedInv, NEW h \in Handler, NEW p, NEW r, NEW L, Moves(h, p, r, L),
         NEW C, Apart(disk, disk', C), SameFiles(disk, disk'), OwnersKnown(disk'), PathsKnown(disk'),
         disk' = disk \/ \E w \in Writable(h) : \A b \in Block \ {w} : disk'[b] = disk[b],
         NEW o, outcome' = [outcome EXCEPT ![h] = o], Checked(disk', p, r, L, o)
  PROVE  ServedInv'
<1>1. disk \in [Block -> Content] /\ InOrder(disk) /\ disk' \in [Block -> Content] /\ InOrder(disk')
  BY DEF IInv, VariableTypes
<1>2. Checked(disk', pc'[h], req'[h], loc'[h], outcome'[h])
  <2>1. pc'[h] = p /\ req'[h] = r /\ loc'[h] = L /\ outcome'[h] = o
    BY DEF IInv, VariableTypes, Moves
  <2>2. QED
    BY <2>1
<1>3. ASSUME NEW g \in Handler, g # h
      PROVE  Checked(disk', pc'[g], req'[g], loc'[g], outcome'[g])
  <2>1. pc'[g] = pc[g] /\ req'[g] = req[g] /\ loc'[g] = loc[g] /\ outcome'[g] = outcome[g]
    BY <1>3 DEF IInv, VariableTypes, Moves
  <2>2. PICK q, M, s, a : q = pc[g] /\ M = loc[g] /\ s = req[g] /\ a = outcome[g]
    OBVIOUS
  <2>3. HandlerOK(disk, q, s, M)
    BY <2>2 DEF IInv
  <2>4. HandlerOK(disk', q, s, M)
    <3>1. HandlerOK(disk', pc'[g], req'[g], loc'[g])
      BY DEF IInv
    <3>2. QED
      BY <2>1, <2>2, <3>1
  <2>5. Checked(disk, q, s, M, a)
    BY <2>2 DEF ServedInv
  <2>6. ASSUME q \in {"child", "clear", "shrink"}
        PROVE  disk'[M.block] = disk[M.block]
    <3>1. M.block \in BlocksAt(disk, M.target) /\ M.target \in TreeInodes(disk)
      <4>1. EntrySlot(M) \in Slots(disk, M.target)
        BY <2>3, <2>6 DEF HandlerOK, DeleteOK
      <4>2. EntrySlot(M)[1] = M.block
        BY DEF EntrySlot
      <4>3. pc[g] \in Modifying
        BY <2>2, <2>6 DEF Modifying
      <4>4. M.target \in TreeInodes(disk) /\ M.target \in Block
        BY <2>2, <4>3, TargetInTree
      <4>5. QED
        BY <1>1, <4>1, <4>2, <4>4, SlotFacts
    <3>2. M.target \in HeldBy(q, s, M)
      BY <2>6, WriterHolds, UnlinkerHolds DEF Deleting
    <3>3. M.block \in Block
      BY <1>1, <3>1, TreeClosed, ReadInodeFacts
    <3>4. ASSUME NEW w \in Writable(h)
          PROVE  w # M.block
      BY <1>3, <2>2, <3>1, <3>2, WritesApart
    <3>5. QED
      BY <3>3, <3>4
  <2>7. ASSUME q = "write_inode"
        PROVE  disk'[M.block] = disk[M.block]
    <3>1. s \in Request /\ s.op = "write" /\ M.grown /\ M.reserved = M.block /\ M \in LocalTypes
      BY <2>3, <2>7, AtWriteInode
    <3>2. Carried(q, s, M) = {M.block}
      BY <2>7, <3>1, CarriedWriting DEF Writing
    <3>3. M.block \in Block
      BY <3>1 DEF LocalTypes
    <3>4. ASSUME NEW w \in Writable(h)
          PROVE  w # M.block
      BY <1>3, <2>2, <3>2, WritesApart
    <3>5. QED
      BY <3>3, <3>4
  <2>8. Checked(disk', q, s, M, a)
    BY <1>1, <2>3, <2>4, <2>5, <2>6, <2>7, CheckedKept
  <2>9. QED
    BY <2>1, <2>2, <2>8
<1>4. QED
  BY <1>2, <1>3 DEF ServedInv

\* A step that writes nothing.
LEMMA QuietServed ==
  ASSUME IInv, IInv', ServedInv, NEW h \in Handler, NEW p, NEW r, NEW L, Moves(h, p, r, L), disk' = disk,
         NEW o, outcome' = [outcome EXCEPT ![h] = o], Checked(disk, p, r, L, o)
  PROVE  ServedInv' /\ TreeOf(disk') = TreeOf(disk)
<1>1. PICK C : C = {}
  OBVIOUS
<1>2. disk \in [Block -> Content] /\ InOrder(disk)
  BY DEF IInv, VariableTypes
<1>3. Apart(disk, disk', C) /\ SameFiles(disk, disk')
  BY <1>1, <1>2, ApartSame
<1>4. OwnersKnown(disk') /\ PathsKnown(disk') /\ Checked(disk', p, r, L, o)
  BY DEF ServedInv
<1>5. ServedInv'
  BY <1>3, <1>4, ServedByOne
<1>6. QED
  BY <1>5

\* One that decides nothing either is none of FileSystem.
LEMMA StutterServed ==
  ASSUME IInv, IInv', ServedInv, NEW h \in Handler, NEW p, NEW L, Moves(h, p, req[h], L),
         disk' = disk, outcome' = outcome, Checked(disk, p, req[h], L, outcome[h])
  PROVE  ServedInv' /\ UNCHANGED FS!vars
<1>1. PICK o : o = outcome[h]
  OBVIOUS
<1>2. outcome' = [outcome EXCEPT ![h] = o] /\ req' = req
  BY <1>1 DEF IInv, VariableTypes, Moves
<1>3. Checked(disk, p, req[h], L, o)
  BY <1>1
<1>4. ServedInv' /\ TreeOf(disk') = TreeOf(disk)
  BY <1>2, <1>3, QuietServed
<1>5. QED
  BY <1>2, <1>4 DEF FS!vars

\* A request that is being served.
LEMMA ServedFacts ==
  ASSUME IInv, ServedInv, NEW h \in Handler, pc[h] # "idle"
  PROVE  /\ req[h] \in Request /\ req[h] # NoReq
         /\ pc[h] \notin Decided => outcome[h] = "none"
         /\ Checked(disk, pc[h], req[h], loc[h], outcome[h])
         /\ disk \in [Block -> Content] /\ InOrder(disk) /\ OwnersKnown(disk) /\ PathsKnown(disk)
<1>1. req[h] \in Request
  BY DEF IInv, HandlerOK, ServesOK
<1>2. QED
  BY <1>1, RequestFacts DEF IInv, VariableTypes, ServedInv, Checked

\* A step that decides that the request fails.
LEMMA RefusalServed ==
  ASSUME IInv, IInv', ServedInv, NEW h \in Handler, NEW p \in Decided, NEW L, Moves(h, p, req[h], L),
         disk' = disk, outcome' = [outcome EXCEPT ![h] = "failed"],
         pc[h] # "idle", pc[h] \notin Decided, ~FS!Allowed(req[h]) \/ FS!NeedsSpace(req[h])
  PROVE  ServedInv' /\ FS!Refuse(h)
<1>1. Checked(disk, p, req[h], L, "failed")
  BY CheckedEarly
<1>2. ServedInv' /\ TreeOf(disk') = TreeOf(disk)
  BY <1>1, QuietServed
<1>3. req' = req
  BY DEF IInv, VariableTypes, Moves
<1>4. req[h] # NoReq /\ outcome[h] = "none"
  BY ServedFacts
<1>5. QED
  BY <1>2, <1>3, <1>4 DEF FS!Refuse

-----------------------------------------------------------------------------
(* When the file system allows a request, in terms of the disk *)

\* The names that a handler resolves are those of its request's path.
LEMMA NamesFacts ==
  ASSUME NEW r \in Request
  PROVE  /\ r.path \in Path /\ r.path \in Seq(Name) /\ r.path # <<>> /\ Len(r.path) \in Nat \ {0}
         /\ r.op \in {"create", "delete"} => Names(r) = Front(r.path) /\ Len(Names(r)) = Len(r.path) - 1
         /\ r.op \in {"read", "write"} => Names(r) = r.path
         /\ \A n \in 0 .. Len(Names(r)) : SubSeq(Names(r), 1, n) = SubSeq(r.path, 1, n)
<1>1. r.path \in Path /\ r.path \in Seq(Name) /\ r.path # <<>> /\ Len(r.path) \in Nat \ {0}
  BY PathFacts
<1>2. PICK q \in Seq(Name) : q = r.path
  BY <1>1
<1>3. r.op \in {"create", "delete", "read", "write"}
  BY RequestFacts
<1>4. InitialDisk \in [Block -> Content]
  BY DiskAssumption
<1>5. Front(q) = SubSeq(q, 1, Len(q) - 1) /\ Front(q) \in Seq(Name) /\ Len(Front(q)) = Len(q) - 1 /\ Len(q) \in Nat \ {0}
  BY <1>1, <1>2, <1>4, LastName
<1>6. CASE r.op \in {"create", "delete"}
  <2>1. Names(r) = Front(q)
    BY <1>2, <1>6 DEF Names
  <2>2. ASSUME NEW n \in 0 .. Len(q) - 1
        PROVE  SubSeq(Front(q), 1, n) = SubSeq(q, 1, n)
    <3>1. PICK m \in Nat : m = Len(q) - 1
      BY <1>5
    <3>2. m <= Len(q) /\ n \in 0 .. m
      BY <1>5, <3>1
    <3>3. SubSeq(SubSeq(q, 1, m), 1, n) = SubSeq(q, 1, n)
      BY <3>1, <3>2
    <3>4. QED
      BY <1>5, <3>1, <3>3
  <2>3. \A n \in 0 .. Len(Names(r)) : SubSeq(Names(r), 1, n) = SubSeq(r.path, 1, n)
    BY <1>2, <1>5, <2>1, <2>2
  <2>4. QED
    BY <1>1, <1>2, <1>5, <1>6, <2>1, <2>3
<1>7. CASE r.op \in {"read", "write"}
  <2>1. Names(r) = r.path
    BY <1>7 DEF Names
  <2>2. QED
    BY <1>1, <1>7, <2>1
<1>8. QED
  BY <1>3, <1>6, <1>7

\* Of read and write the last name is not passed.
LEMMA ReachableByNames ==
  ASSUME disk \in [Block -> Content], InOrder(disk), NEW r \in Request
  PROVE  /\ FS!Reachable(r.path, r.user) <=> Passes(disk, r, Len(r.path) - 1)
         /\ Len(r.path) - 1 \in {Len(Names(r)), Len(Names(r)) - 1}
<1>1. Len(r.path) - 1 \in {Len(Names(r)), Len(Names(r)) - 1}
  BY NamesFacts, RequestFacts
<1>2. Len(r.path) \in Nat /\ Len(Names(r)) \in Nat
  BY NamesFacts, RequestFacts
<1>3. ASSUME NEW n \in 1 .. Len(r.path) - 1
      PROVE  SubSeq(Names(r), 1, n) = SubSeq(r.path, 1, n)
  <2>1. n \in 0 .. Len(Names(r))
    BY <1>1, <1>2
  <2>2. QED
    BY <2>1, NamesFacts
<1>4. (\A n \in 1 .. Len(r.path) - 1 : Passable(disk, SubSeq(r.path, 1, n), r.user))
      <=> Passes(disk, r, Len(r.path) - 1)
  BY <1>3 DEF Passes
<1>5. FS!Reachable(r.path, r.user) <=> Passes(disk, r, Len(r.path) - 1)
  BY <1>4, ReachableOnDisk
<1>6. QED
  BY <1>1, <1>5

\* What every request needs.
LEMMA NotAllowed ==
  ASSUME disk \in [Block -> Content], InOrder(disk), NEW r \in Request
  PROVE  /\ FS!Allowed(r) => Passes(disk, r, Len(r.path) - 1)
         /\ FS!Allowed(r) /\ r.op # "create" => Resolve(disk, r.path) # {}
<1>1. FS!Allowed(r) => FS!Reachable(r.path, r.user)
  BY DEF FS!Allowed
<1>2. r.path \in Path /\ r.op \in {"create", "delete", "read", "write"}
  BY NamesFacts, RequestFacts
<1>3. FS!Allowed(r) /\ r.op # "create" => FS!Exists(r.path)
  BY <1>2 DEF FS!Allowed, FS!IsFileOf
<1>4. FS!Exists(r.path) <=> Resolve(disk, r.path) # {}
  BY <1>2, NodesOnDisk
<1>5. QED
  BY <1>1, <1>3, <1>4, ReachableByNames

\* create: the name is new.
LEMMA CreateAllowed ==
  ASSUME disk \in [Block -> Content], InOrder(disk), NEW r \in Request, r.op = "create"
  PROVE  FS!Allowed(r) <=> Passes(disk, r, Len(r.path) - 1) /\ Resolve(disk, r.path) = {}
<1>1. FS!Allowed(r) <=> FS!Reachable(r.path, r.user) /\ ~FS!Exists(r.path)
  BY DEF FS!Allowed
<1>2. r.path \in Path
  BY NamesFacts
<1>3. FS!Exists(r.path) <=> Resolve(disk, r.path) # {}
  BY <1>2, NodesOnDisk
<1>4. QED
  BY <1>1, <1>3, ReachableByNames

\* delete: the file is the user's, and empty if it is a directory.
LEMMA DeleteAllowed ==
  ASSUME disk \in [Block -> Content], InOrder(disk), PathsKnown(disk), NEW r \in Request, r.op = "delete",
         NEW c, Resolve(disk, r.path) = {c}
  PROVE  FS!Allowed(r) <=>
           /\ Passes(disk, r, Len(r.path) - 1) /\ ReadInode(disk, c).owner = r.user
           /\ TypeAt(disk, c) = "d" => Slots(disk, c) = {}
<1>1. PICK q \in Path : q = r.path
  BY NamesFacts
<1>2. FS!Allowed(r) <=> /\ FS!Reachable(r.path, r.user)
                        /\ FS!Exists(q) /\ TreeOf(disk)[q].owner = r.user
                        /\ TreeOf(disk)[q].type = "d" => FS!Empty(q)
  BY <1>1 DEF FS!Allowed
<1>3. c \in TreeInodes(disk)
  BY <1>1, PathLeads
<1>4. TreeOf(disk)[q] = NodeIn(disk, c) /\ FS!Exists(q)
  BY <1>1, TreeAt DEF FS!Exists
<1>5. NodeIn(disk, c).type = TypeAt(disk, c) /\ NodeIn(disk, c).owner = ReadInode(disk, c).owner
  BY <1>3, NodeFacts
<1>6. FS!Empty(q) <=> Slots(disk, c) = {}
  BY <1>1, EmptyWithoutSlots, NotEmptyWithSlots
<1>7. QED
  BY <1>2, <1>4, <1>5, <1>6, ReachableByNames

\* The data of a file, block by block.
LEMMA FileLength ==
  ASSUME disk \in [Block -> Content], InOrder(disk), NEW q \in Path, NEW t,
         Resolve(disk, q) = {t}, TypeAt(disk, t) = "f"
  PROVE  /\ TreeOf(disk)[q].data =
              [k \in 1 .. Len(ReadInode(disk, t).blocks) |-> ReadValue(disk, ReadInode(disk, t).blocks[k])]
         /\ Len(TreeOf(disk)[q].data) = Len(ReadInode(disk, t).blocks)
         /\ Len(ReadInode(disk, t).blocks) \in Nat
<1>1. t \in TreeInodes(disk) /\ t \in Block
  BY PathLeads, TreeClosed
<1>2. TreeOf(disk)[q] = NodeIn(disk, t)
  BY TreeAt
<1>3. PICK B : B = ReadInode(disk, t).blocks
  OBVIOUS
<1>4. Len(B) \in Nat
  BY <1>1, <1>3, ReadInodeFacts
<1>5. NodeIn(disk, t).data = [k \in 1 .. Len(B) |-> ReadValue(disk, B[k])]
  BY <1>1, <1>3, NodeFacts
<1>6. Len([k \in 1 .. Len(B) |-> ReadValue(disk, B[k])]) = Len(B)
  BY <1>4
<1>7. QED
  BY <1>2, <1>3, <1>4, <1>5, <1>6

\* read and write: the file is the user's, and has the block,
LEMMA ReadAllowed ==
  ASSUME disk \in [Block -> Content], InOrder(disk), NEW r \in Request, r.op = "read",
         NEW t, Resolve(disk, r.path) = {t}
  PROVE  FS!Allowed(r) <=>
           /\ Passes(disk, r, Len(r.path) - 1) /\ TypeAt(disk, t) = "f" /\ ReadInode(disk, t).owner = r.user
           /\ r.block < Len(ReadInode(disk, t).blocks)
<1>1. PICK q \in Path : q = r.path
  BY NamesFacts
<1>2. FS!Allowed(r) <=> /\ FS!Reachable(r.path, r.user)
                        /\ FS!IsFileOf(q, r.user) /\ r.block < Len(TreeOf(disk)[q].data)
  BY <1>1 DEF FS!Allowed
<1>3. FS!IsFileOf(q, r.user) <=> TypeAt(disk, t) = "f" /\ ReadInode(disk, t).owner = r.user
  BY <1>1, NodesOnDisk
<1>4. TypeAt(disk, t) = "f" => Len(TreeOf(disk)[q].data) = Len(ReadInode(disk, t).blocks)
  BY <1>1, FileLength
<1>5. QED
  BY <1>2, <1>3, <1>4, ReachableByNames

\* or is to get it.
LEMMA WriteAllowed ==
  ASSUME disk \in [Block -> Content], InOrder(disk), NEW r \in Request, r.op = "write",
         NEW t, Resolve(disk, r.path) = {t}
  PROVE  FS!Allowed(r) <=>
           /\ Passes(disk, r, Len(r.path) - 1) /\ TypeAt(disk, t) = "f" /\ ReadInode(disk, t).owner = r.user
           /\ r.block <= Len(ReadInode(disk, t).blocks)
<1>1. PICK q \in Path : q = r.path
  BY NamesFacts
<1>2. FS!Allowed(r) <=> /\ FS!Reachable(r.path, r.user)
                        /\ FS!IsFileOf(q, r.user) /\ r.block <= Len(TreeOf(disk)[q].data)
  BY <1>1 DEF FS!Allowed
<1>3. FS!IsFileOf(q, r.user) <=> TypeAt(disk, t) = "f" /\ ReadInode(disk, t).owner = r.user
  BY <1>1, NodesOnDisk
<1>4. TypeAt(disk, t) = "f" => Len(TreeOf(disk)[q].data) = Len(ReadInode(disk, t).blocks)
  BY <1>1, FileLength
<1>5. QED
  BY <1>2, <1>3, <1>4, ReachableByNames

-----------------------------------------------------------------------------
(* Receiving, answering and traverse_dir *)

\* A name on the way that is not found, or a directory that may not be passed.
LEMMA NotFound ==
  ASSUME disk \in [Block -> Content], InOrder(disk), NEW r \in Request, NEW m \in 1 .. Len(Names(r)),
         \/ Resolve(disk, SubSeq(Names(r), 1, m)) = {}
         \/ m <= Len(r.path) - 1 /\ ~Passable(disk, SubSeq(Names(r), 1, m), r.user)
  PROVE  ~FS!Allowed(r)
<1>1. Len(r.path) \in Nat \ {0} /\ Len(Names(r)) \in Nat /\ r.op \in {"create", "delete", "read", "write"}
  BY NamesFacts, RequestFacts
<1>2. CASE m <= Len(r.path) - 1
  <2>1. ~Passable(disk, SubSeq(Names(r), 1, m), r.user)
    BY DEF Passable
  <2>2. m \in 1 .. Len(r.path) - 1
    BY <1>1, <1>2
  <2>3. ~Passes(disk, r, Len(r.path) - 1)
    BY <2>1, <2>2 DEF Passes
  <2>4. QED
    BY <2>3, NotAllowed
<1>3. CASE ~(m <= Len(r.path) - 1)
  <2>1. Len(r.path) - 1 \in {Len(Names(r)), Len(Names(r)) - 1}
    BY ReachableByNames
  <2>2. m = Len(r.path) /\ Len(Names(r)) = Len(r.path)
    BY <1>1, <1>3, <2>1
  <2>3. r.op \in {"read", "write"}
    BY <1>1, <2>2, NamesFacts
  <2>4. r.path \in Seq(Name) /\ Names(r) = r.path
    BY <2>3, NamesFacts
  <2>5. SubSeq(Names(r), 1, m) = r.path
    BY <2>2, <2>4, WholePath
  <2>6. Resolve(disk, r.path) = {}
    BY <1>3, <2>5
  <2>7. QED
    BY <2>3, <2>6, NotAllowed
<1>4. QED
  BY <1>2, <1>3

\* Receive(h, r)
LEMMA ReceiveServed ==
  ASSUME IInv, IInv', ServedInv, NEW h \in Handler, NEW r \in Request, Receive(h, r)
  PROVE  ServedInv' /\ FS!Invoke(h, r)
<1> DEFINE p == IF r.op = "create" THEN "reserve" ELSE "root"
<1>1. pc[h] = "idle" /\ req[h] = NoReq /\ loc[h] = Locals0
  BY Here, AtIdle DEF Receive
<1>2. disk' = disk /\ outcome' = outcome /\ req' = [req EXCEPT ![h] = r] /\ loc' = loc /\ Goto(h, p)
  BY DEF Receive
<1>3. Moves(h, p, r, loc[h])
  BY <1>2, Here DEF Moves, Goto
<1>4. Checked(disk, "idle", req[h], loc[h], outcome[h])
  BY <1>1 DEF ServedInv
<1>5. outcome[h] = "none"
  BY <1>4, CheckedEarly
<1>6. Checked(disk, p, r, loc[h], "none")
  BY CheckedEarly
<1>7. outcome' = [outcome EXCEPT ![h] = "none"]
  BY <1>2, <1>5 DEF IInv, VariableTypes
<1> HIDE DEF p
<1>8. ServedInv' /\ TreeOf(disk') = TreeOf(disk)
  BY <1>2, <1>3, <1>6, <1>7, QuietServed
<1>9. QED
  BY <1>1, <1>2, <1>8 DEF FS!Invoke

\* Reply(h)
LEMMA ReplyServed ==
  ASSUME IInv, IInv', ServedInv, NEW h \in Handler, Reply(h)
  PROVE  ServedInv' /\ FS!Respond(h)
<1>1. pc[h] = "reply" /\ outcome[h] # "none"
  BY DEF Reply, IInv, VariableTypes, Decided
<1>2. /\ disk' = disk /\ outcome' = [outcome EXCEPT ![h] = "none"] /\ req' = [req EXCEPT ![h] = NoReq]
      /\ Moves(h, "idle", NoReq, Locals0)
  BY DEF Reply, Moves, Goto
<1>3. Checked(disk, "idle", NoReq, Locals0, "none")
  BY CheckedEarly
<1>4. ServedInv' /\ TreeOf(disk') = TreeOf(disk)
  BY <1>2, <1>3, QuietServed
<1>5. QED
  BY <1>1, <1>2, <1>4 DEF FS!Respond

\* Reserve(h)
LEMMA ReserveServed ==
  ASSUME IInv, IInv', ServedInv, NEW h \in Handler, Reserve(h)
  PROVE  ServedInv' /\ (UNCHANGED FS!vars \/ FS!Refuse(h))
<1> DEFINE r == req[h]
           L == [Locals0 EXCEPT !.reserved = Head(free_blocks)]
<1>1. pc[h] = "reserve" /\ r \in Request /\ r.op = "create" /\ loc[h] = Locals0
  BY Here, AtReserve DEF Reserve
<1>2. disk' = disk /\ req' = req
  BY DEF Reserve
<1>3. CASE free_blocks = <<>>
  <2>1. Goto(h, "reply") /\ outcome' = [outcome EXCEPT ![h] = "failed"] /\ loc' = loc
    BY <1>3 DEF Reserve, Fail
  <2>2. Moves(h, "reply", r, loc[h])
    BY <1>2, <2>1, MovesOn
  <2>3. FS!NeedsSpace(r)
    BY <1>1 DEF FS!NeedsSpace
  <2>4. "reply" \in Decided /\ pc[h] # "idle" /\ pc[h] \notin Decided
    BY <1>1 DEF Decided
  <2>5. QED
    BY <1>2, <2>1, <2>2, <2>3, <2>4, RefusalServed
<1>4. CASE free_blocks # <<>>
  <2>1. Goto(h, "root") /\ outcome' = outcome /\ loc' = [loc EXCEPT ![h] = L]
    BY <1>1, <1>4, Here DEF Reserve
  <2>2. Moves(h, "root", r, L)
    BY <1>2, <2>1, MovesOn
  <2>3. Checked(disk, "reserve", r, loc[h], outcome[h])
    BY <1>1 DEF ServedInv
  <2> HIDE DEF L
  <2>4. Checked(disk, "root", r, L, outcome[h])
    BY <2>3, CheckedEarly
  <2>5. QED
    BY <1>2, <2>1, <2>2, <2>4, StutterServed
<1>5. QED
  BY <1>3, <1>4

\* ReturnBlock(h), DeleteFreeEntries(h), DeleteFree(h)
LEMMA DecidedServed ==
  ASSUME IInv, IInv', ServedInv, NEW h \in Handler, ReturnBlock(h) \/ DeleteFreeEntries(h) \/ DeleteFree(h)
  PROVE  ServedInv' /\ UNCHANGED FS!vars
<1>1. PICK p \in {"reply", "free"} : Goto(h, p)
  BY DEF ReturnBlock, DeleteFreeEntries, DeleteFree
<1>2. disk' = disk /\ req' = req /\ loc' = loc /\ outcome' = outcome
  BY DEF ReturnBlock, DeleteFreeEntries, DeleteFree
<1>3. Moves(h, p, req[h], loc[h])
  BY <1>1, <1>2, MovesOn
<1>4. p \in Decided
  BY DEF Decided
<1>5. Checked(disk, p, req[h], loc[h], outcome[h])
  BY <1>4, CheckedEarly
<1>6. QED
  BY <1>2, <1>3, <1>5, StutterServed

\* TraverseRoot(h)
LEMMA TraverseRootServed ==
  ASSUME IInv, IInv', ServedInv, NEW h \in Handler, TraverseRoot(h)
  PROVE  ServedInv' /\ UNCHANGED FS!vars
<1> DEFINE r == req[h]
           L == loc[h]
<1>1. pc[h] = "root" /\ r \in Request /\ L \in LocalTypes /\ L = [Locals0 EXCEPT !.reserved = L.reserved]
  BY Here, AtRoot DEF TraverseRoot
<1>2. disk' = disk /\ req' = req /\ outcome' = outcome
  BY DEF TraverseRoot
<1>3. L.depth = 0
  BY <1>1 DEF Locals0
<1>4. Checked(disk, "root", r, L, outcome[h])
  BY <1>1 DEF ServedInv
<1>5. outcome[h] = "none"
  BY <1>4, CheckedEarly
<1>6. CASE Names(r) = <<>>
  <2>1. Goto(h, "target") /\ loc' = loc
    BY <1>6 DEF TraverseRoot
  <2>2. Moves(h, "target", r, L)
    BY <1>2, <2>1, MovesOn
  <2>3. Passes(disk, r, L.depth - 1)
    BY <1>3 DEF Passes
  <2>4. Checked(disk, "target", r, L, outcome[h])
    BY <1>5, <2>3, CheckedEarly
  <2>5. QED
    BY <1>2, <2>2, <2>4, StutterServed
<1>7. CASE Names(r) # <<>>
  <2> DEFINE L1 == [L EXCEPT !.inode = ReadInode(disk, 0)]
  <2>1. Goto(h, "look") /\ loc' = [loc EXCEPT ![h] = L1]
    BY <1>7, Here DEF TraverseRoot
  <2>2. Moves(h, "look", r, L1)
    BY <1>2, <2>1, MovesOn
  <2>3. L1.depth = 0
    BY <1>1, <1>3 DEF LocalTypes
  <2> HIDE DEF L1
  <2>4. Passes(disk, r, L1.depth)
    BY <2>3 DEF Passes
  <2>5. Checked(disk, "look", r, L1, outcome[h])
    BY <1>5, <2>4, CheckedEarly
  <2>6. QED
    BY <1>2, <2>2, <2>5, StutterServed
<1>8. QED
  BY <1>6, <1>7

\* Abandon(h, dir)
LEMMA AbandonServed ==
  ASSUME IInv, IInv', ServedInv, NEW h \in Handler, pc[h] \in {"look", "step"}, Abandon(h, loc[h].parent),
         UNCHANGED <<disk, free_blocks, writer, req, loc, received, crashes>>, ~FS!Allowed(req[h])
  PROVE  ServedInv' /\ FS!Refuse(h)
<1>1. PICK p \in {"return_block", "reply"} : Goto(h, p) /\ outcome' = [outcome EXCEPT ![h] = "failed"]
  BY DEF Abandon, Fail
<1>2. Moves(h, p, req[h], loc[h])
  BY <1>1, MovesOn
<1>3. p \in Decided /\ pc[h] # "idle" /\ pc[h] \notin Decided
  BY DEF Decided
<1>4. QED
  BY <1>1, <1>2, <1>3, RefusalServed

\* A name that a directory of the tree does not have leads nowhere.
LEMMA NoSuchName ==
  ASSUME NEW d \in [Block -> Content], InOrder(d), NEW q \in Seq(Name), NEW n \in 0 .. Len(q), n < Len(q),
         NEW b, Resolve(d, SubSeq(q, 1, n)) = {b}, Named(d, ReadInode(d, b), q[n + 1]) = {}
  PROVE  Resolve(d, SubSeq(q, 1, n + 1)) = {}
<1>1. Len(q) \in Nat /\ n + 1 \in 1 .. Len(q) /\ (n + 1) - 1 = n
  OBVIOUS
<1>2. PICK m : m = n + 1
  OBVIOUS
<1>3. m \in 1 .. Len(q) /\ m - 1 = n
  BY <1>1, <1>2
<1>4. Resolve(d, SubSeq(q, 1, m)) = StepOf(d, Resolve(d, SubSeq(q, 1, m - 1)), q[m])
  BY <1>3, ResolveStep
<1>5. b \in TreeInodes(d)
  BY ResolveFacts
<1>6. TypeAt(d, b) = "d" => \A s \in Slots(d, b) : EntryIn(d, s).name # q[m]
  BY <1>2, <1>5, NamedFacts
<1>7. TypeAt(d, b) # "d" => Slots(d, b) = {}
  BY DEF Slots
<1>8. \A c : ~Linked(d, b, q[m], c)
  BY <1>6, <1>7 DEF Linked
<1>9. StepOf(d, {b}, q[m]) = {}
  BY <1>8 DEF StepOf
<1>10. QED
  BY <1>2, <1>3, <1>4, <1>9

\* TraverseLook(h)
LEMMA TraverseLookServed ==
  ASSUME IInv, IInv', ServedInv, NEW h \in Handler, TraverseLook(h)
  PROVE  ServedInv' /\ (UNCHANGED FS!vars \/ FS!Refuse(h))
<1> DEFINE r == req[h]
           L == loc[h]
           x == Names(r)[L.depth + 1]
           found == Named(disk, L.inode, x)
<1>1. /\ pc[h] = "look" /\ r \in Request /\ L \in LocalTypes
      /\ L.depth \in 0 .. Len(Names(r)) /\ L.depth < Len(Names(r))
      /\ Resolve(disk, SubSeq(Names(r), 1, L.depth)) = {L.parent}
      /\ L.inode = ReadInode(disk, L.parent)
  <2>1. pc[h] = "look"
    BY DEF TraverseLook
  <2>2. HandlerOK(disk, "look", r, L)
    BY <2>1, Here
  <2> HIDE DEF r, L
  <2>3. QED
    BY <2>1, <2>2, AtLook
<1>2. disk' = disk /\ req' = req /\ UNCHANGED <<disk, free_blocks, writer, req, received, crashes>>
  BY DEF TraverseLook
<1>3. Names(r) \in Seq(Name) /\ Len(Names(r)) \in Nat /\ L.depth + 1 \in 1 .. Len(Names(r))
  BY <1>1, RequestFacts
<1>4. disk \in [Block -> Content] /\ InOrder(disk)
  BY Here
<1>5. outcome[h] = "none" /\ Passes(disk, r, L.depth)
  <2>1. Checked(disk, "look", r, L, outcome[h])
    BY <1>1, ServedFacts
  <2> HIDE DEF r, L
  <2>2. QED
    BY <2>1, CheckedEarly
<1>6. CASE found = {}
  <2>1. Abandon(h, L.parent) /\ loc' = loc
    BY <1>6 DEF TraverseLook
  <2>2. Resolve(disk, SubSeq(Names(r), 1, L.depth + 1)) = {}
    BY <1>1, <1>3, <1>4, <1>6, NoSuchName
  <2>3. ~FS!Allowed(r)
    BY <1>1, <1>3, <1>4, <2>2, NotFound
  <2>4. QED
    BY <1>1, <1>2, <2>1, <2>3, AbandonServed
<1>7. CASE found # {}
  <2>1. PICK p \in found : loc' = [loc EXCEPT ![h].target = EntryAt(disk, L.inode, p).inode_block, ![h].depth = @ + 1]
    BY <1>7 DEF TraverseLook
  <2> DEFINE c == EntryAt(disk, L.inode, p).inode_block
             q == IF L.depth + 1 = Len(Names(r)) THEN "target" ELSE "step"
             L1 == [L EXCEPT !.target = c, !.depth = @ + 1]
  <2>2. Goto(h, q) /\ outcome' = outcome
    BY <1>7 DEF TraverseLook
  <2>3. loc' = [loc EXCEPT ![h] = L1]
    BY <2>1, Here
  <2>4. Moves(h, q, r, L1)
    BY <1>2, <2>2, <2>3, MovesOn
  <2>5. L1.depth = L.depth + 1
    <3> HIDE DEF c, L
    <3>1. QED
      BY <1>1 DEF LocalTypes
  <2> HIDE DEF L1, c
  <2>6. L1.depth - 1 = L.depth
    BY <1>1, <2>5
  <2>7. Passes(disk, r, L1.depth - 1) /\ q \in {"step", "target"}
    BY <1>5, <2>6
  <2> HIDE DEF q
  <2>8. Checked(disk, q, r, L1, outcome[h])
    BY <1>5, <2>7, CheckedEarly
  <2>9. QED
    BY <1>2, <2>2, <2>4, <2>8, StutterServed
<1>8. QED
  BY <1>6, <1>7

\* TraverseStep(h)
LEMMA TraverseStepServed ==
  ASSUME IInv, IInv', ServedInv, NEW h \in Handler, TraverseStep(h)
  PROVE  ServedInv' /\ (UNCHANGED FS!vars \/ FS!Refuse(h))
<1> DEFINE r == req[h]
           L == loc[h]
           b == L.target
           inode == ReadInode(disk, b)
           L1 == [L EXCEPT !.parent = b, !.inode = inode]
<1>1. /\ pc[h] = "step" /\ r \in Request /\ L \in LocalTypes
      /\ L.depth \in 0 .. Len(Names(r)) /\ L.depth < Len(Names(r))
      /\ Resolve(disk, SubSeq(Names(r), 1, L.depth)) = {b}
      /\ L.parent \in TreeInodes(disk) /\ b \in Children(disk, L.parent)
  <2>1. pc[h] = "step"
    BY DEF TraverseStep
  <2>2. HandlerOK(disk, "step", r, L)
    BY <2>1, Here
  <2> HIDE DEF r, L
  <2>3. QED
    BY <2>1, <2>2, AtStep
<1>2. disk' = disk /\ req' = req /\ UNCHANGED <<disk, free_blocks, writer, req, received, crashes>>
  BY DEF TraverseStep
<1>3. disk \in [Block -> Content] /\ InOrder(disk)
  BY Here
<1>4. Names(r) \in Seq(Name) /\ Len(Names(r)) \in Nat
  BY <1>1, RequestFacts
<1>5. b # 0
  BY <1>1, <1>3, TreeClosed, EntriesBySlots
<1>6. L.depth \in 1 .. Len(Names(r)) /\ L.depth <= Len(r.path) - 1
  <2>1. L.depth # 0
    BY <1>1, <1>3, <1>4, <1>5, LeadsToRoot
  <2>2. Len(r.path) - 1 \in {Len(Names(r)), Len(Names(r)) - 1}
    BY <1>1, <1>3, ReachableByNames
  <2>3. QED
    BY <1>1, <1>4, <2>1, <2>2
<1>7. outcome[h] = "none" /\ Passes(disk, r, L.depth - 1)
  <2>1. Checked(disk, "step", r, L, outcome[h])
    BY <1>1, ServedFacts
  <2> HIDE DEF r, L
  <2>2. QED
    BY <2>1, CheckedEarly
<1>8. Passable(disk, SubSeq(Names(r), 1, L.depth), r.user) <=> StepUsable(inode, r.user)
  <2>1. b \in TreeInodes(disk)
    BY <1>1, <1>3, <1>4, ResolveFacts
  <2>2. QED
    BY <1>1, <2>1 DEF Passable, StepUsable, TypeAt
<1>9. CASE ~StepUsable(inode, r.user)
  <2>1. Abandon(h, L.parent) /\ loc' = loc
    BY <1>9 DEF TraverseStep
  <2>2. ~FS!Allowed(r)
    BY <1>1, <1>3, <1>6, <1>8, <1>9, NotFound
  <2>3. QED
    BY <1>1, <1>2, <2>1, <2>2, AbandonServed
<1>10. CASE StepUsable(inode, r.user)
  <2>1. Goto(h, "look") /\ outcome' = outcome /\ loc' = [loc EXCEPT ![h] = L1]
    BY <1>10, Here DEF TraverseStep
  <2>2. Moves(h, "look", r, L1)
    BY <1>2, <2>1, MovesOn
  <2>3. L1.depth = L.depth
    BY <1>1 DEF LocalTypes
  <2> HIDE DEF L1
  <2>4. Passes(disk, r, L1.depth)
    BY <1>6, <1>7, <1>8, <1>10, <2>3 DEF Passes
  <2>5. Checked(disk, "look", r, L1, outcome[h])
    BY <1>7, <2>4, CheckedEarly
  <2>6. QED
    BY <1>2, <2>1, <2>2, <2>5, StutterServed
<1>11. QED
  BY <1>9, <1>10

\* LockTarget(h)
LEMMA LockTargetServed ==
  ASSUME IInv, IInv', ServedInv, NEW h \in Handler, LockTarget(h)
  PROVE  ServedInv' /\ UNCHANGED FS!vars
<1> DEFINE r == req[h]
           L == loc[h]
           L1 == [L EXCEPT !.inode = ReadInode(disk, L.target)]
<1>1. pc[h] = "target" /\ r \in Request /\ L.depth = Len(Names(r))
  <2>1. pc[h] = "target"
    BY DEF LockTarget
  <2>2. HandlerOK(disk, "target", r, L)
    BY <2>1, Here
  <2> HIDE DEF r, L
  <2>3. QED
    BY <2>1, <2>2, AtTarget
<1>2. disk' = disk /\ req' = req /\ outcome' = outcome /\ Goto(h, r.op)
  BY DEF LockTarget
<1>3. loc' = [loc EXCEPT ![h] = L1]
  BY Here DEF LockTarget
<1>4. Moves(h, r.op, r, L1)
  BY <1>2, <1>3, MovesOn
<1>5. outcome[h] = "none" /\ Passes(disk, r, L.depth - 1)
  <2>1. Checked(disk, "target", r, L, outcome[h])
    BY <1>1, ServedFacts
  <2> HIDE DEF r, L
  <2>2. QED
    BY <2>1, CheckedEarly
<1>6. PICK p : p = r.op
  OBVIOUS
<1>7. p \in {"create", "delete", "read", "write"}
  BY <1>1, <1>6, RequestFacts
<1> HIDE DEF L1
<1>8. Checked(disk, p, r, L1, outcome[h])
  BY <1>1, <1>5, <1>7, CheckedEarly
<1>9. QED
  BY <1>2, <1>4, <1>6, <1>8, StutterServed

-----------------------------------------------------------------------------
(* create and delete, before they write *)

\* The path of a create or delete leads to what its last name does in the directory.
LEMMA ResolvedName ==
  ASSUME NEW d \in [Block -> Content], NEW r \in Request, r.op \in {"create", "delete"},
         NEW t, Resolve(d, Names(r)) = {t}
  PROVE  Resolve(d, r.path) = {c \in Block : Linked(d, t, Last(r.path), c)}
<1>1. r.path \in Seq(Name) /\ r.path # <<>> /\ Names(r) = Front(r.path)
  BY NamesFacts
<1>2. PICK q \in Seq(Name) : q = r.path
  BY <1>1
<1>3. Resolve(d, q) = StepOf(d, Resolve(d, Front(q)), Last(q))
  BY <1>1, <1>2, LastName
<1>4. Resolve(d, q) = StepOf(d, {t}, Last(q))
  BY <1>1, <1>2, <1>3
<1>5. QED
  BY <1>2, <1>4 DEF StepOf

\* The test of the last directory: it is the user's, or the root.
LEMMA DirChecked ==
  ASSUME NEW d \in [Block -> Content], InOrder(d), OwnersKnown(d), NEW r \in Request,
         NEW t, Resolve(d, Names(r)) = {t}, Passes(d, r, Len(Names(r)) - 1)
  PROVE  DirUsable(ReadInode(d, t), r.user) <=> Passes(d, r, Len(Names(r)))
<1> DEFINE q == Names(r)
<1>1. q \in Seq(Name) /\ Len(q) \in Nat /\ r.user \in User
  BY RequestFacts
<1>2. SubSeq(q, 1, Len(q)) = q
  BY <1>1, WholePath
<1>3. t \in TreeInodes(d)
  <2>1. PICK n : n = Len(q)
    OBVIOUS
  <2>2. Resolve(d, q) = {t}
    OBVIOUS
  <2> HIDE DEF q
  <2>3. n \in 0 .. Len(q)
    BY <1>1, <2>1
  <2>4. SubSeq(q, 1, n) = q
    BY <1>2, <2>1
  <2>5. Resolve(d, SubSeq(q, 1, n)) = {t}
    BY <2>2, <2>4
  <2>6. QED
    BY <1>1, <2>3, <2>5, ResolveFacts
<1>4. CASE Len(q) = 0
  <2>1. Resolve(d, SubSeq(q, 1, 0)) = {0}
    BY <1>1, LeadsToRoot
  <2>2. t = 0
    BY <1>2, <1>4, <2>1
  <2>3. ReadInode(d, t).owner = NoOwner /\ ReadInode(d, t).type = "d"
    BY <1>3, <2>2 DEF OwnersKnown, TypeAt
  <2>4. Passes(d, r, Len(q))
    BY <1>4 DEF Passes
  <2>5. QED
    BY <2>3, <2>4 DEF DirUsable
<1>5. CASE Len(q) # 0
  <2>1. Len(q) \in 1 .. Len(q)
    BY <1>1, <1>5
  <2>2. t # 0
    <3>1. PICK n : n = Len(q)
      OBVIOUS
    <3>2. n \in 1 .. Len(q) /\ t \in Resolve(d, SubSeq(q, 1, n))
      BY <1>2, <2>1, <3>1
    <3> HIDE DEF q
    <3>3. QED
      BY <1>1, <3>2, StepBack
  <2>3. ReadInode(d, t).owner # NoOwner
    BY <1>3, <2>2 DEF OwnersKnown
  <2>4. Passable(d, SubSeq(q, 1, Len(q)), r.user) <=> DirUsable(ReadInode(d, t), r.user)
    BY <1>2, <1>3, <2>3 DEF Passable, DirUsable, TypeAt
  <2>5. Passes(d, r, Len(q)) <=> Passable(d, SubSeq(q, 1, Len(q)), r.user)
    <3>1. \A n \in 1 .. Len(q) : n = Len(q) \/ n \in 1 .. Len(q) - 1
      BY <1>1
    <3>2. QED
      BY <2>1, <3>1 DEF Passes
  <2>6. QED
    BY <2>4, <2>5
<1>6. QED
  BY <1>4, <1>5

\* CreateCheck(h)
LEMMA CreateCheckServed ==
  ASSUME IInv, IInv', ServedInv, NEW h \in Handler, CreateCheck(h)
  PROVE  ServedInv' /\ (UNCHANGED FS!vars \/ FS!Refuse(h))
<1> DEFINE r == req[h]
           L == loc[h]
           inode == ReadInode(disk, L.target)
           empty == FirstEmpty(inode)
           bad == ~DirUsable(inode, r.user) \/ Named(disk, inode, Last(r.path)) # {}
           L1 == [L EXCEPT !.block = empty.block, !.entries = empty.entries, !.place = <<1, empty.index>>]
<1>1. /\ pc[h] = "create" /\ r \in Request /\ r.op = "create"
      /\ Resolve(disk, Names(r)) = {L.target} /\ L.inode = inode
  <2>1. pc[h] = "create"
    BY DEF CreateCheck
  <2>2. HandlerOK(disk, "create", r, L)
    BY <2>1, Here
  <2> HIDE DEF r, L
  <2>3. QED
    BY <2>1, <2>2, AtCreate
<1>2. disk' = disk /\ req' = req
  BY DEF CreateCheck
<1>3. /\ outcome[h] = "none" /\ Passes(disk, r, Len(Names(r)) - 1)
      /\ disk \in [Block -> Content] /\ InOrder(disk) /\ OwnersKnown(disk)
  <2>1. Checked(disk, "create", r, L, outcome[h])
    BY <1>1, ServedFacts
  <2> HIDE DEF r, L
  <2>2. outcome[h] = "none" /\ Passes(disk, r, Len(Names(r)) - 1)
    BY <2>1, CheckedEarly
  <2>3. QED
    BY <1>1, <2>2, ServedFacts
<1>4. CASE bad
  <2>1. Goto(h, "return_locked") /\ outcome' = [outcome EXCEPT ![h] = "failed"] /\ loc' = loc
    BY <1>1, <1>4 DEF CreateCheck
  <2>2. Moves(h, "return_locked", r, L)
    BY <1>2, <2>1, MovesOn
  <2>3. FS!NeedsSpace(r)
    BY <1>1 DEF FS!NeedsSpace
  <2>4. "return_locked" \in Decided /\ pc[h] # "idle" /\ pc[h] \notin Decided
    BY <1>1 DEF Decided
  <2>5. QED
    BY <1>2, <2>1, <2>2, <2>3, <2>4, RefusalServed
<1>5. CASE ~bad
  <2>1. Goto(h, "alloc") /\ outcome' = outcome /\ loc' = [loc EXCEPT ![h] = L1]
    BY <1>1, <1>5, Here DEF CreateCheck
  <2>2. Moves(h, "alloc", r, L1)
    BY <1>2, <2>1, MovesOn
  <2>3. Passes(disk, r, Len(Names(r)))
    BY <1>1, <1>3, <1>5, DirChecked
  <2> HIDE DEF L1
  <2>4. Checked(disk, "alloc", r, L1, outcome[h])
    BY <1>3, <2>3, CheckedLate
  <2>5. QED
    BY <1>2, <2>1, <2>2, <2>4, StutterServed
<1>6. QED
  BY <1>4, <1>5

\* Fail(h) of a handler that has its target locked.
LEMMA FailLockedServed ==
  ASSUME IInv, IInv', ServedInv, NEW h \in Handler,
         pc[h] \in {"alloc", "delete", "child", "read", "write", "append"}, Goto(h, "reply"),
         outcome' = [outcome EXCEPT ![h] = "failed"], disk' = disk, req' = req, loc' = loc,
         ~FS!Allowed(req[h]) \/ FS!NeedsSpace(req[h])
  PROVE  ServedInv' /\ FS!Refuse(h)
<1>1. Moves(h, "reply", req[h], loc[h])
  BY MovesOn
<1>2. "reply" \in Decided /\ pc[h] # "idle" /\ pc[h] \notin Decided
  BY DEF Decided
<1>3. QED
  BY <1>1, <1>2, RefusalServed

\* CreateAlloc(h)
LEMMA CreateAllocServed ==
  ASSUME IInv, IInv', ServedInv, NEW h \in Handler, CreateAlloc(h)
  PROVE  ServedInv' /\ (UNCHANGED FS!vars \/ FS!Refuse(h))
<1> DEFINE r == req[h]
           L == loc[h]
           full == free_blocks = <<>> \/ Len(L.inode.blocks) + 1 > MaxFileBlocks
<1>1. pc[h] = "alloc" /\ r \in Request /\ r.op = "create"
  <2>1. pc[h] = "alloc"
    BY DEF CreateAlloc
  <2>2. HandlerOK(disk, "alloc", r, L)
    BY <2>1, Here
  <2> HIDE DEF r, L
  <2>3. QED
    BY <2>1, <2>2, AtAlloc
<1>2. disk' = disk /\ req' = req
  BY DEF CreateAlloc
<1>3. outcome[h] = "none" /\ Passes(disk, r, Len(Names(r)))
  <2>1. Checked(disk, "alloc", r, L, outcome[h])
    BY <1>1, ServedFacts
  <2> HIDE DEF r, L
  <2>2. QED
    BY <2>1, CheckedLate
<1>4. CASE L.block = Sentinel /\ full
  <2>1. FailLocked(h) /\ loc' = loc
    BY <1>4 DEF CreateAlloc
  <2>2. Goto(h, "reply") /\ outcome' = [outcome EXCEPT ![h] = "failed"]
    BY <2>1 DEF FailLocked, Fail
  <2>3. FS!NeedsSpace(r)
    BY <1>1 DEF FS!NeedsSpace
  <2>4. QED
    BY <1>1, <1>2, <2>1, <2>2, <2>3, FailLockedServed
<1>5. CASE ~(L.block = Sentinel /\ full)
  <2>1. Goto(h, "new_inode") /\ outcome' = outcome
    BY <1>5 DEF CreateAlloc
  <2>2. PICK L1 : loc' = [loc EXCEPT ![h] = L1]
    <3>1. CASE L.block # Sentinel
      <4>1. loc' = [loc EXCEPT ![h].entries[L.place[2]] = NewEntry(h)]
        BY <3>1 DEF CreateAlloc
      <4>2. loc' = [loc EXCEPT ![h] = [L EXCEPT !.entries[L.place[2]] = NewEntry(h)]]
        BY <4>1, Here
      <4>3. QED
        BY <4>2
    <3>2. CASE L.block = Sentinel
      <4> DEFINE x == Head(free_blocks)
                 E == [NoEntries EXCEPT ![L.place[2]] = NewEntry(h)]
      <4>1. loc' = [loc EXCEPT ![h].block = x, ![h].inode.blocks = Append(@, x), ![h].grown = TRUE, ![h].entries = E]
        BY <1>5, <3>2 DEF CreateAlloc
      <4> HIDE DEF x, E
      <4>2. loc' = [loc EXCEPT ![h] = [L EXCEPT !.block = x, !.inode.blocks = Append(@, x), !.grown = TRUE, !.entries = E]]
        BY <4>1, Here
      <4>3. QED
        BY <4>2
    <3>3. QED
      BY <3>1, <3>2
  <2>3. Moves(h, "new_inode", r, L1)
    BY <1>2, <2>1, <2>2, MovesOn
  <2>4. Checked(disk, "new_inode", r, L1, outcome[h])
    BY <1>3, CheckedLate
  <2>5. QED
    BY <1>2, <2>1, <2>3, <2>4, StutterServed
<1>6. QED
  BY <1>4, <1>5

\* DeleteCheck(h)
LEMMA DeleteCheckServed ==
  ASSUME IInv, IInv', ServedInv, NEW h \in Handler, DeleteCheck(h)
  PROVE  ServedInv' /\ (UNCHANGED FS!vars \/ FS!Refuse(h))
<1> DEFINE r == req[h]
           L == loc[h]
           b == L.target
           inode == ReadInode(disk, b)
           found == Named(disk, inode, Last(r.path))
           bad == ~DirUsable(inode, r.user) \/ found = {}
<1>1. /\ pc[h] = "delete" /\ r \in Request /\ r.op = "delete" /\ L \in LocalTypes
      /\ Resolve(disk, Names(r)) = {b} /\ L.inode = inode
  <2>1. pc[h] = "delete"
    BY DEF DeleteCheck
  <2>2. HandlerOK(disk, "delete", r, L)
    BY <2>1, Here
  <2> HIDE DEF r, L
  <2>3. QED
    BY <2>1, <2>2, AtDelete
<1>2. disk' = disk /\ req' = req
  BY DEF DeleteCheck
<1>3. /\ outcome[h] = "none" /\ Passes(disk, r, Len(Names(r)) - 1)
      /\ disk \in [Block -> Content] /\ InOrder(disk) /\ OwnersKnown(disk)
  <2>1. Checked(disk, "delete", r, L, outcome[h])
    BY <1>1, ServedFacts
  <2> HIDE DEF r, L
  <2>2. outcome[h] = "none" /\ Passes(disk, r, Len(Names(r)) - 1)
    BY <2>1, CheckedEarly
  <2>3. QED
    BY <1>1, <2>2, ServedFacts
<1>4. b \in TreeInodes(disk)
  BY <1>1, TargetInTree DEF Modifying
<1>5. CASE bad
  <2>1. FailLocked(h) /\ loc' = loc
    BY <1>1, <1>5 DEF DeleteCheck
  <2>2. Goto(h, "reply") /\ outcome' = [outcome EXCEPT ![h] = "failed"]
    BY <2>1 DEF FailLocked, Fail
  <2>3. ~FS!Allowed(r)
    <3>1. CASE ~DirUsable(inode, r.user)
      <4>1. ~Passes(disk, r, Len(Names(r)))
        BY <1>1, <1>3, <3>1, DirChecked
      <4>2. Len(r.path) - 1 = Len(Names(r))
        BY <1>1, NamesFacts
      <4>3. QED
        BY <1>1, <1>3, <4>1, <4>2, NotAllowed
    <3>2. CASE found = {}
      <4>1. TypeAt(disk, b) = "d" => \A s \in Slots(disk, b) : EntryIn(disk, s).name # Last(r.path)
        <5>1. PICK x : x = Last(r.path)
          OBVIOUS
        <5>2. Named(disk, ReadInode(disk, b), x) = {}
          BY <3>2, <5>1
        <5> HIDE DEF b, r
        <5>3. TypeAt(disk, b) = "d" => \A s \in Slots(disk, b) : EntryIn(disk, s).name # x
          BY <1>3, <1>4, <5>2, NamedFacts
        <5>4. QED
          BY <5>1, <5>3
      <4>2. TypeAt(disk, b) # "d" => Slots(disk, b) = {}
        BY DEF Slots
      <4>3. \A c : ~Linked(disk, b, Last(r.path), c)
        BY <4>1, <4>2 DEF Linked
      <4> HIDE DEF b, r
      <4>4. Resolve(disk, r.path) = {}
        <5>1. Resolve(disk, r.path) = {c \in Block : Linked(disk, b, Last(r.path), c)}
          BY <1>1, <1>3, ResolvedName
        <5>2. QED
          BY <4>3, <5>1
      <4>5. QED
        BY <1>1, <1>3, <4>4, NotAllowed
    <3>3. QED
      BY <1>5, <3>1, <3>2
  <2>4. QED
    BY <1>1, <1>2, <2>1, <2>2, <2>3, FailLockedServed
<1>6. CASE ~bad
  <2> DEFINE At(p) == [L EXCEPT !.place = p, !.child = EntryAt(disk, inode, p).inode_block,
                                !.block = inode.blocks[p[1]], !.entries = ReadEntries(disk, inode.blocks[p[1]])]
  <2>1. Goto(h, "child") /\ outcome' = outcome
    BY <1>1, <1>6 DEF DeleteCheck
  <2>2. PICK p \in found : loc' = [loc EXCEPT ![h] = At(p)]
    <3>1. PICK p \in found :
            loc' = [loc EXCEPT ![h].place = p, ![h].child = EntryAt(disk, inode, p).inode_block,
                               ![h].block = inode.blocks[p[1]], ![h].entries = ReadEntries(disk, inode.blocks[p[1]])]
      BY <1>1, <1>6 DEF DeleteCheck
    <3> DEFINE k == inode.blocks[p[1]]
               c == EntryAt(disk, inode, p).inode_block
    <3>2. loc' = [loc EXCEPT ![h].place = p, ![h].child = c, ![h].block = k, ![h].entries = ReadEntries(disk, k)]
      BY <3>1
    <3>3. At(p) = [L EXCEPT !.place = p, !.child = c, !.block = k, !.entries = ReadEntries(disk, k)]
      OBVIOUS
    <3> HIDE DEF c, k, At
    <3>4. loc' = [loc EXCEPT ![h] = At(p)]
      BY <3>2, <3>3, Here
    <3>5. QED
      BY <3>4
  <2>3. At(p).place = p /\ At(p).block = inode.blocks[p[1]]
    BY <1>1 DEF LocalTypes
  <2>4. PICK L1 : L1 = At(p)
    OBVIOUS
  <2>5. Moves(h, "child", r, L1)
    <3> HIDE DEF At
    <3>1. QED
      BY <1>2, <2>1, <2>2, <2>4, MovesOn
  <2>6. EntrySlot(L1) = SlotOf(disk, b, p)
    <3> HIDE DEF At
    <3>1. QED
      BY <2>3, <2>4 DEF EntrySlot, SlotOf
  <2>7. EntryIn(disk, EntrySlot(L1)).name = Last(r.path)
    BY <1>3, <1>4, <2>6, NamedFacts
  <2>8. Passes(disk, r, Len(Names(r)))
    BY <1>1, <1>3, <1>6, DirChecked
  <2>9. Checked(disk, "child", r, L1, outcome[h])
    BY <1>3, <2>7, <2>8, CheckedLate
  <2>10. QED
    BY <1>2, <2>1, <2>5, <2>9, StutterServed
<1>7. QED
  BY <1>5, <1>6

\* The path of a delete leads to what the entry it found names.
LEMMA ChildResolved ==
  ASSUME IInv, ServedInv, NEW h \in Handler, pc[h] \in {"child", "clear", "shrink"}
  PROVE  /\ req[h] \in Request /\ req[h].op = "delete" /\ req[h].path \in Path
         /\ Resolve(disk, req[h].path) = {loc[h].child}
         /\ loc[h].child \in TreeInodes(disk)
         /\ outcome[h] = "none" /\ Passes(disk, req[h], Len(req[h].path) - 1)
<1> DEFINE r == req[h]
           L == loc[h]
           t == L.target
           s == EntrySlot(L)
<1>1. r \in Request /\ Resolve(disk, Names(r)) = {t} /\ t \in TreeInodes(disk) /\ t \in Block
  BY TargetInTree DEF Modifying
<1>2. /\ r.op = "delete" /\ s \in Slots(disk, t) /\ EntryIn(disk, s).inode_block = L.child
  <2>1. HandlerOK(disk, pc[h], r, L)
    BY Here
  <2>2. CASE pc[h] = "child"
    <3>1. HandlerOK(disk, "child", r, L)
      BY <2>1, <2>2
    <3> HIDE DEF r, L
    <3>2. QED
      BY <3>1, AtChild
  <2>3. CASE pc[h] = "clear"
    <3>1. HandlerOK(disk, "clear", r, L)
      BY <2>1, <2>3
    <3> HIDE DEF r, L
    <3>2. QED
      BY <3>1, AtClear
  <2>4. CASE pc[h] = "shrink"
    <3>1. HandlerOK(disk, "shrink", r, L)
      BY <2>1, <2>4
    <3> HIDE DEF r, L
    <3>2. QED
      BY <3>1, AtShrink
  <2>5. QED
    BY <2>2, <2>3, <2>4
<1>3. outcome[h] = "none" /\ Passes(disk, r, Len(Names(r))) /\ EntryIn(disk, s).name = Last(r.path)
  <2>1. Checked(disk, pc[h], r, L, outcome[h])
    BY ServedFacts
  <2>2. PICK p \in {"child", "clear", "shrink"} : p = pc[h]
    OBVIOUS
  <2>3. Checked(disk, p, r, L, outcome[h])
    BY <2>1, <2>2
  <2> HIDE DEF r, L
  <2>4. QED
    BY <2>3, CheckedLate
<1>4. disk \in [Block -> Content] /\ InOrder(disk)
  BY Here
<1>5. L.child \in Block /\ Linked(disk, t, Last(r.path), L.child)
  BY <1>1, <1>2, <1>3, <1>4, SlotFacts DEF Linked
<1>6. Resolve(disk, r.path) = {c \in Block : Linked(disk, t, Last(r.path), c)}
  BY <1>1, <1>2, <1>4, ResolvedName
<1>7. r.path \in Path /\ Len(r.path) - 1 = Len(Names(r))
  BY <1>1, <1>2, NamesFacts
<1>8. PICK q \in Path : q = r.path
  BY <1>7
<1>9. L.child \in Resolve(disk, q)
  BY <1>5, <1>6, <1>8
<1>10. PICK i \in TreeInodes(disk) : Resolve(disk, q) = {i}
  BY <1>4, <1>9, PathLeads
<1>11. QED
  BY <1>1, <1>2, <1>3, <1>7, <1>8, <1>9, <1>10

\* A directory of the tree without blocks is one without entries.
LEMMA BlocksBySlots ==
  ASSUME NEW d \in [Block -> Content], InOrder(d), NEW c \in TreeInodes(d), TypeAt(d, c) = "d", Slots(d, c) = {}
  PROVE  ReadInode(d, c).blocks = <<>>
<1>1. c \in Block
  BY TreeClosed
<1>2. \A k \in BlocksAt(d, c) : \E j \in 1 .. DirEntries : <<k, j>> \in Slots(d, c)
  BY DEF InOrder
<1>3. BlocksAt(d, c) = {}
  BY <1>2
<1>4. PICK s : s = ReadInode(d, c).blocks
  OBVIOUS
<1>5. s \in Seq(Block) /\ Len(s) \in Nat /\ {s[k] : k \in 1 .. Len(s)} = {}
  BY <1>1, <1>3, <1>4, ReadInodeFacts
<1>6. \A k : k \notin 1 .. Len(s)
  BY <1>5
<1>7. Len(s) = 0
  <2>1. 1 \notin 1 .. Len(s)
    BY <1>6
  <2>2. QED
    BY <1>5, <2>1
<1>8. QED
  BY <1>4, <1>5, <1>7

\* DeleteLockChild(h)
LEMMA DeleteLockChildServed ==
  ASSUME IInv, IInv', ServedInv, NEW h \in Handler, DeleteLockChild(h)
  PROVE  ServedInv' /\ (UNCHANGED FS!vars \/ FS!Refuse(h))
<1> DEFINE r == req[h]
           L == loc[h]
           c == L.child
           old == ReadInode(disk, c)
           entries == [L.entries EXCEPT ![L.place[2]] = Unused]
<1>1. pc[h] = "child"
  BY DEF DeleteLockChild
<1>2. /\ r \in Request /\ r.op = "delete" /\ r.path \in Path /\ Resolve(disk, r.path) = {c}
      /\ c \in TreeInodes(disk) /\ outcome[h] = "none" /\ Passes(disk, r, Len(r.path) - 1)
  BY <1>1, ChildResolved
<1>3. disk' = disk /\ req' = req
  BY DEF DeleteLockChild
<1>4. disk \in [Block -> Content] /\ InOrder(disk) /\ PathsKnown(disk) /\ L \in LocalTypes
  BY <1>1, ServedFacts, Here
<1>5. Passes(disk, r, Len(Names(r))) /\ EntryIn(disk, EntrySlot(L)).name = Last(r.path)
  <2>1. Checked(disk, "child", r, L, outcome[h])
    BY <1>1, ServedFacts
  <2> HIDE DEF r, L
  <2>2. QED
    BY <2>1, CheckedLate
<1>6. CASE ~Deletable(old, r.user)
  <2>1. FailLocked(h) /\ loc' = loc
    BY <1>6 DEF DeleteLockChild
  <2>2. Goto(h, "reply") /\ outcome' = [outcome EXCEPT ![h] = "failed"]
    BY <2>1 DEF FailLocked, Fail
  <2>3. ~FS!Allowed(r)
    <3>1. FS!Allowed(r) => old.owner = r.user /\ (TypeAt(disk, c) = "d" => Slots(disk, c) = {})
      BY <1>2, <1>4, DeleteAllowed
    <3>2. TypeAt(disk, c) = "d" /\ Slots(disk, c) = {} => old.blocks = <<>>
      BY <1>2, <1>4, BlocksBySlots
    <3>3. QED
      BY <1>6, <3>1, <3>2 DEF Deletable, TypeAt
  <2>4. QED
    BY <1>1, <1>3, <2>1, <2>2, <2>3, FailLockedServed
<1>7. CASE Deletable(old, r.user)
  <2>1. PICK p \in {"clear", "shrink"} : Goto(h, p)
    BY <1>7 DEF DeleteLockChild
  <2>2. outcome' = outcome
    BY <1>7 DEF DeleteLockChild
  <2>3. PICK L1 : /\ loc' = [loc EXCEPT ![h] = L1]
                  /\ L1.old = old /\ L1.block = L.block /\ L1.place = L.place
    <3>1. CASE entries = NoEntries
      <4> DEFINE M == [L EXCEPT !.old = old, !.inode.blocks = RemoveAt(@, L.place[1])]
      <4>1. loc' = [loc EXCEPT ![h].old = old, ![h].inode.blocks = RemoveAt(@, L.place[1])]
        BY <1>7, <3>1 DEF DeleteLockChild
      <4> HIDE DEF old
      <4>2. loc' = [loc EXCEPT ![h] = M]
        BY <4>1, Here
      <4>3. M.old = old /\ M.block = L.block /\ M.place = L.place
        BY <1>4 DEF LocalTypes
      <4>4. QED
        BY <4>2, <4>3
    <3>2. CASE entries # NoEntries
      <4> DEFINE M == [L EXCEPT !.old = old, !.entries = entries]
      <4>1. loc' = [loc EXCEPT ![h].old = old, ![h].entries = entries]
        BY <1>7, <3>2 DEF DeleteLockChild
      <4> HIDE DEF old, entries
      <4>2. loc' = [loc EXCEPT ![h] = M]
        BY <4>1, Here
      <4>3. M.old = old /\ M.block = L.block /\ M.place = L.place
        BY <1>4 DEF LocalTypes
      <4>4. QED
        BY <4>2, <4>3
    <3>3. QED
      BY <3>1, <3>2
  <2>4. Moves(h, p, r, L1)
    BY <1>3, <2>1, <2>3, MovesOn
  <2>5. EntrySlot(L1) = EntrySlot(L)
    BY <2>3 DEF EntrySlot
  <2>6. L1.old.owner = r.user /\ EntryIn(disk, EntrySlot(L1)).name = Last(r.path)
    BY <1>5, <1>7, <2>3, <2>5 DEF Deletable
  <2>7. Checked(disk, p, r, L1, outcome[h])
    BY <1>2, <1>5, <2>6, CheckedLate
  <2>8. QED
    BY <1>3, <2>2, <2>4, <2>7, StutterServed
<1>8. QED
  BY <1>6, <1>7

-----------------------------------------------------------------------------
(* read and write, before they write *)

\* ReadCheck(h)
LEMMA ReadCheckServed ==
  ASSUME IInv, IInv', ServedInv, NEW h \in Handler, ReadCheck(h)
  PROVE  ServedInv' /\ (UNCHANGED FS!vars \/ FS!Refuse(h))
<1> DEFINE r == req[h]
           L == loc[h]
           t == L.target
           good == FileUsable(L.inode, r.user) /\ r.block < Len(L.inode.blocks)
<1>1. /\ pc[h] = "read" /\ r \in Request /\ r.op = "read"
      /\ Resolve(disk, Names(r)) = {t} /\ L.inode = ReadInode(disk, t)
  <2>1. pc[h] = "read"
    BY DEF ReadCheck
  <2>2. HandlerOK(disk, "read", r, L)
    BY <2>1, Here
  <2> HIDE DEF r, L
  <2>3. QED
    BY <2>1, <2>2, AtRead
<1>2. disk' = disk /\ req' = req /\ loc' = loc
  BY DEF ReadCheck
<1>3. outcome[h] = "none" /\ Passes(disk, r, Len(Names(r)) - 1)
  BY <1>1, CheckedEarly DEF ServedInv
<1>4. disk \in [Block -> Content] /\ InOrder(disk) /\ Names(r) = r.path
  BY <1>1, Here, NamesFacts
<1>5. CASE good
  <2>1. Goto(h, "read_data") /\ outcome' = outcome
    BY <1>5 DEF ReadCheck
  <2>2. Moves(h, "read_data", r, L)
    BY <1>2, <2>1, MovesOn
  <2>3. Checked(disk, "read_data", r, L, outcome[h])
    BY <1>3, <1>5, CheckedLate DEF FileUsable
  <2>4. QED
    BY <1>2, <2>1, <2>2, <2>3, StutterServed
<1>6. CASE ~good
  <2>1. Goto(h, "reply") /\ outcome' = [outcome EXCEPT ![h] = "failed"]
    BY <1>6 DEF ReadCheck, Fail
  <2>2. ~FS!Allowed(r)
    <3>1. FS!Allowed(r) => /\ TypeAt(disk, t) = "f" /\ ReadInode(disk, t).owner = r.user
                           /\ r.block < Len(ReadInode(disk, t).blocks)
      BY <1>1, <1>4, ReadAllowed
    <3>2. QED
      BY <1>1, <1>6, <3>1 DEF FileUsable, TypeAt
  <2>3. QED
    BY <1>1, <1>2, <2>1, <2>2, FailLockedServed
<1>7. QED
  BY <1>5, <1>6

\* ReadData(h)
LEMMA ReadDataServed ==
  ASSUME IInv, IInv', ServedInv, NEW h \in Handler, ReadData(h)
  PROVE  ServedInv' /\ FS!Apply(h)
<1> DEFINE r == req[h]
           L == loc[h]
           t == L.target
           inode == ReadInode(disk, t)
           o == ReadValue(disk, inode.blocks[r.block + 1])
<1>1. /\ pc[h] = "read_data" /\ r \in Request /\ r.op = "read"
      /\ Resolve(disk, Names(r)) = {t} /\ L.inode = inode /\ r.block < Len(inode.blocks)
  <2>1. pc[h] = "read_data"
    BY DEF ReadData
  <2>2. HandlerOK(disk, "read_data", r, L)
    BY <2>1, Here
  <2> HIDE DEF r, L
  <2>3. QED
    BY <2>1, <2>2, AtReadData
<1>2. /\ disk' = disk /\ req' = req /\ loc' = loc /\ Goto(h, "reply")
      /\ outcome' = [outcome EXCEPT ![h] = o]
  BY <1>1 DEF ReadData
<1>3. /\ outcome[h] = "none" /\ Passes(disk, r, Len(Names(r)) - 1)
      /\ inode.type = "f" /\ inode.owner = r.user
  BY <1>1, CheckedLate DEF ServedInv
<1>4. disk \in [Block -> Content] /\ InOrder(disk) /\ Names(r) = r.path /\ r # NoReq
  BY <1>1, Here, NamesFacts, RequestFacts
<1>5. ServedInv' /\ TreeOf(disk') = TreeOf(disk)
  <2>1. Moves(h, "reply", r, L)
    BY <1>2, MovesOn
  <2>2. "reply" \in Decided
    BY DEF Decided
  <2> HIDE DEF o
  <2>3. Checked(disk, "reply", r, L, o)
    BY <2>2, CheckedEarly
  <2>4. QED
    BY <1>2, <2>1, <2>3, QuietServed
<1>6. FS!Allowed(r)
  BY <1>1, <1>3, <1>4, ReadAllowed DEF TypeAt
<1>7. TreeOf(disk)[r.path].data[r.block + 1] = o
  <2>1. r.path \in Path /\ Resolve(disk, r.path) = {t} /\ TypeAt(disk, t) = "f"
    BY <1>1, <1>3, <1>4, PathFacts DEF TypeAt
  <2>2. PICK q \in Path : q = r.path
    BY <2>1
  <2>3. /\ TreeOf(disk)[q].data = [k \in 1 .. Len(inode.blocks) |-> ReadValue(disk, inode.blocks[k])]
        /\ Len(inode.blocks) \in Nat
    BY <1>4, <2>1, <2>2, FileLength
  <2>4. r.block + 1 \in 1 .. Len(inode.blocks)
    BY <1>1, <2>3, RequestFacts
  <2>5. QED
    BY <2>2, <2>3, <2>4
<1>8. QED
  BY <1>1, <1>2, <1>3, <1>4, <1>5, <1>6, <1>7 DEF FS!Apply

\* WriteCheck(h)
LEMMA WriteCheckServed ==
  ASSUME IInv, IInv', ServedInv, NEW h \in Handler, WriteCheck(h)
  PROVE  ServedInv' /\ (UNCHANGED FS!vars \/ FS!Refuse(h))
<1> DEFINE r == req[h]
           L == loc[h]
           t == L.target
           size == Len(L.inode.blocks)
<1>1. /\ pc[h] = "write" /\ r \in Request /\ r.op = "write" /\ L \in LocalTypes /\ ~L.grown
      /\ Resolve(disk, Names(r)) = {t} /\ L.inode = ReadInode(disk, t)
  <2>1. pc[h] = "write"
    BY DEF WriteCheck
  <2>2. HandlerOK(disk, "write", r, L)
    BY <2>1, Here
  <2> HIDE DEF r, L
  <2>3. QED
    BY <2>1, <2>2, AtWrite
<1>2. disk' = disk /\ req' = req
  BY DEF WriteCheck
<1>3. outcome[h] = "none" /\ Passes(disk, r, Len(Names(r)) - 1)
  BY <1>1, CheckedEarly DEF ServedInv
<1>4. disk \in [Block -> Content] /\ InOrder(disk) /\ Names(r) = r.path /\ t \in Block
  BY <1>1, Here, NamesFacts DEF LocalTypes
<1>5. size \in Nat /\ r.block \in Nat
  BY <1>1, <1>4, RequestFacts, ReadInodeFacts
<1>6. CASE ~FileUsable(L.inode, r.user) \/ r.block > size
  <2>1. FailLocked(h) /\ loc' = loc
    BY <1>6 DEF WriteCheck
  <2>2. Goto(h, "reply") /\ outcome' = [outcome EXCEPT ![h] = "failed"]
    BY <2>1 DEF FailLocked, Fail
  <2>3. ~FS!Allowed(r)
    <3>1. FS!Allowed(r) => /\ TypeAt(disk, t) = "f" /\ ReadInode(disk, t).owner = r.user
                           /\ r.block <= Len(ReadInode(disk, t).blocks)
      BY <1>1, <1>4, WriteAllowed
    <3>2. FS!Allowed(r) => FileUsable(L.inode, r.user) /\ r.block <= size
      BY <1>1, <3>1 DEF FileUsable, TypeAt
    <3>3. QED
      BY <1>5, <1>6, <3>2
  <2>4. QED
    BY <1>1, <1>2, <2>1, <2>2, <2>3, FailLockedServed
<1>7. CASE FileUsable(L.inode, r.user) /\ r.block = size
  <2>1. Goto(h, "append") /\ loc' = loc /\ outcome' = outcome
    BY <1>5, <1>7 DEF WriteCheck
  <2>2. Moves(h, "append", r, L)
    BY <1>2, <2>1, MovesOn
  <2>3. L.inode.type = "f" /\ L.inode.owner = r.user /\ r.block = Len(L.inode.blocks)
    BY <1>7 DEF FileUsable
  <2>4. Checked(disk, "append", r, L, outcome[h])
    BY <1>3, <2>3, CheckedLate
  <2>5. QED
    BY <1>2, <2>1, <2>2, <2>4, StutterServed
<1>8. CASE FileUsable(L.inode, r.user) /\ r.block < size
  <2> DEFINE b == L.inode.blocks[r.block + 1]
             L1 == [L EXCEPT !.block = b]
  <2>1. Goto(h, "write_data") /\ outcome' = outcome /\ loc' = [loc EXCEPT ![h].block = b]
    BY <1>5, <1>8 DEF WriteCheck
  <2>2. loc' = [loc EXCEPT ![h] = L1]
    <3> HIDE DEF b
    <3>1. QED
      BY <2>1, Here
  <2>3. L1.block = b /\ L1.inode = L.inode /\ ~L1.grown
    <3> HIDE DEF b
    <3>1. QED
      BY <1>1 DEF LocalTypes
  <2> HIDE DEF L1
  <2>4. Moves(h, "write_data", r, L1)
    BY <1>2, <2>1, <2>2, MovesOn
  <2>5. /\ L1.inode.type = "f" /\ L1.inode.owner = r.user
        /\ r.block < Len(L1.inode.blocks) /\ L1.inode.blocks[r.block + 1] = L1.block
        /\ L1.grown => r.block + 1 = Len(L1.inode.blocks)
    BY <1>8, <2>3 DEF FileUsable
  <2>6. Checked(disk, "write_data", r, L1, outcome[h])
    BY <1>3, <2>5, CheckedLate
  <2>7. QED
    BY <1>2, <2>1, <2>4, <2>6, StutterServed
<1>9. QED
  BY <1>5, <1>6, <1>7, <1>8

\* WriteAlloc(h)
LEMMA WriteAllocServed ==
  ASSUME IInv, IInv', ServedInv, NEW h \in Handler, WriteAlloc(h)
  PROVE  ServedInv' /\ (UNCHANGED FS!vars \/ FS!Refuse(h))
<1> DEFINE r == req[h]
           L == loc[h]
           t == L.target
           x == Head(free_blocks)
<1>1. /\ pc[h] = "append" /\ r \in Request /\ r.op = "write" /\ L \in LocalTypes
      /\ Resolve(disk, Names(r)) = {t} /\ L.inode = ReadInode(disk, t)
  <2>1. pc[h] = "append"
    BY DEF WriteAlloc
  <2>2. HandlerOK(disk, "append", r, L)
    BY <2>1, Here
  <2> HIDE DEF r, L
  <2>3. QED
    BY <2>1, <2>2, AtAppend
<1>2. disk' = disk /\ req' = req
  BY DEF WriteAlloc
<1>3. /\ outcome[h] = "none" /\ Passes(disk, r, Len(Names(r)) - 1)
      /\ L.inode.type = "f" /\ L.inode.owner = r.user /\ r.block = Len(L.inode.blocks)
  BY <1>1, CheckedLate DEF ServedInv
<1>4. disk \in [Block -> Content] /\ InOrder(disk) /\ Names(r) = r.path /\ t \in Block
  BY <1>1, Here, NamesFacts DEF LocalTypes
<1>5. L.inode.blocks \in Seq(Block) /\ Len(L.inode.blocks) \in Nat
  BY <1>1, <1>4, ReadInodeFacts
<1>6. CASE free_blocks = <<>> \/ Len(L.inode.blocks) = MaxFileBlocks
  <2>1. FailLocked(h) /\ loc' = loc
    BY <1>6 DEF WriteAlloc
  <2>2. Goto(h, "reply") /\ outcome' = [outcome EXCEPT ![h] = "failed"]
    BY <2>1 DEF FailLocked, Fail
  <2>3. FS!NeedsSpace(r)
    <3>1. r.path \in Path /\ Resolve(disk, r.path) = {t} /\ TypeAt(disk, t) = "f"
      BY <1>1, <1>3, <1>4, PathFacts DEF TypeAt
    <3>2. PICK q \in Path : q = r.path
      BY <3>1
    <3>3. Len(TreeOf(disk)[q].data) = Len(ReadInode(disk, t).blocks)
      BY <1>4, <3>1, <3>2, FileLength
    <3>4. QED
      BY <1>1, <1>3, <3>2, <3>3 DEF FS!NeedsSpace
  <2>4. QED
    BY <1>1, <1>2, <2>1, <2>2, <2>3, FailLockedServed
<1>7. CASE free_blocks # <<>> /\ Len(L.inode.blocks) # MaxFileBlocks
  <2> DEFINE L1 == [L EXCEPT !.reserved = x, !.block = x, !.inode.blocks = Append(@, x), !.grown = TRUE]
  <2>1. /\ Goto(h, "write_data") /\ outcome' = outcome
        /\ loc' = [loc EXCEPT ![h].reserved = x, ![h].block = x, ![h].inode.blocks = Append(@, x), ![h].grown = TRUE]
    BY <1>7 DEF WriteAlloc, AfterAppend
  <2>2. x \in Block
    <3>1. free_blocks' = Tail(free_blocks)
      BY <1>7 DEF WriteAlloc
    <3>2. QED
      BY <1>2, <1>7, <3>1, FreeTaken
  <2> HIDE DEF x
  <2>3. loc' = [loc EXCEPT ![h] = L1]
    BY <2>1, Here
  <2>4. /\ L1.block = x /\ L1.inode.blocks = Append(L.inode.blocks, x)
        /\ L1.inode.type = L.inode.type /\ L1.inode.owner = L.inode.owner
    <3>1. L.inode = Inode(L.inode.type, L.inode.owner, L.inode.blocks)
      BY <1>1, InodeFacts DEF LocalTypes
    <3>2. L1.block = x /\ L1.inode = [L.inode EXCEPT !.blocks = Append(@, x)]
      BY <1>1 DEF LocalTypes
    <3> HIDE DEF L1, L
    <3>3. QED
      BY <3>1, <3>2 DEF Inode
  <2> HIDE DEF L1
  <2>5. Moves(h, "write_data", r, L1)
    BY <1>2, <2>1, <2>3, MovesOn
  <2>6. /\ Len(Append(L.inode.blocks, x)) = Len(L.inode.blocks) + 1
        /\ Append(L.inode.blocks, x)[Len(L.inode.blocks) + 1] = x
    BY <1>5, <2>2
  <2>7. /\ L1.inode.type = "f" /\ L1.inode.owner = r.user
        /\ r.block < Len(L1.inode.blocks) /\ L1.inode.blocks[r.block + 1] = L1.block
        /\ r.block + 1 = Len(L1.inode.blocks)
    BY <1>3, <1>5, <2>4, <2>6
  <2>8. Checked(disk, "write_data", r, L1, outcome[h])
    BY <1>3, <2>7, CheckedLate
  <2>9. QED
    BY <1>2, <2>1, <2>5, <2>8, StutterServed
<1>8. QED
  BY <1>6, <1>7

-----------------------------------------------------------------------------
(* Writes *)

\* A write after which no other file is a different one, and the files that come
\* or go are known.
LEMMA WrittenServed ==
  ASSUME IInv, IInv', ServedInv, NEW h \in Handler, NEW p, Goto(h, p), req' = req, loc' = loc,
         NEW w \in Writable(h), NEW c, Rewritten(disk, disk', w, c),
         NEW C, Apart(disk, disk', C), SameFiles(disk, disk'),
         \A k \in C : k \in TreeInodes(disk') =>
           ReadInode(disk', k).owner # NoOwner /\ \E q \in Path : Resolve(disk', q) = {k},
         NEW o, outcome' = [outcome EXCEPT ![h] = o], Checked(disk', p, req[h], loc[h], o)
  PROVE  ServedInv'
<1>1. disk \in [Block -> Content] /\ InOrder(disk) /\ disk' \in [Block -> Content] /\ InOrder(disk')
  BY DEF IInv, VariableTypes
<1>2. OwnersKnown(disk) /\ PathsKnown(disk)
  BY DEF ServedInv
<1>3. OwnersKnown(disk') /\ PathsKnown(disk')
  BY <1>1, <1>2, KnownKept
<1>4. \E x \in Writable(h) : \A b \in Block \ {x} : disk'[b] = disk[b]
  BY <1>1 DEF Rewritten
<1>5. PICK r, L : r = req[h] /\ L = loc[h]
  OBVIOUS
<1>6. Moves(h, p, r, L) /\ Checked(disk', p, r, L, o)
  BY <1>5, MovesOn
<1>7. QED
  BY <1>3, <1>4, <1>6, ServedByOne

\* A write by which the request takes effect.
LEMMA EffectServed ==
  ASSUME IInv, IInv', ServedInv, NEW h \in Handler, NEW p \in Decided, Goto(h, p), req' = req, loc' = loc,
         NEW w \in Writable(h), NEW c, Rewritten(disk, disk', w, c),
         NEW C, Apart(disk, disk', C), SameFiles(disk, disk'),
         \A k \in C : k \in TreeInodes(disk') =>
           ReadInode(disk', k).owner # NoOwner /\ \E q \in Path : Resolve(disk', q) = {k},
         outcome' = [outcome EXCEPT ![h] = "ok"]
  PROVE  ServedInv'
<1>1. Checked(disk', p, req[h], loc[h], "ok")
  BY CheckedEarly
<1>2. QED
  BY <1>1, WrittenServed

\* A write to a block that only h knows of changes nothing that a client sees.
LEMMA OutsideFacts ==
  ASSUME IInv, IInv', NEW h \in Handler, NEW w \in Carried(pc[h], req[h], loc[h]),
         NEW c, Rewritten(disk, disk', w, c), NEW C, C = {}
  PROVE  /\ w \in Writable(h) /\ Apart(disk, disk', C) /\ SameFiles(disk, disk')
         /\ TreeOf(disk') = TreeOf(disk)
<1>1. disk \in [Block -> Content] /\ InOrder(disk) /\ disk' \in [Block -> Content] /\ InOrder(disk')
  BY DEF IInv, VariableTypes
<1>2. w \in Block /\ w \notin UsedBlocks(disk)
  BY FlightFacts
<1>3. \A b \in Block \ {w} : disk'[b] = disk[b]
  BY <1>1 DEF Rewritten
<1>4. Apart(disk, disk', {})
  BY <1>1, <1>2, <1>3, OutsideWrite
<1>5. \A i \in TreeInodes(disk) : NodeIn(disk', i) = NodeIn(disk, i)
  BY <1>1, <1>2, <1>3, NodesOutside
<1>6. SameFiles(disk, disk')
  BY <1>5, SameNodesSameFiles
<1>7. TreeOf(disk') = TreeOf(disk)
  BY <1>1, <1>4, <1>5, TreeStays
<1>8. w \in Writable(h)
  BY <1>2 DEF Writable
<1>9. QED
  BY <1>4, <1>6, <1>7, <1>8

\* Then the directories that h has passed are still the same user's.
LEMMA OutsidePasses ==
  ASSUME IInv, IInv', NEW h \in Handler, pc[h] \in Modifying, NEW w \in Carried(pc[h], req[h], loc[h]),
         NEW c, Rewritten(disk, disk', w, c),
         NEW m, m \in {Len(Names(req[h])) - 1, Len(Names(req[h]))}, Passes(disk, req[h], m)
  PROVE  Passes(disk', req[h], m)
<1>1. disk \in [Block -> Content] /\ InOrder(disk) /\ disk' \in [Block -> Content] /\ InOrder(disk')
  BY DEF IInv, VariableTypes
<1>2. PICK C : C = {}
  OBVIOUS
<1>3. Apart(disk, disk', C) /\ SameFiles(disk, disk')
  BY <1>2, OutsideFacts
<1>4. req[h] \in Request /\ Resolve(disk, Names(req[h])) = {loc[h].target}
  BY TargetInTree
<1>5. PICK r \in Request : r = req[h]
  BY <1>4
<1>6. PICK x : x = loc[h].target
  OBVIOUS
<1>7. PICK q \in Seq(Name) : q = Names(r)
  BY RequestFacts
<1>8. PICK K : K = Len(q)
  OBVIOUS
<1>9. K \in 0 .. Len(q) /\ SubSeq(q, 1, K) = q
  BY <1>8, WholePath
<1>10. Resolve(disk, SubSeq(q, 1, K)) = {x} /\ x \notin C
  BY <1>2, <1>4, <1>5, <1>6, <1>7, <1>9
<1>11. Resolve(disk', SubSeq(q, 1, K)) = {x}
  BY <1>1, <1>3, <1>9, <1>10, PathKept
<1>12. m \in {K - 1, K} /\ Passes(disk, r, m)
  BY <1>5, <1>7, <1>8
<1>13. Passes(disk', r, m)
  BY <1>1, <1>3, <1>7, <1>9, <1>10, <1>11, <1>12, PassesKept
<1>14. QED
  BY <1>5, <1>13

\* Such a write is none of FileSystem's steps.
LEMMA OutsideServed ==
  ASSUME IInv, IInv', ServedInv, NEW h \in Handler, NEW p, Goto(h, p), req' = req, loc' = loc,
         outcome' = outcome, NEW w \in Carried(pc[h], req[h], loc[h]),
         NEW c, Rewritten(disk, disk', w, c), Checked(disk', p, req[h], loc[h], outcome[h])
  PROVE  ServedInv' /\ UNCHANGED FS!vars
<1>1. PICK C : C = {}
  OBVIOUS
<1>2. /\ w \in Writable(h) /\ Apart(disk, disk', C) /\ SameFiles(disk, disk')
      /\ TreeOf(disk') = TreeOf(disk)
  BY <1>1, OutsideFacts
<1>3. PICK o : o = outcome[h]
  OBVIOUS
<1>4. outcome' = [outcome EXCEPT ![h] = o] /\ Checked(disk', p, req[h], loc[h], o)
  BY <1>3 DEF IInv, VariableTypes
<1>5. \A k \in C : k \in TreeInodes(disk') =>
        ReadInode(disk', k).owner # NoOwner /\ \E q \in Path : Resolve(disk', q) = {k}
  BY <1>1
<1>6. ServedInv'
  BY <1>2, <1>4, <1>5, WrittenServed
<1>7. QED
  BY <1>2, <1>6 DEF FS!vars

-----------------------------------------------------------------------------
(* create writes *)

\* CreateWriteInode(h)
LEMMA CreateWriteInodeServed ==
  ASSUME IInv, IInv', ServedInv, NEW h \in Handler, CreateWriteInode(h)
  PROVE  ServedInv' /\ UNCHANGED FS!vars
<1> DEFINE r == req[h]
           L == loc[h]
           c == Inode(r.type, r.user, <<>>)
           m == Len(Names(r))
<1>1. pc[h] = "new_inode" /\ r \in Request /\ r.op = "create"
  <2>1. pc[h] = "new_inode"
    BY DEF CreateWriteInode
  <2>2. HandlerOK(disk, "new_inode", r, L)
    BY <2>1, Here
  <2> HIDE DEF r, L
  <2>3. QED
    BY <2>1, <2>2, AtNewInode
<1>2. /\ Goto(h, "new_entry") /\ req' = req /\ loc' = loc /\ outcome' = outcome
      /\ Rewritten(disk, disk', L.reserved, c)
  BY DEF CreateWriteInode, AfterNewInode, Rewritten
<1>3. L.reserved \in Carried(pc[h], r, L)
  BY <1>1, CarriedCreating
<1>4. outcome[h] = "none" /\ Passes(disk, r, m)
  BY <1>1, CheckedLate DEF ServedInv
<1>5. pc[h] \in Modifying
  BY <1>1 DEF Modifying
<1>6. Passes(disk', r, m)
  <2> HIDE DEF c
  <2>1. QED
    BY <1>2, <1>3, <1>4, <1>5, OutsidePasses
<1>7. Checked(disk', "new_entry", r, L, outcome[h])
  BY <1>4, <1>6, CheckedLate
<1> HIDE DEF c
<1>8. QED
  BY <1>2, <1>3, <1>7, OutsideServed

\* CreateWriteEntries(h), to a new block
LEMMA CreateWriteNewEntriesServed ==
  ASSUME IInv, IInv', ServedInv, NEW h \in Handler, CreateWriteEntries(h), loc[h].grown
  PROVE  ServedInv' /\ UNCHANGED FS!vars
<1> DEFINE r == req[h]
           L == loc[h]
           c == DirData(L.entries)
           m == Len(Names(r))
<1>1. pc[h] = "new_entry" /\ r \in Request /\ r.op = "create"
  <2>1. pc[h] = "new_entry"
    BY DEF CreateWriteEntries
  <2>2. HandlerOK(disk, "new_entry", r, L)
    BY <2>1, Here
  <2> HIDE DEF r, L
  <2>3. QED
    BY <2>1, <2>2, AtNewEntry
<1>2. /\ Goto(h, "grow") /\ req' = req /\ loc' = loc /\ outcome' = outcome
      /\ Rewritten(disk, disk', L.block, c)
  BY DEF CreateWriteEntries, Rewritten
<1>3. L.block \in Carried(pc[h], r, L)
  BY <1>1, CarriedCreating
<1>4. outcome[h] = "none" /\ Passes(disk, r, m)
  BY <1>1, CheckedLate DEF ServedInv
<1>5. pc[h] \in Modifying
  BY <1>1 DEF Modifying
<1>6. Passes(disk', r, m)
  <2> HIDE DEF c
  <2>1. QED
    BY <1>2, <1>3, <1>4, <1>5, OutsidePasses
<1>7. Checked(disk', "grow", r, L, outcome[h])
  BY <1>4, <1>6, CheckedLate
<1> HIDE DEF c
<1>8. QED
  BY <1>2, <1>3, <1>7, OutsideServed

\* The node of a file that has just been made.
LEMMA NewNode ==
  ASSUME NEW d \in [Block -> Content], NEW c \in Block, NEW r \in Request, r.op = "create",
         d[c] = Inode(r.type, r.user, <<>>)
  PROVE  NodeIn(d, c) = FS!Node(r.type, r.user, <<>>) /\ ReadInode(d, c).owner # NoOwner
<1>1. ReadInode(d, c) = Inode(r.type, r.user, <<>>)
  BY DEF ReadInode, Inode
<1>2. /\ ReadInode(d, c).type = r.type /\ ReadInode(d, c).owner = r.user /\ ReadInode(d, c).blocks = <<>>
  BY <1>1 DEF Inode
<1>3. r.type \in {"f", "d"} /\ r.user \in User
  BY RequestFacts
<1>4. [k \in 1 .. Len(ReadInode(d, c).blocks) |-> ReadValue(d, ReadInode(d, c).blocks[k])] = <<>>
  BY <1>2
<1>5. NodeIn(d, c) = [type |-> r.type, owner |-> r.user, data |-> <<>>]
  BY <1>2, <1>4 DEF NodeIn
<1>6. QED
  BY <1>2, <1>3, <1>5, NoOwnerAssumption DEF FS!Node

\* The state of a create before the write that links its file.
Making(h, r, t, c) ==
  /\ r = req[h] /\ r \in Request /\ r.op = "create" /\ outcome[h] = "none"
  /\ t \in TreeInodes(disk) /\ TypeAt(disk, t) = "d" /\ Resolve(disk, Names(r)) = {t}
  /\ c \in Block \ UsedBlocks(disk) /\ disk[c] = Inode(r.type, r.user, <<>>)
  /\ Passes(disk, r, Len(Names(r)))

\* And what that write does.
Made(h, r, t, c, w) ==
  /\ Goto(h, "reply") /\ req' = req /\ loc' = loc /\ outcome' = [outcome EXCEPT ![h] = "ok"]
  /\ w \in Writable(h) /\ (w = t \/ w \in BlocksAt(disk, t)) /\ disk'[c] = disk[c]
  /\ TypeAt(disk', t) = "d" /\ ReadInode(disk', t).owner = ReadInode(disk, t).owner
  /\ Linked(disk', t, Last(r.path), c)

\* It leaves the nodes of other files as they are.
LEMMA MadeFacts ==
  ASSUME IInv, IInv', NEW h \in Handler, NEW r, NEW t, NEW c, Making(h, r, t, c),
         NEW w, Made(h, r, t, c, w), NEW x, Rewritten(disk, disk', w, x),
         NEW C, C = {c}, Apart(disk, disk', C)
  PROVE  /\ c \notin TreeInodes(disk)
         /\ \A i \in TreeInodes(disk) : NodeIn(disk', i) = NodeIn(disk, i)
         /\ SameFiles(disk, disk')
         /\ NodeIn(disk', c) = FS!Node(r.type, r.user, <<>>) /\ ReadInode(disk', c).owner # NoOwner
<1>1. disk \in [Block -> Content] /\ InOrder(disk) /\ disk' \in [Block -> Content] /\ InOrder(disk')
  BY DEF IInv, VariableTypes
<1>2. \A b \in Block \ {w} : disk'[b] = disk[b]
  BY <1>1 DEF Rewritten
<1>3. c \notin TreeInodes(disk)
  BY <1>1, UsedFacts DEF Making
<1>4. t \in TreeInodes(disk) /\ (w = t \/ w \in BlocksAt(disk, t))
  BY DEF Making, Made
<1>5. \A i \in TreeInodes(disk) : i # t => NodeIn(disk', i) = NodeIn(disk, i)
  BY <1>1, <1>2, <1>4, OtherNodes
<1>6. NodeIn(disk', t) = NodeIn(disk, t)
  BY <1>1, DirectoryNode DEF Making, Made
<1>7. \A i \in TreeInodes(disk) : NodeIn(disk', i) = NodeIn(disk, i)
  BY <1>5, <1>6
<1>8. SameFiles(disk, disk')
  BY <1>7, SameNodesSameFiles
<1>9. NodeIn(disk', c) = FS!Node(r.type, r.user, <<>>) /\ ReadInode(disk', c).owner # NoOwner
  <2>1. c \in Block /\ r \in Request /\ r.op = "create" /\ disk'[c] = Inode(r.type, r.user, <<>>)
    BY DEF Making, Made
  <2>2. QED
    BY <1>1, <2>1, NewNode
<1>10. QED
  BY <1>3, <1>7, <1>8, <1>9

\* What a path leads to remains so when other files come and go.
LEMMA StillLeads ==
  ASSUME NEW d \in [Block -> Content], NEW e \in [Block -> Content], NEW C, Apart(d, e, C),
         InOrder(d), InOrder(e), NEW p \in Seq(Name), NEW x, x \notin C, Resolve(d, p) = {x}
  PROVE  Resolve(e, p) = {x}
<1>1. PICK n : n = Len(p)
  OBVIOUS
<1>2. n \in 0 .. Len(p) /\ SubSeq(p, 1, n) = p
  BY <1>1, WholePath
<1>3. Resolve(d, SubSeq(p, 1, n)) = {x}
  BY <1>2
<1>4. Resolve(e, SubSeq(p, 1, n)) = {x}
  BY <1>2, <1>3, PathKept
<1>5. QED
  BY <1>2, <1>4

\* The path of the request leads to the new file.
LEMMA MadePath ==
  ASSUME IInv, IInv', NEW h \in Handler, NEW r, NEW t, NEW c, Making(h, r, t, c),
         NEW w, Made(h, r, t, c, w), NEW C, C = {c}, Apart(disk, disk', C),
         NEW q \in Path, q = r.path
  PROVE  Resolve(disk', q) = {c}
<1>1. disk \in [Block -> Content] /\ InOrder(disk) /\ disk' \in [Block -> Content] /\ InOrder(disk')
  BY DEF IInv, VariableTypes
<1>2. /\ r \in Request /\ r.op = "create" /\ Resolve(disk, Names(r)) = {t} /\ c \in Block
      /\ t \notin C /\ Linked(disk', t, Last(r.path), c)
  <2>1. c \notin TreeInodes(disk)
    BY <1>1, UsedFacts DEF Making
  <2>2. QED
    BY <2>1 DEF Making, Made
<1>3. Resolve(disk', Names(r)) = {t}
  <2>1. PICK p \in Seq(Name) : p = Names(r)
    BY <1>2, RequestFacts
  <2>2. Resolve(disk, p) = {t}
    BY <1>2, <2>1
  <2>3. PICK D : D = C
    OBVIOUS
  <2>4. Apart(disk, disk', D) /\ t \notin D
    BY <1>2, <2>3
  <2>5. Resolve(disk', p) = {t}
    BY <1>1, <2>2, <2>4, StillLeads
  <2>6. QED
    BY <2>1, <2>5
<1>4. Resolve(disk', r.path) = {k \in Block : Linked(disk', t, Last(r.path), k)}
  BY <1>1, <1>2, <1>3, ResolvedName
<1>5. c \in Resolve(disk', q)
  BY <1>2, <1>4
<1>6. PICK i \in TreeInodes(disk') : Resolve(disk', q) = {i}
  BY <1>1, <1>5, PathLeads
<1>7. QED
  BY <1>5, <1>6

\* The write that links the new file is where create takes effect.
LEMMA MadeServed ==
  ASSUME IInv, IInv', ServedInv, NEW h \in Handler, NEW r, NEW t, NEW c, Making(h, r, t, c),
         NEW w, Made(h, r, t, c, w), NEW x, Rewritten(disk, disk', w, x),
         NEW C, C = {c}, Apart(disk, disk', C)
  PROVE  ServedInv' /\ FS!Apply(h)
<1>1. disk \in [Block -> Content] /\ InOrder(disk) /\ disk' \in [Block -> Content] /\ InOrder(disk')
  BY DEF IInv, VariableTypes
<1>2. r \in Request /\ r.op = "create" /\ r = req[h] /\ Passes(disk, r, Len(Names(r))) /\ outcome[h] = "none"
  BY DEF Making
<1>3. /\ c \notin TreeInodes(disk) /\ SameFiles(disk, disk')
      /\ \A i \in TreeInodes(disk) : NodeIn(disk', i) = NodeIn(disk, i)
      /\ NodeIn(disk', c) = FS!Node(r.type, r.user, <<>>) /\ ReadInode(disk', c).owner # NoOwner
  BY MadeFacts
<1>4. PICK q \in Path : q = r.path
  BY <1>2, PathFacts
<1>5. Resolve(disk', q) = {c}
  BY <1>4, MadePath
<1>6. Resolve(disk, q) = {}
  BY <1>1, <1>3, <1>5, TreeMade
<1>7. TreeOf(disk') = [TreeOf(disk) EXCEPT ![q] = NodeIn(disk', c)]
  BY <1>1, <1>3, <1>5, TreeMade
<1>8. FS!Allowed(r)
  <2>1. Len(r.path) - 1 = Len(Names(r))
    BY <1>2, NamesFacts
  <2>2. QED
    BY <1>1, <1>2, <1>4, <1>6, <2>1, CreateAllowed
<1>9. ServedInv'
  <2>1. /\ Goto(h, "reply") /\ req' = req /\ loc' = loc /\ outcome' = [outcome EXCEPT ![h] = "ok"]
        /\ w \in Writable(h)
    BY DEF Made
  <2>2. \A k \in C : k \in TreeInodes(disk') =>
          ReadInode(disk', k).owner # NoOwner /\ \E p \in Path : Resolve(disk', p) = {k}
    BY <1>3, <1>5
  <2>3. "reply" \in Decided
    BY DEF Decided
  <2>4. QED
    BY <1>3, <2>1, <2>2, <2>3, EffectServed
<1>10. FS!Apply(h)
  <2>1. req[h] # NoReq
    BY <1>2, RequestFacts
  <2>2. outcome' = [outcome EXCEPT ![h] = "ok"] /\ req' = req
    BY DEF Made
  <2>3. FS!Succeed(h, "ok", FS!Node(r.type, r.user, <<>>))
    BY <1>2, <1>3, <1>4, <1>7, <1>8, <2>2 DEF FS!Succeed
  <2>4. QED
    BY <1>2, <2>1, <2>2, <2>3 DEF FS!Apply
<1>11. QED
  BY <1>9, <1>10

\* An entry that names c, in a block of directory t.
LEMMA LinkedBySlot ==
  ASSUME NEW d, NEW t, TypeAt(d, t) = "d", NEW w \in BlocksAt(d, t), NEW j \in 1 .. DirEntries,
         NEW x, NEW c, c # 0, EntryIn(d, <<w, j>>) = [name |-> x, inode_block |-> c]
  PROVE  Linked(d, t, x, c)
<1>1. EntryIn(d, <<w, j>>).inode_block = c /\ EntryIn(d, <<w, j>>).name = x
  OBVIOUS
<1>2. <<w, j>> \in Slots(d, t)
  BY <1>1 DEF Slots
<1>3. QED
  BY <1>1, <1>2 DEF Linked

\* What create writes to a block of entries.
LEMMA EntryWritten ==
  ASSUME NEW d, NEW w, NEW entries \in [1 .. DirEntries -> DirEntry], NEW j \in 1 .. DirEntries,
         NEW r \in Request, NEW L, L.reserved \in Block \ {0}, d[w] = DirData(Linking(entries, j, r, L))
  PROVE  EntryIn(d, <<w, j>>) = [name |-> Last(r.path), inode_block |-> L.reserved]
<1>1. PICK E : E = Linking(entries, j, r, L)
  OBVIOUS
<1>2. E[j] = [name |-> Last(r.path), inode_block |-> L.reserved]
  BY <1>1, LinkingFacts
<1>3. ReadEntries(d, w) = E
  BY <1>1 DEF ReadEntries, DirData
<1>4. EntryIn(d, <<w, j>>) = ReadEntries(d, w)[j]
  BY DEF EntryIn
<1>5. QED
  BY <1>2, <1>3, <1>4

\* A create that is about to write its entry.
LEMMA MakingFacts ==
  ASSUME IInv, ServedInv, NEW h \in Handler, pc[h] \in {"new_entry", "grow"}
  PROVE  /\ Making(h, req[h], loc[h].target, loc[h].reserved)
         /\ loc[h].reserved \in Block \ {0} /\ loc[h].reserved \in Block \ UsedBlocks(disk)
         /\ loc[h].grown => loc[h].block \in Block /\ loc[h].block \notin UsedBlocks(disk)
         /\ Linkable(disk, loc[h].target, req[h], loc[h])
         /\ loc[h].target \in TreeInodes(disk) /\ loc[h].target \in Writable(h)
         /\ \A w \in BlocksAt(disk, loc[h].target) : w \in Writable(h)
<1> DEFINE r == req[h]
           L == loc[h]
           t == L.target
<1>1. /\ r \in Request /\ r.op = "create" /\ Resolve(disk, Names(r)) = {t} /\ TypeAt(disk, t) = "d"
      /\ disk[L.reserved] = Inode(r.type, r.user, <<>>)
  <2>1. HandlerOK(disk, pc[h], r, L)
    BY Here
  <2>2. CASE pc[h] = "new_entry"
    <3>1. HandlerOK(disk, "new_entry", r, L)
      BY <2>1, <2>2
    <3> HIDE DEF r, L
    <3>2. QED
      BY <3>1, AtNewEntry
  <2>3. CASE pc[h] = "grow"
    <3>1. HandlerOK(disk, "grow", r, L)
      BY <2>1, <2>3
    <3> HIDE DEF r, L
    <3>2. QED
      BY <3>1, AtGrow
  <2>4. QED
    BY <2>2, <2>3
<1>2. \A s \in Slots(disk, t) : EntryIn(disk, s).name # Last(r.path)
  <2>1. HandlerOK(disk, pc[h], r, L)
    BY Here
  <2>2. CASE pc[h] = "new_entry"
    <3>1. HandlerOK(disk, "new_entry", r, L)
      BY <2>1, <2>2
    <3> HIDE DEF r, L
    <3>2. QED
      BY <3>1, AtNewEntry
  <2>3. CASE pc[h] = "grow"
    <3>1. HandlerOK(disk, "grow", r, L)
      BY <2>1, <2>3
    <3> HIDE DEF r, L
    <3>2. QED
      BY <3>1, AtGrow
  <2>4. QED
    BY <2>2, <2>3
<1>3. outcome[h] = "none" /\ Passes(disk, r, Len(Names(r)))
  <2>1. Checked(disk, pc[h], r, L, outcome[h])
    BY <1>1, ServedFacts
  <2>2. PICK p \in {"new_entry", "grow"} : p = pc[h]
    OBVIOUS
  <2>3. Checked(disk, p, r, L, outcome[h])
    BY <2>1, <2>2
  <2> HIDE DEF r, L
  <2>4. QED
    BY <2>3, CheckedLate
<1>4. pc[h] \in OwnsTarget
  BY DEF OwnsTarget, Creating
<1>5. /\ t \in TreeInodes(disk) /\ t \in Writable(h)
      /\ \A w \in BlocksAt(disk, t) : w \in Writable(h)
  BY <1>4, OwnWritable
<1>6. /\ L.reserved \in Carried(pc[h], r, L)
      /\ L.grown => L.block \in Carried(pc[h], r, L)
  BY <1>1, CarriedCreating
<1>7. Carried(pc[h], r, L) \subseteq Block /\ Carried(pc[h], r, L) \cap UsedBlocks(disk) = {}
  BY FlightFacts
<1>8. 0 \in UsedBlocks(disk)
  BY Here, UsedFacts
<1>9. /\ L.reserved \in Block \ {0} /\ L.reserved \in Block \ UsedBlocks(disk)
      /\ L.grown => L.block \in Block /\ L.block \notin UsedBlocks(disk)
  BY <1>6, <1>7, <1>8
<1>10. Making(h, r, t, L.reserved)
  BY <1>1, <1>3, <1>5, <1>9 DEF Making
<1>11. Linkable(disk, t, r, L)
  BY <1>1, <1>2, <1>5, <1>9 DEF Linkable
<1>12. QED
  BY <1>5, <1>9, <1>10, <1>11

\* CreateWriteEntries(h), to a block of the directory
LEMMA CreateWriteOldEntriesServed ==
  ASSUME IInv, IInv', ServedInv, NEW h \in Handler, CreateWriteEntries(h), ~loc[h].grown
  PROVE  ServedInv' /\ FS!Apply(h)
<1> DEFINE r == req[h]
           L == loc[h]
           t == L.target
           c == L.reserved
           w == L.block
<1>1. pc[h] = "new_entry" /\ HandlerOK(disk, "new_entry", r, L)
  <2>1. pc[h] = "new_entry"
    BY DEF CreateWriteEntries
  <2>2. QED
    BY <2>1, Here
<1>2. r \in Request /\ TypeAt(disk, t) = "d" /\ w \in BlocksAt(disk, t)
  <2> HIDE DEF r, L
  <2>1. QED
    BY <1>1, AtNewEntry DEF L
<1>3. PICK j \in 1 .. DirEntries : /\ EntryIn(disk, <<w, j>>).inode_block = 0
                                   /\ L.entries = Linking(ReadEntries(disk, w), j, r, L)
  <2> HIDE DEF r, L
  <2>1. \E j \in 1 .. DirEntries : /\ EntryIn(disk, <<L.block, j>>).inode_block = 0
                                   /\ L.entries = Linking(ReadEntries(disk, L.block), j, r, L)
    BY <1>1, AtNewEntry DEF L
  <2>2. QED
    BY <2>1
<1>4. /\ Goto(h, "reply") /\ req' = req /\ loc' = loc /\ outcome' = [outcome EXCEPT ![h] = "ok"]
      /\ disk' = [disk EXCEPT ![w] = DirData(L.entries)]
  BY DEF CreateWriteEntries, DoneLocked
<1>5. /\ Making(h, r, t, c) /\ c \in Block \ {0} /\ c \in Block \ UsedBlocks(disk)
      /\ Linkable(disk, t, r, L) /\ t \in TreeInodes(disk) /\ w \in Writable(h)
  BY <1>1, <1>2, MakingFacts
<1>6. PICK C : C = {c}
  OBVIOUS
<1>7. Rewritten(disk, disk', w, DirData(Linking(ReadEntries(disk, w), j, r, L)))
  BY <1>3, <1>4 DEF Rewritten
<1>8. disk \in [Block -> Content] /\ InOrder(disk) /\ disk' \in [Block -> Content]
  BY DEF IInv, VariableTypes
<1>9. Apart(disk, disk', C)
  <2> HIDE DEF r, L, t, w
  <2>1. QED
    BY <1>2, <1>3, <1>5, <1>6, <1>7, <1>8, LinkInPlace DEF c
<1>10. \A b \in Block \ {w} : disk'[b] = disk[b]
  BY <1>4, <1>8
<1>11. /\ w \in Block /\ w \in UsedBlocks(disk) /\ ReadInode(disk', t) = ReadInode(disk, t)
       /\ TypeAt(disk', t) = TypeAt(disk, t) /\ BlocksAt(disk', t) = BlocksAt(disk, t)
  <2> HIDE DEF w, t
  <2>1. QED
    BY <1>2, <1>5, <1>8, <1>10, TouchBlock
<1>12. Linked(disk', t, Last(r.path), c)
  <2>1. disk'[w] = DirData(Linking(ReadEntries(disk, w), j, r, L))
    BY <1>3, <1>4, <1>8, <1>11
  <2>2. ReadEntries(disk, w) \in [1 .. DirEntries -> DirEntry]
    BY <1>8, <1>11, ReadDataFacts
  <2> HIDE DEF r, L, w, t
  <2>3. EntryIn(disk', <<w, j>>) = [name |-> Last(r.path), inode_block |-> c]
    BY <1>2, <1>5, <2>1, <2>2, EntryWritten DEF c
  <2> HIDE DEF c
  <2>4. QED
    BY <1>2, <1>5, <1>11, <2>3, LinkedBySlot
<1>13. disk'[c] = disk[c]
  BY <1>5, <1>10, <1>11
<1>14. Made(h, r, t, c, w)
  BY <1>2, <1>4, <1>5, <1>11, <1>12, <1>13 DEF Made
<1>15. QED
  BY <1>5, <1>6, <1>7, <1>9, <1>14, MadeServed

\* CreateWriteEntries(h)
LEMMA CreateWriteEntriesServed ==
  ASSUME IInv, IInv', ServedInv, NEW h \in Handler, CreateWriteEntries(h)
  PROVE  ServedInv' /\ (UNCHANGED FS!vars \/ FS!Apply(h))
<1>1. CASE loc[h].grown
  BY <1>1, CreateWriteNewEntriesServed
<1>2. CASE ~loc[h].grown
  BY <1>2, CreateWriteOldEntriesServed
<1>3. QED
  BY <1>1, <1>2

\* CreateWriteParent(h)
LEMMA CreateWriteParentServed ==
  ASSUME IInv, IInv', ServedInv, NEW h \in Handler, CreateWriteParent(h)
  PROVE  ServedInv' /\ FS!Apply(h)
<1> DEFINE r == req[h]
           L == loc[h]
           t == L.target
           c == L.reserved
           w == L.block
           inode == ReadInode(disk, t)
<1>1. pc[h] = "grow" /\ HandlerOK(disk, "grow", r, L)
  <2>1. pc[h] = "grow"
    BY DEF CreateWriteParent
  <2>2. QED
    BY <2>1, Here
<1>2. /\ r \in Request /\ TypeAt(disk, t) = "d" /\ L.grown
      /\ L.inode = Longer(inode, w) /\ Len(inode.blocks) < MaxFileBlocks
      /\ w # c /\ disk[w] = DirData(L.entries)
  <2> HIDE DEF r, L
  <2>1. QED
    BY <1>1, AtGrow DEF L
<1>3. PICK j \in 1 .. DirEntries : L.entries = Linking(NoEntries, j, r, L)
  BY <1>1, AtGrow
<1>4. /\ Goto(h, "reply") /\ req' = req /\ loc' = loc /\ outcome' = [outcome EXCEPT ![h] = "ok"]
      /\ disk' = [disk EXCEPT ![t] = L.inode]
  BY DEF CreateWriteParent, DoneLocked
<1>5. /\ Making(h, r, t, c) /\ c \in Block \ {0} /\ c \in Block \ UsedBlocks(disk)
      /\ Linkable(disk, t, r, L) /\ t \in TreeInodes(disk) /\ t \in Writable(h)
      /\ w \in Block /\ w \notin UsedBlocks(disk)
  BY <1>1, <1>2, MakingFacts
<1>6. PICK C : C = {c}
  OBVIOUS
<1>7. Rewritten(disk, disk', t, Longer(inode, w))
  BY <1>2, <1>4 DEF Rewritten
<1>8. disk \in [Block -> Content] /\ InOrder(disk) /\ disk' \in [Block -> Content]
  BY DEF IInv, VariableTypes
<1>9. disk[w] = DirData(Linking(NoEntries, j, r, L))
  BY <1>2, <1>3
<1>10. Apart(disk, disk', C)
  <2> HIDE DEF r, L, t, w
  <2>1. QED
    BY <1>2, <1>5, <1>6, <1>7, <1>8, <1>9, LinkInNewBlock DEF c
<1>11. \A b \in Block \ {t} : disk'[b] = disk[b]
  BY <1>4, <1>8
<1>12. t \in Block /\ t \in UsedBlocks(disk)
  BY <1>5, <1>8, TreeClosed, UsedFacts
<1>13. /\ TypeAt(disk', t) = "d" /\ ReadInode(disk', t).owner = inode.owner /\ w \in BlocksAt(disk', t)
  <2>1. /\ Longer(inode, w).type = TypeAt(disk, t) /\ Longer(inode, w).kind = "inode"
        /\ ToSet(Longer(inode, w).blocks) = BlocksAt(disk, t) \cup {w}
    <3>1. /\ TypeAt(disk, t) \in {"f", "d"} /\ Len(ReadInode(disk, t).blocks) < MaxFileBlocks
          /\ t \in Block /\ w \in Block
      BY <1>2, <1>5, <1>12
    <3> HIDE DEF t, w
    <3>2. QED
      BY <1>8, <3>1, LongerFacts DEF inode
  <2>2. inode.owner = Longer(inode, w).owner
    <3>1. inode = Inode(inode.type, inode.owner, inode.blocks)
      BY <1>8, <1>12, ReadInodeFacts, InodeFacts
    <3> HIDE DEF inode, w
    <3>2. QED
      BY <3>1 DEF Longer, Inode
  <2>3. disk'[t] = Longer(inode, w)
    BY <1>2, <1>4, <1>8, <1>12
  <2> HIDE DEF inode, w, t
  <2>4. ReadInode(disk', t) = Longer(inode, w)
    BY <2>1, <2>3 DEF ReadInode
  <2>5. QED
    BY <1>2, <2>1, <2>2, <2>4 DEF TypeAt, BlocksAt
<1>14. Linked(disk', t, Last(r.path), c)
  <2>1. disk'[w] = DirData(Linking(NoEntries, j, r, L))
    BY <1>5, <1>9, <1>11, <1>12
  <2>2. NoEntries \in [1 .. DirEntries -> DirEntry]
    BY DEF NoEntries, DirEntry
  <2> HIDE DEF r, L, w, t
  <2>3. EntryIn(disk', <<w, j>>) = [name |-> Last(r.path), inode_block |-> c]
    BY <1>2, <1>5, <2>1, <2>2, EntryWritten DEF c
  <2> HIDE DEF c
  <2>4. QED
    BY <1>5, <1>13, <2>3, LinkedBySlot
<1>15. disk'[c] = disk[c]
  BY <1>5, <1>11, <1>12
<1>16. Made(h, r, t, c, t)
  BY <1>4, <1>5, <1>13, <1>14, <1>15 DEF Made
<1>17. QED
  BY <1>5, <1>6, <1>7, <1>10, <1>16, MadeServed

\* The state of a delete before the write that removes the file's entry.
Removing(h, r, t, c) ==
  /\ r = req[h] /\ r \in Request /\ r.op = "delete" /\ outcome[h] = "none"
  /\ t \in TreeInodes(disk) /\ TypeAt(disk, t) = "d" /\ c \in TreeInodes(disk)
  /\ Resolve(disk, r.path) = {c} /\ ReadInode(disk, c).owner = r.user /\ Slots(disk, c) = {}
  /\ Passes(disk, r, Len(r.path) - 1)

\* And what that write does.
Removed(h, p, t, c, w) ==
  /\ p \in Decided /\ Goto(h, p) /\ req' = req /\ loc' = loc /\ outcome' = [outcome EXCEPT ![h] = "ok"]
  /\ w \in Writable(h) /\ (w = t \/ w \in BlocksAt(disk, t))
  /\ TypeAt(disk', t) = "d" /\ ReadInode(disk', t).owner = ReadInode(disk, t).owner
  /\ \E B : Loses(disk, disk', c, B)

\* The write that removes the entry is where delete takes effect.
LEMMA RemovedServed ==
  ASSUME IInv, IInv', ServedInv, NEW h \in Handler, NEW r, NEW t, NEW c, Removing(h, r, t, c),
         NEW p, NEW w, Removed(h, p, t, c, w), NEW x, Rewritten(disk, disk', w, x),
         NEW C, C = {c}, Apart(disk, disk', C)
  PROVE  ServedInv' /\ FS!Apply(h)
<1>1. /\ disk \in [Block -> Content] /\ InOrder(disk) /\ disk' \in [Block -> Content] /\ InOrder(disk')
      /\ PathsKnown(disk)
  BY DEF IInv, VariableTypes, ServedInv
<1>2. \A b \in Block \ {w} : disk'[b] = disk[b]
  BY <1>1 DEF Rewritten
<1>3. c \notin TreeInodes(disk')
  <2>1. c \notin UsedBlocks(disk')
    BY DEF Removed, Loses
  <2>2. QED
    BY <1>1, <2>1, UsedFacts
<1>4. t \in TreeInodes(disk) /\ (w = t \/ w \in BlocksAt(disk, t))
  BY DEF Removing, Removed
<1>5. \A i \in TreeInodes(disk) : i # t => NodeIn(disk', i) = NodeIn(disk, i)
  BY <1>1, <1>2, <1>4, OtherNodes
<1>6. NodeIn(disk', t) = NodeIn(disk, t)
  BY <1>1, DirectoryNode DEF Removing, Removed
<1>7. \A i \in TreeInodes(disk) : i # c => NodeIn(disk', i) = NodeIn(disk, i)
  BY <1>5, <1>6
<1>8. SameFiles(disk, disk')
  <2>1. \A i \in TreeInodes(disk) : i \in TreeInodes(disk') => NodeIn(disk', i) = NodeIn(disk, i)
    BY <1>5, <1>6
  <2>2. QED
    BY <2>1, SameNodesSameFiles
<1>9. r \in Request /\ r.op = "delete" /\ r = req[h] /\ outcome[h] = "none"
  BY DEF Removing
<1>10. PICK q \in Path : q = r.path
  BY <1>9, PathFacts
<1>11. Resolve(disk, q) = {c}
  BY <1>10 DEF Removing
<1>12. TreeOf(disk') = [TreeOf(disk) EXCEPT ![q] = Absent]
  BY <1>1, <1>3, <1>7, <1>11, TreeRemoved
<1>13. FS!Allowed(r)
  <2>1. /\ Resolve(disk, r.path) = {c} /\ Passes(disk, r, Len(r.path) - 1)
        /\ ReadInode(disk, c).owner = r.user /\ Slots(disk, c) = {}
    BY DEF Removing
  <2>2. QED
    BY <1>1, <1>9, <2>1, DeleteAllowed
<1>14. ServedInv'
  <2>1. /\ p \in Decided /\ Goto(h, p) /\ req' = req /\ loc' = loc
        /\ outcome' = [outcome EXCEPT ![h] = "ok"] /\ w \in Writable(h)
    BY DEF Removed
  <2>2. \A k \in C : k \in TreeInodes(disk') =>
          ReadInode(disk', k).owner # NoOwner /\ \E s \in Path : Resolve(disk', s) = {k}
    BY <1>3
  <2>3. QED
    BY <1>8, <2>1, <2>2, EffectServed
<1>15. FS!Apply(h)
  <2>1. req[h] # NoReq
    BY <1>9, RequestFacts
  <2>2. outcome' = [outcome EXCEPT ![h] = "ok"] /\ req' = req
    BY DEF Removed
  <2>3. FS!Succeed(h, "ok", Absent)
    BY <1>9, <1>10, <1>12, <1>13, <2>2 DEF FS!Succeed
  <2>4. QED
    BY <1>9, <2>1, <2>2, <2>3 DEF FS!Apply
<1>16. QED
  BY <1>14, <1>15

\* A delete that is about to remove the entry.
LEMMA RemovingFacts ==
  ASSUME IInv, ServedInv, NEW h \in Handler, pc[h] \in {"clear", "shrink"}
  PROVE  Removing(h, req[h], loc[h].target, loc[h].child)
<1> DEFINE r == req[h]
           L == loc[h]
           t == L.target
           c == L.child
           s == EntrySlot(L)
<1>1. disk \in [Block -> Content] /\ InOrder(disk)
  BY Here
<1>2. Unlinkable(disk, t, s, c) /\ L.old = ReadInode(disk, c)
  BY UnlinkingFacts
<1>3. t \in TreeInodes(disk) /\ TypeAt(disk, t) = "d" /\ c \in TreeInodes(disk) /\ Slots(disk, c) = {}
  <2> HIDE DEF r, L, t, c, s
  <2>1. QED
    BY <1>1, <1>2, UnlinkFacts
<1>4. /\ r \in Request /\ r.op = "delete" /\ Resolve(disk, r.path) = {c}
      /\ outcome[h] = "none" /\ Passes(disk, r, Len(r.path) - 1)
  BY ChildResolved
<1>5. L.old.owner = r.user
  <2>1. pc[h] # "idle"
    OBVIOUS
  <2>2. Checked(disk, pc[h], r, L, outcome[h])
    BY <2>1, ServedFacts
  <2>3. PICK p \in {"clear", "shrink"} : p = pc[h]
    OBVIOUS
  <2>4. Checked(disk, p, r, L, outcome[h])
    BY <2>2, <2>3
  <2> HIDE DEF r, L
  <2>5. QED
    BY <2>4, CheckedLate
<1>6. QED
  BY <1>2, <1>3, <1>4, <1>5 DEF Removing

\* DeleteWriteEntries(h)
LEMMA DeleteWriteEntriesServed ==
  ASSUME IInv, IInv', ServedInv, NEW h \in Handler, DeleteWriteEntries(h)
  PROVE  ServedInv' /\ FS!Apply(h)
<1> DEFINE r == req[h]
           L == loc[h]
           t == L.target
           c == L.child
           s == EntrySlot(L)
<1>1. pc[h] = "clear" /\ HandlerOK(disk, "clear", r, L)
  <2>1. pc[h] = "clear"
    BY DEF DeleteWriteEntries
  <2>2. QED
    BY <2>1, Here
<1>2. L.entries = Cleared(ReadEntries(disk, L.block), L.place[2]) /\ L.entries # NoEntries
  <2> HIDE DEF r, L
  <2>1. QED
    BY <1>1, AtClear
<1>3. s[1] = L.block /\ s[2] = L.place[2] /\ Unlinkable(disk, t, s, c)
  BY <1>1, UnlinkingFacts
<1>4. L.block \in Writable(h) /\ L.block \in BlocksAt(disk, t) /\ t \in TreeInodes(disk)
  BY <1>1, UnlinkedFacts
<1>5. PICK C : C = {c}
  OBVIOUS
<1>6. /\ disk' = [disk EXCEPT ![L.block] = DirData(L.entries)]
      /\ outcome' = [outcome EXCEPT ![h] = "ok"] /\ Goto(h, "free") /\ req' = req /\ loc' = loc
  BY DEF DeleteWriteEntries
<1>7. Rewritten(disk, disk', s[1], DirData(Cleared(ReadEntries(disk, s[1]), s[2])))
  BY <1>2, <1>3, <1>6 DEF Rewritten
<1>8. disk \in [Block -> Content] /\ InOrder(disk) /\ disk' \in [Block -> Content]
  BY DEF IInv, VariableTypes
<1>9. Apart(disk, disk', C) /\ Loses(disk, disk', c, {})
  <2>1. Cleared(ReadEntries(disk, s[1]), s[2]) # NoEntries
    BY <1>2, <1>3
  <2> HIDE DEF r, L, t, c, s
  <2>2. Apart(disk, disk', C)
    BY <1>3, <1>5, <1>7, <1>8, <2>1, UnlinkInPlace
  <2>3. Loses(disk, disk', c, {})
    BY <1>3, <1>5, <1>7, <1>8, <2>1, UnlinkInPlace
  <2>4. QED
    BY <2>2, <2>3
<1>10. Removing(h, r, t, c)
  BY <1>1, RemovingFacts
<1>11. TypeAt(disk', t) = "d" /\ ReadInode(disk', t).owner = ReadInode(disk, t).owner
  <2>1. PICK w : w = L.block
    OBVIOUS
  <2>2. \A b \in Block \ {w} : disk'[b] = disk[b]
    BY <1>6, <1>8, <2>1
  <2>3. w \in BlocksAt(disk, t) /\ t \in TreeInodes(disk) /\ TypeAt(disk, t) = "d"
    BY <1>4, <1>10, <2>1 DEF Removing
  <2> HIDE DEF t, L
  <2>4. QED
    BY <1>8, <2>2, <2>3, TouchBlock
<1>12. "free" \in Decided
  BY DEF Decided
<1>13. Removed(h, "free", t, c, L.block)
  <2>1. \E B : Loses(disk, disk', c, B)
    BY <1>9
  <2>2. QED
    BY <1>4, <1>6, <1>11, <1>12, <2>1 DEF Removed
<1>14. QED
  BY <1>3, <1>5, <1>7, <1>9, <1>10, <1>13, RemovedServed

\* DeleteShrink(h)
LEMMA DeleteShrinkServed ==
  ASSUME IInv, IInv', ServedInv, NEW h \in Handler, DeleteShrink(h)
  PROVE  ServedInv' /\ FS!Apply(h)
<1> DEFINE r == req[h]
           L == loc[h]
           t == L.target
           c == L.child
           s == EntrySlot(L)
           n == L.place[1]
<1>1. pc[h] = "shrink" /\ HandlerOK(disk, "shrink", r, L)
  <2>1. pc[h] = "shrink"
    BY DEF DeleteShrink
  <2>2. QED
    BY <2>1, Here
<1>2. /\ Cleared(ReadEntries(disk, L.block), L.place[2]) = NoEntries
      /\ L.inode = Shorter(ReadInode(disk, t), n)
  <2> HIDE DEF r, L
  <2>1. QED
    BY <1>1, AtShrink
<1>3. /\ s[1] = L.block /\ s[2] = L.place[2] /\ Unlinkable(disk, t, s, c)
      /\ n \in 1 .. Len(ReadInode(disk, t).blocks) /\ L.block = ReadInode(disk, t).blocks[n]
  BY <1>1, UnlinkingFacts
<1>4. t \in TreeInodes(disk) /\ t \in Writable(h)
  BY <1>1, UnlinkedFacts
<1>5. PICK C : C = {c}
  OBVIOUS
<1>6. PICK B : B = {s[1]}
  OBVIOUS
<1>7. /\ disk' = [disk EXCEPT ![t] = L.inode]
      /\ outcome' = [outcome EXCEPT ![h] = "ok"] /\ Goto(h, "free_entries") /\ req' = req /\ loc' = loc
  BY DEF DeleteShrink
<1>8. Rewritten(disk, disk', t, Shorter(ReadInode(disk, t), n))
  BY <1>2, <1>7 DEF Rewritten
<1>9. disk \in [Block -> Content] /\ InOrder(disk) /\ disk' \in [Block -> Content]
  BY DEF IInv, VariableTypes
<1>10. Apart(disk, disk', C) /\ Loses(disk, disk', c, B) /\ IsInjective(ReadInode(disk, t).blocks) /\ t \in Block
  <2>1. Cleared(ReadEntries(disk, s[1]), s[2]) = NoEntries /\ ReadInode(disk, t).blocks[n] = s[1]
    BY <1>2, <1>3
  <2> HIDE DEF r, L, t, c, s, n
  <2>2. Apart(disk, disk', C)
    BY <1>3, <1>5, <1>6, <1>8, <1>9, <2>1, UnlinkWithBlock
  <2>3. Loses(disk, disk', c, B)
    BY <1>3, <1>5, <1>6, <1>8, <1>9, <2>1, UnlinkWithBlock
  <2>4. IsInjective(ReadInode(disk, t).blocks) /\ t \in Block
    BY <1>3, <1>9, UnlinkFacts
  <2>5. QED
    BY <2>2, <2>3, <2>4
<1>11. Removing(h, r, t, c)
  BY <1>1, RemovingFacts
<1>12. TypeAt(disk', t) = "d" /\ ReadInode(disk', t).owner = ReadInode(disk, t).owner
  <2>1. TypeAt(disk, t) = "d"
    BY <1>11 DEF Removing
  <2>2. PICK inode : inode = ReadInode(disk, t)
    OBVIOUS
  <2>3. Shorter(inode, n).type = "d" /\ Shorter(inode, n).kind = "inode"
    <3>1. n \in 1 .. Len(ReadInode(disk, t).blocks)
      BY <1>3
    <3> HIDE DEF n, t
    <3>2. QED
      BY <1>9, <1>10, <2>1, <2>2, <3>1, ShorterFacts
  <2>4. inode.owner = Shorter(inode, n).owner
    <3>1. inode = Inode(inode.type, inode.owner, inode.blocks)
      BY <1>9, <1>10, <2>2, ReadInodeFacts, InodeFacts
    <3> HIDE DEF n
    <3>2. QED
      BY <3>1 DEF Shorter, Inode
  <2>5. disk'[t] = Shorter(inode, n)
    BY <1>2, <1>7, <1>9, <1>10, <2>2
  <2> HIDE DEF n, t
  <2>6. ReadInode(disk', t) = Shorter(inode, n)
    BY <2>3, <2>5 DEF ReadInode
  <2>7. QED
    BY <2>2, <2>3, <2>4, <2>6 DEF TypeAt
<1>13. "free_entries" \in Decided
  BY DEF Decided
<1>14. Removed(h, "free_entries", t, c, t)
  <2>1. \E D : Loses(disk, disk', c, D)
    BY <1>10
  <2>2. QED
    BY <1>4, <1>7, <1>12, <1>13, <2>1 DEF Removed
<1>15. QED
  BY <1>5, <1>8, <1>10, <1>11, <1>14, RemovedServed

\* Value v has come into the n-th block of file t.
DataWritten(d, e, t, n, v) ==
  LET b == ReadInode(d, t).blocks
      c == ReadInode(e, t).blocks
  IN  /\ 1 .. Len(c) = (1 .. Len(b)) \cup {n}
      /\ \A k \in 1 .. Len(c) : ReadValue(e, c[k]) = IF k = n THEN v ELSE ReadValue(d, b[k])

\* The node of a file with a new value in its n-th block, as FileSystem has it.
WithValue(N, n, v) ==
  [N EXCEPT !.data = [k \in (1 .. Len(N.data)) \cup {n} |-> IF k = n THEN v ELSE N.data[k]]]

\* The file's node is then that one.
LEMMA NodeWritten ==
  ASSUME NEW d \in [Block -> Content], NEW e \in [Block -> Content], NEW t \in Block,
         TypeAt(d, t) = "f", TypeAt(e, t) = "f", ReadInode(e, t).owner = ReadInode(d, t).owner,
         NEW n, NEW v, DataWritten(d, e, t, n, v), NEW N, N = NodeIn(d, t)
  PROVE  NodeIn(e, t) = WithValue(N, n, v)
<1>1. PICK b : b = ReadInode(d, t).blocks
  OBVIOUS
<1>2. PICK c : c = ReadInode(e, t).blocks
  OBVIOUS
<1>3. /\ 1 .. Len(c) = (1 .. Len(b)) \cup {n}
      /\ \A k \in 1 .. Len(c) : ReadValue(e, c[k]) = IF k = n THEN v ELSE ReadValue(d, b[k])
  BY <1>1, <1>2 DEF DataWritten
<1>4. Len(b) \in Nat
  BY <1>1, ReadInodeFacts
<1>5. N = [type |-> "f", owner |-> ReadInode(d, t).owner, data |-> [k \in 1 .. Len(b) |-> ReadValue(d, b[k])]]
  BY <1>1 DEF NodeIn, TypeAt
<1>6. NodeIn(e, t) = [type |-> "f", owner |-> ReadInode(d, t).owner, data |-> [k \in 1 .. Len(c) |-> ReadValue(e, c[k])]]
  BY <1>2 DEF NodeIn, TypeAt
<1>7. Len(N.data) = Len(b) /\ \A k \in 1 .. Len(b) : N.data[k] = ReadValue(d, b[k])
  BY <1>4, <1>5
<1>8. [k \in 1 .. Len(c) |-> ReadValue(e, c[k])]
        = [k \in (1 .. Len(N.data)) \cup {n} |-> IF k = n THEN v ELSE N.data[k]]
  BY <1>3, <1>7
<1>9. PICK D : D = [k \in (1 .. Len(N.data)) \cup {n} |-> IF k = n THEN v ELSE N.data[k]]
  OBVIOUS
<1>10. NodeIn(e, t) = [type |-> "f", owner |-> ReadInode(d, t).owner, data |-> D]
  BY <1>6, <1>8, <1>9
<1>11. WithValue(N, n, v) = [N EXCEPT !.data = D]
  BY <1>9 DEF WithValue
<1>12. [N EXCEPT !.data = D] = [type |-> "f", owner |-> ReadInode(d, t).owner, data |-> D]
  BY <1>5
<1>13. QED
  BY <1>10, <1>11, <1>12

\* A block of a file is overwritten.
LEMMA OverwrittenData ==
  ASSUME NEW d \in [Block -> Content], NEW e \in [Block -> Content], InOrder(d),
         NEW t \in TreeInodes(d), TypeAt(d, t) = "f", NEW n \in 1 .. Len(ReadInode(d, t).blocks),
         NEW w, ReadInode(d, t).blocks[n] = w, NEW v, Rewritten(d, e, w, FileData(v))
  PROVE  /\ DataWritten(d, e, t, n, v)
         /\ TypeAt(e, t) = "f" /\ ReadInode(e, t).owner = ReadInode(d, t).owner
         /\ w \in BlocksAt(d, t)
<1>1. PICK b : b = ReadInode(d, t).blocks
  OBVIOUS
<1>2. t \in Block
  BY TreeClosed
<1>3. w \in BlocksAt(d, t) /\ w \in Block /\ b \in Seq(Block) /\ Len(b) \in Nat /\ n \in 1 .. Len(b)
  BY <1>1, <1>2, ReadInodeFacts
<1>4. \A k \in Block \ {w} : e[k] = d[k]
  BY DEF Rewritten
<1>5. ReadInode(e, t) = ReadInode(d, t) /\ TypeAt(e, t) = TypeAt(d, t)
  <2>1. PICK u \in BlocksAt(d, t) : u = w
    BY <1>3
  <2>2. \A k \in Block \ {u} : e[k] = d[k]
    BY <1>4, <2>1
  <2>3. ASSUME NEW f \in [Block -> Content], \A k \in Block \ {u} : f[k] = d[k]
        PROVE  ReadInode(f, t) = ReadInode(d, t) /\ TypeAt(f, t) = TypeAt(d, t)
    BY <2>3, TouchBlock
  <2>4. QED
    BY <2>2, <2>3
<1>6. ASSUME NEW k \in 1 .. Len(b)
      PROVE  ReadValue(e, b[k]) = IF k = n THEN v ELSE ReadValue(d, b[k])
  <2>1. CASE k = n
    <3>1. e[w] = FileData(v) /\ b[k] = w
      BY <1>1, <1>3, <2>1 DEF Rewritten
    <3>2. QED
      BY <2>1, <3>1 DEF ReadValue, FileData
  <2>2. CASE k # n
    <3>1. IsInjective(b)
      BY <1>1 DEF InOrder
    <3>2. b[k] # b[n]
      BY <1>3, <2>2, <3>1 DEF IsInjective
    <3>3. b[k] \in Block \ {w}
      BY <1>1, <1>3, <3>2
    <3>4. QED
      BY <1>4, <2>2, <3>3 DEF ReadValue
  <2>3. QED
    BY <2>1, <2>2
<1>7. DataWritten(d, e, t, n, v)
  <2>1. 1 .. Len(b) = (1 .. Len(b)) \cup {n}
    BY <1>3
  <2>2. QED
    BY <1>1, <1>5, <1>6, <2>1 DEF DataWritten
<1>8. QED
  BY <1>3, <1>5, <1>7

\* A block is added to a file.
LEMMA ExtendedData ==
  ASSUME NEW d \in [Block -> Content], NEW e \in [Block -> Content], InOrder(d),
         NEW t \in TreeInodes(d), TypeAt(d, t) = "f", Len(ReadInode(d, t).blocks) < MaxFileBlocks,
         NEW x \in Block, x \notin UsedBlocks(d), NEW v, d[x] = FileData(v),
         Rewritten(d, e, t, Longer(ReadInode(d, t), x)), NEW n, n = Len(ReadInode(d, t).blocks) + 1
  PROVE  /\ DataWritten(d, e, t, n, v)
         /\ TypeAt(e, t) = "f" /\ ReadInode(e, t).owner = ReadInode(d, t).owner
<1>1. PICK inode : inode = ReadInode(d, t)
  OBVIOUS
<1>2. PICK b : b = inode.blocks
  OBVIOUS
<1>3. t \in Block /\ t \in UsedBlocks(d)
  BY TreeClosed, UsedFacts
<1>4. /\ Longer(inode, x).type = "f" /\ Longer(inode, x).kind = "inode"
      /\ Longer(inode, x).blocks = Append(b, x)
  BY <1>1, <1>2, <1>3, LongerFacts
<1>5. Longer(inode, x).owner = inode.owner
  <2>1. inode = Inode(inode.type, inode.owner, inode.blocks)
    BY <1>1, <1>3, ReadInodeFacts, InodeFacts
  <2>2. QED
    BY <2>1 DEF Longer, Inode
<1>6. ReadInode(e, t) = Longer(inode, x)
  BY <1>1, <1>3, <1>4 DEF ReadInode, Rewritten
<1>7. b \in Seq(Block) /\ Len(b) \in Nat /\ n = Len(b) + 1
  BY <1>1, <1>2, <1>3, ReadInodeFacts
<1>8. PICK c : c = Append(b, x)
  OBVIOUS
<1>9. Len(c) = n /\ c[n] = x /\ \A k \in 1 .. Len(b) : c[k] = b[k] /\ b[k] \in Block
  BY <1>7, <1>8
<1>10. ASSUME NEW k \in 1 .. Len(c)
       PROVE  ReadValue(e, c[k]) = IF k = n THEN v ELSE ReadValue(d, b[k])
  <2>1. CASE k = n
    <3>1. e[x] = FileData(v)
      BY <1>3 DEF Rewritten
    <3>2. QED
      BY <1>9, <2>1, <3>1 DEF ReadValue, FileData
  <2>2. CASE k # n
    <3>1. k \in 1 .. Len(b)
      BY <1>7, <1>9, <2>2
    <3>2. b[k] \in BlocksAt(d, t)
      BY <1>1, <1>2, <1>3, <3>1, ReadInodeFacts
    <3>3. b[k] # t
      BY <3>2 DEF InOrder
    <3>4. e[b[k]] = d[b[k]] /\ c[k] = b[k]
      BY <1>9, <3>1, <3>3 DEF Rewritten
    <3>5. QED
      BY <2>2, <3>4 DEF ReadValue
  <2>3. QED
    BY <2>1, <2>2
<1>11. 1 .. Len(c) = (1 .. Len(b)) \cup {n}
  BY <1>7, <1>9
<1>12. ReadInode(e, t).blocks = c /\ ReadInode(d, t).blocks = b
  BY <1>1, <1>2, <1>4, <1>6, <1>8
<1>13. DataWritten(d, e, t, n, v)
  BY <1>10, <1>11, <1>12 DEF DataWritten
<1>14. QED
  BY <1>1, <1>4, <1>5, <1>6, <1>13 DEF TypeAt

\* The state of a write before the disk write by which it takes effect.
Storing(h, r, t) ==
  /\ r = req[h] /\ r \in Request /\ r.op = "write" /\ outcome[h] = "none"
  /\ t \in TreeInodes(disk) /\ TypeAt(disk, t) = "f" /\ Resolve(disk, r.path) = {t}
  /\ ReadInode(disk, t).owner = r.user /\ r.block <= Len(ReadInode(disk, t).blocks)
  /\ Passes(disk, r, Len(r.path) - 1)

\* And what that does.
Stored(h, r, t, w, v) ==
  /\ Goto(h, "reply") /\ req' = req /\ loc' = loc /\ outcome' = [outcome EXCEPT ![h] = "ok"]
  /\ w \in Writable(h) /\ (w = t \/ w \in BlocksAt(disk, t)) /\ v \in StoredBy(r)
  /\ TypeAt(disk', t) = "f" /\ ReadInode(disk', t).owner = ReadInode(disk, t).owner
  /\ DataWritten(disk, disk', t, r.block + 1, v)

\* That disk write is where the request takes effect.
LEMMA StoredServed ==
  ASSUME IInv, IInv', ServedInv, NEW h \in Handler, NEW r, NEW t, Storing(h, r, t),
         NEW w, NEW v, Stored(h, r, t, w, v), NEW x, Rewritten(disk, disk', w, x),
         Apart(disk, disk', {})
  PROVE  ServedInv' /\ FS!Apply(h)
<1>1. disk \in [Block -> Content] /\ InOrder(disk) /\ disk' \in [Block -> Content] /\ InOrder(disk')
  BY DEF IInv, VariableTypes
<1>2. \A b \in Block \ {w} : disk'[b] = disk[b]
  BY <1>1 DEF Rewritten
<1>3. /\ t \in TreeInodes(disk) /\ (w = t \/ w \in BlocksAt(disk, t)) /\ TypeAt(disk, t) = "f"
      /\ r \in Request /\ r.op = "write" /\ r = req[h] /\ outcome[h] = "none"
  BY DEF Storing, Stored
<1>4. \A i \in TreeInodes(disk) : i # t => NodeIn(disk', i) = NodeIn(disk, i)
  BY <1>1, <1>2, <1>3, OtherNodes
<1>5. SameFiles(disk, disk')
  <2>1. TypeAt(disk', t) = TypeAt(disk, t) /\ ReadInode(disk', t).owner = ReadInode(disk, t).owner
    BY <1>3 DEF Stored
  <2>2. ASSUME NEW i \in TreeInodes(disk), i # t
        PROVE  TypeAt(disk', i) = TypeAt(disk, i) /\ ReadInode(disk', i).owner = ReadInode(disk, i).owner
    BY <1>4, <2>2 DEF NodeIn, TypeAt
  <2>3. QED
    BY <2>1, <2>2 DEF SameFiles
<1>6. PICK q \in Path : q = r.path
  BY <1>3, PathFacts
<1>7. Resolve(disk, q) = {t}
  BY <1>6 DEF Storing
<1>8. PICK N : N = NodeIn(disk, t)
  OBVIOUS
<1>9. TreeOf(disk)[q] = N
  BY <1>1, <1>7, <1>8, TreeAt
<1>10. TreeOf(disk') = [TreeOf(disk) EXCEPT ![q] = NodeIn(disk', t)]
  BY <1>1, <1>4, <1>7, TreeRewritten
<1>11. PICK n : n = r.block + 1
  OBVIOUS
<1>12. NodeIn(disk', t) = WithValue(N, n, v)
  <2>1. /\ TypeAt(disk', t) = "f" /\ ReadInode(disk', t).owner = ReadInode(disk, t).owner
        /\ DataWritten(disk, disk', t, n, v)
    BY <1>11 DEF Stored
  <2>2. t \in Block
    BY <1>1, <1>3, TreeClosed
  <2>3. QED
    BY <1>1, <1>3, <1>8, <2>1, <2>2, NodeWritten
<1>13. FS!Allowed(r)
  <2>1. /\ Resolve(disk, r.path) = {t} /\ Passes(disk, r, Len(r.path) - 1)
        /\ ReadInode(disk, t).owner = r.user /\ r.block <= Len(ReadInode(disk, t).blocks)
    BY DEF Storing
  <2>2. QED
    BY <1>1, <1>3, <2>1, WriteAllowed
<1>14. ServedInv'
  <2>1. /\ Goto(h, "reply") /\ req' = req /\ loc' = loc
        /\ outcome' = [outcome EXCEPT ![h] = "ok"] /\ w \in Writable(h)
    BY DEF Stored
  <2>2. PICK C : C = {}
    OBVIOUS
  <2>3. Apart(disk, disk', C) /\ \A k \in C : k \in TreeInodes(disk') =>
          ReadInode(disk', k).owner # NoOwner /\ \E s \in Path : Resolve(disk', s) = {k}
    BY <2>2
  <2>4. "reply" \in Decided
    BY DEF Decided
  <2>5. QED
    BY <1>5, <2>1, <2>3, <2>4, EffectServed
<1>15. FS!Apply(h)
  <2>1. req[h] # NoReq
    BY <1>3, RequestFacts
  <2>2. outcome' = [outcome EXCEPT ![h] = "ok"] /\ req' = req
    BY DEF Stored
  <2>3. v \in FS!Stored(r)
    BY DEF Stored, StoredBy, FS!Stored
  <2>4. PICK node : node = WithValue(N, n, v)
    OBVIOUS
  <2>5. FS!Succeed(h, "ok", node)
    BY <1>3, <1>6, <1>10, <1>12, <1>13, <2>2, <2>4 DEF FS!Succeed
  <2>6. \E u \in FS!Stored(r) :
          LET new == [k \in (1 .. Len(N.data)) \cup {n} |-> IF k = n THEN u ELSE N.data[k]]
          IN  FS!Succeed(h, "ok", [N EXCEPT !.data = new])
    BY <2>3, <2>4, <2>5 DEF WithValue
  <2>7. \E u \in FS!Stored(r) :
          LET new == [k \in (1 .. Len(TreeOf(disk)[r.path].data)) \cup {r.block + 1} |->
                        IF k = r.block + 1 THEN u ELSE TreeOf(disk)[r.path].data[k]]
          IN  FS!Succeed(h, "ok", [TreeOf(disk)[r.path] EXCEPT !.data = new])
    BY <1>6, <1>9, <1>11, <2>6
  <2>8. QED
    BY <1>3, <2>1, <2>2, <2>7 DEF FS!Apply
<1>16. QED
  BY <1>14, <1>15

\* A write whose handler knows where to write is one that FileSystem allows.
LEMMA StoringFacts ==
  ASSUME IInv, ServedInv, NEW h \in Handler, pc[h] \in {"write_data", "write_inode"}
  PROVE  /\ Storing(h, req[h], loc[h].target) /\ loc[h].target \in Writable(h)
         /\ Checked(disk, pc[h], req[h], loc[h], outcome[h])
         /\ req[h].block < Len(loc[h].inode.blocks) /\ req[h].block \in Nat
         /\ loc[h].inode.blocks[req[h].block + 1] = loc[h].block
         /\ loc[h].grown => /\ loc[h].inode = Longer(ReadInode(disk, loc[h].target), loc[h].block)
                            /\ loc[h].reserved = loc[h].block
                            /\ Len(ReadInode(disk, loc[h].target).blocks) < MaxFileBlocks
                            /\ loc[h].block \in Block /\ loc[h].block \notin UsedBlocks(disk)
                            /\ loc[h].block \in Carried(pc[h], req[h], loc[h])
                            /\ req[h].block + 1 = Len(ReadInode(disk, loc[h].target).blocks) + 1
         /\ ~loc[h].grown => loc[h].inode = ReadInode(disk, loc[h].target)
<1> DEFINE r == req[h]
           L == loc[h]
           t == L.target
<1>1. /\ r \in Request /\ r.op = "write" /\ Resolve(disk, Names(r)) = {t} /\ TypeAt(disk, t) = "f"
      /\ L.grown => /\ L.inode = Longer(ReadInode(disk, t), L.block) /\ L.reserved = L.block
                    /\ Len(ReadInode(disk, t).blocks) < MaxFileBlocks
      /\ ~L.grown => L.inode = ReadInode(disk, t)
  <2>1. HandlerOK(disk, pc[h], r, L)
    BY Here
  <2>2. CASE pc[h] = "write_data"
    <3>1. HandlerOK(disk, "write_data", r, L)
      BY <2>1, <2>2
    <3> HIDE DEF r, L
    <3>2. QED
      BY <3>1, AtWriteData
  <2>3. CASE pc[h] = "write_inode"
    <3>1. HandlerOK(disk, "write_inode", r, L)
      BY <2>1, <2>3
    <3> HIDE DEF r, L
    <3>2. QED
      BY <3>1, AtWriteInode
  <2>4. QED
    BY <2>2, <2>3
<1>2. Checked(disk, pc[h], r, L, outcome[h])
  BY ServedFacts
<1>3. /\ outcome[h] = "none" /\ Passes(disk, r, Len(Names(r)) - 1)
      /\ L.inode.type = "f" /\ L.inode.owner = r.user
      /\ r.block < Len(L.inode.blocks) /\ L.inode.blocks[r.block + 1] = L.block
      /\ L.grown => r.block + 1 = Len(L.inode.blocks)
  <2>1. PICK p \in {"write_data", "write_inode"} : p = pc[h]
    OBVIOUS
  <2>2. Checked(disk, p, r, L, outcome[h])
    BY <1>2, <2>1
  <2> HIDE DEF r, L
  <2>3. QED
    BY <2>2, CheckedLate
<1>4. pc[h] \in OwnsTarget /\ pc[h] \in Writing /\ pc[h] \in Modifying
  BY DEF OwnsTarget, Writing, Modifying
<1>5. t \in TreeInodes(disk) /\ t \in Block /\ t \in Writable(h)
  BY <1>4, OwnWritable
<1>6. Names(r) = r.path /\ r.block \in Nat
  BY <1>1, NamesFacts, RequestFacts
<1>7. disk \in [Block -> Content]
  BY Here
<1>8. CASE L.grown
  <2>1. PICK inode : inode = ReadInode(disk, t)
    OBVIOUS
  <2>2. Carried(pc[h], r, L) = {L.reserved}
    BY <1>1, <1>4, <1>8, CarriedWriting
  <2>3. PICK w : w = L.block
    OBVIOUS
  <2>4. w \in Carried(pc[h], r, L) /\ w \in Block /\ w \notin UsedBlocks(disk)
    BY <1>1, <1>8, <2>2, <2>3, FlightFacts
  <2>5. L.inode = Longer(inode, w) /\ Longer(inode, w).blocks = Append(inode.blocks, w)
    <3>1. L.inode = Longer(inode, w) /\ TypeAt(disk, t) \in {"f", "d"} /\ Len(inode.blocks) < MaxFileBlocks
      BY <1>1, <1>8, <2>1, <2>3
    <3> HIDE DEF t, L
    <3>2. QED
      BY <1>5, <1>7, <2>1, <2>4, <3>1, LongerFacts
  <2>6. Longer(inode, w).owner = inode.owner
    <3>1. inode = Inode(inode.type, inode.owner, inode.blocks)
      BY <1>5, <1>7, <2>1, ReadInodeFacts, InodeFacts
    <3>2. QED
      BY <3>1 DEF Longer, Inode
  <2>7. inode.blocks \in Seq(Block) /\ Len(inode.blocks) \in Nat
    BY <1>5, <1>7, <2>1, ReadInodeFacts
  <2>8. Len(Append(inode.blocks, w)) = Len(inode.blocks) + 1
    BY <2>4, <2>7
  <2>9. r.block + 1 = Len(inode.blocks) + 1
    BY <1>3, <1>8, <2>5, <2>8
  <2>10. r.block <= Len(inode.blocks)
    BY <1>6, <2>7, <2>9
  <2>11. Storing(h, r, t)
    BY <1>1, <1>3, <1>5, <1>6, <2>1, <2>5, <2>6, <2>10 DEF Storing
  <2>12. QED
    BY <1>1, <1>2, <1>3, <1>5, <1>6, <1>8, <2>1, <2>3, <2>4, <2>9, <2>11
<1>9. CASE ~L.grown
  <2>1. L.inode = ReadInode(disk, t) /\ Len(ReadInode(disk, t).blocks) \in Nat
    BY <1>1, <1>5, <1>7, <1>9, ReadInodeFacts
  <2>2. r.block <= Len(ReadInode(disk, t).blocks)
    BY <1>3, <1>6, <2>1
  <2>3. Storing(h, r, t)
    BY <1>1, <1>3, <1>5, <1>6, <2>1, <2>2 DEF Storing
  <2>4. QED
    BY <1>1, <1>2, <1>3, <1>5, <1>6, <1>9, <2>3
<1>10. QED
  BY <1>8, <1>9

\* WriteData(h), to a new block
LEMMA WriteNewDataServed ==
  ASSUME IInv, IInv', ServedInv, NEW h \in Handler, WriteData(h), loc[h].grown
  PROVE  ServedInv' /\ UNCHANGED FS!vars
<1> DEFINE r == req[h]
           L == loc[h]
           m == Len(Names(r)) - 1
<1>1. pc[h] = "write_data" /\ pc[h] \in Modifying
  BY DEF WriteData, Modifying
<1>2. PICK v \in StoredBy(r) : disk' = [disk EXCEPT ![L.block] = FileData(v)]
  BY DEF WriteData, StoredBy
<1>3. Goto(h, "write_inode") /\ req' = req /\ loc' = loc /\ outcome' = outcome
  BY DEF WriteData
<1>4. PICK w : w = L.block
  OBVIOUS
<1>5. w \in Carried(pc[h], r, L) /\ w \in Block
  BY <1>1, <1>4, StoringFacts
<1>6. Rewritten(disk, disk', w, FileData(v))
  BY <1>2, <1>4 DEF Rewritten
<1>7. disk \in [Block -> Content]
  BY Here
<1>8. disk'[w] = FileData(v)
  BY <1>2, <1>4, <1>5, <1>7
<1>9. Checked(disk, "write_data", r, L, outcome[h])
  BY <1>1, StoringFacts
<1>10. Checked(disk', "write_inode", r, L, outcome[h])
  <2> HIDE DEF r, L
  <2>1. /\ outcome[h] = "none" /\ Passes(disk, r, m)
        /\ L.inode.type = "f" /\ L.inode.owner = r.user
        /\ r.block < Len(L.inode.blocks) /\ L.inode.blocks[r.block + 1] = L.block
        /\ L.grown => r.block + 1 = Len(L.inode.blocks)
    BY <1>9, CheckedLate
  <2>2. Passes(disk', r, m)
    BY <1>1, <1>5, <1>6, <2>1, OutsidePasses DEF r, L
  <2>3. \E u \in StoredBy(r) : disk'[L.block] = FileData(u)
    BY <1>4, <1>8
  <2>4. QED
    BY <2>1, <2>2, <2>3, CheckedLate
<1>11. QED
  BY <1>3, <1>5, <1>6, <1>10, OutsideServed

\* WriteData(h), to a block of the file
LEMMA WriteOldDataServed ==
  ASSUME IInv, IInv', ServedInv, NEW h \in Handler, WriteData(h), ~loc[h].grown
  PROVE  ServedInv' /\ FS!Apply(h)
<1> DEFINE r == req[h]
           L == loc[h]
           t == L.target
<1>1. pc[h] = "write_data"
  BY DEF WriteData
<1>2. PICK v \in StoredBy(r) : disk' = [disk EXCEPT ![L.block] = FileData(v)]
  BY DEF WriteData, StoredBy
<1>3. Goto(h, "reply") /\ req' = req /\ loc' = loc /\ outcome' = [outcome EXCEPT ![h] = "ok"]
  BY DEF WriteData, DoneLocked
<1>4. /\ Storing(h, r, t) /\ t \in Writable(h) /\ r.block \in Nat
      /\ r.block < Len(ReadInode(disk, t).blocks) /\ ReadInode(disk, t).blocks[r.block + 1] = L.block
  BY <1>1, StoringFacts
<1>5. /\ disk \in [Block -> Content] /\ InOrder(disk) /\ disk' \in [Block -> Content]
  BY DEF IInv, VariableTypes
<1>6. t \in TreeInodes(disk) /\ TypeAt(disk, t) = "f" /\ r \in Request /\ r.op = "write"
  BY <1>4 DEF Storing
<1>7. Len(ReadInode(disk, t).blocks) \in Nat
  BY <1>5, <1>6, TreeClosed, ReadInodeFacts
<1>8. PICK n : n = r.block + 1
  OBVIOUS
<1>9. n \in 1 .. Len(ReadInode(disk, t).blocks)
  BY <1>4, <1>7, <1>8
<1>10. PICK w : w = L.block
  OBVIOUS
<1>11. /\ DataWritten(disk, disk', t, n, v) /\ TypeAt(disk', t) = "f"
       /\ ReadInode(disk', t).owner = ReadInode(disk, t).owner /\ w \in BlocksAt(disk, t)
  <2>1. ReadInode(disk, t).blocks[n] = w /\ Rewritten(disk, disk', w, FileData(v))
    BY <1>2, <1>4, <1>8, <1>10 DEF Rewritten
  <2> HIDE DEF t, L, r
  <2>2. QED
    BY <1>5, <1>6, <1>9, <2>1, OverwrittenData
<1>12. w \in Writable(h)
  <2>1. pc[h] \in OwnsTarget
    BY <1>1 DEF OwnsTarget, Writing
  <2>2. QED
    BY <1>11, <2>1, OwnWritable
<1>13. Stored(h, r, t, w, v)
  BY <1>3, <1>8, <1>11, <1>12 DEF Stored
<1>14. PICK c : c = FileData(v)
  OBVIOUS
<1>15. Rewritten(disk, disk', w, c)
  BY <1>2, <1>10, <1>14 DEF Rewritten
<1>16. c \in Content /\ c.kind = "data"
  <2>1. v \in Value \cup {Junk}
    BY <1>6, RequestFacts DEF StoredBy
  <2>2. QED
    BY <1>14, <2>1 DEF Content, FileData
<1>17. Apart(disk, disk', {})
  <2> HIDE DEF t, L, r
  <2>1. QED
    BY <1>5, <1>6, <1>11, <1>15, <1>16, Overwrite
<1>18. QED
  BY <1>4, <1>13, <1>15, <1>17, StoredServed

\* WriteData(h)
LEMMA WriteDataServed ==
  ASSUME IInv, IInv', ServedInv, NEW h \in Handler, WriteData(h)
  PROVE  ServedInv' /\ (UNCHANGED FS!vars \/ FS!Apply(h))
<1>1. CASE loc[h].grown
  BY <1>1, WriteNewDataServed
<1>2. CASE ~loc[h].grown
  BY <1>2, WriteOldDataServed
<1>3. QED
  BY <1>1, <1>2

\* WriteInode(h)
LEMMA WriteInodeServed ==
  ASSUME IInv, IInv', ServedInv, NEW h \in Handler, WriteInode(h)
  PROVE  ServedInv' /\ FS!Apply(h)
<1> DEFINE r == req[h]
           L == loc[h]
           t == L.target
<1>1. pc[h] = "write_inode" /\ HandlerOK(disk, "write_inode", r, L)
  <2>1. pc[h] = "write_inode"
    BY DEF WriteInode
  <2>2. QED
    BY <2>1, Here
<1>2. L.grown /\ disk[L.block].kind = "data"
  <2> HIDE DEF r, L
  <2>1. QED
    BY <1>1, AtWriteInode
<1>3. /\ Goto(h, "reply") /\ req' = req /\ loc' = loc /\ outcome' = [outcome EXCEPT ![h] = "ok"]
      /\ disk' = [disk EXCEPT ![t] = L.inode]
  BY DEF WriteInode, DoneLocked
<1>4. PICK x : x = L.block
  OBVIOUS
<1>5. /\ Storing(h, r, t) /\ t \in Writable(h) /\ x \in Block /\ x \notin UsedBlocks(disk)
      /\ L.inode = Longer(ReadInode(disk, t), x) /\ Len(ReadInode(disk, t).blocks) < MaxFileBlocks
      /\ r.block + 1 = Len(ReadInode(disk, t).blocks) + 1
  BY <1>1, <1>2, <1>4, StoringFacts
<1>6. PICK v \in StoredBy(r) : disk[x] = FileData(v)
  <2>1. Checked(disk, "write_inode", r, L, outcome[h])
    BY <1>1, StoringFacts
  <2>2. \E v \in StoredBy(r) : disk[L.block] = FileData(v)
    <3> HIDE DEF r, L
    <3>1. QED
      BY <2>1, CheckedLate
  <2>3. QED
    BY <1>4, <2>2
<1>7. disk \in [Block -> Content] /\ InOrder(disk) /\ disk' \in [Block -> Content]
  BY DEF IInv, VariableTypes
<1>8. t \in TreeInodes(disk) /\ TypeAt(disk, t) = "f"
  BY <1>5 DEF Storing
<1>9. PICK n : n = r.block + 1
  OBVIOUS
<1>10. Rewritten(disk, disk', t, Longer(ReadInode(disk, t), x)) /\ n = Len(ReadInode(disk, t).blocks) + 1
  BY <1>3, <1>5, <1>9 DEF Rewritten
<1>11. /\ DataWritten(disk, disk', t, n, v) /\ TypeAt(disk', t) = "f"
       /\ ReadInode(disk', t).owner = ReadInode(disk, t).owner
  <2> HIDE DEF t, L, r
  <2>1. QED
    BY <1>5, <1>6, <1>7, <1>8, <1>10, ExtendedData
<1>12. Stored(h, r, t, t, v)
  BY <1>3, <1>5, <1>9, <1>11 DEF Stored
<1>13. PICK B : B = {x}
  OBVIOUS
<1>14. Apart(disk, disk', {})
  <2>1. disk[x].kind = "data"
    BY <1>2, <1>4
  <2> HIDE DEF t, L, r
  <2>2. QED
    BY <1>5, <1>7, <1>8, <1>10, <1>13, <2>1, Extend
<1>15. QED
  BY <1>5, <1>12, <1>10, <1>14, StoredServed

-----------------------------------------------------------------------------
(* All steps *)

\* A server that has just been started serves nobody.
LEMMA ServedWhenIdle ==
  ASSUME NEW d, OwnersKnown(d), PathsKnown(d), d = disk,
         pc = [h \in Handler |-> "idle"], outcome = [h \in Handler |-> "none"]
  PROVE  ServedInv
<1>1. ASSUME NEW h \in Handler
      PROVE  Checked(disk, pc[h], req[h], loc[h], outcome[h])
  <2>1. Checked(disk, "idle", req[h], loc[h], "none")
    BY CheckedEarly
  <2>2. pc[h] = "idle" /\ outcome[h] = "none"
    OBVIOUS
  <2>3. QED
    BY <2>1, <2>2
<1>2. QED
  BY <1>1 DEF ServedInv

\* Init
LEMMA InitServed == Init => ServedInv /\ FS!Init
<1> SUFFICES ASSUME Init PROVE ServedInv /\ FS!Init
  OBVIOUS
<1>1. /\ disk = InitialDisk /\ pc = [h \in Handler |-> "idle"] /\ req = [h \in Handler |-> NoReq]
      /\ outcome = [h \in Handler |-> "none"]
  BY DEF Init
<1>2. OwnersKnown(InitialDisk) /\ PathsKnown(InitialDisk)
  BY OwnersAssumption, PathsAssumption DEF OwnersKnown, PathsKnown, TypeAt
<1>3. ServedInv
  BY <1>1, <1>2, ServedWhenIdle
<1>4. FS!Init
  BY <1>1 DEF FS!Init
<1>5. QED
  BY <1>3, <1>4

\* Crash
LEMMA CrashServed ==
  ASSUME IInv, IInv', ServedInv, Crash
  PROVE  ServedInv' /\ FS!Crash
<1>1. /\ disk' = disk /\ pc' = [h \in Handler |-> "idle"] /\ req' = [h \in Handler |-> NoReq]
      /\ outcome' = [h \in Handler |-> "none"]
  BY DEF Crash
<1>2. OwnersKnown(disk') /\ PathsKnown(disk')
  BY <1>1 DEF ServedInv
<1>3. ASSUME NEW h \in Handler
      PROVE  Checked(disk', pc'[h], req'[h], loc'[h], outcome'[h])
  <2>1. Checked(disk', "idle", req'[h], loc'[h], "none")
    BY CheckedEarly
  <2>2. pc'[h] = "idle" /\ outcome'[h] = "none"
    BY <1>1
  <2>3. QED
    BY <2>1, <2>2
<1>4. ServedInv'
  BY <1>2, <1>3 DEF ServedInv
<1>5. FS!Crash
  BY <1>1 DEF FS!Crash
<1>6. QED
  BY <1>4, <1>5

\* HandlerStep(h)
LEMMA HandlerServed ==
  ASSUME IInv, IInv', ServedInv, NEW h \in Handler, HandlerStep(h)
  PROVE  ServedInv' /\ (UNCHANGED FS!vars \/ FS!Apply(h) \/ FS!Refuse(h) \/ FS!Respond(h))
<1>1. CASE Reserve(h)
  BY <1>1, ReserveServed
<1>2. CASE ReturnBlock(h) \/ DeleteFreeEntries(h) \/ DeleteFree(h)
  BY <1>2, DecidedServed
<1>3. CASE Reply(h)
  BY <1>3, ReplyServed
<1>4. CASE TraverseRoot(h)
  BY <1>4, TraverseRootServed
<1>5. CASE TraverseLook(h)
  BY <1>5, TraverseLookServed
<1>6. CASE TraverseStep(h)
  BY <1>6, TraverseStepServed
<1>7. CASE LockTarget(h)
  BY <1>7, LockTargetServed
<1>8. CASE CreateCheck(h)
  BY <1>8, CreateCheckServed
<1>9. CASE CreateAlloc(h)
  BY <1>9, CreateAllocServed
<1>10. CASE CreateWriteInode(h)
  BY <1>10, CreateWriteInodeServed
<1>11. CASE CreateWriteEntries(h)
  BY <1>11, CreateWriteEntriesServed
<1>12. CASE CreateWriteParent(h)
  BY <1>12, CreateWriteParentServed
<1>13. CASE DeleteCheck(h)
  BY <1>13, DeleteCheckServed
<1>14. CASE DeleteLockChild(h)
  BY <1>14, DeleteLockChildServed
<1>15. CASE DeleteWriteEntries(h)
  BY <1>15, DeleteWriteEntriesServed
<1>16. CASE DeleteShrink(h)
  BY <1>16, DeleteShrinkServed
<1>17. CASE ReadCheck(h)
  BY <1>17, ReadCheckServed
<1>18. CASE ReadData(h)
  BY <1>18, ReadDataServed
<1>19. CASE WriteCheck(h)
  BY <1>19, WriteCheckServed
<1>20. CASE WriteAlloc(h)
  BY <1>20, WriteAllocServed
<1>21. CASE WriteData(h)
  BY <1>21, WriteDataServed
<1>22. CASE WriteInode(h)
  BY <1>22, WriteInodeServed
<1>23. QED
  BY <1>1, <1>2, <1>3, <1>4, <1>5, <1>6, <1>7, <1>8, <1>9, <1>10, <1>11, <1>12, <1>13, <1>14, <1>15,
     <1>16, <1>17, <1>18, <1>19, <1>20, <1>21, <1>22 DEF HandlerStep

\* Every step of the server is a step of FileSystem, or none.
LEMMA StepServed ==
  ASSUME IInv, IInv', ServedInv, [Next]_vars
  PROVE  ServedInv' /\ [FS!Next]_FS!vars
<1>1. CASE \E h \in Handler, r \in Request : Receive(h, r)
  <2>1. PICK h \in Handler, r \in Request : Receive(h, r)
    BY <1>1
  <2>2. ServedInv' /\ FS!Invoke(h, r)
    BY <2>1, ReceiveServed
  <2>3. FS!Next
    BY <2>2 DEF FS!Next
  <2>4. QED
    BY <2>2, <2>3
<1>2. CASE \E h \in Handler : HandlerStep(h)
  <2>1. PICK h \in Handler : HandlerStep(h)
    BY <1>2
  <2>2. ServedInv' /\ (UNCHANGED FS!vars \/ FS!Apply(h) \/ FS!Refuse(h) \/ FS!Respond(h))
    BY <2>1, HandlerServed
  <2>3. UNCHANGED FS!vars \/ FS!Next
    BY <2>2 DEF FS!Next
  <2>4. QED
    BY <2>2, <2>3
<1>3. CASE Crash
  <2>1. ServedInv' /\ FS!Crash
    BY <1>3, CrashServed
  <2>2. FS!Next
    BY <2>1 DEF FS!Next
  <2>3. QED
    BY <2>1, <2>2
<1>4. CASE UNCHANGED vars
  <2>1. disk' = disk /\ pc' = pc /\ req' = req /\ loc' = loc /\ outcome' = outcome
    BY <1>4 DEF vars
  <2>2. ServedInv'
    BY <2>1 DEF ServedInv
  <2>3. UNCHANGED FS!vars
    BY <2>1 DEF FS!vars
  <2>4. QED
    BY <2>2, <2>3
<1>5. CASE Finished
  BY <1>4, <1>5 DEF Finished
<1>6. QED
  BY <1>1, <1>2, <1>3, <1>4, <1>5 DEF Next

\* The file server implements FileSystem, for any disk and any number of handlers: each request
\* takes effect at once, in the disk_writeblock that links, unlinks or stores what it asks for, or
\* fails for a reason that holds at that moment, and a crash leaves it done or not done at all.
THEOREM ServerImplementsFileSystem == Spec => ImplementsFileSystem
<1>1. Init => ServedInv /\ FS!Init
  BY InitServed
<1>2. IInv /\ IInv' /\ ServedInv /\ [Next]_vars => ServedInv' /\ [FS!Next]_FS!vars
  BY StepServed
<1>3. QED
  BY <1>1, <1>2, Invariance, PTL DEF Spec, ImplementsFileSystem, FS!Spec
=============================================================================
