--------------------------- MODULE FileServerProofs ---------------------------
(***************************************************************************)
(* Proofs about the request handlers of the file server, for any disk      *)
(* size, any number of handlers and any requests: TypeOK, DiskConsistent,  *)
(* BlockAccounting, NoStaleTarget, LocksFollowTheTree and HeldIsStable,    *)
(* which is all that runs check of FileServer but the refinement of        *)
(* FileSystem (FileServerRefinement) and the liveness property; of that    *)
(* one, that handlers do not all wait for locks (at the end).              *)
(*                                                                         *)
(* One inductive invariant, IInv, is behind all of them.  None of its      *)
(* parts is inductive without the others:                                  *)
(*  - InOrder: the disk is a tree whose blocks are apart;                  *)
(*  - HandlerOK: what a handler has read is still on the disk, and its     *)
(*    target is where its path leads;                                      *)
(*  - LockInv: locks are held as the labels of the handlers say, so that   *)
(*    what HandlerOK speaks of is written by the holder alone;             *)
(*  - BlockInv: the tree, the free list and the blocks in the hands of     *)
(*    handlers share no block and leave none out.                          *)
(*                                                                         *)
(* A step is reduced to what it writes, a block of its own (QuietMoves,    *)
(* WritingMoves); what other handlers know of the disk is left as it is    *)
(* by that (Apart, PathKept, OthersUndisturbed).  What remains to be shown *)
(* of each action is that the tree on the disk is still in order, and      *)
(* that the handler knows what its next label says (the lemmas At...).     *)
(***************************************************************************)
EXTENDS FileServer, QueueFacts

-----------------------------------------------------------------------------
(* A disk, by its blocks *)

\* The type of the inode in block i, its blocks, and its used entries as slots
\* <<block, index into it>>.
TypeAt(d, i) == ReadInode(d, i).type
BlocksAt(d, i) == ToSet(ReadInode(d, i).blocks)
EntryIn(d, s) == ReadEntries(d, s[1])[s[2]]
Slots(d, i) ==
  {s \in BlocksAt(d, i) \X (1 .. DirEntries) : TypeAt(d, i) = "d" /\ EntryIn(d, s).inode_block # 0}

\* WellFormed in terms of slots, and with injectivity in the place of counting.
InOrder(d) ==
  LET T == TreeInodes(d) IN
  /\ \A i \in T : TypeAt(d, i) \in {"f", "d"}
  /\ \A i \in T : \A k \in BlocksAt(d, i) :
       d[k].kind = IF TypeAt(d, i) = "d" THEN "entries" ELSE "data"
  /\ \A i \in T : IsInjective(ReadInode(d, i).blocks)
  /\ \A i \in T : \A k \in BlocksAt(d, i) : k \notin T
  /\ \A i, j \in T : i # j => BlocksAt(d, i) \cap BlocksAt(d, j) = {}
  /\ \A i, j \in T : \A s \in Slots(d, i), t \in Slots(d, j) :
       EntryIn(d, s).inode_block = EntryIn(d, t).inode_block => i = j /\ s = t
  /\ \A i \in T : \A s, t \in Slots(d, i) : EntryIn(d, s).name = EntryIn(d, t).name => s = t
  /\ \A i \in T : TypeAt(d, i) = "d" =>
       \A k \in BlocksAt(d, i) : \E j \in 1 .. DirEntries : <<k, j>> \in Slots(d, i)

-----------------------------------------------------------------------------
(* The inductive invariant *)

\* What a handler's local variables range over.
AnyInode == Inodes \cup {NoInode}
LocalTypes ==
  [depth : Nat, parent : Block, target : Block, inode : AnyInode,
   entries : [1 .. DirEntries -> DirEntry], place : Nat \X Nat, block : Nat, grown : BOOLEAN,
   reserved : Block, child : Block, old : AnyInode]

Creating == {"create", "alloc", "new_inode", "new_entry", "grow", "return_locked"}
Deleting == {"delete", "child", "clear", "shrink", "free_entries"}
Reading  == {"read", "read_data"}
Writing  == {"write", "append", "write_data", "write_inode"}

\* A handler at p serves a request of the kind that p belongs to.
ServesOK(p, r) ==
  /\ r \in Request \cup {NoReq}
  /\ p = "idle" <=> r = NoReq
  /\ p \in Creating \cup {"reserve", "return_block"} => r.op = "create"
  /\ p \in Deleting \cup {"free"} => r.op = "delete"
  /\ p \in Reading => r.op = "read"
  /\ p \in Writing => r.op = "write"

\* It starts with fresh locals, and has a new block only while it links it.
FreshOK(p, L) ==
  /\ p \in {"idle", "reserve"} => L = Locals0
  /\ p = "root" => L = [Locals0 EXCEPT !.reserved = L.reserved]
  /\ p \in {"grow", "write_inode"} => L.grown
  /\ L.grown => p \in {"new_inode", "new_entry", "grow", "write_data", "write_inode", "reply"}

\* Where its path has led it.
PathOK(d, p, r, L) ==
  /\ p \in Resolving =>
       /\ L.depth \in 0 .. Len(Names(r))
       /\ Resolve(d, SubSeq(Names(r), 1, L.depth)) = {IF p = "look" THEN L.parent ELSE L.target}
  /\ p = "look" => L.depth < Len(Names(r)) /\ L.inode = ReadInode(d, L.parent)
  /\ p = "step" =>
       /\ L.depth < Len(Names(r))
       /\ L.parent \in TreeInodes(d) /\ L.target \in Children(d, L.parent)
  /\ p = "target" =>
       /\ L.depth = Len(Names(r))
       /\ IF Names(r) = <<>> THEN L.target = 0
          ELSE L.parent \in TreeInodes(d) /\ L.target \in Children(d, L.parent)
  /\ p \in Modifying => Resolve(d, Names(r)) = {L.target}

\* An inode with a block more or less, and entries with one more or less.
Longer(inode, b) == [inode EXCEPT !.blocks = Append(@, b)]
Shorter(inode, k) == [inode EXCEPT !.blocks = RemoveAt(@, k)]
Linking(entries, j, r, L) ==
  [entries EXCEPT ![j] = [name |-> Last(r.path), inode_block |-> L.reserved]]
Cleared(entries, j) == [entries EXCEPT ![j] = Unused]

\* The entry that delete removes.
EntrySlot(L) == <<L.block, L.place[2]>>

\* The copy it has of its target's inode.
CopyOK(d, p, L) ==
  /\ p \in Modifying \ {"shrink", "free_entries"} /\ ~L.grown => L.inode = ReadInode(d, L.target)
  /\ p \in Modifying /\ L.grown =>
       /\ L.inode = Longer(ReadInode(d, L.target), L.block)
       /\ Len(ReadInode(d, L.target).blocks) < MaxFileBlocks

\* create: the name is new, and the entry goes to an unused place.
CreateOK(d, p, r, L) ==
  /\ p \in {"alloc", "new_inode", "new_entry", "grow"} =>
       /\ TypeAt(d, L.target) = "d"
       /\ \A s \in Slots(d, L.target) : EntryIn(d, s).name # Last(r.path)
  /\ p = "alloc" => L.place[2] \in 1 .. DirEntries
  /\ p = "alloc" /\ L.block # Sentinel =>
       /\ L.block \in BlocksAt(d, L.target) /\ L.entries = ReadEntries(d, L.block)
       /\ L.entries[L.place[2]].inode_block = 0
  /\ p \in {"new_inode", "new_entry"} /\ ~L.grown =>
       /\ L.block \in BlocksAt(d, L.target)
       /\ \E j \in 1 .. DirEntries :
            /\ EntryIn(d, <<L.block, j>>).inode_block = 0
            /\ L.entries = Linking(ReadEntries(d, L.block), j, r, L)
  /\ p \in {"new_inode", "new_entry", "grow"} /\ L.grown =>
       /\ L.block # L.reserved
       /\ \E j \in 1 .. DirEntries :
            L.entries = Linking(NoEntries, j, r, L)
  /\ p \in {"new_entry", "grow"} => d[L.reserved] = Inode(r.type, r.user, <<>>)
  /\ p = "grow" => d[L.block] = DirData(L.entries)

\* delete: the entry to remove, the block that holds it, and the file it names.
DeleteOK(d, p, L) ==
  /\ p \in {"child", "clear", "shrink"} =>
       /\ L.place[1] \in 1 .. Len(ReadInode(d, L.target).blocks)
       /\ L.place[2] \in 1 .. DirEntries
       /\ L.block = ReadInode(d, L.target).blocks[L.place[1]]
       /\ EntrySlot(L) \in Slots(d, L.target)
       /\ EntryIn(d, EntrySlot(L)).inode_block = L.child
  /\ p = "child" => L.entries = ReadEntries(d, L.block)
  /\ p = "clear" => /\ L.entries = Cleared(ReadEntries(d, L.block), L.place[2])
                    /\ L.entries # NoEntries
  /\ p = "shrink" =>
       /\ Cleared(ReadEntries(d, L.block), L.place[2]) = NoEntries
       /\ L.inode = Shorter(ReadInode(d, L.target), L.place[1])
  /\ p \in {"clear", "shrink", "free_entries"} => L.old = ReadInode(d, L.child)
  /\ p \in {"clear", "shrink"} /\ L.old.type = "d" => L.old.blocks = <<>>
  /\ p \in {"free_entries", "free"} =>
       IsInjective(L.old.blocks) /\ L.child \notin ToSet(L.old.blocks)
  /\ p = "free_entries" => L.block \notin ToSet(L.old.blocks) \cup {L.child}

\* read and write: the block is one of the file's, or a new one.
DataOK(d, p, r, L) ==
  /\ p = "read_data" => r.block < Len(L.inode.blocks)
  /\ p \in {"append", "write_data", "write_inode"} => TypeAt(d, L.target) = "f"
  /\ p = "write_data" /\ ~L.grown => L.block \in BlocksAt(d, L.target)
  /\ p \in {"write_data", "write_inode"} /\ L.grown => L.reserved = L.block
  /\ p = "write_inode" => d[L.block].kind = "data"

HandlerOK(d, p, r, L) ==
  /\ p \in Labels /\ L \in LocalTypes
  /\ ServesOK(p, r) /\ FreshOK(p, L) /\ PathOK(d, p, r, L) /\ CopyOK(d, p, L)
  /\ CreateOK(d, p, r, L) /\ DeleteOK(d, p, L) /\ DataOK(d, p, r, L)

\* The blocks a handler has locked, shared and exclusively.
SharedBy(p, r, L) ==
  CASE p \in {"look", "step"} -> {L.parent}
    [] p = "target" -> IF Names(r) = <<>> THEN {} ELSE {L.parent}
    [] p \in Reading -> {L.target}
    [] OTHER -> {}
OwnedBy(p, L) ==
  CASE p \in {"clear", "shrink", "free_entries"} -> {L.target, L.child}
    [] p \in (Creating \cup Deleting \cup Writing) \ {"clear", "shrink", "free_entries"} -> {L.target}
    [] OTHER -> {}

LockInv ==
  /\ readers \in [Block -> SUBSET Handler]
  /\ writer \in [Block -> Handler \cup {NoHandler}]
  /\ \A h \in Handler, b \in Block :
       /\ h \in readers[b] <=> b \in SharedBy(pc[h], req[h], loc[h])
       /\ writer[b] = h <=> b \in OwnedBy(pc[h], loc[h])
  /\ \A b \in Block : writer[b] # NoHandler => readers[b] = {}

\* InFlight, of a handler at p.
Carried(p, r, L) ==
  CASE r = NoReq -> {}
    [] r.op = "create" ->
         (IF p \in {"reserve", "reply"} THEN {} ELSE {L.reserved})
         \cup (IF L.grown /\ p # "reply" THEN {L.block} ELSE {})
    [] r.op = "delete" ->
         (IF p = "free_entries" THEN {L.block} ELSE {})
         \cup (IF p \in {"free_entries", "free"} THEN ToSet(L.old.blocks) \cup {L.child} ELSE {})
    [] r.op = "write" -> IF L.grown /\ p # "reply" THEN {L.reserved} ELSE {}
    [] OTHER -> {}

\* BlockAccounting, with sets in the place of counting.
BlockInv ==
  /\ free_blocks \in Seq(Block) /\ IsInjective(free_blocks)
  /\ ToSet(free_blocks) \cap UsedBlocks(disk) = {}
  /\ \A h \in Handler :
       /\ InFlight(h) \subseteq Block
       /\ InFlight(h) \cap UsedBlocks(disk) = {}
       /\ InFlight(h) \cap ToSet(free_blocks) = {}
       /\ \A g \in Handler \ {h} : InFlight(h) \cap InFlight(g) = {}
  /\ \A b \in Block \ UsedBlocks(disk) :
       b \in ToSet(free_blocks) \/ \E h \in Handler : b \in InFlight(h)

\* Where a request is decided and only remains to be cleaned up after and answered.
Decided == {"return_block", "return_locked", "free_entries", "free", "reply"}

VariableTypes ==
  /\ disk \in [Block -> Content]
  /\ pc \in [Handler -> Labels]
  /\ req \in [Handler -> Request \cup {NoReq}]
  /\ loc \in [Handler -> LocalTypes]
  /\ outcome \in [Handler -> Answered \cup {"none"}]
  /\ \A h \in Handler : pc[h] \in Decided => outcome[h] # "none"
  /\ received \in 0 .. MaxRequests /\ crashes \in 0 .. MaxCrashes

IInv ==
  /\ VariableTypes
  /\ InOrder(disk)
  /\ \A h \in Handler : HandlerOK(disk, pc[h], req[h], loc[h])
  /\ LockInv
  /\ BlockInv

-----------------------------------------------------------------------------
(* What can be read from a block *)

\* The three kinds of contents.
LEMMA Kinds ==
  ASSUME NEW c \in Content
  PROVE  \/ c.kind = "inode" /\ c \in Inodes
         \/ c.kind = "entries" /\ c = DirData(c.entries) /\ c.entries \in [1 .. DirEntries -> DirEntry]
         \/ c.kind = "data" /\ c = FileData(c.value) /\ c.value \in Value \cup {Junk}
<1>1. CASE c \in Inodes
  BY <1>1 DEF Inodes, Inode
<1>2. CASE c \in {DirData(e) : e \in [1 .. DirEntries -> DirEntry]}
  <2>1. PICK e \in [1 .. DirEntries -> DirEntry] : c = DirData(e)
    BY <1>2
  <2>2. c.kind = "entries" /\ c.entries = e
    BY <2>1 DEF DirData
  <2>3. QED
    BY <2>1, <2>2
<1>3. CASE c \in {FileData(v) : v \in Value \cup {Junk}}
  <2>1. PICK v \in Value \cup {Junk} : c = FileData(v)
    BY <1>3
  <2>2. c.kind = "data" /\ c.value = v
    BY <2>1 DEF FileData
  <2>3. QED
    BY <2>1, <2>2
<1>4. QED
  BY <1>1, <1>2, <1>3 DEF Content

\* An inode has a type and a sequence of at most MaxFileBlocks blocks.
LEMMA InodeFacts ==
  ASSUME NEW i \in AnyInode
  PROVE  /\ i = Inode(i.type, i.owner, i.blocks)
         /\ i.type \in {"f", "d", "junk"} /\ (i.type = "junk" <=> i = NoInode)
         /\ i.owner \in User \cup {NoOwner, Junk}
         /\ i.blocks \in Seq(Block) /\ Len(i.blocks) <= MaxFileBlocks
         /\ i.type # "junk" => i \in Inodes /\ i.kind = "inode"
<1>1. CASE i \in Inodes
  <2>1. PICK type \in {"f", "d"}, owner \in User \cup {NoOwner}, n \in 0 .. MaxFileBlocks :
               \E blocks \in [1 .. n -> Block] : i = Inode(type, owner, blocks)
    BY <1>1 DEF Inodes
  <2>0. PICK blocks \in [1 .. n -> Block] : i = Inode(type, owner, blocks)
    BY <2>1
  <2>2. blocks \in Seq(Block) /\ Len(blocks) = n
    OBVIOUS
  <2>3. i.type = type /\ i.owner = owner /\ i.blocks = blocks /\ i.kind = "inode"
    BY <2>0 DEF Inode
  <2>4. type # "junk"
    OBVIOUS
  <2>5. i # NoInode
    BY <2>3, <2>4 DEF NoInode, Inode
  <2>6. QED
    BY <1>1, <2>0, <2>2, <2>3, <2>4, <2>5, SizesAssumption
<1>2. CASE i = NoInode
  <2>1. i.type = "junk" /\ i.owner = Junk /\ i.blocks = <<>>
    BY <1>2 DEF NoInode, Inode
  <2>2. <<>> \in Seq(Block) /\ Len(<<>>) = 0
    OBVIOUS
  <2>3. QED
    BY <1>2, <2>1, <2>2, SizesAssumption DEF NoInode, Inode
<1>3. QED
  BY <1>1, <1>2 DEF AnyInode

\* An inode is one by its parts.
LEMMA IsInode ==
  ASSUME NEW type \in {"f", "d"}, NEW owner \in User \cup {NoOwner},
         NEW blocks \in Seq(Block), Len(blocks) <= MaxFileBlocks
  PROVE  Inode(type, owner, blocks) \in Inodes
<1>1. Len(blocks) \in 0 .. MaxFileBlocks /\ blocks \in [1 .. Len(blocks) -> Block]
  BY LenProperties, SizesAssumption
<1>2. QED
  BY <1>1 DEF Inodes

\* Reading a block as an inode.
LEMMA ReadInodeFacts ==
  ASSUME NEW d \in [Block -> Content], NEW b \in Block
  PROVE  /\ ReadInode(d, b) \in AnyInode
         /\ TypeAt(d, b) \in {"f", "d", "junk"}
         /\ TypeAt(d, b) # "junk" => d[b] = ReadInode(d, b) /\ d[b].kind = "inode" /\ d[b] \in Inodes
         /\ TypeAt(d, b) = "junk" => ReadInode(d, b) = NoInode /\ d[b].kind # "inode"
         /\ ReadInode(d, b).blocks \in Seq(Block) /\ Len(ReadInode(d, b).blocks) <= MaxFileBlocks
         /\ Len(ReadInode(d, b).blocks) \in Nat
         /\ DOMAIN ReadInode(d, b).blocks = 1 .. Len(ReadInode(d, b).blocks)
         /\ BlocksAt(d, b) \subseteq Block
         /\ BlocksAt(d, b) = {ReadInode(d, b).blocks[k] : k \in 1 .. Len(ReadInode(d, b).blocks)}
<1>1. d[b].kind = "inode" => d[b] \in Inodes
  BY Kinds
<1>2. ReadInode(d, b) \in AnyInode
  BY <1>1 DEF ReadInode, AnyInode, NoInode
<1>3. d[b].kind # "inode" => ReadInode(d, b) = NoInode
  BY DEF ReadInode, NoInode
<1>4. d[b].kind = "inode" => ReadInode(d, b) = d[b]
  BY DEF ReadInode
<1>5. NoInode \in AnyInode /\ NoInode.type = "junk"
  BY DEF AnyInode, NoInode, Inode
<1>6. d[b] \in Inodes => d[b].type \in {"f", "d"}
  BY DEF Inodes, Inode
<1>7. /\ ReadInode(d, b).blocks \in Seq(Block) /\ Len(ReadInode(d, b).blocks) <= MaxFileBlocks
      /\ TypeAt(d, b) \in {"f", "d", "junk"}
  BY <1>2, InodeFacts DEF TypeAt
<1>8. QED
  BY <1>1, <1>2, <1>3, <1>4, <1>5, <1>6, <1>7, ElementsOfSeq DEF BlocksAt, TypeAt

\* Reading a block as entries or data.
LEMMA ReadDataFacts ==
  ASSUME NEW d \in [Block -> Content], NEW b \in Block
  PROVE  /\ ReadEntries(d, b) \in [1 .. DirEntries -> DirEntry]
         /\ ReadValue(d, b) \in Value \cup {Junk}
         /\ d[b].kind = "entries" => d[b] = DirData(ReadEntries(d, b))
<1>1. [j \in 1 .. DirEntries |-> Unused] \in [1 .. DirEntries -> DirEntry]
  BY DEF DirEntry
<1>2. QED
  BY <1>1, Kinds DEF ReadEntries, ReadValue

\* An entry is Unused, or names a block that is not the root's.
LEMMA EntryFacts ==
  ASSUME NEW e \in DirEntry
  PROVE  /\ e.inode_block \in Block
         /\ e.inode_block = 0 <=> e = Unused
         /\ e.inode_block # 0 => e.name \in Name
<1>1. 0 \in Block
  BY SizesAssumption DEF Block
<1>2. QED
  BY <1>1 DEF DirEntry, Unused

\* The slots of an inode.
LEMMA SlotFacts ==
  ASSUME NEW d \in [Block -> Content], NEW b \in Block, NEW s \in Slots(d, b)
  PROVE  /\ s[1] \in BlocksAt(d, b) /\ s[1] \in Block /\ s[2] \in 1 .. DirEntries /\ s = <<s[1], s[2]>>
         /\ TypeAt(d, b) = "d"
         /\ EntryIn(d, s) \in DirEntry
         /\ EntryIn(d, s).inode_block \in Block \ {0} /\ EntryIn(d, s).name \in Name
<1>1. /\ s[1] \in BlocksAt(d, b) /\ s[2] \in 1 .. DirEntries /\ s = <<s[1], s[2]>>
      /\ TypeAt(d, b) = "d" /\ EntryIn(d, s).inode_block # 0
  BY DEF Slots
<1>2. s[1] \in Block
  BY <1>1, ReadInodeFacts
<1>3. EntryIn(d, s) \in DirEntry
  BY <1>1, <1>2, ReadDataFacts DEF EntryIn
<1>4. QED
  BY <1>1, <1>2, <1>3, EntryFacts

\* Entries and Children by slots.
LEMMA EntriesBySlots ==
  ASSUME NEW d \in [Block -> Content], NEW b \in Block
  PROVE  /\ Entries(d, b) = {EntryIn(d, s) : s \in Slots(d, b)}
         /\ Children(d, b) = {EntryIn(d, s).inode_block : s \in Slots(d, b)}
         /\ Children(d, b) \subseteq Block \ {0}
<1>1. ASSUME NEW e \in Entries(d, b)
      PROVE  \E s \in Slots(d, b) : e = EntryIn(d, s)
  <2>1. TypeAt(d, b) = "d" /\ e.inode_block # 0
    BY <1>1 DEF Entries, TypeAt
  <2>2. PICK k \in BlocksAt(d, b) : e \in ToSet(ReadEntries(d, k))
    BY <1>1, <2>1 DEF Entries, TypeAt, BlocksAt
  <2>3. PICK j \in 1 .. DirEntries : e = ReadEntries(d, k)[j]
    <3>1. k \in Block
      BY <2>2, ReadInodeFacts
    <3>2. DOMAIN ReadEntries(d, k) = 1 .. DirEntries
      BY <3>1, ReadDataFacts
    <3>3. QED
      BY <2>2, <3>2 DEF ToSet
  <2>4. e = EntryIn(d, <<k, j>>) /\ <<k, j>> \in Slots(d, b)
    BY <2>1, <2>2, <2>3 DEF Slots, EntryIn
  <2>5. QED
    BY <2>4
<1>2. ASSUME NEW s \in Slots(d, b)
      PROVE  EntryIn(d, s) \in Entries(d, b)
  <2>1. /\ s[1] \in BlocksAt(d, b) /\ s[1] \in Block /\ s[2] \in 1 .. DirEntries
        /\ TypeAt(d, b) = "d" /\ EntryIn(d, s).inode_block # 0
    BY <1>2, SlotFacts
  <2>2. DOMAIN ReadEntries(d, s[1]) = 1 .. DirEntries
    BY <2>1, ReadDataFacts
  <2>3. EntryIn(d, s) \in ToSet(ReadEntries(d, s[1]))
    BY <2>1, <2>2 DEF ToSet, EntryIn
  <2>4. QED
    BY <2>1, <2>3 DEF Entries, TypeAt, BlocksAt
<1>3. Entries(d, b) = {EntryIn(d, s) : s \in Slots(d, b)}
  BY <1>1, <1>2
<1>4. Children(d, b) = {EntryIn(d, s).inode_block : s \in Slots(d, b)}
  BY <1>3 DEF Children
<1>5. QED
  BY <1>3, <1>4, SlotFacts

-----------------------------------------------------------------------------
(* The tree *)

\* TreeInodes is the last of a sequence of levels.
LEMMA TreeLevels ==
  ASSUME NEW d \in [Block -> Content]
  PROVE  \E f \in [0 .. DiskSize -> SUBSET Block] :
           /\ f[0] = {0}
           /\ \A m \in 1 .. DiskSize : f[m] = f[m - 1] \cup UNION {Children(d, b) : b \in f[m - 1]}
           /\ TreeInodes(d) = f[DiskSize]
<1> DEFINE G == [x \in Nat \X SUBSET Block |-> x[2] \cup UNION {Children(d, b) : b \in x[2]}]
           Eqn(g) == g = [n \in 0 .. DiskSize |->
                            IF n = 0 THEN {0}
                            ELSE LET above == g[n - 1]
                                 IN  above \cup UNION {Children(d, b) : b \in above}]
<1>1. G \in [Nat \X SUBSET Block -> SUBSET Block]
  BY EntriesBySlots
<1>2. {0} \in SUBSET Block /\ DiskSize \in Nat
  BY SizesAssumption DEF Block
<1>3. PICK f \in [0 .. DiskSize -> SUBSET Block] :
        f[0] = {0} /\ \A m \in 1 .. DiskSize : f[m] = G[<<m, f[m - 1]>>]
  <2> HIDE DEF G
  <2>1. \E f : IsRecursive(f, SUBSET Block, {0}, G, DiskSize)
    BY <1>1, <1>2, RecursionExists
  <2>2. QED
    BY <2>1 DEF IsRecursive
<1>4. ASSUME NEW m \in 1 .. DiskSize
      PROVE  f[m] = f[m - 1] \cup UNION {Children(d, b) : b \in f[m - 1]}
  <2>1. m - 1 \in 0 .. DiskSize /\ m \in Nat
    BY <1>2
  <2>2. <<m, f[m - 1]>> \in Nat \X SUBSET Block
    BY <1>3, <2>1
  <2>3. QED
    BY <1>3, <2>2
<1>5. Eqn(f)
  <2>1. ASSUME NEW n \in 0 .. DiskSize
        PROVE  f[n] = IF n = 0 THEN {0} ELSE f[n - 1] \cup UNION {Children(d, b) : b \in f[n - 1]}
    <3>1. CASE n = 0
      BY <1>3, <3>1
    <3>2. CASE n # 0
      <4>1. n \in 1 .. DiskSize
        BY <1>2, <3>2
      <4>2. QED
        BY <1>4, <3>2, <4>1
    <3>3. QED
      BY <3>1, <3>2
  <2>2. f = [n \in 0 .. DiskSize |-> f[n]]
    OBVIOUS
  <2>3. QED
    BY <2>1, <2>2
<1>6. Eqn(CHOOSE g : Eqn(g))
  <2> HIDE DEF Eqn
  <2>1. QED
    BY <1>5, Zenon
<1>7. TreeInodes(d) = (CHOOSE g : Eqn(g))[DiskSize]
  BY Zenon DEF TreeInodes
<1>8. PICK g : Eqn(g) /\ TreeInodes(d) = g[DiskSize]
  BY <1>6, <1>7
<1>9. DOMAIN g = 0 .. DiskSize /\ g[0] = {0}
  BY <1>2, <1>8
<1>10. ASSUME NEW m \in 1 .. DiskSize
       PROVE  g[m] = g[m - 1] \cup UNION {Children(d, b) : b \in g[m - 1]}
  <2>1. m \in 0 .. DiskSize /\ m # 0
    BY <1>2
  <2>2. QED
    BY <1>8, <2>1
<1>11. 0 .. DiskSize \subseteq {n \in 0 .. DiskSize : g[n] = f[n]}
  <2> DEFINE P == {n \in 0 .. DiskSize : g[n] = f[n]}
  <2>1. 0 \in P
    <3>1. 0 \in 0 .. DiskSize /\ g[0] = f[0]
      BY <1>2, <1>3, <1>9
    <3>2. QED
      BY <3>1
  <2>2. ASSUME NEW m \in 1 .. DiskSize, m - 1 \in P
        PROVE  m \in P
    <3>1. m \in 0 .. DiskSize /\ g[m - 1] = f[m - 1]
      BY <1>2, <2>2
    <3>2. QED
      BY <1>4, <1>10, <3>1
  <2> HIDE DEF P
  <2>3. 0 .. DiskSize \subseteq P
    BY <1>2, <2>1, <2>2, UpTo
  <2>4. QED
    BY <2>3 DEF P
<1>12. TreeInodes(d) = f[DiskSize]
  <2>1. DiskSize \in 0 .. DiskSize
    BY <1>2
  <2>2. QED
    BY <1>8, <1>11, <2>1
<1>13. QED
  BY <1>3, <1>4, <1>12

\* What contains the root and is closed under Children contains the tree.
LEMMA TreeLeast ==
  ASSUME NEW d \in [Block -> Content], NEW S, 0 \in S, \A b \in S \cap Block : Children(d, b) \subseteq S
  PROVE  TreeInodes(d) \subseteq S
<1>1. PICK f \in [0 .. DiskSize -> SUBSET Block] :
        /\ f[0] = {0}
        /\ \A m \in 1 .. DiskSize : f[m] = f[m - 1] \cup UNION {Children(d, b) : b \in f[m - 1]}
        /\ TreeInodes(d) = f[DiskSize]
  BY TreeLevels
<1> DEFINE P == {n \in 0 .. DiskSize : f[n] \subseteq S}
<1>2. DiskSize \in Nat
  BY SizesAssumption
<1>3. 0 \in P
  BY <1>1, <1>2
<1>4. ASSUME NEW m \in 1 .. DiskSize, m - 1 \in P
      PROVE  m \in P
  <2>1. m \in 0 .. DiskSize /\ f[m - 1] \subseteq S /\ f[m - 1] \subseteq Block
    BY <1>1, <1>2, <1>4
  <2>2. QED
    BY <1>1, <2>1
<1> HIDE DEF P
<1>5. 0 .. DiskSize \subseteq P
  BY <1>2, <1>3, <1>4, UpTo
<1>6. DiskSize \in 0 .. DiskSize
  BY <1>2
<1>7. QED
  BY <1>1, <1>5, <1>6 DEF P

\* The tree contains the root and the children of its inodes: a level that is
\* not closed has one block more than the one before, and there are no more than
\* DiskSize blocks.
LEMMA TreeClosed ==
  ASSUME NEW d \in [Block -> Content]
  PROVE  /\ 0 \in TreeInodes(d) /\ TreeInodes(d) \subseteq Block
         /\ \A b \in TreeInodes(d) : Children(d, b) \subseteq TreeInodes(d)
<1>1. PICK f \in [0 .. DiskSize -> SUBSET Block] :
        /\ f[0] = {0}
        /\ \A m \in 1 .. DiskSize : f[m] = f[m - 1] \cup UNION {Children(d, b) : b \in f[m - 1]}
        /\ TreeInodes(d) = f[DiskSize]
  BY TreeLevels
<1>2. DiskSize \in Nat \ {0} /\ DiskSize \in 0 .. DiskSize
  BY SizesAssumption
<1>3. IsFiniteSet(Block) /\ Cardinality(Block) = DiskSize
  <2>1. IsFiniteSet(Block) /\ Cardinality(Block) = (DiskSize - 1) - 0 + 1
    BY <1>2, FS_Interval DEF Block
  <2>2. QED
    BY <1>2, <2>1
<1>4. \A n \in 0 .. DiskSize : f[n] \subseteq Block /\ IsFiniteSet(f[n]) /\ Cardinality(f[n]) \in Nat
  BY <1>1, <1>3, FS_Subset, FS_CardinalityType
<1>5. \A n \in 0 .. DiskSize : 0 \in f[n]
  <2> DEFINE P == {n \in 0 .. DiskSize : 0 \in f[n]}
  <2>1. 0 \in P
    BY <1>1, <1>2
  <2>2. \A m \in 1 .. DiskSize : m - 1 \in P => m \in P
    <3>1. SUFFICES ASSUME NEW m \in 1 .. DiskSize, m - 1 \in P PROVE m \in P
      OBVIOUS
    <3>2. m \in 0 .. DiskSize /\ 0 \in f[m - 1]
      BY <1>2, <3>1
    <3>3. QED
      BY <1>1, <3>2
  <2> HIDE DEF P
  <2>3. 0 .. DiskSize \subseteq P
    BY <1>2, <2>1, <2>2, UpTo
  <2>4. QED
    BY <2>3 DEF P
<1>6. ASSUME NEW m \in 1 .. DiskSize
      PROVE  \A b \in f[m - 1] : Children(d, b) \subseteq f[m]
  BY <1>1
<1>7. SUFFICES ASSUME ~ \A b \in TreeInodes(d) : Children(d, b) \subseteq TreeInodes(d)
               PROVE  FALSE
  BY <1>1, <1>2, <1>4, <1>5
<1>8. ASSUME NEW m \in 1 .. DiskSize
      PROVE  f[m] # f[m - 1]
  <2>1. SUFFICES ASSUME f[m] = f[m - 1] PROVE FALSE
    OBVIOUS
  <2>2. m - 1 \in 0 .. DiskSize
    BY <1>2
  <2>3. \A b \in f[m - 1] : Children(d, b) \subseteq f[m - 1]
    BY <1>6, <2>1
  <2>4. TreeInodes(d) \subseteq f[m - 1]
    BY <1>5, <2>2, <2>3, TreeLeast
  <2>5. {n \in 0 .. DiskSize : n < m \/ f[m - 1] \subseteq f[n]} = 0 .. DiskSize
    <3> DEFINE P == {n \in 0 .. DiskSize : n < m \/ f[m - 1] \subseteq f[n]}
    <3>1. 0 \in P
      BY <1>2
    <3>2. \A n \in 1 .. DiskSize : n - 1 \in P => n \in P
      <4>1. SUFFICES ASSUME NEW n \in 1 .. DiskSize, n - 1 \in P PROVE n \in P
        OBVIOUS
      <4>2. n \in 0 .. DiskSize /\ (n - 1 < m \/ f[m - 1] \subseteq f[n - 1])
        BY <1>2, <4>1
      <4>3. f[n - 1] \subseteq f[n]
        BY <1>1
      <4>4. CASE n < m
        BY <4>2, <4>4
      <4>5. CASE n = m
        BY <4>2, <4>3, <4>5
      <4>6. CASE n > m
        <5>1. ~(n - 1 < m)
          BY <1>2, <4>6
        <5>2. QED
          BY <4>2, <4>3, <5>1
      <4>7. QED
        BY <1>2, <4>4, <4>5, <4>6
    <3> HIDE DEF P
    <3>3. 0 .. DiskSize \subseteq P
      BY <1>2, <3>1, <3>2, UpTo
    <3>4. QED
      BY <3>3 DEF P
  <2>6. f[m - 1] \subseteq TreeInodes(d)
    <3>1. ~(DiskSize < m)
      BY <1>2
    <3>2. QED
      BY <1>1, <1>2, <2>5, <3>1
  <2>7. TreeInodes(d) = f[m - 1]
    BY <2>4, <2>6
  <2>8. QED
    BY <1>7, <2>3, <2>7
<1>9. \A n \in 0 .. DiskSize : Cardinality(f[n]) >= n + 1
  <2> DEFINE P == {n \in 0 .. DiskSize : Cardinality(f[n]) >= n + 1}
  <2>1. 0 \in P
    <3>1. Cardinality(f[0]) = 1
      BY <1>1, FS_Singleton
    <3>2. QED
      BY <1>2, <3>1
  <2>2. \A m \in 1 .. DiskSize : m - 1 \in P => m \in P
    <3>1. SUFFICES ASSUME NEW m \in 1 .. DiskSize, m - 1 \in P PROVE m \in P
      OBVIOUS
    <3>2. m \in 0 .. DiskSize /\ m - 1 \in 0 .. DiskSize /\ Cardinality(f[m - 1]) >= m
      BY <1>2, <3>1
    <3>3. f[m - 1] \subseteq f[m] /\ f[m] # f[m - 1]
      BY <1>1, <1>8
    <3>4. Cardinality(f[m - 1]) < Cardinality(f[m])
      <4>1. IsFiniteSet(f[m]) /\ Cardinality(f[m]) \in Nat /\ Cardinality(f[m - 1]) \in Nat
        BY <1>4, <3>2
      <4>2. /\ Cardinality(f[m - 1]) <= Cardinality(f[m])
            /\ Cardinality(f[m - 1]) = Cardinality(f[m]) => f[m - 1] = f[m]
        BY <3>3, <4>1, FS_Subset
      <4>3. QED
        BY <3>3, <4>1, <4>2
    <3>5. QED
      BY <1>4, <3>2, <3>4
  <2> HIDE DEF P
  <2>3. 0 .. DiskSize \subseteq P
    BY <1>2, <2>1, <2>2, UpTo
  <2>4. QED
    BY <2>3 DEF P
<1>10. Cardinality(f[DiskSize]) <= DiskSize
  BY <1>2, <1>3, <1>4, FS_Subset
<1>11. QED
  BY <1>2, <1>4, <1>9, <1>10

\* What the tree uses.
LEMMA UsedFacts ==
  ASSUME NEW d \in [Block -> Content]
  PROVE  /\ UsedBlocks(d) = TreeInodes(d) \cup UNION {BlocksAt(d, i) : i \in TreeInodes(d)}
         /\ UsedBlocks(d) \subseteq Block /\ 0 \in UsedBlocks(d)
<1>1. UsedBlocks(d) = TreeInodes(d) \cup UNION {BlocksAt(d, i) : i \in TreeInodes(d)}
  BY DEF UsedBlocks, BlocksAt
<1>2. QED
  BY <1>1, TreeClosed, ReadInodeFacts

-----------------------------------------------------------------------------
(* Paths *)

\* One name of a path: what the directories in S call x.
Linked(d, b, x, c) == \E s \in Slots(d, b) : EntryIn(d, s).name = x /\ EntryIn(d, s).inode_block = c
StepOf(d, S, x) == {c \in Block : \E b \in S : Linked(d, b, x, c)}

\* f[m] is what the first m names of p lead to.
IsWalk(f, d, p, n) ==
  /\ f \in [0 .. n -> SUBSET Block] /\ f[0] = {0}
  /\ \A m \in 1 .. n : f[m] = StepOf(d, f[m - 1], p[m])

\* Two walks along the same names are the same.
LEMMA WalksAgree ==
  ASSUME NEW d, NEW n \in Nat, NEW f, NEW g, NEW p, NEW q, IsWalk(f, d, p, n),
         NEW k \in Nat, n <= k, IsWalk(g, d, q, k), \A m \in 1 .. n : p[m] = q[m]
  PROVE  f[n] = g[n]
<1> DEFINE P == {m \in 0 .. n : f[m] = g[m]}
<1>1. 0 \in P
  <2>1. 0 \in 0 .. n /\ f[0] = {0} /\ g[0] = {0}
    BY DEF IsWalk
  <2>2. QED
    BY <2>1
<1>2. \A m \in 1 .. n : m - 1 \in P => m \in P
  <2>1. SUFFICES ASSUME NEW m \in 1 .. n, m - 1 \in P PROVE m \in P
    OBVIOUS
  <2>2. m \in 0 .. n /\ m \in 1 .. k /\ f[m - 1] = g[m - 1] /\ p[m] = q[m]
    BY <2>1
  <2>3. f[m] = StepOf(d, f[m - 1], p[m]) /\ g[m] = StepOf(d, g[m - 1], q[m])
    BY <2>2 DEF IsWalk
  <2>4. f[m] = g[m]
    BY <2>2, <2>3, Zenon
  <2>5. QED
    BY <2>2, <2>4
<1> HIDE DEF P
<1>3. 0 .. n \subseteq P
  BY <1>1, <1>2, UpTo
<1>4. QED
  BY <1>3 DEF P

\* Resolve is the end of a walk.
LEMMA ResolveWalks ==
  ASSUME NEW d \in [Block -> Content], NEW p, Len(p) \in Nat
  PROVE  \E f : IsWalk(f, d, p, Len(p)) /\ Resolve(d, p) = f[Len(p)]
<1> DEFINE G == [x \in Nat \X SUBSET Block |-> StepOf(d, x[2], p[x[1]])]
           Eqn(g) == g = [n \in 0 .. Len(p) |->
                            IF n = 0 THEN {0}
                            ELSE {e.inode_block : e \in {x \in UNION {Entries(d, b) : b \in g[n - 1]} :
                                                           x.name = p[n]}}]
<1>0. {0} \in SUBSET Block
  BY SizesAssumption DEF Block
<1>1. ASSUME NEW S \in SUBSET Block, NEW n
      PROVE  {e.inode_block : e \in {x \in UNION {Entries(d, b) : b \in S} : x.name = p[n]}}
               = StepOf(d, S, p[n])
  <2>1. ASSUME NEW b \in S, NEW e \in Entries(d, b), e.name = p[n]
        PROVE  e.inode_block \in StepOf(d, S, p[n])
    <3>1. PICK s \in Slots(d, b) : e = EntryIn(d, s)
      BY <2>1, EntriesBySlots
    <3>2. Linked(d, b, p[n], e.inode_block)
      BY <2>1, <3>1 DEF Linked
    <3>3. e.inode_block \in Block
      BY <3>1, SlotFacts
    <3>4. QED
      BY <3>2, <3>3 DEF StepOf
  <2>2. ASSUME NEW c \in StepOf(d, S, p[n])
        PROVE  \E b \in S : \E e \in Entries(d, b) : e.name = p[n] /\ e.inode_block = c
    BY <2>2, EntriesBySlots DEF StepOf, Linked
  <2>3. QED
    BY <2>1, <2>2
<1>2. G \in [Nat \X SUBSET Block -> SUBSET Block]
  BY DEF StepOf
<1>3. PICK f : IsWalk(f, d, p, Len(p))
  <2>1. PICK f : IsRecursive(f, SUBSET Block, {0}, G, Len(p))
    <3> HIDE DEF G
    <3>1. QED
      BY <1>0, <1>2, RecursionExists
  <2>2. ASSUME NEW m \in 1 .. Len(p)
        PROVE  f[m] = StepOf(d, f[m - 1], p[m])
    <3>1. m - 1 \in 0 .. Len(p) /\ m \in Nat
      OBVIOUS
    <3>2. <<m, f[m - 1]>> \in Nat \X SUBSET Block
      BY <2>1, <3>1 DEF IsRecursive
    <3>3. QED
      BY <2>1, <3>2 DEF IsRecursive
  <2>3. QED
    BY <2>1, <2>2 DEF IsRecursive, IsWalk
<1>4. Eqn(f)
  <2>1. ASSUME NEW n \in 0 .. Len(p)
        PROVE  f[n] = IF n = 0 THEN {0}
                      ELSE {e.inode_block : e \in {x \in UNION {Entries(d, b) : b \in f[n - 1]} :
                                                     x.name = p[n]}}
    <3>1. CASE n = 0
      BY <1>3, <3>1 DEF IsWalk
    <3>2. CASE n # 0
      <4>1. n \in 1 .. Len(p) /\ n - 1 \in 0 .. Len(p)
        BY <3>2
      <4>2. f[n] = StepOf(d, f[n - 1], p[n]) /\ f[n - 1] \in SUBSET Block
        BY <1>3, <4>1 DEF IsWalk
      <4>3. QED
        BY <1>1, <3>2, <4>2
    <3>3. QED
      BY <3>1, <3>2
  <2>2. f = [n \in 0 .. Len(p) |-> f[n]]
    BY <1>3 DEF IsWalk
  <2>3. QED
    BY <2>1, <2>2
<1>5. Eqn(CHOOSE g : Eqn(g))
  <2> HIDE DEF Eqn
  <2>1. QED
    BY <1>4, Zenon
<1>6. Resolve(d, p) = (CHOOSE g : Eqn(g))[Len(p)]
  BY Zenon DEF Resolve
<1>7. PICK g : Eqn(g) /\ Resolve(d, p) = g[Len(p)]
  BY <1>5, <1>6
<1>8. 0 .. Len(p) \subseteq {n \in 0 .. Len(p) : g[n] = f[n]}
  <2> DEFINE P == {n \in 0 .. Len(p) : g[n] = f[n]}
  <2>1. 0 \in P
    <3>1. 0 \in 0 .. Len(p) /\ g[0] = {0} /\ f[0] = {0}
      BY <1>3, <1>7 DEF IsWalk
    <3>2. QED
      BY <3>1
  <2>2. \A m \in 1 .. Len(p) : m - 1 \in P => m \in P
    <3>1. SUFFICES ASSUME NEW m \in 1 .. Len(p), m - 1 \in P PROVE m \in P
      OBVIOUS
    <3>2. m \in 0 .. Len(p) /\ m # 0 /\ g[m - 1] = f[m - 1]
      BY <3>1
    <3>3. g[m] = {e.inode_block : e \in {x \in UNION {Entries(d, b) : b \in g[m - 1]} : x.name = p[m]}}
      BY <1>7, <3>2
    <3>4. f[m] = {e.inode_block : e \in {x \in UNION {Entries(d, b) : b \in f[m - 1]} : x.name = p[m]}}
      BY <1>4, <3>2
    <3>5. QED
      BY <3>2, <3>3, <3>4
  <2> HIDE DEF P
  <2>3. 0 .. Len(p) \subseteq P
    BY <2>1, <2>2, UpTo
  <2>4. QED
    BY <2>3 DEF P
<1>9. Resolve(d, p) = f[Len(p)]
  <2>1. Len(p) \in 0 .. Len(p)
    OBVIOUS
  <2>2. QED
    BY <1>7, <1>8, <2>1
<1>10. QED
  BY <1>3, <1>9

\* Resolving one name more of a path.
LEMMA ResolveStep ==
  ASSUME NEW d \in [Block -> Content], NEW p \in Seq(Name)
  PROVE  /\ Resolve(d, SubSeq(p, 1, 0)) = {0}
         /\ \A n \in 1 .. Len(p) :
              Resolve(d, SubSeq(p, 1, n)) = StepOf(d, Resolve(d, SubSeq(p, 1, n - 1)), p[n])
<1>1. Len(p) \in Nat
  OBVIOUS
<1>2. ASSUME NEW n \in 0 .. Len(p)
      PROVE  Len(SubSeq(p, 1, n)) = n /\ \A m \in 1 .. n : SubSeq(p, 1, n)[m] = p[m]
  OBVIOUS
<1>3. Resolve(d, SubSeq(p, 1, 0)) = {0}
  <2>1. Len(SubSeq(p, 1, 0)) = 0
    OBVIOUS
  <2>2. PICK f : IsWalk(f, d, SubSeq(p, 1, 0), 0) /\ Resolve(d, SubSeq(p, 1, 0)) = f[0]
    <3>1. 0 \in Nat
      OBVIOUS
    <3>2. QED
      BY <2>1, <3>1, ResolveWalks, Zenon
  <2>3. QED
    BY <2>2 DEF IsWalk
<1>4. ASSUME NEW n \in 1 .. Len(p)
      PROVE  Resolve(d, SubSeq(p, 1, n)) = StepOf(d, Resolve(d, SubSeq(p, 1, n - 1)), p[n])
  <2>1. n \in 0 .. Len(p) /\ n - 1 \in 0 .. Len(p) /\ n \in Nat /\ n - 1 \in Nat /\ n - 1 <= n
    OBVIOUS
  <2>2. /\ Len(SubSeq(p, 1, n)) = n /\ Len(SubSeq(p, 1, n - 1)) = n - 1
        /\ \A m \in 1 .. n - 1 : SubSeq(p, 1, n - 1)[m] = p[m]
        /\ \A m \in 1 .. n : SubSeq(p, 1, n)[m] = p[m]
    BY <1>2, <2>1
  <2>3. PICK q : q = SubSeq(p, 1, n)
    OBVIOUS
  <2>4. PICK r : r = SubSeq(p, 1, n - 1)
    OBVIOUS
  <2>5. /\ Len(q) = n /\ Len(r) = n - 1 /\ q[n] = p[n]
        /\ \A m \in 1 .. n - 1 : r[m] = q[m]
    BY <2>1, <2>2, <2>3, <2>4
  <2>6. PICK f : IsWalk(f, d, q, n) /\ Resolve(d, q) = f[n]
    BY <2>1, <2>5, ResolveWalks
  <2>7. PICK g : IsWalk(g, d, r, n - 1) /\ Resolve(d, r) = g[n - 1]
    BY <2>1, <2>5, ResolveWalks
  <2>8. g[n - 1] = f[n - 1]
    <3>1. PICK k \in Nat : k = n - 1
      BY <2>1
    <3>2. /\ IsWalk(g, d, r, k) /\ IsWalk(f, d, q, n) /\ n \in Nat /\ k <= n
          /\ \A m \in 1 .. k : r[m] = q[m]
      BY <2>1, <2>5, <2>6, <2>7, <3>1
    <3>3. g[k] = f[k]
      BY <3>2, WalksAgree
    <3>4. QED
      BY <3>1, <3>3
  <2>9. n \in 1 .. n
    OBVIOUS
  <2>10. f[n] = StepOf(d, f[n - 1], q[n])
    BY <2>6, <2>9 DEF IsWalk
  <2>11. Resolve(d, q) = StepOf(d, Resolve(d, r), p[n])
    BY <2>5, <2>6, <2>7, <2>8, <2>10, Zenon
  <2>12. QED
    BY <2>3, <2>4, <2>11
<1>5. QED
  BY <1>3, <1>4

\* The whole of a path is a prefix of it.
LEMMA WholePath ==
  ASSUME NEW p \in Seq(Name)
  PROVE  SubSeq(p, 1, Len(p)) = p
  OBVIOUS

\* What a path leads to is in the tree; names being unique, it is at most one inode.
LEMMA ResolveFacts ==
  ASSUME NEW d \in [Block -> Content], InOrder(d), NEW p \in Seq(Name), NEW n \in 0 .. Len(p)
  PROVE  /\ Resolve(d, SubSeq(p, 1, n)) \subseteq TreeInodes(d)
         /\ \A x, y \in Resolve(d, SubSeq(p, 1, n)) : x = y
<1> DEFINE R(m) == Resolve(d, SubSeq(p, 1, m))
           P == {m \in 0 .. Len(p) : R(m) \subseteq TreeInodes(d) /\ \A x, y \in R(m) : x = y}
<1>1. Len(p) \in Nat
  OBVIOUS
<1>2. 0 \in P
  <2>1. R(0) = {0}
    BY ResolveStep
  <2>2. 0 \in TreeInodes(d) /\ 0 \in 0 .. Len(p)
    BY <1>1, TreeClosed
  <2> HIDE DEF R
  <2>3. QED
    BY <2>1, <2>2
<1>3. ASSUME NEW m \in 1 .. Len(p), m - 1 \in P
      PROVE  m \in P
  <2>1. R(m) = StepOf(d, R(m - 1), p[m])
    BY ResolveStep
  <2>2. m \in 0 .. Len(p) /\ R(m - 1) \subseteq TreeInodes(d) /\ \A x, y \in R(m - 1) : x = y
    BY <1>1, <1>3
  <2> HIDE DEF R, P
  <2>3. ASSUME NEW x \in R(m)
        PROVE  \E b \in R(m - 1) : \E s \in Slots(d, b) :
                 b \in TreeInodes(d) /\ EntryIn(d, s).name = p[m] /\ EntryIn(d, s).inode_block = x
    BY <2>1, <2>2, <2>3 DEF StepOf, Linked
  <2>4. R(m) \subseteq TreeInodes(d)
    <3>1. SUFFICES ASSUME NEW x \in R(m) PROVE x \in TreeInodes(d)
      OBVIOUS
    <3>2. PICK b \in R(m - 1) : b \in TreeInodes(d) /\ \E s \in Slots(d, b) : EntryIn(d, s).inode_block = x
      BY <2>3
    <3>3. b \in Block /\ x \in Children(d, b)
      BY <3>2, TreeClosed, EntriesBySlots
    <3>4. QED
      BY <3>2, <3>3, TreeClosed
  <2>5. \A x, y \in R(m) : x = y
    <3>1. SUFFICES ASSUME NEW x \in R(m), NEW y \in R(m) PROVE x = y
      OBVIOUS
    <3>2. PICK b \in R(m - 1) :
            \E s \in Slots(d, b) :
              b \in TreeInodes(d) /\ EntryIn(d, s).name = p[m] /\ EntryIn(d, s).inode_block = x
      BY <2>3
    <3>3. PICK c \in R(m - 1) :
            \E s \in Slots(d, c) :
              c \in TreeInodes(d) /\ EntryIn(d, s).name = p[m] /\ EntryIn(d, s).inode_block = y
      BY <2>3
    <3>4. b = c
      BY <2>2
    <3>5. PICK s \in Slots(d, b) :
            b \in TreeInodes(d) /\ EntryIn(d, s).name = p[m] /\ EntryIn(d, s).inode_block = x
      BY <3>2
    <3>6. PICK t \in Slots(d, b) : EntryIn(d, t).name = p[m] /\ EntryIn(d, t).inode_block = y
      BY <3>3, <3>4
    <3>7. s = t
      BY <3>5, <3>6 DEF InOrder
    <3>8. QED
      BY <3>5, <3>6, <3>7
  <2>6. QED
    BY <2>2, <2>4, <2>5 DEF P
<1> HIDE DEF P
<1>4. 0 .. Len(p) \subseteq P
  BY <1>1, <1>2, <1>3, UpTo
<1>5. QED
  BY <1>4 DEF P

\* Two disks whose trees differ in inodes C without entries, and in what names them.
Apart(d, e, C) ==
  /\ 0 \notin C
  /\ TreeInodes(d) \ C \subseteq TreeInodes(e)
  /\ \A b \in TreeInodes(d) \ C : \A x \in Name : \A k \in Block \ C :
       Linked(d, b, x, k) <=> Linked(e, b, x, k)
  /\ \A b \in C : Slots(d, b) = {} /\ Slots(e, b) = {}

\* Such disks agree on all paths but those to C.
LEMMA ResolveApart ==
  ASSUME NEW d \in [Block -> Content], NEW e \in [Block -> Content], NEW C, Apart(d, e, C),
         NEW p \in Seq(Name), InOrder(d), NEW n \in 0 .. Len(p)
  PROVE  Resolve(d, SubSeq(p, 1, n)) \ C = Resolve(e, SubSeq(p, 1, n)) \ C
<1> DEFINE R(m) == Resolve(d, SubSeq(p, 1, m))
           Q(m) == Resolve(e, SubSeq(p, 1, m))
           P == {m \in 0 .. Len(p) : R(m) \ C = Q(m) \ C}
<1>1. Len(p) \in Nat
  OBVIOUS
<1>2. 0 \in P
  <2>1. R(0) = {0} /\ Q(0) = {0}
    BY ResolveStep
  <2> HIDE DEF R, Q
  <2>2. QED
    BY <1>1, <2>1
<1>3. ASSUME NEW m \in 1 .. Len(p), m - 1 \in P
      PROVE  m \in P
  <2>1. R(m) = StepOf(d, R(m - 1), p[m]) /\ Q(m) = StepOf(e, Q(m - 1), p[m])
    BY ResolveStep
  <2>2. m \in 0 .. Len(p) /\ m - 1 \in 0 .. Len(p) /\ R(m - 1) \ C = Q(m - 1) \ C /\ p[m] \in Name
    BY <1>1, <1>3
  <2>3. R(m - 1) \subseteq TreeInodes(d)
    BY <2>2, ResolveFacts
  <2> HIDE DEF R, Q, P
  <2>4. ASSUME NEW k \in R(m) \ C
        PROVE  k \in Q(m)
    <3>1. PICK b \in R(m - 1) : Linked(d, b, p[m], k) /\ k \in Block
      BY <2>1, <2>4 DEF StepOf
    <3>2. b \notin C
      BY <3>1 DEF Linked, Apart
    <3>3. b \in Q(m - 1) /\ Linked(e, b, p[m], k)
      BY <2>2, <2>3, <2>4, <3>1, <3>2 DEF Apart
    <3>4. QED
      BY <2>1, <3>1, <3>3 DEF StepOf
  <2>5. ASSUME NEW k \in Q(m) \ C
        PROVE  k \in R(m)
    <3>1. PICK b \in Q(m - 1) : Linked(e, b, p[m], k) /\ k \in Block
      BY <2>1, <2>5 DEF StepOf
    <3>2. b \notin C
      BY <3>1 DEF Linked, Apart
    <3>3. b \in R(m - 1) /\ Linked(d, b, p[m], k)
      BY <2>2, <2>3, <2>5, <3>1, <3>2 DEF Apart
    <3>4. QED
      BY <2>1, <3>1, <3>3 DEF StepOf
  <2>6. QED
    BY <2>2, <2>4, <2>5 DEF P
<1> HIDE DEF P
<1>4. 0 .. Len(p) \subseteq P
  BY <1>1, <1>2, <1>3, UpTo
<1>5. QED
  BY <1>4 DEF P

\* What a path leads to on one such disk, it leads to on the other.
LEMMA PathKept ==
  ASSUME NEW d \in [Block -> Content], NEW e \in [Block -> Content], NEW C, Apart(d, e, C),
         InOrder(d), InOrder(e), NEW p \in Seq(Name), NEW n \in 0 .. Len(p),
         NEW x, x \notin C, Resolve(d, SubSeq(p, 1, n)) = {x}
  PROVE  Resolve(e, SubSeq(p, 1, n)) = {x}
<1>1. x \in Resolve(e, SubSeq(p, 1, n))
  BY ResolveApart
<1>2. \A y, z \in Resolve(e, SubSeq(p, 1, n)) : y = z
  BY ResolveFacts
<1>3. QED
  BY <1>1, <1>2

-----------------------------------------------------------------------------
(* WellFormed *)

\* A finite set has as many images as elements just when no two have the same one.
LEMMA CountImages ==
  ASSUME NEW S, IsFiniteSet(S), NEW f, f = [x \in S |-> f[x]]
  PROVE  Cardinality({f[x] : x \in S}) = Cardinality(S) <=> \A x, y \in S : f[x] = f[y] => x = y
<1> DEFINE T == {f[x] : x \in S}
<1>1. f \in [S -> T]
  OBVIOUS
<1>2. f \in Surjection(S, T)
  BY <1>1 DEF Surjection
<1>3. Cardinality(T) = Cardinality(S) <=> f \in Injection(S, T)
  <2> HIDE DEF T
  <2>1. QED
    BY <1>2, FS_Surjection
<1>4. f \in Injection(S, T) <=> \A x, y \in S : f[x] = f[y] => x = y
  BY <1>1 DEF Injection, IsInjective
<1>5. QED
  BY <1>3, <1>4

\* Every inode of the tree but the root is named by an entry.
LEMMA TreeParents ==
  ASSUME NEW d \in [Block -> Content], NEW c \in TreeInodes(d), c # 0
  PROVE  \E i \in TreeInodes(d) : \E s \in Slots(d, i) : EntryIn(d, s).inode_block = c
<1> DEFINE S == {0} \cup UNION {Children(d, b) : b \in TreeInodes(d)}
<1>1. S \subseteq TreeInodes(d)
  BY TreeClosed
<1>2. 0 \in S /\ \A b \in S \cap Block : Children(d, b) \subseteq S
  BY <1>1
<1> HIDE DEF S
<1>3. TreeInodes(d) \subseteq S
  BY <1>2, TreeLeast
<1>4. PICK i \in TreeInodes(d) : c \in Children(d, i)
  BY <1>3 DEF S
<1>5. i \in Block
  BY TreeClosed
<1>6. QED
  BY <1>4, <1>5, EntriesBySlots

\* Places and slots of a directory are the same, but for how the block is named.
SlotOf(d, i, p) == <<ReadInode(d, i).blocks[p[1]], p[2]>>
\* The places of a directory are its slots, counted within its list of blocks.
LEMMA PlaceFacts ==
  ASSUME NEW d \in [Block -> Content], NEW i \in Block, TypeAt(d, i) = "d"
  PROVE  /\ \A p \in Places(d, ReadInode(d, i)) :
              /\ p \in (1 .. Len(ReadInode(d, i).blocks)) \X (1 .. DirEntries)
              /\ SlotOf(d, i, p) \in Slots(d, i)
              /\ EntryIn(d, SlotOf(d, i, p)) = EntryAt(d, ReadInode(d, i), p)
         /\ \A s \in Slots(d, i) : \E p \in Places(d, ReadInode(d, i)) : s = SlotOf(d, i, p)
         /\ IsFiniteSet(Places(d, ReadInode(d, i)))
<1> DEFINE inode == ReadInode(d, i)
<1>1. /\ Len(inode.blocks) \in Nat
      /\ BlocksAt(d, i) = {inode.blocks[k] : k \in 1 .. Len(inode.blocks)}
  BY ReadInodeFacts
<1> HIDE DEF inode
<1>2. ASSUME NEW p \in Places(d, inode)
      PROVE  /\ p \in (1 .. Len(inode.blocks)) \X (1 .. DirEntries)
             /\ <<inode.blocks[p[1]], p[2]>> \in Slots(d, i)
             /\ EntryIn(d, <<inode.blocks[p[1]], p[2]>>) = EntryAt(d, inode, p)
  BY <1>1 DEF Places, Slots, EntryIn, EntryAt
<1>3. ASSUME NEW s \in Slots(d, i)
      PROVE  \E p \in Places(d, inode) : s = <<inode.blocks[p[1]], p[2]>>
  <2>1. s[1] \in BlocksAt(d, i) /\ s[2] \in 1 .. DirEntries /\ s = <<s[1], s[2]>> /\ EntryIn(d, s).inode_block # 0
    BY DEF Slots
  <2>2. PICK k \in 1 .. Len(inode.blocks) : s[1] = inode.blocks[k]
    BY <1>1, <2>1
  <2>3. <<k, s[2]>> \in Places(d, inode)
    BY <2>1, <2>2 DEF Places, EntryIn
  <2>4. QED
    BY <2>1, <2>2, <2>3
<1>4. IsFiniteSet(Places(d, inode))
  <2>1. IsFiniteSet(1 .. Len(inode.blocks)) /\ IsFiniteSet(1 .. DirEntries)
    BY <1>1, FS_Interval, SizesAssumption
  <2>2. IsFiniteSet((1 .. Len(inode.blocks)) \X (1 .. DirEntries))
    BY <2>1, FS_Product
  <2>3. Places(d, inode) \subseteq (1 .. Len(inode.blocks)) \X (1 .. DirEntries)
    BY DEF Places
  <2>4. QED
    BY <2>2, <2>3, FS_Subset
<1>5. QED
  BY <1>2, <1>3, <1>4 DEF SlotOf, inode

\* The pointers of the tree, and what they point to.
LEMMA PointerFacts ==
  ASSUME NEW d \in [Block -> Content]
  PROVE  /\ \A t : t \in Pointers(d) <=>
              \E i \in TreeInodes(d) :
                \/ \E k \in 1 .. Len(ReadInode(d, i).blocks) : t = <<i, k, 0>>
                \/ TypeAt(d, i) = "d" /\ \E p \in Places(d, ReadInode(d, i)) : t = <<i, p[1], p[2]>>
         /\ \A i, k : PointsTo(d, <<i, k, 0>>) = ReadInode(d, i).blocks[k]
         /\ \A i \in TreeInodes(d) : TypeAt(d, i) = "d" =>
              \A p \in Places(d, ReadInode(d, i)) :
                PointsTo(d, <<i, p[1], p[2]>>) = EntryAt(d, ReadInode(d, i), p).inode_block
         /\ IsFiniteSet(Pointers(d))
<1>1. ASSUME NEW i \in TreeInodes(d), TypeAt(d, i) = "d", NEW p \in Places(d, ReadInode(d, i))
      PROVE  /\ PointsTo(d, <<i, p[1], p[2]>>) = EntryAt(d, ReadInode(d, i), p).inode_block
             /\ p[1] \in 1 .. Len(ReadInode(d, i).blocks) /\ p[2] \in 1 .. DirEntries
  <2>1. i \in Block
    BY TreeClosed
  <2>2. p \in (1 .. Len(ReadInode(d, i).blocks)) \X (1 .. DirEntries)
    BY <1>1, <2>1, PlaceFacts
  <2>3. p[2] # 0 /\ p = <<p[1], p[2]>>
    BY <2>2
  <2>4. QED
    BY <2>2, <2>3 DEF PointsTo
<1>2. ASSUME NEW t
      PROVE  t \in Pointers(d) <=>
              \E i \in TreeInodes(d) :
                \/ \E k \in 1 .. Len(ReadInode(d, i).blocks) : t = <<i, k, 0>>
                \/ TypeAt(d, i) = "d" /\ \E p \in Places(d, ReadInode(d, i)) : t = <<i, p[1], p[2]>>
  BY DEF Pointers, TypeAt
<1>3. \A i, k : PointsTo(d, <<i, k, 0>>) = ReadInode(d, i).blocks[k]
  BY DEF PointsTo
<1>4. IsFiniteSet(Pointers(d))
  <2> DEFINE A == Block \X ((1 .. MaxFileBlocks) \X (0 .. DirEntries))
             f == [x \in A |-> <<x[1], x[2][1], x[2][2]>>]
             C == {f[x] : x \in A}
  <2>1. IsFiniteSet(Block) /\ IsFiniteSet(1 .. MaxFileBlocks) /\ IsFiniteSet(0 .. DirEntries)
    BY FS_Interval, SizesAssumption DEF Block
  <2>2. IsFiniteSet(A)
    BY <2>1, FS_Product
  <2>3. f \in Surjection(A, C)
    BY DEF Surjection
  <2>4. IsFiniteSet(C)
    <3> HIDE DEF A, C, f
    <3>1. QED
      BY <2>2, <2>3, FS_Surjection
  <2>5. ASSUME NEW i \in TreeInodes(d), NEW k \in 1 .. Len(ReadInode(d, i).blocks), NEW j \in 0 .. DirEntries
        PROVE  <<i, k, j>> \in C
    <3>1. i \in Block /\ Len(ReadInode(d, i).blocks) <= MaxFileBlocks /\ Len(ReadInode(d, i).blocks) \in Nat
      BY TreeClosed, ReadInodeFacts
    <3>2. k \in 1 .. MaxFileBlocks
      BY <3>1, SizesAssumption
    <3>3. <<i, <<k, j>>>> \in A
      BY <3>1, <3>2
    <3>4. f[<<i, <<k, j>>>>] = <<i, k, j>>
      BY <3>3
    <3> HIDE DEF A, f
    <3>5. QED
      BY <3>3, <3>4
  <2> HIDE DEF A, C, f
  <2>6. 0 \in 0 .. DirEntries /\ 1 .. DirEntries \subseteq 0 .. DirEntries
    BY SizesAssumption
  <2>7. Pointers(d) \subseteq C
    BY <1>1, <1>2, <2>5, <2>6
  <2>8. QED
    BY <2>4, <2>7, FS_Subset
<1>5. QED
  BY <1>1, <1>2, <1>3, <1>4

\* No block is shared: no two pointers point to the same, and none to the root.
Unshared2(d) ==
  /\ \A t \in Pointers(d) : PointsTo(d, t) # 0
  /\ \A t, u \in Pointers(d) : PointsTo(d, t) = PointsTo(d, u) => t = u

\* WellFormed without counting.
LEMMA WellFormedUncounted ==
  ASSUME NEW d \in [Block -> Content]
  PROVE  WellFormed(d) <=>
           /\ \A i \in TreeInodes(d) :
                /\ TypeAt(d, i) \in {"f", "d"}
                /\ \A k \in BlocksAt(d, i) : d[k].kind = IF TypeAt(d, i) = "d" THEN "entries" ELSE "data"
                /\ TypeAt(d, i) = "d" =>
                     /\ \A k \in 1 .. Len(ReadInode(d, i).blocks) :
                          \E p \in Places(d, ReadInode(d, i)) : p[1] = k
                     /\ \A p, q \in Places(d, ReadInode(d, i)) :
                          EntryAt(d, ReadInode(d, i), p).name = EntryAt(d, ReadInode(d, i), q).name => p = q
           /\ Unshared2(d)
<1>1. ASSUME NEW i \in TreeInodes(d), TypeAt(d, i) = "d"
      PROVE  /\ {p[1] : p \in Places(d, ReadInode(d, i))} = 1 .. Len(ReadInode(d, i).blocks)
                  <=> \A k \in 1 .. Len(ReadInode(d, i).blocks) : \E p \in Places(d, ReadInode(d, i)) : p[1] = k
             /\ Cardinality({EntryAt(d, ReadInode(d, i), p).name : p \in Places(d, ReadInode(d, i))})
                  = Cardinality(Places(d, ReadInode(d, i)))
                  <=> \A p, q \in Places(d, ReadInode(d, i)) :
                        EntryAt(d, ReadInode(d, i), p).name = EntryAt(d, ReadInode(d, i), q).name => p = q
  <2>1. i \in Block
    BY TreeClosed
  <2>2. /\ \A p \in Places(d, ReadInode(d, i)) : p \in (1 .. Len(ReadInode(d, i).blocks)) \X (1 .. DirEntries)
        /\ IsFiniteSet(Places(d, ReadInode(d, i)))
    BY <1>1, <2>1, PlaceFacts
  <2> DEFINE S == Places(d, ReadInode(d, i))
             f == [p \in S |-> EntryAt(d, ReadInode(d, i), p).name]
  <2>3. f = [p \in S |-> f[p]] /\ \A p \in S : f[p] = EntryAt(d, ReadInode(d, i), p).name
    OBVIOUS
  <2>4. {f[p] : p \in S} = {EntryAt(d, ReadInode(d, i), p).name : p \in S}
    OBVIOUS
  <2> HIDE DEF f
  <2>5. Cardinality({f[p] : p \in S}) = Cardinality(S) <=> \A p, q \in S : f[p] = f[q] => p = q
    BY <2>2, <2>3, CountImages
  <2>6. {p[1] : p \in S} = 1 .. Len(ReadInode(d, i).blocks)
          <=> \A k \in 1 .. Len(ReadInode(d, i).blocks) : \E p \in S : p[1] = k
    <3>1. \A p \in S : p[1] \in 1 .. Len(ReadInode(d, i).blocks)
      BY <2>2
    <3> HIDE DEF S
    <3>2. QED
      BY <3>1
  <2> DEFINE names == {EntryAt(d, ReadInode(d, i), p).name : p \in S}
  <2>7. Cardinality(names) = Cardinality(S)
          <=> \A p, q \in S : EntryAt(d, ReadInode(d, i), p).name = EntryAt(d, ReadInode(d, i), q).name => p = q
    <3>1. {f[p] : p \in S} = names
      BY <2>4
    <3> HIDE DEF names, S
    <3>2. QED
      BY <2>3, <2>5, <3>1
  <2>8. QED
    BY <2>6, <2>7
<1>2. Unshared2(d) <=>
        LET pointers == Pointers(d)
            targets  == {PointsTo(d, p) : p \in pointers}
        IN  0 \notin targets /\ Cardinality(targets) = Cardinality(pointers)
  <2> DEFINE S == Pointers(d)
             f == [p \in S |-> PointsTo(d, p)]
  <2>1. f = [p \in S |-> f[p]] /\ (\A p \in S : f[p] = PointsTo(d, p)) /\ IsFiniteSet(S)
    BY PointerFacts
  <2>2. {f[p] : p \in S} = {PointsTo(d, p) : p \in S}
    OBVIOUS
  <2> HIDE DEF f
  <2>3. Cardinality({f[p] : p \in S}) = Cardinality(S) <=> \A p, q \in S : f[p] = f[q] => p = q
    BY <2>1, CountImages
  <2> DEFINE targets == {PointsTo(d, p) : p \in S}
  <2>4. /\ {f[p] : p \in S} = targets
        /\ 0 \notin targets <=> \A p \in S : PointsTo(d, p) # 0
    BY <2>2
  <2>5. Unshared2(d) <=> /\ \A p \in S : PointsTo(d, p) # 0
                         /\ \A p, q \in S : PointsTo(d, p) = PointsTo(d, q) => p = q
    BY DEF Unshared2
  <2> HIDE DEF targets
  <2>6. Unshared2(d) <=> 0 \notin targets /\ Cardinality(targets) = Cardinality(S)
    BY <2>1, <2>3, <2>4, <2>5
  <2>7. QED
    BY <2>6 DEF targets
<1>3. ASSUME NEW i \in TreeInodes(d)
      PROVE  (\A k \in BlocksAt(d, i) : d[k].kind = IF TypeAt(d, i) = "d" THEN "entries" ELSE "data")
               <=> \A k \in 1 .. Len(ReadInode(d, i).blocks) :
                     d[ReadInode(d, i).blocks[k]].kind = IF ReadInode(d, i).type = "d" THEN "entries" ELSE "data"
  BY TreeClosed, ReadInodeFacts DEF TypeAt
<1>4. QED
  BY <1>1, <1>2, <1>3 DEF WellFormed, TypeAt

\* A pointer is one to block k of inode i, or one of an entry of directory i.
BlockPointer(d, t, i, k) ==
  /\ t = <<i, k, 0>> /\ k \in 1 .. Len(ReadInode(d, i).blocks)
  /\ PointsTo(d, t) = ReadInode(d, i).blocks[k]
EntryPointer(d, t, i, p) ==
  /\ TypeAt(d, i) = "d" /\ p \in Places(d, ReadInode(d, i))
  /\ t = <<i, p[1], p[2]>> /\ p[2] # 0 /\ p = <<p[1], p[2]>>
  /\ SlotOf(d, i, p) \in Slots(d, i)
  /\ EntryIn(d, SlotOf(d, i, p)) = EntryAt(d, ReadInode(d, i), p)
  /\ PointsTo(d, t) = EntryIn(d, SlotOf(d, i, p)).inode_block
\* The pointers of the tree: to a block of an inode, and to the inode of an entry.
LEMMA PointerKinds ==
  ASSUME NEW d \in [Block -> Content]
  PROVE  /\ \A t \in Pointers(d) : \E i \in TreeInodes(d) :
              (\E k : BlockPointer(d, t, i, k)) \/ \E p : EntryPointer(d, t, i, p)
         /\ \A i \in TreeInodes(d) :
              /\ \A k \in 1 .. Len(ReadInode(d, i).blocks) :
                   <<i, k, 0>> \in Pointers(d) /\ BlockPointer(d, <<i, k, 0>>, i, k)
              /\ TypeAt(d, i) = "d" =>
                   \A p \in Places(d, ReadInode(d, i)) :
                     <<i, p[1], p[2]>> \in Pointers(d) /\ EntryPointer(d, <<i, p[1], p[2]>>, i, p)
<1>1. ASSUME NEW i \in TreeInodes(d), NEW k \in 1 .. Len(ReadInode(d, i).blocks)
      PROVE  <<i, k, 0>> \in Pointers(d) /\ BlockPointer(d, <<i, k, 0>>, i, k)
  BY PointerFacts DEF BlockPointer
<1>2. ASSUME NEW i \in TreeInodes(d), TypeAt(d, i) = "d", NEW p \in Places(d, ReadInode(d, i))
      PROVE  <<i, p[1], p[2]>> \in Pointers(d) /\ EntryPointer(d, <<i, p[1], p[2]>>, i, p)
  <2>1. i \in Block
    BY TreeClosed
  <2>2. /\ p \in (1 .. Len(ReadInode(d, i).blocks)) \X (1 .. DirEntries)
        /\ SlotOf(d, i, p) \in Slots(d, i)
        /\ EntryIn(d, SlotOf(d, i, p)) = EntryAt(d, ReadInode(d, i), p)
    BY <1>2, <2>1, PlaceFacts
  <2>3. p[2] # 0 /\ p = <<p[1], p[2]>>
    BY <2>2
  <2>4. /\ <<i, p[1], p[2]>> \in Pointers(d)
        /\ PointsTo(d, <<i, p[1], p[2]>>) = EntryAt(d, ReadInode(d, i), p).inode_block
    BY <1>2, PointerFacts
  <2>5. QED
    BY <1>2, <2>2, <2>3, <2>4 DEF EntryPointer
<1>3. ASSUME NEW t \in Pointers(d)
      PROVE  \E i \in TreeInodes(d) :
               (\E k : BlockPointer(d, t, i, k)) \/ \E p : EntryPointer(d, t, i, p)
  <2>1. PICK i \in TreeInodes(d) :
          \/ \E k \in 1 .. Len(ReadInode(d, i).blocks) : t = <<i, k, 0>>
          \/ TypeAt(d, i) = "d" /\ \E p \in Places(d, ReadInode(d, i)) : t = <<i, p[1], p[2]>>
    BY PointerFacts
  <2>2. QED
    BY <1>1, <1>2, <2>1
<1>4. QED
  BY <1>1, <1>2, <1>3

\* A disk on which no pointers point to the same block has distinct blocks,
\* inodes and entries ...
LEMMA InOrderIfUnshared ==
  ASSUME NEW d \in [Block -> Content], WellFormed(d)
  PROVE  InOrder(d)
<1> DEFINE T == TreeInodes(d)
           B(i) == ReadInode(d, i).blocks
<1>1. /\ \A i \in T : TypeAt(d, i) \in {"f", "d"}
      /\ \A i \in T : \A k \in BlocksAt(d, i) : d[k].kind = IF TypeAt(d, i) = "d" THEN "entries" ELSE "data"
      /\ \A i \in T : TypeAt(d, i) = "d" =>
           /\ \A k \in 1 .. Len(B(i)) : \E p \in Places(d, ReadInode(d, i)) : p[1] = k
           /\ \A p, q \in Places(d, ReadInode(d, i)) :
                EntryAt(d, ReadInode(d, i), p).name = EntryAt(d, ReadInode(d, i), q).name => p = q
      /\ Unshared2(d)
  BY WellFormedUncounted
<1>2. \A i \in T : i \in Block
  BY TreeClosed
<1>3. \A i \in T : DOMAIN B(i) = 1 .. Len(B(i)) /\ BlocksAt(d, i) = {B(i)[k] : k \in 1 .. Len(B(i))}
  BY <1>2, ReadInodeFacts
<1>4. \A i \in T : \A k \in 1 .. Len(B(i)) :
        <<i, k, 0>> \in Pointers(d) /\ PointsTo(d, <<i, k, 0>>) = B(i)[k]
  BY PointerKinds DEF BlockPointer
<1>5. ASSUME NEW i \in T, NEW s \in Slots(d, i)
      PROVE  \E p \in Places(d, ReadInode(d, i)) :
               /\ s = SlotOf(d, i, p) /\ TypeAt(d, i) = "d" /\ p[2] # 0 /\ p = <<p[1], p[2]>>
               /\ EntryIn(d, s) = EntryAt(d, ReadInode(d, i), p)
               /\ <<i, p[1], p[2]>> \in Pointers(d)
               /\ PointsTo(d, <<i, p[1], p[2]>>) = EntryIn(d, s).inode_block
  <2>1. TypeAt(d, i) = "d" /\ i \in Block
    BY <1>2, SlotFacts
  <2>2. PICK p \in Places(d, ReadInode(d, i)) : s = SlotOf(d, i, p)
    BY <2>1, PlaceFacts
  <2>3. <<i, p[1], p[2]>> \in Pointers(d) /\ EntryPointer(d, <<i, p[1], p[2]>>, i, p)
    BY <2>1, PointerKinds
  <2>4. QED
    BY <2>1, <2>2, <2>3 DEF EntryPointer
<1>6. \A t, u \in Pointers(d) : PointsTo(d, t) = PointsTo(d, u) => t = u
  BY <1>1 DEF Unshared2
<1>7. \A t \in Pointers(d) : PointsTo(d, t) # 0
  BY <1>1 DEF Unshared2
<1> HIDE DEF T, B
<1>8. ASSUME NEW i \in T PROVE IsInjective(ReadInode(d, i).blocks)
  <2>1. ASSUME NEW k \in 1 .. Len(B(i)), NEW m \in 1 .. Len(B(i)), B(i)[k] = B(i)[m]
        PROVE  <<i, k, 0>> = <<i, m, 0>>
    <3>1. <<i, k, 0>> \in Pointers(d) /\ PointsTo(d, <<i, k, 0>>) = B(i)[k]
      BY <1>4
    <3>2. <<i, m, 0>> \in Pointers(d) /\ PointsTo(d, <<i, m, 0>>) = B(i)[m]
      BY <1>4
    <3>3. QED
      BY <1>6, <2>1, <3>1, <3>2
  <2>2. \A k, m \in 1 .. Len(B(i)) : B(i)[k] = B(i)[m] => k = m
    BY <2>1
  <2>3. DOMAIN B(i) = 1 .. Len(B(i))
    BY <1>3
  <2>4. IsInjective(B(i))
    BY <2>2, <2>3 DEF IsInjective
  <2>5. QED
    BY <2>4 DEF B
<1>9. ASSUME NEW i \in T, NEW k \in BlocksAt(d, i) PROVE k \notin T
  <2>1. SUFFICES ASSUME k \in T PROVE FALSE
    OBVIOUS
  <2>2. PICK n \in 1 .. Len(B(i)) : k = B(i)[n]
    BY <1>3
  <2>3. <<i, n, 0>> \in Pointers(d) /\ PointsTo(d, <<i, n, 0>>) = k /\ k # 0
    BY <1>4, <1>7, <2>2
  <2>4. PICK j \in T : \E s \in Slots(d, j) : EntryIn(d, s).inode_block = k
    BY <2>1, <2>3, TreeParents DEF T
  <2>5. PICK s \in Slots(d, j) : EntryIn(d, s).inode_block = k
    BY <2>4
  <2>6. PICK p : p[2] # 0 /\ <<j, p[1], p[2]>> \in Pointers(d) /\ PointsTo(d, <<j, p[1], p[2]>>) = k
    BY <1>5, <2>5
  <2>7. <<j, p[1], p[2]>> = <<i, n, 0>>
    BY <1>6, <2>3, <2>6
  <2>8. QED
    BY <2>6, <2>7
<1>10. ASSUME NEW i \in T, NEW j \in T, i # j PROVE BlocksAt(d, i) \cap BlocksAt(d, j) = {}
  <2>1. SUFFICES ASSUME NEW m \in 1 .. Len(B(i)), NEW n \in 1 .. Len(B(j)), B(i)[m] = B(j)[n] PROVE FALSE
    BY <1>3
  <2>2. <<i, m, 0>> = <<j, n, 0>>
    <3>1. <<i, m, 0>> \in Pointers(d) /\ PointsTo(d, <<i, m, 0>>) = B(i)[m]
      BY <1>4
    <3>2. <<j, n, 0>> \in Pointers(d) /\ PointsTo(d, <<j, n, 0>>) = B(j)[n]
      BY <1>4
    <3>3. QED
      BY <1>6, <2>1, <3>1, <3>2
  <2>3. QED
    BY <1>10, <2>2
<1>11. ASSUME NEW i \in T, NEW j \in T, NEW s \in Slots(d, i), NEW t \in Slots(d, j),
              EntryIn(d, s).inode_block = EntryIn(d, t).inode_block
       PROVE  i = j /\ s = t
  <2>1. PICK p : /\ s = SlotOf(d, i, p) /\ p = <<p[1], p[2]>>
                 /\ <<i, p[1], p[2]>> \in Pointers(d)
                 /\ PointsTo(d, <<i, p[1], p[2]>>) = EntryIn(d, s).inode_block
    BY <1>5
  <2>2. PICK q : /\ t = SlotOf(d, j, q) /\ q = <<q[1], q[2]>>
                 /\ <<j, q[1], q[2]>> \in Pointers(d)
                 /\ PointsTo(d, <<j, q[1], q[2]>>) = EntryIn(d, t).inode_block
    BY <1>5
  <2>3. <<i, p[1], p[2]>> = <<j, q[1], q[2]>>
    BY <1>6, <1>11, <2>1, <2>2
  <2>4. i = j /\ p[1] = q[1] /\ p[2] = q[2]
    BY <2>3
  <2>5. i = j /\ p = q
    BY <2>1, <2>2, <2>4
  <2>6. QED
    BY <2>1, <2>2, <2>5
<1>12. ASSUME NEW i \in T, NEW s \in Slots(d, i), NEW t \in Slots(d, i), EntryIn(d, s).name = EntryIn(d, t).name
       PROVE  s = t
  <2>1. PICK p \in Places(d, ReadInode(d, i)) :
          s = SlotOf(d, i, p) /\ EntryIn(d, s) = EntryAt(d, ReadInode(d, i), p) /\ TypeAt(d, i) = "d"
    BY <1>5
  <2>2. PICK q \in Places(d, ReadInode(d, i)) :
          t = SlotOf(d, i, q) /\ EntryIn(d, t) = EntryAt(d, ReadInode(d, i), q)
    BY <1>5
  <2>3. p = q
    BY <1>1, <1>12, <2>1, <2>2 DEF T
  <2>4. QED
    BY <2>1, <2>2, <2>3
<1>13. ASSUME NEW i \in T, TypeAt(d, i) = "d", NEW k \in BlocksAt(d, i)
       PROVE  \E j \in 1 .. DirEntries : <<k, j>> \in Slots(d, i)
  <2>1. PICK n \in 1 .. Len(B(i)) : k = B(i)[n]
    BY <1>3
  <2>2. PICK p \in Places(d, ReadInode(d, i)) : p[1] = n
    BY <1>1, <1>13 DEF T, B
  <2>3. SlotOf(d, i, p) \in Slots(d, i) /\ SlotOf(d, i, p) = <<k, p[2]>>
    BY <1>2, <1>13, <2>1, <2>2, PlaceFacts DEF SlotOf, B
  <2>4. p[2] \in 1 .. DirEntries
    BY <1>2, <1>13, <2>2, PlaceFacts
  <2>5. QED
    BY <2>3, <2>4
<1>14. QED
  BY <1>1, <1>8, <1>9, <1>10, <1>11, <1>12, <1>13 DEF InOrder, T

\* ... and the other way round.
LEMMA UnsharedIfInOrder ==
  ASSUME NEW d \in [Block -> Content], InOrder(d)
  PROVE  WellFormed(d)
<1> DEFINE T == TreeInodes(d)
           B(i) == ReadInode(d, i).blocks
<1>1. \A i \in T : i \in Block
  BY TreeClosed
<1>2. \A i \in T : DOMAIN B(i) = 1 .. Len(B(i)) /\ BlocksAt(d, i) = {B(i)[k] : k \in 1 .. Len(B(i))}
  BY <1>1, ReadInodeFacts
<1>3. \A i \in T : \A k, m \in 1 .. Len(B(i)) : B(i)[k] = B(i)[m] => k = m
  BY <1>2 DEF InOrder, IsInjective
<1>4. ASSUME NEW t \in Pointers(d), NEW i \in T, NEW k, BlockPointer(d, t, i, k)
      PROVE  PointsTo(d, t) \in BlocksAt(d, i) /\ PointsTo(d, t) \notin T
  <2>1. PointsTo(d, t) \in BlocksAt(d, i)
    BY <1>2, <1>4 DEF BlockPointer
  <2>2. QED
    BY <2>1 DEF InOrder
<1>5. ASSUME NEW t \in Pointers(d), NEW i \in T, NEW p, EntryPointer(d, t, i, p)
      PROVE  PointsTo(d, t) \in T /\ PointsTo(d, t) # 0
  <2>1. PointsTo(d, t) \in Children(d, i) /\ PointsTo(d, t) # 0
    BY <1>1, <1>5, EntriesBySlots, SlotFacts DEF EntryPointer
  <2>2. QED
    BY <2>1, TreeClosed
<1>6. \A t \in Pointers(d) : PointsTo(d, t) # 0
  BY <1>4, <1>5, PointerKinds, TreeClosed
<1>7. ASSUME NEW t \in Pointers(d), NEW u \in Pointers(d), PointsTo(d, t) = PointsTo(d, u)
      PROVE  t = u
  <2>1. PICK i \in T : (\E k : BlockPointer(d, t, i, k)) \/ \E p : EntryPointer(d, t, i, p)
    BY PointerKinds
  <2>2. PICK j \in T : (\E k : BlockPointer(d, u, j, k)) \/ \E p : EntryPointer(d, u, j, p)
    BY PointerKinds
  <2>3. CASE (\E k : BlockPointer(d, t, i, k)) /\ \E k : BlockPointer(d, u, j, k)
    <3>1. PICK k : BlockPointer(d, t, i, k)
      BY <2>3
    <3>2. PICK m : BlockPointer(d, u, j, m)
      BY <2>3
    <3>3. i = j
      BY <1>4, <1>7, <3>1, <3>2 DEF InOrder
    <3>4. k = m
      BY <1>3, <1>7, <3>1, <3>2, <3>3 DEF BlockPointer
    <3>5. QED
      BY <3>1, <3>2, <3>3, <3>4 DEF BlockPointer
  <2>4. CASE (\E p : EntryPointer(d, t, i, p)) /\ \E p : EntryPointer(d, u, j, p)
    <3>1. PICK p : EntryPointer(d, t, i, p)
      BY <2>4
    <3>2. PICK q : EntryPointer(d, u, j, q)
      BY <2>4
    <3>3. i = j /\ SlotOf(d, i, p) = SlotOf(d, j, q)
      BY <1>7, <3>1, <3>2 DEF InOrder, EntryPointer
    <3>4. B(i)[p[1]] = B(i)[q[1]] /\ p[2] = q[2]
      BY <3>3 DEF SlotOf
    <3>5. p[1] \in 1 .. Len(B(i)) /\ q[1] \in 1 .. Len(B(i))
      BY <1>1, <3>1, <3>2, <3>3, PlaceFacts DEF EntryPointer
    <3>6. p[1] = q[1]
      BY <1>3, <3>4, <3>5
    <3>7. QED
      BY <3>1, <3>2, <3>3, <3>4, <3>6 DEF EntryPointer
  <2>5. QED
    BY <1>4, <1>5, <1>7, <2>1, <2>2, <2>3, <2>4
<1>8. Unshared2(d)
  BY <1>6, <1>7 DEF Unshared2
<1>9. ASSUME NEW i \in T, TypeAt(d, i) = "d", NEW k \in 1 .. Len(B(i))
      PROVE  \E p \in Places(d, ReadInode(d, i)) : p[1] = k
  <2>1. B(i)[k] \in BlocksAt(d, i)
    BY <1>2
  <2>2. PICK j \in 1 .. DirEntries : <<B(i)[k], j>> \in Slots(d, i)
    BY <1>9, <2>1 DEF InOrder
  <2>3. PICK p \in Places(d, ReadInode(d, i)) : <<B(i)[k], j>> = SlotOf(d, i, p)
    BY <1>1, <1>9, <2>2, PlaceFacts
  <2>4. p[1] \in 1 .. Len(B(i)) /\ B(i)[p[1]] = B(i)[k]
    BY <1>1, <1>9, <2>3, PlaceFacts DEF SlotOf
  <2>5. QED
    BY <1>3, <2>4
<1>10. ASSUME NEW i \in T, TypeAt(d, i) = "d", NEW p \in Places(d, ReadInode(d, i)), NEW q \in Places(d, ReadInode(d, i)),
              EntryAt(d, ReadInode(d, i), p).name = EntryAt(d, ReadInode(d, i), q).name
       PROVE  p = q
  <2>1. SlotOf(d, i, p) \in Slots(d, i) /\ SlotOf(d, i, q) \in Slots(d, i)
    BY <1>1, <1>10, PlaceFacts
  <2>2. EntryIn(d, SlotOf(d, i, p)).name = EntryIn(d, SlotOf(d, i, q)).name
    BY <1>1, <1>10, PlaceFacts
  <2>3. SlotOf(d, i, p) = SlotOf(d, i, q)
    BY <2>1, <2>2 DEF InOrder
  <2>4. B(i)[p[1]] = B(i)[q[1]] /\ p[2] = q[2]
    BY <2>3 DEF SlotOf
  <2>5. p \in (1 .. Len(B(i))) \X (1 .. DirEntries) /\ q \in (1 .. Len(B(i))) \X (1 .. DirEntries)
    BY <1>1, <1>10, PlaceFacts
  <2>6. p[1] = q[1]
    BY <1>3, <2>4, <2>5
  <2>7. QED
    BY <2>4, <2>5, <2>6
<1>11. \A i \in T : /\ TypeAt(d, i) \in {"f", "d"}
                    /\ \A k \in BlocksAt(d, i) : d[k].kind = IF TypeAt(d, i) = "d" THEN "entries" ELSE "data"
  BY DEF InOrder
<1>12. QED
  BY <1>8, <1>9, <1>10, <1>11, WellFormedUncounted

-----------------------------------------------------------------------------
(* What a write does to the tree *)

\* Disk e has the same inode in block i as d, with the same entries.
SameAt(d, e, i) ==
  /\ ReadInode(e, i) = ReadInode(d, i) /\ Slots(e, i) = Slots(d, i)
  /\ \A s \in Slots(d, i) : EntryIn(e, s) = EntryIn(d, s)
  /\ \A k \in BlocksAt(d, i) : e[k].kind = d[k].kind

\* That is so when neither the inode nor its blocks are written.
LEMMA FrameAt ==
  ASSUME NEW d \in [Block -> Content], NEW e \in [Block -> Content], NEW i \in Block,
         e[i] = d[i], \A k \in BlocksAt(d, i) : e[k] = d[k]
  PROVE  SameAt(d, e, i)
<1>1. ReadInode(e, i) = ReadInode(d, i)
  BY DEF ReadInode
<1>2. BlocksAt(e, i) = BlocksAt(d, i) /\ TypeAt(e, i) = TypeAt(d, i)
  BY <1>1 DEF BlocksAt, TypeAt
<1>3. \A k \in BlocksAt(d, i) : ReadEntries(e, k) = ReadEntries(d, k)
  BY DEF ReadEntries
<1>4. \A s \in BlocksAt(d, i) \X (1 .. DirEntries) : EntryIn(e, s) = EntryIn(d, s)
  BY <1>3 DEF EntryIn
<1>5. Slots(e, i) = Slots(d, i)
  BY <1>2, <1>4 DEF Slots
<1>6. \A s \in Slots(d, i) : EntryIn(e, s) = EntryIn(d, s)
  BY <1>4 DEF Slots
<1>7. QED
  BY <1>1, <1>5, <1>6 DEF SameAt

\* The tree is that of the same children.
LEMMA SameTree ==
  ASSUME NEW d \in [Block -> Content], NEW e \in [Block -> Content],
         \A i \in TreeInodes(d) : Children(e, i) = Children(d, i)
  PROVE  TreeInodes(e) = TreeInodes(d)
<1>1. TreeInodes(e) \subseteq TreeInodes(d)
  <2>1. 0 \in TreeInodes(d) /\ \A b \in TreeInodes(d) \cap Block : Children(e, b) \subseteq TreeInodes(d)
    BY TreeClosed
  <2>2. QED
    BY <2>1, TreeLeast
<1>2. TreeInodes(d) \subseteq TreeInodes(e)
  <2>1. 0 \in TreeInodes(e) /\ \A b \in TreeInodes(e) \cap Block : Children(d, b) \subseteq TreeInodes(e)
    BY <1>1, TreeClosed
  <2>2. QED
    BY <2>1, TreeLeast
<1>3. QED
  BY <1>1, <1>2

\* Children by slots, on two disks.
LEMMA SlotsMakeChildren ==
  ASSUME NEW d \in [Block -> Content], NEW e \in [Block -> Content], NEW i \in Block,
         Slots(e, i) = Slots(d, i), \A s \in Slots(d, i) : EntryIn(e, s) = EntryIn(d, s)
  PROVE  Children(e, i) = Children(d, i)
<1>1. /\ Children(d, i) = {EntryIn(d, s).inode_block : s \in Slots(d, i)}
      /\ Children(e, i) = {EntryIn(e, s).inode_block : s \in Slots(e, i)}
  BY EntriesBySlots
<1>2. QED
  BY <1>1

\* Inode t of the tree may get blocks B that nothing used, or have the contents of
\* its blocks changed; the entries stay.
LEMMA KeepTree ==
  ASSUME NEW d \in [Block -> Content], NEW e \in [Block -> Content], InOrder(d),
         NEW t \in TreeInodes(d), NEW B, B \cap UsedBlocks(d) = {},
         \A i \in TreeInodes(d) \ {t} : SameAt(d, e, i),
         TypeAt(e, t) = TypeAt(d, t), Slots(e, t) = Slots(d, t),
         \A s \in Slots(d, t) : EntryIn(e, s) = EntryIn(d, s),
         BlocksAt(e, t) = BlocksAt(d, t) \cup B, IsInjective(ReadInode(e, t).blocks),
         \A k \in BlocksAt(e, t) : e[k].kind = IF TypeAt(d, t) = "d" THEN "entries" ELSE "data",
         TypeAt(d, t) = "d" => B = {}
  PROVE  /\ InOrder(e) /\ Apart(d, e, {})
         /\ TreeInodes(e) = TreeInodes(d) /\ UsedBlocks(e) = UsedBlocks(d) \cup B
<1> DEFINE T == TreeInodes(d)
<1>1. \A i \in T : /\ Slots(e, i) = Slots(d, i) /\ TypeAt(e, i) = TypeAt(d, i)
                   /\ \A s \in Slots(d, i) : EntryIn(e, s) = EntryIn(d, s)
  BY DEF SameAt, TypeAt
<1>2. \A i \in T : BlocksAt(e, i) = IF i = t THEN BlocksAt(d, i) \cup B ELSE BlocksAt(d, i)
  BY DEF SameAt, BlocksAt
<1>3. \A i \in T : i \in Block /\ BlocksAt(d, i) \subseteq UsedBlocks(d) /\ i \in UsedBlocks(d)
  BY TreeClosed, UsedFacts
<1>4. TreeInodes(e) = T
  BY <1>1, <1>3, SlotsMakeChildren, SameTree
<1>5. UsedBlocks(e) = UsedBlocks(d) \cup B
  <2>1. /\ UsedBlocks(d) = T \cup UNION {BlocksAt(d, i) : i \in T}
        /\ UsedBlocks(e) = T \cup UNION {BlocksAt(e, i) : i \in T}
    BY <1>4, UsedFacts
  <2>2. t \in T /\ \A k : (\E i \in T : k \in BlocksAt(e, i)) <=> (\E i \in T : k \in BlocksAt(d, i)) \/ k \in B
    <3>1. t \in T
      OBVIOUS
    <3> HIDE DEF T
    <3>2. QED
      BY <1>2, <3>1
  <2> HIDE DEF T
  <2>3. \A k : k \in UsedBlocks(e) <=> k \in UsedBlocks(d) \/ k \in B
    BY <2>1, <2>2
  <2>4. QED
    BY <2>3
<1>6. Apart(d, e, {})
  <2>1. \A b \in T : \A x, k : Linked(d, b, x, k) <=> Linked(e, b, x, k)
    BY <1>1 DEF Linked
  <2>2. QED
    BY <1>4, <2>1 DEF Apart
<1>7. InOrder(e)
  <2> DEFINE F == TreeInodes(e)
  <2>1. F = T
    BY <1>4
  <2> HIDE DEF F, T
  <2>2. \A i \in F : TypeAt(e, i) \in {"f", "d"}
    BY <1>1, <2>1 DEF InOrder, T
  <2>3. \A i \in F : \A k \in BlocksAt(e, i) : e[k].kind = IF TypeAt(e, i) = "d" THEN "entries" ELSE "data"
    <3>1. SUFFICES ASSUME NEW i \in T, NEW k \in BlocksAt(e, i)
                   PROVE  e[k].kind = IF TypeAt(d, i) = "d" THEN "entries" ELSE "data"
      BY <1>1, <2>1
    <3>2. CASE i = t
      BY <3>2
    <3>3. CASE i # t
      <4>1. k \in BlocksAt(d, i) /\ e[k].kind = d[k].kind
        BY <1>2, <3>3 DEF SameAt, T
      <4>2. QED
        BY <4>1 DEF InOrder, T
    <3>4. QED
      BY <3>2, <3>3
  <2>4. \A i \in F : IsInjective(ReadInode(e, i).blocks)
    BY <2>1 DEF SameAt, InOrder, T
  <2>5. \A i \in F : \A k \in BlocksAt(e, i) : k \notin F
    <3>1. \A i \in T : \A k \in BlocksAt(d, i) : k \notin T
      BY DEF InOrder, T
    <3>2. \A k \in B : k \notin T
      BY <1>3
    <3>3. QED
      BY <1>2, <2>1, <3>1, <3>2
  <2>6. \A i, j \in F : i # j => BlocksAt(e, i) \cap BlocksAt(e, j) = {}
    <3>1. \A i, j \in T : i # j => BlocksAt(d, i) \cap BlocksAt(d, j) = {}
      BY DEF InOrder, T
    <3>2. \A i \in T : BlocksAt(d, i) \cap B = {}
      BY <1>3
    <3>3. QED
      BY <1>2, <2>1, <3>1, <3>2
  <2>7. \A i, j \in F : \A s \in Slots(e, i), u \in Slots(e, j) :
          EntryIn(e, s).inode_block = EntryIn(e, u).inode_block => i = j /\ s = u
    <3>1. \A i, j \in T : \A s \in Slots(d, i), u \in Slots(d, j) :
            EntryIn(d, s).inode_block = EntryIn(d, u).inode_block => i = j /\ s = u
      BY DEF InOrder, T
    <3>2. QED
      BY <1>1, <2>1, <3>1
  <2>8. \A i \in F : \A s, u \in Slots(e, i) : EntryIn(e, s).name = EntryIn(e, u).name => s = u
    <3>1. \A i \in T : \A s, u \in Slots(d, i) : EntryIn(d, s).name = EntryIn(d, u).name => s = u
      BY DEF InOrder, T
    <3>2. QED
      BY <1>1, <2>1, <3>1
  <2>9. \A i \in F : TypeAt(e, i) = "d" => \A k \in BlocksAt(e, i) : \E j \in 1 .. DirEntries : <<k, j>> \in Slots(e, i)
    <3>1. SUFFICES ASSUME NEW i \in T, TypeAt(e, i) = "d", NEW k \in BlocksAt(e, i)
                   PROVE  \E j \in 1 .. DirEntries : <<k, j>> \in Slots(e, i)
      BY <2>1
    <3>2. TypeAt(d, i) = "d" /\ k \in BlocksAt(d, i)
      BY <1>1, <1>2, <3>1
    <3>3. PICK j \in 1 .. DirEntries : <<k, j>> \in Slots(d, i)
      BY <3>2 DEF InOrder, T
    <3>4. QED
      BY <1>1, <3>3
  <2>10. QED
    BY <2>2, <2>3, <2>4, <2>5, <2>6, <2>7, <2>8, <2>9 DEF InOrder, F
<1>8. QED
  BY <1>4, <1>5, <1>6, <1>7

\* From d to e directory t gets a new entry s, which names an empty inode c that nothing used,
\* and perhaps the unused block that holds s: B has that block, or none.
Grows(d, e, t, B, c, s) ==
  /\ t \in TreeInodes(d) /\ B \cap UsedBlocks(d) = {} /\ c \in Block /\ c \notin UsedBlocks(d) \cup B
  /\ s[1] \in BlocksAt(e, t) /\ B \subseteq {s[1]} /\ s = <<s[1], s[2]>> /\ s[2] \in 1 .. DirEntries
  /\ \A i \in TreeInodes(d) \ {t} : SameAt(d, e, i)
  /\ TypeAt(d, t) = "d" /\ TypeAt(e, t) = "d" /\ Slots(e, t) = Slots(d, t) \cup {s}
  /\ \A u \in Slots(d, t) : EntryIn(e, u) = EntryIn(d, u) /\ EntryIn(d, u).name # EntryIn(e, s).name
  /\ EntryIn(e, s).inode_block = c
  /\ BlocksAt(e, t) = BlocksAt(d, t) \cup B /\ IsInjective(ReadInode(e, t).blocks)
  /\ \A k \in BlocksAt(e, t) : e[k].kind = "entries"
  /\ TypeAt(e, c) \in {"f", "d"} /\ ReadInode(e, c).blocks = <<>> /\ Slots(d, c) = {}

\* The tree stays in order, and uses what was added.
LEMMA GrowTree ==
  ASSUME NEW d \in [Block -> Content], NEW e \in [Block -> Content], InOrder(d),
         NEW t, NEW B, NEW c, NEW s, Grows(d, e, t, B, c, s), NEW C, C = {c}
  PROVE  /\ InOrder(e) /\ Apart(d, e, C)
         /\ TreeInodes(e) = TreeInodes(d) \cup {c} /\ UsedBlocks(e) = UsedBlocks(d) \cup {c} \cup B
<1> SUFFICES
      ASSUME t \in TreeInodes(d), B \cap UsedBlocks(d) = {}, c \in Block, c \notin UsedBlocks(d) \cup B,
             s[1] \in BlocksAt(e, t), B \subseteq {s[1]}, s = <<s[1], s[2]>>, s[2] \in 1 .. DirEntries,
             \A i \in TreeInodes(d) \ {t} : SameAt(d, e, i),
             TypeAt(d, t) = "d", TypeAt(e, t) = "d", Slots(e, t) = Slots(d, t) \cup {s},
             \A u \in Slots(d, t) : EntryIn(e, u) = EntryIn(d, u) /\ EntryIn(d, u).name # EntryIn(e, s).name,
             EntryIn(e, s).inode_block = c,
             BlocksAt(e, t) = BlocksAt(d, t) \cup B, IsInjective(ReadInode(e, t).blocks),
             \A k \in BlocksAt(e, t) : e[k].kind = "entries",
             TypeAt(e, c) \in {"f", "d"}, ReadInode(e, c).blocks = <<>>, Slots(d, c) = {}
      PROVE  /\ InOrder(e) /\ Apart(d, e, C)
             /\ TreeInodes(e) = TreeInodes(d) \cup {c} /\ UsedBlocks(e) = UsedBlocks(d) \cup {c} \cup B
  BY DEF Grows
<1> DEFINE T == TreeInodes(d)
<1>1. \A i \in T : i \in Block /\ BlocksAt(d, i) \subseteq UsedBlocks(d) /\ i \in UsedBlocks(d)
  BY TreeClosed, UsedFacts
<1>2. 0 \in T /\ t \in T /\ c \notin T /\ c # 0
  BY <1>1, TreeClosed
<1>3. \A i \in T : i # t =>
        /\ Slots(e, i) = Slots(d, i) /\ TypeAt(e, i) = TypeAt(d, i) /\ BlocksAt(e, i) = BlocksAt(d, i)
        /\ \A u \in Slots(d, i) : EntryIn(e, u) = EntryIn(d, u)
        /\ ReadInode(e, i) = ReadInode(d, i)
        /\ \A k \in BlocksAt(d, i) : e[k].kind = d[k].kind
  BY DEF SameAt, TypeAt, BlocksAt
<1>4. BlocksAt(e, c) = {} /\ Slots(e, c) = {} /\ IsInjective(ReadInode(e, c).blocks)
  <2>1. BlocksAt(e, c) = {}
    BY ReadInodeFacts
  <2>2. IsInjective(ReadInode(e, c).blocks)
    BY DEF IsInjective
  <2>3. QED
    BY <2>1, <2>2 DEF Slots
<1>5. \A u \in Slots(d, t) : EntryIn(d, u).inode_block \in T
  <2>1. \A u \in Slots(d, t) : EntryIn(d, u).inode_block \in Children(d, t)
    BY <1>1, EntriesBySlots
  <2>2. QED
    BY <2>1, TreeClosed
<1>6. s \notin Slots(d, t)
  BY <1>2, <1>5
<1>7. \A i \in T : i # t => Children(e, i) = Children(d, i)
  BY <1>1, <1>3, SlotsMakeChildren
<1>8. Children(e, t) = Children(d, t) \cup {c}
  <2>1. /\ Children(d, t) = {EntryIn(d, u).inode_block : u \in Slots(d, t)}
        /\ Children(e, t) = {EntryIn(e, u).inode_block : u \in Slots(e, t)}
    BY <1>1, EntriesBySlots
  <2>2. QED
    BY <2>1
<1>9. Children(e, c) = {}
  BY <1>4, EntriesBySlots
<1>10. TreeInodes(e) = T \cup {c}
  <2>1. TreeInodes(e) \subseteq T \cup {c}
    <3>1. \A b \in (T \cup {c}) \cap Block : Children(e, b) \subseteq T \cup {c}
      <4>1. \A b \in T : Children(d, b) \subseteq T
        BY TreeClosed
      <4>2. QED
        BY <1>7, <1>8, <1>9, <4>1
    <3>2. 0 \in T \cup {c}
      BY <1>2
    <3> HIDE DEF T
    <3>3. QED
      BY <3>1, <3>2, TreeLeast
  <2>2. T \subseteq TreeInodes(e)
    <3>1. \A b \in TreeInodes(e) \cap Block : Children(d, b) \subseteq TreeInodes(e)
      <4>1. SUFFICES ASSUME NEW b \in TreeInodes(e) PROVE Children(d, b) \subseteq TreeInodes(e)
        OBVIOUS
      <4>2. Children(e, b) \subseteq TreeInodes(e)
        BY TreeClosed
      <4>3. CASE b = c
        <5>1. Children(d, c) = {}
          BY EntriesBySlots
        <5>2. QED
          BY <4>3, <5>1
      <4>4. CASE b # c
        BY <1>7, <1>8, <2>1, <4>2, <4>4
      <4>5. QED
        BY <4>3, <4>4
    <3>2. 0 \in TreeInodes(e)
      BY TreeClosed
    <3>3. QED
      BY <3>1, <3>2, TreeLeast
  <2>3. c \in TreeInodes(e)
    BY <1>2, <1>8, <2>2, TreeClosed
  <2>4. QED
    BY <2>1, <2>2, <2>3
<1>11. UsedBlocks(e) = UsedBlocks(d) \cup {c} \cup B
  <2>1. /\ UsedBlocks(d) = T \cup UNION {BlocksAt(d, i) : i \in T}
        /\ UsedBlocks(e) = T \cup {c} \cup UNION {BlocksAt(e, i) : i \in T \cup {c}}
    BY <1>10, UsedFacts
  <2> HIDE DEF T
  <2>2. \A k : (\E i \in T \cup {c} : k \in BlocksAt(e, i)) <=> (\E i \in T : k \in BlocksAt(d, i)) \/ k \in B
    BY <1>2, <1>3, <1>4
  <2>3. \A k : k \in UsedBlocks(e) <=> k \in UsedBlocks(d) \/ k = c \/ k \in B
    BY <2>1, <2>2
  <2>4. QED
    BY <2>3
<1> HIDE DEF T
<1>12. Apart(d, e, C)
  <2>1. ASSUME NEW b \in T, NEW x, NEW k, k # c
        PROVE  Linked(d, b, x, k) <=> Linked(e, b, x, k)
    <3>1. CASE b = t
      <4>1. \A u : u \in Slots(e, t) /\ EntryIn(e, u).inode_block = k <=> u \in Slots(d, t) /\ EntryIn(d, u).inode_block = k
        BY <2>1
      <4>2. \A u \in Slots(d, t) : EntryIn(e, u) = EntryIn(d, u)
        OBVIOUS
      <4>3. QED
        BY <3>1, <4>1, <4>2 DEF Linked
    <3>2. CASE b # t
      BY <1>3, <3>2 DEF Linked
    <3>3. QED
      BY <3>1, <3>2
  <2>2. QED
    BY <1>2, <1>4, <1>10, <2>1 DEF Apart, T
<1>13. InOrder(e)
  <2> DEFINE F == TreeInodes(e)
  <2>1. F = T \cup {c}
    BY <1>10
  <2> HIDE DEF F
  <2>2. \A i \in F : TypeAt(e, i) \in {"f", "d"}
    BY <1>3, <2>1 DEF InOrder, T
  <2>3. \A i \in F : \A k \in BlocksAt(e, i) : e[k].kind = IF TypeAt(e, i) = "d" THEN "entries" ELSE "data"
    <3>1. \A i \in T : \A k \in BlocksAt(d, i) : d[k].kind = IF TypeAt(d, i) = "d" THEN "entries" ELSE "data"
      BY DEF InOrder, T
    <3>2. QED
      BY <1>3, <1>4, <2>1, <3>1
  <2>4. \A i \in F : IsInjective(ReadInode(e, i).blocks)
    <3>1. \A i \in T : IsInjective(ReadInode(d, i).blocks)
      BY DEF InOrder, T
    <3>2. QED
      BY <1>3, <1>4, <2>1, <3>1
  <2>5. \A i \in F : \A k \in BlocksAt(e, i) : k \notin F
    <3>1. \A i \in T : \A k \in BlocksAt(d, i) : k \notin T
      BY DEF InOrder, T
    <3>2. \A k \in B : k \notin T /\ k # c
      BY <1>1
    <3>3. \A i \in T : \A k \in BlocksAt(d, i) : k # c
      BY <1>1
    <3>4. QED
      BY <1>3, <1>4, <2>1, <3>1, <3>2, <3>3
  <2>6. \A i, j \in F : i # j => BlocksAt(e, i) \cap BlocksAt(e, j) = {}
    <3>1. \A i, j \in T : i # j => BlocksAt(d, i) \cap BlocksAt(d, j) = {}
      BY DEF InOrder, T
    <3>2. \A i \in T : BlocksAt(d, i) \cap B = {}
      BY <1>1
    <3>3. \A i \in T : BlocksAt(e, i) = IF i = t THEN BlocksAt(d, i) \cup B ELSE BlocksAt(d, i)
      BY <1>3
    <3>4. \A i, j \in T : i # j => BlocksAt(e, i) \cap BlocksAt(e, j) = {}
      BY <3>1, <3>2, <3>3
    <3>5. QED
      BY <1>4, <2>1, <3>4
  <2>7. \A i, j \in F : \A v \in Slots(e, i), u \in Slots(e, j) :
          EntryIn(e, v).inode_block = EntryIn(e, u).inode_block => i = j /\ v = u
    <3>1. ASSUME NEW i \in F, NEW v \in Slots(e, i)
          PROVE  /\ i \in T
                 /\ \/ i = t /\ v = s /\ EntryIn(e, v).inode_block = c
                    \/ /\ v \in Slots(d, i) /\ EntryIn(e, v).inode_block = EntryIn(d, v).inode_block
                       /\ EntryIn(e, v).inode_block # c
      <4>1. i \in T
        BY <1>4, <2>1, <3>1
      <4>2. \A u \in Slots(d, i) : EntryIn(d, u).inode_block \in T
        <5>1. \A u \in Slots(d, i) : EntryIn(d, u).inode_block \in Children(d, i)
          BY <1>1, <4>1, EntriesBySlots
        <5>2. QED
          BY <4>1, <5>1, TreeClosed DEF T
      <4>3. CASE i = t
        <5>1. CASE v = s
          BY <4>1, <4>3, <5>1
        <5>2. CASE v # s
          <6>1. v \in Slots(d, i) /\ EntryIn(e, v) = EntryIn(d, v)
            BY <3>1, <4>3, <5>2
          <6>2. QED
            BY <1>2, <4>1, <4>2, <6>1
        <5>3. QED
          BY <5>1, <5>2
      <4>4. CASE i # t
        BY <1>2, <1>3, <3>1, <4>1, <4>2, <4>4
      <4>5. QED
        BY <4>3, <4>4
    <3>2. \A i, j \in T : \A v \in Slots(d, i), u \in Slots(d, j) :
            EntryIn(d, v).inode_block = EntryIn(d, u).inode_block => i = j /\ v = u
      BY DEF InOrder, T
    <3>3. SUFFICES ASSUME NEW i \in F, NEW j \in F, NEW v \in Slots(e, i), NEW u \in Slots(e, j),
                          EntryIn(e, v).inode_block = EntryIn(e, u).inode_block
                   PROVE  i = j /\ v = u
      OBVIOUS
    <3>4. QED
      BY <3>1, <3>2, <3>3
  <2>8. \A i \in F : \A v, u \in Slots(e, i) : EntryIn(e, v).name = EntryIn(e, u).name => v = u
    <3>1. \A i \in T : \A v, u \in Slots(d, i) : EntryIn(d, v).name = EntryIn(d, u).name => v = u
      BY DEF InOrder, T
    <3>2. \A v, u \in Slots(e, t) : EntryIn(e, v).name = EntryIn(e, u).name => v = u
      BY <1>2, <3>1
    <3>3. QED
      BY <1>3, <1>4, <2>1, <3>1, <3>2
  <2>9. \A i \in F : TypeAt(e, i) = "d" => \A k \in BlocksAt(e, i) : \E j \in 1 .. DirEntries : <<k, j>> \in Slots(e, i)
    <3>1. \A i \in T : TypeAt(d, i) = "d" => \A k \in BlocksAt(d, i) : \E j \in 1 .. DirEntries : <<k, j>> \in Slots(d, i)
      BY DEF InOrder, T
    <3>2. \A k \in BlocksAt(e, t) : \E j \in 1 .. DirEntries : <<k, j>> \in Slots(e, t)
      <4>1. SUFFICES ASSUME NEW k \in BlocksAt(e, t) PROVE \E j \in 1 .. DirEntries : <<k, j>> \in Slots(e, t)
        OBVIOUS
      <4>2. CASE k = s[1]
        BY <4>2
      <4>3. CASE k # s[1]
        BY <1>2, <3>1, <4>3
      <4>4. QED
        BY <4>2, <4>3
    <3>3. QED
      BY <1>3, <1>4, <2>1, <3>1, <3>2
  <2>10. QED
    BY <2>2, <2>3, <2>4, <2>5, <2>6, <2>7, <2>8, <2>9 DEF InOrder, F
<1>14. QED
  BY <1>10, <1>11, <1>12, <1>13 DEF T

\* From d to e directory t loses the entry s, which names a file c without entries, and
\* perhaps the block that held s: B has that block, or none.
Drops(d, e, t, s, c, B) ==
  /\ t \in TreeInodes(d) /\ s \in Slots(d, t) /\ c = EntryIn(d, s).inode_block
  /\ Slots(d, c) = {} /\ B \subseteq {s[1]}
  /\ \A i \in TreeInodes(d) \ {t} : SameAt(d, e, i)
  /\ TypeAt(e, t) = "d" /\ Slots(e, t) = Slots(d, t) \ {s}
  /\ \A u \in Slots(e, t) : EntryIn(e, u) = EntryIn(d, u)
  /\ BlocksAt(e, t) = BlocksAt(d, t) \ B /\ IsInjective(ReadInode(e, t).blocks)
  /\ \A k \in BlocksAt(e, t) : e[k].kind = "entries"
  /\ \A k \in BlocksAt(e, t) : \E j \in 1 .. DirEntries : <<k, j>> \in Slots(e, t)

\* The tree uses all that it used but c, its blocks, and B.
Loses(d, e, c, B) == UsedBlocks(e) = UsedBlocks(d) \ ({c} \cup BlocksAt(d, c) \cup B)

\* The tree stays in order, and no longer uses c, its blocks, and B.
LEMMA DropTree ==
  ASSUME NEW d \in [Block -> Content], NEW e \in [Block -> Content], InOrder(d),
         NEW t, NEW s, NEW c, NEW B, Drops(d, e, t, s, c, B), NEW C, C = {c}
  PROVE  /\ InOrder(e) /\ Apart(d, e, C)
         /\ c \in TreeInodes(d) /\ c # t /\ c # 0 /\ s[1] \notin BlocksAt(d, c) \cup {c}
         /\ TreeInodes(e) = TreeInodes(d) \ C
         /\ Loses(d, e, c, B)
<1> SUFFICES
      ASSUME t \in TreeInodes(d), s \in Slots(d, t), c = EntryIn(d, s).inode_block,
             Slots(d, c) = {}, B \subseteq {s[1]},
             \A i \in TreeInodes(d) \ {t} : SameAt(d, e, i),
             TypeAt(e, t) = "d", Slots(e, t) = Slots(d, t) \ {s},
             \A u \in Slots(e, t) : EntryIn(e, u) = EntryIn(d, u),
             BlocksAt(e, t) = BlocksAt(d, t) \ B, IsInjective(ReadInode(e, t).blocks),
             \A k \in BlocksAt(e, t) : e[k].kind = "entries",
             \A k \in BlocksAt(e, t) : \E j \in 1 .. DirEntries : <<k, j>> \in Slots(e, t)
      PROVE  /\ InOrder(e) /\ Apart(d, e, C)
             /\ c \in TreeInodes(d) /\ c # t /\ c # 0 /\ s[1] \notin BlocksAt(d, c) \cup {c}
             /\ TreeInodes(e) = TreeInodes(d) \ C
             /\ Loses(d, e, c, B)
  BY DEF Drops
<1> DEFINE T == TreeInodes(d)
<1>1. \A i \in T : i \in Block /\ BlocksAt(d, i) \subseteq UsedBlocks(d) /\ i \in UsedBlocks(d)
  BY TreeClosed, UsedFacts
<1>2. /\ 0 \in T /\ t \in T /\ c # 0 /\ TypeAt(d, t) = "d" /\ c \in Children(d, t) /\ s[1] \in BlocksAt(d, t)
      /\ c # t
  BY <1>1, SlotFacts, EntriesBySlots, TreeClosed
<1>3. c \in T
  BY <1>2, TreeClosed
<1>4. \A i \in T : i # t =>
        /\ Slots(e, i) = Slots(d, i) /\ TypeAt(e, i) = TypeAt(d, i) /\ BlocksAt(e, i) = BlocksAt(d, i)
        /\ \A u \in Slots(d, i) : EntryIn(e, u) = EntryIn(d, u)
        /\ ReadInode(e, i) = ReadInode(d, i)
        /\ \A k \in BlocksAt(d, i) : e[k].kind = d[k].kind
  BY DEF SameAt, TypeAt, BlocksAt
<1>5. s[1] \notin BlocksAt(d, c) \cup {c}
  BY <1>2, <1>3 DEF InOrder
<1>6. \A i \in T : /\ Slots(e, i) = Slots(d, i) \ {s}
                   /\ \A u \in Slots(e, i) : EntryIn(e, u) = EntryIn(d, u)
  <2>1. \A i \in T : i # t => s \notin Slots(d, i)
    BY <1>2 DEF InOrder
  <2>2. QED
    BY <1>4, <2>1
<1>7. \A i \in T : \A u \in Slots(d, i) : EntryIn(d, u).inode_block = c <=> u = s
  BY DEF InOrder
<1>8. \A i \in T : Children(e, i) = Children(d, i) \ {c}
  <2>1. SUFFICES ASSUME NEW i \in T PROVE Children(e, i) = Children(d, i) \ {c}
    OBVIOUS
  <2>2. /\ Children(d, i) = {EntryIn(d, u).inode_block : u \in Slots(d, i)}
        /\ Children(e, i) = {EntryIn(e, u).inode_block : u \in Slots(e, i)}
    BY <1>1, EntriesBySlots
  <2>3. \A u \in Slots(d, i) : EntryIn(d, u).inode_block = c <=> u = s
    BY <1>7
  <2>4. /\ Slots(e, i) = Slots(d, i) \ {s}
        /\ \A u \in Slots(e, i) : EntryIn(e, u) = EntryIn(d, u)
    BY <1>6
  <2>5. QED
    BY <2>2, <2>3, <2>4
<1>9. TreeInodes(e) = T \ {c}
  <2>1. TreeInodes(e) \subseteq T \ {c}
    <3>1. \A b \in (T \ {c}) \cap Block : Children(e, b) \subseteq T \ {c}
      <4>1. \A b \in T : Children(d, b) \subseteq T
        BY TreeClosed
      <4>2. QED
        BY <1>8, <4>1
    <3>2. 0 \in T \ {c}
      BY <1>2
    <3> HIDE DEF T
    <3>3. QED
      BY <3>1, <3>2, TreeLeast
  <2>2. T \subseteq TreeInodes(e) \cup {c}
    <3>1. \A b \in (TreeInodes(e) \cup {c}) \cap Block : Children(d, b) \subseteq TreeInodes(e) \cup {c}
      <4>1. SUFFICES ASSUME NEW b \in TreeInodes(e) PROVE Children(d, b) \subseteq TreeInodes(e) \cup {c}
        <5>1. c \in Block => Children(d, c) = {}
          BY EntriesBySlots
        <5>2. QED
          BY <5>1
      <4>2. Children(e, b) \subseteq TreeInodes(e)
        BY TreeClosed
      <4>3. QED
        BY <1>8, <2>1, <4>2
    <3>2. 0 \in TreeInodes(e) \cup {c}
      BY TreeClosed
    <3>3. QED
      BY <3>1, <3>2, TreeLeast
  <2>3. QED
    BY <2>1, <2>2
<1> HIDE DEF T
<1>10. \A i \in T : BlocksAt(e, i) = BlocksAt(d, i) \ B
  <2>1. \A i \in T : i # t => BlocksAt(d, i) \cap B = {}
    BY <1>2 DEF InOrder, T
  <2>2. QED
    BY <1>4, <2>1
<1>11. Loses(d, e, c, B)
  <2>1. /\ UsedBlocks(d) = T \cup UNION {BlocksAt(d, i) : i \in T}
        /\ UsedBlocks(e) = (T \ {c}) \cup UNION {BlocksAt(e, i) : i \in T \ {c}}
    BY <1>9, UsedFacts DEF T
  <2>2. \A i \in T : \A k \in BlocksAt(d, i) : k \notin T /\ (k \in BlocksAt(d, c) <=> i = c)
    BY <1>3 DEF InOrder, T
  <2>3. \A k \in B : k \notin T
    BY <1>2, <2>2
  <2>4. \A k : k \in UsedBlocks(e) <=> k \in UsedBlocks(d) /\ k # c /\ k \notin BlocksAt(d, c) /\ k \notin B
    <3>1. ASSUME NEW k \in T
          PROVE  /\ k \in UsedBlocks(d) /\ k \notin BlocksAt(d, c) /\ k \notin B
                 /\ k \in UsedBlocks(e) <=> k # c
      BY <1>3, <1>10, <2>1, <2>2, <2>3
    <3>2. ASSUME NEW k, k \notin T, NEW i \in T, k \in BlocksAt(d, i)
          PROVE  k \in UsedBlocks(d) /\ (k \in UsedBlocks(e) <=> k # c /\ k \notin BlocksAt(d, c) /\ k \notin B)
      BY <1>3, <1>10, <2>1, <2>2, <3>2
    <3>3. ASSUME NEW k, k \notin T, \A i \in T : k \notin BlocksAt(d, i)
          PROVE  k \notin UsedBlocks(d) /\ k \notin UsedBlocks(e)
      BY <1>10, <2>1, <3>3
    <3>4. QED
      BY <3>1, <3>2, <3>3
  <2>5. QED
    BY <2>4 DEF Loses
<1>12. Apart(d, e, C)
  <2>1. ASSUME NEW b \in T, NEW x, NEW k, k # c
        PROVE  Linked(d, b, x, k) <=> Linked(e, b, x, k)
    BY <1>6, <1>7, <2>1 DEF Linked
  <2>2. Slots(e, c) = {}
    BY <1>3, <1>6
  <2>3. QED
    BY <1>2, <1>9, <2>1, <2>2 DEF Apart, T
<1>13. InOrder(e)
  <2> DEFINE F == TreeInodes(e)
  <2>1. F = T \ {c}
    BY <1>9
  <2> HIDE DEF F
  <2>2. \A i \in F : TypeAt(e, i) \in {"f", "d"}
    BY <1>4, <2>1 DEF InOrder, T
  <2>3. \A i \in F : \A k \in BlocksAt(e, i) : e[k].kind = IF TypeAt(e, i) = "d" THEN "entries" ELSE "data"
    <3>1. \A i \in T : \A k \in BlocksAt(d, i) : d[k].kind = IF TypeAt(d, i) = "d" THEN "entries" ELSE "data"
      BY DEF InOrder, T
    <3>2. QED
      BY <1>4, <2>1, <3>1
  <2>4. \A i \in F : IsInjective(ReadInode(e, i).blocks)
    <3>1. \A i \in T : IsInjective(ReadInode(d, i).blocks)
      BY DEF InOrder, T
    <3>2. QED
      BY <1>4, <2>1, <3>1
  <2>5. \A i \in F : \A k \in BlocksAt(e, i) : k \notin F
    <3>1. \A i \in T : \A k \in BlocksAt(d, i) : k \notin T
      BY DEF InOrder, T
    <3>2. QED
      BY <1>10, <2>1, <3>1
  <2>6. \A i, j \in F : i # j => BlocksAt(e, i) \cap BlocksAt(e, j) = {}
    <3>1. \A i, j \in T : i # j => BlocksAt(d, i) \cap BlocksAt(d, j) = {}
      BY DEF InOrder, T
    <3>2. QED
      BY <1>10, <2>1, <3>1
  <2>7. \A i, j \in F : \A v \in Slots(e, i), u \in Slots(e, j) :
          EntryIn(e, v).inode_block = EntryIn(e, u).inode_block => i = j /\ v = u
    <3>1. \A i, j \in T : \A v \in Slots(d, i), u \in Slots(d, j) :
            EntryIn(d, v).inode_block = EntryIn(d, u).inode_block => i = j /\ v = u
      BY DEF InOrder, T
    <3>2. QED
      BY <1>6, <2>1, <3>1
  <2>8. \A i \in F : \A v, u \in Slots(e, i) : EntryIn(e, v).name = EntryIn(e, u).name => v = u
    <3>1. \A i \in T : \A v, u \in Slots(d, i) : EntryIn(d, v).name = EntryIn(d, u).name => v = u
      BY DEF InOrder, T
    <3>2. QED
      BY <1>6, <2>1, <3>1
  <2>9. \A i \in F : TypeAt(e, i) = "d" => \A k \in BlocksAt(e, i) : \E j \in 1 .. DirEntries : <<k, j>> \in Slots(e, i)
    <3>1. \A i \in T : TypeAt(d, i) = "d" => \A k \in BlocksAt(d, i) : \E j \in 1 .. DirEntries : <<k, j>> \in Slots(d, i)
      BY DEF InOrder, T
    <3>2. QED
      BY <1>4, <2>1, <3>1
  <2>10. QED
    BY <2>2, <2>3, <2>4, <2>5, <2>6, <2>7, <2>8, <2>9 DEF InOrder, F
<1>14. QED
  BY <1>2, <1>3, <1>5, <1>9, <1>11, <1>12, <1>13 DEF T

\* init_free_blocks lists every block that the tree does not use, once.
LEMMA FreeListFacts ==
  ASSUME NEW d \in [Block -> Content]
  PROVE  /\ init_free_blocks(d) \in Seq(Block) /\ IsInjective(init_free_blocks(d))
         /\ ToSet(init_free_blocks(d)) = Block \ UsedBlocks(d)
<1> DEFINE used == UsedBlocks(d)
           N == DiskSize - 1
           G == [x \in Nat \X Seq(Block) |-> IF x[1] \in used \cup (Nat \ Block) THEN x[2] ELSE Append(x[2], x[1])]
           Eqn(g) == g = [n \in Block |-> IF n = 0 THEN <<>>
                                          ELSE IF n \in used THEN g[n - 1] ELSE Append(g[n - 1], n)]
<1>1. N \in Nat /\ Block = 0 .. N /\ 0 \in used /\ 0 \in Block
  BY SizesAssumption, UsedFacts DEF Block
<1> HIDE DEF used, N
<1>2. G \in [Nat \X Seq(Block) -> Seq(Block)]
  <2>1. ASSUME NEW q \in Seq(Block), NEW n \in Nat, n \notin used \cup (Nat \ Block)
        PROVE  Append(q, n) \in Seq(Block)
    BY <2>1, AppendProperties
  <2>2. QED
    BY <2>1
<1>3. <<>> \in Seq(Block)
  OBVIOUS
<1>4. PICK f : IsRecursive(f, Seq(Block), <<>>, G, N)
  <2> HIDE DEF G
  <2>1. QED
    BY <1>1, <1>2, <1>3, RecursionExists
<1>5. /\ f \in [Block -> Seq(Block)] /\ f[0] = <<>>
      /\ \A m \in 1 .. N : m - 1 \in Block /\ m \in Block
            /\ f[m] = IF m \in used THEN f[m - 1] ELSE Append(f[m - 1], m)
  <2>1. f \in [Block -> Seq(Block)] /\ f[0] = <<>>
    BY <1>1, <1>4 DEF IsRecursive
  <2>2. ASSUME NEW m \in 1 .. N
        PROVE  /\ m - 1 \in Block /\ m \in Block
               /\ f[m] = IF m \in used THEN f[m - 1] ELSE Append(f[m - 1], m)
    <3>1. m - 1 \in Block /\ m \in Block /\ m \in Nat
      BY <1>1
    <3>2. <<m, f[m - 1]>> \in Nat \X Seq(Block)
      BY <2>1, <3>1
    <3>3. f[m] = G[<<m, f[m - 1]>>]
      BY <1>4 DEF IsRecursive
    <3>4. QED
      BY <3>1, <3>2, <3>3
  <2>3. QED
    BY <2>1, <2>2
<1>6. Eqn(f)
  <2>1. ASSUME NEW n \in Block
        PROVE  f[n] = IF n = 0 THEN <<>> ELSE IF n \in used THEN f[n - 1] ELSE Append(f[n - 1], n)
    <3>1. CASE n = 0
      BY <1>5, <3>1
    <3>2. CASE n # 0
      <4>1. n \in 1 .. N
        BY <1>1, <3>2
      <4>2. QED
        BY <1>5, <3>2, <4>1
    <3>3. QED
      BY <3>1, <3>2
  <2>2. f = [n \in Block |-> f[n]]
    BY <1>5
  <2>3. QED
    BY <2>1, <2>2
<1>7. Eqn(CHOOSE g : Eqn(g))
  <2> HIDE DEF Eqn
  <2>1. QED
    BY <1>6, Zenon
<1>8. init_free_blocks(d) = (CHOOSE g : Eqn(g))[N]
  BY Zenon DEF init_free_blocks, used, N
<1>9. PICK g : Eqn(g) /\ init_free_blocks(d) = g[N]
  BY <1>7, <1>8
<1> HIDE DEF G
<1> DEFINE P == {n \in 0 .. N : /\ g[n] \in Seq(Block) /\ IsInjective(g[n])
                                /\ \A k : k \in ToSet(g[n]) <=> k \in (0 .. n) \ used}
<1>10. 0 \in P
  <2>1. g[0] = <<>> /\ 0 \in 0 .. N
    BY <1>1, <1>9
  <2>2. IsInjective(<<>>) /\ ToSet(<<>>) = {}
    BY DEF IsInjective, ToSet
  <2>3. \A k \in 0 .. 0 : k \in used
    BY <1>1
  <2>4. QED
    BY <1>3, <2>1, <2>2, <2>3
<1>11. ASSUME NEW m \in 1 .. N, m - 1 \in P
       PROVE  m \in P
  <2>1. /\ m \in Block /\ m # 0 /\ m \in 0 .. N /\ m \in Nat
        /\ g[m - 1] \in Seq(Block) /\ IsInjective(g[m - 1])
        /\ \A k : k \in ToSet(g[m - 1]) <=> k \in (0 .. m - 1) \ used
    BY <1>1, <1>11
  <2>2. g[m] = IF m \in used THEN g[m - 1] ELSE Append(g[m - 1], m)
    BY <1>9, <2>1
  <2>3. \A k : k \in 0 .. m <=> k \in 0 .. m - 1 \/ k = m
    BY <2>1
  <2>4. m \notin 0 .. m - 1
    BY <2>1
  <2>5. CASE m \in used
    BY <2>1, <2>2, <2>3, <2>5
  <2>6. CASE m \notin used
    <3>1. PICK q \in Seq(Block) : q = g[m - 1]
      BY <2>1
    <3>2. m \notin ToSet(q)
      BY <2>1, <2>4, <3>1
    <3>3. Append(q, m) \in Seq(Block) /\ ToSet(Append(q, m)) = ToSet(q) \cup {m} /\ IsInjective(Append(q, m))
      BY <2>1, <3>1, <3>2, ElementsOfAppend
    <3>4. g[m] = Append(q, m)
      BY <2>2, <2>6, <3>1
    <3>5. \A k : k \in ToSet(g[m]) <=> k \in (0 .. m) \ used
      BY <2>1, <2>3, <2>6, <3>1, <3>3, <3>4
    <3>6. QED
      BY <2>1, <3>3, <3>4, <3>5
  <2>7. QED
    BY <2>5, <2>6
<1> HIDE DEF P
<1>12. 0 .. N \subseteq P
  BY <1>1, <1>10, <1>11, UpTo
<1>13. N \in P
  BY <1>1, <1>12
<1>14. QED
  BY <1>1, <1>9, <1>13 DEF P, used

-----------------------------------------------------------------------------
(* What the invariant says of a handler, label by label *)

\* What is known of a request.
LEMMA RequestFacts ==
  ASSUME NEW r \in Request
  PROVE  /\ r # NoReq /\ r.op \in {"create", "delete", "read", "write"}
         /\ r.user \in User /\ Names(r) \in Seq(Name) /\ Len(Names(r)) \in Nat /\ Last(r.path) \in Name
         /\ r.op = "create" => r.type \in {"f", "d"}
         /\ r.op \in {"read", "write"} => r.block \in Nat
         /\ r.op = "write" => r.data \in Value \cup {Junk}
<1>1. /\ r.op \in {"create", "delete", "read", "write"}
      /\ r.user \in User /\ r.path \in Seq(Name) /\ r.path # <<>>
      /\ r.op = "create" => r.type \in {"f", "d"}
      /\ r.op \in {"read", "write"} => r.block \in Nat
      /\ r.op = "write" => r.data \in Value \cup {Junk}
  BY RequestAssumption
<1>2. r # NoReq
  BY <1>1 DEF NoReq
<1>3. Len(r.path) \in Nat \ {0} /\ \A k \in 1 .. Len(r.path) : r.path[k] \in Name
  BY <1>1, EmptySeq, LenProperties
<1>4. Last(r.path) \in Name
  BY <1>3 DEF Last
<1>5. Front(r.path) \in Seq(Name)
  <2>1. \A k \in 1 .. Len(r.path) - 1 : r.path[k] \in Name
    BY <1>3
  <2>2. QED
    BY <1>1, <1>3, <2>1, SubSeqProperties DEF Front
<1>6. Names(r) \in Seq(Name)
  BY <1>1, <1>5 DEF Names
<1>7. QED
  BY <1>1, <1>2, <1>4, <1>6, LenProperties

\* Locals before they are set have their types.
LEMMA FreshLocals ==
  /\ Locals0 \in LocalTypes /\ ~Locals0.grown
  /\ \A L : L = [Locals0 EXCEPT !.reserved = L.reserved] => ~L.grown
  /\ \A b \in Block : [Locals0 EXCEPT !.reserved = b] \in LocalTypes
<1>1. 0 \in Block /\ 0 \in Nat /\ NoInode \in AnyInode
  BY SizesAssumption DEF Block, AnyInode
<1>2. NoEntries \in [1 .. DirEntries -> DirEntry]
  BY DEF NoEntries, DirEntry
<1>3. <<1, 1>> \in Nat \X Nat
  OBVIOUS
<1>4. QED
  BY <1>1, <1>2, <1>3 DEF Locals0, LocalTypes

\* A handler whose next step is "idle".
LEMMA AtIdle ==
  ASSUME NEW d, NEW r, NEW L
  PROVE  HandlerOK(d, "idle", r, L) <=>
          /\ r = NoReq /\ L = Locals0
  BY FreshLocals, RequestFacts DEF LocalTypes, HandlerOK, ServesOK, FreshOK, PathOK, CopyOK, CreateOK, DeleteOK, DataOK, Labels,
        Resolving, Modifying, Creating, Deleting, Reading, Writing

\* A handler whose next step is "reserve".
LEMMA AtReserve ==
  ASSUME NEW d, NEW r, NEW L
  PROVE  HandlerOK(d, "reserve", r, L) <=>
          /\ r \in Request /\ r.op = "create" /\ L = Locals0
  BY FreshLocals, RequestFacts DEF LocalTypes, HandlerOK, ServesOK, FreshOK, PathOK, CopyOK, CreateOK, DeleteOK, DataOK, Labels,
        Resolving, Modifying, Creating, Deleting, Reading, Writing

\* A handler whose next step is "root".
LEMMA AtRoot ==
  ASSUME NEW d, NEW r, NEW L
  PROVE  HandlerOK(d, "root", r, L) <=>
          /\ r \in Request /\ L \in LocalTypes
          /\ L = [Locals0 EXCEPT !.reserved = L.reserved]
  BY FreshLocals, RequestFacts DEF LocalTypes, HandlerOK, ServesOK, FreshOK, PathOK, CopyOK, CreateOK, DeleteOK, DataOK, Labels,
        Resolving, Modifying, Creating, Deleting, Reading, Writing

\* A handler whose next step is "look".
LEMMA AtLook ==
  ASSUME NEW d, NEW r, NEW L
  PROVE  HandlerOK(d, "look", r, L) <=>
          /\ r \in Request /\ L \in LocalTypes /\ ~L.grown
          /\ L.depth \in 0 .. Len(Names(r)) /\ L.depth < Len(Names(r))
          /\ Resolve(d, SubSeq(Names(r), 1, L.depth)) = {L.parent}
          /\ L.inode = ReadInode(d, L.parent)
  BY FreshLocals, RequestFacts DEF LocalTypes, HandlerOK, ServesOK, FreshOK, PathOK, CopyOK, CreateOK, DeleteOK, DataOK, Labels,
        Resolving, Modifying, Creating, Deleting, Reading, Writing

\* A handler whose next step is "step".
LEMMA AtStep ==
  ASSUME NEW d, NEW r, NEW L
  PROVE  HandlerOK(d, "step", r, L) <=>
          /\ r \in Request /\ L \in LocalTypes /\ ~L.grown
          /\ L.depth \in 0 .. Len(Names(r)) /\ L.depth < Len(Names(r))
          /\ Resolve(d, SubSeq(Names(r), 1, L.depth)) = {L.target}
          /\ L.parent \in TreeInodes(d) /\ L.target \in Children(d, L.parent)
  BY FreshLocals, RequestFacts DEF LocalTypes, HandlerOK, ServesOK, FreshOK, PathOK, CopyOK, CreateOK, DeleteOK, DataOK, Labels,
        Resolving, Modifying, Creating, Deleting, Reading, Writing

\* A handler whose next step is "target".
LEMMA AtTarget ==
  ASSUME NEW d, NEW r, NEW L
  PROVE  HandlerOK(d, "target", r, L) <=>
          /\ r \in Request /\ L \in LocalTypes /\ ~L.grown
          /\ L.depth \in 0 .. Len(Names(r)) /\ L.depth = Len(Names(r))
          /\ Resolve(d, SubSeq(Names(r), 1, L.depth)) = {L.target}
          /\ IF Names(r) = <<>> THEN L.target = 0 ELSE L.parent \in TreeInodes(d) /\ L.target \in Children(d, L.parent)
  BY FreshLocals, RequestFacts DEF LocalTypes, HandlerOK, ServesOK, FreshOK, PathOK, CopyOK, CreateOK, DeleteOK, DataOK, Labels,
        Resolving, Modifying, Creating, Deleting, Reading, Writing

\* A handler whose next step is "create".
LEMMA AtCreate ==
  ASSUME NEW d, NEW r, NEW L
  PROVE  HandlerOK(d, "create", r, L) <=>
          /\ r \in Request /\ r.op = "create" /\ L \in LocalTypes /\ ~L.grown
          /\ Resolve(d, Names(r)) = {L.target}
          /\ L.inode = ReadInode(d, L.target)
  BY FreshLocals, RequestFacts DEF LocalTypes, HandlerOK, ServesOK, FreshOK, PathOK, CopyOK, CreateOK, DeleteOK, DataOK, Labels,
        Resolving, Modifying, Creating, Deleting, Reading, Writing

\* A handler whose next step is "alloc".
LEMMA AtAlloc ==
  ASSUME NEW d, NEW r, NEW L
  PROVE  HandlerOK(d, "alloc", r, L) <=>
          /\ r \in Request /\ r.op = "create" /\ L \in LocalTypes /\ ~L.grown
          /\ Resolve(d, Names(r)) = {L.target}
          /\ L.inode = ReadInode(d, L.target)
          /\ TypeAt(d, L.target) = "d"
          /\ \A s \in Slots(d, L.target) : EntryIn(d, s).name # Last(r.path)
          /\ L.place[2] \in 1 .. DirEntries
          /\ L.block # Sentinel =>
             /\ L.block \in BlocksAt(d, L.target) /\ L.entries = ReadEntries(d, L.block)
             /\ L.entries[L.place[2]].inode_block = 0
  BY FreshLocals, RequestFacts DEF LocalTypes, HandlerOK, ServesOK, FreshOK, PathOK, CopyOK, CreateOK, DeleteOK, DataOK, Labels,
        Resolving, Modifying, Creating, Deleting, Reading, Writing

\* A handler whose next step is "new_inode".
LEMMA AtNewInode ==
  ASSUME NEW d, NEW r, NEW L
  PROVE  HandlerOK(d, "new_inode", r, L) <=>
          /\ r \in Request /\ r.op = "create" /\ L \in LocalTypes
          /\ Resolve(d, Names(r)) = {L.target}
          /\ ~L.grown => L.inode = ReadInode(d, L.target)
          /\ L.grown =>
             /\ L.inode = Longer(ReadInode(d, L.target), L.block)
             /\ Len(ReadInode(d, L.target).blocks) < MaxFileBlocks
          /\ TypeAt(d, L.target) = "d"
          /\ \A s \in Slots(d, L.target) : EntryIn(d, s).name # Last(r.path)
          /\ ~L.grown =>
             /\ L.block \in BlocksAt(d, L.target)
             /\ \E j \in 1 .. DirEntries :
                  /\ EntryIn(d, <<L.block, j>>).inode_block = 0
                  /\ L.entries = Linking(ReadEntries(d, L.block), j, r, L)
          /\ L.grown =>
             /\ L.block # L.reserved
             /\ \E j \in 1 .. DirEntries :
                  L.entries = Linking(NoEntries, j, r, L)
  BY FreshLocals, RequestFacts DEF LocalTypes, HandlerOK, ServesOK, FreshOK, PathOK, CopyOK, CreateOK, DeleteOK, DataOK, Labels,
        Resolving, Modifying, Creating, Deleting, Reading, Writing

\* A handler whose next step is "new_entry".
LEMMA AtNewEntry ==
  ASSUME NEW d, NEW r, NEW L
  PROVE  HandlerOK(d, "new_entry", r, L) <=>
          /\ r \in Request /\ r.op = "create" /\ L \in LocalTypes
          /\ Resolve(d, Names(r)) = {L.target}
          /\ ~L.grown => L.inode = ReadInode(d, L.target)
          /\ L.grown =>
             /\ L.inode = Longer(ReadInode(d, L.target), L.block)
             /\ Len(ReadInode(d, L.target).blocks) < MaxFileBlocks
          /\ TypeAt(d, L.target) = "d"
          /\ \A s \in Slots(d, L.target) : EntryIn(d, s).name # Last(r.path)
          /\ ~L.grown =>
             /\ L.block \in BlocksAt(d, L.target)
             /\ \E j \in 1 .. DirEntries :
                  /\ EntryIn(d, <<L.block, j>>).inode_block = 0
                  /\ L.entries = Linking(ReadEntries(d, L.block), j, r, L)
          /\ L.grown =>
             /\ L.block # L.reserved
             /\ \E j \in 1 .. DirEntries :
                  L.entries = Linking(NoEntries, j, r, L)
          /\ d[L.reserved] = Inode(r.type, r.user, <<>>)
  BY FreshLocals, RequestFacts DEF LocalTypes, HandlerOK, ServesOK, FreshOK, PathOK, CopyOK, CreateOK, DeleteOK, DataOK, Labels,
        Resolving, Modifying, Creating, Deleting, Reading, Writing

\* A handler whose next step is "grow".
LEMMA AtGrow ==
  ASSUME NEW d, NEW r, NEW L
  PROVE  HandlerOK(d, "grow", r, L) <=>
          /\ r \in Request /\ r.op = "create" /\ L \in LocalTypes
          /\ L.grown
          /\ Resolve(d, Names(r)) = {L.target}
          /\ L.inode = Longer(ReadInode(d, L.target), L.block)
          /\ Len(ReadInode(d, L.target).blocks) < MaxFileBlocks
          /\ TypeAt(d, L.target) = "d"
          /\ \A s \in Slots(d, L.target) : EntryIn(d, s).name # Last(r.path)
          /\ L.block # L.reserved
          /\ \E j \in 1 .. DirEntries :
               L.entries = Linking(NoEntries, j, r, L)
          /\ d[L.reserved] = Inode(r.type, r.user, <<>>)
          /\ d[L.block] = DirData(L.entries)
  BY FreshLocals, RequestFacts DEF LocalTypes, HandlerOK, ServesOK, FreshOK, PathOK, CopyOK, CreateOK, DeleteOK, DataOK, Labels,
        Resolving, Modifying, Creating, Deleting, Reading, Writing

\* A handler whose next step is "return_block".
LEMMA AtReturnBlock ==
  ASSUME NEW d, NEW r, NEW L
  PROVE  HandlerOK(d, "return_block", r, L) <=>
          /\ r \in Request /\ r.op = "create" /\ L \in LocalTypes /\ ~L.grown
  BY FreshLocals, RequestFacts DEF LocalTypes, HandlerOK, ServesOK, FreshOK, PathOK, CopyOK, CreateOK, DeleteOK, DataOK, Labels,
        Resolving, Modifying, Creating, Deleting, Reading, Writing

\* A handler whose next step is "return_locked".
LEMMA AtReturnLocked ==
  ASSUME NEW d, NEW r, NEW L
  PROVE  HandlerOK(d, "return_locked", r, L) <=>
          /\ r \in Request /\ r.op = "create" /\ L \in LocalTypes /\ ~L.grown
          /\ Resolve(d, Names(r)) = {L.target}
          /\ L.inode = ReadInode(d, L.target)
  BY FreshLocals, RequestFacts DEF LocalTypes, HandlerOK, ServesOK, FreshOK, PathOK, CopyOK, CreateOK, DeleteOK, DataOK, Labels,
        Resolving, Modifying, Creating, Deleting, Reading, Writing

\* A handler whose next step is "delete".
LEMMA AtDelete ==
  ASSUME NEW d, NEW r, NEW L
  PROVE  HandlerOK(d, "delete", r, L) <=>
          /\ r \in Request /\ r.op = "delete" /\ L \in LocalTypes /\ ~L.grown
          /\ Resolve(d, Names(r)) = {L.target}
          /\ L.inode = ReadInode(d, L.target)
  BY FreshLocals, RequestFacts DEF LocalTypes, HandlerOK, ServesOK, FreshOK, PathOK, CopyOK, CreateOK, DeleteOK, DataOK, Labels,
        Resolving, Modifying, Creating, Deleting, Reading, Writing

\* A handler whose next step is "child".
LEMMA AtChild ==
  ASSUME NEW d, NEW r, NEW L
  PROVE  HandlerOK(d, "child", r, L) <=>
          /\ r \in Request /\ r.op = "delete" /\ L \in LocalTypes /\ ~L.grown
          /\ Resolve(d, Names(r)) = {L.target}
          /\ L.inode = ReadInode(d, L.target)
          /\ L.place[1] \in 1 .. Len(ReadInode(d, L.target).blocks)
          /\ L.place[2] \in 1 .. DirEntries
          /\ L.block = ReadInode(d, L.target).blocks[L.place[1]]
          /\ EntrySlot(L) \in Slots(d, L.target)
          /\ EntryIn(d, EntrySlot(L)).inode_block = L.child
          /\ L.entries = ReadEntries(d, L.block)
  BY FreshLocals, RequestFacts DEF LocalTypes, HandlerOK, ServesOK, FreshOK, PathOK, CopyOK, CreateOK, DeleteOK, DataOK, Labels,
        Resolving, Modifying, Creating, Deleting, Reading, Writing

\* A handler whose next step is "clear".
LEMMA AtClear ==
  ASSUME NEW d, NEW r, NEW L
  PROVE  HandlerOK(d, "clear", r, L) <=>
          /\ r \in Request /\ r.op = "delete" /\ L \in LocalTypes /\ ~L.grown
          /\ Resolve(d, Names(r)) = {L.target}
          /\ L.inode = ReadInode(d, L.target)
          /\ L.place[1] \in 1 .. Len(ReadInode(d, L.target).blocks)
          /\ L.place[2] \in 1 .. DirEntries
          /\ L.block = ReadInode(d, L.target).blocks[L.place[1]]
          /\ EntrySlot(L) \in Slots(d, L.target)
          /\ EntryIn(d, EntrySlot(L)).inode_block = L.child
          /\ L.entries = Cleared(ReadEntries(d, L.block), L.place[2]) /\ L.entries # NoEntries
          /\ L.old = ReadInode(d, L.child)
          /\ L.old.type = "d" => L.old.blocks = <<>>
  BY FreshLocals, RequestFacts DEF LocalTypes, HandlerOK, ServesOK, FreshOK, PathOK, CopyOK, CreateOK, DeleteOK, DataOK, Labels,
        Resolving, Modifying, Creating, Deleting, Reading, Writing

\* A handler whose next step is "shrink".
LEMMA AtShrink ==
  ASSUME NEW d, NEW r, NEW L
  PROVE  HandlerOK(d, "shrink", r, L) <=>
          /\ r \in Request /\ r.op = "delete" /\ L \in LocalTypes /\ ~L.grown
          /\ Resolve(d, Names(r)) = {L.target}
          /\ L.place[1] \in 1 .. Len(ReadInode(d, L.target).blocks)
          /\ L.place[2] \in 1 .. DirEntries
          /\ L.block = ReadInode(d, L.target).blocks[L.place[1]]
          /\ EntrySlot(L) \in Slots(d, L.target)
          /\ EntryIn(d, EntrySlot(L)).inode_block = L.child
          /\ Cleared(ReadEntries(d, L.block), L.place[2]) = NoEntries
          /\ L.inode = Shorter(ReadInode(d, L.target), L.place[1])
          /\ L.old = ReadInode(d, L.child)
          /\ L.old.type = "d" => L.old.blocks = <<>>
  BY FreshLocals, RequestFacts DEF LocalTypes, HandlerOK, ServesOK, FreshOK, PathOK, CopyOK, CreateOK, DeleteOK, DataOK, Labels,
        Resolving, Modifying, Creating, Deleting, Reading, Writing

\* A handler whose next step is "free_entries".
LEMMA AtFreeEntries ==
  ASSUME NEW d, NEW r, NEW L
  PROVE  HandlerOK(d, "free_entries", r, L) <=>
          /\ r \in Request /\ r.op = "delete" /\ L \in LocalTypes /\ ~L.grown
          /\ Resolve(d, Names(r)) = {L.target}
          /\ L.old = ReadInode(d, L.child)
          /\ IsInjective(L.old.blocks) /\ L.child \notin ToSet(L.old.blocks)
          /\ L.block \notin ToSet(L.old.blocks) \cup {L.child}
  BY FreshLocals, RequestFacts DEF LocalTypes, HandlerOK, ServesOK, FreshOK, PathOK, CopyOK, CreateOK, DeleteOK, DataOK, Labels,
        Resolving, Modifying, Creating, Deleting, Reading, Writing

\* A handler whose next step is "free".
LEMMA AtFree ==
  ASSUME NEW d, NEW r, NEW L
  PROVE  HandlerOK(d, "free", r, L) <=>
          /\ r \in Request /\ r.op = "delete" /\ L \in LocalTypes /\ ~L.grown
          /\ IsInjective(L.old.blocks) /\ L.child \notin ToSet(L.old.blocks)
  BY FreshLocals, RequestFacts DEF LocalTypes, HandlerOK, ServesOK, FreshOK, PathOK, CopyOK, CreateOK, DeleteOK, DataOK, Labels,
        Resolving, Modifying, Creating, Deleting, Reading, Writing

\* A handler whose next step is "read".
LEMMA AtRead ==
  ASSUME NEW d, NEW r, NEW L
  PROVE  HandlerOK(d, "read", r, L) <=>
          /\ r \in Request /\ r.op = "read" /\ L \in LocalTypes /\ ~L.grown
          /\ Resolve(d, Names(r)) = {L.target}
          /\ L.inode = ReadInode(d, L.target)
  BY FreshLocals, RequestFacts DEF LocalTypes, HandlerOK, ServesOK, FreshOK, PathOK, CopyOK, CreateOK, DeleteOK, DataOK, Labels,
        Resolving, Modifying, Creating, Deleting, Reading, Writing

\* A handler whose next step is "read_data".
LEMMA AtReadData ==
  ASSUME NEW d, NEW r, NEW L
  PROVE  HandlerOK(d, "read_data", r, L) <=>
          /\ r \in Request /\ r.op = "read" /\ L \in LocalTypes /\ ~L.grown
          /\ Resolve(d, Names(r)) = {L.target}
          /\ L.inode = ReadInode(d, L.target)
          /\ r.block < Len(L.inode.blocks)
  BY FreshLocals, RequestFacts DEF LocalTypes, HandlerOK, ServesOK, FreshOK, PathOK, CopyOK, CreateOK, DeleteOK, DataOK, Labels,
        Resolving, Modifying, Creating, Deleting, Reading, Writing

\* A handler whose next step is "write".
LEMMA AtWrite ==
  ASSUME NEW d, NEW r, NEW L
  PROVE  HandlerOK(d, "write", r, L) <=>
          /\ r \in Request /\ r.op = "write" /\ L \in LocalTypes /\ ~L.grown
          /\ Resolve(d, Names(r)) = {L.target}
          /\ L.inode = ReadInode(d, L.target)
  BY FreshLocals, RequestFacts DEF LocalTypes, HandlerOK, ServesOK, FreshOK, PathOK, CopyOK, CreateOK, DeleteOK, DataOK, Labels,
        Resolving, Modifying, Creating, Deleting, Reading, Writing

\* A handler whose next step is "append".
LEMMA AtAppend ==
  ASSUME NEW d, NEW r, NEW L
  PROVE  HandlerOK(d, "append", r, L) <=>
          /\ r \in Request /\ r.op = "write" /\ L \in LocalTypes /\ ~L.grown
          /\ Resolve(d, Names(r)) = {L.target}
          /\ L.inode = ReadInode(d, L.target)
          /\ TypeAt(d, L.target) = "f"
  BY FreshLocals, RequestFacts DEF LocalTypes, HandlerOK, ServesOK, FreshOK, PathOK, CopyOK, CreateOK, DeleteOK, DataOK, Labels,
        Resolving, Modifying, Creating, Deleting, Reading, Writing

\* A handler whose next step is "write_data".
LEMMA AtWriteData ==
  ASSUME NEW d, NEW r, NEW L
  PROVE  HandlerOK(d, "write_data", r, L) <=>
          /\ r \in Request /\ r.op = "write" /\ L \in LocalTypes
          /\ Resolve(d, Names(r)) = {L.target}
          /\ ~L.grown => L.inode = ReadInode(d, L.target)
          /\ L.grown =>
             /\ L.inode = Longer(ReadInode(d, L.target), L.block)
             /\ Len(ReadInode(d, L.target).blocks) < MaxFileBlocks
          /\ TypeAt(d, L.target) = "f"
          /\ ~L.grown => L.block \in BlocksAt(d, L.target)
          /\ L.grown => L.reserved = L.block
  BY FreshLocals, RequestFacts DEF LocalTypes, HandlerOK, ServesOK, FreshOK, PathOK, CopyOK, CreateOK, DeleteOK, DataOK, Labels,
        Resolving, Modifying, Creating, Deleting, Reading, Writing

\* A handler whose next step is "write_inode".
LEMMA AtWriteInode ==
  ASSUME NEW d, NEW r, NEW L
  PROVE  HandlerOK(d, "write_inode", r, L) <=>
          /\ r \in Request /\ r.op = "write" /\ L \in LocalTypes
          /\ L.grown
          /\ Resolve(d, Names(r)) = {L.target}
          /\ L.inode = Longer(ReadInode(d, L.target), L.block)
          /\ Len(ReadInode(d, L.target).blocks) < MaxFileBlocks
          /\ TypeAt(d, L.target) = "f"
          /\ L.reserved = L.block
          /\ d[L.block].kind = "data"
  BY FreshLocals, RequestFacts DEF LocalTypes, HandlerOK, ServesOK, FreshOK, PathOK, CopyOK, CreateOK, DeleteOK, DataOK, Labels,
        Resolving, Modifying, Creating, Deleting, Reading, Writing

\* A handler whose next step is "reply".
LEMMA AtReply ==
  ASSUME NEW d, NEW r, NEW L
  PROVE  HandlerOK(d, "reply", r, L) <=>
          /\ r \in Request /\ L \in LocalTypes
  BY FreshLocals, RequestFacts DEF LocalTypes, HandlerOK, ServesOK, FreshOK, PathOK, CopyOK, CreateOK, DeleteOK, DataOK, Labels,
        Resolving, Modifying, Creating, Deleting, Reading, Writing

\* The inodes a handler has locked.
HeldBy(p, r, L) == SharedBy(p, r, L) \cup OwnedBy(p, L)

\* The locks by label.
LEMMA LocksAt ==
  ASSUME NEW r, NEW L
  PROVE  /\ \A p \in {"look", "step"} : SharedBy(p, r, L) = {L.parent} /\ OwnedBy(p, L) = {}
         /\ SharedBy("target", r, L) = (IF Names(r) = <<>> THEN {} ELSE {L.parent})
         /\ OwnedBy("target", L) = {}
         /\ \A p \in Reading : SharedBy(p, r, L) = {L.target} /\ OwnedBy(p, L) = {}
         /\ \A p \in {"clear", "shrink", "free_entries"} :
              SharedBy(p, r, L) = {} /\ OwnedBy(p, L) = {L.target, L.child}
         /\ \A p \in (Creating \cup Deleting \cup Writing) \ {"clear", "shrink", "free_entries"} :
              SharedBy(p, r, L) = {} /\ OwnedBy(p, L) = {L.target}
         /\ \A p \in {"idle", "reserve", "root", "return_block", "free", "reply"} :
              SharedBy(p, r, L) = {} /\ OwnedBy(p, L) = {}
<1>1. \A p \in {"look", "step"} : SharedBy(p, r, L) = {L.parent} /\ OwnedBy(p, L) = {}
  BY DEF SharedBy, OwnedBy, Creating, Deleting, Reading, Writing
<1>2. SharedBy("target", r, L) = (IF Names(r) = <<>> THEN {} ELSE {L.parent}) /\ OwnedBy("target", L) = {}
  BY DEF SharedBy, OwnedBy, Creating, Deleting, Reading, Writing
<1>3. \A p \in Reading : SharedBy(p, r, L) = {L.target} /\ OwnedBy(p, L) = {}
  BY DEF SharedBy, OwnedBy, Creating, Deleting, Reading, Writing
<1>4. \A p \in {"clear", "shrink", "free_entries"} :
              SharedBy(p, r, L) = {} /\ OwnedBy(p, L) = {L.target, L.child}
  BY DEF SharedBy, OwnedBy, Creating, Deleting, Reading, Writing
<1>5. \A p \in (Creating \cup Deleting \cup Writing) \ {"clear", "shrink", "free_entries"} :
              SharedBy(p, r, L) = {} /\ OwnedBy(p, L) = {L.target}
  BY DEF SharedBy, OwnedBy, Creating, Deleting, Reading, Writing
<1>6. \A p \in {"idle", "reserve", "root", "return_block", "free", "reply"} :
              SharedBy(p, r, L) = {} /\ OwnedBy(p, L) = {}
  BY DEF SharedBy, OwnedBy, Creating, Deleting, Reading, Writing
<1>7. QED
  BY <1>1, <1>2, <1>3, <1>4, <1>5, <1>6

\* A handler that reads its target holds its lock and no other.
LEMMA ReaderHolds ==
  ASSUME NEW r, NEW L, NEW p \in Reading
  PROVE  HeldBy(p, r, L) = {L.target}
<1>1. SharedBy(p, r, L) = {L.target} /\ OwnedBy(p, L) = {}
  BY LocksAt
<1>2. QED
  BY <1>1 DEF HeldBy

\* So does one that writes it, but for the child that delete locks too.
LEMMA WriterHolds ==
  ASSUME NEW r, NEW L, NEW p \in (Creating \cup Deleting \cup Writing) \ {"clear", "shrink", "free_entries"}
  PROVE  HeldBy(p, r, L) = {L.target}
<1>1. SharedBy(p, r, L) = {} /\ OwnedBy(p, L) = {L.target}
  BY LocksAt
<1>2. QED
  BY <1>1 DEF HeldBy

\* With its target and the child locked, a handler of delete unlinks the child.
LEMMA UnlinkerHolds ==
  ASSUME NEW r, NEW L, NEW p \in {"clear", "shrink", "free_entries"}
  PROVE  HeldBy(p, r, L) = {L.target, L.child}
<1>1. SharedBy(p, r, L) = {} /\ OwnedBy(p, L) = {L.target, L.child}
  BY LocksAt
<1>2. QED
  BY <1>1 DEF HeldBy

\* Before traverse_dir, and after the last unlock, a handler holds nothing.
LEMMA NothingHeld ==
  ASSUME NEW r, NEW L, NEW p \in {"idle", "reserve", "root", "return_block", "free", "reply"}
  PROVE  HeldBy(p, r, L) = {}
<1>1. SharedBy(p, r, L) = {} /\ OwnedBy(p, L) = {}
  BY LocksAt
<1>2. QED
  BY <1>1 DEF HeldBy

\* The blocks in flight by request.
LEMMA CarriedAt ==
  ASSUME NEW p, NEW r \in Request, NEW L
  PROVE  /\ r.op = "create" =>
              Carried(p, r, L) = (IF p \in {"reserve", "reply"} THEN {} ELSE {L.reserved})
                                 \cup (IF L.grown /\ p # "reply" THEN {L.block} ELSE {})
         /\ r.op = "delete" =>
              Carried(p, r, L) =
                (IF p = "free_entries" THEN {L.block} ELSE {})
                \cup (IF p \in {"free_entries", "free"} THEN ToSet(L.old.blocks) \cup {L.child} ELSE {})
         /\ r.op = "read" => Carried(p, r, L) = {}
         /\ r.op = "write" => Carried(p, r, L) = IF L.grown /\ p # "reply" THEN {L.reserved} ELSE {}
<1>1. r # NoReq
  BY RequestFacts
<1>2. r.op = "create" =>
              Carried(p, r, L) = (IF p \in {"reserve", "reply"} THEN {} ELSE {L.reserved})
                                 \cup (IF L.grown /\ p # "reply" THEN {L.block} ELSE {})
  BY <1>1 DEF Carried
<1>3. r.op = "delete" =>
              Carried(p, r, L) =
                (IF p = "free_entries" THEN {L.block} ELSE {})
                \cup (IF p \in {"free_entries", "free"} THEN ToSet(L.old.blocks) \cup {L.child} ELSE {})
  BY <1>1 DEF Carried
<1>4. r.op = "read" => Carried(p, r, L) = {}
  BY <1>1 DEF Carried
<1>5. r.op = "write" => Carried(p, r, L) = IF L.grown /\ p # "reply" THEN {L.reserved} ELSE {}
  BY <1>1 DEF Carried
<1>6. QED
  BY <1>2, <1>3, <1>4, <1>5

\* Those d and e agree on.
Unaffected(d, e, C, p, r, L) ==
  /\ \A b \in HeldBy(p, r, L) : b \notin C /\ e[b] = d[b] /\ \A k \in BlocksAt(d, b) : e[k] = d[k]
  /\ p \in {"step", "target"} => L.target \notin C
  /\ p \in {"new_entry", "grow", "write_inode"} => \A b \in Carried(p, r, L) : e[b] = d[b]

\* What a handler knows remains true when others write: it depends on the inodes it
\* has locked, their blocks, and the blocks that only it knows of.
LEMMA Undisturbed ==
  ASSUME NEW d \in [Block -> Content], NEW e \in [Block -> Content], InOrder(d), InOrder(e),
         NEW C, Apart(d, e, C), NEW p, NEW r, NEW L, HandlerOK(d, p, r, L),
         Unaffected(d, e, C, p, r, L)
  PROVE  HandlerOK(e, p, r, L)
<1>1. p \in Labels /\ L \in LocalTypes
  BY DEF HandlerOK
<1>2. L.target \in Block /\ L.parent \in Block /\ L.child \in Block
  BY <1>1 DEF LocalTypes
<1>3. ASSUME NEW b \in Block, b \in HeldBy(p, r, L)
      PROVE  /\ ReadInode(e, b) = ReadInode(d, b) /\ TypeAt(e, b) = TypeAt(d, b)
             /\ BlocksAt(e, b) = BlocksAt(d, b) /\ Slots(e, b) = Slots(d, b)
             /\ \A s \in Slots(d, b) : EntryIn(e, s) = EntryIn(d, s)
             /\ \A k \in BlocksAt(d, b) : ReadEntries(e, k) = ReadEntries(d, k)
  <2>1. \A k \in BlocksAt(d, b) : e[k] = d[k]
    BY <1>3 DEF Unaffected
  <2>2. SameAt(d, e, b)
    BY <1>3, <2>1, FrameAt DEF Unaffected
  <2>3. QED
    BY <2>1, <2>2 DEF SameAt, TypeAt, BlocksAt, ReadEntries
<1>4. ASSUME r \in Request, NEW n \in 0 .. Len(Names(r)), NEW x, x \notin C,
             Resolve(d, SubSeq(Names(r), 1, n)) = {x}
      PROVE  Resolve(e, SubSeq(Names(r), 1, n)) = {x}
  <2>1. Names(r) \in Seq(Name)
    BY <1>4, RequestFacts
  <2>2. QED
    BY <1>4, <2>1, PathKept
<1>5. ASSUME r \in Request, NEW x, x \notin C, Resolve(d, Names(r)) = {x}
      PROVE  Resolve(e, Names(r)) = {x}
  <2>1. Names(r) \in Seq(Name) /\ Len(Names(r)) \in Nat /\ Len(Names(r)) \in 0 .. Len(Names(r))
    BY <1>5, RequestFacts
  <2>2. SubSeq(Names(r), 1, Len(Names(r))) = Names(r)
    BY <2>1, WholePath
  <2>3. Resolve(e, SubSeq(Names(r), 1, Len(Names(r)))) = {x}
    BY <1>4, <1>5, <2>1, <2>2
  <2>4. QED
    BY <2>2, <2>3
<1>6. ASSUME NEW b \in TreeInodes(d), b \notin C, NEW x \in Children(d, b), x \notin C
      PROVE  b \in TreeInodes(e) /\ x \in Children(e, b)
  <2>1. b \in Block /\ b \in TreeInodes(e)
    BY <1>6, TreeClosed DEF Apart
  <2>2. PICK s \in Slots(d, b) : EntryIn(d, s).inode_block = x
    BY <2>1, EntriesBySlots
  <2>3. EntryIn(d, s).name \in Name /\ x \in Block
    BY <2>1, <2>2, SlotFacts
  <2>4. Linked(d, b, EntryIn(d, s).name, x)
    BY <2>2 DEF Linked
  <2>5. Linked(e, b, EntryIn(d, s).name, x)
    BY <1>6, <2>3, <2>4 DEF Apart
  <2>6. QED
    BY <2>1, <2>5, EntriesBySlots DEF Linked
<1>7. CASE p = "idle"
  BY <1>7, AtIdle
<1>8. CASE p = "reserve"
  BY <1>8, AtReserve
<1>9. CASE p = "root"
  BY <1>9, AtRoot
<1>10. CASE p = "return_block"
  BY <1>10, AtReturnBlock
<1>11. CASE p = "free"
  BY <1>11, AtFree
<1>12. CASE p = "reply"
  BY <1>12, AtReply
<1>13. CASE p = "look"
  <2>1. L.parent \in HeldBy(p, r, L)
    BY <1>13, LocksAt DEF HeldBy
  <2>2. /\ r \in Request /\ L.depth \in 0 .. Len(Names(r)) /\ ~L.grown /\ L.depth < Len(Names(r))
        /\ Resolve(d, SubSeq(Names(r), 1, L.depth)) = {L.parent} /\ L.inode = ReadInode(d, L.parent)
    <3>1. HandlerOK(d, "look", r, L)
      BY <1>13
    <3>2. QED
      BY <3>1, AtLook
  <2>3. L.parent \notin C /\ ReadInode(e, L.parent) = ReadInode(d, L.parent)
    BY <1>2, <1>3, <2>1 DEF Unaffected
  <2>4. Resolve(e, SubSeq(Names(r), 1, L.depth)) = {L.parent}
    BY <1>4, <2>2, <2>3
  <2>5. QED
    BY <1>1, <1>13, <2>2, <2>3, <2>4, AtLook
<1>14. CASE p = "step"
  <2>1. L.parent \in HeldBy(p, r, L)
    BY <1>14, LocksAt DEF HeldBy
  <2>2. /\ r \in Request /\ L.depth \in 0 .. Len(Names(r)) /\ ~L.grown /\ L.depth < Len(Names(r))
        /\ Resolve(d, SubSeq(Names(r), 1, L.depth)) = {L.target}
        /\ L.parent \in TreeInodes(d) /\ L.target \in Children(d, L.parent)
    BY <1>14, AtStep
  <2>3. L.parent \notin C /\ L.target \notin C
    BY <1>14, <2>1 DEF Unaffected
  <2>4. Resolve(e, SubSeq(Names(r), 1, L.depth)) = {L.target}
    BY <1>4, <2>2, <2>3
  <2>5. L.parent \in TreeInodes(e) /\ L.target \in Children(e, L.parent)
    BY <1>6, <2>2, <2>3
  <2>6. QED
    BY <1>1, <1>14, <2>2, <2>4, <2>5, AtStep
<1>15. CASE p = "target"
  <2>1. Names(r) # <<>> => L.parent \in HeldBy(p, r, L)
    BY <1>15, LocksAt DEF HeldBy
  <2>2. /\ r \in Request /\ L.depth \in 0 .. Len(Names(r)) /\ ~L.grown /\ L.depth = Len(Names(r))
        /\ Resolve(d, SubSeq(Names(r), 1, L.depth)) = {L.target}
        /\ IF Names(r) = <<>> THEN L.target = 0 ELSE L.parent \in TreeInodes(d) /\ L.target \in Children(d, L.parent)
    BY <1>15, AtTarget
  <2>3. L.target \notin C /\ (Names(r) # <<>> => L.parent \notin C)
    BY <1>15, <2>1 DEF Unaffected
  <2>4. Resolve(e, SubSeq(Names(r), 1, L.depth)) = {L.target}
    BY <1>4, <2>2, <2>3
  <2>5. Names(r) # <<>> => L.parent \in TreeInodes(e) /\ L.target \in Children(e, L.parent)
    BY <1>6, <2>2, <2>3
  <2>6. QED
    BY <1>1, <1>15, <2>2, <2>4, <2>5, AtTarget
<1>16. ASSUME p \in Modifying
       PROVE  /\ Resolve(e, Names(r)) = {L.target}
              /\ ReadInode(e, L.target) = ReadInode(d, L.target) /\ TypeAt(e, L.target) = TypeAt(d, L.target)
              /\ BlocksAt(e, L.target) = BlocksAt(d, L.target) /\ Slots(e, L.target) = Slots(d, L.target)
              /\ \A s \in Slots(d, L.target) : EntryIn(e, s) = EntryIn(d, s)
              /\ \A k \in BlocksAt(d, L.target) : ReadEntries(e, k) = ReadEntries(d, k)
              /\ \A k \in BlocksAt(d, L.target) : \A j \in 1 .. DirEntries : EntryIn(e, <<k, j>>) = EntryIn(d, <<k, j>>)
  <2>1. L.target \in HeldBy(p, r, L)
    BY <1>16, LocksAt DEF HeldBy, Modifying, Creating, Deleting, Reading, Writing
  <2>2. r \in Request /\ Resolve(d, Names(r)) = {L.target}
    BY <1>16 DEF HandlerOK, ServesOK, PathOK, Modifying
  <2>3. Resolve(e, Names(r)) = {L.target}
    BY <1>5, <2>1, <2>2 DEF Unaffected
  <2>4. \A k \in BlocksAt(d, L.target) : ReadEntries(e, k) = ReadEntries(d, k)
    BY <1>2, <1>3, <2>1
  <2>5. QED
    BY <1>2, <1>3, <2>1, <2>3, <2>4 DEF EntryIn
<1>17. CASE p = "create"
  BY <1>16, <1>17, AtCreate DEF Modifying
<1>18. CASE p = "return_locked"
  BY <1>16, <1>18, AtReturnLocked DEF Modifying
<1>19. CASE p = "delete"
  BY <1>16, <1>19, AtDelete DEF Modifying
<1>20. CASE p = "read"
  BY <1>16, <1>20, AtRead DEF Modifying
<1>21. CASE p = "read_data"
  BY <1>16, <1>21, AtReadData DEF Modifying
<1>22. CASE p = "write"
  BY <1>16, <1>22, AtWrite DEF Modifying
<1>23. CASE p = "append"
  BY <1>16, <1>23, AtAppend DEF Modifying
<1>24. CASE p = "write_data"
  BY <1>16, <1>24, AtWriteData DEF Modifying
<1>25. CASE p = "write_inode"
  <2>1. L.block \in Carried(p, r, L)
    BY <1>25, AtWriteInode, CarriedAt
  <2>2. e[L.block] = d[L.block]
    BY <1>25, <2>1 DEF Unaffected
  <2>3. QED
    BY <1>16, <1>25, <2>2, AtWriteInode DEF Modifying
<1>26. CASE p = "alloc"
  BY <1>16, <1>26, AtAlloc DEF Modifying
<1>27. CASE p = "new_inode"
  <2>1. HandlerOK(d, "new_inode", r, L) /\ p \in Modifying
    BY <1>27 DEF Modifying
  <2>2. QED
    BY <1>16, <1>27, <2>1, AtNewInode
<1>28. CASE p = "new_entry"
  <2>1. HandlerOK(d, "new_entry", r, L) /\ p \in Modifying
    BY <1>28 DEF Modifying
  <2>2. e[L.reserved] = d[L.reserved]
    <3>1. L.reserved \in Carried(p, r, L)
      BY <1>28, <2>1, AtNewEntry, CarriedAt
    <3>2. QED
      BY <1>28, <3>1 DEF Unaffected
  <2>3. QED
    BY <1>16, <1>28, <2>1, <2>2, AtNewEntry
<1>29. CASE p = "grow"
  <2>1. HandlerOK(d, "grow", r, L) /\ p \in Modifying
    BY <1>29 DEF Modifying
  <2>2. e[L.reserved] = d[L.reserved] /\ e[L.block] = d[L.block]
    <3>1. L.reserved \in Carried(p, r, L) /\ L.block \in Carried(p, r, L)
      BY <1>29, <2>1, AtGrow, CarriedAt
    <3>2. QED
      BY <1>29, <3>1 DEF Unaffected
  <2>3. QED
    BY <1>16, <1>29, <2>1, <2>2, AtGrow
<1>30. CASE p = "child"
  <2>1. HandlerOK(d, "child", r, L) /\ p \in Modifying
    BY <1>30 DEF Modifying
  <2>2. L.block \in BlocksAt(d, L.target)
    <3>1. EntrySlot(L) \in Slots(d, L.target)
      BY <2>1, AtChild
    <3>2. QED
      BY <1>2, <3>1, SlotFacts DEF EntrySlot
  <2>3. QED
    BY <1>16, <1>30, <2>1, <2>2, AtChild
<1>31. ASSUME p \in {"clear", "shrink", "free_entries"}
       PROVE  ReadInode(e, L.child) = ReadInode(d, L.child)
  <2>1. L.child \in HeldBy(p, r, L)
    BY <1>31, LocksAt DEF HeldBy
  <2>2. QED
    BY <1>2, <1>3, <2>1
<1>32. CASE p = "clear"
  <2>1. HandlerOK(d, "clear", r, L) /\ p \in Modifying
    BY <1>32 DEF Modifying
  <2>2. L.block \in BlocksAt(d, L.target)
    <3>1. EntrySlot(L) \in Slots(d, L.target)
      BY <2>1, AtClear
    <3>2. QED
      BY <1>2, <3>1, SlotFacts DEF EntrySlot
  <2>3. QED
    BY <1>16, <1>31, <1>32, <2>1, <2>2, AtClear
<1>33. CASE p = "shrink"
  <2>1. HandlerOK(d, "shrink", r, L) /\ p \in Modifying
    BY <1>33 DEF Modifying
  <2>2. L.block \in BlocksAt(d, L.target)
    <3>1. EntrySlot(L) \in Slots(d, L.target)
      BY <2>1, AtShrink
    <3>2. QED
      BY <1>2, <3>1, SlotFacts DEF EntrySlot
  <2>3. QED
    BY <1>16, <1>31, <1>33, <2>1, <2>2, AtShrink
<1>34. CASE p = "free_entries"
  BY <1>16, <1>31, <1>34, AtFreeEntries DEF Modifying
<1>35. QED
  BY <1>1, <1>7, <1>8, <1>9, <1>10, <1>11, <1>12, <1>13, <1>14, <1>15, <1>17, <1>18, <1>19, <1>20,
     <1>21, <1>22, <1>23, <1>24, <1>25, <1>26, <1>27, <1>28, <1>29, <1>30, <1>32, <1>33, <1>34 DEF Labels

-----------------------------------------------------------------------------
(* A step of one handler *)

\* Handler h goes on to p, with request r and locals L.
Moves(h, p, r, L) ==
  /\ pc' = [pc EXCEPT ![h] = p] /\ req' = [req EXCEPT ![h] = r] /\ loc' = [loc EXCEPT ![h] = L]

\* It takes locks that are free to take, and lets go of its own.
LocksMove(h, S, O) ==
  /\ \A b \in Block : (\A g \in Handler \ {h} : g \in readers'[b] <=> g \in readers[b])
                      /\ (h \in readers'[b] <=> b \in S)
  /\ \A b \in Block : writer'[b] = IF b \in O THEN h ELSE IF writer[b] = h THEN NoHandler ELSE writer[b]
  /\ S \cap O = {}
  /\ \A b \in Block : b \in S => writer[b] = NoHandler
  /\ \A b \in Block : b \in O => writer[b] = h \/ (writer[b] = NoHandler /\ readers[b] \subseteq {h})

\* Such a step keeps the locks of all handlers what their labels say.
LEMMA LocksKept ==
  ASSUME IInv, NEW h \in Handler, NEW p, NEW r, NEW L, Moves(h, p, r, L),
         readers' \in [Block -> SUBSET Handler], writer' \in [Block -> Handler \cup {NoHandler}],
         LocksMove(h, SharedBy(p, r, L), OwnedBy(p, L))
  PROVE  LockInv'
<1> DEFINE S == SharedBy(p, r, L)
           O == OwnedBy(p, L)
<1>1. /\ pc \in [Handler -> Labels] /\ req \in [Handler -> Request \cup {NoReq}]
      /\ loc \in [Handler -> LocalTypes] /\ LockInv
  BY DEF IInv, VariableTypes
<1>2. /\ \A g \in Handler \ {h} : pc'[g] = pc[g] /\ req'[g] = req[g] /\ loc'[g] = loc[g]
      /\ pc'[h] = p /\ req'[h] = r /\ loc'[h] = L
  BY <1>1 DEF Moves
<1>3. \A b \in Block : /\ (\A g \in Handler \ {h} : g \in readers'[b] <=> g \in readers[b])
                       /\ h \in readers'[b] <=> b \in S
                       /\ writer'[b] = IF b \in O THEN h ELSE IF writer[b] = h THEN NoHandler ELSE writer[b]
                       /\ ~(b \in S /\ b \in O)
                       /\ b \in S => writer[b] = NoHandler
                       /\ b \in O => writer[b] = h \/ (writer[b] = NoHandler /\ readers[b] \subseteq {h})
  BY DEF LocksMove
<1>4. NoHandler \notin Handler
  BY NoHandlerAssumption
<1>5. ASSUME NEW g \in Handler, NEW b \in Block
      PROVE  /\ g \in readers'[b] <=> b \in SharedBy(pc'[g], req'[g], loc'[g])
             /\ writer'[b] = g <=> b \in OwnedBy(pc'[g], loc'[g])
  <2>1. CASE g = h
    <3>1. SharedBy(pc'[g], req'[g], loc'[g]) = S /\ OwnedBy(pc'[g], loc'[g]) = O
      BY <1>2, <2>1
    <3> HIDE DEF S, O
    <3>2. QED
      BY <1>3, <1>4, <2>1, <3>1
  <2>2. CASE g # h
    <3>1. SharedBy(pc'[g], req'[g], loc'[g]) = SharedBy(pc[g], req[g], loc[g]) /\ OwnedBy(pc'[g], loc'[g]) = OwnedBy(pc[g], loc[g])
      BY <1>2, <2>2
    <3>2. /\ g \in readers[b] <=> b \in SharedBy(pc[g], req[g], loc[g])
          /\ writer[b] = g <=> b \in OwnedBy(pc[g], loc[g])
      BY <1>1 DEF LockInv
    <3> HIDE DEF S, O
    <3>3. writer'[b] = g <=> writer[b] = g
      BY <1>3, <1>4, <2>2
    <3>4. QED
      BY <1>3, <2>2, <3>1, <3>2, <3>3
  <2>3. QED
    BY <2>1, <2>2
<1>6. ASSUME NEW b \in Block, writer'[b] # NoHandler
      PROVE  readers'[b] = {}
  <2>1. readers'[b] \subseteq Handler /\ readers[b] \subseteq Handler
    BY <1>1 DEF LockInv
  <2>2. writer[b] # NoHandler => readers[b] = {}
    BY <1>1 DEF LockInv
  <2> HIDE DEF S, O
  <2>3. h \notin readers'[b]
    BY <1>3, <1>6
  <2>4. \A g \in Handler \ {h} : g \notin readers'[b]
    BY <1>3, <1>6, <2>2
  <2>5. QED
    BY <2>1, <2>3, <2>4
<1>7. QED
  BY <1>5, <1>6 DEF LockInv

\* It takes blocks from the free list or puts them there, links them into the tree
\* or unlinks them: together they remain the same blocks.
BlocksMove(F1, K, K1) ==
  /\ free_blocks' \in Seq(Block) /\ IsInjective(free_blocks') /\ ToSet(free_blocks') = F1
  /\ K1 \subseteq Block
  /\ F1 \cap UsedBlocks(disk') = {} /\ K1 \cap UsedBlocks(disk') = {} /\ K1 \cap F1 = {}
  /\ F1 \cup UsedBlocks(disk') \cup K1 = ToSet(free_blocks) \cup UsedBlocks(disk) \cup K

\* Such a step keeps every block in one place.
LEMMA BlocksKept ==
  ASSUME IInv, NEW h \in Handler, NEW p, NEW r, NEW L, Moves(h, p, r, L),
         disk' \in [Block -> Content],
         NEW F1, BlocksMove(F1, Carried(pc[h], req[h], loc[h]), Carried(p, r, L))
  PROVE  BlockInv'
<1> DEFINE K  == Carried(pc[h], req[h], loc[h])
           K1 == Carried(p, r, L)
           U  == UsedBlocks(disk)
           U1 == UsedBlocks(disk')
           F  == ToSet(free_blocks)
           Fly(g) == Carried(pc[g], req[g], loc[g])
           Fly1(g) == Carried(pc'[g], req'[g], loc'[g])
<1>1. /\ pc \in [Handler -> Labels] /\ req \in [Handler -> Request \cup {NoReq}]
      /\ loc \in [Handler -> LocalTypes] /\ BlockInv
  BY DEF IInv, VariableTypes
<1>2. /\ \A g \in Handler \ {h} : Fly1(g) = Fly(g)
      /\ Fly1(h) = K1 /\ Fly(h) = K
  BY <1>1 DEF Moves
<1>3. /\ \A g \in Handler : InFlight(g) = Fly(g)
      /\ \A g \in Handler : InFlight(g)' = Fly1(g)
  BY DEF InFlight, Carried
<1>4. /\ free_blocks' \in Seq(Block) /\ IsInjective(free_blocks') /\ ToSet(free_blocks') = F1
      /\ K1 \subseteq Block
      /\ F1 \cap U1 = {} /\ K1 \cap U1 = {} /\ K1 \cap F1 = {}
      /\ F1 \cup U1 \cup K1 = F \cup U \cup K
  BY DEF BlocksMove
<1> HIDE DEF K, K1, U, U1, F, Fly, Fly1
<1>5. /\ \A g \in Handler : Fly(g) \subseteq Block /\ Fly(g) \cap U = {} /\ Fly(g) \cap F = {}
      /\ \A f, g \in Handler : f # g => Fly(f) \cap Fly(g) = {}
      /\ \A b \in Block \ U : b \in F \/ \E g \in Handler : b \in Fly(g)
  BY <1>1, <1>3 DEF BlockInv, U, F
<1>6. \A g \in Handler \ {h} : Fly1(g) \cap (F1 \cup U1 \cup K1) = {}
  BY <1>2, <1>4, <1>5
<1>7. \A g \in Handler : Fly1(g) \subseteq Block /\ Fly1(g) \cap U1 = {} /\ Fly1(g) \cap F1 = {}
  BY <1>2, <1>4, <1>5, <1>6
<1>8. \A g \in Handler : \A f \in Handler \ {g} : Fly1(g) \cap Fly1(f) = {}
  BY <1>2, <1>5, <1>6
<1>9. \A b \in Block \ U1 : b \in F1 \/ \E g \in Handler : b \in Fly1(g)
  <2>1. SUFFICES ASSUME NEW b \in Block \ U1, b \notin F1, b \notin K1
                 PROVE  \E g \in Handler : b \in Fly1(g)
    BY <1>2
  <2>2. b \notin F /\ b \notin U /\ b \notin K
    BY <1>4, <2>1
  <2>3. PICK g \in Handler : b \in Fly(g)
    BY <1>5, <2>2
  <2>4. g # h
    BY <1>2, <2>2, <2>3
  <2>5. QED
    BY <1>2, <2>3, <2>4
<1>10. QED
  BY <1>3, <1>4, <1>7, <1>8, <1>9 DEF BlockInv, U1

\* With that the invariant is kept, if what all handlers know of the new disk is true.
LEMMA OneMoves ==
  ASSUME IInv, NEW h \in Handler, NEW p, NEW r, NEW L, Moves(h, p, r, L),
         disk' \in [Block -> Content], InOrder(disk'), HandlerOK(disk', p, r, L),
         \A g \in Handler \ {h} : HandlerOK(disk', pc[g], req[g], loc[g]),
         readers' \in [Block -> SUBSET Handler], writer' \in [Block -> Handler \cup {NoHandler}],
         LocksMove(h, SharedBy(p, r, L), OwnedBy(p, L)),
         NEW F1, BlocksMove(F1, Carried(pc[h], req[h], loc[h]), Carried(p, r, L)),
         NEW o \in Answered \cup {"none"}, outcome' = [outcome EXCEPT ![h] = o], p \in Decided => o # "none",
         received' \in 0 .. MaxRequests, crashes' \in 0 .. MaxCrashes
  PROVE  IInv'
<1>1. VariableTypes
  BY DEF IInv
<1>2. p \in Labels /\ r \in Request \cup {NoReq} /\ L \in LocalTypes
  BY DEF HandlerOK, ServesOK
<1>3. /\ \A g \in Handler \ {h} : pc'[g] = pc[g] /\ req'[g] = req[g] /\ loc'[g] = loc[g]
      /\ pc'[h] = p /\ req'[h] = r /\ loc'[h] = L
  BY <1>1 DEF Moves, VariableTypes
<1>4. VariableTypes'
  <2>1. /\ pc' \in [Handler -> Labels] /\ req' \in [Handler -> Request \cup {NoReq}]
        /\ loc' \in [Handler -> LocalTypes] /\ outcome' \in [Handler -> Answered \cup {"none"}]
    BY <1>1, <1>2 DEF Moves, VariableTypes
  <2>2. \A g \in Handler : pc'[g] \in Decided => outcome'[g] # "none"
    BY <1>1, <1>3 DEF VariableTypes
  <2>3. QED
    BY <2>1, <2>2 DEF VariableTypes
<1>5. \A g \in Handler : HandlerOK(disk', pc'[g], req'[g], loc'[g])
  <2>1. SUFFICES ASSUME NEW g \in Handler PROVE HandlerOK(disk', pc'[g], req'[g], loc'[g])
    OBVIOUS
  <2>2. CASE g = h
    BY <1>3, <2>2
  <2>3. CASE g # h
    BY <1>3, <2>3
  <2>4. QED
    BY <2>2, <2>3
<1>6. LockInv' /\ BlockInv'
  BY LocksKept, BlocksKept
<1>7. QED
  BY <1>4, <1>5, <1>6 DEF IInv

-----------------------------------------------------------------------------
(* What a handler writes does not disturb the others *)

\* Where the path of a handler that works on a file has led it is in the tree.
LEMMA TargetInTree ==
  ASSUME IInv, NEW g \in Handler, pc[g] \in Modifying
  PROVE  /\ req[g] \in Request /\ loc[g] \in LocalTypes
         /\ Resolve(disk, Names(req[g])) = {loc[g].target}
         /\ loc[g].target \in TreeInodes(disk) /\ loc[g].target \in Block
<1>1. HandlerOK(disk, pc[g], req[g], loc[g]) /\ disk \in [Block -> Content] /\ InOrder(disk)
  BY DEF IInv, VariableTypes
<1>2. req[g] \in Request /\ loc[g] \in LocalTypes /\ Resolve(disk, Names(req[g])) = {loc[g].target}
  BY <1>1 DEF HandlerOK, ServesOK, PathOK, Modifying
<1>3. Names(req[g]) \in Seq(Name) /\ Len(Names(req[g])) \in Nat /\ Len(Names(req[g])) \in 0 .. Len(Names(req[g]))
  BY <1>2, RequestFacts
<1>4. SubSeq(Names(req[g]), 1, Len(Names(req[g]))) = Names(req[g])
  BY <1>3, WholePath
<1>5. Resolve(disk, SubSeq(Names(req[g]), 1, Len(Names(req[g])))) \subseteq TreeInodes(disk)
  BY <1>1, <1>3, ResolveFacts
<1>6. QED
  BY <1>1, <1>2, <1>4, <1>5, TreeClosed

\* What a handler has locked is in the tree, or is the file it has just unlinked.
LEMMA HeldFacts ==
  ASSUME IInv, NEW g \in Handler, NEW b \in HeldBy(pc[g], req[g], loc[g])
  PROVE  /\ b \in Block
         /\ b \in TreeInodes(disk) \/ {b} \cup BlocksAt(disk, b) \subseteq Carried(pc[g], req[g], loc[g])
<1> DEFINE p == pc[g]
           r == req[g]
           L == loc[g]
<1>1. HandlerOK(disk, p, r, L) /\ disk \in [Block -> Content] /\ InOrder(disk) /\ p \in Labels
  BY DEF IInv, VariableTypes
<1>2. TreeInodes(disk) \subseteq Block
  BY <1>1, TreeClosed
<1> HIDE DEF p, r, L
<1>3. ASSUME p \in {"clear", "shrink"}
      PROVE  L.child \in TreeInodes(disk)
  <2>1. EntrySlot(L) \in Slots(disk, L.target) /\ EntryIn(disk, EntrySlot(L)).inode_block = L.child
    BY <1>1, <1>3, AtClear, AtShrink
  <2>2. L.target \in TreeInodes(disk)
    BY <1>3, TargetInTree DEF p, L, Modifying
  <2>3. L.child \in Children(disk, L.target)
    BY <1>1, <1>2, <2>1, <2>2, EntriesBySlots
  <2>4. QED
    BY <1>1, <2>2, <2>3, TreeClosed
<1>4. CASE p \in {"idle", "reserve", "root", "return_block", "free", "reply"}
  <2>1. b \in {}
    BY <1>4, LocksAt DEF HeldBy, p, r, L
  <2>2. QED
    BY <2>1
<1>5. CASE p = "look"
  <2>1. b = L.parent
    BY <1>5, LocksAt DEF HeldBy, p, r, L
  <2>2. r \in Request /\ L.depth \in 0 .. Len(Names(r)) /\ Resolve(disk, SubSeq(Names(r), 1, L.depth)) = {L.parent}
    BY <1>1, <1>5, AtLook
  <2>3. Resolve(disk, SubSeq(Names(r), 1, L.depth)) \subseteq TreeInodes(disk)
    BY <1>1, <2>2, RequestFacts, ResolveFacts
  <2>4. QED
    BY <1>2, <2>1, <2>2, <2>3
<1>6. CASE p = "step"
  <2>1. b = L.parent
    BY <1>6, LocksAt DEF HeldBy, p, r, L
  <2>2. QED
    BY <1>1, <1>2, <1>6, <2>1, AtStep
<1>7. CASE p = "target"
  <2>1. b = L.parent /\ Names(r) # <<>>
    BY <1>7, LocksAt DEF HeldBy, p, r, L
  <2>2. QED
    BY <1>1, <1>2, <1>7, <2>1, AtTarget
<1>8. CASE p \in Modifying \ {"clear", "shrink", "free_entries"}
  <2>1. b = L.target
    <3>1. p \in Reading \/ p \in (Creating \cup Deleting \cup Writing) \ {"clear", "shrink", "free_entries"}
      BY <1>8 DEF Modifying, Reading, Creating, Deleting, Writing
    <3>2. HeldBy(p, r, L) = {L.target}
      BY <3>1, ReaderHolds, WriterHolds
    <3>3. QED
      BY <3>2 DEF p, r, L
  <2>2. QED
    BY <1>8, <2>1, TargetInTree DEF p, L
<1>9. CASE p \in {"clear", "shrink"}
  <2>1. b = L.target \/ b = L.child
    BY <1>9, UnlinkerHolds DEF p, r, L
  <2>2. QED
    BY <1>2, <1>3, <1>9, <2>1, TargetInTree DEF p, L, Modifying
<1>10. CASE p = "free_entries"
  <2>1. b = L.target \/ b = L.child
    BY <1>10, UnlinkerHolds DEF p, r, L
  <2>2. L.target \in TreeInodes(disk)
    BY <1>10, TargetInTree DEF p, L, Modifying
  <2>3. r \in Request /\ r.op = "delete" /\ L.old = ReadInode(disk, L.child) /\ L.child \in Block
    BY <1>1, <1>10, AtFreeEntries DEF LocalTypes
  <2>4. {L.child} \cup ToSet(L.old.blocks) \subseteq Carried(p, r, L)
    BY <1>10, <2>3, CarriedAt
  <2>5. QED
    BY <1>2, <2>1, <2>2, <2>3, <2>4 DEF BlocksAt, p, r, L
<1>11. \/ p \in {"idle", "reserve", "root", "return_block", "free", "reply"} \/ p = "look" \/ p = "step"
       \/ p = "target" \/ p \in Modifying
  BY <1>1 DEF Labels, Modifying
<1>12. p \in Modifying => p \in Modifying \ {"clear", "shrink", "free_entries"} \/ p \in {"clear", "shrink"} \/ p = "free_entries"
  OBVIOUS
<1>13. QED
  BY <1>4, <1>5, <1>6, <1>7, <1>8, <1>9, <1>10, <1>11, <1>12

\* What locks exclude, of two handlers.
LEMMA LocksExclude ==
  ASSUME IInv, NEW h \in Handler, NEW g \in Handler, g # h, NEW b \in Block, b \in OwnedBy(pc[h], loc[h])
  PROVE  b \notin HeldBy(pc[g], req[g], loc[g])
<1>1. /\ writer[b] = h /\ (writer[b] # NoHandler => readers[b] = {}) /\ NoHandler \notin Handler
      /\ g \in readers[b] <=> b \in SharedBy(pc[g], req[g], loc[g])
      /\ writer[b] = g <=> b \in OwnedBy(pc[g], loc[g])
  BY NoHandlerAssumption DEF IInv, LockInv
<1>2. QED
  BY <1>1 DEF HeldBy

\* The blocks handler h may write to: its own, its target's inode, and that one's blocks.
Writable(h) ==
  {w \in Block : \/ w \in Carried(pc[h], req[h], loc[h])
                 \/ /\ loc[h].target \in TreeInodes(disk) /\ loc[h].target \in OwnedBy(pc[h], loc[h])
                    /\ w = loc[h].target \/ w \in BlocksAt(disk, loc[h].target)}

\* The flights of two handlers, the tree, and the free list.
LEMMA FlightFacts ==
  ASSUME IInv, NEW h \in Handler
  PROVE  /\ Carried(pc[h], req[h], loc[h]) \subseteq Block
         /\ Carried(pc[h], req[h], loc[h]) \cap UsedBlocks(disk) = {}
         /\ Carried(pc[h], req[h], loc[h]) \cap ToSet(free_blocks) = {}
         /\ \A g \in Handler \ {h} :
              Carried(pc[h], req[h], loc[h]) \cap Carried(pc[g], req[g], loc[g]) = {}
<1>1. \A g \in Handler : InFlight(g) = Carried(pc[g], req[g], loc[g])
  BY DEF InFlight, Carried
<1>2. QED
  BY <1>1 DEF IInv, BlockInv

\* None of the blocks h may write to is one that another handler relies on.
LEMMA WritesApart ==
  ASSUME IInv, NEW h \in Handler, NEW g \in Handler, g # h, NEW w \in Writable(h)
  PROVE  /\ w \notin Carried(pc[g], req[g], loc[g])
         /\ \A b \in HeldBy(pc[g], req[g], loc[g]) : w # b /\ w \notin BlocksAt(disk, b)
<1> DEFINE T == TreeInodes(disk)
           U == UsedBlocks(disk)
           K == Carried(pc[h], req[h], loc[h])
           G == Carried(pc[g], req[g], loc[g])
           t == loc[h].target
<1>1. disk \in [Block -> Content] /\ InOrder(disk)
  BY DEF IInv, VariableTypes
<1>2. U = T \cup UNION {BlocksAt(disk, i) : i \in T} /\ T \subseteq Block
  BY <1>1, UsedFacts, TreeClosed
<1>3. K \cap U = {} /\ G \cap U = {} /\ K \cap G = {}
  BY FlightFacts
<1>4. /\ \A i \in T : \A k \in BlocksAt(disk, i) : k \notin T
      /\ \A i, j \in T : i # j => BlocksAt(disk, i) \cap BlocksAt(disk, j) = {}
  BY <1>1 DEF InOrder
<1>5. w \in K \/ (t \in T /\ t \in OwnedBy(pc[h], loc[h]) /\ (w = t \/ w \in BlocksAt(disk, t)))
  BY DEF Writable
<1>6. \A b \in HeldBy(pc[g], req[g], loc[g]) : b \in T \/ {b} \cup BlocksAt(disk, b) \subseteq G
  BY HeldFacts
<1>7. t \in T /\ t \in OwnedBy(pc[h], loc[h]) => t \notin HeldBy(pc[g], req[g], loc[g])
  BY <1>2, LocksExclude
<1> HIDE DEF T, U, K, G, t
<1>8. w \notin G
  BY <1>2, <1>3, <1>5
<1>9. ASSUME NEW b \in HeldBy(pc[g], req[g], loc[g])
      PROVE  w # b /\ w \notin BlocksAt(disk, b)
  <2>1. CASE {b} \cup BlocksAt(disk, b) \subseteq G
    BY <1>8, <2>1
  <2>2. CASE b \in T
    <3>1. b \in U /\ BlocksAt(disk, b) \subseteq U
      BY <1>2, <2>2
    <3>2. CASE w \in K
      BY <1>3, <3>1, <3>2
    <3>3. CASE w \notin K
      <4>1. t \in T /\ b # t /\ (w = t \/ w \in BlocksAt(disk, t))
        BY <1>5, <1>7, <1>9, <3>3
      <4>2. QED
        BY <1>4, <2>2, <4>1
    <3>4. QED
      BY <3>2, <3>3
  <2>3. QED
    BY <1>6, <2>1, <2>2
<1>10. QED
  BY <1>8, <1>9 DEF G

\* The inodes that h may link or unlink: its own, or the child of its target.
Movable(h, C) ==
  \/ C \subseteq Carried(pc[h], req[h], loc[h])
  \/ \E c \in Block : /\ C = {c} /\ c \in OwnedBy(pc[h], loc[h])
                      /\ loc[h].target \in TreeInodes(disk) /\ loc[h].target \in OwnedBy(pc[h], loc[h])
                      /\ c \in Children(disk, loc[h].target)

\* With that, what the other handlers know remains true.
LEMMA OthersUndisturbed ==
  ASSUME IInv, NEW h \in Handler, NEW e \in [Block -> Content], InOrder(e),
         NEW w \in Writable(h), \A b \in Block \ {w} : e[b] = disk[b],
         NEW C, Movable(h, C), Apart(disk, e, C), NEW g \in Handler, g # h
  PROVE  HandlerOK(e, pc[g], req[g], loc[g])
<1> DEFINE p == pc[g]
           r == req[g]
           L == loc[g]
           T == TreeInodes(disk)
<1>1. disk \in [Block -> Content] /\ InOrder(disk) /\ HandlerOK(disk, p, r, L)
  BY DEF IInv, VariableTypes
<1>2. T \subseteq Block /\ T \subseteq UsedBlocks(disk) /\ \A b \in T : Children(disk, b) \subseteq T
  BY <1>1, UsedFacts, TreeClosed
<1>3. Carried(pc[h], req[h], loc[h]) \cap UsedBlocks(disk) = {} /\ Carried(pc[h], req[h], loc[h]) \cap Carried(p, r, L) = {}
  BY FlightFacts
<1>4. \A b \in HeldBy(p, r, L) : b \in Block /\ (b \in T \/ {b} \cup BlocksAt(disk, b) \subseteq Carried(p, r, L))
  BY HeldFacts
<1>5. w \notin Carried(p, r, L) /\ \A b \in HeldBy(p, r, L) : w # b /\ w \notin BlocksAt(disk, b)
  BY WritesApart
<1>6. Carried(p, r, L) \subseteq Block
  BY FlightFacts
<1>7. \A b \in Block : b \in OwnedBy(pc[h], loc[h]) => b \notin HeldBy(p, r, L)
  BY LocksExclude
<1> HIDE DEF p, r, L
<1>8. ASSUME NEW b \in HeldBy(p, r, L)
      PROVE  b \notin C /\ e[b] = disk[b] /\ \A k \in BlocksAt(disk, b) : e[k] = disk[k]
  <2>1. b \notin C
    <3>1. CASE C \subseteq Carried(pc[h], req[h], loc[h])
      BY <1>2, <1>3, <1>4, <1>8, <3>1
    <3>2. CASE \E c \in Block : C = {c} /\ c \in OwnedBy(pc[h], loc[h])
      BY <1>7, <1>8, <3>2
    <3>3. QED
      BY <3>1, <3>2 DEF Movable
  <2>2. BlocksAt(disk, b) \subseteq Block /\ b \in Block
    BY <1>1, <1>4, <1>8, ReadInodeFacts
  <2>3. QED
    BY <1>5, <1>8, <2>1, <2>2
<1>9. ASSUME p \in {"step", "target"}
      PROVE  L.target \notin C
  <2>1. 0 \notin C
    BY DEF Apart
  <2>2. CASE p = "target" /\ Names(r) = <<>>
    BY <1>1, <2>1, <2>2, AtTarget
  <2>3. CASE ~(p = "target" /\ Names(r) = <<>>)
    <3>1. L.parent \in T /\ L.target \in Children(disk, L.parent)
      BY <1>1, <1>9, <2>3, AtTarget, AtStep
    <3>2. L.parent \in HeldBy(p, r, L)
      BY <1>9, <2>3, LocksAt DEF HeldBy
    <3>3. L.target \in T
      BY <1>2, <3>1
    <3>4. CASE C \subseteq Carried(pc[h], req[h], loc[h])
      BY <1>2, <1>3, <3>3, <3>4
    <3>5. CASE \E c \in Block : /\ C = {c}
                                /\ loc[h].target \in TreeInodes(disk) /\ loc[h].target \in OwnedBy(pc[h], loc[h])
                                /\ c \in Children(disk, loc[h].target)
      <4>1. SUFFICES ASSUME L.target \in C PROVE FALSE
        OBVIOUS
      <4>2. /\ loc[h].target \in T /\ loc[h].target \in OwnedBy(pc[h], loc[h]) /\ L.target \in Children(disk, loc[h].target)
            /\ L.parent \in Block /\ loc[h].target \in Block
        BY <1>2, <3>1, <3>5, <4>1
      <4>3. PICK s \in Slots(disk, L.parent) : EntryIn(disk, s).inode_block = L.target
        BY <1>1, <3>1, <4>2, EntriesBySlots
      <4>4. PICK u \in Slots(disk, loc[h].target) : EntryIn(disk, u).inode_block = L.target
        BY <1>1, <4>2, EntriesBySlots
      <4>5. L.parent = loc[h].target
        BY <1>1, <3>1, <4>2, <4>3, <4>4 DEF InOrder
      <4>6. QED
        BY <1>7, <3>2, <4>2, <4>5
    <3>6. QED
      BY <3>4, <3>5 DEF Movable
  <2>4. QED
    BY <2>2, <2>3
<1>10. \A b \in Carried(p, r, L) : e[b] = disk[b]
  BY <1>5, <1>6
<1>11. Unaffected(disk, e, C, p, r, L)
  BY <1>8, <1>9, <1>10 DEF Unaffected
<1>12. QED
  BY <1>1, <1>11, Undisturbed DEF p, r, L

-----------------------------------------------------------------------------
(* The ways a step moves locks and blocks *)

\* A step that leaves all locks alone.
LEMMA LocksStill ==
  ASSUME IInv, NEW h \in Handler, UNCHANGED locks, NEW S, NEW O,
         \A b \in Block : b \in S <=> b \in SharedBy(pc[h], req[h], loc[h]),
         \A b \in Block : b \in O <=> b \in OwnedBy(pc[h], loc[h]), S \subseteq Block
  PROVE  /\ readers' \in [Block -> SUBSET Handler] /\ writer' \in [Block -> Handler \cup {NoHandler}]
         /\ LocksMove(h, S, O)
<1>1. /\ readers \in [Block -> SUBSET Handler] /\ writer \in [Block -> Handler \cup {NoHandler}]
      /\ \A b \in Block : /\ h \in readers[b] <=> b \in SharedBy(pc[h], req[h], loc[h])
                          /\ writer[b] = h <=> b \in OwnedBy(pc[h], loc[h])
      /\ \A b \in Block : writer[b] # NoHandler => readers[b] = {}
  BY DEF IInv, LockInv
<1>2. readers' = readers /\ writer' = writer /\ NoHandler \notin Handler
  BY NoHandlerAssumption DEF locks
<1>3. QED
  BY <1>1, <1>2 DEF LocksMove

\* A step that lets go of the locks held exclusively, and of no others.
LEMMA LocksDisowned ==
  ASSUME IInv, NEW h \in Handler, UNCHANGED readers, NEW B, writer' = Disowned(B),
         \A b \in Block : b \notin SharedBy(pc[h], req[h], loc[h]),
         \A b \in Block : b \in B <=> b \in OwnedBy(pc[h], loc[h])
  PROVE  /\ readers' \in [Block -> SUBSET Handler] /\ writer' \in [Block -> Handler \cup {NoHandler}]
         /\ LocksMove(h, {}, {})
<1>1. /\ readers \in [Block -> SUBSET Handler] /\ writer \in [Block -> Handler \cup {NoHandler}]
      /\ \A b \in Block : /\ h \in readers[b] <=> b \in SharedBy(pc[h], req[h], loc[h])
                          /\ writer[b] = h <=> b \in OwnedBy(pc[h], loc[h])
  BY DEF IInv, LockInv
<1>2. writer' = [b \in Block |-> IF b \in B THEN NoHandler ELSE writer[b]]
  BY DEF Disowned
<1>3. QED
  BY <1>1, <1>2 DEF LocksMove

\* A step that lets go of a lock held shared, and of no other.
LEMMA LocksUnshared ==
  ASSUME IInv, NEW h \in Handler, UNCHANGED writer, NEW x \in Block, readers' = Unshared(h, x),
         \A b \in Block : b \in SharedBy(pc[h], req[h], loc[h]) => b = x,
         \A b \in Block : b \notin OwnedBy(pc[h], loc[h])
  PROVE  /\ readers' \in [Block -> SUBSET Handler] /\ writer' \in [Block -> Handler \cup {NoHandler}]
         /\ LocksMove(h, {}, {})
<1>1. /\ readers \in [Block -> SUBSET Handler] /\ writer \in [Block -> Handler \cup {NoHandler}]
      /\ \A b \in Block : /\ h \in readers[b] <=> b \in SharedBy(pc[h], req[h], loc[h])
                          /\ writer[b] = h <=> b \in OwnedBy(pc[h], loc[h])
  BY DEF IInv, LockInv
<1>2. readers' = [readers EXCEPT ![x] = @ \ {h}]
  BY DEF Unshared
<1>3. readers' \in [Block -> SUBSET Handler]
  BY <1>1, <1>2
<1>4. \A b \in Block : readers'[b] = IF b = x THEN readers[b] \ {h} ELSE readers[b]
  BY <1>1, <1>2
<1>5. QED
  BY <1>1, <1>3, <1>4 DEF LocksMove

\* A step that leaves the free list alone.
LEMMA FreeStill ==
  ASSUME IInv, NEW h \in Handler, free_blocks' = free_blocks, NEW K1, K1 \subseteq Block,
         K1 \cap UsedBlocks(disk') = {},
         K1 \cup UsedBlocks(disk') = Carried(pc[h], req[h], loc[h]) \cup UsedBlocks(disk)
  PROVE  BlocksMove(ToSet(free_blocks), Carried(pc[h], req[h], loc[h]), K1)
<1> DEFINE K == Carried(pc[h], req[h], loc[h])
           U == UsedBlocks(disk)
           U1 == UsedBlocks(disk')
           F == ToSet(free_blocks)
<1>1. K \subseteq Block /\ K \cap U = {} /\ K \cap F = {}
  BY FlightFacts
<1>2. free_blocks \in Seq(Block) /\ IsInjective(free_blocks) /\ F \cap U = {}
  BY DEF IInv, BlockInv
<1>3. K1 \cup U1 = K \cup U /\ K1 \cap U1 = {}
  OBVIOUS
<1>4. ToSet(free_blocks') = F /\ free_blocks' \in Seq(Block) /\ IsInjective(free_blocks')
  BY <1>2
<1> HIDE DEF K, U, U1, F
<1>5. F \cap U1 = {} /\ K1 \cap F = {}
  BY <1>1, <1>2, <1>3
<1>6. F \cup U1 \cup K1 = F \cup U \cup K
  BY <1>3
<1>7. QED
  BY <1>3, <1>4, <1>5, <1>6 DEF BlocksMove, K, U, U1, F

\* A step that takes the first block of the free list.
LEMMA FreeTaken ==
  ASSUME IInv, NEW h \in Handler, free_blocks # <<>>, free_blocks' = Tail(free_blocks), disk' = disk, NEW K1,
         K1 = Carried(pc[h], req[h], loc[h]) \cup {Head(free_blocks)}
  PROVE  /\ Head(free_blocks) \in Block \ UsedBlocks(disk)
         /\ Head(free_blocks) \notin Carried(pc[h], req[h], loc[h])
         /\ BlocksMove(ToSet(free_blocks) \ {Head(free_blocks)}, Carried(pc[h], req[h], loc[h]), K1)
<1> DEFINE K == Carried(pc[h], req[h], loc[h])
           U == UsedBlocks(disk)
           F == ToSet(free_blocks)
           x == Head(free_blocks)
<1>1. K \subseteq Block /\ K \cap U = {} /\ K \cap F = {}
  BY FlightFacts
<1>2. free_blocks \in Seq(Block) /\ IsInjective(free_blocks) /\ F \cap U = {}
  BY DEF IInv, BlockInv
<1>3. /\ x \in F /\ F \subseteq Block
      /\ free_blocks' \in Seq(Block) /\ IsInjective(free_blocks') /\ ToSet(free_blocks') = F \ {x}
  BY <1>2, ElementsOfTail, ElementsOfSeq
<1>4. UsedBlocks(disk') = U
  OBVIOUS
<1>5. K1 = K \cup {x}
  OBVIOUS
<1> HIDE DEF K, U, F, x
<1>6. /\ K1 \subseteq Block /\ (F \ {x}) \cap U = {} /\ K1 \cap U = {} /\ K1 \cap (F \ {x}) = {}
      /\ (F \ {x}) \cup U \cup K1 = F \cup U \cup K
      /\ x \in Block \ U /\ x \notin K
  BY <1>1, <1>2, <1>3, <1>5
<1>7. BlocksMove(F \ {x}, K, K1)
  BY <1>3, <1>4, <1>6 DEF BlocksMove, U, F
<1>8. QED
  BY <1>6, <1>7 DEF K, U, F, x

\* A step that puts blocks of the handler's own on the free list.
LEMMA FreeReturned ==
  ASSUME IInv, NEW h \in Handler, NEW s \in Seq(Block), IsInjective(s), free_blocks' = free_blocks \o s,
         disk' = disk, NEW K1, K1 \cap ToSet(s) = {},
         Carried(pc[h], req[h], loc[h]) = K1 \cup ToSet(s)
  PROVE  BlocksMove(ToSet(free_blocks) \cup ToSet(s), Carried(pc[h], req[h], loc[h]), K1)
<1> DEFINE K == Carried(pc[h], req[h], loc[h])
           U == UsedBlocks(disk)
           F == ToSet(free_blocks)
           X == ToSet(s)
<1>1. K \subseteq Block /\ K \cap U = {} /\ K \cap F = {}
  BY FlightFacts
<1>2. free_blocks \in Seq(Block) /\ IsInjective(free_blocks) /\ F \cap U = {}
  BY DEF IInv, BlockInv
<1>3. K = K1 \cup X /\ K1 \cap X = {}
  OBVIOUS
<1>4. F \cap X = {}
  BY <1>1, <1>3
<1>5. free_blocks' \in Seq(Block) /\ IsInjective(free_blocks') /\ ToSet(free_blocks') = F \cup X
  BY <1>2, <1>4, ElementsOfConcat
<1>6. UsedBlocks(disk') = U
  OBVIOUS
<1> HIDE DEF K, U, F, X
<1>7. /\ K1 \subseteq Block /\ (F \cup X) \cap U = {} /\ K1 \cap U = {} /\ K1 \cap (F \cup X) = {}
      /\ (F \cup X) \cup U \cup K1 = F \cup U \cup K
  BY <1>1, <1>2, <1>3
<1>8. QED
  BY <1>5, <1>6, <1>7 DEF BlocksMove, K, U, F, X

\* The same of one block.
LEMMA FreeAppended ==
  ASSUME IInv, NEW h \in Handler, NEW x, free_blocks' = Append(free_blocks, x),
         disk' = disk, NEW K1, x \notin K1,
         Carried(pc[h], req[h], loc[h]) = K1 \cup {x}
  PROVE  BlocksMove(ToSet(free_blocks) \cup {x}, Carried(pc[h], req[h], loc[h]), K1)
<1> DEFINE K == Carried(pc[h], req[h], loc[h])
           U == UsedBlocks(disk)
           F == ToSet(free_blocks)
<1>1. K \subseteq Block /\ K \cap U = {} /\ K \cap F = {}
  BY FlightFacts
<1>2. free_blocks \in Seq(Block) /\ IsInjective(free_blocks) /\ F \cap U = {}
  BY DEF IInv, BlockInv
<1>3. K = K1 \cup {x} /\ x \notin K1
  OBVIOUS
<1>4. x \in Block /\ x \notin F
  BY <1>1, <1>3
<1>5. free_blocks' \in Seq(Block) /\ IsInjective(free_blocks') /\ ToSet(free_blocks') = F \cup {x}
  BY <1>2, <1>4, ElementsOfAppend
<1>6. UsedBlocks(disk') = U
  OBVIOUS
<1> HIDE DEF K, U, F
<1>7. /\ K1 \subseteq Block /\ (F \cup {x}) \cap U = {} /\ K1 \cap U = {} /\ K1 \cap (F \cup {x}) = {}
      /\ (F \cup {x}) \cup U \cup K1 = F \cup U \cup K
  BY <1>1, <1>2, <1>3
<1>8. QED
  BY <1>5, <1>6, <1>7 DEF BlocksMove, K, U, F

\* What the client will learn is decided before the clean-up starts.
Decides(h, p) ==
  \/ outcome' = outcome /\ (p \in Decided => pc[h] \in Decided)
  \/ \E o \in Answered : outcome' = [outcome EXCEPT ![h] = o]

\* In both cases the outcome is known once the label says that it is.
LEMMA OutcomeDecided ==
  ASSUME IInv, NEW h \in Handler, NEW p, Decides(h, p)
  PROVE  \E o \in Answered \cup {"none"} : outcome' = [outcome EXCEPT ![h] = o] /\ (p \in Decided => o # "none")
<1>1. VariableTypes
  BY DEF IInv
<1>2. CASE outcome' = outcome /\ (p \in Decided => pc[h] \in Decided)
  <2>1. outcome \in [Handler -> Answered \cup {"none"}] /\ (pc[h] \in Decided => outcome[h] # "none")
    BY <1>1 DEF VariableTypes
  <2>2. outcome' = [outcome EXCEPT ![h] = outcome[h]] /\ outcome[h] \in Answered \cup {"none"}
    BY <1>2, <2>1
  <2>3. QED
    BY <1>2, <2>1, <2>2
<1>3. CASE \E o \in Answered : outcome' = [outcome EXCEPT ![h] = o]
  <2>1. "none" \notin Answered
    BY AnswerAssumption DEF Answered
  <2>2. QED
    BY <1>3, <2>1
<1>4. QED
  BY <1>2, <1>3 DEF Decides

\* What a handler's step needs to keep the invariant when it writes nothing.
LEMMA QuietMoves ==
  ASSUME IInv, NEW h \in Handler, NEW p, NEW r, NEW L, Moves(h, p, r, L),
         disk' = disk, HandlerOK(disk, p, r, L),
         readers' \in [Block -> SUBSET Handler], writer' \in [Block -> Handler \cup {NoHandler}],
         LocksMove(h, SharedBy(p, r, L), OwnedBy(p, L)),
         NEW F1, BlocksMove(F1, Carried(pc[h], req[h], loc[h]), Carried(p, r, L)),
         Decides(h, p), UNCHANGED <<received, crashes>>
  PROVE  IInv'
<1>1. VariableTypes
  BY DEF IInv
<1>2. PICK o \in Answered \cup {"none"} : outcome' = [outcome EXCEPT ![h] = o] /\ (p \in Decided => o # "none")
  BY OutcomeDecided
<1>3. disk' \in [Block -> Content] /\ InOrder(disk') /\ HandlerOK(disk', p, r, L)
  BY DEF IInv, VariableTypes
<1>4. \A g \in Handler \ {h} : HandlerOK(disk', pc[g], req[g], loc[g])
  BY DEF IInv
<1>5. received' \in 0 .. MaxRequests /\ crashes' \in 0 .. MaxCrashes
  BY <1>1 DEF VariableTypes
<1>6. QED
  BY <1>2, <1>3, <1>4, <1>5, OneMoves

\* And when it writes a block: what it writes is its own, and leaves the tree in order.
LEMMA WritingMoves ==
  ASSUME IInv, NEW h \in Handler, NEW p, NEW r, NEW L, Moves(h, p, r, L),
         NEW w \in Writable(h), NEW c \in Content, disk' = [disk EXCEPT ![w] = c],
         NEW C, Movable(h, C), Apart(disk, disk', C), InOrder(disk'), HandlerOK(disk', p, r, L),
         readers' \in [Block -> SUBSET Handler], writer' \in [Block -> Handler \cup {NoHandler}],
         LocksMove(h, SharedBy(p, r, L), OwnedBy(p, L)),
         free_blocks' = free_blocks, Carried(p, r, L) \subseteq Block,
         Carried(p, r, L) \cap UsedBlocks(disk') = {},
         Carried(p, r, L) \cup UsedBlocks(disk') = Carried(pc[h], req[h], loc[h]) \cup UsedBlocks(disk),
         Decides(h, p), UNCHANGED <<received, crashes>>
  PROVE  IInv'
<1>1. VariableTypes
  BY DEF IInv
<1>2. PICK o \in Answered \cup {"none"} : outcome' = [outcome EXCEPT ![h] = o] /\ (p \in Decided => o # "none")
  BY OutcomeDecided
<1>3. disk' \in [Block -> Content] /\ \A b \in Block \ {w} : disk'[b] = disk[b]
  <2>1. disk \in [Block -> Content] /\ w \in Block
    BY <1>1 DEF VariableTypes, Writable
  <2>2. QED
    BY <2>1
<1>4. \A g \in Handler \ {h} : HandlerOK(disk', pc[g], req[g], loc[g])
  BY <1>3, OthersUndisturbed
<1>5. received' \in 0 .. MaxRequests /\ crashes' \in 0 .. MaxCrashes
  BY <1>1 DEF VariableTypes
<1>6. BlocksMove(ToSet(free_blocks), Carried(pc[h], req[h], loc[h]), Carried(p, r, L))
  BY FreeStill
<1>7. QED
  BY <1>2, <1>3, <1>4, <1>5, <1>6, OneMoves

-----------------------------------------------------------------------------
(* The steps, one by one: receiving, reserving, answering *)

\* What the invariant says of one handler.
LEMMA Here ==
  ASSUME IInv, NEW h \in Handler
  PROVE  /\ HandlerOK(disk, pc[h], req[h], loc[h])
         /\ disk \in [Block -> Content] /\ InOrder(disk)
         /\ pc \in [Handler -> Labels] /\ req \in [Handler -> Request \cup {NoReq}] /\ loc \in [Handler -> LocalTypes]
         /\ outcome \in [Handler -> Answered \cup {"none"}]
BY DEF IInv, VariableTypes

\* Most steps keep the request, and change one label.
LEMMA MovesOn ==
  ASSUME IInv, NEW h \in Handler, NEW p, Goto(h, p), req' = req, NEW L,
         loc' = [loc EXCEPT ![h] = L] \/ (loc' = loc /\ L = loc[h])
  PROVE  Moves(h, p, req[h], L)
<1>1. req' = [req EXCEPT ![h] = req[h]] /\ loc' = [loc EXCEPT ![h] = L]
  BY Here
<1>2. QED
  BY <1>1 DEF Moves, Goto

\* The blocks in flight while nothing has been allocated for good, and at the end.
LEMMA CarriedPlain ==
  ASSUME NEW r \in Request, NEW L, NEW p, ~L.grown, p \notin {"reserve", "reply", "free_entries", "free"}
  PROVE  Carried(p, r, L) = IF r.op = "create" THEN {L.reserved} ELSE {}
<1>1. CASE r.op = "create"
  BY <1>1, CarriedAt
<1>2. CASE r.op = "delete"
  BY <1>2, CarriedAt
<1>3. CASE r.op = "read"
  BY <1>3, CarriedAt
<1>4. CASE r.op = "write"
  BY <1>4, CarriedAt
<1>5. QED
  BY <1>1, <1>2, <1>3, <1>4, RequestFacts

\* A request that is answered has no blocks in flight.
LEMMA CarriedDone ==
  ASSUME NEW r \in Request, NEW L
  PROVE  Carried("reply", r, L) = {}
<1>1. CASE r.op = "create"
  BY <1>1, CarriedAt
<1>2. CASE r.op = "delete"
  BY <1>2, CarriedAt
<1>3. CASE r.op = "read"
  BY <1>3, CarriedAt
<1>4. CASE r.op = "write"
  BY <1>4, CarriedAt
<1>5. QED
  BY <1>1, <1>2, <1>3, <1>4, RequestFacts

\* Receive(h, r)
LEMMA ReceiveKept ==
  ASSUME IInv, NEW h \in Handler, NEW r \in Request, Receive(h, r)
  PROVE  IInv'
<1> DEFINE p == IF r.op = "create" THEN "reserve" ELSE "root"
<1>1. pc[h] = "idle" /\ req[h] = NoReq /\ loc[h] = Locals0
  BY Here, AtIdle DEF Receive
<1>2. Moves(h, p, r, Locals0) /\ disk' = disk /\ free_blocks' = free_blocks
  <2>1. loc' = [loc EXCEPT ![h] = Locals0]
    BY <1>1, Here DEF Receive
  <2>2. QED
    BY <2>1 DEF Moves, Receive, Goto
<1>3. HandlerOK(disk, p, r, Locals0)
  <2>1. Locals0 = [Locals0 EXCEPT !.reserved = Locals0.reserved]
    BY DEF Locals0
  <2>2. CASE r.op = "create"
    BY <2>2, AtReserve
  <2>3. CASE r.op # "create"
    BY <2>1, <2>3, FreshLocals, AtRoot
  <2>4. QED
    BY <2>2, <2>3
<1>4. /\ SharedBy(p, r, Locals0) = {} /\ OwnedBy(p, Locals0) = {}
      /\ SharedBy(pc[h], req[h], loc[h]) = {} /\ OwnedBy(pc[h], loc[h]) = {}
  <2>1. p \in {"idle", "reserve", "root", "return_block", "free", "reply"}
    OBVIOUS
  <2>2. QED
    BY <1>1, <2>1, LocksAt
<1>5. Carried(pc[h], req[h], loc[h]) = {} /\ Carried(p, r, Locals0) = {}
  <2>1. Carried(pc[h], req[h], loc[h]) = {}
    <3>1. \A q, L : Carried(q, NoReq, L) = {}
      BY DEF Carried, NoReq
    <3>2. QED
      BY <1>1, <3>1
  <2>2. r.op = "create" => Carried("reserve", r, Locals0) = {}
    BY CarriedAt, FreshLocals
  <2>3. r.op # "create" => Carried("root", r, Locals0) = {}
    BY CarriedPlain, FreshLocals
  <2>4. QED
    BY <2>1, <2>2, <2>3
<1> HIDE DEF p
<1>6. /\ readers' \in [Block -> SUBSET Handler] /\ writer' \in [Block -> Handler \cup {NoHandler}]
      /\ LocksMove(h, SharedBy(p, r, Locals0), OwnedBy(p, Locals0))
  <2>1. UNCHANGED locks
    BY DEF Receive
  <2>2. QED
    BY <1>4, <2>1, LocksStill
<1>7. BlocksMove(ToSet(free_blocks), Carried(pc[h], req[h], loc[h]), Carried(p, r, Locals0))
  <2>1. UsedBlocks(disk') = UsedBlocks(disk)
    BY <1>2
  <2>2. QED
    BY <1>2, <1>5, <2>1, FreeStill
<1>8. disk' \in [Block -> Content] /\ InOrder(disk') /\ HandlerOK(disk', p, r, Locals0)
      /\ \A g \in Handler \ {h} : HandlerOK(disk', pc[g], req[g], loc[g])
  BY <1>2, <1>3, Here
<1>9. outcome[h] \in Answered \cup {"none"} /\ outcome' = [outcome EXCEPT ![h] = outcome[h]]
  BY Here DEF Receive
<1>10. p \notin Decided
  BY DEF p, Decided
<1>11. received' \in 0 .. MaxRequests /\ crashes' \in 0 .. MaxCrashes
  BY BoundsAssumption DEF IInv, VariableTypes, Receive
<1>12. QED
  BY <1>2, <1>6, <1>7, <1>8, <1>9, <1>10, <1>11, OneMoves

\* Reply(h)
LEMMA ReplyKept ==
  ASSUME IInv, NEW h \in Handler, Reply(h)
  PROVE  IInv'
<1>1. pc[h] = "reply" /\ req[h] \in Request
  BY Here, AtReply DEF Reply
<1>2. Moves(h, "idle", NoReq, Locals0) /\ disk' = disk /\ free_blocks' = free_blocks
  BY DEF Moves, Reply, Goto
<1>3. HandlerOK(disk, "idle", NoReq, Locals0)
  BY AtIdle
<1>4. /\ SharedBy("idle", NoReq, Locals0) = {} /\ OwnedBy("idle", Locals0) = {}
      /\ SharedBy(pc[h], req[h], loc[h]) = {} /\ OwnedBy(pc[h], loc[h]) = {}
  <2>1. SharedBy("idle", NoReq, Locals0) = {} /\ OwnedBy("idle", Locals0) = {}
    BY LocksAt
  <2>2. SharedBy("reply", req[h], loc[h]) = {} /\ OwnedBy("reply", loc[h]) = {}
    BY LocksAt
  <2>3. QED
    BY <1>1, <2>1, <2>2
<1>5. Carried(pc[h], req[h], loc[h]) = {} /\ Carried("idle", NoReq, Locals0) = {}
  <2>1. \A q, L : Carried(q, NoReq, L) = {}
    BY DEF Carried, NoReq
  <2>2. QED
    BY <1>1, <2>1, CarriedDone
<1>6. /\ readers' \in [Block -> SUBSET Handler] /\ writer' \in [Block -> Handler \cup {NoHandler}]
      /\ LocksMove(h, SharedBy("idle", NoReq, Locals0), OwnedBy("idle", Locals0))
  <2>1. UNCHANGED locks
    BY DEF Reply
  <2>2. QED
    BY <1>4, <2>1, LocksStill
<1>7. BlocksMove(ToSet(free_blocks), Carried(pc[h], req[h], loc[h]), Carried("idle", NoReq, Locals0))
  <2>1. UsedBlocks(disk') = UsedBlocks(disk)
    BY <1>2
  <2>2. QED
    BY <1>2, <1>5, <2>1, FreeStill
<1>8. disk' \in [Block -> Content] /\ InOrder(disk') /\ HandlerOK(disk', "idle", NoReq, Locals0)
      /\ \A g \in Handler \ {h} : HandlerOK(disk', pc[g], req[g], loc[g])
  BY <1>2, <1>3, Here
<1>9. outcome' = [outcome EXCEPT ![h] = "none"] /\ "idle" \notin Decided
  BY DEF Reply, Decided
<1>10. received' \in 0 .. MaxRequests /\ crashes' \in 0 .. MaxCrashes
  BY DEF IInv, VariableTypes, Reply
<1>11. QED
  BY <1>2, <1>6, <1>7, <1>8, <1>9, <1>10, OneMoves

\* A step that only goes on, or whose request fails, with nothing locked or allocated by it.
LEMMA StillMoves ==
  ASSUME IInv, NEW h \in Handler, NEW p, NEW L, Moves(h, p, req[h], L),
         disk' = disk, free_blocks' = free_blocks, UNCHANGED <<received, crashes>>,
         HandlerOK(disk, p, req[h], L), Decides(h, p),
         readers' \in [Block -> SUBSET Handler], writer' \in [Block -> Handler \cup {NoHandler}],
         LocksMove(h, SharedBy(p, req[h], L), OwnedBy(p, L)),
         Carried(p, req[h], L) = Carried(pc[h], req[h], loc[h])
  PROVE  IInv'
<1>1. BlocksMove(ToSet(free_blocks), Carried(pc[h], req[h], loc[h]), Carried(p, req[h], L))
  <2>1. UsedBlocks(disk') = UsedBlocks(disk)
    OBVIOUS
  <2>2. Carried(pc[h], req[h], loc[h]) \subseteq Block /\ Carried(pc[h], req[h], loc[h]) \cap UsedBlocks(disk) = {}
    BY FlightFacts
  <2>3. QED
    BY <2>1, <2>2, FreeStill
<1>2. QED
  BY <1>1, QuietMoves

\* Reserve(h)
LEMMA ReserveKept ==
  ASSUME IInv, NEW h \in Handler, Reserve(h)
  PROVE  IInv'
<1> DEFINE r == req[h]
           L == [Locals0 EXCEPT !.reserved = Head(free_blocks)]
<1>1. pc[h] = "reserve" /\ r \in Request /\ r.op = "create" /\ loc[h] = Locals0
  BY Here, AtReserve DEF Reserve
<1>2. disk' = disk /\ UNCHANGED locks /\ UNCHANGED <<received, crashes>> /\ req' = req
  BY DEF Reserve
<1>3. /\ SharedBy("reply", r, loc[h]) = {} /\ OwnedBy("reply", loc[h]) = {}
      /\ SharedBy("root", r, L) = {} /\ OwnedBy("root", L) = {}
      /\ SharedBy(pc[h], r, loc[h]) = {} /\ OwnedBy(pc[h], loc[h]) = {}
  BY <1>1, LocksAt
<1>4. /\ readers' \in [Block -> SUBSET Handler] /\ writer' \in [Block -> Handler \cup {NoHandler}]
      /\ LocksMove(h, {}, {})
  BY <1>2, <1>3, LocksStill
<1>5. Carried(pc[h], r, loc[h]) = {}
  BY <1>1, CarriedAt, FreshLocals
<1>6. CASE free_blocks = <<>>
  <2>1. Goto(h, "reply") /\ outcome' = [outcome EXCEPT ![h] = "failed"] /\ loc' = loc /\ free_blocks' = free_blocks
    BY <1>6 DEF Reserve, Fail
  <2>2. Moves(h, "reply", r, loc[h]) /\ Decides(h, "reply")
    <3>1. "failed" \in Answered
      BY DEF Answered
    <3>2. QED
      BY <1>2, <2>1, <3>1, MovesOn DEF Decides
  <2>3. HandlerOK(disk, "reply", r, loc[h])
    BY <1>1, FreshLocals, AtReply
  <2>4. Carried("reply", r, loc[h]) = {}
    BY <1>1, CarriedDone
  <2>5. QED
    BY <1>2, <1>3, <1>4, <1>5, <2>1, <2>2, <2>3, <2>4, StillMoves
<1>7. CASE free_blocks # <<>>
  <2>1. /\ Goto(h, "root") /\ outcome' = outcome /\ loc' = [loc EXCEPT ![h] = L] /\ free_blocks' = Tail(free_blocks)
    BY <1>1, <1>7, Here DEF Reserve
  <2>2. Moves(h, "root", r, L) /\ Decides(h, "root")
    BY <1>2, <2>1, MovesOn DEF Decides, Decided
  <2>3. L.reserved = Head(free_blocks) /\ L = [Locals0 EXCEPT !.reserved = L.reserved] /\ ~L.grown
    BY FreshLocals DEF Locals0
  <2> HIDE DEF L
  <2>4. Carried("root", r, L) = Carried(pc[h], r, loc[h]) \cup {Head(free_blocks)}
    BY <1>1, <1>5, <2>3, CarriedPlain
  <2>5. /\ Head(free_blocks) \in Block
        /\ BlocksMove(ToSet(free_blocks) \ {Head(free_blocks)}, Carried(pc[h], r, loc[h]), Carried("root", r, L))
    BY <1>2, <1>7, <2>1, <2>4, FreeTaken
  <2>6. L \in LocalTypes
    BY <2>3, <2>5, FreshLocals
  <2>7. HandlerOK(disk, "root", r, L)
    BY <1>1, <2>3, <2>6, AtRoot
  <2>8. QED
    BY <1>2, <1>3, <1>4, <2>2, <2>5, <2>7, QuietMoves
<1>8. QED
  BY <1>6, <1>7

\* ReturnBlock(h)
LEMMA ReturnBlockKept ==
  ASSUME IInv, NEW h \in Handler, ReturnBlock(h)
  PROVE  IInv'
<1> DEFINE r == req[h]
           L == loc[h]
<1>1. pc[h] \in {"return_block", "return_locked"} /\ r \in Request /\ r.op = "create" /\ L \in LocalTypes /\ ~L.grown
  BY Here, AtReturnBlock, AtReturnLocked DEF ReturnBlock
<1>2. /\ disk' = disk /\ UNCHANGED readers /\ UNCHANGED <<received, crashes>> /\ req' = req /\ loc' = loc
      /\ outcome' = outcome /\ free_blocks' = Append(free_blocks, L.reserved) /\ Goto(h, "reply")
  BY DEF ReturnBlock
<1>3. Moves(h, "reply", r, L) /\ Decides(h, "reply")
  BY <1>1, <1>2, MovesOn DEF Decides, Decided
<1>4. HandlerOK(disk, "reply", r, L)
  BY <1>1, AtReply
<1>5. SharedBy("reply", r, L) = {} /\ OwnedBy("reply", L) = {}
  BY LocksAt
<1>6. /\ readers' \in [Block -> SUBSET Handler] /\ writer' \in [Block -> Handler \cup {NoHandler}]
      /\ LocksMove(h, {}, {})
  <2>1. CASE pc[h] = "return_block"
    <3>1. SharedBy(pc[h], r, L) = {} /\ OwnedBy(pc[h], L) = {} /\ writer' = writer
      BY <2>1, LocksAt DEF ReturnBlock
    <3>2. QED
      BY <1>2, <3>1, LocksStill DEF locks
  <2>2. CASE pc[h] = "return_locked"
    <3>1. writer' = Disowned({L.target})
      BY <2>2 DEF ReturnBlock
    <3>2. "return_locked" \in (Creating \cup Deleting \cup Writing) \ {"clear", "shrink", "free_entries"}
      BY DEF Creating
    <3>3. SharedBy(pc[h], r, L) = {} /\ OwnedBy(pc[h], L) = {L.target}
      BY <2>2, <3>2, LocksAt
    <3>4. QED
      BY <1>2, <3>1, <3>3, LocksDisowned
  <2>3. QED
    BY <1>1, <2>1, <2>2
<1>7. Carried(pc[h], r, L) = {L.reserved} /\ Carried("reply", r, L) = {}
  BY <1>1, CarriedPlain, CarriedDone
<1>8. BlocksMove(ToSet(free_blocks) \cup {L.reserved}, Carried(pc[h], r, L), Carried("reply", r, L))
  BY <1>2, <1>7, FreeAppended
<1>9. QED
  BY <1>2, <1>3, <1>4, <1>5, <1>6, <1>8, QuietMoves

-----------------------------------------------------------------------------
(* traverse_dir *)

\* What check_existance finds, and what it means that it finds nothing.
LEMMA NamedFacts ==
  ASSUME NEW d \in [Block -> Content], InOrder(d), NEW b \in TreeInodes(d), NEW x
  PROVE  /\ \A p \in Named(d, ReadInode(d, b), x) :
              /\ TypeAt(d, b) = "d"
              /\ p[1] \in 1 .. Len(ReadInode(d, b).blocks) /\ p[2] \in 1 .. DirEntries /\ p = <<p[1], p[2]>>
              /\ SlotOf(d, b, p) \in Slots(d, b)
              /\ EntryIn(d, SlotOf(d, b, p)) = EntryAt(d, ReadInode(d, b), p)
              /\ EntryAt(d, ReadInode(d, b), p).name = x
              /\ EntryAt(d, ReadInode(d, b), p).inode_block \in Children(d, b)
              /\ EntryAt(d, ReadInode(d, b), p).inode_block \in Block \ {0}
              /\ EntryAt(d, ReadInode(d, b), p).inode_block \in TreeInodes(d)
              /\ Linked(d, b, x, EntryAt(d, ReadInode(d, b), p).inode_block)
         /\ TypeAt(d, b) = "d" /\ Named(d, ReadInode(d, b), x) = {} =>
              \A s \in Slots(d, b) : EntryIn(d, s).name # x
<1> DEFINE inode == ReadInode(d, b)
<1>1. b \in Block /\ Children(d, b) \subseteq TreeInodes(d)
  BY TreeClosed
<1>2. TypeAt(d, b) \in {"f", "d"} /\ \A k \in BlocksAt(d, b) : d[k].kind = IF TypeAt(d, b) = "d" THEN "entries" ELSE "data"
  BY DEF InOrder
<1>3. \A p : p \in Named(d, inode, x) <=> p \in Places(d, inode) /\ EntryAt(d, inode, p).name = x
  BY DEF Named
<1>4. ASSUME NEW p \in Places(d, inode)
      PROVE  TypeAt(d, b) = "d"
  <2>1. p[1] \in 1 .. Len(inode.blocks) /\ p[2] \in 1 .. DirEntries /\ ReadEntries(d, inode.blocks[p[1]])[p[2]].inode_block # 0
    BY <1>4 DEF Places
  <2>2. inode.blocks[p[1]] \in BlocksAt(d, b)
    BY <1>1, <2>1, ReadInodeFacts
  <2>3. d[inode.blocks[p[1]]].kind = "entries"
    BY <2>1, <2>2 DEF ReadEntries, Unused
  <2>4. QED
    BY <1>2, <2>2, <2>3
<1> HIDE DEF inode
<1>5. ASSUME NEW p \in Named(d, inode, x)
      PROVE  /\ TypeAt(d, b) = "d"
             /\ p[1] \in 1 .. Len(inode.blocks) /\ p[2] \in 1 .. DirEntries /\ p = <<p[1], p[2]>>
             /\ SlotOf(d, b, p) \in Slots(d, b)
             /\ EntryIn(d, SlotOf(d, b, p)) = EntryAt(d, inode, p)
             /\ EntryAt(d, inode, p).name = x
             /\ EntryAt(d, inode, p).inode_block \in Children(d, b)
             /\ EntryAt(d, inode, p).inode_block \in Block \ {0}
             /\ EntryAt(d, inode, p).inode_block \in TreeInodes(d)
             /\ Linked(d, b, x, EntryAt(d, inode, p).inode_block)
  <2>1. p \in Places(d, inode) /\ EntryAt(d, inode, p).name = x
    BY <1>3, <1>5
  <2>2. TypeAt(d, b) = "d"
    BY <1>4, <2>1
  <2>3. /\ p \in (1 .. Len(inode.blocks)) \X (1 .. DirEntries)
        /\ SlotOf(d, b, p) \in Slots(d, b)
        /\ EntryIn(d, SlotOf(d, b, p)) = EntryAt(d, inode, p)
    BY <1>1, <2>1, <2>2, PlaceFacts DEF inode
  <2>4. EntryAt(d, inode, p).inode_block \in Children(d, b)
    BY <1>1, <2>3, EntriesBySlots
  <2>5. EntryAt(d, inode, p).inode_block \in Block \ {0}
    BY <1>1, <2>4, EntriesBySlots
  <2>6. Linked(d, b, x, EntryAt(d, inode, p).inode_block)
    BY <2>1, <2>3 DEF Linked
  <2>7. QED
    BY <1>1, <2>1, <2>2, <2>3, <2>4, <2>5, <2>6
<1>6. ASSUME TypeAt(d, b) = "d", Named(d, inode, x) = {}, NEW s \in Slots(d, b)
      PROVE  EntryIn(d, s).name # x
  <2>1. PICK p \in Places(d, inode) : s = SlotOf(d, b, p)
    BY <1>1, <1>6, PlaceFacts DEF inode
  <2>2. EntryIn(d, SlotOf(d, b, p)) = EntryAt(d, inode, p)
    BY <1>1, <1>6, <2>1, PlaceFacts DEF inode
  <2>3. p \notin Named(d, inode, x)
    BY <1>6
  <2>4. QED
    BY <1>3, <2>1, <2>2, <2>3
<1>7. QED
  BY <1>5, <1>6 DEF inode

\* A path that leads to b leads on to what b names next.
Leads(d, q, n, b) == n \in 0 .. Len(q) /\ Resolve(d, SubSeq(q, 1, n)) = {b}

\* A path leads on by one name, to the inode of an entry that has it.
LEMMA LeadsOn ==
  ASSUME NEW d \in [Block -> Content], InOrder(d), NEW q \in Seq(Name), NEW n, n < Len(q),
         NEW b, Leads(d, q, n, b), NEW c \in Block, Linked(d, b, q[n + 1], c)
  PROVE  Leads(d, q, n + 1, c)
<1>1. Len(q) \in Nat /\ n \in 0 .. Len(q) /\ Resolve(d, SubSeq(q, 1, n)) = {b}
  BY DEF Leads
<1>2. n + 1 \in 1 .. Len(q) /\ n + 1 \in 0 .. Len(q) /\ (n + 1) - 1 = n
  BY <1>1
<1>3. Resolve(d, SubSeq(q, 1, n + 1)) = StepOf(d, Resolve(d, SubSeq(q, 1, n)), q[n + 1])
  BY <1>2, ResolveStep
<1>4. c \in Resolve(d, SubSeq(q, 1, n + 1))
  BY <1>1, <1>3 DEF StepOf
<1>5. \A x, y \in Resolve(d, SubSeq(q, 1, n + 1)) : x = y
  BY <1>2, ResolveFacts
<1>6. QED
  BY <1>2, <1>4, <1>5 DEF Leads

\* Where no path goes yet.
LEMMA LeadsToRoot ==
  ASSUME NEW d \in [Block -> Content], NEW q \in Seq(Name)
  PROVE  Resolve(d, SubSeq(q, 1, 0)) = {0}
BY ResolveStep

\* TraverseRoot(h)
LEMMA TraverseRootKept ==
  ASSUME IInv, NEW h \in Handler, TraverseRoot(h)
  PROVE  IInv'
<1> DEFINE r == req[h]
           L == loc[h]
<1>1. pc[h] = "root" /\ r \in Request /\ L \in LocalTypes /\ L = [Locals0 EXCEPT !.reserved = L.reserved]
  BY Here, AtRoot DEF TraverseRoot
<1>2. /\ disk' = disk /\ free_blocks' = free_blocks /\ writer' = writer /\ req' = req /\ outcome' = outcome
      /\ UNCHANGED <<received, crashes>>
  BY DEF TraverseRoot
<1>3. ~L.grown /\ L.target = 0 /\ L.parent = 0 /\ L.depth = 0
  BY <1>1 DEF Locals0
<1>4. Names(r) \in Seq(Name) /\ Len(Names(r)) \in Nat /\ Resolve(disk, SubSeq(Names(r), 1, 0)) = {0}
  BY <1>1, RequestFacts, Here, LeadsToRoot
<1>5. SharedBy(pc[h], r, L) = {} /\ OwnedBy(pc[h], L) = {}
  BY <1>1, LocksAt
<1>6. CASE Names(r) = <<>>
  <2>1. Goto(h, "target") /\ readers' = readers /\ loc' = loc
    BY <1>6 DEF TraverseRoot
  <2>2. Moves(h, "target", r, L) /\ Decides(h, "target")
    BY <1>2, <2>1, MovesOn DEF Decides, Decided
  <2>3. HandlerOK(disk, "target", r, L)
    BY <1>1, <1>3, <1>4, <1>6, AtTarget
  <2>4. SharedBy("target", r, L) = {} /\ OwnedBy("target", L) = {}
    BY <1>6, LocksAt
  <2>5. /\ readers' \in [Block -> SUBSET Handler] /\ writer' \in [Block -> Handler \cup {NoHandler}]
        /\ LocksMove(h, {}, {})
    BY <1>2, <1>5, <2>1, LocksStill DEF locks
  <2>6. Carried("target", r, L) = Carried(pc[h], r, L)
    BY <1>1, <1>3, CarriedPlain
  <2>7. QED
    BY <1>2, <2>2, <2>3, <2>4, <2>5, <2>6, StillMoves
<1>7. CASE Names(r) # <<>>
  <2> DEFINE L1 == [L EXCEPT !.inode = ReadInode(disk, 0)]
  <2>1. /\ Goto(h, "look") /\ readers' = [readers EXCEPT ![0] = @ \cup {h}] /\ loc' = [loc EXCEPT ![h] = L1]
        /\ writer[0] = NoHandler
    BY <1>7, Here DEF TraverseRoot, CanShare
  <2>2. Moves(h, "look", r, L1) /\ Decides(h, "look")
    BY <1>2, <2>1, MovesOn DEF Decides, Decided
  <2>3. 0 \in Block /\ ReadInode(disk, 0) \in AnyInode
    BY Here, SizesAssumption, ReadInodeFacts DEF Block
  <2>4. L1 \in LocalTypes /\ ~L1.grown /\ L1.depth = 0 /\ L1.parent = 0 /\ L1.inode = ReadInode(disk, 0) /\ L1.reserved = L.reserved
    BY <1>1, <1>3, <2>3 DEF LocalTypes
  <2> HIDE DEF L1
  <2>5. 0 < Len(Names(r)) /\ 0 \in 0 .. Len(Names(r))
    BY <1>4, <1>7
  <2>6. HandlerOK(disk, "look", r, L1)
    BY <1>1, <1>4, <2>4, <2>5, AtLook
  <2>7. SharedBy("look", r, L1) = {0} /\ OwnedBy("look", L1) = {}
    BY <2>4, LocksAt
  <2>8. /\ readers' \in [Block -> SUBSET Handler] /\ writer' \in [Block -> Handler \cup {NoHandler}]
        /\ LocksMove(h, {0}, {})
    <3>1. /\ readers \in [Block -> SUBSET Handler] /\ writer \in [Block -> Handler \cup {NoHandler}]
          /\ \A b \in Block : h \notin readers[b] /\ writer[b] # h
      BY <1>5 DEF IInv, LockInv
    <3>2. readers' \in [Block -> SUBSET Handler] /\ \A b \in Block : readers'[b] = IF b = 0 THEN readers[b] \cup {h} ELSE readers[b]
      BY <2>1, <2>3, <3>1
    <3>3. QED
      BY <1>2, <2>1, <3>1, <3>2 DEF LocksMove
  <2>9. Carried("look", r, L1) = Carried(pc[h], r, L)
    <3>1. Carried("look", r, L1) = IF r.op = "create" THEN {L1.reserved} ELSE {}
      BY <1>1, <2>4, CarriedPlain
    <3>2. Carried("root", r, L) = IF r.op = "create" THEN {L.reserved} ELSE {}
      BY <1>1, <1>3, CarriedPlain
    <3>3. QED
      BY <1>1, <2>4, <3>1, <3>2
  <2>10. QED
    BY <1>2, <2>2, <2>6, <2>7, <2>8, <2>9, StillMoves
<1>8. QED
  BY <1>6, <1>7

\* Abandon(h, dir)
LEMMA AbandonKept ==
  ASSUME IInv, NEW h \in Handler, pc[h] \in {"look", "step"}, Abandon(h, loc[h].parent),
         UNCHANGED <<disk, free_blocks, writer, req, loc, received, crashes>>
  PROVE  IInv'
<1> DEFINE r == req[h]
           L == loc[h]
           p == IF r.op = "create" THEN "return_block" ELSE "reply"
<1>1. r \in Request /\ L \in LocalTypes /\ ~L.grown /\ L.parent \in Block
  BY Here, AtLook, AtStep DEF LocalTypes
<1>2. Goto(h, p) /\ outcome' = [outcome EXCEPT ![h] = "failed"] /\ readers' = Unshared(h, L.parent)
  BY DEF Abandon, Fail
<1>3. Moves(h, p, r, L) /\ Decides(h, p)
  <2>1. "failed" \in Answered
    BY DEF Answered
  <2>2. QED
    BY <1>2, <2>1, MovesOn DEF Decides
<1>4. HandlerOK(disk, p, r, L)
  BY <1>1, AtReturnBlock, AtReply
<1>5. SharedBy(p, r, L) = {} /\ OwnedBy(p, L) = {}
  BY LocksAt
<1>6. /\ readers' \in [Block -> SUBSET Handler] /\ writer' \in [Block -> Handler \cup {NoHandler}]
      /\ LocksMove(h, {}, {})
  <2>1. SharedBy(pc[h], r, L) = {L.parent} /\ OwnedBy(pc[h], L) = {}
    BY LocksAt
  <2>2. QED
    BY <1>1, <1>2, <2>1, LocksUnshared
<1>7. Carried(p, r, L) = Carried(pc[h], r, L)
  <2>1. Carried(pc[h], r, L) = IF r.op = "create" THEN {L.reserved} ELSE {}
    BY <1>1, CarriedPlain
  <2>2. r.op = "create" => Carried("return_block", r, L) = {L.reserved}
    BY <1>1, CarriedPlain
  <2>3. Carried("reply", r, L) = {}
    BY <1>1, CarriedDone
  <2>4. QED
    BY <2>1, <2>2, <2>3
<1>8. QED
  BY <1>3, <1>4, <1>5, <1>6, <1>7, StillMoves

\* Blocks in flight remain the same while none is reserved or let go of.
LEMMA CarriedSame ==
  ASSUME NEW r \in Request, NEW L, NEW M, ~L.grown, ~M.grown, M.reserved = L.reserved,
         NEW p, NEW q, p \notin {"reserve", "reply", "free_entries", "free"},
         q \notin {"reserve", "reply", "free_entries", "free"}
  PROVE  Carried(q, r, M) = Carried(p, r, L)
<1>1. Carried(p, r, L) = IF r.op = "create" THEN {L.reserved} ELSE {}
  BY CarriedPlain
<1>2. Carried(q, r, M) = IF r.op = "create" THEN {M.reserved} ELSE {}
  BY CarriedPlain
<1>3. QED
  BY <1>1, <1>2

\* TraverseLook(h)
LEMMA TraverseLookKept ==
  ASSUME IInv, NEW h \in Handler, TraverseLook(h)
  PROVE  IInv'
<1> DEFINE r == req[h]
           L == loc[h]
           x == Names(r)[L.depth + 1]
           found == Named(disk, L.inode, x)
<1>1. /\ pc[h] = "look" /\ r \in Request /\ L \in LocalTypes /\ ~L.grown
      /\ L.depth \in 0 .. Len(Names(r)) /\ L.depth < Len(Names(r))
      /\ Resolve(disk, SubSeq(Names(r), 1, L.depth)) = {L.parent}
      /\ L.inode = ReadInode(disk, L.parent)
  <2>1. pc[h] = "look"
    BY DEF TraverseLook
  <2>2. HandlerOK(disk, "look", r, L)
    BY <2>1, Here
  <2>3. QED
    BY <2>1, <2>2, AtLook
<1>2. /\ disk' = disk /\ free_blocks' = free_blocks /\ writer' = writer /\ req' = req
      /\ UNCHANGED <<received, crashes>>
  BY DEF TraverseLook
<1>3. Names(r) \in Seq(Name) /\ Len(Names(r)) \in Nat
  BY <1>1, RequestFacts
<1>4. SharedBy("look", r, L) = {L.parent} /\ OwnedBy("look", L) = {}
  BY LocksAt
<1>5. L.parent \in TreeInodes(disk) /\ L.parent \in Block
  <2>1. Resolve(disk, SubSeq(Names(r), 1, L.depth)) \subseteq TreeInodes(disk)
    BY <1>1, <1>3, Here, ResolveFacts
  <2>2. QED
    BY <1>1, <2>1, Here, TreeClosed
<1>6. CASE found = {}
  <2>1. Abandon(h, L.parent) /\ loc' = loc
    BY <1>6 DEF TraverseLook
  <2>2. QED
    BY <1>1, <1>2, <2>1, AbandonKept
<1>7. CASE found # {}
  <2>1. PICK p \in found : loc' = [loc EXCEPT ![h].target = EntryAt(disk, L.inode, p).inode_block, ![h].depth = @ + 1]
    BY <1>7 DEF TraverseLook
  <2> DEFINE c == EntryAt(disk, L.inode, p).inode_block
             q == IF L.depth + 1 = Len(Names(r)) THEN "target" ELSE "step"
             L1 == [L EXCEPT !.target = c, !.depth = @ + 1]
  <2>2. /\ Goto(h, q) /\ readers' = readers /\ outcome' = outcome
    BY <1>7 DEF TraverseLook
  <2>3. loc' = [loc EXCEPT ![h] = L1]
    BY <2>1, Here
  <2>4. Moves(h, q, r, L1) /\ Decides(h, q)
    BY <1>2, <2>2, <2>3, MovesOn DEF Decides, Decided
  <2>5. c \in Block \ {0} /\ c \in Children(disk, L.parent) /\ Linked(disk, L.parent, x, c)
    BY <1>1, <1>5, <2>1, Here, NamedFacts
  <2>6. L.depth + 1 \in 0 .. Len(Names(r)) /\ Resolve(disk, SubSeq(Names(r), 1, L.depth + 1)) = {c}
    <3>1. disk \in [Block -> Content] /\ InOrder(disk)
      BY Here
    <3>2. c \in Block /\ Linked(disk, L.parent, Names(r)[L.depth + 1], c)
      BY <2>5
    <3> HIDE DEF c, r, L
    <3>3. Leads(disk, Names(r), L.depth, L.parent)
      BY <1>1 DEF Leads
    <3>4. Leads(disk, Names(r), L.depth + 1, c)
      BY <1>1, <1>3, <3>1, <3>2, <3>3, LeadsOn
    <3>5. QED
      BY <3>4 DEF Leads
  <2>7. /\ L1 \in LocalTypes /\ ~L1.grown /\ L1.depth = L.depth + 1 /\ L1.parent = L.parent /\ L1.target = c
        /\ L1.reserved = L.reserved
    <3>1. L.depth + 1 \in Nat /\ c \in Block
      BY <1>1, <2>5 DEF LocalTypes
    <3> HIDE DEF c, L
    <3>2. QED
      BY <1>1, <3>1 DEF LocalTypes
  <2> HIDE DEF L1, c
  <2>8. HandlerOK(disk, q, r, L1)
    <3>1. CASE L.depth + 1 = Len(Names(r))
      <4>1. Names(r) # <<>>
        BY <1>1, <1>3
      <4>2. QED
        BY <1>1, <1>3, <1>5, <2>5, <2>6, <2>7, <3>1, <4>1, AtTarget
    <3>2. CASE L.depth + 1 # Len(Names(r))
      <4>1. L.depth + 1 < Len(Names(r))
        BY <1>1, <1>3, <3>2
      <4>2. QED
        BY <1>1, <1>3, <1>5, <2>5, <2>6, <2>7, <3>2, <4>1, AtStep
    <3>3. QED
      BY <3>1, <3>2
  <2>9. SharedBy(q, r, L1) = {L.parent} /\ OwnedBy(q, L1) = {}
    <3>1. Names(r) # <<>>
      BY <1>1, <1>3
    <3>2. SharedBy("step", r, L1) = {L.parent} /\ OwnedBy("step", L1) = {}
      BY <2>7, LocksAt
    <3>3. SharedBy("target", r, L1) = {L.parent} /\ OwnedBy("target", L1) = {}
      BY <2>7, <3>1, LocksAt
    <3>4. QED
      BY <3>2, <3>3
  <2>10. /\ readers' \in [Block -> SUBSET Handler] /\ writer' \in [Block -> Handler \cup {NoHandler}]
         /\ LocksMove(h, {L.parent}, {})
    BY <1>1, <1>2, <1>4, <1>5, <2>2, LocksStill DEF locks
  <2>11. Carried(q, r, L1) = Carried(pc[h], r, L)
    BY <1>1, <2>7, CarriedSame
  <2> HIDE DEF q
  <2>12. QED
    BY <1>2, <2>4, <2>8, <2>9, <2>10, <2>11, StillMoves
<1>8. QED
  BY <1>6, <1>7

\* TraverseStep(h)
LEMMA TraverseStepKept ==
  ASSUME IInv, NEW h \in Handler, TraverseStep(h)
  PROVE  IInv'
<1> DEFINE r == req[h]
           L == loc[h]
           b == L.target
           inode == ReadInode(disk, b)
           L1 == [L EXCEPT !.parent = b, !.inode = inode]
<1>1. /\ pc[h] = "step" /\ r \in Request /\ L \in LocalTypes /\ ~L.grown
      /\ L.depth \in 0 .. Len(Names(r)) /\ L.depth < Len(Names(r))
      /\ Resolve(disk, SubSeq(Names(r), 1, L.depth)) = {b}
  <2>1. pc[h] = "step"
    BY DEF TraverseStep
  <2>2. HandlerOK(disk, "step", r, L)
    BY <2>1, Here
  <2> HIDE DEF r, L
  <2>3. QED
    BY <2>1, <2>2, AtStep
<1>2. /\ disk' = disk /\ free_blocks' = free_blocks /\ writer' = writer /\ req' = req
      /\ UNCHANGED <<received, crashes>> /\ writer[b] = NoHandler
  BY DEF TraverseStep, CanShare
<1>3. b \in Block /\ L.parent \in Block /\ inode \in AnyInode
  BY <1>1, Here, ReadInodeFacts DEF LocalTypes
<1>4. SharedBy("step", r, L) = {L.parent} /\ OwnedBy("step", L) = {}
  BY LocksAt
<1>5. CASE ~StepUsable(inode, r.user)
  <2>1. Abandon(h, L.parent) /\ loc' = loc
    BY <1>5 DEF TraverseStep
  <2>2. QED
    BY <1>1, <1>2, <2>1, AbandonKept
<1>6. CASE StepUsable(inode, r.user)
  <2>1. /\ Goto(h, "look") /\ outcome' = outcome /\ loc' = [loc EXCEPT ![h] = L1]
        /\ readers' = [Unshared(h, L.parent) EXCEPT ![b] = @ \cup {h}]
    BY <1>6, Here DEF TraverseStep
  <2>2. Moves(h, "look", r, L1) /\ Decides(h, "look")
    BY <1>2, <2>1, MovesOn DEF Decides, Decided
  <2>3. /\ L1 \in LocalTypes /\ ~L1.grown /\ L1.depth = L.depth /\ L1.parent = b /\ L1.inode = inode
        /\ L1.reserved = L.reserved
    BY <1>1, <1>3 DEF LocalTypes
  <2> HIDE DEF L1
  <2>4. HandlerOK(disk, "look", r, L1)
    BY <1>1, <2>3, AtLook
  <2>5. SharedBy("look", r, L1) = {b} /\ OwnedBy("look", L1) = {}
    BY <2>3, LocksAt
  <2>6. /\ readers' \in [Block -> SUBSET Handler] /\ writer' \in [Block -> Handler \cup {NoHandler}]
        /\ LocksMove(h, {b}, {})
    <3>1. /\ readers \in [Block -> SUBSET Handler] /\ writer \in [Block -> Handler \cup {NoHandler}]
          /\ \A k \in Block : (h \in readers[k] <=> k = L.parent) /\ writer[k] # h
      BY <1>1, <1>4 DEF IInv, LockInv
    <3>2. Unshared(h, L.parent) = [readers EXCEPT ![L.parent] = @ \ {h}]
      BY DEF Unshared
    <3>3. /\ Unshared(h, L.parent) \in [Block -> SUBSET Handler]
          /\ \A k \in Block : Unshared(h, L.parent)[k] = IF k = L.parent THEN readers[k] \ {h} ELSE readers[k]
      BY <1>3, <3>1, <3>2
    <3>4. /\ readers' \in [Block -> SUBSET Handler]
          /\ \A k \in Block : readers'[k] = IF k = b THEN Unshared(h, L.parent)[k] \cup {h} ELSE Unshared(h, L.parent)[k]
      BY <1>3, <2>1, <3>3
    <3>5. ASSUME NEW k \in Block
          PROVE  /\ (\A g \in Handler \ {h} : g \in readers'[k] <=> g \in readers[k])
                 /\ (h \in readers'[k] <=> k \in {b})
      <4>1. h \in readers[k] => k = L.parent
        BY <3>1
      <4>2. readers'[k] = IF k = b THEN Unshared(h, L.parent)[k] \cup {h} ELSE Unshared(h, L.parent)[k]
        BY <3>4
      <4>3. Unshared(h, L.parent)[k] = IF k = L.parent THEN readers[k] \ {h} ELSE readers[k]
        BY <3>3
      <4>4. QED
        BY <4>1, <4>2, <4>3
    <3>6. QED
      BY <1>2, <3>1, <3>4, <3>5 DEF LocksMove
  <2>7. Carried("look", r, L1) = Carried(pc[h], r, L)
    BY <1>1, <2>3, CarriedSame
  <2>8. QED
    BY <1>2, <2>2, <2>4, <2>5, <2>6, <2>7, StillMoves
<1>7. QED
  BY <1>5, <1>6

\* LockTarget(h)
LEMMA LockTargetKept ==
  ASSUME IInv, NEW h \in Handler, LockTarget(h)
  PROVE  IInv'
<1> DEFINE r == req[h]
           L == loc[h]
           b == L.target
           L1 == [L EXCEPT !.inode = ReadInode(disk, b)]
<1>1. /\ pc[h] = "target" /\ r \in Request /\ L \in LocalTypes /\ ~L.grown
      /\ L.depth = Len(Names(r))
      /\ Resolve(disk, SubSeq(Names(r), 1, L.depth)) = {b}
      /\ IF Names(r) = <<>> THEN b = 0 ELSE L.parent \in TreeInodes(disk) /\ b \in Children(disk, L.parent)
  <2>1. pc[h] = "target"
    BY DEF LockTarget
  <2>2. HandlerOK(disk, "target", r, L)
    BY <2>1, Here
  <2>3. QED
    BY <2>1, <2>2, AtTarget
<1>2. /\ disk' = disk /\ free_blocks' = free_blocks /\ req' = req /\ outcome' = outcome
      /\ UNCHANGED <<received, crashes>> /\ Goto(h, r.op)
  BY DEF LockTarget
<1>3. b \in Block /\ L.parent \in Block /\ ReadInode(disk, b) \in AnyInode
  BY <1>1, Here, ReadInodeFacts DEF LocalTypes
<1>4. Resolve(disk, Names(r)) = {b}
  <2>1. SubSeq(Names(r), 1, Len(Names(r))) = Names(r)
    BY <1>1, RequestFacts, WholePath
  <2>2. QED
    BY <1>1, <2>1
<1>5. b = 0 <=> Names(r) = <<>>
  <2>1. Names(r) # <<>> => b # 0
    BY <1>1, <1>3, Here, EntriesBySlots
  <2>2. QED
    BY <1>1, <2>1
<1>6. SharedBy("target", r, L) = (IF b = 0 THEN {} ELSE {L.parent}) /\ OwnedBy("target", L) = {}
  BY <1>5, LocksAt
<1>7. Moves(h, r.op, r, L1) /\ Decides(h, r.op)
  <2>1. loc' = [loc EXCEPT ![h] = L1]
    BY Here DEF LockTarget
  <2>2. r.op \notin Decided
    BY <1>1, RequestFacts DEF Decided
  <2>3. QED
    BY <1>2, <2>1, <2>2, MovesOn DEF Decides
<1>8. /\ L1 \in LocalTypes /\ ~L1.grown /\ L1.target = b /\ L1.inode = ReadInode(disk, b)
      /\ L1.reserved = L.reserved
  BY <1>1, <1>3 DEF LocalTypes
<1> HIDE DEF L1
<1>9. HandlerOK(disk, r.op, r, L1)
  <2>1. CASE r.op = "create"
    BY <1>1, <1>4, <1>8, <2>1, AtCreate
  <2>2. CASE r.op = "delete"
    BY <1>1, <1>4, <1>8, <2>2, AtDelete
  <2>3. CASE r.op = "read"
    BY <1>1, <1>4, <1>8, <2>3, AtRead
  <2>4. CASE r.op = "write"
    BY <1>1, <1>4, <1>8, <2>4, AtWrite
  <2>5. QED
    BY <1>1, <2>1, <2>2, <2>3, <2>4, RequestFacts
<1>10. Carried(r.op, r, L1) = Carried(pc[h], r, L)
  <2>1. r.op \notin {"reserve", "reply", "free_entries", "free"}
    BY <1>1, RequestFacts
  <2>2. QED
    BY <1>1, <1>8, <2>1, CarriedSame
<1>11. /\ readers \in [Block -> SUBSET Handler] /\ writer \in [Block -> Handler \cup {NoHandler}]
       /\ \A k \in Block : (h \in readers[k] <=> k = L.parent /\ b # 0) /\ writer[k] # h
  BY <1>1, <1>6 DEF IInv, LockInv
<1>12. /\ ParentUnshared(h) \in [Block -> SUBSET Handler]
       /\ \A k \in Block : ParentUnshared(h)[k] = readers[k] \ {h}
  <2>1. CASE b = 0
    BY <1>11, <2>1 DEF ParentUnshared
  <2>2. CASE b # 0
    <3>1. ParentUnshared(h) = [readers EXCEPT ![L.parent] = @ \ {h}]
      BY <2>2 DEF ParentUnshared, Unshared
    <3>2. QED
      BY <1>3, <1>11, <3>1
  <2>3. QED
    BY <2>1, <2>2
<1>13. CASE r.op = "read"
  <2>1. writer[b] = NoHandler /\ readers' = [ParentUnshared(h) EXCEPT ![b] = @ \cup {h}] /\ writer' = writer
    BY <1>13 DEF LockTarget, CanShare
  <2>2. SharedBy("read", r, L1) = {b} /\ OwnedBy("read", L1) = {}
    <3>1. "read" \in Reading
      BY DEF Reading
    <3>2. SharedBy("read", r, L1) = {L1.target} /\ OwnedBy("read", L1) = {}
      BY <3>1, LocksAt
    <3>3. QED
      BY <1>8, <3>2
  <2>3. /\ readers' \in [Block -> SUBSET Handler] /\ writer' \in [Block -> Handler \cup {NoHandler}]
        /\ LocksMove(h, {b}, {})
    <3>1. readers' \in [Block -> SUBSET Handler]
      BY <1>3, <1>12, <2>1
    <3>2. \A k \in Block : readers'[k] = IF k = b THEN (readers[k] \ {h}) \cup {h} ELSE readers[k] \ {h}
      BY <1>3, <1>12, <2>1
    <3>3. \A k \in Block : /\ (\A g \in Handler \ {h} : g \in readers'[k] <=> g \in readers[k])
                           /\ (h \in readers'[k] <=> k \in {b})
      BY <3>2
    <3>4. QED
      BY <1>11, <2>1, <3>1, <3>3 DEF LocksMove
  <2>4. QED
    BY <1>2, <1>7, <1>9, <1>10, <1>13, <2>2, <2>3, StillMoves
<1>14. CASE r.op # "read"
  <2>1. writer[b] = NoHandler /\ readers[b] = {} /\ readers' = ParentUnshared(h) /\ writer' = [writer EXCEPT ![b] = h]
    BY <1>14 DEF LockTarget, CanOwn
  <2>2. SharedBy(r.op, r, L1) = {} /\ OwnedBy(r.op, L1) = {b}
    <3>1. r.op \in (Creating \cup Deleting \cup Writing) \ {"clear", "shrink", "free_entries"}
      BY <1>1, <1>14, RequestFacts DEF Creating, Deleting, Writing
    <3>2. SharedBy(r.op, r, L1) = {} /\ OwnedBy(r.op, L1) = {L1.target}
      BY <3>1, LocksAt
    <3>3. QED
      BY <1>8, <3>2
  <2>3. /\ readers' \in [Block -> SUBSET Handler] /\ writer' \in [Block -> Handler \cup {NoHandler}]
        /\ LocksMove(h, {}, {b})
    <3>1. readers' \in [Block -> SUBSET Handler] /\ writer' \in [Block -> Handler \cup {NoHandler}]
      BY <1>3, <1>11, <1>12, <2>1
    <3>2. \A k \in Block : /\ (\A g \in Handler \ {h} : g \in readers'[k] <=> g \in readers[k])
                           /\ (h \in readers'[k] <=> k \in {})
      BY <1>12, <2>1
    <3>3. \A k \in Block : writer'[k] = IF k = b THEN h ELSE writer[k]
      BY <1>3, <1>11, <2>1
    <3>4. QED
      BY <1>11, <2>1, <3>1, <3>2, <3>3 DEF LocksMove
  <2>4. QED
    BY <1>2, <1>7, <1>9, <1>10, <2>2, <2>3, StillMoves
<1>15. QED
  BY <1>13, <1>14

-----------------------------------------------------------------------------
(* handle_create *)

\* One block of entries more is more places than any index in the blocks before.
LEMMA ProductGrows ==
  ASSUME NEW x \in Nat, NEW y \in Nat, NEW z \in Nat, x <= y
  PROVE  x * z <= y * z /\ x * z \in Nat /\ y * z \in Nat
<1>1. PICK d \in Nat : y = x + d
  <2>1. y - x \in Nat /\ y = x + (y - x)
    OBVIOUS
  <2>2. QED
    BY <2>1
<1>2. d * z \in Nat /\ x * z \in Nat
  OBVIOUS
<1>3. (x + d) * z = x * z + d * z
  OBVIOUS
<1>4. QED
  BY <1>1, <1>2, <1>3

\* An order on the places of a directory has a first one and a last one.
LEMMA FirstPlace ==
  ASSUME NEW S, S # {}, NEW F, \A q \in S : F[q] \in Nat
  PROVE  \E p \in S : \A q \in S : F[p] <= F[q]
<1>1. {F[q] : q \in S} \subseteq Nat /\ {F[q] : q \in S} # {}
  OBVIOUS
<1>2. PICK m \in {F[q] : q \in S} : \A k \in {F[q] : q \in S} : m <= k
  BY <1>1, LeastNatural
<1>3. QED
  BY <1>2

\* The index of a place has the place as quotient and remainder.
LEMMA LastPlace ==
  ASSUME NEW S, S # {}, NEW F, NEW n \in Nat, \A q \in S : F[q] \in 0 .. n
  PROVE  \E p \in S : \A q \in S : F[q] <= F[p]
<1>1. {n - F[q] : q \in S} \subseteq Nat /\ {n - F[q] : q \in S} # {}
  OBVIOUS
<1>2. PICK m \in {n - F[q] : q \in S} : \A k \in {n - F[q] : q \in S} : m <= k
  BY <1>1, LeastNatural
<1>3. PICK p \in S : m = n - F[p]
  BY <1>2
<1>4. ASSUME NEW q \in S
      PROVE  F[q] <= F[p]
  <2>1. n - F[p] <= n - F[q]
    BY <1>2, <1>3
  <2>2. F[p] \in 0 .. n /\ F[q] \in 0 .. n
    OBVIOUS
  <2>3. QED
    BY <2>1, <2>2
<1>5. QED
  BY <1>4

\* The place that check_existance finds for a new entry is unused.
LEMMA FirstEmptyFacts ==
  ASSUME NEW b \in Block, disk \in [Block -> Content]
  PROVE  LET empty == FirstEmpty(ReadInode(disk, b)) IN
         /\ empty.block \in Nat /\ empty.index \in 1 .. DirEntries
         /\ empty.entries \in [1 .. DirEntries -> DirEntry]
         /\ empty.block # Sentinel =>
              /\ empty.block \in BlocksAt(disk, b) /\ empty.entries = ReadEntries(disk, empty.block)
              /\ empty.entries[empty.index].inode_block = 0
<1> DEFINE inode == ReadInode(disk, b)
           all == UnusedPlaces(inode)
           good == {p \in all : inode.blocks[p[1]] # Sentinel}
           empty == FirstEmpty(inode)
           F == [p \in all |-> Order(p)]
           n == Len(inode.blocks) * (DirEntries + 1) + DirEntries
<1>1. /\ Len(inode.blocks) \in Nat /\ BlocksAt(disk, b) = {inode.blocks[k] : k \in 1 .. Len(inode.blocks)}
      /\ \A k \in 1 .. Len(inode.blocks) : inode.blocks[k] \in Block
  BY ReadInodeFacts
<1>2. DirEntries \in Nat \ {0} /\ Sentinel \in Nat /\ Block \subseteq Nat
  BY SizesAssumption DEF Sentinel, Block
<1>3. \A p \in all : /\ p[1] \in 1 .. Len(inode.blocks) /\ p[2] \in 1 .. DirEntries
                     /\ ReadEntries(disk, inode.blocks[p[1]])[p[2]].inode_block = 0
  BY DEF UnusedPlaces, Places
<1>4. \A p \in all : Order(p) \in 0 .. n
  <2>1. TAKE p \in all
  <2>2. p[1] \in 1 .. Len(inode.blocks) /\ p[2] \in 1 .. DirEntries
    BY <1>3
  <2>3. p[1] \in Nat /\ DirEntries + 1 \in Nat /\ p[1] <= Len(inode.blocks)
    BY <1>1, <1>2, <2>2
  <2>4. /\ p[1] * (DirEntries + 1) <= Len(inode.blocks) * (DirEntries + 1)
        /\ p[1] * (DirEntries + 1) \in Nat /\ Len(inode.blocks) * (DirEntries + 1) \in Nat
    BY <1>1, <2>3, ProductGrows
  <2>5. \A u, v, x, y \in Nat : u <= v /\ x <= y => u + x \in 0 .. v + y
    OBVIOUS
  <2>6. p[2] \in Nat /\ DirEntries \in Nat /\ p[2] <= DirEntries
    BY <1>2, <2>2
  <2>7. p[1] * (DirEntries + 1) + p[2] \in 0 .. n
    BY <2>4, <2>5, <2>6
  <2>8. QED
    BY <2>7 DEF Order
<1>5. n \in Nat
  <2>1. DirEntries + 1 \in Nat /\ Len(inode.blocks) <= Len(inode.blocks)
    BY <1>1, <1>2
  <2>2. Len(inode.blocks) * (DirEntries + 1) \in Nat
    BY <1>1, <2>1, ProductGrows
  <2>3. \A u, v \in Nat : u + v \in Nat
    OBVIOUS
  <2>4. QED
    BY <1>2, <2>2, <2>3
<1>6. NoEntries \in [1 .. DirEntries -> DirEntry]
  BY DEF NoEntries, DirEntry
<1>7. /\ \A p \in all : F[p] = Order(p)
      /\ good \subseteq all
  OBVIOUS
<1>8. good # {} => \E p \in good : \A q \in good : Order(p) <= Order(q)
  <2>1. SUFFICES ASSUME good # {} PROVE \E p \in good : \A q \in good : Order(p) <= Order(q)
    OBVIOUS
  <2> HIDE DEF n, F, good, all
  <2>2. \A q \in good : F[q] \in Nat
    BY <1>4, <1>5, <1>7
  <2>3. \E p \in good : \A q \in good : F[p] <= F[q]
    BY <2>1, <2>2, FirstPlace
  <2>4. QED
    BY <1>7, <2>3
<1>9. all # {} => \E p \in all : \A q \in all : Order(q) <= Order(p)
  <2>1. SUFFICES ASSUME all # {} PROVE \E p \in all : \A q \in all : Order(q) <= Order(p)
    OBVIOUS
  <2> HIDE DEF n, F, good, all
  <2>2. \A q \in all : F[q] \in 0 .. n
    BY <1>4, <1>7
  <2>3. \E p \in all : \A q \in all : F[q] <= F[p]
    BY <1>5, <2>1, <2>2, LastPlace
  <2>4. QED
    BY <1>7, <2>3
<1>10. CASE good # {}
  <2>1. PICK p \in good : empty = [block |-> inode.blocks[p[1]], index |-> p[2],
                                   entries |-> ReadEntries(disk, inode.blocks[p[1]])]
    <3> DEFINE m == CHOOSE p \in good : \A q \in good : Order(p) <= Order(q)
    <3>1. m \in good
      BY <1>8, <1>10
    <3>2. empty = [block |-> inode.blocks[m[1]], index |-> m[2], entries |-> ReadEntries(disk, inode.blocks[m[1]])]
      BY <1>10 DEF FirstEmpty
    <3>3. QED
      BY <3>1, <3>2
  <2>2. p[1] \in 1 .. Len(inode.blocks) /\ p[2] \in 1 .. DirEntries /\ ReadEntries(disk, inode.blocks[p[1]])[p[2]].inode_block = 0
    BY <1>3, <1>7
  <2>3. inode.blocks[p[1]] \in Block /\ inode.blocks[p[1]] \in BlocksAt(disk, b)
    BY <1>1, <2>2
  <2>4. ReadEntries(disk, inode.blocks[p[1]]) \in [1 .. DirEntries -> DirEntry]
    BY <2>3, ReadDataFacts
  <2> HIDE DEF inode, good, all, empty
  <2>5. /\ empty.block = inode.blocks[p[1]] /\ empty.index = p[2] /\ empty.entries = ReadEntries(disk, inode.blocks[p[1]])
    BY <2>1
  <2>6. QED
    BY <1>2, <2>2, <2>3, <2>4, <2>5 DEF empty, inode
<1>11. CASE good = {} /\ all # {}
  <2>1. PICK p \in all : empty = [block |-> Sentinel, index |-> p[2], entries |-> NoEntries]
    <3> DEFINE m == CHOOSE p \in all : \A q \in all : Order(q) <= Order(p)
    <3>1. m \in all
      BY <1>9, <1>11
    <3>2. empty = [block |-> Sentinel, index |-> m[2], entries |-> NoEntries]
      BY <1>11 DEF FirstEmpty
    <3>3. QED
      BY <3>1, <3>2
  <2>2. QED
    BY <1>2, <1>3, <1>6, <2>1
<1>12. CASE good = {} /\ all = {}
  <2>1. empty = [block |-> Sentinel, index |-> 1, entries |-> NoEntries]
    BY <1>12 DEF FirstEmpty
  <2>2. QED
    BY <1>2, <1>6, <2>1
<1>13. QED
  BY <1>10, <1>11, <1>12

\* Where a handler holds its target exclusively, and nothing else, and where it holds nothing.
OwnsTarget == (Creating \cup Deleting \cup Writing) \ {"clear", "shrink", "free_entries"}
OwnsNothing == {"idle", "reserve", "root", "return_block", "free", "reply"}

\* A step on which the target stays locked exclusively.
LEMMA TargetStill ==
  ASSUME IInv, NEW h \in Handler, UNCHANGED locks, pc[h] \in OwnsTarget, NEW p \in OwnsTarget,
         NEW L, L.target = loc[h].target
  PROVE  /\ readers' \in [Block -> SUBSET Handler] /\ writer' \in [Block -> Handler \cup {NoHandler}]
         /\ LocksMove(h, SharedBy(p, req[h], L), OwnedBy(p, L))
<1>1. SharedBy(p, req[h], L) = {} /\ OwnedBy(p, L) = {L.target}
  BY LocksAt DEF OwnsTarget
<1>2. SharedBy(pc[h], req[h], loc[h]) = {} /\ OwnedBy(pc[h], loc[h]) = {loc[h].target}
  BY LocksAt DEF OwnsTarget
<1>3. QED
  BY <1>1, <1>2, LocksStill

\* A step that unlocks the target.
LEMMA TargetReleased ==
  ASSUME IInv, NEW h \in Handler, readers' = readers, writer' = Disowned({loc[h].target}),
         pc[h] \in OwnsTarget, NEW p \in OwnsNothing, NEW L
  PROVE  /\ readers' \in [Block -> SUBSET Handler] /\ writer' \in [Block -> Handler \cup {NoHandler}]
         /\ LocksMove(h, SharedBy(p, req[h], L), OwnedBy(p, L))
<1>1. SharedBy(p, req[h], L) = {} /\ OwnedBy(p, L) = {}
  BY LocksAt DEF OwnsNothing
<1>2. SharedBy(pc[h], req[h], loc[h]) = {} /\ OwnedBy(pc[h], loc[h]) = {loc[h].target}
  BY LocksAt DEF OwnsTarget
<1>3. QED
  BY <1>1, <1>2, LocksDisowned

\* A handler that holds its target and fails.
LEMMA FailLockedKept ==
  ASSUME IInv, NEW h \in Handler, pc[h] \in OwnsTarget, req[h] \in Request, req[h].op # "create",
         ~loc[h].grown, FailLocked(h),
         UNCHANGED <<disk, free_blocks, readers, req, loc, received, crashes>>
  PROVE  IInv'
<1>1. Goto(h, "reply") /\ outcome' = [outcome EXCEPT ![h] = "failed"] /\ writer' = Disowned({loc[h].target})
  BY DEF FailLocked, Fail
<1>2. Moves(h, "reply", req[h], loc[h]) /\ Decides(h, "reply")
  <2>1. "failed" \in Answered
    BY DEF Answered
  <2>2. QED
    BY <1>1, <2>1, MovesOn DEF Decides
<1>3. HandlerOK(disk, "reply", req[h], loc[h])
  BY Here, AtReply
<1>4. /\ readers' \in [Block -> SUBSET Handler] /\ writer' \in [Block -> Handler \cup {NoHandler}]
      /\ LocksMove(h, SharedBy("reply", req[h], loc[h]), OwnedBy("reply", loc[h]))
  <2>1. "reply" \in OwnsNothing /\ readers' = readers
    BY DEF OwnsNothing
  <2>2. QED
    BY <1>1, <2>1, TargetReleased
<1>5. Carried("reply", req[h], loc[h]) = Carried(pc[h], req[h], loc[h])
  <2>1. Carried("reply", req[h], loc[h]) = {}
    BY CarriedDone
  <2>2. pc[h] \notin {"reserve", "reply", "free_entries", "free"}
    BY DEF OwnsTarget, Creating, Deleting, Writing
  <2>3. Carried(pc[h], req[h], loc[h]) = {}
    BY <2>2, CarriedPlain
  <2>4. QED
    BY <2>1, <2>3
<1>6. QED
  BY <1>2, <1>3, <1>4, <1>5, StillMoves

\* CreateCheck(h)
LEMMA CreateCheckKept ==
  ASSUME IInv, NEW h \in Handler, CreateCheck(h)
  PROVE  IInv'
<1> DEFINE r == req[h]
           L == loc[h]
           b == L.target
           inode == ReadInode(disk, b)
           name == Last(r.path)
           empty == FirstEmpty(inode)
           bad == ~DirUsable(inode, r.user) \/ Named(disk, inode, name) # {}
           L1 == [L EXCEPT !.block = empty.block, !.entries = empty.entries, !.place = <<1, empty.index>>]
<1>1. /\ pc[h] = "create" /\ r \in Request /\ r.op = "create" /\ L \in LocalTypes /\ ~L.grown
      /\ Resolve(disk, Names(r)) = {b} /\ L.inode = inode
  <2>1. pc[h] = "create"
    BY DEF CreateCheck
  <2>2. HandlerOK(disk, "create", r, L)
    BY <2>1, Here
  <2>3. QED
    BY <2>1, <2>2, AtCreate
<1>2. /\ disk' = disk /\ free_blocks' = free_blocks /\ req' = req /\ UNCHANGED locks
      /\ UNCHANGED <<received, crashes>>
  BY DEF CreateCheck
<1>3. b \in TreeInodes(disk) /\ b \in Block
  BY <1>1, TargetInTree DEF Modifying
<1>4. {"create", "return_locked", "alloc"} \subseteq OwnsTarget
  BY DEF OwnsTarget, Creating
<1>5. CASE bad
  <2>1. Goto(h, "return_locked") /\ outcome' = [outcome EXCEPT ![h] = "failed"] /\ loc' = loc
    BY <1>1, <1>5 DEF CreateCheck
  <2>2. Moves(h, "return_locked", r, L) /\ Decides(h, "return_locked")
    <3>1. "failed" \in Answered
      BY DEF Answered
    <3>2. QED
      BY <1>2, <2>1, <3>1, MovesOn DEF Decides
  <2>3. HandlerOK(disk, "return_locked", r, L)
    BY <1>1, AtReturnLocked
  <2>4. /\ readers' \in [Block -> SUBSET Handler] /\ writer' \in [Block -> Handler \cup {NoHandler}]
        /\ LocksMove(h, SharedBy("return_locked", r, L), OwnedBy("return_locked", L))
    BY <1>1, <1>2, <1>4, TargetStill
  <2>5. Carried("return_locked", r, L) = Carried(pc[h], r, L)
    BY <1>1, CarriedSame
  <2>6. QED
    BY <1>2, <2>2, <2>3, <2>4, <2>5, StillMoves
<1>6. CASE ~bad
  <2>1. Goto(h, "alloc") /\ outcome' = outcome /\ loc' = [loc EXCEPT ![h] = L1]
    BY <1>1, <1>6, Here DEF CreateCheck
  <2>2. Moves(h, "alloc", r, L1) /\ Decides(h, "alloc")
    BY <1>2, <2>1, MovesOn DEF Decides, Decided
  <2>3. /\ empty.block \in Nat /\ empty.index \in 1 .. DirEntries
        /\ empty.entries \in [1 .. DirEntries -> DirEntry]
        /\ empty.block # Sentinel =>
             /\ empty.block \in BlocksAt(disk, b) /\ empty.entries = ReadEntries(disk, empty.block)
             /\ empty.entries[empty.index].inode_block = 0
    BY <1>3, Here, FirstEmptyFacts
  <2> HIDE DEF empty
  <2>4. /\ L1 \in LocalTypes /\ ~L1.grown /\ L1.target = b /\ L1.inode = inode
        /\ L1.reserved = L.reserved /\ L1.block = empty.block /\ L1.entries = empty.entries /\ L1.place = <<1, empty.index>>
    <3>1. <<1, empty.index>> \in Nat \X Nat
      BY <2>3
    <3>2. QED
      BY <1>1, <2>3, <3>1 DEF LocalTypes
  <2>5. TypeAt(disk, b) = "d" /\ \A s \in Slots(disk, b) : EntryIn(disk, s).name # name
    <3>1. inode.type = "d" /\ Named(disk, inode, name) = {}
      BY <1>6 DEF DirUsable
    <3>2. TypeAt(disk, b) = "d"
      BY <3>1 DEF TypeAt
    <3>3. QED
      BY <1>3, <3>1, <3>2, Here, NamedFacts
  <2> HIDE DEF L1
  <2>6. HandlerOK(disk, "alloc", r, L1)
    <3>1. L1.place[2] = empty.index
      BY <2>4
    <3> HIDE DEF inode, r, name
    <3>2. TypeAt(disk, L1.target) = "d" /\ \A s \in Slots(disk, L1.target) : EntryIn(disk, s).name # Last(r.path)
      BY <2>4, <2>5 DEF name
    <3>3. QED
      BY <1>1, <2>3, <2>4, <3>1, <3>2, AtAlloc DEF inode
  <2>7. /\ readers' \in [Block -> SUBSET Handler] /\ writer' \in [Block -> Handler \cup {NoHandler}]
        /\ LocksMove(h, SharedBy("alloc", r, L1), OwnedBy("alloc", L1))
    BY <1>1, <1>2, <1>4, <2>4, TargetStill
  <2>8. Carried("alloc", r, L1) = Carried(pc[h], r, L)
    BY <1>1, <2>4, CarriedSame
  <2>9. QED
    BY <1>2, <2>2, <2>6, <2>7, <2>8, StillMoves
<1>7. QED
  BY <1>5, <1>6

\* Numbers of blocks in flight, for create.
LEMMA CarriedCreating ==
  ASSUME NEW r \in Request, r.op = "create", NEW L, NEW p, p \notin {"reserve", "reply"}
  PROVE  /\ ~L.grown => Carried(p, r, L) = {L.reserved}
         /\ L.grown => Carried(p, r, L) = {L.reserved, L.block}
<1>1. Carried(p, r, L) = (IF p \in {"reserve", "reply"} THEN {} ELSE {L.reserved})
                         \cup (IF L.grown /\ p # "reply" THEN {L.block} ELSE {})
  BY CarriedAt
<1>2. CASE L.grown
  BY <1>1, <1>2
<1>3. CASE ~L.grown
  BY <1>1, <1>3
<1>4. QED
  BY <1>2, <1>3

\* An entry that names a new inode.
LEMMA LinkingFacts ==
  ASSUME NEW entries \in [1 .. DirEntries -> DirEntry], NEW j \in 1 .. DirEntries, NEW r \in Request,
         NEW L, L.reserved \in Block \ {0}
  PROVE  /\ Linking(entries, j, r, L) \in [1 .. DirEntries -> DirEntry]
         /\ Linking(entries, j, r, L)[j] = [name |-> Last(r.path), inode_block |-> L.reserved]
         /\ \A i \in (1 .. DirEntries) \ {j} : Linking(entries, j, r, L)[i] = entries[i]
<1>1. [name |-> Last(r.path), inode_block |-> L.reserved] \in DirEntry
  BY RequestFacts DEF DirEntry
<1>2. QED
  BY <1>1 DEF Linking

\* An inode with one more block.
LEMMA LongerFacts ==
  ASSUME NEW d \in [Block -> Content], NEW i \in Block, TypeAt(d, i) \in {"f", "d"}, NEW x \in Block,
         Len(ReadInode(d, i).blocks) < MaxFileBlocks
  PROVE  /\ Longer(ReadInode(d, i), x) \in Inodes
         /\ Longer(ReadInode(d, i), x).type = TypeAt(d, i) /\ Longer(ReadInode(d, i), x).kind = "inode"
         /\ Longer(ReadInode(d, i), x).blocks = Append(ReadInode(d, i).blocks, x)
         /\ ToSet(Longer(ReadInode(d, i), x).blocks) = BlocksAt(d, i) \cup {x}
         /\ IsInjective(ReadInode(d, i).blocks) /\ x \notin BlocksAt(d, i) =>
              IsInjective(Longer(ReadInode(d, i), x).blocks)
<1> DEFINE inode == ReadInode(d, i)
<1>1. /\ inode \in AnyInode /\ inode.type \in {"f", "d"} /\ inode.blocks \in Seq(Block)
      /\ Len(inode.blocks) \in Nat /\ ToSet(inode.blocks) = BlocksAt(d, i)
  BY ReadInodeFacts DEF TypeAt, BlocksAt
<1>2. /\ inode = Inode(inode.type, inode.owner, inode.blocks) /\ inode.owner \in User \cup {NoOwner, Junk}
      /\ inode \in Inodes
  BY <1>1, InodeFacts
<1>3. inode.owner \in User \cup {NoOwner}
  BY <1>2 DEF Inodes, Inode
<1> HIDE DEF inode
<1>4. Longer(inode, x) = Inode(inode.type, inode.owner, Append(inode.blocks, x))
  BY <1>2 DEF Longer, Inode
<1>5. /\ Append(inode.blocks, x) \in Seq(Block) /\ Len(Append(inode.blocks, x)) = Len(inode.blocks) + 1
      /\ ToSet(Append(inode.blocks, x)) = ToSet(inode.blocks) \cup {x}
      /\ IsInjective(inode.blocks) /\ x \notin ToSet(inode.blocks) => IsInjective(Append(inode.blocks, x))
  BY <1>1, ElementsOfAppend
<1>6. Len(Append(inode.blocks, x)) <= MaxFileBlocks
  BY <1>1, <1>5, SizesAssumption DEF inode
<1>7. Longer(inode, x) \in Inodes
  BY <1>1, <1>3, <1>4, <1>5, <1>6, IsInode
<1>8. /\ Longer(inode, x).type = inode.type /\ Longer(inode, x).blocks = Append(inode.blocks, x)
      /\ Longer(inode, x).kind = "inode"
  BY <1>4 DEF Inode
<1>9. QED
  BY <1>1, <1>5, <1>7, <1>8 DEF inode, TypeAt

\* CreateAlloc(h)
LEMMA CreateAllocKept ==
  ASSUME IInv, NEW h \in Handler, CreateAlloc(h)
  PROVE  IInv'
<1> DEFINE r == req[h]
           L == loc[h]
           b == L.target
           inode == ReadInode(disk, b)
           j == L.place[2]
           x == Head(free_blocks)
           full == free_blocks = <<>> \/ Len(L.inode.blocks) + 1 > MaxFileBlocks
<1>1. pc[h] = "alloc" /\ HandlerOK(disk, "alloc", r, L)
  <2>1. pc[h] = "alloc"
    BY DEF CreateAlloc
  <2>2. QED
    BY <2>1, Here
<1>2. /\ r \in Request /\ r.op = "create" /\ L \in LocalTypes /\ ~L.grown
      /\ Resolve(disk, Names(r)) = {b} /\ L.inode = inode
      /\ TypeAt(disk, b) = "d"
      /\ \A s \in Slots(disk, b) : EntryIn(disk, s).name # Last(r.path)
      /\ j \in 1 .. DirEntries
      /\ L.block # Sentinel =>
           L.block \in BlocksAt(disk, b) /\ L.entries = ReadEntries(disk, L.block) /\ L.entries[j].inode_block = 0
  BY <1>1, AtAlloc
<1>3. disk' = disk /\ req' = req /\ readers' = readers /\ UNCHANGED <<received, crashes>>
  BY DEF CreateAlloc
<1>4. b \in TreeInodes(disk) /\ b \in Block
  BY <1>1, TargetInTree DEF Modifying
<1>5. {"alloc", "new_inode"} \subseteq OwnsTarget /\ "reply" \in OwnsNothing
  BY DEF OwnsTarget, OwnsNothing, Creating
<1>6. Carried(pc[h], r, L) = {L.reserved} /\ L.reserved \in Block \ {0}
  <2>1. Carried(pc[h], r, L) = {L.reserved}
    BY <1>1, <1>2, CarriedCreating
  <2>2. Carried(pc[h], r, L) \subseteq Block /\ Carried(pc[h], r, L) \cap UsedBlocks(disk) = {} /\ 0 \in UsedBlocks(disk)
    BY FlightFacts, Here, UsedFacts
  <2>3. QED
    BY <2>1, <2>2
<1>7. CASE L.block # Sentinel
  <2> DEFINE L1 == [L EXCEPT !.entries = Linking(L.entries, j, r, L)]
  <2>1. /\ Goto(h, "new_inode") /\ outcome' = outcome /\ free_blocks' = free_blocks /\ writer' = writer
        /\ loc' = [loc EXCEPT ![h].entries[j] = NewEntry(h)]
    BY <1>7 DEF CreateAlloc
  <2>2. loc' = [loc EXCEPT ![h] = L1]
    BY <2>1, Here DEF NewEntry, Linking
  <2>3. L.block \in BlocksAt(disk, b) /\ L.block \in Block
    BY <1>2, <1>4, <1>7, Here, ReadInodeFacts
  <2>4. L.entries = ReadEntries(disk, L.block) /\ L.entries \in [1 .. DirEntries -> DirEntry] /\ L.entries[j].inode_block = 0
    BY <1>2, <1>7 DEF LocalTypes
  <2>5. Linking(L.entries, j, r, L) \in [1 .. DirEntries -> DirEntry]
    BY <1>2, <1>6, <2>4, LinkingFacts
  <2>6. /\ L1 \in LocalTypes /\ ~L1.grown /\ L1.target = b /\ L1.inode = inode /\ L1.reserved = L.reserved
        /\ L1.block = L.block /\ L1.entries = Linking(L.entries, j, r, L)
    BY <1>2, <2>5 DEF LocalTypes
  <2>7. L1.entries = Linking(ReadEntries(disk, L1.block), j, r, L1)
    BY <2>4, <2>6 DEF Linking
  <2> HIDE DEF L1
  <2>8. EntryIn(disk, <<L1.block, j>>).inode_block = 0
    BY <2>4, <2>6 DEF EntryIn
  <2>9. HandlerOK(disk, "new_inode", r, L1)
    <3>1. \E i \in 1 .. DirEntries : /\ EntryIn(disk, <<L1.block, i>>).inode_block = 0
                                     /\ L1.entries = Linking(ReadEntries(disk, L1.block), i, r, L1)
      BY <1>2, <2>7, <2>8
    <3>2. /\ Resolve(disk, Names(r)) = {L1.target} /\ L1.inode = ReadInode(disk, L1.target)
          /\ TypeAt(disk, L1.target) = "d" /\ \A s \in Slots(disk, L1.target) : EntryIn(disk, s).name # Last(r.path)
          /\ L1.block \in BlocksAt(disk, L1.target)
      BY <1>2, <2>3, <2>6
    <3>3. r \in Request /\ r.op = "create" /\ L1 \in LocalTypes /\ ~L1.grown
      BY <1>2, <2>6
    <3> HIDE DEF r
    <3>4. QED
      BY <3>1, <3>2, <3>3, AtNewInode
  <2>10. Moves(h, "new_inode", r, L1) /\ Decides(h, "new_inode")
    BY <1>3, <2>1, <2>2, MovesOn DEF Decides, Decided
  <2>11. /\ readers' \in [Block -> SUBSET Handler] /\ writer' \in [Block -> Handler \cup {NoHandler}]
         /\ LocksMove(h, SharedBy("new_inode", r, L1), OwnedBy("new_inode", L1))
    BY <1>1, <1>3, <1>5, <2>1, <2>6, TargetStill DEF locks
  <2>12. Carried("new_inode", r, L1) = Carried(pc[h], r, L)
    BY <1>1, <1>2, <2>6, CarriedSame
  <2>13. QED
    BY <1>3, <2>1, <2>9, <2>10, <2>11, <2>12, StillMoves
<1>8. CASE L.block = Sentinel /\ full
  <2>1. FailLocked(h) /\ loc' = loc /\ free_blocks' = Append(free_blocks, L.reserved)
    BY <1>8 DEF CreateAlloc
  <2>2. Goto(h, "reply") /\ outcome' = [outcome EXCEPT ![h] = "failed"] /\ writer' = Disowned({b})
    BY <2>1 DEF FailLocked, Fail
  <2>3. Moves(h, "reply", r, L) /\ Decides(h, "reply")
    <3>1. "failed" \in Answered
      BY DEF Answered
    <3>2. QED
      BY <1>3, <2>1, <2>2, <3>1, MovesOn DEF Decides
  <2>4. HandlerOK(disk, "reply", r, L)
    BY <1>2, AtReply
  <2>5. /\ readers' \in [Block -> SUBSET Handler] /\ writer' \in [Block -> Handler \cup {NoHandler}]
        /\ LocksMove(h, SharedBy("reply", r, L), OwnedBy("reply", L))
    BY <1>1, <1>3, <1>5, <2>2, TargetReleased
  <2>6. Carried("reply", r, L) = {}
    BY <1>2, CarriedDone
  <2>7. BlocksMove(ToSet(free_blocks) \cup {L.reserved}, Carried(pc[h], r, L), Carried("reply", r, L))
    BY <1>3, <1>6, <2>1, <2>6, FreeAppended
  <2>8. QED
    BY <1>3, <2>3, <2>4, <2>5, <2>7, QuietMoves
<1>9. CASE L.block = Sentinel /\ ~full
  <2> DEFINE L1 == [L EXCEPT !.block = x, !.inode.blocks = Append(@, x), !.grown = TRUE,
                             !.entries = Linking(NoEntries, j, r, L)]
  <2>1. /\ Goto(h, "new_inode") /\ outcome' = outcome /\ free_blocks' = Tail(free_blocks) /\ writer' = writer
        /\ loc' = [loc EXCEPT ![h].block = x, ![h].inode.blocks = Append(@, x), ![h].grown = TRUE,
                              ![h].entries = [NoEntries EXCEPT ![j] = NewEntry(h)]]
    BY <1>9 DEF CreateAlloc
  <2>2. loc' = [loc EXCEPT ![h] = L1]
    BY <2>1, Here DEF NewEntry, Linking
  <2>3. free_blocks # <<>> /\ Len(inode.blocks) < MaxFileBlocks
    <3>1. Len(inode.blocks) \in Nat
      BY <1>4, Here, ReadInodeFacts
    <3>2. QED
      BY <1>2, <1>9, <3>1, SizesAssumption
  <2>4. /\ x \in Block \ UsedBlocks(disk) /\ x \notin Carried(pc[h], r, L)
        /\ \A K1 : K1 = Carried(pc[h], r, L) \cup {x} => BlocksMove(ToSet(free_blocks) \ {x}, Carried(pc[h], r, L), K1)
    BY <1>3, <2>1, <2>3, FreeTaken
  <2>5. NoEntries \in [1 .. DirEntries -> DirEntry]
    BY DEF NoEntries, DirEntry
  <2>6. Linking(NoEntries, j, r, L) \in [1 .. DirEntries -> DirEntry]
    BY <1>2, <1>6, <2>5, LinkingFacts
  <2>7. Longer(inode, x) \in AnyInode
    BY <1>2, <1>4, <2>3, <2>4, Here, LongerFacts DEF AnyInode
  <2>8. x \in Nat
    BY <2>4, SizesAssumption DEF Block
  <2> HIDE DEF x
  <2>9. /\ L1.inode = Longer(inode, x)
    BY <1>2 DEF Longer, LocalTypes
  <2>10. /\ L1.grown /\ L1.target = b /\ L1.reserved = L.reserved
         /\ L1.block = x /\ L1.entries = Linking(NoEntries, j, r, L)
    BY <1>2 DEF LocalTypes
  <2>11. L1 \in LocalTypes
    <3>1. L1 = [L EXCEPT !.block = x, !.inode = Longer(inode, x), !.grown = TRUE, !.entries = Linking(NoEntries, j, r, L)]
      BY <1>2 DEF Longer, LocalTypes
    <3> HIDE DEF L1, inode, j, r, L
    <3>2. QED
      BY <1>2, <2>6, <2>7, <2>8, <3>1 DEF LocalTypes
  <2>12. L1.entries = Linking(NoEntries, j, r, L1)
    BY <2>10 DEF Linking
  <2> HIDE DEF L1
  <2>13. Carried("new_inode", r, L1) = Carried(pc[h], r, L) \cup {x}
    BY <1>2, <1>6, <2>10, CarriedCreating
  <2>14. HandlerOK(disk, "new_inode", r, L1)
    <3>1. \E i \in 1 .. DirEntries : L1.entries = Linking(NoEntries, i, r, L1)
      BY <1>2, <2>12
    <3>2. /\ Resolve(disk, Names(r)) = {L1.target} /\ L1.inode = Longer(ReadInode(disk, L1.target), L1.block)
          /\ TypeAt(disk, L1.target) = "d" /\ \A s \in Slots(disk, L1.target) : EntryIn(disk, s).name # Last(r.path)
          /\ Len(ReadInode(disk, L1.target).blocks) < MaxFileBlocks
      BY <1>2, <2>3, <2>9, <2>10
    <3>3. r \in Request /\ r.op = "create" /\ L1 \in LocalTypes /\ L1.grown /\ L1.block # L1.reserved
      BY <1>2, <1>6, <2>4, <2>10, <2>11
    <3> HIDE DEF r
    <3>4. QED
      BY <3>1, <3>2, <3>3, AtNewInode
  <2>15. Moves(h, "new_inode", r, L1) /\ Decides(h, "new_inode")
    BY <1>3, <2>1, <2>2, MovesOn DEF Decides, Decided
  <2>16. /\ readers' \in [Block -> SUBSET Handler] /\ writer' \in [Block -> Handler \cup {NoHandler}]
         /\ LocksMove(h, SharedBy("new_inode", r, L1), OwnedBy("new_inode", L1))
    BY <1>1, <1>3, <1>5, <2>1, <2>10, TargetStill DEF locks
  <2>17. BlocksMove(ToSet(free_blocks) \ {x}, Carried(pc[h], r, L), Carried("new_inode", r, L1))
    BY <2>4, <2>13
  <2>18. QED
    BY <1>3, <2>14, <2>15, <2>16, <2>17, QuietMoves
<1>10. QED
  BY <1>7, <1>8, <1>9

\* A write outside the tree leaves the tree as it is.
LEMMA OutsideWrite ==
  ASSUME NEW d \in [Block -> Content], NEW e \in [Block -> Content], InOrder(d),
         NEW w, w \notin UsedBlocks(d), \A b \in Block \ {w} : e[b] = d[b]
  PROVE  /\ InOrder(e) /\ Apart(d, e, {}) /\ UsedBlocks(e) = UsedBlocks(d)
<1> DEFINE T == TreeInodes(d)
<1>1. UsedBlocks(d) = T \cup UNION {BlocksAt(d, i) : i \in T} /\ T \subseteq Block /\ 0 \in T
  BY UsedFacts, TreeClosed
<1>2. \A i \in T : SameAt(d, e, i)
  <2>1. TAKE i \in T
  <2>2. i # w /\ w \notin BlocksAt(d, i) /\ BlocksAt(d, i) \subseteq Block
    BY <1>1, ReadInodeFacts
  <2>3. e[i] = d[i] /\ \A k \in BlocksAt(d, i) : e[k] = d[k]
    BY <1>1, <2>2
  <2>4. QED
    BY <1>1, <2>3, FrameAt
<1>3. /\ TypeAt(e, 0) = TypeAt(d, 0) /\ Slots(e, 0) = Slots(d, 0)
      /\ \A s \in Slots(d, 0) : EntryIn(e, s) = EntryIn(d, s)
      /\ BlocksAt(e, 0) = BlocksAt(d, 0) \cup {} /\ ReadInode(e, 0) = ReadInode(d, 0)
      /\ \A k \in BlocksAt(d, 0) : e[k].kind = d[k].kind
  BY <1>1, <1>2 DEF SameAt, TypeAt, BlocksAt
<1>4. IsInjective(ReadInode(e, 0).blocks) /\ \A k \in BlocksAt(e, 0) : e[k].kind = IF TypeAt(d, 0) = "d" THEN "entries" ELSE "data"
  <2>1. /\ IsInjective(ReadInode(d, 0).blocks)
        /\ \A k \in BlocksAt(d, 0) : d[k].kind = IF TypeAt(d, 0) = "d" THEN "entries" ELSE "data"
    BY <1>1 DEF InOrder
  <2>2. QED
    BY <1>3, <2>1
<1>5. PICK B : B = {}
  OBVIOUS
<1>6. /\ B \cap UsedBlocks(d) = {} /\ 0 \in T /\ (\A i \in T \ {0} : SameAt(d, e, i))
      /\ BlocksAt(e, 0) = BlocksAt(d, 0) \cup B
  BY <1>1, <1>2, <1>3, <1>5
<1>7. InOrder(e) /\ Apart(d, e, {}) /\ UsedBlocks(e) = UsedBlocks(d) \cup B
  <2>1. TypeAt(d, 0) = "d" => B = {}
    BY <1>5
  <2> HIDE DEF T
  <2>2. \A i \in TreeInodes(d) \ {0} : SameAt(d, e, i)
    BY <1>6 DEF T
  <2>3. 0 \in TreeInodes(d)
    BY <1>6 DEF T
  <2>4. QED
    BY <1>3, <1>4, <1>6, <2>1, <2>2, <2>3, KeepTree
<1>8. QED
  BY <1>5, <1>7

\* What the handler itself knows of its target remains true as well.
LEMMA OwnKept ==
  ASSUME IInv, NEW h \in Handler, pc[h] \in OwnsTarget, NEW e \in [Block -> Content], InOrder(e),
         Apart(disk, e, {}), NEW w, w \notin UsedBlocks(disk), \A b \in Block \ {w} : e[b] = disk[b],
         NEW p \in OwnsTarget \ {"new_entry", "grow", "write_inode"}, HandlerOK(disk, p, req[h], loc[h])
  PROVE  HandlerOK(e, p, req[h], loc[h])
<1> DEFINE t == loc[h].target
<1>1. disk \in [Block -> Content] /\ InOrder(disk)
  BY Here
<1>2. t \in TreeInodes(disk)
  BY TargetInTree DEF OwnsTarget, Modifying, Creating, Deleting, Writing
<1>3. HeldBy(p, req[h], loc[h]) = {t}
  BY WriterHolds DEF OwnsTarget
<1>4. t # w /\ w \notin BlocksAt(disk, t) /\ BlocksAt(disk, t) \subseteq Block /\ t \in Block
  BY <1>1, <1>2, UsedFacts, TreeClosed, ReadInodeFacts
<1>5. e[t] = disk[t] /\ \A k \in BlocksAt(disk, t) : e[k] = disk[k]
  BY <1>4
<1>6. p \notin {"step", "target"}
  BY DEF OwnsTarget, Creating, Deleting, Writing
<1>7. Unaffected(disk, e, {}, p, req[h], loc[h])
  BY <1>3, <1>5, <1>6 DEF Unaffected
<1>8. QED
  BY <1>1, <1>7, Undisturbed

\* A handler that writes to a block of its own, not yet in the tree.
LEMMA OwnBlockKept ==
  ASSUME IInv, NEW h \in Handler, pc[h] \in OwnsTarget, NEW p \in OwnsTarget,
         NEW w \in Carried(pc[h], req[h], loc[h]), NEW c \in Content, disk' = [disk EXCEPT ![w] = c],
         NEW q \in OwnsTarget \ {"new_entry", "grow", "write_inode"}, HandlerOK(disk, q, req[h], loc[h]),
         HandlerOK(disk', q, req[h], loc[h]) => HandlerOK(disk', p, req[h], loc[h]),
         Carried(p, req[h], loc[h]) = Carried(pc[h], req[h], loc[h]),
         Goto(h, p), UNCHANGED <<free_blocks, locks, req, loc, outcome, received, crashes>>, p \notin Decided
  PROVE  IInv'
<1>1. /\ disk \in [Block -> Content] /\ InOrder(disk)
      /\ Carried(pc[h], req[h], loc[h]) \cap UsedBlocks(disk) = {} /\ Carried(pc[h], req[h], loc[h]) \subseteq Block
  BY Here, FlightFacts
<1>2. w \in Block /\ w \notin UsedBlocks(disk)
  BY <1>1
<1>3. disk' \in [Block -> Content] /\ \A b \in Block \ {w} : disk'[b] = disk[b]
  BY <1>1, <1>2
<1>4. InOrder(disk') /\ Apart(disk, disk', {}) /\ UsedBlocks(disk') = UsedBlocks(disk)
  BY <1>1, <1>2, <1>3, OutsideWrite
<1>5. HandlerOK(disk', p, req[h], loc[h])
  BY <1>2, <1>3, <1>4, OwnKept
<1>6. Moves(h, p, req[h], loc[h]) /\ Decides(h, p)
  BY MovesOn DEF Decides
<1>7. /\ readers' \in [Block -> SUBSET Handler] /\ writer' \in [Block -> Handler \cup {NoHandler}]
      /\ LocksMove(h, SharedBy(p, req[h], loc[h]), OwnedBy(p, loc[h]))
  <2>1. UNCHANGED locks
    OBVIOUS
  <2>2. QED
    BY <2>1, TargetStill
<1>8. w \in Writable(h) /\ Movable(h, {})
  BY <1>2 DEF Writable, Movable
<1>9. QED
  BY <1>1, <1>3, <1>4, <1>5, <1>6, <1>7, <1>8, WritingMoves

\* The inode on the disk is all that sets the one label apart from the other.
LEMMA NewEntryFacts ==
  ASSUME NEW d, NEW r, NEW L
  PROVE  HandlerOK(d, "new_entry", r, L) <=>
           HandlerOK(d, "new_inode", r, L) /\ d[L.reserved] = Inode(r.type, r.user, <<>>)
<1>1. CASE HandlerOK(d, "new_entry", r, L)
  <2>1. d[L.reserved] = Inode(r.type, r.user, <<>>)
    BY <1>1, AtNewEntry
  <2>2. HandlerOK(d, "new_inode", r, L)
    BY <1>1, AtNewEntry, AtNewInode
  <2>3. QED
    BY <1>1, <2>1, <2>2
<1>2. CASE HandlerOK(d, "new_inode", r, L) /\ d[L.reserved] = Inode(r.type, r.user, <<>>)
  <2>1. HandlerOK(d, "new_entry", r, L)
    BY <1>2, AtNewEntry, AtNewInode
  <2>2. QED
    BY <1>2, <2>1
<1>3. QED
  BY <1>1, <1>2

\* CreateWriteInode(h)
LEMMA CreateWriteInodeKept ==
  ASSUME IInv, NEW h \in Handler, CreateWriteInode(h)
  PROVE  IInv'
<1> DEFINE r == req[h]
           L == loc[h]
           c == Inode(r.type, r.user, <<>>)
<1>1. pc[h] = "new_inode" /\ HandlerOK(disk, "new_inode", r, L)
  <2>1. pc[h] = "new_inode"
    BY DEF CreateWriteInode
  <2>2. QED
    BY <2>1, Here
<1>2. r \in Request /\ r.op = "create" /\ L \in LocalTypes
  BY <1>1, AtNewInode
<1>3. /\ disk' = [disk EXCEPT ![L.reserved] = c] /\ Goto(h, "new_entry")
      /\ UNCHANGED <<free_blocks, locks, req, loc, outcome, received, crashes>>
  BY DEF CreateWriteInode, AfterNewInode
<1>4. Carried("new_entry", r, L) = Carried(pc[h], r, L) /\ L.reserved \in Carried(pc[h], r, L)
  <2>1. Carried("new_entry", r, L) = IF L.grown THEN {L.reserved, L.block} ELSE {L.reserved}
    BY <1>2, CarriedCreating
  <2>2. Carried("new_inode", r, L) = IF L.grown THEN {L.reserved, L.block} ELSE {L.reserved}
    BY <1>2, CarriedCreating
  <2>3. QED
    BY <1>1, <2>1, <2>2
<1>5. c \in Content
  <2>1. r.type \in {"f", "d"} /\ r.user \in User /\ <<>> \in Seq(Block) /\ Len(<<>>) <= MaxFileBlocks
    BY <1>2, RequestFacts, SizesAssumption
  <2>2. c \in Inodes
    BY <2>1, IsInode
  <2>3. QED
    BY <2>2 DEF Content
<1>6. disk'[L.reserved] = c
  BY <1>2, <1>3, Here DEF LocalTypes
<1> HIDE DEF c
<1>7. HandlerOK(disk', "new_inode", r, L) => HandlerOK(disk', "new_entry", r, L)
  <2>1. SUFFICES ASSUME HandlerOK(disk', "new_inode", r, L) PROVE HandlerOK(disk', "new_entry", r, L)
    OBVIOUS
  <2>2. disk'[L.reserved] = Inode(r.type, r.user, <<>>)
    BY <1>6 DEF c
  <2> HIDE DEF r, L
  <2>3. QED
    BY <2>1, <2>2, NewEntryFacts
<1>8. {"new_inode", "new_entry"} \subseteq OwnsTarget /\ "new_entry" \notin Decided
  BY DEF OwnsTarget, Creating, Decided
<1>9. QED
  BY <1>1, <1>3, <1>4, <1>5, <1>7, <1>8, OwnBlockKept

-----------------------------------------------------------------------------
(* What create and delete do to the tree *)

\* The inode of a directory, and its slots, by the entries of its blocks.
LEMMA SlotsByEntries ==
  ASSUME NEW d \in [Block -> Content], NEW e \in [Block -> Content], NEW t \in Block,
         TypeAt(d, t) = "d", TypeAt(e, t) = "d", NEW s, s[1] \in BlocksAt(e, t), s[2] \in 1 .. DirEntries,
         s = <<s[1], s[2]>>, EntryIn(e, s).inode_block # 0,
         BlocksAt(d, t) \subseteq BlocksAt(e, t),
         \A u \in BlocksAt(d, t) \X (1 .. DirEntries) : u # s => EntryIn(e, u) = EntryIn(d, u),
         \A u \in BlocksAt(e, t) \X (1 .. DirEntries) : u[1] \notin BlocksAt(d, t) /\ u # s => EntryIn(e, u).inode_block = 0,
         s[1] \in BlocksAt(d, t) => EntryIn(d, s).inode_block = 0
  PROVE  /\ Slots(e, t) = Slots(d, t) \cup {s}
         /\ \A u \in Slots(d, t) : EntryIn(e, u) = EntryIn(d, u)
<1>1. \A u : u \in Slots(d, t) <=> u \in BlocksAt(d, t) \X (1 .. DirEntries) /\ EntryIn(d, u).inode_block # 0
  BY DEF Slots
<1>2. \A u : u \in Slots(e, t) <=> u \in BlocksAt(e, t) \X (1 .. DirEntries) /\ EntryIn(e, u).inode_block # 0
  BY DEF Slots
<1>3. \A u \in Slots(d, t) : u # s /\ u \in BlocksAt(e, t) \X (1 .. DirEntries) /\ EntryIn(e, u) = EntryIn(d, u)
  <2>1. TAKE u \in Slots(d, t)
  <2>2. u \in BlocksAt(d, t) \X (1 .. DirEntries) /\ EntryIn(d, u).inode_block # 0 /\ u[1] \in BlocksAt(d, t)
    BY <1>1
  <2>3. u # s
    BY <2>2
  <2>4. QED
    BY <2>2, <2>3
<1>4. \A u \in Slots(e, t) : u # s => u \in Slots(d, t)
  <2>1. TAKE u \in Slots(e, t)
  <2>2. HAVE u # s
  <2>3. u \in BlocksAt(e, t) \X (1 .. DirEntries) /\ EntryIn(e, u).inode_block # 0
    BY <1>2
  <2>4. u[1] \in BlocksAt(d, t)
    BY <2>2, <2>3
  <2>5. u \in BlocksAt(d, t) \X (1 .. DirEntries)
    BY <2>3, <2>4
  <2>6. EntryIn(e, u) = EntryIn(d, u)
    BY <2>2, <2>5
  <2>7. QED
    BY <1>1, <2>3, <2>5, <2>6
<1>5. s \in Slots(e, t)
  BY <1>2
<1>6. \A u \in Slots(d, t) : u \in Slots(e, t)
  BY <1>1, <1>2, <1>3
<1>7. QED
  BY <1>3, <1>4, <1>5, <1>6

\* What a write to one block of t leaves as it was.
LEMMA TouchBlock ==
  ASSUME NEW d \in [Block -> Content], NEW e \in [Block -> Content], InOrder(d),
         NEW t \in TreeInodes(d), NEW w \in BlocksAt(d, t), \A b \in Block \ {w} : e[b] = d[b]
  PROVE  /\ t \in Block /\ w \in Block /\ w \in UsedBlocks(d) /\ w \notin TreeInodes(d)
         /\ \A i \in TreeInodes(d) \ {t} : SameAt(d, e, i)
         /\ ReadInode(e, t) = ReadInode(d, t) /\ TypeAt(e, t) = TypeAt(d, t) /\ BlocksAt(e, t) = BlocksAt(d, t)
         /\ \A k \in Block \ {w} : ReadEntries(e, k) = ReadEntries(d, k)
         /\ BlocksAt(d, t) \subseteq Block
<1> DEFINE T == TreeInodes(d)
<1>1. UsedBlocks(d) = T \cup UNION {BlocksAt(d, i) : i \in T} /\ T \subseteq Block /\ t \in T
  BY UsedFacts, TreeClosed
<1>2. t \in Block /\ BlocksAt(d, t) \subseteq Block /\ w \in Block /\ w \in UsedBlocks(d)
  BY <1>1, ReadInodeFacts
<1>3. \A i \in T : \A k \in BlocksAt(d, i) : k \notin T
  BY DEF InOrder
<1>4. \A i, j \in T : i # j => BlocksAt(d, i) \cap BlocksAt(d, j) = {}
  BY DEF InOrder
<1>5. w \notin T
  BY <1>1, <1>3
<1>6. \A i \in T \ {t} : w \notin BlocksAt(d, i)
  BY <1>1, <1>4
<1> HIDE DEF T
<1>7. \A i \in T \ {t} : SameAt(d, e, i)
  <2>1. TAKE i \in T \ {t}
  <2>2. i \in Block /\ e[i] = d[i] /\ BlocksAt(d, i) \subseteq Block
    BY <1>1, <1>5, ReadInodeFacts
  <2>3. \A k \in BlocksAt(d, i) : e[k] = d[k]
    BY <1>6, <2>2
  <2>4. QED
    BY <2>2, <2>3, FrameAt
<1>8. e[t] = d[t]
  BY <1>1, <1>2, <1>5
<1>9. ReadInode(e, t) = ReadInode(d, t)
  BY <1>8 DEF ReadInode
<1>10. \A k \in Block \ {w} : ReadEntries(e, k) = ReadEntries(d, k)
  BY DEF ReadEntries
<1>11. QED
  BY <1>2, <1>5, <1>7, <1>9, <1>10 DEF T, TypeAt, BlocksAt

\* What a write to the inode of t leaves as it was.
LEMMA TouchInode ==
  ASSUME NEW d \in [Block -> Content], NEW e \in [Block -> Content], InOrder(d),
         NEW t \in TreeInodes(d), \A b \in Block \ {t} : e[b] = d[b]
  PROVE  /\ t \in Block /\ t \notin BlocksAt(d, t) /\ BlocksAt(d, t) \subseteq Block
         /\ \A i \in TreeInodes(d) \ {t} : SameAt(d, e, i)
         /\ \A k \in Block \ {t} : ReadEntries(e, k) = ReadEntries(d, k) /\ ReadInode(e, k) = ReadInode(d, k)
<1> DEFINE T == TreeInodes(d)
<1>1. T \subseteq Block /\ t \in T
  BY TreeClosed
<1>2. \A i \in T : \A k \in BlocksAt(d, i) : k \notin T
  BY DEF InOrder
<1> HIDE DEF T
<1>3. \A i \in T : t \notin BlocksAt(d, i)
  BY <1>1, <1>2
<1>4. \A i \in T \ {t} : SameAt(d, e, i)
  <2>1. TAKE i \in T \ {t}
  <2>2. i \in Block /\ e[i] = d[i] /\ BlocksAt(d, i) \subseteq Block
    BY <1>1, ReadInodeFacts
  <2>3. \A k \in BlocksAt(d, i) : e[k] = d[k]
    BY <1>3, <2>2
  <2>4. QED
    BY <2>2, <2>3, FrameAt
<1>5. BlocksAt(d, t) \subseteq Block /\ t \in Block
  BY <1>1, ReadInodeFacts
<1>6. \A k \in Block \ {t} : ReadEntries(e, k) = ReadEntries(d, k) /\ ReadInode(e, k) = ReadInode(d, k)
  BY DEF ReadEntries, ReadInode
<1>7. QED
  BY <1>1, <1>3, <1>4, <1>5, <1>6 DEF T

\* An empty inode, of a type.
LEMMA NewInode ==
  ASSUME NEW d \in [Block -> Content], NEW c \in Block, NEW r \in Request, r.op = "create",
         d[c] = Inode(r.type, r.user, <<>>)
  PROVE  TypeAt(d, c) \in {"f", "d"} /\ ReadInode(d, c).blocks = <<>> /\ BlocksAt(d, c) = {} /\ Slots(d, c) = {}
<1>1. r.type \in {"f", "d"}
  BY RequestFacts
<1>2. ReadInode(d, c) = Inode(r.type, r.user, <<>>)
  BY DEF ReadInode, Inode
<1>3. ReadInode(d, c).blocks = <<>> /\ ReadInode(d, c).type = r.type
  BY <1>2 DEF Inode
<1>4. BlocksAt(d, c) = {ReadInode(d, c).blocks[k] : k \in 1 .. Len(ReadInode(d, c).blocks)}
  BY ReadInodeFacts
<1>5. BlocksAt(d, c) = {}
  BY <1>3, <1>4
<1>6. Slots(d, c) = {}
  BY <1>5 DEF Slots
<1>7. QED
  BY <1>1, <1>3, <1>5, <1>6 DEF TypeAt

\* e is d with c written to block w.
Rewritten(d, e, w, c) == e = [d EXCEPT ![w] = c]

\* What is then in it.
LEMMA RewrittenFacts ==
  ASSUME NEW d \in [Block -> Content], NEW w \in Block, NEW c \in Content, NEW e, Rewritten(d, e, w, c)
  PROVE  e \in [Block -> Content] /\ e[w] = c /\ \A b \in Block \ {w} : e[b] = d[b]
  BY DEF Rewritten

\* What linking needs: a directory of the tree, a name that is new in it, and an
\* inode written to a block outside the tree.
Linkable(d, t, r, L) ==
  /\ t \in TreeInodes(d) /\ TypeAt(d, t) = "d"
  /\ r \in Request /\ r.op = "create"
  /\ L.reserved \in Block \ UsedBlocks(d) /\ d[L.reserved] = Inode(r.type, r.user, <<>>)
  /\ \A u \in Slots(d, t) : EntryIn(d, u).name # Last(r.path)

\* The entry is written to a block of the directory.
LEMMA LinkInPlace ==
  ASSUME NEW d \in [Block -> Content], InOrder(d), NEW t, NEW r, NEW L, Linkable(d, t, r, L),
         NEW w \in BlocksAt(d, t), NEW j \in 1 .. DirEntries, EntryIn(d, <<w, j>>).inode_block = 0,
         NEW e, Rewritten(d, e, w, DirData(Linking(ReadEntries(d, w), j, r, L))), NEW C, C = {L.reserved}
  PROVE  /\ w \in Block /\ DirData(Linking(ReadEntries(d, w), j, r, L)) \in Content
         /\ InOrder(e) /\ Apart(d, e, C) /\ UsedBlocks(e) = UsedBlocks(d) \cup {L.reserved}
<1> DEFINE c == L.reserved
           s == <<w, j>>
           new == Linking(ReadEntries(d, w), j, r, L)
<1>1. /\ t \in TreeInodes(d) /\ TypeAt(d, t) = "d" /\ r \in Request /\ r.op = "create"
      /\ L.reserved \in Block /\ L.reserved \notin UsedBlocks(d) /\ d[L.reserved] = Inode(r.type, r.user, <<>>)
      /\ \A u \in Slots(d, t) : EntryIn(d, u).name # Last(r.path)
  BY DEF Linkable
<1>2. L.reserved \in Block \ {0}
  BY <1>1, UsedFacts
<1>3. w \in Block /\ w \in UsedBlocks(d)
  BY <1>1, UsedFacts, ReadInodeFacts, TreeClosed
<1> DEFINE old == ReadEntries(d, w)
<1>4. /\ new \in [1 .. DirEntries -> DirEntry] /\ new[j] = [name |-> Last(r.path), inode_block |-> c]
      /\ \A i \in (1 .. DirEntries) \ {j} : new[i] = old[i]
  <2>1. old \in [1 .. DirEntries -> DirEntry]
    BY <1>3, ReadDataFacts
  <2> HIDE DEF old
  <2> DEFINE entry == [name |-> Last(r.path), inode_block |-> c]
  <2>2. entry \in DirEntry
    BY <1>1, <1>2, RequestFacts DEF DirEntry
  <2>3. new = [old EXCEPT ![j] = entry]
    BY DEF Linking, old
  <2> HIDE DEF entry, new
  <2>4. QED
    BY <2>1, <2>2, <2>3 DEF entry
<1>5. DirData(new) \in Content
  BY <1>4 DEF Content
<1> HIDE DEF new
<1>6. /\ e \in [Block -> Content] /\ e[w] = DirData(new) /\ \A b \in Block \ {w} : e[b] = d[b]
  <2>1. Rewritten(d, e, w, DirData(new))
    BY DEF new
  <2>2. QED
    BY <1>3, <1>5, <2>1, RewrittenFacts
<1>7. /\ \A i \in TreeInodes(d) \ {t} : SameAt(d, e, i)
      /\ ReadInode(e, t) = ReadInode(d, t) /\ TypeAt(e, t) = "d" /\ BlocksAt(e, t) = BlocksAt(d, t)
      /\ \A k \in Block \ {w} : ReadEntries(e, k) = ReadEntries(d, k)
      /\ BlocksAt(d, t) \subseteq Block /\ t \in Block
  BY <1>1, <1>6, TouchBlock
<1>8. ReadEntries(e, w) = new
  BY <1>6 DEF ReadEntries, DirData
<1>9. s[1] = w /\ s[2] = j /\ s = <<s[1], s[2]>>
  OBVIOUS
<1>10. EntryIn(e, s).name = Last(r.path) /\ EntryIn(e, s).inode_block = c
  BY <1>4, <1>8, <1>9 DEF EntryIn
<1> HIDE DEF s
<1>11. \A u \in BlocksAt(d, t) \X (1 .. DirEntries) : u # s => EntryIn(e, u) = EntryIn(d, u)
  <2>1. TAKE u \in BlocksAt(d, t) \X (1 .. DirEntries)
  <2>2. u = <<u[1], u[2]>> /\ u[1] \in BlocksAt(d, t) /\ u[1] \in Block /\ u[2] \in 1 .. DirEntries
    BY <1>7
  <2>3. CASE u[1] # w
    BY <1>7, <2>2, <2>3 DEF EntryIn
  <2>4. CASE u[1] = w /\ u[2] # j
    BY <1>4, <1>8, <2>2, <2>4 DEF EntryIn
  <2>5. CASE u[1] = w /\ u[2] = j
    BY <2>2, <2>5 DEF s
  <2>6. QED
    BY <2>3, <2>4, <2>5
<1>12. EntryIn(d, s).inode_block = 0
  BY DEF s
<1>13. s[1] \in BlocksAt(e, t) /\ s[2] \in 1 .. DirEntries /\ EntryIn(e, s).inode_block # 0
  BY <1>2, <1>7, <1>9, <1>10 DEF c
<1>14. /\ Slots(e, t) = Slots(d, t) \cup {s}
       /\ \A u \in Slots(d, t) : EntryIn(e, u) = EntryIn(d, u)
  <2>1. \A u \in BlocksAt(e, t) \X (1 .. DirEntries) : u[1] \notin BlocksAt(d, t) /\ u # s => EntryIn(e, u).inode_block = 0
    BY <1>7
  <2>2. BlocksAt(d, t) \subseteq BlocksAt(e, t)
    BY <1>7
  <2>3. QED
    BY <1>1, <1>6, <1>7, <1>9, <1>11, <1>12, <1>13, <2>1, <2>2, SlotsByEntries
<1>15. IsInjective(ReadInode(e, t).blocks) /\ \A k \in BlocksAt(e, t) : e[k].kind = "entries"
  <2>1. IsInjective(ReadInode(d, t).blocks)
    BY <1>1 DEF InOrder
  <2>2. \A k \in BlocksAt(d, t) : d[k].kind = "entries"
    BY <1>1 DEF InOrder
  <2>3. e[w].kind = "entries"
    BY <1>6 DEF DirData
  <2>4. QED
    BY <1>6, <1>7, <2>1, <2>2, <2>3
<1>16. c \in Block /\ c \notin UsedBlocks(d) /\ e[c] = d[c] /\ d[c] = Inode(r.type, r.user, <<>>)
  BY <1>1, <1>3, <1>6 DEF c
<1> HIDE DEF c
<1>17. /\ TypeAt(e, c) \in {"f", "d"} /\ ReadInode(e, c).blocks = <<>> /\ Slots(d, c) = {}
  BY <1>1, <1>6, <1>16, NewInode
<1>18. PICK B : B = {}
  OBVIOUS
<1>19. /\ InOrder(e) /\ Apart(d, e, C)
       /\ UsedBlocks(e) = UsedBlocks(d) \cup {c} \cup B
  <2>1. /\ B \cap UsedBlocks(d) = {} /\ c \notin UsedBlocks(d) \cup B /\ B \subseteq {s[1]}
        /\ BlocksAt(e, t) = BlocksAt(d, t) \cup B
    BY <1>7, <1>16, <1>18
  <2>2. \A u \in Slots(d, t) : EntryIn(e, u) = EntryIn(d, u) /\ EntryIn(d, u).name # EntryIn(e, s).name
    BY <1>1, <1>10, <1>14
  <2>3. t \in TreeInodes(d) /\ TypeAt(d, t) = "d" /\ TypeAt(e, t) = "d" /\ e \in [Block -> Content] /\ c \in Block
    BY <1>1, <1>6, <1>7, <1>16
  <2>4. /\ s[1] \in BlocksAt(e, t) /\ s = <<s[1], s[2]>> /\ s[2] \in 1 .. DirEntries
        /\ EntryIn(e, s).inode_block = c /\ Slots(e, t) = Slots(d, t) \cup {s}
    BY <1>9, <1>10, <1>13, <1>14
  <2>5. \A i \in TreeInodes(d) \ {t} : SameAt(d, e, i)
    BY <1>7
  <2>6. Grows(d, e, t, B, c, s)
    BY <1>15, <1>16, <1>17, <2>1, <2>2, <2>3, <2>4, <2>5 DEF Grows
  <2>7. C = {c}
    BY DEF c
  <2>8. QED
    BY <2>6, <2>7, <1>6, GrowTree
<1>20. QED
  BY <1>3, <1>5, <1>18, <1>19 DEF new, c

\* The entry is in a block of its own, x, and the directory grows by it.
LEMMA LinkInNewBlock ==
  ASSUME NEW d \in [Block -> Content], InOrder(d), NEW t, NEW r, NEW L, Linkable(d, t, r, L),
         NEW x \in Block, x \notin UsedBlocks(d), x # L.reserved, NEW j \in 1 .. DirEntries,
         d[x] = DirData(Linking(NoEntries, j, r, L)),
         Len(ReadInode(d, t).blocks) < MaxFileBlocks,
         NEW e, Rewritten(d, e, t, Longer(ReadInode(d, t), x)), NEW C, C = {L.reserved}
  PROVE  /\ t \in Block /\ Longer(ReadInode(d, t), x) \in Content
         /\ InOrder(e) /\ Apart(d, e, C) /\ UsedBlocks(e) = UsedBlocks(d) \cup {L.reserved, x}
<1> DEFINE c == L.reserved
           s == <<x, j>>
           new == Linking(NoEntries, j, r, L)
           inode == Longer(ReadInode(d, t), x)
<1>1. /\ t \in TreeInodes(d) /\ TypeAt(d, t) = "d" /\ r \in Request /\ r.op = "create"
      /\ L.reserved \in Block /\ L.reserved \notin UsedBlocks(d) /\ d[L.reserved] = Inode(r.type, r.user, <<>>)
      /\ \A u \in Slots(d, t) : EntryIn(d, u).name # Last(r.path)
  BY DEF Linkable
<1>2. L.reserved \in Block \ {0}
  BY <1>1, UsedFacts
<1>3. /\ t \in Block /\ BlocksAt(d, t) \subseteq Block /\ BlocksAt(d, t) \subseteq UsedBlocks(d) /\ x # t
      /\ L.reserved # t /\ t \notin BlocksAt(d, t)
  <2>1. t \in UsedBlocks(d) /\ t \in Block /\ BlocksAt(d, t) \subseteq UsedBlocks(d) /\ UsedBlocks(d) \subseteq Block
    BY <1>1, UsedFacts, TreeClosed
  <2>2. t \notin BlocksAt(d, t)
    BY <1>1 DEF InOrder
  <2>3. QED
    BY <1>1, <2>1, <2>2
<1>4. /\ new[j] = [name |-> Last(r.path), inode_block |-> c]
      /\ \A i \in (1 .. DirEntries) \ {j} : new[i] = Unused
  <2> DEFINE entry == [name |-> Last(r.path), inode_block |-> c]
  <2>1. entry \in DirEntry
    BY <1>1, <1>2, RequestFacts DEF DirEntry
  <2>2. new = [NoEntries EXCEPT ![j] = entry]
    BY DEF Linking
  <2> HIDE DEF entry, new
  <2>3. new[j] = entry /\ \A i \in (1 .. DirEntries) \ {j} : new[i] = Unused
    BY <2>1, <2>2 DEF NoEntries
  <2>4. QED
    BY <2>3 DEF entry
<1>5. /\ inode \in Inodes /\ inode.type = "d" /\ inode.kind = "inode"
      /\ ToSet(inode.blocks) = BlocksAt(d, t) \cup {x} /\ IsInjective(inode.blocks)
  <2>1. IsInjective(ReadInode(d, t).blocks)
    BY <1>1 DEF InOrder
  <2>2. x \notin BlocksAt(d, t)
    BY <1>3
  <2>3. QED
    BY <1>1, <1>3, <2>1, <2>2, LongerFacts
<1>6. inode \in Content
  BY <1>5 DEF Content
<1>7. /\ e \in [Block -> Content] /\ e[t] = inode /\ \A b \in Block \ {t} : e[b] = d[b]
  <2>1. Rewritten(d, e, t, inode)
    OBVIOUS
  <2> HIDE DEF inode
  <2>2. QED
    BY <1>3, <1>6, <2>1, RewrittenFacts
<1> HIDE DEF new, inode
<1>8. /\ \A i \in TreeInodes(d) \ {t} : SameAt(d, e, i)
      /\ \A k \in Block \ {t} : ReadEntries(e, k) = ReadEntries(d, k) /\ ReadInode(e, k) = ReadInode(d, k)
  BY <1>1, <1>7, TouchInode
<1>9. ReadInode(e, t) = inode
  BY <1>5, <1>7 DEF ReadInode
<1>10. TypeAt(e, t) = "d" /\ BlocksAt(e, t) = BlocksAt(d, t) \cup {x}
  BY <1>5, <1>9 DEF TypeAt, BlocksAt
<1>11. ReadEntries(e, x) = new /\ e[x].kind = "entries"
  <2>1. ReadEntries(d, x) = new /\ d[x].kind = "entries"
    BY DEF ReadEntries, DirData, new
  <2>2. QED
    BY <1>3, <1>7, <1>8, <2>1
<1>12. s[1] = x /\ s[2] = j /\ s = <<s[1], s[2]>>
  OBVIOUS
<1>13. EntryIn(e, s).name = Last(r.path) /\ EntryIn(e, s).inode_block = c
  BY <1>4, <1>11, <1>12 DEF EntryIn
<1> HIDE DEF s
<1>14. \A u \in BlocksAt(d, t) \X (1 .. DirEntries) : u # s => EntryIn(e, u) = EntryIn(d, u)
  <2>1. TAKE u \in BlocksAt(d, t) \X (1 .. DirEntries)
  <2>2. u[1] \in BlocksAt(d, t)
    OBVIOUS
  <2>3. ReadEntries(e, u[1]) = ReadEntries(d, u[1])
    BY <1>3, <1>8, <2>2
  <2>4. QED
    BY <2>3 DEF EntryIn
<1>15. \A u \in BlocksAt(e, t) \X (1 .. DirEntries) : u[1] \notin BlocksAt(d, t) /\ u # s => EntryIn(e, u).inode_block = 0
  <2>1. TAKE u \in BlocksAt(e, t) \X (1 .. DirEntries)
  <2>2. HAVE u[1] \notin BlocksAt(d, t) /\ u # s
  <2>3. u = <<u[1], u[2]>> /\ u[1] = x /\ u[2] \in 1 .. DirEntries
    BY <1>10, <2>2
  <2>4. u[2] # j
    BY <2>2, <2>3 DEF s
  <2>5. EntryIn(e, u) = Unused
    BY <1>4, <1>11, <2>3, <2>4 DEF EntryIn
  <2>6. QED
    BY <2>5 DEF Unused
<1>16. s[1] \in BlocksAt(e, t) /\ s[2] \in 1 .. DirEntries /\ EntryIn(e, s).inode_block # 0 /\ s[1] \notin BlocksAt(d, t)
  BY <1>2, <1>3, <1>10, <1>12, <1>13 DEF c
<1>17. /\ Slots(e, t) = Slots(d, t) \cup {s}
       /\ \A u \in Slots(d, t) : EntryIn(e, u) = EntryIn(d, u)
  <2>1. BlocksAt(d, t) \subseteq BlocksAt(e, t) /\ TypeAt(d, t) = "d"
    BY <1>1, <1>10
  <2>2. QED
    BY <1>3, <1>7, <1>10, <1>12, <1>14, <1>15, <1>16, <2>1, SlotsByEntries
<1>18. IsInjective(ReadInode(e, t).blocks) /\ \A k \in BlocksAt(e, t) : e[k].kind = "entries"
  <2>1. \A k \in BlocksAt(d, t) : d[k].kind = "entries"
    BY <1>1 DEF InOrder
  <2>2. \A k \in BlocksAt(d, t) : e[k] = d[k]
    BY <1>3, <1>7
  <2>3. QED
    BY <1>5, <1>9, <1>10, <1>11, <2>1, <2>2
<1>19. c \in Block /\ c \notin UsedBlocks(d) /\ e[c] = d[c] /\ d[c] = Inode(r.type, r.user, <<>>) /\ c # x
  BY <1>1, <1>3, <1>7 DEF c
<1>20. C = {c}
  BY DEF c
<1> HIDE DEF c
<1>21. /\ TypeAt(e, c) \in {"f", "d"} /\ ReadInode(e, c).blocks = <<>> /\ Slots(d, c) = {}
  BY <1>1, <1>7, <1>19, NewInode
<1>22. PICK B : B = {x}
  OBVIOUS
<1>23. Grows(d, e, t, B, c, s)
  <2>1. /\ B \cap UsedBlocks(d) = {} /\ c \notin UsedBlocks(d) \cup B /\ B \subseteq {s[1]}
        /\ BlocksAt(e, t) = BlocksAt(d, t) \cup B
    BY <1>10, <1>12, <1>19, <1>22
  <2>2. \A u \in Slots(d, t) : EntryIn(e, u) = EntryIn(d, u) /\ EntryIn(d, u).name # EntryIn(e, s).name
    BY <1>1, <1>13, <1>17
  <2>3. t \in TreeInodes(d) /\ TypeAt(d, t) = "d" /\ TypeAt(e, t) = "d" /\ c \in Block
    BY <1>1, <1>10, <1>19
  <2>4. /\ s[1] \in BlocksAt(e, t) /\ s = <<s[1], s[2]>> /\ s[2] \in 1 .. DirEntries
        /\ EntryIn(e, s).inode_block = c /\ Slots(e, t) = Slots(d, t) \cup {s}
    BY <1>12, <1>13, <1>16, <1>17
  <2>5. \A i \in TreeInodes(d) \ {t} : SameAt(d, e, i)
    BY <1>8
  <2>6. QED
    BY <1>18, <1>21, <2>1, <2>2, <2>3, <2>4, <2>5 DEF Grows
<1>24. /\ InOrder(e) /\ Apart(d, e, C) /\ UsedBlocks(e) = UsedBlocks(d) \cup {c} \cup B
  <2>1. e \in [Block -> Content]
    BY <1>7
  <2>2. InOrder(e)
    BY <1>20, <1>23, <2>1, GrowTree
  <2>3. Apart(d, e, C)
    BY <1>20, <1>23, <2>1, GrowTree
  <2>4. UsedBlocks(e) = UsedBlocks(d) \cup {c} \cup B
    BY <1>20, <1>23, <2>1, GrowTree
  <2>5. QED
    BY <2>2, <2>3, <2>4
<1>25. QED
  BY <1>3, <1>6, <1>22, <1>24 DEF inode, c

\* The new block of the directory is all that sets the one label apart from the other.
LEMMA GrowFacts ==
  ASSUME NEW d, NEW r, NEW L, L.grown, d[L.block] = DirData(L.entries)
  PROVE  /\ HandlerOK(d, "new_entry", r, L) => HandlerOK(d, "grow", r, L)
<1>1. SUFFICES ASSUME HandlerOK(d, "new_entry", r, L) PROVE HandlerOK(d, "grow", r, L)
  OBVIOUS
<1>2. /\ r \in Request /\ r.op = "create" /\ L \in LocalTypes
      /\ Resolve(d, Names(r)) = {L.target}
      /\ L.inode = Longer(ReadInode(d, L.target), L.block)
      /\ Len(ReadInode(d, L.target).blocks) < MaxFileBlocks
      /\ TypeAt(d, L.target) = "d"
      /\ L.block # L.reserved
      /\ d[L.reserved] = Inode(r.type, r.user, <<>>)
  BY <1>1, AtNewEntry
<1>3. \A s \in Slots(d, L.target) : EntryIn(d, s).name # Last(r.path)
  BY <1>1, AtNewEntry
<1>4. \E j \in 1 .. DirEntries : L.entries = Linking(NoEntries, j, r, L)
  BY <1>1, AtNewEntry
<1>5. QED
  BY <1>2, <1>3, <1>4, AtGrow

\* A handler that owns its target may write to it and to its blocks.
LEMMA OwnWritable ==
  ASSUME IInv, NEW h \in Handler, pc[h] \in OwnsTarget \cup {"clear", "shrink", "free_entries"}
  PROVE  /\ loc[h].target \in TreeInodes(disk) /\ loc[h].target \in Block
         /\ loc[h].target \in OwnedBy(pc[h], loc[h])
         /\ loc[h].target \in Writable(h)
         /\ \A w \in BlocksAt(disk, loc[h].target) : w \in Writable(h)
<1>1. pc[h] \in Modifying
  BY DEF OwnsTarget, Modifying, Creating, Deleting, Writing
<1>2. loc[h].target \in TreeInodes(disk) /\ loc[h].target \in Block
  BY <1>1, TargetInTree
<1>3. loc[h].target \in OwnedBy(pc[h], loc[h])
  <2>1. CASE pc[h] \in OwnsTarget
    BY <2>1, LocksAt DEF OwnsTarget
  <2>2. CASE pc[h] \in {"clear", "shrink", "free_entries"}
    BY <2>2, LocksAt
  <2>3. QED
    BY <2>1, <2>2
<1>4. BlocksAt(disk, loc[h].target) \subseteq Block
  BY <1>2, Here, ReadInodeFacts
<1>5. QED
  BY <1>2, <1>3, <1>4 DEF Writable

\* CreateWriteEntries(h), of a directory that grows.
LEMMA CreateWriteNewEntriesKept ==
  ASSUME IInv, NEW h \in Handler, CreateWriteEntries(h), loc[h].grown
  PROVE  IInv'
<1> DEFINE r == req[h]
           L == loc[h]
           c == DirData(L.entries)
<1>1. pc[h] = "new_entry" /\ HandlerOK(disk, "new_entry", r, L)
  <2>1. pc[h] = "new_entry"
    BY DEF CreateWriteEntries
  <2>2. QED
    BY <2>1, Here
<1>2. r \in Request /\ r.op = "create" /\ L \in LocalTypes /\ L.block # L.reserved
  BY <1>1, AtNewEntry
<1>3. /\ disk' = [disk EXCEPT ![L.block] = c] /\ Goto(h, "grow")
      /\ UNCHANGED <<free_blocks, locks, req, loc, outcome, received, crashes>>
  BY DEF CreateWriteEntries, locks
<1>4. Carried("grow", r, L) = Carried(pc[h], r, L) /\ L.block \in Carried(pc[h], r, L) /\ L.reserved \in Carried(pc[h], r, L)
  <2>1. Carried("new_entry", r, L) = {L.reserved, L.block}
    BY <1>2, CarriedCreating
  <2>2. Carried("grow", r, L) = {L.reserved, L.block}
    BY <1>2, CarriedCreating
  <2>3. QED
    BY <1>1, <2>1, <2>2
<1>5. L.block \in Block /\ L.reserved \in Block
  BY <1>4, FlightFacts
<1>6. c \in Content
  BY <1>2 DEF Content, LocalTypes
<1> HIDE DEF c
<1>7. disk'[L.block] = c /\ disk'[L.reserved] = disk[L.reserved]
  BY <1>2, <1>3, <1>5, Here
<1>8. HandlerOK(disk, "new_inode", r, L) /\ disk[L.reserved] = Inode(r.type, r.user, <<>>)
  <2> HIDE DEF r, L
  <2>1. QED
    BY <1>1, NewEntryFacts
<1>9. HandlerOK(disk', "new_inode", r, L) => HandlerOK(disk', "grow", r, L)
  <2>1. SUFFICES ASSUME HandlerOK(disk', "new_inode", r, L) PROVE HandlerOK(disk', "grow", r, L)
    OBVIOUS
  <2>2. disk'[L.reserved] = Inode(r.type, r.user, <<>>) /\ disk'[L.block] = DirData(L.entries) /\ L.grown
    BY <1>7, <1>8 DEF c
  <2> HIDE DEF r, L
  <2>3. HandlerOK(disk', "new_entry", r, L)
    BY <2>1, <2>2, NewEntryFacts
  <2>4. QED
    BY <2>2, <2>3, GrowFacts
<1>10. {"new_inode", "new_entry", "grow"} \subseteq OwnsTarget /\ "grow" \notin Decided
  BY DEF OwnsTarget, Creating, Decided
<1>11. QED
  BY <1>1, <1>3, <1>4, <1>6, <1>8, <1>9, <1>10, OwnBlockKept

\* The last write of create or of writeblock, which links what has been allocated.
LEMMA LinkingMoves ==
  ASSUME IInv, NEW h \in Handler, pc[h] \in {"new_entry", "grow", "write_data", "write_inode"}, DoneLocked(h, "reply"),
         UNCHANGED <<free_blocks, readers, req, loc, received, crashes>>,
         NEW w \in Writable(h), NEW c \in Content, disk' = [disk EXCEPT ![w] = c],
         NEW C, C \subseteq Carried(pc[h], req[h], loc[h]), InOrder(disk'), Apart(disk, disk', C),
         UsedBlocks(disk') = UsedBlocks(disk) \cup Carried(pc[h], req[h], loc[h])
  PROVE  IInv'
<1>1. req[h] \in Request /\ loc[h] \in LocalTypes
  <2>1. CASE pc[h] = "new_entry"
    <3>1. HandlerOK(disk, "new_entry", req[h], loc[h])
      BY <2>1, Here
    <3>2. QED
      BY <3>1, AtNewEntry
  <2>2. CASE pc[h] = "grow"
    <3>1. HandlerOK(disk, "grow", req[h], loc[h])
      BY <2>2, Here
    <3>2. QED
      BY <3>1, AtGrow
  <2>3. CASE pc[h] = "write_data"
    <3>1. HandlerOK(disk, "write_data", req[h], loc[h])
      BY <2>3, Here
    <3>2. QED
      BY <3>1, AtWriteData
  <2>4. CASE pc[h] = "write_inode"
    <3>1. HandlerOK(disk, "write_inode", req[h], loc[h])
      BY <2>4, Here
    <3>2. QED
      BY <3>1, AtWriteInode
  <2>5. QED
    BY <2>1, <2>2, <2>3, <2>4
<1>2. Goto(h, "reply") /\ outcome' = [outcome EXCEPT ![h] = "ok"] /\ writer' = Disowned({loc[h].target})
  BY DEF DoneLocked
<1>3. Moves(h, "reply", req[h], loc[h]) /\ Decides(h, "reply")
  <2>1. "ok" \in Answered
    BY DEF Answered
  <2>2. QED
    BY <1>2, <2>1, MovesOn DEF Decides
<1>4. HandlerOK(disk', "reply", req[h], loc[h])
  BY <1>1, AtReply
<1>5. /\ readers' \in [Block -> SUBSET Handler] /\ writer' \in [Block -> Handler \cup {NoHandler}]
      /\ LocksMove(h, SharedBy("reply", req[h], loc[h]), OwnedBy("reply", loc[h]))
  <2>1. "reply" \in OwnsNothing /\ readers' = readers /\ pc[h] \in OwnsTarget
    BY DEF OwnsNothing, OwnsTarget, Creating, Writing
  <2>2. QED
    BY <1>2, <2>1, TargetReleased
<1>6. Carried("reply", req[h], loc[h]) = {}
  BY <1>1, CarriedDone
<1>7. Movable(h, C)
  BY DEF Movable
<1>8. QED
  BY <1>3, <1>4, <1>5, <1>6, <1>7, WritingMoves

\* CreateWriteEntries(h)
LEMMA CreateWriteEntriesKept ==
  ASSUME IInv, NEW h \in Handler, CreateWriteEntries(h)
  PROVE  IInv'
<1> DEFINE r == req[h]
           L == loc[h]
           t == L.target
<1>1. CASE L.grown
  BY <1>1, CreateWriteNewEntriesKept
<1>2. CASE ~L.grown
  <2>1. pc[h] = "new_entry" /\ HandlerOK(disk, "new_entry", r, L)
    <3>1. pc[h] = "new_entry"
      BY DEF CreateWriteEntries
    <3>2. QED
      BY <3>1, Here
  <2>2. /\ r \in Request /\ r.op = "create" /\ L \in LocalTypes /\ TypeAt(disk, t) = "d"
        /\ L.block \in BlocksAt(disk, t) /\ disk[L.reserved] = Inode(r.type, r.user, <<>>)
    BY <1>2, <2>1, AtNewEntry
  <2>3. \A s \in Slots(disk, t) : EntryIn(disk, s).name # Last(r.path)
    BY <2>1, AtNewEntry
  <2>4. PICK j \in 1 .. DirEntries : /\ EntryIn(disk, <<L.block, j>>).inode_block = 0
                                     /\ L.entries = Linking(ReadEntries(disk, L.block), j, r, L)
    <3> HIDE DEF r, L
    <3>1. \E j \in 1 .. DirEntries : /\ EntryIn(disk, <<L.block, j>>).inode_block = 0
                                     /\ L.entries = Linking(ReadEntries(disk, L.block), j, r, L)
      BY <1>2, <2>1, AtNewEntry
    <3>2. QED
      BY <3>1
  <2>5. /\ disk' = [disk EXCEPT ![L.block] = DirData(L.entries)] /\ DoneLocked(h, "reply")
        /\ UNCHANGED <<free_blocks, readers, req, loc, received, crashes>>
    BY <1>2 DEF CreateWriteEntries
  <2>6. pc[h] \in OwnsTarget
    BY <2>1 DEF OwnsTarget, Creating
  <2>7. t \in TreeInodes(disk) /\ L.block \in Writable(h)
    BY <2>2, <2>6, OwnWritable
  <2>8. Carried(pc[h], r, L) = {L.reserved}
    BY <1>2, <2>1, <2>2, CarriedCreating
  <2>9. L.reserved \in Block \ UsedBlocks(disk)
    BY <2>8, FlightFacts
  <2>10. Linkable(disk, t, r, L)
    BY <2>2, <2>3, <2>7, <2>9 DEF Linkable
  <2>11. PICK C : C = {L.reserved}
    OBVIOUS
  <2>12. Rewritten(disk, disk', L.block, DirData(Linking(ReadEntries(disk, L.block), j, r, L)))
    BY <2>4, <2>5 DEF Rewritten
  <2>13. /\ DirData(L.entries) \in Content /\ InOrder(disk') /\ Apart(disk, disk', C)
         /\ UsedBlocks(disk') = UsedBlocks(disk) \cup {L.reserved}
    <3>1. disk \in [Block -> Content] /\ InOrder(disk)
      BY Here
    <3> HIDE DEF r, L, t
    <3>2. L.block \in BlocksAt(disk, t)
      BY <2>2
    <3>3. EntryIn(disk, <<L.block, j>>).inode_block = 0
      BY <2>4
    <3>4. DirData(Linking(ReadEntries(disk, L.block), j, r, L)) \in Content
      BY <2>10, <2>11, <2>12, <3>1, <3>2, <3>3, LinkInPlace
    <3>5. InOrder(disk')
      BY <2>10, <2>11, <2>12, <3>1, <3>2, <3>3, LinkInPlace
    <3>6. Apart(disk, disk', C)
      BY <2>10, <2>11, <2>12, <3>1, <3>2, <3>3, LinkInPlace
    <3>7. UsedBlocks(disk') = UsedBlocks(disk) \cup {L.reserved}
      BY <2>10, <2>11, <2>12, <3>1, <3>2, <3>3, LinkInPlace
    <3>8. QED
      BY <2>4, <3>4, <3>5, <3>6, <3>7
  <2>14. QED
    BY <2>1, <2>5, <2>7, <2>8, <2>11, <2>13, LinkingMoves
<1>3. QED
  BY <1>1, <1>2

\* CreateWriteParent(h)
LEMMA CreateWriteParentKept ==
  ASSUME IInv, NEW h \in Handler, CreateWriteParent(h)
  PROVE  IInv'
<1> DEFINE r == req[h]
           L == loc[h]
           t == L.target
<1>1. pc[h] = "grow" /\ HandlerOK(disk, "grow", r, L)
  <2>1. pc[h] = "grow"
    BY DEF CreateWriteParent
  <2>2. QED
    BY <2>1, Here
<1>2. /\ r \in Request /\ r.op = "create" /\ L \in LocalTypes /\ L.grown /\ TypeAt(disk, t) = "d"
      /\ L.inode = Longer(ReadInode(disk, t), L.block) /\ Len(ReadInode(disk, t).blocks) < MaxFileBlocks
      /\ L.block # L.reserved
      /\ disk[L.reserved] = Inode(r.type, r.user, <<>>) /\ disk[L.block] = DirData(L.entries)
  BY <1>1, AtGrow
<1>3. \A s \in Slots(disk, t) : EntryIn(disk, s).name # Last(r.path)
  BY <1>1, AtGrow
<1>4. PICK j \in 1 .. DirEntries : L.entries = Linking(NoEntries, j, r, L)
  BY <1>1, AtGrow
<1>5. /\ disk' = [disk EXCEPT ![t] = L.inode] /\ DoneLocked(h, "reply")
      /\ UNCHANGED <<free_blocks, readers, req, loc, received, crashes>>
  BY DEF CreateWriteParent
<1>6. t \in TreeInodes(disk) /\ t \in Writable(h)
  <2>1. pc[h] \in OwnsTarget
    BY <1>1 DEF OwnsTarget, Creating
  <2>2. QED
    BY <2>1, OwnWritable
<1>7. Carried(pc[h], r, L) = {L.reserved, L.block}
  BY <1>1, <1>2, CarriedCreating
<1>8. L.reserved \in Block \ UsedBlocks(disk) /\ L.block \in Block /\ L.block \notin UsedBlocks(disk)
  BY <1>7, FlightFacts
<1>9. Linkable(disk, t, r, L)
  BY <1>2, <1>3, <1>6, <1>8 DEF Linkable
<1>10. PICK C : C = {L.reserved}
  OBVIOUS
<1>11. Rewritten(disk, disk', t, Longer(ReadInode(disk, t), L.block))
  BY <1>2, <1>5 DEF Rewritten
<1>12. /\ L.inode \in Content /\ InOrder(disk') /\ Apart(disk, disk', C)
       /\ UsedBlocks(disk') = UsedBlocks(disk) \cup {L.reserved, L.block}
  <2>1. disk \in [Block -> Content] /\ InOrder(disk)
    BY Here
  <2> HIDE DEF r, L, t
  <2>2. disk[L.block] = DirData(Linking(NoEntries, j, r, L))
    BY <1>2, <1>4
  <2>3. /\ Longer(ReadInode(disk, t), L.block) \in Content
        /\ InOrder(disk') /\ Apart(disk, disk', C)
        /\ UsedBlocks(disk') = UsedBlocks(disk) \cup {L.reserved, L.block}
    BY <1>2, <1>8, <1>9, <1>10, <1>11, <2>1, <2>2, LinkInNewBlock
  <2>4. QED
    BY <1>2, <2>3
<1>13. QED
  BY <1>1, <1>5, <1>6, <1>7, <1>10, <1>12, LinkingMoves

-----------------------------------------------------------------------------
(* handle_delete *)

\* DeleteCheck(h)
LEMMA DeleteCheckKept ==
  ASSUME IInv, NEW h \in Handler, DeleteCheck(h)
  PROVE  IInv'
<1> DEFINE r == req[h]
           L == loc[h]
           b == L.target
           inode == ReadInode(disk, b)
           found == Named(disk, inode, Last(r.path))
           bad == ~DirUsable(inode, r.user) \/ found = {}
<1>1. /\ pc[h] = "delete" /\ r \in Request /\ r.op = "delete" /\ L \in LocalTypes /\ ~L.grown
      /\ Resolve(disk, Names(r)) = {b} /\ L.inode = inode
  <2>1. pc[h] = "delete"
    BY DEF DeleteCheck
  <2>2. HandlerOK(disk, "delete", r, L)
    BY <2>1, Here
  <2>3. QED
    BY <2>1, <2>2, AtDelete
<1>2. /\ disk' = disk /\ free_blocks' = free_blocks /\ req' = req /\ readers' = readers
      /\ UNCHANGED <<received, crashes>>
  BY DEF DeleteCheck
<1>3. {"delete", "child"} \subseteq OwnsTarget
  BY DEF OwnsTarget, Deleting
<1>4. b \in TreeInodes(disk) /\ b \in Block
  BY <1>1, <1>3, OwnWritable
<1>5. CASE bad
  <2>1. FailLocked(h) /\ loc' = loc
    BY <1>1, <1>5 DEF DeleteCheck
  <2>2. QED
    BY <1>1, <1>2, <1>3, <2>1, FailLockedKept
<1>6. CASE ~bad
  <2> DEFINE At(p) == [L EXCEPT !.place = p, !.child = EntryAt(disk, inode, p).inode_block,
                                !.block = inode.blocks[p[1]], !.entries = ReadEntries(disk, inode.blocks[p[1]])]
  <2>1. Goto(h, "child") /\ outcome' = outcome /\ writer' = writer
    BY <1>1, <1>6 DEF DeleteCheck
  <2>2. PICK p \in found : loc' = [loc EXCEPT ![h] = At(p)]
    <3>1. PICK p \in found :
            loc' = [loc EXCEPT ![h].place = p, ![h].child = EntryAt(disk, inode, p).inode_block,
                               ![h].block = inode.blocks[p[1]], ![h].entries = ReadEntries(disk, inode.blocks[p[1]])]
      BY <1>1, <1>6 DEF DeleteCheck
    <3> DEFINE k == inode.blocks[p[1]]
               c == EntryAt(disk, inode, p).inode_block
    <3>2. loc' = [loc EXCEPT ![h].place = p, ![h].child = c, ![h].block = k, ![h].entries = ReadEntries(disk, k)]
      BY <3>1
    <3>3. At(p) = [L EXCEPT !.place = p, !.child = c, !.block = k, !.entries = ReadEntries(disk, k)]
      OBVIOUS
    <3> HIDE DEF c, k, At
    <3>4. loc' = [loc EXCEPT ![h] = At(p)]
      BY <3>2, <3>3, Here
    <3>5. QED
      BY <3>4
  <2> DEFINE L1 == At(p)
             k == inode.blocks[p[1]]
             c == EntryAt(disk, inode, p).inode_block
  <2>3. /\ TypeAt(disk, b) = "d"
        /\ p[1] \in 1 .. Len(inode.blocks) /\ p[2] \in 1 .. DirEntries /\ p = <<p[1], p[2]>>
        /\ SlotOf(disk, b, p) \in Slots(disk, b)
        /\ EntryIn(disk, SlotOf(disk, b, p)) = EntryAt(disk, inode, p)
        /\ c \in Block
    BY <1>4, Here, NamedFacts
  <2>4. k \in BlocksAt(disk, b) /\ k \in Block /\ Len(inode.blocks) \in Nat
    BY <1>4, <2>3, Here, ReadInodeFacts
  <2>5. ReadEntries(disk, k) \in [1 .. DirEntries -> DirEntry] /\ k \in Nat
    BY <2>4, Here, ReadDataFacts, SizesAssumption DEF Block
  <2>6. p \in Nat \X Nat
    BY <2>3, <2>4, SizesAssumption
  <2>7. SlotOf(disk, b, p) = <<k, p[2]>>
    BY DEF SlotOf
  <2> HIDE DEF c, k
  <2>8. L1 = [L EXCEPT !.place = p, !.child = c, !.block = k, !.entries = ReadEntries(disk, k)]
    BY DEF c, k
  <2> HIDE DEF L1
  <2>9. /\ L1 \in LocalTypes /\ ~L1.grown /\ L1.target = b /\ L1.inode = inode /\ L1.reserved = L.reserved
        /\ L1.place = p /\ L1.child = c /\ L1.block = k /\ L1.entries = ReadEntries(disk, k)
    BY <1>1, <2>3, <2>5, <2>6, <2>8 DEF LocalTypes
  <2>10. EntrySlot(L1) = SlotOf(disk, b, p)
    BY <2>7, <2>9 DEF EntrySlot
  <2>11. EntrySlot(L1) \in Slots(disk, b) /\ EntryIn(disk, EntrySlot(L1)).inode_block = c
    BY <2>3, <2>10 DEF c
  <2>12. HandlerOK(disk, "child", r, L1)
    <3>1. L1.place[1] \in 1 .. Len(inode.blocks) /\ L1.place[2] \in 1 .. DirEntries /\ L1.block = inode.blocks[L1.place[1]]
      BY <2>3, <2>9 DEF k
    <3>2. /\ r \in Request /\ r.op = "delete" /\ L1 \in LocalTypes /\ ~L1.grown
          /\ Resolve(disk, Names(r)) = {L1.target} /\ L1.inode = ReadInode(disk, L1.target)
          /\ EntrySlot(L1) \in Slots(disk, L1.target)
          /\ EntryIn(disk, EntrySlot(L1)).inode_block = L1.child
          /\ L1.entries = ReadEntries(disk, L1.block)
      BY <1>1, <2>9, <2>11
    <3>3. /\ L1.place[1] \in 1 .. Len(ReadInode(disk, L1.target).blocks)
          /\ L1.block = ReadInode(disk, L1.target).blocks[L1.place[1]]
      BY <2>9, <3>1
    <3> HIDE DEF r
    <3>4. QED
      BY <3>1, <3>2, <3>3, AtChild
  <2>13. Moves(h, "child", r, L1) /\ Decides(h, "child")
    BY <1>2, <2>1, <2>2, MovesOn DEF Decides, Decided, L1
  <2>14. /\ readers' \in [Block -> SUBSET Handler] /\ writer' \in [Block -> Handler \cup {NoHandler}]
         /\ LocksMove(h, SharedBy("child", r, L1), OwnedBy("child", L1))
    <3>1. UNCHANGED locks /\ L1.target = loc[h].target
      BY <1>2, <2>1, <2>9 DEF locks
    <3>2. QED
      BY <1>1, <1>3, <3>1, TargetStill
  <2>15. Carried("child", r, L1) = Carried(pc[h], r, L)
    BY <1>1, <2>9, CarriedSame
  <2>16. QED
    BY <1>2, <2>1, <2>12, <2>13, <2>14, <2>15, StillMoves
<1>7. QED
  BY <1>5, <1>6

\* Entries without one of them.
LEMMA ClearedFacts ==
  ASSUME NEW entries \in [1 .. DirEntries -> DirEntry], NEW j \in 1 .. DirEntries
  PROVE  /\ Cleared(entries, j) \in [1 .. DirEntries -> DirEntry]
         /\ Cleared(entries, j)[j] = Unused
         /\ \A i \in (1 .. DirEntries) \ {j} : Cleared(entries, j)[i] = entries[i]
<1>1. Unused \in DirEntry
  BY DEF DirEntry
<1>2. QED
  BY <1>1 DEF Cleared

\* An inode with a block less.
LEMMA ShorterFacts ==
  ASSUME NEW d \in [Block -> Content], NEW i \in Block, TypeAt(d, i) \in {"f", "d"},
         NEW n \in 1 .. Len(ReadInode(d, i).blocks), IsInjective(ReadInode(d, i).blocks)
  PROVE  /\ Shorter(ReadInode(d, i), n) \in Inodes
         /\ Shorter(ReadInode(d, i), n).type = TypeAt(d, i) /\ Shorter(ReadInode(d, i), n).kind = "inode"
         /\ ToSet(Shorter(ReadInode(d, i), n).blocks) = BlocksAt(d, i) \ {ReadInode(d, i).blocks[n]}
         /\ IsInjective(Shorter(ReadInode(d, i), n).blocks)
<1> DEFINE inode == ReadInode(d, i)
<1>1. /\ inode \in AnyInode /\ inode.type \in {"f", "d"} /\ inode.blocks \in Seq(Block)
      /\ Len(inode.blocks) \in Nat /\ ToSet(inode.blocks) = BlocksAt(d, i) /\ Len(inode.blocks) <= MaxFileBlocks
  BY ReadInodeFacts DEF TypeAt, BlocksAt
<1>2. /\ inode = Inode(inode.type, inode.owner, inode.blocks) /\ inode.owner \in User \cup {NoOwner, Junk}
      /\ inode \in Inodes
  BY <1>1, InodeFacts
<1>3. inode.owner \in User \cup {NoOwner}
  BY <1>2 DEF Inodes, Inode
<1>4. n \in 1 .. Len(inode.blocks) /\ IsInjective(inode.blocks)
  OBVIOUS
<1> HIDE DEF inode
<1>5. Shorter(inode, n) = Inode(inode.type, inode.owner, RemoveAt(inode.blocks, n))
  BY <1>2 DEF Shorter, Inode
<1>6. /\ RemoveAt(inode.blocks, n) \in Seq(Block) /\ Len(RemoveAt(inode.blocks, n)) = Len(inode.blocks) - 1
  BY <1>1, <1>4, RemoveAtProperties
<1>7. /\ ToSet(RemoveAt(inode.blocks, n)) = ToSet(inode.blocks) \ {inode.blocks[n]}
      /\ IsInjective(RemoveAt(inode.blocks, n))
  BY <1>1, <1>4, ElementsOfRemoveAt
<1>8. Len(RemoveAt(inode.blocks, n)) <= MaxFileBlocks
  BY <1>1, <1>6, SizesAssumption
<1>9. Shorter(inode, n) \in Inodes
  BY <1>1, <1>3, <1>5, <1>6, <1>8, IsInode
<1>10. /\ Shorter(inode, n).type = inode.type /\ Shorter(inode, n).blocks = RemoveAt(inode.blocks, n)
       /\ Shorter(inode, n).kind = "inode"
  BY <1>5 DEF Inode
<1>11. QED
  BY <1>1, <1>7, <1>9, <1>10 DEF inode, TypeAt

\* The locks once the file to delete is locked as well.
LEMMA ChildLocked ==
  ASSUME IInv, NEW h \in Handler, pc[h] = "child", CanOwn(loc[h].child), readers' = readers,
         writer' = [writer EXCEPT ![loc[h].child] = h], NEW p \in {"clear", "shrink"}, NEW L,
         L.target = loc[h].target, L.child = loc[h].child
  PROVE  /\ readers' \in [Block -> SUBSET Handler] /\ writer' \in [Block -> Handler \cup {NoHandler}]
         /\ LocksMove(h, SharedBy(p, req[h], L), OwnedBy(p, L))
<1> DEFINE t == loc[h].target
           c == loc[h].child
<1>1. SharedBy("child", req[h], loc[h]) = {} /\ OwnedBy("child", loc[h]) = {t}
  BY LocksAt DEF Deleting
<1>2. SharedBy(p, req[h], L) = {} /\ OwnedBy(p, L) = {L.target, L.child}
  BY LocksAt
<1>3. OwnedBy(p, L) = {t, c}
  BY <1>2
<1>4. /\ readers \in [Block -> SUBSET Handler] /\ writer \in [Block -> Handler \cup {NoHandler}]
      /\ \A k \in Block : h \notin readers[k] /\ (writer[k] = h <=> k = t)
      /\ \A k \in Block : writer[k] # NoHandler => readers[k] = {}
  BY <1>1 DEF IInv, LockInv
<1>5. c \in Block /\ writer[c] = NoHandler /\ readers[c] = {}
  <2>1. loc[h] \in LocalTypes
    BY Here DEF HandlerOK
  <2>2. QED
    BY <2>1 DEF LocalTypes, CanOwn
<1>6. /\ writer' \in [Block -> Handler \cup {NoHandler}]
      /\ \A k \in Block : writer'[k] = IF k = c THEN h ELSE writer[k]
  BY <1>4, <1>5
<1>7. /\ \A k \in Block : (\A g \in Handler \ {h} : g \in readers'[k] <=> g \in readers[k])
                      /\ (h \in readers'[k] <=> k \in {})
  BY <1>4
<1>8. \A k \in Block : writer'[k] = IF k \in {t, c} THEN h ELSE IF writer[k] = h THEN NoHandler ELSE writer[k]
  BY <1>4, <1>5, <1>6
<1>9. \A k \in Block : k \in {t, c} => writer[k] = h \/ (writer[k] = NoHandler /\ readers[k] \subseteq {h})
  BY <1>4, <1>5
<1> HIDE DEF t, c
<1>10. PICK S : S = {}
  OBVIOUS
<1>11. PICK O : O = {t, c}
  OBVIOUS
<1>12. LocksMove(h, S, O)
  BY <1>7, <1>8, <1>9, <1>10, <1>11 DEF LocksMove
<1>13. S = SharedBy(p, req[h], L) /\ O = OwnedBy(p, L)
  BY <1>2, <1>3, <1>10, <1>11
<1>14. QED
  BY <1>4, <1>6, <1>12, <1>13

\* DeleteLockChild(h)
LEMMA DeleteLockChildKept ==
  ASSUME IInv, NEW h \in Handler, DeleteLockChild(h)
  PROVE  IInv'
<1> DEFINE r == req[h]
           L == loc[h]
           t == L.target
           c == L.child
           j == L.place[2]
           old == ReadInode(disk, c)
           inode == ReadInode(disk, t)
           entries == Cleared(L.entries, j)
<1>1. pc[h] = "child" /\ HandlerOK(disk, "child", r, L)
  <2>1. pc[h] = "child"
    BY DEF DeleteLockChild
  <2>2. QED
    BY <2>1, Here
<1>2. /\ r \in Request /\ r.op = "delete" /\ L \in LocalTypes /\ ~L.grown
      /\ Resolve(disk, Names(r)) = {t} /\ L.inode = inode
      /\ L.place[1] \in 1 .. Len(inode.blocks) /\ j \in 1 .. DirEntries
      /\ L.block = inode.blocks[L.place[1]]
      /\ EntrySlot(L) \in Slots(disk, t)
      /\ EntryIn(disk, EntrySlot(L)).inode_block = c
      /\ L.entries = ReadEntries(disk, L.block)
  BY <1>1, AtChild
<1>3. /\ disk' = disk /\ free_blocks' = free_blocks /\ req' = req /\ readers' = readers
      /\ UNCHANGED <<received, crashes>> /\ CanOwn(c)
  BY DEF DeleteLockChild
<1>4. pc[h] \in OwnsTarget
  BY <1>1 DEF OwnsTarget, Deleting
<1>5. t \in TreeInodes(disk) /\ t \in Block /\ c \in Block
  BY <1>2, <1>4, OwnWritable DEF LocalTypes
<1>6. old \in AnyInode /\ entries \in [1 .. DirEntries -> DirEntry]
  <2>1. L.entries \in [1 .. DirEntries -> DirEntry]
    BY <1>2 DEF LocalTypes
  <2>2. QED
    BY <1>2, <1>5, <2>1, Here, ReadInodeFacts, ClearedFacts
<1>7. entries = [L.entries EXCEPT ![j] = Unused]
  BY DEF Cleared
<1>8. CASE ~Deletable(old, r.user)
  <2>1. FailLocked(h) /\ loc' = loc
    BY <1>8 DEF DeleteLockChild
  <2>2. QED
    BY <1>2, <1>3, <1>4, <2>1, FailLockedKept
<1>9. CASE Deletable(old, r.user) /\ entries # NoEntries
  <2> DEFINE L1 == [L EXCEPT !.old = old, !.entries = entries]
  <2>1. /\ writer' = [writer EXCEPT ![c] = h] /\ outcome' = outcome /\ Goto(h, "clear")
        /\ loc' = [loc EXCEPT ![h].old = old, ![h].entries = entries]
    BY <1>7, <1>9 DEF DeleteLockChild
  <2> HIDE DEF old, entries
  <2>2. loc' = [loc EXCEPT ![h] = L1]
    BY <2>1, Here
  <2>3. /\ L1 \in LocalTypes /\ ~L1.grown /\ L1.target = t /\ L1.inode = inode /\ L1.reserved = L.reserved
        /\ L1.place = L.place /\ L1.child = c /\ L1.block = L.block /\ L1.entries = entries /\ L1.old = old
    BY <1>2, <1>6 DEF LocalTypes
  <2> HIDE DEF L1
  <2>4. EntrySlot(L1) = EntrySlot(L)
    BY <2>3 DEF EntrySlot
  <2>5. L1.entries = Cleared(ReadEntries(disk, L1.block), L1.place[2]) /\ L1.entries # NoEntries
    BY <1>2, <1>9, <2>3 DEF entries
  <2>6. L1.old = ReadInode(disk, L1.child) /\ (L1.old.type = "d" => L1.old.blocks = <<>>)
    BY <1>9, <2>3 DEF old, Deletable
  <2>7. HandlerOK(disk, "clear", r, L1)
    <3>1. /\ L1.place[1] \in 1 .. Len(ReadInode(disk, L1.target).blocks)
          /\ L1.place[2] \in 1 .. DirEntries
          /\ L1.block = ReadInode(disk, L1.target).blocks[L1.place[1]]
      BY <1>2, <2>3
    <3>2. /\ r \in Request /\ r.op = "delete" /\ L1 \in LocalTypes /\ ~L1.grown
          /\ Resolve(disk, Names(r)) = {L1.target} /\ L1.inode = ReadInode(disk, L1.target)
          /\ EntrySlot(L1) \in Slots(disk, L1.target)
          /\ EntryIn(disk, EntrySlot(L1)).inode_block = L1.child
      BY <1>2, <2>3, <2>4
    <3> HIDE DEF r
    <3>3. QED
      BY <2>5, <2>6, <3>1, <3>2, AtClear
  <2>8. Moves(h, "clear", r, L1) /\ Decides(h, "clear")
    BY <1>3, <2>1, <2>2, MovesOn DEF Decides, Decided
  <2>9. /\ readers' \in [Block -> SUBSET Handler] /\ writer' \in [Block -> Handler \cup {NoHandler}]
        /\ LocksMove(h, SharedBy("clear", r, L1), OwnedBy("clear", L1))
    BY <1>1, <1>3, <2>1, <2>3, ChildLocked
  <2>10. Carried("clear", r, L1) = Carried(pc[h], r, L)
    BY <1>1, <1>2, <2>3, CarriedSame
  <2>11. QED
    BY <1>3, <2>1, <2>7, <2>8, <2>9, <2>10, StillMoves
<1>10. CASE Deletable(old, r.user) /\ entries = NoEntries
  <2> DEFINE L1 == [L EXCEPT !.old = old, !.inode = Shorter(inode, L.place[1])]
  <2>1. /\ writer' = [writer EXCEPT ![c] = h] /\ outcome' = outcome /\ Goto(h, "shrink")
        /\ loc' = [loc EXCEPT ![h].old = old, ![h].inode.blocks = RemoveAt(@, loc[h].place[1])]
    BY <1>7, <1>10 DEF DeleteLockChild
  <2>2. loc' = [loc EXCEPT ![h] = L1]
    <3> HIDE DEF old
    <3>1. QED
      BY <1>2, <2>1, Here DEF Shorter
  <2>3. Shorter(inode, L.place[1]) \in AnyInode
    <3>1. TypeAt(disk, t) = "d"
      BY <1>2 DEF Slots
    <3>2. IsInjective(inode.blocks)
      BY <1>5, Here DEF InOrder
    <3>3. QED
      BY <1>2, <1>5, <3>1, <3>2, Here, ShorterFacts DEF AnyInode
  <2> HIDE DEF old, entries
  <2>4. /\ L1 \in LocalTypes /\ ~L1.grown /\ L1.target = t /\ L1.inode = Shorter(inode, L.place[1])
        /\ L1.reserved = L.reserved
        /\ L1.place = L.place /\ L1.child = c /\ L1.block = L.block /\ L1.old = old
    BY <1>2, <1>6, <2>3 DEF LocalTypes
  <2> HIDE DEF L1
  <2>5. EntrySlot(L1) = EntrySlot(L)
    BY <2>4 DEF EntrySlot
  <2>6. Cleared(ReadEntries(disk, L1.block), L1.place[2]) = NoEntries
    BY <1>2, <1>10, <2>4 DEF entries
  <2>7. L1.old = ReadInode(disk, L1.child) /\ (L1.old.type = "d" => L1.old.blocks = <<>>)
    BY <1>10, <2>4 DEF old, Deletable
  <2>8. HandlerOK(disk, "shrink", r, L1)
    <3>1. /\ L1.place[1] \in 1 .. Len(ReadInode(disk, L1.target).blocks)
          /\ L1.place[2] \in 1 .. DirEntries
          /\ L1.block = ReadInode(disk, L1.target).blocks[L1.place[1]]
          /\ L1.inode = Shorter(ReadInode(disk, L1.target), L1.place[1])
      BY <1>2, <2>4
    <3>2. /\ r \in Request /\ r.op = "delete" /\ L1 \in LocalTypes /\ ~L1.grown
          /\ Resolve(disk, Names(r)) = {L1.target}
          /\ EntrySlot(L1) \in Slots(disk, L1.target)
          /\ EntryIn(disk, EntrySlot(L1)).inode_block = L1.child
      BY <1>2, <2>4, <2>5
    <3> HIDE DEF r
    <3>3. QED
      BY <2>6, <2>7, <3>1, <3>2, AtShrink
  <2>9. Moves(h, "shrink", r, L1) /\ Decides(h, "shrink")
    BY <1>3, <2>1, <2>2, MovesOn DEF Decides, Decided
  <2>10. /\ readers' \in [Block -> SUBSET Handler] /\ writer' \in [Block -> Handler \cup {NoHandler}]
         /\ LocksMove(h, SharedBy("shrink", r, L1), OwnedBy("shrink", L1))
    BY <1>1, <1>3, <2>1, <2>4, ChildLocked
  <2>11. Carried("shrink", r, L1) = Carried(pc[h], r, L)
    BY <1>1, <1>2, <2>4, CarriedSame
  <2>12. QED
    BY <1>3, <2>1, <2>8, <2>9, <2>10, <2>11, StillMoves
<1>11. QED
  BY <1>8, <1>9, <1>10

\* The slots of a directory that loses the entry s, by the entries of its blocks.
LEMMA SlotsWithout ==
  ASSUME NEW d \in [Block -> Content], NEW e \in [Block -> Content], NEW t \in Block,
         TypeAt(d, t) = "d", TypeAt(e, t) = "d", NEW s \in Slots(d, t),
         BlocksAt(e, t) \subseteq BlocksAt(d, t),
         s[1] \in BlocksAt(e, t) => EntryIn(e, s).inode_block = 0,
         \A u \in BlocksAt(d, t) \X (1 .. DirEntries) : u # s => EntryIn(e, u) = EntryIn(d, u),
         \A u \in BlocksAt(d, t) \X (1 .. DirEntries) : u[1] \notin BlocksAt(e, t) /\ u # s => EntryIn(d, u).inode_block = 0
  PROVE  /\ Slots(e, t) = Slots(d, t) \ {s}
         /\ \A u \in Slots(e, t) : EntryIn(e, u) = EntryIn(d, u)
<1>1. \A u : u \in Slots(d, t) <=> u \in BlocksAt(d, t) \X (1 .. DirEntries) /\ EntryIn(d, u).inode_block # 0
  BY DEF Slots
<1>2. \A u : u \in Slots(e, t) <=> u \in BlocksAt(e, t) \X (1 .. DirEntries) /\ EntryIn(e, u).inode_block # 0
  BY DEF Slots
<1>3. \A u \in Slots(e, t) : u # s /\ u \in BlocksAt(d, t) \X (1 .. DirEntries)
  <2>1. TAKE u \in Slots(e, t)
  <2>2. u \in BlocksAt(e, t) \X (1 .. DirEntries) /\ EntryIn(e, u).inode_block # 0 /\ u[1] \in BlocksAt(e, t)
    BY <1>2
  <2>3. u # s
    BY <2>2
  <2>4. QED
    BY <2>2, <2>3
<1>4. \A u \in Slots(e, t) : EntryIn(e, u) = EntryIn(d, u) /\ u \in Slots(d, t) /\ u # s
  <2>1. TAKE u \in Slots(e, t)
  <2>2. u # s /\ u \in BlocksAt(d, t) \X (1 .. DirEntries) /\ EntryIn(e, u).inode_block # 0
    BY <1>2, <1>3
  <2>3. EntryIn(e, u) = EntryIn(d, u)
    BY <2>2
  <2>4. QED
    BY <1>1, <2>2, <2>3
<1>5. \A u \in Slots(d, t) : u # s => u \in Slots(e, t)
  <2>1. TAKE u \in Slots(d, t)
  <2>2. HAVE u # s
  <2>3. u \in BlocksAt(d, t) \X (1 .. DirEntries) /\ EntryIn(d, u).inode_block # 0
    BY <1>1
  <2>4. EntryIn(e, u) = EntryIn(d, u)
    BY <2>2, <2>3
  <2>5. u[1] \in BlocksAt(e, t)
    BY <2>2, <2>3
  <2>6. u \in BlocksAt(e, t) \X (1 .. DirEntries)
    BY <2>3, <2>5
  <2>7. QED
    BY <1>2, <2>3, <2>4, <2>6
<1>6. QED
  BY <1>4, <1>5

\* What unlinking needs: an entry of a directory of the tree that names a file, or
\* a directory without blocks.
Unlinkable(d, t, s, c) ==
  /\ t \in TreeInodes(d) /\ s \in Slots(d, t) /\ c = EntryIn(d, s).inode_block
  /\ TypeAt(d, c) = "d" => ReadInode(d, c).blocks = <<>>

\* What follows of them.
LEMMA UnlinkFacts ==
  ASSUME NEW d \in [Block -> Content], InOrder(d), NEW t, NEW s, NEW c, Unlinkable(d, t, s, c)
  PROVE  /\ t \in TreeInodes(d) /\ t \in Block /\ TypeAt(d, t) = "d"
         /\ s \in Slots(d, t) /\ c = EntryIn(d, s).inode_block
         /\ s[1] \in BlocksAt(d, t) /\ s[1] \in Block /\ s[2] \in 1 .. DirEntries /\ s = <<s[1], s[2]>>
         /\ c \in Block /\ Slots(d, c) = {} /\ c \in TreeInodes(d) /\ c \in Children(d, t)
         /\ IsInjective(ReadInode(d, t).blocks) /\ BlocksAt(d, t) \subseteq Block
<1>1. /\ t \in TreeInodes(d) /\ s \in Slots(d, t) /\ c = EntryIn(d, s).inode_block
      /\ TypeAt(d, c) = "d" => ReadInode(d, c).blocks = <<>>
  BY DEF Unlinkable
<1>2. t \in Block
  BY <1>1, TreeClosed
<1>3. /\ s[1] \in BlocksAt(d, t) /\ s[1] \in Block /\ s[2] \in 1 .. DirEntries /\ s = <<s[1], s[2]>>
      /\ TypeAt(d, t) = "d" /\ c \in Block
  BY <1>1, <1>2, SlotFacts
<1>4. c \in Children(d, t)
  BY <1>1, <1>2, EntriesBySlots
<1>5. c \in TreeInodes(d)
  BY <1>1, <1>4, TreeClosed
<1>6. Slots(d, c) = {}
  <2>1. CASE TypeAt(d, c) = "d"
    <3>1. BlocksAt(d, c) = {ReadInode(d, c).blocks[k] : k \in 1 .. Len(ReadInode(d, c).blocks)}
      BY <1>3, ReadInodeFacts
    <3>2. BlocksAt(d, c) = {}
      BY <1>1, <2>1, <3>1
    <3>3. QED
      BY <3>2 DEF Slots
  <2>2. CASE TypeAt(d, c) # "d"
    BY <2>2 DEF Slots
  <2>3. QED
    BY <2>1, <2>2
<1>7. IsInjective(ReadInode(d, t).blocks)
  BY <1>1 DEF InOrder
<1>8. BlocksAt(d, t) \subseteq Block
  BY <1>2, ReadInodeFacts
<1>9. QED
  BY <1>1, <1>2, <1>3, <1>4, <1>5, <1>6, <1>7, <1>8

\* The entry is cleared in its block, which holds others.
LEMMA UnlinkInPlace ==
  ASSUME NEW d \in [Block -> Content], InOrder(d), NEW t, NEW s, NEW c, Unlinkable(d, t, s, c),
         Cleared(ReadEntries(d, s[1]), s[2]) # NoEntries,
         NEW e, Rewritten(d, e, s[1], DirData(Cleared(ReadEntries(d, s[1]), s[2]))), NEW C, C = {c}
  PROVE  /\ s[1] \in Block /\ DirData(Cleared(ReadEntries(d, s[1]), s[2])) \in Content
         /\ InOrder(e) /\ Apart(d, e, C) /\ Loses(d, e, c, {})
<1> DEFINE w == s[1]
           j == s[2]
           old == ReadEntries(d, w)
           new == Cleared(old, j)
<1>1. /\ t \in TreeInodes(d) /\ t \in Block /\ TypeAt(d, t) = "d"
      /\ s \in Slots(d, t) /\ c = EntryIn(d, s).inode_block
      /\ w \in BlocksAt(d, t) /\ w \in Block /\ j \in 1 .. DirEntries /\ s = <<w, j>>
      /\ c \in Block /\ Slots(d, c) = {}
      /\ IsInjective(ReadInode(d, t).blocks) /\ BlocksAt(d, t) \subseteq Block
  BY UnlinkFacts
<1>2. old \in [1 .. DirEntries -> DirEntry]
  BY <1>1, ReadDataFacts
<1>3. /\ new \in [1 .. DirEntries -> DirEntry] /\ new[j] = Unused
      /\ \A i \in (1 .. DirEntries) \ {j} : new[i] = old[i]
  <2>1. Unused \in DirEntry
    BY DEF DirEntry
  <2>2. new = [old EXCEPT ![j] = Unused]
    BY DEF Cleared
  <2> HIDE DEF old, new
  <2>3. QED
    BY <1>1, <1>2, <2>1, <2>2
<1>4. DirData(new) \in Content
  BY <1>3 DEF Content
<1>5. new # NoEntries /\ Rewritten(d, e, w, DirData(new))
  OBVIOUS
<1> HIDE DEF new
<1>6. e \in [Block -> Content] /\ e[w] = DirData(new) /\ \A b \in Block \ {w} : e[b] = d[b]
  BY <1>1, <1>4, <1>5, RewrittenFacts
<1>7. /\ \A i \in TreeInodes(d) \ {t} : SameAt(d, e, i)
      /\ ReadInode(e, t) = ReadInode(d, t) /\ TypeAt(e, t) = "d" /\ BlocksAt(e, t) = BlocksAt(d, t)
      /\ \A k \in Block \ {w} : ReadEntries(e, k) = ReadEntries(d, k)
  BY <1>1, <1>6, TouchBlock
<1>8. ReadEntries(e, w) = new
  BY <1>6 DEF ReadEntries, DirData
<1>9. EntryIn(e, s).inode_block = 0
  BY <1>3, <1>8 DEF EntryIn, Unused
<1>10. \A u \in BlocksAt(d, t) \X (1 .. DirEntries) : u # s => EntryIn(e, u) = EntryIn(d, u)
  <2>1. TAKE u \in BlocksAt(d, t) \X (1 .. DirEntries)
  <2>2. u = <<u[1], u[2]>> /\ u[1] \in BlocksAt(d, t) /\ u[1] \in Block /\ u[2] \in 1 .. DirEntries
    BY <1>1
  <2>3. CASE u[1] # w
    BY <1>7, <2>2, <2>3 DEF EntryIn
  <2>4. CASE u[1] = w /\ u[2] # j
    BY <1>3, <1>8, <2>2, <2>4 DEF EntryIn
  <2>5. CASE u[1] = w /\ u[2] = j
    BY <1>1, <2>2, <2>5
  <2>6. QED
    BY <2>3, <2>4, <2>5
<1>11. /\ Slots(e, t) = Slots(d, t) \ {s}
       /\ \A u \in Slots(e, t) : EntryIn(e, u) = EntryIn(d, u)
  <2>1. \A u \in BlocksAt(d, t) \X (1 .. DirEntries) : u[1] \notin BlocksAt(e, t) /\ u # s => EntryIn(d, u).inode_block = 0
    BY <1>7
  <2>2. BlocksAt(e, t) \subseteq BlocksAt(d, t)
    BY <1>7
  <2>3. t \in Block /\ TypeAt(d, t) = "d" /\ TypeAt(e, t) = "d" /\ s \in Slots(d, t) /\ e \in [Block -> Content]
    BY <1>1, <1>6, <1>7
  <2>4. QED
    BY <1>9, <1>10, <2>1, <2>2, <2>3, SlotsWithout
<1>12. \A k \in BlocksAt(e, t) : e[k].kind = "entries"
  <2>1. \A k \in BlocksAt(d, t) : d[k].kind = "entries"
    BY <1>1 DEF InOrder
  <2>2. e[w].kind = "entries"
    BY <1>6 DEF DirData
  <2>3. QED
    BY <1>1, <1>6, <1>7, <2>1, <2>2
<1>13. \A k \in BlocksAt(e, t) : \E i \in 1 .. DirEntries : <<k, i>> \in Slots(e, t)
  <2>1. TAKE k \in BlocksAt(e, t)
  <2>2. CASE k = w
    <3>1. PICK i \in 1 .. DirEntries : new[i] # Unused
      BY <1>3, <1>5 DEF NoEntries
    <3>2. new[i] \in DirEntry
      BY <1>3
    <3>3. new[i].inode_block # 0
      BY <3>1, <3>2, EntryFacts
    <3>4. EntryIn(e, <<w, i>>) = new[i]
      BY <1>8 DEF EntryIn
    <3>5. <<w, i>> \in Slots(e, t)
      BY <1>1, <1>7, <3>3, <3>4 DEF Slots
    <3>6. QED
      BY <2>2, <3>5
  <2>3. CASE k # w
    <3>1. PICK i \in 1 .. DirEntries : <<k, i>> \in Slots(d, t)
      BY <1>1, <1>7 DEF InOrder
    <3>2. <<k, i>> # s
      BY <1>1, <2>3
    <3>3. <<k, i>> \in Slots(e, t)
      BY <1>11, <3>1, <3>2
    <3>4. QED
      BY <3>3
  <2>4. QED
    BY <2>2, <2>3
<1>14. PICK B : B = {}
  OBVIOUS
<1>15. Drops(d, e, t, s, c, B)
  <2>1. B \subseteq {s[1]} /\ BlocksAt(e, t) = BlocksAt(d, t) \ B /\ IsInjective(ReadInode(e, t).blocks)
    BY <1>1, <1>7, <1>14
  <2>2. /\ t \in TreeInodes(d) /\ s \in Slots(d, t) /\ c = EntryIn(d, s).inode_block
        /\ Slots(d, c) = {} /\ TypeAt(e, t) = "d"
    BY <1>1, <1>7
  <2>3. \A i \in TreeInodes(d) \ {t} : SameAt(d, e, i)
    BY <1>7
  <2>4. QED
    BY <1>11, <1>12, <1>13, <2>1, <2>2, <2>3 DEF Drops
<1>16. e \in [Block -> Content]
  BY <1>6
<1>17. InOrder(e)
  BY <1>15, <1>16, DropTree
<1>18. Apart(d, e, C)
  BY <1>15, <1>16, DropTree
<1>19. Loses(d, e, c, B)
  BY <1>15, <1>16, DropTree
<1>20. QED
  BY <1>1, <1>4, <1>14, <1>17, <1>18, <1>19 DEF new

\* The slot of a child of a directory is neither the child nor one of its blocks.
LEMMA UnlinkApart ==
  ASSUME NEW d \in [Block -> Content], InOrder(d), NEW t, NEW s, NEW c, Unlinkable(d, t, s, c)
  PROVE  c # t /\ s[1] \notin BlocksAt(d, c) \cup {c}
<1>1. /\ t \in TreeInodes(d) /\ c \in TreeInodes(d) /\ s[1] \in BlocksAt(d, t)
      /\ s \in Slots(d, t) /\ Slots(d, c) = {}
  BY UnlinkFacts
<1>2. c # t
  BY <1>1
<1>3. s[1] \notin TreeInodes(d)
  BY <1>1 DEF InOrder
<1>4. BlocksAt(d, t) \cap BlocksAt(d, c) = {}
  BY <1>1, <1>2 DEF InOrder
<1>5. QED
  BY <1>1, <1>2, <1>3, <1>4

\* The block held this entry only, and the directory loses it.
LEMMA UnlinkWithBlock ==
  ASSUME NEW d \in [Block -> Content], InOrder(d), NEW t, NEW s, NEW c, Unlinkable(d, t, s, c),
         Cleared(ReadEntries(d, s[1]), s[2]) = NoEntries,
         NEW n \in 1 .. Len(ReadInode(d, t).blocks), ReadInode(d, t).blocks[n] = s[1],
         NEW e, Rewritten(d, e, t, Shorter(ReadInode(d, t), n)), NEW C, C = {c}, NEW B, B = {s[1]}
  PROVE  /\ t \in Block /\ Shorter(ReadInode(d, t), n) \in Content
         /\ InOrder(e) /\ Apart(d, e, C) /\ c # t /\ c # 0 /\ s[1] \notin BlocksAt(d, c) \cup {c}
         /\ Loses(d, e, c, B)
<1> DEFINE w == s[1]
           j == s[2]
           old == ReadEntries(d, w)
           inode == Shorter(ReadInode(d, t), n)
<1>1. /\ t \in TreeInodes(d) /\ t \in Block /\ TypeAt(d, t) = "d"
      /\ s \in Slots(d, t) /\ c = EntryIn(d, s).inode_block
      /\ w \in BlocksAt(d, t) /\ w \in Block /\ j \in 1 .. DirEntries /\ s = <<w, j>>
      /\ c \in Block /\ Slots(d, c) = {}
      /\ IsInjective(ReadInode(d, t).blocks) /\ BlocksAt(d, t) \subseteq Block
  BY UnlinkFacts
<1>2. /\ inode \in Inodes /\ inode.type = "d" /\ inode.kind = "inode"
      /\ ToSet(inode.blocks) = BlocksAt(d, t) \ {w} /\ IsInjective(inode.blocks)
  BY <1>1, ShorterFacts
<1>3. inode \in Content
  BY <1>2 DEF Content
<1>4. Rewritten(d, e, t, inode)
  OBVIOUS
<1> HIDE DEF inode
<1>5. e \in [Block -> Content] /\ e[t] = inode /\ \A b \in Block \ {t} : e[b] = d[b]
  BY <1>1, <1>3, <1>4, RewrittenFacts
<1>6. /\ \A i \in TreeInodes(d) \ {t} : SameAt(d, e, i)
      /\ \A k \in Block \ {t} : ReadEntries(e, k) = ReadEntries(d, k)
      /\ t \notin BlocksAt(d, t)
  BY <1>1, <1>5, TouchInode
<1>7. ReadInode(e, t) = inode
  BY <1>2, <1>5 DEF ReadInode
<1>8. TypeAt(e, t) = "d" /\ BlocksAt(e, t) = BlocksAt(d, t) \ {w} /\ IsInjective(ReadInode(e, t).blocks)
  BY <1>2, <1>7 DEF TypeAt, BlocksAt
<1>9. \A i \in (1 .. DirEntries) \ {j} : old[i].inode_block = 0
  <2>1. old \in [1 .. DirEntries -> DirEntry]
    BY <1>1, ReadDataFacts
  <2>2. Cleared(old, j) = NoEntries
    OBVIOUS
  <2> HIDE DEF old
  <2>3. \A i \in (1 .. DirEntries) \ {j} : NoEntries[i] = old[i]
    <3>1. NoEntries = [old EXCEPT ![j] = Unused]
      BY <2>2 DEF Cleared
    <3>2. QED
      BY <1>1, <2>1, <3>1
  <2>4. QED
    BY <2>3 DEF NoEntries, Unused
<1>10. \A u \in BlocksAt(d, t) \X (1 .. DirEntries) : u # s => EntryIn(e, u) = EntryIn(d, u)
  <2>1. TAKE u \in BlocksAt(d, t) \X (1 .. DirEntries)
  <2>2. u[1] \in BlocksAt(d, t)
    OBVIOUS
  <2>3. ReadEntries(e, u[1]) = ReadEntries(d, u[1])
    BY <1>1, <1>6, <2>2
  <2>4. QED
    BY <2>3 DEF EntryIn
<1>11. \A u \in BlocksAt(d, t) \X (1 .. DirEntries) : u[1] \notin BlocksAt(e, t) /\ u # s => EntryIn(d, u).inode_block = 0
  <2>1. TAKE u \in BlocksAt(d, t) \X (1 .. DirEntries)
  <2>2. HAVE u[1] \notin BlocksAt(e, t) /\ u # s
  <2>3. u = <<u[1], u[2]>> /\ u[1] = w /\ u[2] \in 1 .. DirEntries
    BY <1>8, <2>2
  <2>4. u[2] # j
    BY <1>1, <2>2, <2>3
  <2>5. QED
    BY <1>9, <2>3, <2>4 DEF EntryIn
<1>12. /\ Slots(e, t) = Slots(d, t) \ {s}
       /\ \A u \in Slots(e, t) : EntryIn(e, u) = EntryIn(d, u)
  <2>1. s[1] \in BlocksAt(e, t) => EntryIn(e, s).inode_block = 0
    BY <1>8
  <2>2. BlocksAt(e, t) \subseteq BlocksAt(d, t)
    BY <1>8
  <2>3. t \in Block /\ TypeAt(d, t) = "d" /\ TypeAt(e, t) = "d" /\ s \in Slots(d, t) /\ e \in [Block -> Content]
    BY <1>1, <1>5, <1>8
  <2>4. QED
    BY <1>10, <1>11, <2>1, <2>2, <2>3, SlotsWithout
<1>13. \A k \in BlocksAt(e, t) : e[k].kind = "entries"
  <2>1. \A k \in BlocksAt(d, t) : d[k].kind = "entries"
    BY <1>1 DEF InOrder
  <2>2. \A k \in BlocksAt(d, t) : e[k] = d[k]
    BY <1>1, <1>5, <1>6
  <2>3. QED
    BY <1>8, <2>1, <2>2
<1>14. \A k \in BlocksAt(e, t) : \E i \in 1 .. DirEntries : <<k, i>> \in Slots(e, t)
  <2>1. TAKE k \in BlocksAt(e, t)
  <2>2. k \in BlocksAt(d, t) /\ k # w
    BY <1>8
  <2>3. PICK i \in 1 .. DirEntries : <<k, i>> \in Slots(d, t)
    BY <1>1, <2>2 DEF InOrder
  <2>4. <<k, i>> # s
    BY <1>1, <2>2
  <2>5. <<k, i>> \in Slots(e, t)
    BY <1>12, <2>3, <2>4
  <2>6. QED
    BY <2>5
<1>15. PICK D : D = B /\ D = {w}
  OBVIOUS
<1>16. Drops(d, e, t, s, c, D)
  <2>1. D \subseteq {s[1]} /\ BlocksAt(e, t) = BlocksAt(d, t) \ D /\ IsInjective(ReadInode(e, t).blocks)
    BY <1>8, <1>15
  <2>2. /\ t \in TreeInodes(d) /\ s \in Slots(d, t) /\ c = EntryIn(d, s).inode_block
        /\ Slots(d, c) = {} /\ TypeAt(e, t) = "d"
    BY <1>1, <1>8
  <2>3. \A i \in TreeInodes(d) \ {t} : SameAt(d, e, i)
    BY <1>6
  <2>4. QED
    BY <1>12, <1>13, <1>14, <2>1, <2>2, <2>3 DEF Drops
<1>17. e \in [Block -> Content]
  BY <1>5
<1>18. InOrder(e)
  BY <1>16, <1>17, DropTree
<1>19. Apart(d, e, C)
  BY <1>16, <1>17, DropTree
<1>20. Loses(d, e, c, D)
  BY <1>16, <1>17, DropTree
<1>21. c # t /\ c # 0 /\ s[1] \notin BlocksAt(d, c) \cup {c}
  <2>1. c # t /\ c # 0
    <3>1. s \in Slots(d, t) /\ Slots(d, c) = {}
      BY <1>1
    <3>2. c # 0
      BY <1>1 DEF Slots
    <3>3. QED
      BY <3>1, <3>2
  <2>2. s[1] \notin BlocksAt(d, c) \cup {c}
    BY UnlinkApart
  <2>3. QED
    BY <2>1, <2>2
<1>22. QED
  BY <1>1, <1>3, <1>15, <1>18, <1>19, <1>20, <1>21 DEF inode

\* What a handler that is about to unlink a file knows, and may do.
LEMMA UnlinkingFacts ==
  ASSUME IInv, NEW h \in Handler, pc[h] \in {"clear", "shrink"}
  PROVE  /\ req[h] \in Request /\ req[h].op = "delete" /\ loc[h] \in LocalTypes /\ ~loc[h].grown
         /\ Resolve(disk, Names(req[h])) = {loc[h].target}
         /\ EntrySlot(loc[h])[1] = loc[h].block /\ EntrySlot(loc[h])[2] = loc[h].place[2]
         /\ loc[h].place[1] \in 1 .. Len(ReadInode(disk, loc[h].target).blocks)
         /\ loc[h].block = ReadInode(disk, loc[h].target).blocks[loc[h].place[1]]
         /\ loc[h].old = ReadInode(disk, loc[h].child)
         /\ Unlinkable(disk, loc[h].target, EntrySlot(loc[h]), loc[h].child)
<1> DEFINE r == req[h]
           L == loc[h]
           t == L.target
<1>1. t \in TreeInodes(disk)
  BY OwnWritable
<1>2. EntrySlot(L)[1] = L.block /\ EntrySlot(L)[2] = L.place[2]
  BY DEF EntrySlot
<1>3. /\ r \in Request /\ r.op = "delete" /\ L \in LocalTypes /\ ~L.grown
      /\ Resolve(disk, Names(r)) = {t}
      /\ L.place[1] \in 1 .. Len(ReadInode(disk, t).blocks)
      /\ L.block = ReadInode(disk, t).blocks[L.place[1]]
      /\ EntrySlot(L) \in Slots(disk, t)
      /\ EntryIn(disk, EntrySlot(L)).inode_block = L.child
      /\ L.old = ReadInode(disk, L.child)
      /\ L.old.type = "d" => L.old.blocks = <<>>
  <2>1. CASE pc[h] = "clear"
    <3>1. HandlerOK(disk, "clear", r, L)
      BY <2>1, Here
    <3>2. QED
      BY <3>1, AtClear
  <2>2. CASE pc[h] = "shrink"
    <3>1. HandlerOK(disk, "shrink", r, L)
      BY <2>2, Here
    <3>2. QED
      BY <3>1, AtShrink
  <2>3. QED
    BY <2>1, <2>2
<1>4. TypeAt(disk, L.child) = "d" => ReadInode(disk, L.child).blocks = <<>>
  BY <1>3 DEF TypeAt
<1>5. Unlinkable(disk, t, EntrySlot(L), L.child)
  BY <1>1, <1>3, <1>4 DEF Unlinkable
<1>6. QED
  BY <1>2, <1>3, <1>5

\* What it may write and what it will carry.
LEMMA UnlinkedFacts ==
  ASSUME IInv, NEW h \in Handler, pc[h] \in {"clear", "shrink"}
  PROVE  /\ loc[h].target \in TreeInodes(disk) /\ loc[h].target \in Writable(h)
         /\ loc[h].block \in BlocksAt(disk, loc[h].target) /\ loc[h].block \in Writable(h)
         /\ loc[h].child \in Block /\ loc[h].child \in TreeInodes(disk)
         /\ ToSet(loc[h].old.blocks) = BlocksAt(disk, loc[h].child)
         /\ IsInjective(loc[h].old.blocks) /\ loc[h].child \notin ToSet(loc[h].old.blocks)
         /\ \A C : C = {loc[h].child} => Movable(h, C)
         /\ Carried(pc[h], req[h], loc[h]) = {}
         /\ BlocksAt(disk, loc[h].child) \cup {loc[h].child} \subseteq UsedBlocks(disk)
         /\ loc[h].block \in UsedBlocks(disk) /\ UsedBlocks(disk) \subseteq Block
<1> DEFINE r == req[h]
           L == loc[h]
           t == L.target
           c == L.child
           s == EntrySlot(L)
<1>1. disk \in [Block -> Content] /\ InOrder(disk)
  BY Here
<1>2. Unlinkable(disk, t, s, c) /\ L.old = ReadInode(disk, c) /\ s[1] = L.block
      /\ r \in Request /\ r.op = "delete" /\ ~L.grown
  BY UnlinkingFacts
<1>3. t \in TreeInodes(disk) /\ t \in Writable(h) /\ t \in OwnedBy(pc[h], L)
      /\ \A w \in BlocksAt(disk, t) : w \in Writable(h)
  BY OwnWritable
<1>4. s[1] \in BlocksAt(disk, t) /\ c \in Block /\ c \in TreeInodes(disk) /\ c \in Children(disk, t)
  <2> HIDE DEF s, c, t
  <2>1. QED
    BY <1>1, <1>2, UnlinkFacts
<1>5. ToSet(L.old.blocks) = BlocksAt(disk, c)
  BY <1>2 DEF BlocksAt
<1>6. IsInjective(L.old.blocks) /\ c \notin ToSet(L.old.blocks)
  <2>1. IsInjective(ReadInode(disk, c).blocks)
    BY <1>1, <1>4 DEF InOrder
  <2>2. \A k \in BlocksAt(disk, c) : k \notin TreeInodes(disk)
    BY <1>1, <1>4 DEF InOrder
  <2>3. QED
    BY <1>2, <1>4, <1>5, <2>1, <2>2
<1>7. c \in OwnedBy(pc[h], L)
  BY LocksAt
<1>8. \A C : C = {c} => Movable(h, C)
  BY <1>3, <1>4, <1>7 DEF Movable
<1>9. Carried(pc[h], r, L) = {}
  BY <1>2, CarriedPlain
<1>10. /\ BlocksAt(disk, c) \cup {c} \subseteq UsedBlocks(disk)
       /\ s[1] \in UsedBlocks(disk) /\ UsedBlocks(disk) \subseteq Block
  <2>1. UsedBlocks(disk) = TreeInodes(disk) \cup UNION {BlocksAt(disk, i) : i \in TreeInodes(disk)}
    BY <1>1, UsedFacts
  <2>2. UsedBlocks(disk) \subseteq Block
    BY <1>1, UsedFacts
  <2>3. QED
    BY <1>3, <1>4, <2>1, <2>2
<1>11. QED
  BY <1>2, <1>3, <1>4, <1>5, <1>6, <1>8, <1>9, <1>10

\* Both of its locks are let go together.
LEMMA UnlinkedReleased ==
  ASSUME IInv, NEW h \in Handler, pc[h] \in {"clear", "shrink", "free_entries"}, UNCHANGED readers,
         writer' = Disowned({loc[h].child, loc[h].target})
  PROVE  /\ readers' \in [Block -> SUBSET Handler] /\ writer' \in [Block -> Handler \cup {NoHandler}]
         /\ LocksMove(h, SharedBy("free", req[h], loc[h]), OwnedBy("free", loc[h]))
<1>1. SharedBy("free", req[h], loc[h]) = {} /\ OwnedBy("free", loc[h]) = {}
  BY LocksAt
<1>2. SharedBy(pc[h], req[h], loc[h]) = {} /\ OwnedBy(pc[h], loc[h]) = {loc[h].target, loc[h].child}
  BY LocksAt
<1>3. PICK B : B = {loc[h].child, loc[h].target}
  OBVIOUS
<1>4. writer' = Disowned(B)
  BY <1>3
<1>5. /\ \A b \in Block : b \notin SharedBy(pc[h], req[h], loc[h])
      /\ \A b \in Block : b \in B <=> b \in OwnedBy(pc[h], loc[h])
  BY <1>2, <1>3
<1>6. QED
  BY <1>1, <1>4, <1>5, LocksDisowned

\* DeleteWriteEntries(h)
LEMMA DeleteWriteEntriesKept ==
  ASSUME IInv, NEW h \in Handler, DeleteWriteEntries(h)
  PROVE  IInv'
<1> DEFINE r == req[h]
           L == loc[h]
           t == L.target
           c == L.child
           s == EntrySlot(L)
<1>1. pc[h] = "clear" /\ HandlerOK(disk, "clear", r, L)
  <2>1. pc[h] = "clear"
    BY DEF DeleteWriteEntries
  <2>2. QED
    BY <2>1, Here
<1>2. L.entries = Cleared(ReadEntries(disk, L.block), L.place[2]) /\ L.entries # NoEntries
  BY <1>1, AtClear
<1>3. /\ r \in Request /\ r.op = "delete" /\ L \in LocalTypes /\ ~L.grown
      /\ s[1] = L.block /\ s[2] = L.place[2] /\ Unlinkable(disk, t, s, c)
  BY <1>1, UnlinkingFacts
<1>4. /\ L.block \in Writable(h) /\ Carried(pc[h], r, L) = {}
      /\ ToSet(L.old.blocks) = BlocksAt(disk, c)
      /\ IsInjective(L.old.blocks) /\ c \notin ToSet(L.old.blocks)
      /\ BlocksAt(disk, c) \cup {c} \subseteq UsedBlocks(disk) /\ UsedBlocks(disk) \subseteq Block
  BY <1>1, UnlinkedFacts
<1>5. PICK C : C = {c}
  OBVIOUS
<1>6. Movable(h, C)
  BY <1>1, <1>5, UnlinkedFacts
<1>7. /\ disk' = [disk EXCEPT ![L.block] = DirData(L.entries)]
      /\ outcome' = [outcome EXCEPT ![h] = "ok"] /\ writer' = Disowned({c, t}) /\ Goto(h, "free")
      /\ UNCHANGED <<free_blocks, readers, req, loc, received, crashes>>
  BY DEF DeleteWriteEntries
<1>8. Rewritten(disk, disk', s[1], DirData(Cleared(ReadEntries(disk, s[1]), s[2])))
  BY <1>2, <1>3, <1>7 DEF Rewritten
<1>9. /\ DirData(L.entries) \in Content /\ InOrder(disk') /\ Apart(disk, disk', C)
      /\ UsedBlocks(disk') = UsedBlocks(disk) \ (C \cup BlocksAt(disk, c))
  <2>1. disk \in [Block -> Content] /\ InOrder(disk)
    BY Here
  <2>2. Cleared(ReadEntries(disk, s[1]), s[2]) # NoEntries
    BY <1>2, <1>3
  <2> HIDE DEF r, L, t, c, s
  <2>3. DirData(Cleared(ReadEntries(disk, s[1]), s[2])) \in Content
    BY <1>3, <1>5, <1>8, <2>1, <2>2, UnlinkInPlace
  <2>4. InOrder(disk')
    BY <1>3, <1>5, <1>8, <2>1, <2>2, UnlinkInPlace
  <2>5. Apart(disk, disk', C)
    BY <1>3, <1>5, <1>8, <2>1, <2>2, UnlinkInPlace
  <2>6. Loses(disk, disk', c, {})
    BY <1>3, <1>5, <1>8, <2>1, <2>2, UnlinkInPlace
  <2>7. QED
    BY <1>2, <1>3, <2>3, <2>4, <2>5, <2>6, <1>5 DEF Loses
<1>10. Moves(h, "free", r, L) /\ Decides(h, "free")
  <2>1. "ok" \in Answered
    BY DEF Answered
  <2>2. QED
    BY <1>7, <2>1, MovesOn DEF Decides
<1>11. HandlerOK(disk', "free", r, L)
  BY <1>3, <1>4, AtFree
<1>12. /\ readers' \in [Block -> SUBSET Handler] /\ writer' \in [Block -> Handler \cup {NoHandler}]
       /\ LocksMove(h, SharedBy("free", r, L), OwnedBy("free", L))
  BY <1>1, <1>7, UnlinkedReleased
<1>13. Carried("free", r, L) = BlocksAt(disk, c) \cup {c}
  BY <1>3, <1>4, CarriedAt
<1>14. /\ Carried("free", r, L) \subseteq Block /\ Carried("free", r, L) \cap UsedBlocks(disk') = {}
       /\ Carried("free", r, L) \cup UsedBlocks(disk') = Carried(pc[h], r, L) \cup UsedBlocks(disk)
  BY <1>4, <1>5, <1>9, <1>13
<1>15. free_blocks' = free_blocks /\ UNCHANGED <<received, crashes>>
  BY <1>7
<1>16. QED
  BY <1>4, <1>6, <1>7, <1>9, <1>10, <1>11, <1>12, <1>14, <1>15, WritingMoves

\* DeleteShrink(h)
LEMMA DeleteShrinkKept ==
  ASSUME IInv, NEW h \in Handler, DeleteShrink(h)
  PROVE  IInv'
<1> DEFINE r == req[h]
           L == loc[h]
           t == L.target
           c == L.child
           s == EntrySlot(L)
           n == L.place[1]
<1>1. pc[h] = "shrink" /\ HandlerOK(disk, "shrink", r, L)
  <2>1. pc[h] = "shrink"
    BY DEF DeleteShrink
  <2>2. QED
    BY <2>1, Here
<1>2. /\ Cleared(ReadEntries(disk, L.block), L.place[2]) = NoEntries
      /\ L.inode = Shorter(ReadInode(disk, t), n)
  BY <1>1, AtShrink
<1>3. /\ r \in Request /\ r.op = "delete" /\ L \in LocalTypes /\ ~L.grown /\ Resolve(disk, Names(r)) = {t}
      /\ s[1] = L.block /\ s[2] = L.place[2] /\ Unlinkable(disk, t, s, c)
      /\ n \in 1 .. Len(ReadInode(disk, t).blocks) /\ L.block = ReadInode(disk, t).blocks[n]
      /\ L.old = ReadInode(disk, c)
  BY <1>1, UnlinkingFacts
<1>4. /\ t \in TreeInodes(disk) /\ t \in Writable(h) /\ c \in Block
      /\ ToSet(L.old.blocks) = BlocksAt(disk, c)
      /\ IsInjective(L.old.blocks) /\ c \notin ToSet(L.old.blocks)
  BY <1>1, UnlinkedFacts
<1>5. /\ Carried(pc[h], r, L) = {} /\ L.block \in UsedBlocks(disk)
      /\ BlocksAt(disk, c) \cup {c} \subseteq UsedBlocks(disk) /\ UsedBlocks(disk) \subseteq Block
  BY <1>1, UnlinkedFacts
<1>6. PICK C : C = {c}
  OBVIOUS
<1>7. PICK B : B = {s[1]}
  OBVIOUS
<1>8. Movable(h, C)
  BY <1>1, <1>6, UnlinkedFacts
<1>9. /\ disk' = [disk EXCEPT ![t] = L.inode]
      /\ outcome' = [outcome EXCEPT ![h] = "ok"] /\ Goto(h, "free_entries")
      /\ UNCHANGED <<free_blocks, locks, req, loc, received, crashes>>
  BY DEF DeleteShrink
<1>10. Rewritten(disk, disk', t, Shorter(ReadInode(disk, t), n))
  BY <1>2, <1>9 DEF Rewritten
<1>11. disk \in [Block -> Content] /\ InOrder(disk)
  BY Here
<1>12. /\ L.inode \in Content /\ InOrder(disk') /\ Apart(disk, disk', C)
       /\ c # t /\ L.block \notin BlocksAt(disk, c) \cup {c}
       /\ UsedBlocks(disk') = UsedBlocks(disk) \ (C \cup BlocksAt(disk, c) \cup B)
  <2>1. Cleared(ReadEntries(disk, s[1]), s[2]) = NoEntries /\ ReadInode(disk, t).blocks[n] = s[1]
    BY <1>2, <1>3
  <2> HIDE DEF r, L, t, c, s, n
  <2>2. Shorter(ReadInode(disk, t), n) \in Content
    BY <1>3, <1>6, <1>7, <1>10, <1>11, <2>1, UnlinkWithBlock
  <2>3. InOrder(disk')
    BY <1>3, <1>6, <1>7, <1>10, <1>11, <2>1, UnlinkWithBlock
  <2>4. Apart(disk, disk', C)
    BY <1>3, <1>6, <1>7, <1>10, <1>11, <2>1, UnlinkWithBlock
  <2>5. c # t
    BY <1>3, <1>11, UnlinkApart
  <2>6. s[1] \notin BlocksAt(disk, c) \cup {c}
    BY <1>3, <1>11, UnlinkApart
  <2>7. Loses(disk, disk', c, B)
    BY <1>3, <1>6, <1>7, <1>10, <1>11, <2>1, UnlinkWithBlock
  <2>8. QED
    BY <1>2, <1>3, <1>6, <2>2, <2>3, <2>4, <2>5, <2>6, <2>7 DEF Loses
<1>13. Moves(h, "free_entries", r, L) /\ Decides(h, "free_entries")
  <2>1. "ok" \in Answered
    BY DEF Answered
  <2>2. QED
    BY <1>9, <2>1, MovesOn DEF Decides
<1>14. disk' \in [Block -> Content] /\ disk'[c] = disk[c]
  BY <1>4, <1>9, <1>11, <1>12 DEF Writable
<1>15. HandlerOK(disk', "free_entries", r, L)
  <2>1. ReadInode(disk', c) = ReadInode(disk, c)
    BY <1>14 DEF ReadInode
  <2>2. Resolve(disk', Names(r)) = {t}
    <3>1. t \notin C
      BY <1>6, <1>12
    <3>2. /\ Names(r) \in Seq(Name) /\ Len(Names(r)) \in 0 .. Len(Names(r))
          /\ SubSeq(Names(r), 1, Len(Names(r))) = Names(r)
      BY <1>3, RequestFacts, WholePath
    <3>3. Resolve(disk, SubSeq(Names(r), 1, Len(Names(r)))) = {t}
      BY <1>3, <3>2
    <3> HIDE DEF r, t
    <3>4. Resolve(disk', SubSeq(Names(r), 1, Len(Names(r)))) = {t}
      BY <1>11, <1>12, <1>14, <3>1, <3>2, <3>3, PathKept
    <3>5. QED
      BY <3>2, <3>4
  <2>3. L.block \notin ToSet(L.old.blocks) \cup {L.child}
    BY <1>4, <1>12
  <2>4. QED
    BY <1>3, <1>4, <2>1, <2>2, <2>3, AtFreeEntries
<1>16. /\ readers' \in [Block -> SUBSET Handler] /\ writer' \in [Block -> Handler \cup {NoHandler}]
       /\ LocksMove(h, SharedBy("free_entries", r, L), OwnedBy("free_entries", L))
  <2>1. /\ SharedBy("free_entries", r, L) = SharedBy(pc[h], r, L) /\ SharedBy("free_entries", r, L) = {}
        /\ OwnedBy("free_entries", L) = OwnedBy(pc[h], L)
    BY <1>1, LocksAt
  <2>2. UNCHANGED locks
    BY <1>9
  <2>3. QED
    BY <2>1, <2>2, LocksStill
<1>17. Carried("free_entries", r, L) = {L.block} \cup BlocksAt(disk, c) \cup {c}
  BY <1>3, <1>4, CarriedAt
<1>18. /\ Carried("free_entries", r, L) \subseteq Block /\ Carried("free_entries", r, L) \cap UsedBlocks(disk') = {}
       /\ Carried("free_entries", r, L) \cup UsedBlocks(disk') = Carried(pc[h], r, L) \cup UsedBlocks(disk)
  BY <1>3, <1>5, <1>6, <1>7, <1>12, <1>17
<1>19. free_blocks' = free_blocks /\ UNCHANGED <<received, crashes>>
  BY <1>9
<1>20. QED
  BY <1>4, <1>8, <1>9, <1>12, <1>13, <1>15, <1>16, <1>18, <1>19, WritingMoves

\* DeleteFreeEntries(h)
LEMMA DeleteFreeEntriesKept ==
  ASSUME IInv, NEW h \in Handler, DeleteFreeEntries(h)
  PROVE  IInv'
<1> DEFINE r == req[h]
           L == loc[h]
<1>1. pc[h] = "free_entries" /\ HandlerOK(disk, "free_entries", r, L)
  <2>1. pc[h] = "free_entries"
    BY DEF DeleteFreeEntries
  <2>2. QED
    BY <2>1, Here
<1>2. /\ r \in Request /\ r.op = "delete" /\ L \in LocalTypes /\ ~L.grown
      /\ IsInjective(L.old.blocks) /\ L.child \notin ToSet(L.old.blocks)
      /\ L.block \notin ToSet(L.old.blocks) \cup {L.child}
  BY <1>1, AtFreeEntries
<1>3. /\ free_blocks' = Append(free_blocks, L.block) /\ writer' = Disowned({L.child, L.target})
      /\ Goto(h, "free") /\ UNCHANGED <<disk, readers, req, loc, outcome, received, crashes>>
  BY DEF DeleteFreeEntries
<1>4. Moves(h, "free", r, L) /\ Decides(h, "free")
  BY <1>1, <1>3, MovesOn DEF Decides, Decided
<1>5. HandlerOK(disk, "free", r, L)
  BY <1>2, AtFree
<1>6. /\ readers' \in [Block -> SUBSET Handler] /\ writer' \in [Block -> Handler \cup {NoHandler}]
      /\ LocksMove(h, SharedBy("free", r, L), OwnedBy("free", L))
  BY <1>1, <1>3, UnlinkedReleased
<1>7. /\ Carried("free", r, L) = ToSet(L.old.blocks) \cup {L.child}
      /\ Carried(pc[h], r, L) = Carried("free", r, L) \cup {L.block}
  BY <1>1, <1>2, CarriedAt
<1>8. PICK F1 : F1 = ToSet(free_blocks) \cup {L.block}
  OBVIOUS
<1>9. BlocksMove(F1, Carried(pc[h], r, L), Carried("free", r, L))
  BY <1>2, <1>3, <1>7, <1>8, FreeAppended
<1>10. disk' = disk /\ UNCHANGED <<received, crashes>>
  BY <1>3
<1>11. QED
  BY <1>4, <1>5, <1>6, <1>9, <1>10, QuietMoves

\* DeleteFree(h)
LEMMA DeleteFreeKept ==
  ASSUME IInv, NEW h \in Handler, DeleteFree(h)
  PROVE  IInv'
<1> DEFINE r == req[h]
           L == loc[h]
           s == DeletedBlocks(h)
<1>1. pc[h] = "free" /\ HandlerOK(disk, "free", r, L)
  <2>1. pc[h] = "free"
    BY DEF DeleteFree
  <2>2. QED
    BY <2>1, Here
<1>2. /\ r \in Request /\ r.op = "delete" /\ L \in LocalTypes /\ ~L.grown
      /\ IsInjective(L.old.blocks) /\ L.child \notin ToSet(L.old.blocks)
  BY <1>1, AtFree
<1>3. /\ free_blocks' = free_blocks \o s
      /\ Goto(h, "reply") /\ UNCHANGED <<disk, locks, req, loc, outcome, received, crashes>>
  BY DEF DeleteFree
<1>4. Moves(h, "reply", r, L) /\ Decides(h, "reply")
  BY <1>1, <1>3, MovesOn DEF Decides, Decided
<1>5. HandlerOK(disk, "reply", r, L)
  BY <1>2, AtReply
<1>6. /\ readers' \in [Block -> SUBSET Handler] /\ writer' \in [Block -> Handler \cup {NoHandler}]
      /\ LocksMove(h, SharedBy("reply", r, L), OwnedBy("reply", L))
  <2>1. /\ SharedBy("reply", r, L) = {} /\ OwnedBy("reply", L) = {}
        /\ SharedBy(pc[h], r, L) = {} /\ OwnedBy(pc[h], L) = {}
    BY <1>1, LocksAt
  <2>2. UNCHANGED locks
    BY <1>3
  <2>3. QED
    BY <2>1, <2>2, LocksStill
<1>7. /\ s \in Seq(Block) /\ IsInjective(s) /\ ToSet(s) = ToSet(L.old.blocks) \cup {L.child}
  <2>1. L.old \in AnyInode /\ L.child \in Block
    BY <1>2 DEF LocalTypes
  <2>2. L.old.blocks \in Seq(Block)
    BY <2>1, InodeFacts
  <2>3. s = Append(L.old.blocks, L.child)
    BY DEF DeletedBlocks
  <2> HIDE DEF s, L
  <2>4. QED
    BY <1>2, <2>1, <2>2, <2>3, ElementsOfAppend
<1>8. Carried("reply", r, L) = {} /\ Carried(pc[h], r, L) = {} \cup ToSet(s)
  BY <1>1, <1>2, <1>7, CarriedAt
<1>9. PICK F1 : F1 = ToSet(free_blocks) \cup ToSet(s)
  OBVIOUS
<1>10. BlocksMove(F1, Carried(pc[h], r, L), Carried("reply", r, L))
  <2> HIDE DEF s
  <2>1. Carried("reply", r, L) \cap ToSet(s) = {} /\ Carried(pc[h], r, L) = Carried("reply", r, L) \cup ToSet(s)
    BY <1>8
  <2>2. disk' = disk
    BY <1>3
  <2>3. QED
    BY <1>3, <1>7, <1>9, <2>1, <2>2, FreeReturned
<1>11. disk' = disk /\ UNCHANGED <<received, crashes>>
  BY <1>3
<1>12. QED
  BY <1>4, <1>5, <1>6, <1>10, <1>11, QuietMoves

-----------------------------------------------------------------------------
(* handle_readblock *)

\* The end of a read lets go of the file.
LEMMA ReadReleased ==
  ASSUME IInv, NEW h \in Handler, pc[h] \in Reading, req[h] \in Request, req[h].op = "read", loc[h] \in LocalTypes,
         readers' = Unshared(h, loc[h].target), Goto(h, "reply"),
         NEW o \in Answered, outcome' = [outcome EXCEPT ![h] = o],
         UNCHANGED <<disk, free_blocks, writer, req, loc, received, crashes>>
  PROVE  IInv'
<1>1. Moves(h, "reply", req[h], loc[h]) /\ Decides(h, "reply")
  BY MovesOn DEF Decides
<1>2. HandlerOK(disk, "reply", req[h], loc[h])
  BY AtReply
<1>3. /\ readers' \in [Block -> SUBSET Handler] /\ writer' \in [Block -> Handler \cup {NoHandler}]
      /\ LocksMove(h, SharedBy("reply", req[h], loc[h]), OwnedBy("reply", loc[h]))
  <2>1. SharedBy("reply", req[h], loc[h]) = {} /\ OwnedBy("reply", loc[h]) = {}
    BY LocksAt
  <2>2. SharedBy(pc[h], req[h], loc[h]) = {loc[h].target} /\ OwnedBy(pc[h], loc[h]) = {}
    BY LocksAt
  <2>3. loc[h].target \in Block
    BY DEF LocalTypes
  <2>4. /\ \A b \in Block : b \in SharedBy(pc[h], req[h], loc[h]) => b = loc[h].target
        /\ \A b \in Block : b \notin OwnedBy(pc[h], loc[h])
    BY <2>2
  <2>5. writer' = writer
    OBVIOUS
  <2>6. QED
    BY <2>1, <2>3, <2>4, <2>5, LocksUnshared
<1>4. Carried("reply", req[h], loc[h]) = Carried(pc[h], req[h], loc[h])
  <2>1. Carried("reply", req[h], loc[h]) = {}
    BY CarriedAt
  <2>2. Carried(pc[h], req[h], loc[h]) = {}
    BY CarriedAt
  <2>3. QED
    BY <2>1, <2>2
<1>5. disk' = disk /\ free_blocks' = free_blocks /\ UNCHANGED <<received, crashes>>
  OBVIOUS
<1>6. QED
  BY <1>1, <1>2, <1>3, <1>4, <1>5, StillMoves

\* ReadCheck(h)
LEMMA ReadCheckKept ==
  ASSUME IInv, NEW h \in Handler, ReadCheck(h)
  PROVE  IInv'
<1> DEFINE r == req[h]
           L == loc[h]
<1>1. pc[h] = "read" /\ HandlerOK(disk, "read", r, L)
  <2>1. pc[h] = "read"
    BY DEF ReadCheck
  <2>2. QED
    BY <2>1, Here
<1>2. /\ r \in Request /\ r.op = "read" /\ L \in LocalTypes /\ ~L.grown
      /\ Resolve(disk, Names(r)) = {L.target} /\ L.inode = ReadInode(disk, L.target)
  BY <1>1, AtRead
<1>3. UNCHANGED <<disk, free_blocks, writer, req, loc, received, crashes>>
  BY DEF ReadCheck
<1>4. CASE FileUsable(L.inode, r.user) /\ r.block < Len(L.inode.blocks)
  <2>1. Goto(h, "read_data") /\ readers' = readers /\ outcome' = outcome
    BY <1>4 DEF ReadCheck
  <2>2. Moves(h, "read_data", r, L) /\ Decides(h, "read_data")
    BY <1>3, <2>1, MovesOn DEF Decides, Decided
  <2>3. HandlerOK(disk, "read_data", r, L)
    <3> HIDE DEF r, L
    <3>1. QED
      BY <1>2, <1>4, AtReadData
  <2>4. /\ readers' \in [Block -> SUBSET Handler] /\ writer' \in [Block -> Handler \cup {NoHandler}]
        /\ LocksMove(h, SharedBy("read_data", r, L), OwnedBy("read_data", L))
    <3>1. /\ SharedBy("read_data", r, L) = {L.target} /\ OwnedBy("read_data", L) = {}
          /\ SharedBy(pc[h], r, L) = {L.target} /\ OwnedBy(pc[h], L) = {}
      BY <1>1, LocksAt DEF Reading
    <3>2. UNCHANGED locks /\ {L.target} \subseteq Block
      BY <1>2, <1>3, <2>1 DEF locks, LocalTypes
    <3>3. QED
      BY <3>1, <3>2, LocksStill
  <2>5. Carried("read_data", r, L) = Carried(pc[h], r, L)
    <3>1. Carried("read_data", r, L) = {}
      BY <1>2, CarriedAt
    <3>2. Carried(pc[h], r, L) = {}
      BY <1>2, CarriedAt
    <3>3. QED
      BY <3>1, <3>2
  <2>6. disk' = disk /\ free_blocks' = free_blocks /\ UNCHANGED <<received, crashes>>
    BY <1>3
  <2>7. QED
    BY <2>2, <2>3, <2>4, <2>5, <2>6, StillMoves
<1>5. CASE ~(FileUsable(L.inode, r.user) /\ r.block < Len(L.inode.blocks))
  <2>1. Goto(h, "reply") /\ outcome' = [outcome EXCEPT ![h] = "failed"] /\ readers' = Unshared(h, L.target)
    BY <1>5 DEF ReadCheck, Fail
  <2>2. "failed" \in Answered /\ pc[h] \in Reading
    BY <1>1 DEF Answered, Reading
  <2>3. QED
    BY <1>2, <1>3, <2>1, <2>2, ReadReleased
<1>6. QED
  BY <1>4, <1>5

\* ReadData(h)
LEMMA ReadDataKept ==
  ASSUME IInv, NEW h \in Handler, ReadData(h)
  PROVE  IInv'
<1> DEFINE r == req[h]
           L == loc[h]
           b == L.inode.blocks[r.block + 1]
<1>1. pc[h] = "read_data" /\ HandlerOK(disk, "read_data", r, L)
  <2>1. pc[h] = "read_data"
    BY DEF ReadData
  <2>2. QED
    BY <2>1, Here
<1>2. /\ r \in Request /\ r.op = "read" /\ L \in LocalTypes /\ ~L.grown
      /\ L.inode = ReadInode(disk, L.target) /\ r.block < Len(L.inode.blocks)
  BY <1>1, AtReadData
<1>3. b \in Block
  <2>1. L.inode \in AnyInode /\ r.block \in Nat
    BY <1>2, RequestFacts DEF LocalTypes
  <2>2. L.inode.blocks \in Seq(Block)
    BY <2>1, InodeFacts
  <2>3. QED
    BY <1>2, <2>1, <2>2
<1>4. ReadValue(disk, b) \in Answered
  BY <1>3, Here, ReadDataFacts DEF Answered
<1>5. PICK o \in Answered : o = ReadValue(disk, b)
  BY <1>4
<1>6. /\ Goto(h, "reply") /\ outcome' = [outcome EXCEPT ![h] = o] /\ readers' = Unshared(h, L.target)
      /\ UNCHANGED <<disk, free_blocks, writer, req, loc, received, crashes>>
  BY <1>5 DEF ReadData
<1>7. pc[h] \in Reading
  BY <1>1 DEF Reading
<1>8. QED
  BY <1>2, <1>6, <1>7, ReadReleased

-----------------------------------------------------------------------------
(* handle_writeblock *)

\* The block in flight of a write.
LEMMA CarriedWriting ==
  ASSUME NEW r \in Request, r.op = "write", NEW L, NEW p \in Writing
  PROVE  Carried(p, r, L) = IF L.grown THEN {L.reserved} ELSE {}
<1>1. p # "reply"
  BY DEF Writing
<1>2. QED
  BY <1>1, CarriedAt

\* WriteCheck(h)
LEMMA WriteCheckKept ==
  ASSUME IInv, NEW h \in Handler, WriteCheck(h)
  PROVE  IInv'
<1> DEFINE r == req[h]
           L == loc[h]
           t == L.target
           size == Len(L.inode.blocks)
<1>1. pc[h] = "write" /\ HandlerOK(disk, "write", r, L)
  <2>1. pc[h] = "write"
    BY DEF WriteCheck
  <2>2. QED
    BY <2>1, Here
<1>2. /\ r \in Request /\ r.op = "write" /\ L \in LocalTypes /\ ~L.grown
      /\ Resolve(disk, Names(r)) = {t} /\ L.inode = ReadInode(disk, t)
  BY <1>1, AtWrite
<1>3. UNCHANGED <<disk, free_blocks, readers, req, received, crashes>>
  BY DEF WriteCheck
<1>4. {"write", "append", "write_data"} \subseteq OwnsTarget
  BY DEF OwnsTarget, Writing
<1>5. t \in Block /\ disk \in [Block -> Content]
  BY <1>2, Here DEF LocalTypes
<1>6. /\ ReadInode(disk, t).blocks \in Seq(Block) /\ size \in Nat /\ r.block \in Nat
      /\ BlocksAt(disk, t) = {ReadInode(disk, t).blocks[k] : k \in 1 .. Len(ReadInode(disk, t).blocks)}
  BY <1>2, <1>5, RequestFacts, ReadInodeFacts
<1>7. CASE ~FileUsable(L.inode, r.user) \/ r.block > size
  <2>1. FailLocked(h) /\ loc' = loc
    BY <1>7 DEF WriteCheck
  <2>2. QED
    BY <1>1, <1>2, <1>3, <1>4, <2>1, FailLockedKept
<1>8. ASSUME FileUsable(L.inode, r.user) PROVE TypeAt(disk, t) = "f"
  BY <1>2, <1>8 DEF FileUsable, TypeAt
<1>9. CASE FileUsable(L.inode, r.user) /\ r.block = size
  <2>1. Goto(h, "append") /\ loc' = loc /\ writer' = writer /\ outcome' = outcome
    BY <1>6, <1>9 DEF WriteCheck
  <2>2. Moves(h, "append", r, L) /\ Decides(h, "append")
    BY <1>3, <2>1, MovesOn DEF Decides, Decided
  <2>3. HandlerOK(disk, "append", r, L)
    BY <1>2, <1>8, <1>9, AtAppend
  <2>4. /\ readers' \in [Block -> SUBSET Handler] /\ writer' \in [Block -> Handler \cup {NoHandler}]
        /\ LocksMove(h, SharedBy("append", r, L), OwnedBy("append", L))
    BY <1>1, <1>3, <1>4, <2>1, TargetStill DEF locks
  <2>5. Carried("append", r, L) = Carried(pc[h], r, L)
    BY <1>1, <1>2, CarriedSame
  <2>6. QED
    BY <1>3, <2>2, <2>3, <2>4, <2>5, StillMoves
<1>10. CASE FileUsable(L.inode, r.user) /\ r.block < size
  <2> DEFINE b == L.inode.blocks[r.block + 1]
             L1 == [L EXCEPT !.block = b]
  <2>1. /\ Goto(h, "write_data") /\ writer' = writer /\ outcome' = outcome
        /\ loc' = [loc EXCEPT ![h].block = b]
    BY <1>6, <1>10 DEF WriteCheck
  <2>2. b \in BlocksAt(disk, t) /\ b \in Block
    BY <1>2, <1>6, <1>10
  <2>3. b \in Nat
    BY <2>2, SizesAssumption DEF Block
  <2> HIDE DEF b
  <2>4. loc' = [loc EXCEPT ![h] = L1]
    BY <2>1, Here
  <2>5. /\ L1 \in LocalTypes /\ ~L1.grown /\ L1.target = t /\ L1.inode = L.inode /\ L1.reserved = L.reserved
        /\ L1.block = b
    BY <1>2, <2>3 DEF LocalTypes
  <2> HIDE DEF L1
  <2>6. Moves(h, "write_data", r, L1) /\ Decides(h, "write_data")
    BY <1>3, <2>1, <2>4, MovesOn DEF Decides, Decided
  <2>7. HandlerOK(disk, "write_data", r, L1)
    <3>1. TypeAt(disk, L1.target) = "f" /\ L1.block \in BlocksAt(disk, L1.target)
      BY <1>8, <1>10, <2>2, <2>5
    <3>2. Resolve(disk, Names(r)) = {L1.target} /\ L1.inode = ReadInode(disk, L1.target)
      BY <1>2, <2>5
    <3>3. r \in Request /\ r.op = "write"
      BY <1>2
    <3> HIDE DEF r
    <3>4. QED
      BY <2>5, <3>1, <3>2, <3>3, AtWriteData
  <2>8. /\ readers' \in [Block -> SUBSET Handler] /\ writer' \in [Block -> Handler \cup {NoHandler}]
        /\ LocksMove(h, SharedBy("write_data", r, L1), OwnedBy("write_data", L1))
    BY <1>1, <1>3, <1>4, <2>1, <2>5, TargetStill DEF locks
  <2>9. Carried("write_data", r, L1) = Carried(pc[h], r, L)
    BY <1>1, <1>2, <2>5, CarriedSame
  <2>10. QED
    BY <1>3, <2>6, <2>7, <2>8, <2>9, StillMoves
<1>11. QED
  BY <1>6, <1>7, <1>9, <1>10

\* WriteAlloc(h)
LEMMA WriteAllocKept ==
  ASSUME IInv, NEW h \in Handler, WriteAlloc(h)
  PROVE  IInv'
<1> DEFINE r == req[h]
           L == loc[h]
           t == L.target
           inode == ReadInode(disk, t)
           x == Head(free_blocks)
<1>1. pc[h] = "append" /\ HandlerOK(disk, "append", r, L)
  <2>1. pc[h] = "append"
    BY DEF WriteAlloc
  <2>2. QED
    BY <2>1, Here
<1>2. /\ r \in Request /\ r.op = "write" /\ L \in LocalTypes /\ ~L.grown
      /\ Resolve(disk, Names(r)) = {t} /\ L.inode = inode /\ TypeAt(disk, t) = "f"
  BY <1>1, AtAppend
<1>3. UNCHANGED <<disk, readers, req, received, crashes>>
  BY DEF WriteAlloc
<1>4. {"append", "write_data"} \subseteq OwnsTarget /\ "write_data" \in Writing
  BY DEF OwnsTarget, Writing
<1>5. t \in Block /\ disk \in [Block -> Content]
  BY <1>2, Here DEF LocalTypes
<1>6. Len(inode.blocks) \in Nat /\ Len(inode.blocks) <= MaxFileBlocks
  BY <1>5, ReadInodeFacts
<1>7. CASE free_blocks = <<>> \/ Len(L.inode.blocks) = MaxFileBlocks
  <2>1. FailLocked(h) /\ free_blocks' = free_blocks /\ loc' = loc
    BY <1>7 DEF WriteAlloc
  <2>2. QED
    BY <1>1, <1>2, <1>3, <1>4, <2>1, FailLockedKept
<1>8. CASE free_blocks # <<>> /\ Len(L.inode.blocks) # MaxFileBlocks
  <2> DEFINE L1 == [L EXCEPT !.reserved = x, !.block = x, !.inode.blocks = Append(@, x), !.grown = TRUE]
  <2>1. /\ Goto(h, "write_data") /\ writer' = writer /\ outcome' = outcome /\ free_blocks' = Tail(free_blocks)
        /\ loc' = [loc EXCEPT ![h].reserved = x, ![h].block = x, ![h].inode.blocks = Append(@, x), ![h].grown = TRUE]
    BY <1>8 DEF WriteAlloc, AfterAppend
  <2>2. loc' = [loc EXCEPT ![h] = L1]
    BY <2>1, Here
  <2>3. Len(inode.blocks) < MaxFileBlocks
    BY <1>2, <1>6, <1>8, SizesAssumption
  <2>4. Carried(pc[h], r, L) = {}
    BY <1>1, <1>2, CarriedPlain
  <2>5. /\ x \in Block \ UsedBlocks(disk)
        /\ \A K1 : K1 = Carried(pc[h], r, L) \cup {x} => BlocksMove(ToSet(free_blocks) \ {x}, Carried(pc[h], r, L), K1)
    BY <1>3, <1>8, <2>1, FreeTaken
  <2>6. Longer(inode, x) \in AnyInode
    BY <1>2, <1>5, <2>3, <2>5, LongerFacts DEF AnyInode
  <2>7. x \in Nat
    BY <2>5, SizesAssumption DEF Block
  <2> HIDE DEF x
  <2>8. L1.inode = Longer(inode, x)
    BY <1>2 DEF Longer, LocalTypes
  <2>9. L1.grown /\ L1.target = t /\ L1.reserved = x /\ L1.block = x
    BY <1>2 DEF LocalTypes
  <2>10. L1 \in LocalTypes
    <3>1. L1 = [L EXCEPT !.reserved = x, !.block = x, !.inode = Longer(inode, x), !.grown = TRUE]
      BY <1>2 DEF Longer, LocalTypes
    <3> HIDE DEF L1, inode, r, L
    <3>2. QED
      BY <1>2, <2>5, <2>6, <2>7, <3>1 DEF LocalTypes
  <2> HIDE DEF L1
  <2>11. Carried("write_data", r, L1) = Carried(pc[h], r, L) \cup {x}
    BY <1>2, <1>4, <2>4, <2>9, CarriedWriting
  <2>12. HandlerOK(disk, "write_data", r, L1)
    <3>1. /\ Resolve(disk, Names(r)) = {L1.target} /\ L1.inode = Longer(ReadInode(disk, L1.target), L1.block)
          /\ TypeAt(disk, L1.target) = "f" /\ Len(ReadInode(disk, L1.target).blocks) < MaxFileBlocks
      BY <1>2, <2>3, <2>8, <2>9
    <3>2. r \in Request /\ r.op = "write" /\ L1 \in LocalTypes /\ L1.grown /\ L1.reserved = L1.block
      BY <1>2, <2>9, <2>10
    <3> HIDE DEF r
    <3>3. QED
      BY <3>1, <3>2, AtWriteData
  <2>13. Moves(h, "write_data", r, L1) /\ Decides(h, "write_data")
    BY <1>3, <2>1, <2>2, MovesOn DEF Decides, Decided
  <2>14. /\ readers' \in [Block -> SUBSET Handler] /\ writer' \in [Block -> Handler \cup {NoHandler}]
         /\ LocksMove(h, SharedBy("write_data", r, L1), OwnedBy("write_data", L1))
    BY <1>1, <1>3, <1>4, <2>1, <2>9, TargetStill DEF locks
  <2>15. BlocksMove(ToSet(free_blocks) \ {x}, Carried(pc[h], r, L), Carried("write_data", r, L1))
    BY <2>5, <2>11
  <2>16. QED
    BY <1>3, <2>12, <2>13, <2>14, <2>15, QuietMoves
<1>9. QED
  BY <1>7, <1>8

\* A data block of a file of the tree is overwritten.
LEMMA Overwrite ==
  ASSUME NEW d \in [Block -> Content], InOrder(d), NEW t \in TreeInodes(d), TypeAt(d, t) = "f",
         NEW w \in BlocksAt(d, t), NEW c \in Content, c.kind = "data", NEW e, Rewritten(d, e, w, c)
  PROVE  InOrder(e) /\ Apart(d, e, {}) /\ UsedBlocks(e) = UsedBlocks(d)
<1>1. t \in Block /\ BlocksAt(d, t) \subseteq Block
  BY TreeClosed, ReadInodeFacts
<1>2. e \in [Block -> Content] /\ e[w] = c /\ \A b \in Block \ {w} : e[b] = d[b]
  BY <1>1, RewrittenFacts
<1>3. /\ \A i \in TreeInodes(d) \ {t} : SameAt(d, e, i)
      /\ ReadInode(e, t) = ReadInode(d, t) /\ TypeAt(e, t) = TypeAt(d, t) /\ BlocksAt(e, t) = BlocksAt(d, t)
  BY <1>2, TouchBlock
<1>4. Slots(d, t) = {} /\ Slots(e, t) = {}
  BY <1>3 DEF Slots
<1>5. IsInjective(ReadInode(e, t).blocks)
  BY <1>3 DEF InOrder
<1>6. \A k \in BlocksAt(e, t) : e[k].kind = IF TypeAt(d, t) = "d" THEN "entries" ELSE "data"
  <2>1. \A k \in BlocksAt(d, t) : d[k].kind = "data"
    BY DEF InOrder
  <2>2. QED
    BY <1>1, <1>2, <1>3, <2>1
<1>7. PICK B : B = {}
  OBVIOUS
<1>8. B \cap UsedBlocks(d) = {} /\ BlocksAt(e, t) = BlocksAt(d, t) \cup B /\ (TypeAt(d, t) = "d" => B = {})
  BY <1>3, <1>7
<1>9. Slots(e, t) = Slots(d, t) /\ \A s \in Slots(d, t) : EntryIn(e, s) = EntryIn(d, s)
  BY <1>4
<1>10. InOrder(e)
  BY <1>2, <1>3, <1>5, <1>6, <1>8, <1>9, KeepTree
<1>11. Apart(d, e, {})
  BY <1>2, <1>3, <1>5, <1>6, <1>8, <1>9, KeepTree
<1>12. UsedBlocks(e) = UsedBlocks(d) \cup B
  BY <1>2, <1>3, <1>5, <1>6, <1>8, <1>9, KeepTree
<1>13. QED
  BY <1>7, <1>10, <1>11, <1>12

\* The tree uses all that it used, and B.
Gains(d, e, B) == UsedBlocks(e) = UsedBlocks(d) \cup B

\* A file of the tree gets one more block, which nothing used.
LEMMA Extend ==
  ASSUME NEW d \in [Block -> Content], InOrder(d), NEW t \in TreeInodes(d), TypeAt(d, t) = "f",
         NEW x \in Block, x \notin UsedBlocks(d), d[x].kind = "data",
         Len(ReadInode(d, t).blocks) < MaxFileBlocks, NEW B, B = {x},
         NEW e, Rewritten(d, e, t, Longer(ReadInode(d, t), x))
  PROVE  /\ Longer(ReadInode(d, t), x) \in Content
         /\ InOrder(e) /\ Apart(d, e, {}) /\ Gains(d, e, B)
<1> DEFINE inode == Longer(ReadInode(d, t), x)
<1>1. /\ t \in Block /\ BlocksAt(d, t) \subseteq Block /\ BlocksAt(d, t) \subseteq UsedBlocks(d) /\ t \in UsedBlocks(d)
      /\ t \notin BlocksAt(d, t)
  <2>1. t \in Block /\ BlocksAt(d, t) \subseteq UsedBlocks(d) /\ t \in UsedBlocks(d)
    BY TreeClosed, UsedFacts
  <2>2. BlocksAt(d, t) \subseteq Block
    BY <2>1, ReadInodeFacts
  <2>3. t \notin BlocksAt(d, t)
    BY DEF InOrder
  <2>4. QED
    BY <2>1, <2>2, <2>3
<1>2. /\ inode \in Inodes /\ inode.type = "f" /\ inode.kind = "inode"
      /\ ToSet(inode.blocks) = BlocksAt(d, t) \cup {x} /\ IsInjective(inode.blocks)
  <2>1. IsInjective(ReadInode(d, t).blocks)
    BY DEF InOrder
  <2>2. x \notin BlocksAt(d, t)
    BY <1>1
  <2>3. QED
    BY <1>1, <2>1, <2>2, LongerFacts
<1>3. inode \in Content
  BY <1>2 DEF Content
<1>4. Rewritten(d, e, t, inode)
  OBVIOUS
<1> HIDE DEF inode
<1>5. e \in [Block -> Content] /\ e[t] = inode /\ \A b \in Block \ {t} : e[b] = d[b]
  BY <1>1, <1>3, <1>4, RewrittenFacts
<1>6. \A i \in TreeInodes(d) \ {t} : SameAt(d, e, i)
  BY <1>5, TouchInode
<1>7. ReadInode(e, t) = inode
  BY <1>2, <1>5 DEF ReadInode
<1>8. TypeAt(e, t) = "f" /\ BlocksAt(e, t) = BlocksAt(d, t) \cup B /\ IsInjective(ReadInode(e, t).blocks)
  BY <1>2, <1>7 DEF TypeAt, BlocksAt
<1>9. Slots(d, t) = {} /\ Slots(e, t) = {}
  BY <1>8 DEF Slots
<1>10. \A k \in BlocksAt(e, t) : e[k].kind = IF TypeAt(d, t) = "d" THEN "entries" ELSE "data"
  <2>1. \A k \in BlocksAt(d, t) : d[k].kind = "data"
    BY DEF InOrder
  <2>2. \A k \in BlocksAt(e, t) : e[k] = d[k]
    BY <1>1, <1>5, <1>8
  <2>3. QED
    BY <1>8, <2>1, <2>2
<1>11. PICK D : D = B
  OBVIOUS
<1>12. /\ D \cap UsedBlocks(d) = {} /\ BlocksAt(e, t) = BlocksAt(d, t) \cup D /\ (TypeAt(d, t) = "d" => D = {})
       /\ TypeAt(e, t) = TypeAt(d, t)
  BY <1>8, <1>11
<1>13. Slots(e, t) = Slots(d, t) /\ \A s \in Slots(d, t) : EntryIn(e, s) = EntryIn(d, s)
  BY <1>9
<1>14. InOrder(e)
  BY <1>5, <1>6, <1>8, <1>10, <1>12, <1>13, KeepTree
<1>15. Apart(d, e, {})
  BY <1>5, <1>6, <1>8, <1>10, <1>12, <1>13, KeepTree
<1>16. UsedBlocks(e) = UsedBlocks(d) \cup D
  BY <1>5, <1>6, <1>8, <1>10, <1>12, <1>13, KeepTree
<1>17. QED
  BY <1>3, <1>11, <1>14, <1>15, <1>16 DEF inode, Gains

\* The data on the disk is all that sets the one label of a growing file apart from the other.
LEMMA WriteInodeFacts ==
  ASSUME NEW d, NEW r, NEW L, L.grown, HandlerOK(d, "write_data", r, L), d[L.block].kind = "data"
  PROVE  HandlerOK(d, "write_inode", r, L)
<1>1. /\ r \in Request /\ r.op = "write" /\ L \in LocalTypes
      /\ Resolve(d, Names(r)) = {L.target}
      /\ L.inode = Longer(ReadInode(d, L.target), L.block)
      /\ Len(ReadInode(d, L.target).blocks) < MaxFileBlocks
      /\ TypeAt(d, L.target) = "f" /\ L.reserved = L.block
  BY AtWriteData
<1>2. QED
  BY <1>1, AtWriteInode

\* WriteData(h)
LEMMA WriteDataKept ==
  ASSUME IInv, NEW h \in Handler, WriteData(h)
  PROVE  IInv'
<1> DEFINE r == req[h]
           L == loc[h]
           t == L.target
<1>1. pc[h] = "write_data" /\ HandlerOK(disk, "write_data", r, L)
  <2>1. pc[h] = "write_data"
    BY DEF WriteData
  <2>2. QED
    BY <2>1, Here
<1>2. /\ r \in Request /\ r.op = "write" /\ L \in LocalTypes
      /\ TypeAt(disk, t) = "f"
      /\ ~L.grown => L.block \in BlocksAt(disk, t)
      /\ L.grown => L.reserved = L.block
  BY <1>1, AtWriteData
<1>3. PICK v \in IF r.data = Junk THEN Value \cup {Junk} ELSE {r.data} :
        disk' = [disk EXCEPT ![L.block] = FileData(v)]
  BY DEF WriteData
<1>4. UNCHANGED <<free_blocks, readers, req, loc, received, crashes>>
  BY DEF WriteData
<1>5. v \in Value \cup {Junk}
  BY <1>2, RequestFacts
<1>6. PICK c \in Content : c = FileData(v)
  BY <1>5 DEF Content
<1>7. c.kind = "data"
  BY <1>6 DEF FileData
<1>8. disk' = [disk EXCEPT ![L.block] = c]
  BY <1>3, <1>6
<1>9. {"write_data", "write_inode"} \subseteq OwnsTarget /\ pc[h] \in Writing /\ "write_inode" \notin Decided
      /\ "write_inode" \in Writing /\ "write_data" \notin {"new_entry", "grow", "write_inode"}
  BY <1>1 DEF OwnsTarget, Writing, Decided
<1>10. CASE L.grown
  <2>1. /\ Goto(h, "write_inode") /\ UNCHANGED <<free_blocks, locks, req, loc, outcome, received, crashes>>
    BY <1>10 DEF WriteData, locks
  <2>2. Carried("write_inode", r, L) = Carried(pc[h], r, L) /\ L.block \in Carried(pc[h], r, L)
    <3>1. Carried("write_inode", r, L) = {L.reserved}
      BY <1>2, <1>9, <1>10, CarriedWriting
    <3>2. Carried(pc[h], r, L) = {L.reserved}
      BY <1>2, <1>9, <1>10, CarriedWriting
    <3>3. QED
      BY <1>2, <1>10, <3>1, <3>2
  <2>3. L.block \in Block
    BY <2>2, FlightFacts
  <2>4. disk'[L.block].kind = "data"
    BY <1>7, <1>8, <2>3, Here
  <2>5. HandlerOK(disk', "write_data", r, L) => HandlerOK(disk', "write_inode", r, L)
    <3> HIDE DEF r, L
    <3>1. QED
      BY <1>10, <2>4, WriteInodeFacts
  <2>6. HandlerOK(disk, "write_data", req[h], loc[h])
    BY <1>1
  <2>7. QED
    BY <1>1, <1>8, <1>9, <2>1, <2>2, <2>5, <2>6, OwnBlockKept
<1>11. CASE ~L.grown
  <2>1. DoneLocked(h, "reply")
    BY <1>11 DEF WriteData
  <2>2. t \in TreeInodes(disk) /\ L.block \in Writable(h)
    BY <1>1, <1>2, <1>9, <1>11, OwnWritable
  <2>3. Carried(pc[h], r, L) = {}
    BY <1>2, <1>9, <1>11, CarriedWriting
  <2>4. Rewritten(disk, disk', L.block, c)
    BY <1>8 DEF Rewritten
  <2>5. InOrder(disk') /\ Apart(disk, disk', {}) /\ UsedBlocks(disk') = UsedBlocks(disk)
    <3>1. disk \in [Block -> Content] /\ InOrder(disk) /\ L.block \in BlocksAt(disk, t)
      BY <1>2, <1>11, Here
    <3> HIDE DEF L, t
    <3>2. InOrder(disk')
      BY <1>2, <1>7, <2>2, <2>4, <3>1, Overwrite
    <3>3. Apart(disk, disk', {})
      BY <1>2, <1>7, <2>2, <2>4, <3>1, Overwrite
    <3>4. UsedBlocks(disk') = UsedBlocks(disk)
      BY <1>2, <1>7, <2>2, <2>4, <3>1, Overwrite
    <3>5. QED
      BY <3>2, <3>3, <3>4
  <2>6. PICK C : C = {}
    OBVIOUS
  <2>7. /\ C \subseteq Carried(pc[h], r, L) /\ Apart(disk, disk', C)
        /\ UsedBlocks(disk') = UsedBlocks(disk) \cup Carried(pc[h], r, L)
    BY <2>3, <2>5, <2>6
  <2>8. QED
    BY <1>1, <1>4, <1>8, <2>1, <2>2, <2>5, <2>7, LinkingMoves
<1>12. QED
  BY <1>10, <1>11

\* WriteInode(h)
LEMMA WriteInodeKept ==
  ASSUME IInv, NEW h \in Handler, WriteInode(h)
  PROVE  IInv'
<1> DEFINE r == req[h]
           L == loc[h]
           t == L.target
<1>1. pc[h] = "write_inode" /\ HandlerOK(disk, "write_inode", r, L)
  <2>1. pc[h] = "write_inode"
    BY DEF WriteInode
  <2>2. QED
    BY <2>1, Here
<1>2. /\ r \in Request /\ r.op = "write" /\ L \in LocalTypes /\ L.grown
      /\ L.inode = Longer(ReadInode(disk, t), L.block)
      /\ Len(ReadInode(disk, t).blocks) < MaxFileBlocks
      /\ TypeAt(disk, t) = "f" /\ L.reserved = L.block /\ disk[L.block].kind = "data"
  BY <1>1, AtWriteInode
<1>3. /\ disk' = [disk EXCEPT ![t] = L.inode] /\ DoneLocked(h, "reply")
      /\ UNCHANGED <<free_blocks, readers, req, loc, received, crashes>>
  BY DEF WriteInode
<1>4. pc[h] \in OwnsTarget /\ pc[h] \in Writing
  BY <1>1 DEF OwnsTarget, Writing
<1>5. t \in TreeInodes(disk) /\ t \in Writable(h)
  BY <1>4, OwnWritable
<1>6. Carried(pc[h], r, L) = {L.block}
  BY <1>2, <1>4, CarriedWriting
<1>7. L.block \in Block /\ L.block \notin UsedBlocks(disk)
  BY <1>6, FlightFacts
<1>8. PICK B : B = {L.block}
  OBVIOUS
<1>9. Rewritten(disk, disk', t, Longer(ReadInode(disk, t), L.block))
  BY <1>2, <1>3 DEF Rewritten
<1>10. /\ L.inode \in Content /\ InOrder(disk') /\ Apart(disk, disk', {})
       /\ UsedBlocks(disk') = UsedBlocks(disk) \cup B
  <2>1. disk \in [Block -> Content] /\ InOrder(disk)
    BY Here
  <2>2. PICK x : x = L.block
    OBVIOUS
  <2>3. /\ TypeAt(disk, t) = "f" /\ Len(ReadInode(disk, t).blocks) < MaxFileBlocks /\ t \in TreeInodes(disk)
        /\ x \in Block /\ x \notin UsedBlocks(disk) /\ disk[x].kind = "data" /\ B = {x}
        /\ Rewritten(disk, disk', t, Longer(ReadInode(disk, t), x))
    BY <1>2, <1>5, <1>7, <1>8, <1>9, <2>2
  <2> HIDE DEF L, t
  <2>4. Longer(ReadInode(disk, t), x) \in Content
    BY <2>1, <2>3, Extend
  <2>5. InOrder(disk')
    BY <2>1, <2>3, Extend
  <2>6. Apart(disk, disk', {})
    BY <2>1, <2>3, Extend
  <2>7. Gains(disk, disk', B)
    BY <2>1, <2>3, Extend
  <2>8. QED
    BY <1>2, <2>2, <2>4, <2>5, <2>6, <2>7 DEF Gains
<1>11. PICK C : C = {}
  OBVIOUS
<1>12. /\ C \subseteq Carried(pc[h], r, L) /\ Apart(disk, disk', C)
       /\ UsedBlocks(disk') = UsedBlocks(disk) \cup Carried(pc[h], r, L)
  BY <1>6, <1>8, <1>10, <1>11
<1>13. QED
  BY <1>1, <1>3, <1>5, <1>10, <1>12, LinkingMoves

-----------------------------------------------------------------------------
(* All steps *)

\* A server that has just been started.
Started ==
  /\ disk \in [Block -> Content] /\ InOrder(disk) /\ free_blocks = init_free_blocks(disk)
  /\ readers = [b \in Block |-> {}] /\ writer = [b \in Block |-> NoHandler]
  /\ pc = [h \in Handler |-> "idle"] /\ req = [h \in Handler |-> NoReq]
  /\ loc = [h \in Handler |-> Locals0] /\ outcome = [h \in Handler |-> "none"]
  /\ received \in 0 .. MaxRequests /\ crashes \in 0 .. MaxCrashes

\* The invariant holds of a server that has just been started, on whatever tree is in order.
LEMMA StartedInv ==
  ASSUME Started
  PROVE  IInv
<1>1. VariableTypes
  <2>1. "idle" \in Labels /\ "idle" \notin Decided
    BY DEF Labels, Decided
  <2>2. Locals0 \in LocalTypes
    BY FreshLocals
  <2>3. QED
    BY <2>1, <2>2 DEF Started, VariableTypes
<1>2. \A h \in Handler : HandlerOK(disk, pc[h], req[h], loc[h])
  <2>1. HandlerOK(disk, "idle", NoReq, Locals0)
    BY AtIdle
  <2>2. QED
    BY <2>1 DEF Started
<1>3. LockInv
  <2>1. ASSUME NEW h \in Handler, NEW b \in Block
        PROVE  /\ h \in readers[b] <=> b \in SharedBy(pc[h], req[h], loc[h])
               /\ writer[b] = h <=> b \in OwnedBy(pc[h], loc[h])
    <3>1. pc[h] = "idle" /\ readers[b] = {} /\ writer[b] = NoHandler
      BY DEF Started
    <3>2. SharedBy(pc[h], req[h], loc[h]) = {} /\ OwnedBy(pc[h], loc[h]) = {}
      BY <3>1, LocksAt
    <3>3. QED
      BY <3>1, <3>2, NoHandlerAssumption
  <2>2. readers \in [Block -> SUBSET Handler] /\ writer \in [Block -> Handler \cup {NoHandler}]
    BY DEF Started
  <2>3. \A b \in Block : writer[b] # NoHandler => readers[b] = {}
    BY DEF Started
  <2>4. QED
    BY <2>1, <2>2, <2>3 DEF LockInv
<1>4. BlockInv
  <2>1. /\ free_blocks \in Seq(Block) /\ IsInjective(free_blocks)
        /\ ToSet(free_blocks) = Block \ UsedBlocks(disk)
    BY FreeListFacts DEF Started
  <2>2. \A h \in Handler : InFlight(h) = {}
    <3>1. TAKE h \in Handler
    <3>2. req[h] = NoReq
      BY DEF Started
    <3>3. InFlight(h) = Carried(pc[h], req[h], loc[h])
      BY DEF InFlight, Carried
    <3>4. Carried(pc[h], NoReq, loc[h]) = {}
      BY DEF Carried, NoReq
    <3>5. QED
      BY <3>2, <3>3, <3>4
  <2>3. QED
    BY <2>1, <2>2 DEF BlockInv
<1>5. QED
  BY <1>1, <1>2, <1>3, <1>4 DEF IInv, Started

\* The first start: the disk is one in order (DiskAssumption).
LEMMA InitInv == Init => IInv
<1> SUFFICES ASSUME Init PROVE IInv
  OBVIOUS
<1>1. InitialDisk \in [Block -> Content] /\ InOrder(InitialDisk)
  BY DiskAssumption, InOrderIfUnshared
<1>2. Started
  BY <1>1, BoundsAssumption DEF Init, Started
<1>3. QED
  BY <1>2, StartedInv

\* Crash, and the start of a new server on the same disk.
LEMMA CrashKept ==
  ASSUME IInv, Crash
  PROVE  IInv'
<1>1. /\ disk' \in [Block -> Content] /\ InOrder(disk') /\ free_blocks' = init_free_blocks(disk')
      /\ received' \in 0 .. MaxRequests /\ crashes' \in 0 .. MaxCrashes
  <2>1. disk' = disk /\ received' = received /\ crashes' = crashes + 1 /\ crashes < MaxCrashes
        /\ free_blocks' = init_free_blocks(disk)
    BY DEF Crash
  <2>2. disk \in [Block -> Content] /\ InOrder(disk) /\ received \in 0 .. MaxRequests /\ crashes \in 0 .. MaxCrashes
    BY DEF IInv, VariableTypes
  <2>3. crashes' \in 0 .. MaxCrashes
    BY <2>1, <2>2, BoundsAssumption
  <2>4. QED
    BY <2>1, <2>2, <2>3
<1>2. /\ readers' = [b \in Block |-> {}] /\ writer' = [b \in Block |-> NoHandler]
      /\ pc' = [h \in Handler |-> "idle"] /\ req' = [h \in Handler |-> NoReq]
      /\ loc' = [h \in Handler |-> Locals0] /\ outcome' = [h \in Handler |-> "none"]
  BY DEF Crash
<1>3. Started'
  BY <1>1, <1>2 DEF Started
<1>4. QED
  BY <1>3, StartedInv, PTL

\* The inductive step: every handler, the crash, and standing still.
LEMMA StepInv == IInv /\ [Next]_vars => IInv'
<1> SUFFICES ASSUME IInv, [Next]_vars PROVE IInv'
  OBVIOUS
<1>1. ASSUME NEW h \in Handler, NEW r \in Request, Receive(h, r) PROVE IInv'
  BY <1>1, ReceiveKept
<1>2. ASSUME NEW h \in Handler, HandlerStep(h) PROVE IInv'
  <2>1. CASE Reserve(h)
    BY <2>1, ReserveKept
  <2>2. CASE ReturnBlock(h)
    BY <2>2, ReturnBlockKept
  <2>3. CASE Reply(h)
    BY <2>3, ReplyKept
  <2>4. CASE TraverseRoot(h)
    BY <2>4, TraverseRootKept
  <2>5. CASE TraverseLook(h)
    BY <2>5, TraverseLookKept
  <2>6. CASE TraverseStep(h)
    BY <2>6, TraverseStepKept
  <2>7. CASE LockTarget(h)
    BY <2>7, LockTargetKept
  <2>8. CASE CreateCheck(h)
    BY <2>8, CreateCheckKept
  <2>9. CASE CreateAlloc(h)
    BY <2>9, CreateAllocKept
  <2>10. CASE CreateWriteInode(h)
    BY <2>10, CreateWriteInodeKept
  <2>11. CASE CreateWriteEntries(h)
    BY <2>11, CreateWriteEntriesKept
  <2>12. CASE CreateWriteParent(h)
    BY <2>12, CreateWriteParentKept
  <2>13. CASE DeleteCheck(h)
    BY <2>13, DeleteCheckKept
  <2>14. CASE DeleteLockChild(h)
    BY <2>14, DeleteLockChildKept
  <2>15. CASE DeleteWriteEntries(h)
    BY <2>15, DeleteWriteEntriesKept
  <2>16. CASE DeleteShrink(h)
    BY <2>16, DeleteShrinkKept
  <2>17. CASE DeleteFreeEntries(h)
    BY <2>17, DeleteFreeEntriesKept
  <2>18. CASE DeleteFree(h)
    BY <2>18, DeleteFreeKept
  <2>19. CASE ReadCheck(h)
    BY <2>19, ReadCheckKept
  <2>20. CASE ReadData(h)
    BY <2>20, ReadDataKept
  <2>21. CASE WriteCheck(h)
    BY <2>21, WriteCheckKept
  <2>22. CASE WriteAlloc(h)
    BY <2>22, WriteAllocKept
  <2>23. CASE WriteData(h)
    BY <2>23, WriteDataKept
  <2>24. CASE WriteInode(h)
    BY <2>24, WriteInodeKept
  <2>25. QED
    BY <1>2, <2>1, <2>2, <2>3, <2>4, <2>5, <2>6, <2>7, <2>8, <2>9, <2>10, <2>11, <2>12, <2>13, <2>14,
       <2>15, <2>16, <2>17, <2>18, <2>19, <2>20, <2>21, <2>22, <2>23, <2>24 DEF HandlerStep
<1>3. CASE Crash
  BY <1>3, CrashKept
<1>4. CASE UNCHANGED vars
  <2>1. /\ disk' = disk /\ free_blocks' = free_blocks /\ readers' = readers /\ writer' = writer /\ pc' = pc
        /\ req' = req /\ loc' = loc /\ outcome' = outcome /\ received' = received /\ crashes' = crashes
    BY <1>4 DEF vars, locks
  <2>2. VariableTypes' /\ InOrder(disk') /\ \A h \in Handler : HandlerOK(disk', pc'[h], req'[h], loc'[h])
    BY <2>1 DEF IInv, VariableTypes
  <2>3. LockInv'
    BY <2>1 DEF IInv, LockInv
  <2>4. BlockInv'
    <3>1. \A h \in Handler : InFlight(h)' = InFlight(h)
      BY <2>1 DEF InFlight
    <3>2. QED
      BY <2>1, <3>1 DEF IInv, BlockInv
  <2>5. QED
    BY <2>2, <2>3, <2>4 DEF IInv
<1>5. CASE Finished
  BY <1>4, <1>5 DEF Finished
<1>6. QED
  BY <1>1, <1>2, <1>3, <1>4, <1>5 DEF Next

\* The inductive invariant holds throughout: the tree on the disk is in order, every handler
\* knows what its label says, locks are where the labels say, and each block is in one place.
THEOREM Invariance == Spec => []IInv
BY InitInv, StepInv, PTL DEF Spec

-----------------------------------------------------------------------------
(* What it implies *)

\* The types of all variables are part of it.
LEMMA InvTypeOK == IInv => TypeOK
<1> SUFFICES ASSUME IInv PROVE TypeOK
  OBVIOUS
<1>1. VariableTypes /\ LockInv /\ BlockInv
  BY DEF IInv
<1>2. DOMAIN disk = Block /\ \A b \in Block : disk[b].kind \in {"inode", "entries", "data"}
  <2>1. disk \in [Block -> Content]
    BY <1>1 DEF VariableTypes
  <2>2. QED
    BY <2>1, Kinds DEF Content, Inodes, Inode
<1>3. ToSet(free_blocks) \subseteq Block \ {0}
  <2>1. free_blocks \in Seq(Block) /\ ToSet(free_blocks) \cap UsedBlocks(disk) = {}
    BY <1>1 DEF BlockInv
  <2>2. 0 \in UsedBlocks(disk)
    BY <1>1, UsedFacts DEF VariableTypes
  <2>3. ToSet(free_blocks) \subseteq Block
    BY <2>1, ElementsOfSeq
  <2>4. QED
    BY <2>1, <2>2, <2>3
<1>4. ASSUME NEW h \in Handler
      PROVE  /\ pc[h] = "idle" <=> req[h] = NoReq
             /\ pc[h] = "reply" => outcome[h] # "none"
             /\ loc[h].target \in Block /\ loc[h].parent \in Block
  <2>1. ServesOK(pc[h], req[h]) /\ loc[h] \in LocalTypes
    BY Here DEF HandlerOK
  <2>2. pc[h] = "reply" => outcome[h] # "none"
    BY <1>1 DEF VariableTypes, Decided
  <2>3. QED
    BY <2>1, <2>2 DEF ServesOK, LocalTypes
<1>5. /\ readers \in [Block -> SUBSET Handler]
      /\ writer \in [Block -> Handler \cup {NoHandler}]
  BY <1>1 DEF LockInv
<1>6. /\ pc \in [Handler -> Labels]
      /\ req \in [Handler -> Request \cup {NoReq}]
      /\ outcome \in [Handler -> Answered \cup {"none"}]
      /\ received \in 0 .. MaxRequests /\ crashes \in 0 .. MaxCrashes
  BY <1>1 DEF VariableTypes
<1>7. QED
  BY <1>2, <1>3, <1>4, <1>5, <1>6 DEF TypeOK

\* How often a block occurs in a list without repetitions.
LEMMA Occurrences ==
  ASSUME NEW S, NEW s \in Seq(S), IsInjective(s), NEW b
  PROVE  Cardinality({n \in DOMAIN s : s[n] = b}) = IF b \in ToSet(s) THEN 1 ELSE 0
<1> DEFINE N == {n \in DOMAIN s : s[n] = b}
<1>1. DOMAIN s = 1 .. Len(s) /\ ToSet(s) = {s[k] : k \in 1 .. Len(s)}
  BY ElementsOfSeq
<1>2. CASE b \in ToSet(s)
  <2>1. PICK n \in DOMAIN s : s[n] = b
    BY <1>1, <1>2
  <2>2. N = {n}
    BY <2>1 DEF IsInjective
  <2>3. QED
    BY <1>2, <2>2, FS_Singleton
<1>3. CASE b \notin ToSet(s)
  <2>1. N = {}
    BY <1>1, <1>3
  <2>2. QED
    BY <1>3, <2>1, FS_EmptySet
<1>4. QED
  BY <1>2, <1>3

\* Disjoint sets that cover all blocks make the three counts of a block add up to one.
LEMMA InvBlockAccounting == IInv => BlockAccounting
<1> SUFFICES ASSUME IInv, NEW b \in Block \ {0}
             PROVE  Cardinality({n \in DOMAIN free_blocks : free_blocks[n] = b})
                    + Cardinality({h \in Handler : b \in InFlight(h)})
                    + (IF b \in UsedBlocks(disk) THEN 1 ELSE 0) = 1
  BY DEF BlockAccounting
<1> DEFINE H == {h \in Handler : b \in InFlight(h)}
           F == ToSet(free_blocks)
           U == UsedBlocks(disk)
<1>1. /\ free_blocks \in Seq(Block) /\ IsInjective(free_blocks) /\ F \cap U = {}
      /\ \A h \in Handler : /\ InFlight(h) \cap U = {} /\ InFlight(h) \cap F = {}
                            /\ \A g \in Handler \ {h} : InFlight(h) \cap InFlight(g) = {}
      /\ b \in U \/ b \in F \/ \E h \in Handler : b \in InFlight(h)
  BY DEF IInv, BlockInv
<1>2. Cardinality({n \in DOMAIN free_blocks : free_blocks[n] = b}) = IF b \in F THEN 1 ELSE 0
  BY <1>1, Occurrences
<1>3. CASE \E h \in Handler : b \in InFlight(h)
  <2>1. PICK h \in Handler : b \in InFlight(h)
    BY <1>3
  <2>2. b \notin U /\ b \notin F /\ H = {h}
    BY <1>1, <2>1
  <2>3. Cardinality(H) = 1
    BY <2>2, FS_Singleton
  <2>4. QED
    BY <1>2, <2>2, <2>3
<1>4. CASE ~ \E h \in Handler : b \in InFlight(h)
  <2>1. H = {}
    BY <1>4
  <2>2. Cardinality(H) = 0
    BY <2>1, FS_EmptySet
  <2>3. CASE b \in U
    <3>1. b \notin F
      BY <1>1, <2>3
    <3>2. QED
      BY <1>2, <2>2, <2>3, <3>1
  <2>4. CASE b \notin U
    <3>1. b \in F
      BY <1>1, <1>4, <2>4
    <3>2. QED
      BY <1>2, <2>2, <2>4, <3>1
  <2>5. QED
    BY <2>3, <2>4
<1>5. QED
  BY <1>3, <1>4

\* What a handler holds, by its label.
LEMMA HoldsFacts ==
  ASSUME IInv, NEW h \in Handler
  PROVE  Holds(h) = HeldBy(pc[h], req[h], loc[h]) \cap Block
BY DEF IInv, LockInv, Holds, HeldBy

\* What handlers know of their paths is part of it.
LEMMA InvNoStaleTarget == IInv => NoStaleTarget
<1> SUFFICES ASSUME IInv, NEW h \in Handler
             PROVE  /\ pc[h] \in Resolving =>
                         Resolve(disk, SubSeq(Names(req[h]), 1, loc[h].depth))
                           = {IF pc[h] = "look" THEN loc[h].parent ELSE loc[h].target}
                    /\ pc[h] \in Modifying =>
                         /\ Resolve(disk, Names(req[h])) = {loc[h].target}
                         /\ loc[h].target \in Holds(h)
  BY DEF NoStaleTarget
<1>1. PathOK(disk, pc[h], req[h], loc[h])
  BY Here DEF HandlerOK
<1>2. pc[h] \in Modifying => loc[h].target \in HeldBy(pc[h], req[h], loc[h])
  <2>1. CASE pc[h] \in Reading
    BY <2>1, ReaderHolds
  <2>2. CASE pc[h] \in {"clear", "shrink", "free_entries"}
    BY <2>2, UnlinkerHolds
  <2>3. CASE pc[h] \in (Creating \cup Deleting \cup Writing) \ {"clear", "shrink", "free_entries"}
    BY <2>3, WriterHolds
  <2>4. QED
    BY <2>1, <2>2, <2>3 DEF Modifying, Creating, Deleting, Writing, Reading
<1>3. pc[h] \in Modifying => loc[h].target \in Block
  BY TargetInTree
<1>4. QED
  BY <1>1, <1>2, <1>3, HoldsFacts DEF PathOK

\* What handlers hold while they wait is part of it.
LEMMA InvLocksFollowTheTree == IInv => LocksFollowTheTree
<1> SUFFICES ASSUME IInv, NEW h \in Handler
             PROVE  LET next == IF pc[h] = "child" THEN loc[h].child ELSE loc[h].target
                    IN  /\ pc[h] \in {"step", "target", "child"} =>
                             \A b \in Holds(h) : next \in Children(disk, b)
                        /\ pc[h] \in {"alloc", "append", "return_locked"} =>
                             Holds(h) = {loc[h].target} /\ writer[loc[h].target] = h
                        /\ pc[h] = "free_entries" =>
                             /\ Holds(h) = {loc[h].target, loc[h].child}
                             /\ \A b \in Holds(h) : writer[b] = h
                        /\ pc[h] \in {"idle", "reply", "root", "reserve", "free", "return_block"} => Holds(h) = {}
  BY DEF LocksFollowTheTree
<1> DEFINE r == req[h]
           L == loc[h]
<1>1. CASE pc[h] = "step"
  <2>1. HandlerOK(disk, "step", r, L)
    BY <1>1, Here
  <2>2. L.target \in Children(disk, L.parent)
    BY <2>1, AtStep
  <2>3. Holds(h) \subseteq {L.parent}
    BY <1>1, HoldsFacts, LocksAt DEF HeldBy
  <2>4. QED
    BY <1>1, <2>2, <2>3
<1>2. CASE pc[h] = "target"
  <2>1. HandlerOK(disk, "target", r, L)
    BY <1>2, Here
  <2>2. Names(r) # <<>> => L.target \in Children(disk, L.parent)
    BY <2>1, AtTarget
  <2>3. Holds(h) \subseteq (IF Names(r) = <<>> THEN {} ELSE {L.parent})
    BY <1>2, HoldsFacts, LocksAt DEF HeldBy
  <2>4. QED
    BY <1>2, <2>2, <2>3
<1>3. CASE pc[h] = "child"
  <2>1. HandlerOK(disk, "child", r, L)
    BY <1>3, Here
  <2>2. EntrySlot(L) \in Slots(disk, L.target) /\ EntryIn(disk, EntrySlot(L)).inode_block = L.child
    BY <2>1, AtChild
  <2>3. L.target \in Block /\ disk \in [Block -> Content]
    BY <1>3, TargetInTree, Here DEF Modifying
  <2>4. L.child \in Children(disk, L.target)
    BY <2>2, <2>3, EntriesBySlots
  <2>5. HeldBy("child", r, L) = {L.target}
    BY WriterHolds DEF Deleting
  <2>6. Holds(h) \subseteq {L.target}
    BY <1>3, <2>5, HoldsFacts
  <2>7. QED
    BY <1>3, <2>4, <2>6
<1>4. CASE pc[h] \in {"idle", "reserve", "root", "return_block", "free", "reply"}
  <2>1. HeldBy(pc[h], req[h], loc[h]) = {}
    BY <1>4, NothingHeld
  <2>2. Holds(h) = {}
    BY <2>1, HoldsFacts
  <2>3. QED
    BY <1>4, <2>2
<1>5. CASE pc[h] \in {"alloc", "append", "return_locked"}
  <2>1. pc[h] \in OwnsTarget /\ pc[h] \in Modifying
    BY <1>5 DEF OwnsTarget, Creating, Deleting, Writing, Modifying
  <2>2. L.target \in Block
    BY <2>1, TargetInTree
  <2>3. SharedBy(pc[h], r, L) = {} /\ OwnedBy(pc[h], L) = {L.target}
    BY <2>1, LocksAt DEF OwnsTarget
  <2>4. Holds(h) = {L.target}
    BY <2>2, <2>3, HoldsFacts DEF HeldBy
  <2>5. writer[L.target] = h
    BY <2>2, <2>3 DEF IInv, LockInv
  <2>6. QED
    BY <1>5, <2>4, <2>5
<1>6. CASE pc[h] = "free_entries"
  <2>1. L.target \in Block /\ L.child \in Block
    BY Here DEF HandlerOK, LocalTypes
  <2>2. SharedBy(pc[h], r, L) = {} /\ OwnedBy(pc[h], L) = {L.target, L.child}
    BY <1>6, LocksAt
  <2>3. Holds(h) = {L.target, L.child}
    BY <2>1, <2>2, HoldsFacts DEF HeldBy
  <2>4. \A b \in Holds(h) : writer[b] = h
    BY <2>1, <2>2, <2>3 DEF IInv, LockInv
  <2>5. QED
    BY <1>6, <2>3, <2>4
<1>7. QED
  BY <1>1, <1>2, <1>3, <1>4, <1>5, <1>6

\* A step of a handler writes one block at most, one of its own, and goes on.
Writes(h) ==
  \/ disk' = disk
  \/ \E w \in Writable(h) : (\A b : b # w => disk'[b] = disk[b]) /\ pc'[h] # pc[h]

\* That is so if the block is one the handler may write to and the label changes.
LEMMA WritesIts ==
  ASSUME IInv, NEW h \in Handler, NEW w \in Writable(h), NEW c, disk' = [disk EXCEPT ![w] = c],
         NEW p, Goto(h, p), p # pc[h]
  PROVE  Writes(h)
<1>1. pc'[h] = p
  BY Here DEF Goto
<1>2. \A b : b # w => disk'[b] = disk[b]
  <2>1. disk \in [Block -> Content]
    BY Here
  <2>2. QED
    BY <2>1
<1>3. QED
  BY <1>1, <1>2 DEF Writes

\* All steps of handlers are such.
LEMMA HandlerWrites ==
  ASSUME IInv, NEW h \in Handler, HandlerStep(h)
  PROVE  Writes(h)
<1> DEFINE r == req[h]
           L == loc[h]
<1>1. ASSUME pc[h] \in OwnsTarget \cup {"clear", "shrink", "free_entries"}
      PROVE  L.target \in Writable(h) /\ \A w \in BlocksAt(disk, L.target) : w \in Writable(h)
  BY <1>1, OwnWritable
<1>2. \A w \in Carried(pc[h], r, L) : w \in Writable(h)
  <2>1. Carried(pc[h], r, L) \subseteq Block
    BY FlightFacts
  <2>2. QED
    BY <2>1 DEF Writable
<1>3. CASE CreateWriteInode(h)
  <2>1. pc[h] = "new_inode" /\ Goto(h, "new_entry")
        /\ disk' = [disk EXCEPT ![L.reserved] = Inode(r.type, r.user, <<>>)]
    BY <1>3 DEF CreateWriteInode, AfterNewInode
  <2>2. HandlerOK(disk, "new_inode", r, L)
    BY <2>1, Here
  <2>3. r \in Request /\ r.op = "create"
    BY <2>2, AtNewInode
  <2>4. L.reserved \in Carried("new_inode", r, L)
    BY <2>3, CarriedCreating
  <2>5. QED
    BY <1>2, <2>1, <2>4, WritesIts
<1>4. CASE CreateWriteEntries(h)
  <2>1. pc[h] = "new_entry" /\ disk' = [disk EXCEPT ![L.block] = DirData(L.entries)]
        /\ \E p \in {"grow", "reply"} : Goto(h, p)
    BY <1>4 DEF CreateWriteEntries, DoneLocked
  <2>2. HandlerOK(disk, "new_entry", r, L) /\ pc[h] \in OwnsTarget
    BY <2>1, Here DEF OwnsTarget, Creating
  <2>3. L.block \in Writable(h)
    <3>1. r \in Request /\ r.op = "create" /\ (~L.grown => L.block \in BlocksAt(disk, L.target))
      BY <2>2, AtNewEntry
    <3>2. L.grown => L.block \in Carried(pc[h], r, L)
      BY <2>1, <3>1, CarriedCreating
    <3>3. QED
      BY <1>1, <1>2, <2>2, <3>1, <3>2
  <2>4. PICK p \in {"grow", "reply"} : Goto(h, p)
    BY <2>1
  <2>5. p # pc[h]
    BY <2>1
  <2>6. QED
    BY <2>1, <2>3, <2>4, <2>5, WritesIts
<1>5. CASE CreateWriteParent(h)
  <2>1. pc[h] = "grow" /\ disk' = [disk EXCEPT ![L.target] = L.inode] /\ Goto(h, "reply")
    BY <1>5 DEF CreateWriteParent, DoneLocked
  <2>2. pc[h] \in OwnsTarget
    BY <2>1 DEF OwnsTarget, Creating
  <2>3. QED
    BY <1>1, <2>1, <2>2, WritesIts
<1>6. CASE DeleteWriteEntries(h)
  <2>1. pc[h] = "clear" /\ disk' = [disk EXCEPT ![L.block] = DirData(L.entries)] /\ Goto(h, "free")
    BY <1>6 DEF DeleteWriteEntries
  <2>2. L.block \in Writable(h)
    BY <2>1, UnlinkedFacts
  <2>3. QED
    BY <2>1, <2>2, WritesIts
<1>7. CASE DeleteShrink(h)
  <2>1. pc[h] = "shrink" /\ disk' = [disk EXCEPT ![L.target] = L.inode] /\ Goto(h, "free_entries")
    BY <1>7 DEF DeleteShrink
  <2>2. QED
    BY <1>1, <2>1, WritesIts
<1>8. CASE WriteData(h)
  <2>1. pc[h] = "write_data" /\ \E p \in {"write_inode", "reply"} : Goto(h, p)
    BY <1>8 DEF WriteData, DoneLocked
  <2>2. PICK v : disk' = [disk EXCEPT ![L.block] = FileData(v)]
    BY <1>8 DEF WriteData
  <2>3. HandlerOK(disk, "write_data", r, L) /\ pc[h] \in OwnsTarget /\ pc[h] \in Writing
    BY <2>1, Here DEF OwnsTarget, Writing
  <2>4. L.block \in Writable(h)
    <3>1. /\ r \in Request /\ r.op = "write" /\ (~L.grown => L.block \in BlocksAt(disk, L.target))
          /\ L.grown => L.reserved = L.block
      BY <2>3, AtWriteData
    <3>2. L.grown => Carried(pc[h], r, L) = {L.reserved}
      BY <2>3, <3>1, CarriedWriting
    <3>3. QED
      BY <1>1, <1>2, <2>3, <3>1, <3>2
  <2>5. PICK p \in {"write_inode", "reply"} : Goto(h, p)
    BY <2>1
  <2>6. p # pc[h]
    BY <2>1
  <2>7. QED
    BY <2>2, <2>4, <2>5, <2>6, WritesIts
<1>9. CASE WriteInode(h)
  <2>1. pc[h] = "write_inode" /\ disk' = [disk EXCEPT ![L.target] = L.inode] /\ Goto(h, "reply")
    BY <1>9 DEF WriteInode, DoneLocked
  <2>2. pc[h] \in OwnsTarget
    BY <2>1 DEF OwnsTarget, Writing
  <2>3. QED
    BY <1>1, <2>1, <2>2, WritesIts
<1>10. CASE Reserve(h) \/ ReturnBlock(h) \/ Reply(h)
  BY <1>10 DEF Reserve, ReturnBlock, Reply, Writes
<1>11. CASE TraverseRoot(h) \/ TraverseLook(h) \/ TraverseStep(h) \/ LockTarget(h)
  BY <1>11 DEF TraverseRoot, TraverseLook, TraverseStep, LockTarget, Writes
<1>12. CASE CreateCheck(h) \/ CreateAlloc(h)
  BY <1>12 DEF CreateCheck, CreateAlloc, Writes
<1>13. CASE DeleteCheck(h) \/ DeleteLockChild(h) \/ DeleteFreeEntries(h) \/ DeleteFree(h)
  BY <1>13 DEF DeleteCheck, DeleteLockChild, DeleteFreeEntries, DeleteFree, Writes
<1>14. CASE ReadCheck(h) \/ ReadData(h) \/ WriteCheck(h) \/ WriteAlloc(h)
  BY <1>14 DEF ReadCheck, ReadData, WriteCheck, WriteAlloc, Writes
<1>15. QED
  BY <1>3, <1>4, <1>5, <1>6, <1>7, <1>8, <1>9, <1>10, <1>11, <1>12, <1>13, <1>14 DEF HandlerStep

\* HeldIsStable, of one step.
Stable ==
  \A h \in Handler, b \in Block :
    b \in Holds(h) /\ pc'[h] = pc[h] =>
      \A c \in {b} \cup ToSet(ReadInode(disk, b).blocks) : disk'[c] = disk[c]

\* What one handler writes is apart from what another holds, and its own writes end its label.
LEMMA InvStable == IInv /\ [Next]_vars => Stable
<1> SUFFICES ASSUME IInv, [Next]_vars, NEW h \in Handler, NEW b \in Block, b \in Holds(h), pc'[h] = pc[h],
                    NEW c \in {b} \cup BlocksAt(disk, b)
             PROVE  disk'[c] = disk[c]
  BY DEF Stable, BlocksAt
<1>1. disk' = disk \/ \E g \in Handler : HandlerStep(g)
  BY DEF Next, Receive, Crash, Finished, vars
<1>2. CASE disk' = disk
  BY <1>2
<1>3. CASE \E g \in Handler : HandlerStep(g)
  <2>1. PICK g \in Handler : HandlerStep(g)
    BY <1>3
  <2>2. Writes(g)
    BY <2>1, HandlerWrites
  <2>3. CASE disk' = disk
    BY <2>3
  <2>4. CASE \E w \in Writable(g) : (\A x : x # w => disk'[x] = disk[x]) /\ pc'[g] # pc[g]
    <3>1. PICK w \in Writable(g) : (\A x : x # w => disk'[x] = disk[x]) /\ pc'[g] # pc[g]
      BY <2>4
    <3>2. h # g
      BY <3>1
    <3>3. b \in HeldBy(pc[h], req[h], loc[h])
      BY HoldsFacts
    <3>4. w # b /\ w \notin BlocksAt(disk, b)
      BY <3>2, <3>3, WritesApart
    <3>5. QED
      BY <3>1, <3>4
  <2>5. QED
    BY <2>2, <2>3, <2>4 DEF Writes
<1>4. QED
  BY <1>1, <1>2, <1>3

-----------------------------------------------------------------------------
(* The theorems *)

\* Every variable of the server has its type (file_server.h, and the locals of the handlers).
THEOREM TypeCorrect == Spec => []TypeOK
BY Invariance, InvTypeOK, PTL

\* A tree in order is well-formed.
LEMMA InvDiskConsistent == IInv => DiskConsistent
BY UnsharedIfInOrder DEF DiskConsistent, IInv, VariableTypes

\* Between any two disk_writeblock calls of any handlers, and after any crash, the blocks on the
\* disk form a tree that a server can be started on.
THEOREM DiskStaysConsistent == Spec => []DiskConsistent
BY Invariance, InvDiskConsistent, PTL

\* No block is ever lost, or in two places at once: the tree, the free list, and the hands of one
\* handler (free_block_lock, the failure paths of create, the blocks that delete returns).
THEOREM BlocksAccountedFor == Spec => []BlockAccounting
BY Invariance, InvBlockAccounting, PTL

\* What a handler has resolved in traverse_dir stays what its path leads to, until it is done.
THEOREM TargetsNeverStale == Spec => []NoStaleTarget
BY Invariance, InvNoStaleTarget, PTL

\* Handlers wait for an inode's lock with at most its parent's held, and for free_block_lock,
\* under which no other is taken, with none or those of the inodes they change (file_server.cpp:
\* 204, 213, 224, 326, 452): so that none wait in a cycle.
THEOREM LocksAreTakenDownwards == Spec => []LocksFollowTheTree
BY Invariance, InvLocksFollowTheTree, PTL

\* While a handler holds the lock of an inode at one label, no other handler writes the inode or
\* its blocks.
THEOREM HeldStaysAsItIs == Spec => HeldIsStable
<1>1. [Next]_vars /\ IInv => [Stable]_vars
  BY InvStable
<1>2. HeldIsStable <=> [][Stable]_vars
  BY DEF HeldIsStable, Stable
<1>3. QED
  BY <1>1, <1>2, Invariance, PTL DEF Spec

-----------------------------------------------------------------------------
(* Handlers do not all wait *)

\* h asks for a lock, and for which: of the root, of the next inode on its
\* path, of its target, or of the file it deletes.
Awaits(h) ==
  pc[h] \in {"step", "target", "child"} \/ (pc[h] = "root" /\ Names(req[h]) # <<>>)
AwaitedLock(h) ==
  CASE pc[h] = "root" -> 0 [] pc[h] = "child" -> loc[h].child [] OTHER -> loc[h].target

\* Nobody has the lock of b, shared or exclusively.
Unlocked(b) == writer[b] = NoHandler /\ readers[b] = {}

\* While requests are being served, one of their handlers asks for no lock, or
\* for one that nobody has.
SomebodyProceeds ==
  (\E h \in Handler : pc[h] # "idle") =>
    \E h \in Handler : pc[h] # "idle" /\ (Awaits(h) => Unlocked(AwaitedLock(h)))

\* In a tree there is no set of inodes each of which has a child in the set:
\* every inode of it would also have its parent in it, and none be below the root.
LEMMA NoCircle ==
  ASSUME NEW d \in [Block -> Content], InOrder(d), NEW W, W \subseteq TreeInodes(d),
         \A b \in W : \E c \in W : c \in Children(d, b)
  PROVE  W = {}
<1> DEFINE T == TreeInodes(d)
           f == [b \in W |-> CHOOSE c \in W : c \in Children(d, b)]
<1>1. /\ 0 \in T /\ T \subseteq Block /\ \A b \in T : Children(d, b) \subseteq T
      /\ \A b \in T : 0 \notin Children(d, b)
  BY TreeClosed, EntriesBySlots
<1>2. ASSUME NEW i \in T, NEW j \in T, NEW c \in Children(d, i), c \in Children(d, j)
      PROVE  i = j
  <2>1. PICK s \in Slots(d, i) : EntryIn(d, s).inode_block = c
    BY <1>1, <1>2, EntriesBySlots
  <2>2. PICK t \in Slots(d, j) : EntryIn(d, t).inode_block = c
    BY <1>1, <1>2, EntriesBySlots
  <2> QED
    BY <2>1, <2>2 DEF InOrder
<1>3. \A b \in W : f[b] \in W /\ f[b] \in Children(d, b)
  OBVIOUS
<1>4. f \in Injection(W, W)
  <2>1. f \in [W -> W]
    BY <1>3
  <2>2. \A a, b \in W : f[a] = f[b] => a = b
    BY <1>2, <1>3
  <2> HIDE DEF f
  <2> QED
    BY <2>1, <2>2 DEF Injection, IsInjective
<1>5. IsFiniteSet(W)
  <2>1. IsFiniteSet(Block)
    BY FS_Interval, SizesAssumption DEF Block
  <2> QED
    BY <1>1, <2>1, FS_Subset
<1>6. f \in Surjection(W, W)
  <2> HIDE DEF f
  <2> QED
    BY <1>4, <1>5, FS_Injection
<1>7. \A c \in W : \E b \in W : c \in Children(d, b)
  <2>1. \A c \in W : \E b \in W : f[b] = c
    <3> HIDE DEF f
    <3> QED
      BY <1>6 DEF Surjection
  <2> QED
    BY <1>3, <2>1
<1>8. 0 \in T \ W
  BY <1>1, <1>7
<1>9. \A b \in (T \ W) \cap Block : Children(d, b) \subseteq T \ W
  <2> SUFFICES ASSUME NEW b \in T \ W, NEW c \in Children(d, b), c \in W PROVE FALSE
    BY <1>1
  <2>1. PICK a \in W : c \in Children(d, a)
    BY <1>7
  <2> QED
    BY <1>2, <2>1
<1>10. T \subseteq T \ W
  BY <1>8, <1>9, TreeLeast
<1> QED
  BY <1>10

\* Locks are asked for of inodes of the tree, and who holds one asks for that of
\* a child.
LEMMA AwaitedInTree ==
  ASSUME IInv, NEW h \in Handler, Awaits(h)
  PROVE  /\ AwaitedLock(h) \in TreeInodes(disk)
         /\ \A b \in Holds(h) : AwaitedLock(h) \in Children(disk, b)
<1>1. LocksFollowTheTree /\ HandlerOK(disk, pc[h], req[h], loc[h]) /\ disk \in [Block -> Content]
  BY InvLocksFollowTheTree, Here
<1>2. 0 \in TreeInodes(disk) /\ TreeInodes(disk) \subseteq Block
      /\ \A b \in TreeInodes(disk) : Children(disk, b) \subseteq TreeInodes(disk)
  BY <1>1, TreeClosed
<1>3. CASE pc[h] = "root"
  BY <1>1, <1>2, <1>3 DEF AwaitedLock, LocksFollowTheTree
<1>4. CASE pc[h] = "step"
  <2>1. loc[h].target \in TreeInodes(disk)
    BY <1>1, <1>2, <1>4, AtStep
  <2> QED
    BY <1>1, <1>4, <2>1 DEF AwaitedLock, LocksFollowTheTree
<1>5. CASE pc[h] = "target"
  <2>1. loc[h].target \in TreeInodes(disk)
    BY <1>1, <1>2, <1>5, AtTarget
  <2> QED
    BY <1>1, <1>5, <2>1 DEF AwaitedLock, LocksFollowTheTree
<1>6. CASE pc[h] = "child"
  <2>1. loc[h].target \in TreeInodes(disk)
    BY <1>6, TargetInTree DEF Modifying
  <2>2. EntrySlot(loc[h]) \in Slots(disk, loc[h].target)
        /\ EntryIn(disk, EntrySlot(loc[h])).inode_block = loc[h].child
    BY <1>1, <1>6, AtChild
  <2>3. loc[h].child \in Children(disk, loc[h].target)
    BY <1>1, <1>2, <2>1, <2>2, EntriesBySlots
  <2> QED
    BY <1>1, <1>2, <1>6, <2>1, <2>3 DEF AwaitedLock, LocksFollowTheTree
<1> QED
  BY <1>3, <1>4, <1>5, <1>6 DEF Awaits

\* If all handlers that serve requests asked for locks that others have, the
\* inodes they ask for would have children among them.
LEMMA InvSomebodyProceeds == IInv => SomebodyProceeds
<1> SUFFICES ASSUME IInv, NEW h0 \in Handler, pc[h0] # "idle",
                    \A h \in Handler : pc[h] # "idle" => Awaits(h) /\ ~Unlocked(AwaitedLock(h))
             PROVE  FALSE
  BY DEF SomebodyProceeds
<1> DEFINE W == {AwaitedLock(h) : h \in {g \in Handler : pc[g] # "idle"}}
<1>1. disk \in [Block -> Content] /\ InOrder(disk) /\ TreeInodes(disk) \subseteq Block
  BY Here, TreeClosed
<1>2. W \subseteq TreeInodes(disk)
  BY AwaitedInTree
<1>3. ASSUME NEW b \in W PROVE \E c \in W : c \in Children(disk, b)
  <2>1. b \in Block /\ ~Unlocked(b)
    BY <1>1, <1>2
  <2>2. PICK g \in Handler : b \in Holds(g)
    BY <2>1 DEF Unlocked, Holds, IInv, LockInv
  <2>3. pc[g] # "idle"
    BY <2>2, InvLocksFollowTheTree DEF LocksFollowTheTree
  <2>4. AwaitedLock(g) \in W
    BY <2>3
  <2>5. AwaitedLock(g) \in Children(disk, b)
    BY <2>2, <2>3, AwaitedInTree
  <2> QED
    BY <2>4, <2>5
<1>4. AwaitedLock(h0) \in W
  OBVIOUS
<1> HIDE DEF W
<1>5. W = {}
  BY <1>1, <1>2, <1>3, NoCircle
<1> QED
  BY <1>4, <1>5

\* There is no deadlock on disk_locks, in whatever order the handlers are
\* granted them, and also if the lock keeps readers out while a writer waits
\* (boost::shared_mutex): a handler is served, or asks for an inode's lock that
\* nobody has, or for free_block_lock, whose holder asks for no other.
THEOREM HandlersNeverDeadlock == Spec => []SomebodyProceeds
BY Invariance, InvSomebodyProceeds, PTL
=============================================================================
