-------------------------------- MODULE FsDisk --------------------------------
(***************************************************************************)
(* The on-disk file system of Project4 (fs_server.h): what a block holds,  *)
(* how the tree is read from block 0, which blocks it uses, and when the   *)
(* whole of it makes sense.  A disk is a function from blocks to contents. *)
(***************************************************************************)
EXTENDS Naturals, FiniteSets, SequencesExt

CONSTANTS DiskSize,       \* FS_DISKSIZE
          MaxFileBlocks,  \* FS_MAXFILEBLOCKS
          DirEntries,     \* FS_DIRENTRIES
          User,           \* user names
          NoOwner,        \* the empty owner name of the root directory
          Name,           \* file and directory names
          NoName,         \* the name field of an unused entry, never compared
          Value,          \* contents of a data block
          Junk            \* contents that are no valid inode, directory or data

ASSUME SizesAssumption ==
  DiskSize \in Nat \ {0} /\ MaxFileBlocks \in Nat \ {0} /\ DirEntries \in Nat \ {0}
ASSUME NoOwnerAssumption == NoOwner \notin User
ASSUME NoNameAssumption == NoName \notin Name

Block == 0 .. DiskSize - 1

\* fs_direntry; inode_block = 0 means that the entry is unused, whatever its name.
Unused   == [name |-> NoName, inode_block |-> 0]
DirEntry == [name : Name, inode_block : Block \ {0}] \cup {Unused}

\* fs_inode, its size being the length of blocks.
Inode(type, owner, blocks) == [kind |-> "inode", type |-> type, owner |-> owner, blocks |-> blocks]
DirData(entries)           == [kind |-> "entries", entries |-> entries]
FileData(value)            == [kind |-> "data", value |-> value]

Inodes  == {Inode(type, owner, blocks) : type \in {"f", "d"}, owner \in User \cup {NoOwner},
            blocks \in UNION {[1..n -> Block] : n \in 0..MaxFileBlocks}}
Content == Inodes \cup {DirData(e) : e \in [1..DirEntries -> DirEntry]}
                  \cup {FileData(v) : v \in Value \cup {Junk}}

\* disk_readblock into an fs_inode or an array of entries.  Every bit pattern
\* can be read as either; one that was not written as such has no type, no
\* blocks and no entries here.
ReadInode(disk, b) ==
  IF disk[b].kind = "inode" THEN disk[b] ELSE Inode("junk", Junk, <<>>)
ReadEntries(disk, b) ==
  IF disk[b].kind = "entries" THEN disk[b].entries ELSE [j \in 1..DirEntries |-> Unused]
ReadValue(disk, b) ==
  IF disk[b].kind = "data" THEN disk[b].value ELSE Junk

\* The used entries of a directory, as places <<index into blocks, index into the block>>.
Places(disk, inode) ==
  {p \in (1..Len(inode.blocks)) \X (1..DirEntries) :
     ReadEntries(disk, inode.blocks[p[1]])[p[2]].inode_block # 0}
EntryAt(disk, inode, p) == ReadEntries(disk, inode.blocks[p[1]])[p[2]]
Named(disk, inode, name) == {p \in Places(disk, inode) : EntryAt(disk, inode, p).name = name}

\* The used entries of the directory in block b, and the inodes they name.
Entries(disk, b) ==
  IF ReadInode(disk, b).type = "d"
  THEN {e \in UNION {ToSet(ReadEntries(disk, k)) : k \in ToSet(ReadInode(disk, b).blocks)} :
          e.inode_block # 0}
  ELSE {}
Children(disk, b) == {e.inode_block : e \in Entries(disk, b)}

\* The inodes of the tree: the closure of Children from the root.
TreeInodes(disk) ==
  LET level[n \in 0..DiskSize] ==
        IF n = 0 THEN {0}
        ELSE LET above == level[n - 1]
             IN  above \cup UNION {Children(disk, b) : b \in above}
  IN  level[DiskSize]

\* Every block the search from the root meets.
UsedBlocks(disk) ==
  LET inodes == TreeInodes(disk)
  IN  inodes \cup UNION {ToSet(ReadInode(disk, b).blocks) : b \in inodes}

\* The other blocks but 0, in increasing order.
init_free_blocks(disk) ==
  LET used == UsedBlocks(disk)
      free[n \in Block] == IF n = 0 THEN <<>>
                          ELSE IF n \in used THEN free[n - 1] ELSE Append(free[n - 1], n)
  IN  free[DiskSize - 1]

\* The inodes a path leads to: one if it exists, none if it does not.
Resolve(disk, path) ==
  LET at[n \in 0..Len(path)] ==
        IF n = 0 THEN {0}
        ELSE {e.inode_block : e \in {x \in UNION {Entries(disk, b) : b \in at[n - 1]} :
                                       x.name = path[n]}}
  IN  at[Len(path)]

\* Everything in the tree that points to a block: <<i, k, 0>> is block k of
\* inode i, and <<i, k, j>> the used entry j of that block of a directory.
Pointers(disk) ==
  UNION {LET inode == ReadInode(disk, i)
             dir   == IF inode.type = "d" THEN Places(disk, inode) ELSE {}
         IN  {<<i, k, 0>> : k \in 1..Len(inode.blocks)} \cup {<<i, p[1], p[2]>> : p \in dir}
         : i \in TreeInodes(disk)}
PointsTo(disk, p) ==
  LET inode == ReadInode(disk, p[1])
  IN  IF p[3] = 0 THEN inode.blocks[p[2]] ELSE EntryAt(disk, inode, <<p[2], p[3]>>).inode_block

\* A tree the server, and init_free_blocks after a restart, can work with.
WellFormed(disk) ==
  /\ \A i \in TreeInodes(disk) :
       LET inode == ReadInode(disk, i) IN
       /\ inode.type \in {"f", "d"}                          \* an entry names an inode
       /\ \A k \in 1..Len(inode.blocks) :                    \* whose blocks hold its data
            disk[inode.blocks[k]].kind = IF inode.type = "d" THEN "entries" ELSE "data"
       /\ inode.type = "d" =>
            LET places == Places(disk, inode) IN
            /\ {p[1] : p \in places} = 1..Len(inode.blocks)   \* no block without entries
            /\ Cardinality({EntryAt(disk, inode, p).name : p \in places})
                 = Cardinality(places)                        \* names are unique
  /\ LET pointers == Pointers(disk)
         targets  == {PointsTo(disk, p) : p \in pointers}
     IN  0 \notin targets /\ Cardinality(targets) = Cardinality(pointers)  \* no sharing
=============================================================================
