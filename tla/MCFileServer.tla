----------------------------- MODULE MCFileServer -----------------------------
(***************************************************************************)
(* Small disks with FS_MAXFILEBLOCKS = 2 and FS_DIRENTRIES = 2, holding    *)
(*   /      the root, with one block of entries, one of them used          *)
(*   /d     a directory of user u with one block of entries, one used      *)
(*   /d/f   a file of user u with one block                                *)
(* Block 3, FS_MAXFILEBLOCKS + 1, is free in PlainDisk and holds the       *)
(* entries of /d in SentinelDisk.                                          *)
(***************************************************************************)
EXTENDS FileServer, TLC

CONSTANTS u, w, v1, v2, d, f, g, h1, h2, h3

MCDisk(entries) ==
  [n \in Block |->
     CASE n = 0 -> Inode("d", NoOwner, <<1>>)
       [] n = 1 -> DirData(<<[name |-> d, inode_block |-> 2], Unused>>)
       [] n = 2 -> Inode("d", u, <<entries>>)
       [] n = entries -> DirData(<<[name |-> f, inode_block |-> 5], Unused>>)
       [] n = 5 -> Inode("f", u, <<6>>)
       [] OTHER -> FileData(v1)]
PlainDisk    == MCDisk(4)
SentinelDisk == MCDisk(3)

Create(user, path, type) == [op |-> "create", user |-> user, path |-> path, type |-> type]
Delete(user, path)       == [op |-> "delete", user |-> user, path |-> path]
Read(user, path, n)      == [op |-> "read", user |-> user, path |-> path, block |-> n]
Write(user, path, n, v)  == [op |-> "write", user |-> user, path |-> path, block |-> n, data |-> v]

\* Directories that grow, shrink, disappear and come back.
DirectoryRequests ==
  {Create(u, <<d, g>>, "f"), Create(u, <<d, f>>, "d"), Create(w, <<g>>, "d"),
   Create(u, <<d, f, g>>, "f"), Create(w, <<d, f, g>>, "f"),
   Delete(u, <<d, f>>), Delete(u, <<d>>), Delete(w, <<g>>), Read(u, <<d, f>>, 0)}

\* Files that are read, overwritten, extended, deleted and replaced, on a disk
\* where a freed block is soon used again.
FileRequests ==
  {Create(u, <<d, f>>, "f"), Create(u, <<d, g>>, "f"), Delete(u, <<d, f>>),
   Read(u, <<d, f>>, 0), Read(w, <<d, f>>, 0),
   Write(u, <<d, f>>, 0, v2), Write(u, <<d, f>>, 1, v2), Write(u, <<d, g>>, 0, Junk)}

\* One request of each kind, a second create and a second delete.
MixedRequests ==
  {Create(u, <<d, g>>, "f"), Create(w, <<g>>, "d"), Delete(u, <<d, f>>), Delete(u, <<d>>),
   Read(u, <<d, f>>, 0), Write(u, <<d, f>>, 1, v2)}

Symmetry == Permutations(Handler)
=============================================================================
