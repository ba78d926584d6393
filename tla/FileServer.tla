------------------------------ MODULE FileServer ------------------------------
(***************************************************************************)
(* The multi-threaded network file server of Project4 (file_server.cpp).   *)
(* Every connection is served by a thread of its own (a handler), which    *)
(* executes one request.  A handler's step is one lock acquisition, one    *)
(* critical section of free_block_lock, one disk_writeblock, or the reads  *)
(* and decisions it makes between two of those; what it unlocks is part of *)
(* the step before.  Disk writes are atomic, and the server may crash and  *)
(* be restarted on the same disk between any two steps.                    *)
(***************************************************************************)
EXTENDS FsDisk

CONSTANTS Handler,      \* handler threads that may exist at one time
          NoHandler,
          Request,      \* requests that clients may send
          InitialDisk,  \* the disk the server is started on
          MaxRequests,  \* bound: requests received in a behaviour
          MaxCrashes    \* bound: crashes in a behaviour

ASSUME NoHandlerAssumption == NoHandler \notin Handler
ASSUME BoundsAssumption == MaxRequests \in Nat /\ MaxCrashes \in Nat
\* The server is started on a file system in order, as the one before left it.
ASSUME DiskAssumption == InitialDisk \in [Block -> Content] /\ WellFormed(InitialDisk)
\* What the parser lets through (request types, user and path names, block numbers).
ASSUME RequestAssumption ==
  \A r \in Request :
    /\ r.op \in {"create", "delete", "read", "write"}
    /\ r.user \in User /\ r.path \in Seq(Name) /\ r.path # <<>>
    /\ r.op = "create" => r.type \in {"f", "d"}
    /\ r.op \in {"read", "write"} => r.block \in Nat
    /\ r.op = "write" => r.data \in Value \cup {Junk}
ASSUME AnswerAssumption == "none" \notin Value \cup {Junk}
\* Of the files the server is started on the root alone, a directory, has no owner.
ASSUME OwnersAssumption ==
  /\ ReadInode(InitialDisk, 0).type = "d"
  /\ \A i \in TreeInodes(InitialDisk) : ReadInode(InitialDisk, i).owner = NoOwner <=> i = 0

VARIABLES disk,         \* contents of the blocks
          free_blocks,  \* FileServer::free_blocks
          readers,      \* disk_locks: the handlers that hold block b's lock shared,
          writer,       \*             and the one that holds it exclusively
          pc,           \* the next step of a handler
          req,          \* its request
          loc,          \* the local variables of its functions
          outcome,      \* what its client will learn
          received,     \* number of requests received so far
          crashes       \* number of crashes so far

locks == <<readers, writer>>
vars  == <<disk, free_blocks, locks, pc, req, loc, outcome, received, crashes>>

\* The value that stands for "no empty entry" in target_inode.
Sentinel == MaxFileBlocks + 1

\* Locals of traverse_dir and of the handlers, as they are before they are set.
NoInode   == Inode("junk", Junk, <<>>)
NoEntries == [j \in 1..DirEntries |-> Unused]
Locals0 ==
  [depth    |-> 0,          \* path names resolved so far
   parent   |-> 0,          \* target_inode::parent_inode_block
   target   |-> 0,          \* target_inode::inode_block
   inode    |-> NoInode,    \* the inode last read (inode, parent_inode, file_inode)
   entries  |-> NoEntries,  \* parent_entries
   place    |-> <<1, 1>>,   \* first_empty_block as an index, first_empty_entry_index
   block    |-> 0,          \* dir_block, curr_block or the data block to write
   grown    |-> FALSE,      \* change_parent, inode_change
   reserved |-> 0,          \* new_inode_block, new_data_block
   child    |-> 0,          \* inode block of the file that delete removes
   old      |-> NoInode]    \* and its inode

\* A request: [op, user, path, type | block, data].  For create and delete the
\* path to resolve is that of the parent directory.
Names(r) == IF r.op \in {"create", "delete"} THEN Front(r.path) ELSE r.path

Answered == {"ok", "failed"} \cup Value \cup {Junk}
NoReq    == [op |-> "none"]

-----------------------------------------------------------------------------
(* Locks and the free list *)

\* Mutant: a shared lock that is granted whoever holds the block.
ShareIgnoresWriter(b) == b \in Block
CanShare(b) == writer[b] = NoHandler
\* Mutant: an exclusive lock that only keeps other exclusive locks out.
OwnIgnoresReaders(b) == writer[b] = NoHandler
CanOwn(b) == writer[b] = NoHandler /\ readers[b] = {}

\* readers after h unlocks b, if it is to unlock it at all.
Unshared(h, b) == [readers EXCEPT ![b] = @ \ {h}]

\* Mutant: the directory above the target stays locked.
ParentKept(h) == readers

\* unlock_shared(parent) once the target is locked: the root as a target was
\* not reached through any parent.
ParentUnshared(h) ==
  IF loc[h].target # 0 THEN Unshared(h, loc[h].parent) ELSE readers

Disowned(bs) == [b \in Block |-> IF b \in bs THEN NoHandler ELSE writer[b]]

Goto(h, label) == pc' = [pc EXCEPT ![h] = label]

\* string(owner) != username and the type test of the last directory of a path.
DirUsable(inode, user) == inode.owner \in {user, NoOwner} /\ inode.type = "d"
\* The same for the directories before it, the root excepted.
StepUsable(inode, user) == inode.owner = user /\ inode.type = "d"
FileUsable(inode, user) == inode.owner = user /\ inode.type = "f"

\* The handler decides that its request fails and lets go of its locks.  A
\* create that has reserved an inode block has to give it back.
Fail(h) ==
  /\ outcome' = [outcome EXCEPT ![h] = "failed"]
  /\ Goto(h, "reply")

Init ==
  /\ disk = InitialDisk
  /\ free_blocks = init_free_blocks(InitialDisk)
  /\ readers = [b \in Block |-> {}]
  /\ writer = [b \in Block |-> NoHandler]
  /\ pc = [h \in Handler |-> "idle"]
  /\ req = [h \in Handler |-> NoReq]
  /\ loc = [h \in Handler |-> Locals0]
  /\ outcome = [h \in Handler |-> "none"]
  /\ received = 0
  /\ crashes = 0

\* A connection is accepted and a well-formed request read from it.
Receive(h, r) ==
  /\ pc[h] = "idle" /\ received < MaxRequests
  /\ received' = received + 1
  /\ req' = [req EXCEPT ![h] = r]
  /\ Goto(h, IF r.op = "create" THEN "reserve" ELSE "root")
  /\ UNCHANGED <<disk, free_blocks, locks, loc, outcome, crashes>>

\* The handler sends its answer, or closes the connection without one.
Reply(h) ==
  /\ pc[h] = "reply"
  /\ Goto(h, "idle")
  /\ req' = [req EXCEPT ![h] = NoReq]
  /\ loc' = [loc EXCEPT ![h] = Locals0]
  /\ outcome' = [outcome EXCEPT ![h] = "none"]
  /\ UNCHANGED <<disk, free_blocks, locks, received, crashes>>

\* Mutant: create waits for a block to be freed.
ReserveWaits(h) ==
  /\ pc[h] = "reserve"
  /\ IF free_blocks = <<>>
     THEN UNCHANGED vars
     ELSE /\ loc' = [loc EXCEPT ![h].reserved = Head(free_blocks)]
          /\ free_blocks' = Tail(free_blocks)
          /\ Goto(h, "root")
          /\ UNCHANGED <<disk, locks, req, outcome, received, crashes>>

\* create reserves the block of the new inode first of all.
Reserve(h) ==
  /\ pc[h] = "reserve"
  /\ IF free_blocks = <<>>
     THEN Fail(h) /\ UNCHANGED <<free_blocks, loc>>
     ELSE /\ loc' = [loc EXCEPT ![h].reserved = Head(free_blocks)]
          /\ free_blocks' = Tail(free_blocks)
          /\ Goto(h, "root")
          /\ UNCHANGED outcome
  /\ UNCHANGED <<disk, locks, req, received, crashes>>

-----------------------------------------------------------------------------
(* traverse_dir *)

\* Lock and read the root, unless the path to resolve is empty.
TraverseRoot(h) ==
  /\ pc[h] = "root"
  /\ IF Names(req[h]) = <<>>
     THEN Goto(h, "target") /\ UNCHANGED <<readers, loc>>
     ELSE /\ CanShare(0)
          /\ readers' = [readers EXCEPT ![0] = @ \cup {h}]
          /\ loc' = [loc EXCEPT ![h].inode = ReadInode(disk, 0)]
          /\ Goto(h, "look")
  /\ UNCHANGED <<disk, free_blocks, writer, req, outcome, received, crashes>>

\* Mutant: a create that cannot find its directory keeps the block it reserved.
AbandonKeepsBlock(h, dir) == readers' = Unshared(h, dir) /\ Fail(h)

\* What a traversal that fails does: unlock the directory it got to, and give
\* a reserved block back.
Abandon(h, dir) ==
  /\ readers' = Unshared(h, dir)
  /\ IF req[h].op = "create"
     THEN Goto(h, "return_block") /\ outcome' = [outcome EXCEPT ![h] = "failed"]
     ELSE Fail(h)

\* check_existance of the next name in the directory just read.
TraverseLook(h) ==
  /\ pc[h] = "look"
  /\ LET names == Names(req[h])
         found == Named(disk, loc[h].inode, names[loc[h].depth + 1])
     IN  IF found = {}
         THEN Abandon(h, loc[h].parent) /\ UNCHANGED loc
         ELSE /\ \E p \in found :
                   loc' = [loc EXCEPT ![h].target = EntryAt(disk, loc[h].inode, p).inode_block,
                                      ![h].depth = @ + 1]
              /\ Goto(h, IF loc[h].depth + 1 = Len(names) THEN "target" ELSE "step")
              /\ UNCHANGED <<readers, outcome>>
  /\ UNCHANGED <<disk, free_blocks, writer, req, received, crashes>>

\* Hand over hand: lock the next directory, then unlock the one above it.
TraverseStep(h) ==
  /\ pc[h] = "step"
  /\ LET b == loc[h].target
         inode == ReadInode(disk, b)
         above == Unshared(h, loc[h].parent)
     IN  /\ CanShare(b)
         /\ IF StepUsable(inode, req[h].user)
            THEN /\ readers' = [above EXCEPT ![b] = @ \cup {h}]
                 /\ loc' = [loc EXCEPT ![h].parent = b, ![h].inode = inode]
                 /\ Goto(h, "look")
                 /\ UNCHANGED outcome
            ELSE \* locked, read and unlocked again
                 Abandon(h, loc[h].parent) /\ UNCHANGED loc
  /\ UNCHANGED <<disk, free_blocks, writer, req, received, crashes>>

\* The handler locks what the path leads to, then unlocks its parent.
LockTarget(h) ==
  /\ pc[h] = "target"
  /\ LET b == loc[h].target IN
     /\ IF req[h].op = "read"
        THEN /\ CanShare(b)
             /\ readers' = [ParentUnshared(h) EXCEPT ![b] = @ \cup {h}]
             /\ UNCHANGED writer
        ELSE /\ CanOwn(b)
             /\ readers' = ParentUnshared(h)
             /\ writer' = [writer EXCEPT ![b] = h]
     /\ loc' = [loc EXCEPT ![h].inode = ReadInode(disk, b)]
     /\ Goto(h, req[h].op)
  /\ UNCHANGED <<disk, free_blocks, req, outcome, received, crashes>>

\* return_empty_block, then the end of the scope that locked the target, if
\* the handler had got that far.
ReturnBlock(h) ==
  /\ pc[h] \in {"return_block", "return_locked"}
  /\ free_blocks' = Append(free_blocks, loc[h].reserved)
  /\ writer' = IF pc[h] = "return_locked" THEN Disowned({loc[h].target}) ELSE writer
  /\ Goto(h, "reply")
  /\ UNCHANGED <<disk, readers, req, loc, outcome, received, crashes>>

\* A handler that holds its target exclusively fails or is done with it.
FailLocked(h) == Fail(h) /\ writer' = Disowned({loc[h].target})
DoneLocked(h, next) ==
  /\ outcome' = [outcome EXCEPT ![h] = "ok"]
  /\ writer' = Disowned({loc[h].target})
  /\ Goto(h, next)

-----------------------------------------------------------------------------
(* handle_create, with the parent directory locked exclusively and read *)

\* check_existance of a name that is not there: the place it finds for a new
\* entry.  It takes the first unused entry, but goes on looking after one in
\* the block whose number equals the value that means "none found yet".
Order(p) == p[1] * (DirEntries + 1) + p[2]
UnusedPlaces(inode) == (1..Len(inode.blocks)) \X (1..DirEntries) \ Places(disk, inode)
FirstEmpty(inode) ==
  LET all  == UnusedPlaces(inode)
      good == {p \in all : inode.blocks[p[1]] # Sentinel}
  IN  CASE good # {} ->
             LET p == CHOOSE p \in good : \A q \in good : Order(p) <= Order(q)
             IN  [block |-> inode.blocks[p[1]], index |-> p[2],
                  entries |-> ReadEntries(disk, inode.blocks[p[1]])]
        [] good = {} /\ all # {} ->
             LET p == CHOOSE p \in all : \A q \in all : Order(q) <= Order(p)
             IN  [block |-> Sentinel, index |-> p[2], entries |-> NoEntries]
        [] OTHER -> [block |-> Sentinel, index |-> 1, entries |-> NoEntries]

CreateCheck(h) ==
  /\ pc[h] = "create"
  /\ LET inode == loc[h].inode
         empty == FirstEmpty(inode)
     IN  IF ~DirUsable(inode, req[h].user) \/ Named(disk, inode, Last(req[h].path)) # {}
         THEN /\ outcome' = [outcome EXCEPT ![h] = "failed"]
              /\ Goto(h, "return_locked")
              /\ UNCHANGED loc
         ELSE /\ loc' = [loc EXCEPT ![h].block = empty.block,
                                    ![h].entries = empty.entries,
                                    ![h].place = <<1, empty.index>>]
              /\ Goto(h, "alloc")
              /\ UNCHANGED outcome
  /\ UNCHANGED <<disk, free_blocks, locks, req, received, crashes>>

NewEntry(h) == [name |-> Last(req[h].path), inode_block |-> loc[h].reserved]

\* The directory may have to grow by a block, which is allocated here.
CreateAlloc(h) ==
  /\ pc[h] = "alloc"
  /\ LET place == loc[h].place[2]
         full  == free_blocks = <<>> \/ Len(loc[h].inode.blocks) + 1 > MaxFileBlocks
     IN  CASE loc[h].block # Sentinel ->
                /\ loc' = [loc EXCEPT ![h].entries[place] = NewEntry(h)]
                /\ Goto(h, "new_inode")
                /\ UNCHANGED <<free_blocks, writer, outcome>>
           [] loc[h].block = Sentinel /\ full ->
                /\ free_blocks' = Append(free_blocks, loc[h].reserved)
                /\ FailLocked(h)
                /\ UNCHANGED loc
           [] loc[h].block = Sentinel /\ ~full ->
                /\ loc' = [loc EXCEPT ![h].block = Head(free_blocks),
                                      ![h].inode.blocks = Append(@, Head(free_blocks)),
                                      ![h].grown = TRUE,
                                      ![h].entries = [NoEntries EXCEPT ![place] = NewEntry(h)]]
                /\ free_blocks' = Tail(free_blocks)
                /\ Goto(h, "new_inode")
                /\ UNCHANGED <<writer, outcome>>
  /\ UNCHANGED <<disk, readers, req, received, crashes>>

\* Mutant: a directory that grows is written before its new block.
DirectoryFirst(h) == IF loc[h].grown THEN "grow" ELSE "new_entry"

\* The order of create's writes: the inode, the entry that names it, and the
\* directory's inode if that has a new block.
AfterNewInode(h) == "new_entry"
CreateWriteInode(h) ==
  /\ pc[h] = "new_inode"
  /\ disk' = [disk EXCEPT ![loc[h].reserved] = Inode(req[h].type, req[h].user, <<>>)]
  /\ Goto(h, AfterNewInode(h))
  /\ UNCHANGED <<free_blocks, locks, req, loc, outcome, received, crashes>>

CreateWriteEntries(h) ==
  /\ pc[h] = "new_entry"
  /\ disk' = [disk EXCEPT ![loc[h].block] = DirData(loc[h].entries)]
  /\ IF loc[h].grown
     THEN Goto(h, "grow") /\ UNCHANGED <<writer, outcome>>
     ELSE DoneLocked(h, "reply")
  /\ UNCHANGED <<free_blocks, readers, req, loc, received, crashes>>

CreateWriteParent(h) ==
  /\ pc[h] = "grow"
  /\ disk' = [disk EXCEPT ![loc[h].target] = loc[h].inode]
  /\ DoneLocked(h, "reply")
  /\ UNCHANGED <<free_blocks, readers, req, loc, received, crashes>>

-----------------------------------------------------------------------------
(* handle_delete, with the parent directory locked exclusively and read *)

DeleteCheck(h) ==
  /\ pc[h] = "delete"
  /\ LET inode == loc[h].inode
         found == Named(disk, inode, Last(req[h].path))
     IN  IF ~DirUsable(inode, req[h].user) \/ found = {}
         THEN FailLocked(h) /\ UNCHANGED loc
         ELSE /\ \E p \in found :
                   loc' = [loc EXCEPT ![h].place = p,
                                      ![h].child = EntryAt(disk, inode, p).inode_block,
                                      ![h].block = inode.blocks[p[1]],
                                      ![h].entries = ReadEntries(disk, inode.blocks[p[1]])]
              /\ Goto(h, "child")
              /\ UNCHANGED <<writer, outcome>>
  /\ UNCHANGED <<disk, free_blocks, readers, req, received, crashes>>

\* Mutant: a directory may be deleted with what is in it.
DeletableByOwner(inode, user) == inode.owner = user

\* Whether a file may be deleted: its owner asks, and a directory is empty.
Deletable(inode, user) == inode.owner = user /\ ~(inode.type = "d" /\ inode.blocks # <<>>)

\* Lock and read the file to delete.  If its entry is the last one in its
\* block, the block leaves the directory too.
DeleteLockChild(h) ==
  /\ pc[h] = "child"
  /\ CanOwn(loc[h].child)
  /\ LET old     == ReadInode(disk, loc[h].child)
         entries == [loc[h].entries EXCEPT ![loc[h].place[2]] = Unused]
     IN  IF ~Deletable(old, req[h].user)
         THEN FailLocked(h) /\ UNCHANGED loc
         ELSE /\ writer' = [writer EXCEPT ![loc[h].child] = h]
              /\ IF entries = NoEntries
                 THEN /\ loc' = [loc EXCEPT ![h].old = old,
                                            ![h].inode.blocks = RemoveAt(@, loc[h].place[1])]
                      /\ Goto(h, "shrink")
                 ELSE /\ loc' = [loc EXCEPT ![h].old = old, ![h].entries = entries]
                      /\ Goto(h, "clear")
              /\ UNCHANGED outcome
  /\ UNCHANGED <<disk, free_blocks, readers, req, received, crashes>>

DeleteWriteEntries(h) ==
  /\ pc[h] = "clear"
  /\ disk' = [disk EXCEPT ![loc[h].block] = DirData(loc[h].entries)]
  /\ outcome' = [outcome EXCEPT ![h] = "ok"]
  /\ writer' = Disowned({loc[h].child, loc[h].target})
  /\ Goto(h, "free")
  /\ UNCHANGED <<free_blocks, readers, req, loc, received, crashes>>

DeleteShrink(h) ==
  /\ pc[h] = "shrink"
  /\ disk' = [disk EXCEPT ![loc[h].target] = loc[h].inode]
  /\ outcome' = [outcome EXCEPT ![h] = "ok"]
  /\ Goto(h, "free_entries")
  /\ UNCHANGED <<free_blocks, locks, req, loc, received, crashes>>

DeleteFreeEntries(h) ==
  /\ pc[h] = "free_entries"
  /\ free_blocks' = Append(free_blocks, loc[h].block)
  /\ writer' = Disowned({loc[h].child, loc[h].target})
  /\ Goto(h, "free")
  /\ UNCHANGED <<disk, readers, req, loc, outcome, received, crashes>>

\* Mutants: an entry of blocks beyond size is returned too; the data blocks
\* are not returned.
DeletedOneTooMany(h)   == loc[h].old.blocks \o <<0, loc[h].child>>
DeletedInodeAlone(h) == <<loc[h].child>>

\* The blocks of the deleted file are returned after its locks.
DeletedBlocks(h) == Append(loc[h].old.blocks, loc[h].child)
DeleteFree(h) ==
  /\ pc[h] = "free"
  /\ free_blocks' = free_blocks \o DeletedBlocks(h)
  /\ Goto(h, "reply")
  /\ UNCHANGED <<disk, locks, req, loc, outcome, received, crashes>>

-----------------------------------------------------------------------------
(* handle_readblock, with the file locked shared and read *)

ReadCheck(h) ==
  /\ pc[h] = "read"
  /\ IF FileUsable(loc[h].inode, req[h].user) /\ req[h].block < Len(loc[h].inode.blocks)
     THEN Goto(h, "read_data") /\ UNCHANGED <<readers, outcome>>
     ELSE Fail(h) /\ readers' = Unshared(h, loc[h].target)
  /\ UNCHANGED <<disk, free_blocks, writer, req, loc, received, crashes>>

ReadData(h) ==
  /\ pc[h] = "read_data"
  /\ outcome' = [outcome EXCEPT ![h] = ReadValue(disk, loc[h].inode.blocks[req[h].block + 1])]
  /\ readers' = Unshared(h, loc[h].target)
  /\ Goto(h, "reply")
  /\ UNCHANGED <<disk, free_blocks, writer, req, loc, received, crashes>>

-----------------------------------------------------------------------------
(* handle_writeblock, with the file locked exclusively and read *)

\* A block of the file is overwritten; the block after its last is appended.
WriteCheck(h) ==
  /\ pc[h] = "write"
  /\ LET size == Len(loc[h].inode.blocks) IN
     IF ~FileUsable(loc[h].inode, req[h].user) \/ req[h].block > size
     THEN FailLocked(h) /\ UNCHANGED loc
     ELSE /\ IF req[h].block = size
             THEN Goto(h, "append") /\ UNCHANGED loc
             ELSE /\ loc' = [loc EXCEPT ![h].block = loc[h].inode.blocks[req[h].block + 1]]
                  /\ Goto(h, "write_data")
          /\ UNCHANGED <<writer, outcome>>
  /\ UNCHANGED <<disk, free_blocks, readers, req, received, crashes>>

\* Mutant: the inode of a file that grows is written before the new block.
InodeFirst(h) == "write_inode"

\* The data goes to the disk before the inode that makes it part of the file.
AfterAppend(h) == "write_data"
WriteAlloc(h) ==
  /\ pc[h] = "append"
  /\ IF free_blocks = <<>> \/ Len(loc[h].inode.blocks) = MaxFileBlocks
     THEN FailLocked(h) /\ UNCHANGED <<free_blocks, loc>>
     ELSE /\ loc' = [loc EXCEPT ![h].reserved = Head(free_blocks),
                                ![h].block = Head(free_blocks),
                                ![h].inode.blocks = Append(@, Head(free_blocks)),
                                ![h].grown = TRUE]
          /\ free_blocks' = Tail(free_blocks)
          /\ Goto(h, AfterAppend(h))
          /\ UNCHANGED <<writer, outcome>>
  /\ UNCHANGED <<disk, readers, req, received, crashes>>

\* Of an upload that ended early the server writes what it has and whatever
\* memory follows it.
WriteData(h) ==
  /\ pc[h] = "write_data"
  /\ \E v \in IF req[h].data = Junk THEN Value \cup {Junk} ELSE {req[h].data} :
       disk' = [disk EXCEPT ![loc[h].block] = FileData(v)]
  /\ IF loc[h].grown
     THEN Goto(h, "write_inode") /\ UNCHANGED <<writer, outcome>>
     ELSE DoneLocked(h, "reply")
  /\ UNCHANGED <<free_blocks, readers, req, loc, received, crashes>>

WriteInode(h) ==
  /\ pc[h] = "write_inode"
  /\ disk' = [disk EXCEPT ![loc[h].target] = loc[h].inode]
  /\ DoneLocked(h, "reply")
  /\ UNCHANGED <<free_blocks, readers, req, loc, received, crashes>>

-----------------------------------------------------------------------------
\* The server process ends, for whatever reason, and is started again.
Crash ==
  /\ crashes < MaxCrashes
  /\ crashes' = crashes + 1
  /\ free_blocks' = init_free_blocks(disk)
  /\ readers' = [b \in Block |-> {}]
  /\ writer' = [b \in Block |-> NoHandler]
  /\ pc' = [h \in Handler |-> "idle"]
  /\ req' = [h \in Handler |-> NoReq]
  /\ loc' = [h \in Handler |-> Locals0]
  /\ outcome' = [h \in Handler |-> "none"]
  /\ UNCHANGED <<disk, received>>

HandlerStep(h) ==
  \/ Reserve(h) \/ ReturnBlock(h) \/ Reply(h)
  \/ TraverseRoot(h) \/ TraverseLook(h) \/ TraverseStep(h) \/ LockTarget(h)
  \/ CreateCheck(h) \/ CreateAlloc(h)
  \/ CreateWriteInode(h) \/ CreateWriteEntries(h) \/ CreateWriteParent(h)
  \/ DeleteCheck(h) \/ DeleteLockChild(h) \/ DeleteWriteEntries(h)
  \/ DeleteShrink(h) \/ DeleteFreeEntries(h) \/ DeleteFree(h)
  \/ ReadCheck(h) \/ ReadData(h)
  \/ WriteCheck(h) \/ WriteAlloc(h) \/ WriteData(h) \/ WriteInode(h)

\* All requests of the behaviour have been received and answered.
Finished == received = MaxRequests /\ (\A h \in Handler : pc[h] = "idle") /\ UNCHANGED vars

Next ==
  \/ \E h \in Handler, r \in Request : Receive(h, r)
  \/ \E h \in Handler : HandlerStep(h)
  \/ Crash
  \/ Finished

Spec == Init /\ [][Next]_vars

\* Every handler is a thread that keeps running.
FairSpec == Spec /\ \A h \in Handler : WF_vars(HandlerStep(h))

-----------------------------------------------------------------------------
(* Properties *)

Labels == {"idle", "reserve", "root", "look", "step", "target", "create", "alloc", "new_inode",
           "new_entry", "grow", "return_block", "return_locked", "delete", "child", "clear",
           "shrink", "free_entries", "free", "read", "read_data", "write", "append",
           "write_data", "write_inode", "reply"}

\* Every variable has its type; the state of file_server.h and of its handlers.
TypeOK ==
  /\ DOMAIN disk = Block /\ \A b \in Block : disk[b].kind \in {"inode", "entries", "data"}
  /\ ToSet(free_blocks) \subseteq Block \ {0}
  /\ readers \in [Block -> SUBSET Handler]
  /\ writer \in [Block -> Handler \cup {NoHandler}]
  /\ pc \in [Handler -> Labels]
  /\ req \in [Handler -> Request \cup {NoReq}]
  /\ outcome \in [Handler -> Answered \cup {"none"}]
  /\ received \in 0..MaxRequests /\ crashes \in 0..MaxCrashes
  /\ \A h \in Handler :
       /\ pc[h] = "idle" <=> req[h] = NoReq
       /\ pc[h] = "reply" => outcome[h] # "none"
       /\ loc[h].target \in Block /\ loc[h].parent \in Block

\* Between any two writes the blocks on the disk form a tree: every entry
\* names an inode, no block is referred to twice, no directory holds a block
\* without entries or a name twice.  A server started on that disk after a
\* crash therefore finds it in order, whatever was in progress.
DiskConsistent == WellFormed(disk)

\* The blocks that only handler h knows of: those it took from the free list
\* and has not yet linked into the tree, and those it unlinked and has not
\* yet put on the free list.
InFlight(h) ==
  CASE req[h] = NoReq -> {}
    [] req[h].op = "create" ->
         (IF pc[h] \in {"reserve", "reply"} THEN {} ELSE {loc[h].reserved})
         \cup (IF loc[h].grown /\ pc[h] # "reply" THEN {loc[h].block} ELSE {})
    [] req[h].op = "delete" ->
         (IF pc[h] = "free_entries" THEN {loc[h].block} ELSE {})
         \cup (IF pc[h] \in {"free_entries", "free"} THEN ToSet(loc[h].old.blocks) \cup {loc[h].child}
                                                    ELSE {})
    [] req[h].op = "write" ->
         IF loc[h].grown /\ pc[h] # "reply" THEN {loc[h].reserved} ELSE {}
    [] OTHER -> {}

\* No block is lost and none is used twice: every block but the root's is, at
\* any moment, in the tree, or on the free list once, or in one handler's
\* hands, and in only one of these places (free_block_lock, the failure paths
\* of create, and the blocks that delete returns).
BlockAccounting ==
  LET used == UsedBlocks(disk) IN
  \A b \in Block \ {0} :
    Cardinality({n \in DOMAIN free_blocks : free_blocks[n] = b})
    + Cardinality({h \in Handler : b \in InFlight(h)})
    + (IF b \in used THEN 1 ELSE 0) = 1

Holds(h) == {b \in Block : h \in readers[b] \/ writer[b] = h}

Resolving == {"look", "step", "target"}
Modifying == {"create", "delete", "read", "write", "alloc", "new_inode", "new_entry", "grow",
              "return_locked", "child", "clear", "shrink", "free_entries", "read_data",
              "append", "write_data", "write_inode"}

\* What a handler has resolved stays what its path leads to, although it has
\* unlocked the directories above: nobody deletes or replaces the directory it
\* stands on, nor the one it is about to lock, nor the file it works on.
NoStaleTarget ==
  \A h \in Handler :
    /\ pc[h] \in Resolving =>
         Resolve(disk, SubSeq(Names(req[h]), 1, loc[h].depth))
           = {IF pc[h] = "look" THEN loc[h].parent ELSE loc[h].target}
    /\ pc[h] \in Modifying =>
         /\ Resolve(disk, Names(req[h])) = {loc[h].target}
         /\ loc[h].target \in Holds(h)

\* Locks are taken in an order in which no cycle of handlers can wait for each
\* other, whoever is granted one first.  An inode's lock is waited for with at
\* most its parent's held, downwards in the tree.  free_block_lock is the last:
\* it is waited for with no inode's lock held (file_server.cpp:179, 190, 336),
\* or with just those of the inodes that the handler changes (lines 204, 213,
\* 224, 326, 452), and its critical sections, each a step, take no other lock.
\* A client is waited for with none.
LocksFollowTheTree ==
  \A h \in Handler :
    LET next == IF pc[h] = "child" THEN loc[h].child ELSE loc[h].target
    IN  /\ pc[h] \in {"step", "target", "child"} =>
             \A b \in Holds(h) : next \in Children(disk, b)
        /\ pc[h] \in {"alloc", "append", "return_locked"} =>
             Holds(h) = {loc[h].target} /\ writer[loc[h].target] = h
        /\ pc[h] = "free_entries" =>
             Holds(h) = {loc[h].target, loc[h].child} /\ \A b \in Holds(h) : writer[b] = h
        /\ pc[h] \in {"idle", "reply", "root", "reserve", "free", "return_block"} => Holds(h) = {}

\* What a handler has locked, shared or exclusively, no other handler's step
\* changes: neither that inode nor the blocks it lists.  A directory is thus
\* searched, and a file read, as if in one step.
HeldIsStable ==
  [][\A h \in Handler, b \in Block :
       b \in Holds(h) /\ pc'[h] = pc[h] =>
         \A c \in {b} \cup ToSet(ReadInode(disk, b).blocks) : disk'[c] = disk[c]]_vars

\* The tree that a client sees in the blocks.
Path == UNION {{SubSeq(r.path, 1, n) : n \in 1..Len(r.path)} : r \in Request}
\* It starts with the files on the disk.
ASSUME PathsAssumption ==
  \A i \in TreeInodes(InitialDisk) \ {0} : \E path \in Path : Resolve(InitialDisk, path) = {i}
Absent == [type |-> "absent"]
NodeIn(d, b) ==
  [type |-> ReadInode(d, b).type, owner |-> ReadInode(d, b).owner,
   data |-> IF ReadInode(d, b).type = "d" THEN <<>>
            ELSE [k \in 1..Len(ReadInode(d, b).blocks) |-> ReadValue(d, ReadInode(d, b).blocks[k])]]
TreeOf(d) ==
  [path \in Path |-> IF Resolve(d, path) = {} THEN Absent
                     ELSE CHOOSE node \in {NodeIn(d, b) : b \in Resolve(d, path)} : TRUE]

FS == INSTANCE FileSystem WITH
        tree <- TreeOf(disk), call <- req, result <- outcome, InitialTree <- TreeOf(InitialDisk)

\* Requests are linearizable: each takes effect on the tree of files at one
\* moment while it is served, or fails for a reason that holds at that moment,
\* and a crash leaves every request in progress done or not done at all.
ImplementsFileSystem == FS!Spec

\* The comment "no empty entry in cur blocks" (file_server.cpp:226) on the test
\* that makes a directory grow by a block: it grows only when it is full.
NoEmptyEntryWhenGrowing ==
  \A h \in Handler :
    pc[h] = "alloc" /\ loc[h].block = Sentinel => UnusedPlaces(loc[h].inode) = {}

\* Every request that is received is answered, or its connection closed: no
\* handler waits for a lock for ever.
EveryRequestAnswered == \A h \in Handler : pc[h] # "idle" ~> pc[h] = "idle"
=============================================================================
