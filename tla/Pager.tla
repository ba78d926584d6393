-------------------------------- MODULE Pager --------------------------------
(***************************************************************************)
(* The pager of Project3 (my_vm_pager.cpp, my_utils.cpp) under the         *)
(* processes it manages.  Everything runs on one CPU without preemption:   *)
(* a call of the pager is never interleaved with anything.  The MMU is     *)
(* external: an access goes to physical memory if the PTE allows it, and   *)
(* is a vm_fault followed by the same access otherwise.                    *)
(*                                                                         *)
(* What a page holds is one value.  Read as part of a file name, from some *)
(* address in it to its end, the contents in Ending have a NUL and end the *)
(* name, the others run on into the next page of the arena.  So a name is  *)
(* the sequence of the contents it was read from.                          *)
(***************************************************************************)
EXTENDS Naturals, FiniteSets, SequencesExt, Functions

CONSTANTS Pid, NoPid,
          Shell,              \* any process that the pager does not manage
          num_memory_pages,
          SwapBlocks,         \* the argument swap_blocks of vm_init
          MAX_PAGE_NUM,
          Value, Zero, Ending,
          FileBlock,          \* block numbers given to vm_map
          Files,              \* the pairs <<name, block>> that can be read
          InitialBacking,     \* what the swap file and the files may hold at the start
          ManagedForks        \* may a process with pages create another?

ASSUME SizesAssumption ==
  /\ num_memory_pages \in Nat \ {0, 1} /\ SwapBlocks \in Nat /\ MAX_PAGE_NUM \in Nat \ {0}
ASSUME PidAssumption == NoPid \notin Pid /\ Shell \notin Pid /\ Shell # NoPid
ASSUME ValueAssumption == Zero \in Ending /\ Ending \subseteq Value
ASSUME ForksAssumption == ManagedForks \in BOOLEAN
ASSUME FilesAssumption == \A file \in Files : file = <<file[1], file[2]>>

VARIABLES
  physmem,                    \* physical page -> contents
  physical_table,             \* physical page -> [id, dirty, referenced]
  available_physical_pages, clock_queue,
  peer_in_phys,               \* file_id of a resident page -> its physical page
  peer_map,                   \* pairs <<file_id, <<pid, page>>>>
  tables,                     \* pid -> page_table
  cur_table,                  \* the process whose page table it is, or NoPid for null
  cur_pid,
  available_swap_blocks, num_swap_blocks,
  backing,                    \* the swap file and the files: file_id -> contents
  accessed,                   \* the file blocks that were read successfully
  running,                    \* the process that has the CPU
  call                        \* what it is in the middle of

memory   == <<physmem, physical_table, available_physical_pages, clock_queue, peer_in_phys,
              backing, accessed>>
swapVars == <<available_swap_blocks, num_swap_blocks>>
current  == <<cur_table, cur_pid, running>>
vars     == <<memory, peer_map, tables, swapVars, current, call>>

PhysicalPage == 0 .. num_memory_pages - 1
SwapBlock    == 0 .. SwapBlocks - 1
Name         == {s \in BoundedSeq(Value, MAX_PAGE_NUM) :
                   s # <<>> /\ \A k \in DOMAIN s : s[k] \in Ending <=> k = Len(s)}

\* class file_id
SwapId(b)    == [swap_backed |-> TRUE, filename |-> <<>>, block |-> b]
FileId(file) == [swap_backed |-> FALSE, filename |-> file[1], block |-> file[2]]
SwapIds      == {SwapId(b) : b \in SwapBlock}
ReadableIds  == {FileId(file) : file \in Files}
file_id      == SwapIds \cup {FileId(file) : file \in Name \X FileBlock}

\* class virtual_page together with its page_table_entry_t.
virtual_page == [id : file_id, ppage : 0..num_memory_pages,
                 read_enable : BOOLEAN, write_enable : BOOLEAN]

ASSUME BackingAssumption == InitialBacking \subseteq [SwapIds \cup ReadableIds -> Value]

Idle == [op |-> "none"]

\* vm_init
Init ==
  /\ physmem = [q \in PhysicalPage |-> Zero]
  /\ physical_table = [q \in PhysicalPage |-> [id |-> SwapId(0), dirty |-> FALSE, referenced |-> FALSE]]
  /\ available_physical_pages = [k \in 1 .. num_memory_pages - 1 |-> k]
  /\ clock_queue = <<>>
  /\ peer_in_phys = <<>>
  /\ peer_map = {}
  /\ tables = <<>>
  /\ cur_table = NoPid /\ cur_pid = NoPid /\ running = NoPid
  /\ available_swap_blocks = [k \in 1 .. SwapBlocks |-> k - 1]
  /\ num_swap_blocks = SwapBlocks
  /\ backing \in InitialBacking
  /\ accessed = {}
  /\ call = Idle

\* The n-th page of the current process, counted from 1; check_residence.
Page(n)      == tables[cur_table].vps[n]
Resident(id) == id \in DOMAIN peer_in_phys
CanCall      == running # NoPid /\ cur_table # NoPid

-----------------------------------------------------------------------------
(* get_free_physical_page: if no physical page is free, the clock clears the *)
(* reference bit of the pages it passes and evicts the first without one.    *)

NeedsSweep == available_physical_pages = <<>>

\* The places of clock_queue whose page is not referenced.
Unreferenced == {k \in DOMAIN clock_queue : ~physical_table[clock_queue[k]].referenced}

\* How many pages the hand passes before it evicts one: all of them if all are referenced.
Passed ==
  IF ~NeedsSweep THEN 0
  ELSE IF Unreferenced = {} THEN Len(clock_queue)
  ELSE Min(Unreferenced) - 1

PassedPages == {clock_queue[k] : k \in 1..Passed}

\* The clock when the hand stops: the pages passed are at the back.
ClockRotated == SubSeq(clock_queue, Passed + 1, Len(clock_queue)) \o SubSeq(clock_queue, 1, Passed)
Evicted      == IF NeedsSweep THEN {Head(ClockRotated)} ELSE {}

ClockAfterSweep     == IF NeedsSweep THEN Tail(ClockRotated) ELSE clock_queue
AvailableAfterSweep == IF NeedsSweep THEN <<Head(ClockRotated)>> ELSE available_physical_pages

PhysicalAfterSweep ==
  [q \in PhysicalPage |-> [physical_table[q] EXCEPT !.referenced = @ /\ q \notin PassedPages,
                                                   !.dirty      = @ /\ q \notin Evicted]]

\* Mutant: only pages of the swap file are written back.
WritesSwapOnly ==
  [id \in DOMAIN backing |->
     IF \E q \in Evicted : /\ physical_table[q].dirty /\ physical_table[q].id = id
                          /\ id.swap_backed
     THEN physmem[CHOOSE q \in Evicted : TRUE] ELSE backing[id]]

\* file_write of a page that is dirty.
BackingAfterSweep ==
  [id \in DOMAIN backing |->
     IF \E q \in Evicted : physical_table[q].dirty /\ physical_table[q].id = id
     THEN physmem[CHOOSE q \in Evicted : TRUE] ELSE backing[id]]

ResidentAfterSweep ==
  Restrict(peer_in_phys, DOMAIN peer_in_phys \ {physical_table[q].id : q \in Evicted})

\* The tables with f(entry) for the entries of the virtual pages in vps.
UpdateEntries(old, vps, f(_)) ==
  [p \in DOMAIN old |->
     [old[p] EXCEPT !.vps = [n \in DOMAIN @ |-> IF <<p, n>> \in vps THEN f(@[n]) ELSE @[n]]]]

Peers(ids) == {pair[2] : pair \in {x \in peer_map : x[1] \in ids}}

\* A PTE of a page the hand passes will fault on the next access.
Disabled(entry) == [entry EXCEPT !.read_enable = FALSE, !.write_enable = FALSE]
TablesAfterSweep ==
  UpdateEntries(tables, Peers({physical_table[q].id : q \in PassedPages}), Disabled)

-----------------------------------------------------------------------------
(* vm_fault, with set_physical_page and set_peer *)

\* set_peer, for page n of the current process and the pages that share its file_id.
set_peer(old, n, ppage, write_enable) ==
  LET Mapped(entry) == [entry EXCEPT !.ppage = ppage, !.read_enable = TRUE,
                                     !.write_enable = write_enable]
  IN UpdateEntries(old, Peers({Page(n).id}) \cup {<<cur_table, n>>}, Mapped)

\* A page that is not resident, or one of zeroes that is about to be written.
NeedsPage(n, write) == ~Resident(Page(n).id) \/ (write /\ Page(n).ppage = 0)

\* Mutant: the page becomes writable if it was dirty already.
WriteEnabledIfDirty(n, write) == Page(n).write_enable \/ physical_table[Page(n).ppage].dirty

WriteEnabled(n, write) ==
  write \/ Page(n).write_enable \/ physical_table[Page(n).ppage].dirty

\* The page is in physical memory: only the bits change.
FaultOnResident(n, write) ==
  /\ ~NeedsPage(n, write)
  /\ physical_table' = [physical_table EXCEPT ![Page(n).ppage].dirty = @ \/ write,
                                             ![Page(n).ppage].referenced = TRUE]
  /\ tables' = set_peer(tables, n, Page(n).ppage, WriteEnabled(n, write))
  /\ UNCHANGED <<physmem, available_physical_pages, clock_queue, peer_in_phys, backing, accessed>>

\* A physical page is found for it, and it is read, or copied from the pinned page.
\* file_read: a block of a file may be unreadable until it has been read.
FaultWithRead(n, write) ==
  LET id == Page(n).id
      q  == Head(AvailableAfterSweep)
  IN /\ NeedsPage(n, write)
     /\ id \in DOMAIN backing
     /\ physmem' = [physmem EXCEPT ![q] = IF Resident(id) THEN physmem[Page(n).ppage]
                                                         ELSE BackingAfterSweep[id]]
     /\ accessed' = IF id.swap_backed THEN accessed ELSE accessed \cup {id}
     /\ physical_table' = [PhysicalAfterSweep EXCEPT ![q].id = id, ![q].referenced = TRUE,
                                                    ![q].dirty = @ \/ write]
     /\ available_physical_pages' = Tail(AvailableAfterSweep)
     /\ clock_queue' = Append(ClockAfterSweep, q)
     /\ peer_in_phys' = [x \in DOMAIN ResidentAfterSweep \cup {id} |->
                           IF x = id THEN q ELSE ResidentAfterSweep[x]]
     /\ backing' = BackingAfterSweep
     /\ tables' = set_peer(TablesAfterSweep, n, q,
                          write \/ TablesAfterSweep[cur_table].vps[n].write_enable)

\* file_read fails, after a page may have been evicted for it.
FaultFails(n, write) ==
  /\ NeedsPage(n, write)
  /\ ~Page(n).id.swap_backed /\ ~Resident(Page(n).id) /\ Page(n).id \notin accessed
  /\ physical_table' = PhysicalAfterSweep
  /\ available_physical_pages' = AvailableAfterSweep
  /\ clock_queue' = ClockAfterSweep
  /\ peer_in_phys' = ResidentAfterSweep
  /\ backing' = BackingAfterSweep
  /\ tables' = TablesAfterSweep
  /\ UNCHANGED <<physmem, accessed>>

vm_fault(n, write) == FaultOnResident(n, write) \/ FaultWithRead(n, write)

-----------------------------------------------------------------------------
(* The MMU and the programs *)

Retry(n, write)  == [op |-> "retry", page |-> n, write |-> write]
Denied(n, write) == IF write THEN ~Page(n).write_enable ELSE ~Page(n).read_enable

\* An access that the PTE denies; after the fault it is repeated, unless the fault failed.
Fault(n, write) ==
  /\ CanCall /\ call \in {Idle, Retry(n, write)}
  /\ n \in DOMAIN tables[cur_table].vps /\ Denied(n, write)
  /\ \/ vm_fault(n, write) /\ call' = Retry(n, write)
     \/ FaultFails(n, write) /\ call' = Idle
  /\ UNCHANGED <<peer_map, swapVars, current>>

\* A load without a fault changes nothing, so only the repeated one is a step.
Load(n) ==
  /\ CanCall /\ call = Retry(n, FALSE) /\ ~Denied(n, FALSE)
  /\ call' = Idle
  /\ UNCHANGED <<memory, peer_map, tables, swapVars, current>>

Store(n, value) ==
  /\ CanCall /\ call \in {Idle, Retry(n, TRUE)}
  /\ n \in DOMAIN tables[cur_table].vps /\ ~Denied(n, TRUE)
  /\ physmem' = [physmem EXCEPT ![Page(n).ppage] = value]
  /\ call' = Idle
  /\ UNCHANGED <<physical_table, available_physical_pages, clock_queue, peer_in_phys, backing,
                 accessed, peer_map, tables, swapVars, current>>

-----------------------------------------------------------------------------
(* vm_map *)

HasRoom == Len(tables[cur_table].vps) < MAX_PAGE_NUM

AddPage(id, ppage, read_enable, write_enable) ==
  /\ peer_map' = peer_map \cup {<<id, <<cur_table, Len(tables[cur_table].vps) + 1>>>>}
  /\ tables' = [tables EXCEPT ![cur_table].vps =
                  Append(@, [id |-> id, ppage |-> ppage, read_enable |-> read_enable,
                             write_enable |-> write_enable]),
                             ![cur_table].occupied_swap_blocks =
                  IF id.swap_backed THEN @ + 1 ELSE @]

\* A swap-backed page starts as the pinned page of zeroes.
MapSwap ==
  /\ CanCall /\ call = Idle /\ HasRoom /\ num_swap_blocks # 0
  /\ LET id == SwapId(Head(available_swap_blocks))
     IN /\ AddPage(id, 0, TRUE, FALSE)
        /\ peer_in_phys' = [x \in DOMAIN peer_in_phys \cup {id} |->
                              IF x = id THEN 0 ELSE peer_in_phys[x]]
  /\ available_swap_blocks' = Tail(available_swap_blocks)
  /\ num_swap_blocks' = num_swap_blocks - 1
  /\ UNCHANGED <<physmem, physical_table, available_physical_pages, clock_queue, backing, accessed,
                 current, call>>

\* A file-backed page: first the name is read, which begins in page n.
MapFile(n, block) ==
  /\ CanCall /\ call = Idle /\ HasRoom /\ n \in DOMAIN tables[cur_table].vps
  /\ call' = [op |-> "map", at |-> n, name |-> <<>>, block |-> block]
  /\ UNCHANGED <<memory, peer_map, tables, swapVars, current>>

InMap == CanCall /\ call.op = "map"
AtEnd == call.at > Len(tables[cur_table].vps)

\* The page of the name to be read next is not readable: vm_fault by the pager itself.
NameFault ==
  /\ InMap /\ ~AtEnd /\ Denied(call.at, FALSE)
  /\ \/ vm_fault(call.at, FALSE) /\ UNCHANGED call
     \/ FaultFails(call.at, FALSE) /\ call' = Idle
  /\ UNCHANGED <<peer_map, swapVars, current>>

NamePart == physmem[Page(call.at).ppage]

ReadName ==
  /\ InMap /\ ~AtEnd /\ ~Denied(call.at, FALSE) /\ NamePart \notin Ending
  /\ call' = [call EXCEPT !.at = @ + 1, !.name = Append(@, NamePart)]
  /\ UNCHANGED <<memory, peer_map, tables, swapVars, current>>

\* The name runs out of the valid part of the arena.
NameRefused ==
  /\ InMap /\ AtEnd
  /\ call' = Idle
  /\ UNCHANGED <<memory, peer_map, tables, swapVars, current>>

\* Protection of a new page that shows a resident one, which may have no peer left.
ReadableAtOnce(id) == Resident(id) /\ physical_table[peer_in_phys[id]].referenced

\* Mutant: a dirty page is writable whether it is referenced or not.
WritableIfDirty(id) == Resident(id) /\ physical_table[peer_in_phys[id]].dirty

WritableAtOnce(id) == ReadableAtOnce(id) /\ physical_table[peer_in_phys[id]].dirty

EndName ==
  /\ InMap /\ ~AtEnd /\ ~Denied(call.at, FALSE) /\ NamePart \in Ending
  /\ LET id == FileId(<<Append(call.name, NamePart), call.block>>)
     IN AddPage(id, IF Resident(id) THEN peer_in_phys[id] ELSE num_memory_pages,
                ReadableAtOnce(id), WritableAtOnce(id))
  /\ call' = Idle
  /\ UNCHANGED <<memory, swapVars, current>>

-----------------------------------------------------------------------------
(* vm_create, vm_switch, vm_destroy *)

\* The environment's choice of the parent and of the pid.  Assumed: a pid is used again only
\* after another process has run.  Otherwise vm_switch, which finds cur_pid unchanged, would
\* leave the new process without a page table.
MayCreate(parent, child) ==
  /\ call = Idle /\ child \notin DOMAIN tables \cup {cur_pid}
  /\ \/ parent = Shell
     \/ parent = running /\ CanCall /\ (ManagedForks \/ tables[running].vps = <<>>)

\* The swap blocks a child of parent would occupy.
Reserved(parent) ==
  IF parent \in DOMAIN tables THEN tables[parent].occupied_swap_blocks ELSE 0

vm_create(parent, child) ==
  /\ MayCreate(parent, child)
  /\ Reserved(parent) <= num_swap_blocks
  /\ num_swap_blocks' = num_swap_blocks - Reserved(parent)
  /\ tables' = [p \in DOMAIN tables \cup {child} |->
                  IF p = child THEN [vps |-> <<>>, occupied_swap_blocks |-> 0] ELSE tables[p]]
  /\ UNCHANGED <<memory, peer_map, available_swap_blocks, current, call>>

\* A switch, at a vm_yield or an exit, to a process that exists.
vm_switch(pid) ==
  /\ call = Idle /\ pid \in DOMAIN tables \ {running}
  /\ running' = pid
  /\ IF cur_pid # pid THEN cur_table' = pid /\ cur_pid' = pid
                     ELSE UNCHANGED <<cur_table, cur_pid>>
  /\ UNCHANGED <<memory, peer_map, tables, swapVars, call>>

\* The elements of s that are in S, in their order.
KeptIn(s, S) ==
  LET kept[n \in 0..Len(s)] ==
        IF n = 0 THEN <<>>
        ELSE IF s[n] \in S THEN Append(kept[n - 1], s[n]) ELSE kept[n - 1]
  IN  kept[Len(s)]

\* The entries of the swap-backed pages of the current process, and of those among them
\* that are in a physical page of their own.
SwapEntries == KeptIn(tables[cur_table].vps, {e \in ToSet(tables[cur_table].vps) : e.id.swap_backed})

\* Mutant: pages that still show the pinned page count, too.
FreedWithPinned == KeptIn(SwapEntries, {e \in ToSet(SwapEntries) : Resident(e.id)})

FreedEntries == KeptIn(SwapEntries, {e \in ToSet(SwapEntries) : Resident(e.id) /\ e.ppage # 0})
FreedPages == [k \in DOMAIN FreedEntries |-> FreedEntries[k].ppage]

\* Mutant: the clock keeps them.
ClockKept == clock_queue

ClockAfterDestroy == KeptIn(clock_queue, PhysicalPage \ ToSet(FreedPages))

\* Mutant: their dirty bits are not reset.
DirtyKept == physical_table

PhysicalAfterDestroy ==
  [q \in PhysicalPage |-> [physical_table[q] EXCEPT !.dirty = @ /\ q \notin ToSet(FreedPages)]]

\* Mutant: only pages that nobody shares are erased.
SharedPeersKept == {pair \in peer_map : pair[2][1] # cur_table \/ ~pair[1].swap_backed}

PeersAfterDestroy == {pair \in peer_map : pair[2][1] # cur_table}

\* Mutant: only the blocks of pages that have a physical page are returned.
ResidentReturned ==
  available_swap_blocks \o [k \in DOMAIN FreedEntries |-> FreedEntries[k].id.block]

SwapAfterDestroy ==
  available_swap_blocks \o [k \in DOMAIN SwapEntries |-> SwapEntries[k].id.block]

\* Files stay in physical memory when the last process that maps them ends.
vm_destroy ==
  /\ CanCall /\ call = Idle
  /\ peer_map' = PeersAfterDestroy
  /\ physical_table' = PhysicalAfterDestroy
  /\ available_physical_pages' = available_physical_pages \o FreedPages
  /\ clock_queue' = ClockAfterDestroy
  /\ peer_in_phys' = Restrict(peer_in_phys, DOMAIN peer_in_phys \
                                           {FreedEntries[k].id : k \in DOMAIN FreedEntries})
  /\ available_swap_blocks' = SwapAfterDestroy
  /\ num_swap_blocks' = num_swap_blocks + tables[cur_table].occupied_swap_blocks
  /\ tables' = Restrict(tables, DOMAIN tables \ {cur_pid})
  /\ cur_table' = NoPid /\ running' = NoPid
  /\ UNCHANGED <<physmem, backing, accessed, cur_pid, call>>

-----------------------------------------------------------------------------
Next ==
  \/ \E n \in 1..MAX_PAGE_NUM :
        \/ \E write \in BOOLEAN : Fault(n, write)
        \/ Load(n)
        \/ \E value \in Value : Store(n, value)
        \/ \E block \in FileBlock : MapFile(n, block)
  \/ MapSwap \/ NameFault \/ ReadName \/ NameRefused \/ EndName
  \/ \E parent \in Pid \cup {Shell}, child \in Pid : vm_create(parent, child)
  \/ \E pid \in Pid : vm_switch(pid)
  \/ vm_destroy

Spec == Init /\ [][Next]_vars

-----------------------------------------------------------------------------
(* Properties *)

\* All variables have values of their types (vm_pager.h, my_utils.h).  A physical page that
\* was never used has the file_id that the default constructor makes.
TypeOK ==
  /\ physmem \in [PhysicalPage -> Value]
  /\ physical_table \in [PhysicalPage -> [id : file_id \cup {SwapId(0)},
                                          dirty : BOOLEAN, referenced : BOOLEAN]]
  /\ available_physical_pages \in Seq(PhysicalPage \ {0})
  /\ clock_queue \in Seq(PhysicalPage \ {0})
  /\ DOMAIN peer_in_phys \subseteq file_id
  /\ \A id \in DOMAIN peer_in_phys : peer_in_phys[id] \in PhysicalPage
  /\ peer_map \subseteq file_id \X (Pid \X (1..MAX_PAGE_NUM))
  /\ DOMAIN tables \subseteq Pid
  /\ \A p \in DOMAIN tables : /\ tables[p].vps \in Seq(virtual_page) /\ Len(tables[p].vps) <= MAX_PAGE_NUM
                              /\ tables[p].occupied_swap_blocks \in 0..MAX_PAGE_NUM
  /\ {cur_table, cur_pid, running} \subseteq Pid \cup {NoPid}
  /\ available_swap_blocks \in Seq(SwapBlock)
  /\ num_swap_blocks \in 0..SwapBlocks
  /\ backing \in [SwapIds \cup ReadableIds -> Value]
  /\ accessed \subseteq ReadableIds

VirtualPages == {vp \in Pid \X (1..MAX_PAGE_NUM) :
                   vp[1] \in DOMAIN tables /\ vp[2] \in DOMAIN tables[vp[1]].vps}
Entry(vp)    == tables[vp[1]].vps[vp[2]]
IsPermutation(s, S) == ToSet(s) = S /\ Len(s) = Cardinality(S)

\* Apart from the pinned page, every physical page is either free or in the clock, once;
\* those in the clock are exactly the resident pages, under their own file_ids.  Eviction,
\* faults and the end of processes move pages between the two queues and the map.
PagesPartitioned ==
  /\ IsPermutation(available_physical_pages \o clock_queue, PhysicalPage \ {0})
  /\ \A q \in ToSet(clock_queue) : /\ Resident(physical_table[q].id)
                                   /\ peer_in_phys[physical_table[q].id] = q
  /\ \A id \in DOMAIN peer_in_phys :
        IF peer_in_phys[id] = 0 THEN id.swap_backed
        ELSE peer_in_phys[id] \in ToSet(clock_queue) /\ physical_table[peer_in_phys[id]].id = id

\* The PTEs of all pages that share a file_id say the same, whichever process faulted last:
\* the physical page; readable if it is referenced; writable if it is also dirty.  A page
\* that is not resident is never accessible (vm_fault, set_peer, the clock, vm_map).
ProtectionFollows ==
  \A vp \in VirtualPages :
    LET e == Entry(vp)
    IN IF ~Resident(e.id) THEN ~e.read_enable /\ ~e.write_enable
       ELSE /\ e.ppage = peer_in_phys[e.id]
            /\ e.read_enable  <=> (e.ppage = 0 \/ physical_table[e.ppage].referenced)
            /\ e.write_enable <=> (e.ppage # 0 /\ physical_table[e.ppage].referenced
                                               /\ physical_table[e.ppage].dirty)

\* set_peer and the clock follow pointers in peer_map: they point to the pages of the
\* processes that exist, each under its file_id, and no page is missing.
PeersExact == peer_map = {<<Entry(vp).id, vp>> : vp \in VirtualPages}

\* A resident page that is not dirty is the same on disk, so that evicting it without a
\* file_write loses nothing; a free page is not dirty, or what is read into it next would be
\* writable without a fault and written back for nothing.
DirtyBits ==
  /\ \A q \in ToSet(clock_queue) :
        ~physical_table[q].dirty => physmem[q] = backing[physical_table[q].id]
  /\ \A q \in ToSet(available_physical_pages) : ~physical_table[q].dirty

\* Every swap block is free or belongs to one page, and the count of those that can be
\* reserved is the count of the free ones, over any sequence of maps and exits of processes
\* whose forks, if any, are of processes without pages.  A fork of one with pages takes its
\* swap blocks off the count for good (my_vm_pager.cpp:56): AllSwapReturned shows it.
SwapConserved ==
  LET used == {vp \in VirtualPages : Entry(vp).id.swap_backed}
  IN /\ num_swap_blocks = Len(available_swap_blocks)
     /\ IsPermutation(available_swap_blocks, SwapBlock \ {Entry(vp).id.block : vp \in used})
     /\ \A vp, other \in used : Entry(vp).id = Entry(other).id => vp = other
     /\ \A p \in DOMAIN tables :
           tables[p].occupied_swap_blocks = Cardinality({vp \in used : vp[1] = p})

\* After a fault that succeeds the access it was for is allowed: a process does not fault
\* on the same instruction for ever.
RetrySucceeds == call.op = "retry" => ~Denied(call.page, call.write)

\* What a process finds in a page when it loads from it.
Contents(id) == IF Resident(id) THEN physmem[peer_in_phys[id]] ELSE backing[id]

ArenaOf(p) ==
  [n \in DOMAIN tables[p].vps |->
     LET id == tables[p].vps[n].id
     IN IF id.swap_backed THEN [shared |-> FALSE, value |-> Contents(id)]
                          ELSE [shared |-> TRUE, file |-> <<id.filename, id.block>>]]

Space       == [p \in DOMAIN tables |-> ArenaOf(p)]
FileContent == [file \in Files |-> Contents(FileId(file))]

Abstract == INSTANCE AddressSpace WITH space <- Space, content <- FileContent

\* The processes see the arenas of AddressSpace: eviction, reading in, write-back, copying
\* the page of zeroes and sharing change no contents; stores and maps do what they should.
ImplementsAddressSpace == Abstract!Spec

\* vm_create should give the child the mappings and data of the parent (vm_pager.h:43-44).
\* A step that reserves swap blocks for a child is a fork.
ForkCopiesArena ==
  [][\A child \in Pid :
       (running \in DOMAIN tables /\ Reserved(running) > 0 /\ vm_create(running, child))
         => ArenaOf(child)' = ArenaOf(running)]_vars

\* When all processes have ended, every swap block can be reserved again: vm_destroy cleans
\* up physical pages and swap blocks (my_vm_pager.cpp:128).
AllSwapReturned == DOMAIN tables = {} => num_swap_blocks = SwapBlocks

=============================================================================
