----------------------------- MODULE AddressSpace -----------------------------
(***************************************************************************)
(* What the pager of Project3 promises the processes (vm_pager.h): each    *)
(* has an arena of pages, private ones with a value of their own and pages *)
(* that show a block of a file.  There is no physical memory here, no swap *)
(* file and no fault: a store changes one value, at once, for everybody    *)
(* who maps it, and nothing else changes a value.                          *)
(***************************************************************************)
EXTENDS Naturals, FiniteSets, Sequences

CONSTANTS Pid, NoPid,
          Value, Zero,
          Ending,       \* the contents that end a file name; see Pager
          FileBlock,    \* block numbers given to vm_map
          Files,        \* the pairs <<name, block>> that can be read
          MAX_PAGE_NUM, SwapBlocks

VARIABLES space,        \* managed process -> sequence of pages
          content,      \* pair <<name, block>> -> value
          running

vars == <<space, content, running>>

PrivatePage(value) == [shared |-> FALSE, value |-> value]
FilePage(file)     == [shared |-> TRUE, file |-> file]

ValueOf(page)  == IF page.shared THEN content[page.file] ELSE page.value
Readable(page) == page.shared => page.file \in Files

PrivatePages == {vp \in Pid \X (1..MAX_PAGE_NUM) :
                   /\ vp[1] \in DOMAIN space /\ vp[2] \in DOMAIN space[vp[1]]
                   /\ ~space[vp[1]][vp[2]].shared}

Init == space = <<>> /\ content \in [Files -> Value] /\ running = NoPid

Create(child) ==
  /\ child \in Pid \ DOMAIN space
  /\ space' = [p \in DOMAIN space \cup {child} |-> IF p = child THEN <<>> ELSE space[p]]
  /\ UNCHANGED <<content, running>>

Switch(p) == p \in DOMAIN space /\ running' = p /\ UNCHANGED <<space, content>>

Store(i, value) ==
  /\ running # NoPid /\ i \in DOMAIN space[running] /\ Readable(space[running][i])
  /\ IF space[running][i].shared
     THEN /\ content' = [content EXCEPT ![space[running][i].file] = value]
          /\ UNCHANGED space
     ELSE /\ space' = [space EXCEPT ![running][i].value = value]
          /\ UNCHANGED content
  /\ UNCHANGED running

NewPage(page) ==
  /\ running # NoPid /\ Len(space[running]) < MAX_PAGE_NUM
  /\ space' = [space EXCEPT ![running] = Append(@, page)]
  /\ UNCHANGED <<content, running>>

\* A private page of zeroes, if the swap file has room for it.
MapPrivate == Cardinality(PrivatePages) < SwapBlocks /\ NewPage(PrivatePage(Zero))

\* The file whose name is in the pages first..last of the arena.
MapFile(first, last, block) ==
  /\ running # NoPid /\ first..last \subseteq DOMAIN space[running]
  /\ \A i \in first..last : /\ Readable(space[running][i])
                            /\ ValueOf(space[running][i]) \in Ending <=> i = last
  /\ NewPage(FilePage(<<[k \in 1 .. last - first + 1 |-> ValueOf(space[running][first + k - 1])],
                        block>>))

Exit ==
  /\ running # NoPid
  /\ space' = [p \in DOMAIN space \ {running} |-> space[p]]
  /\ running' = NoPid
  /\ UNCHANGED content

Next ==
  \/ \E p \in Pid : Create(p) \/ Switch(p)
  \/ \E i \in 1..MAX_PAGE_NUM, value \in Value : Store(i, value)
  \/ MapPrivate
  \/ \E first, last \in 1..MAX_PAGE_NUM, block \in FileBlock :
        first <= last /\ MapFile(first, last, block)
  \/ Exit

Spec == Init /\ [][Next]_vars
=============================================================================
