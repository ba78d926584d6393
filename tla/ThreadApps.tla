------------------------------ MODULE ThreadApps ------------------------------
(***************************************************************************)
(* Programs running on the thread library: the tests of Project2 and a     *)
(* program whose threads compete for a mutex for ever.  Whether a blocked  *)
(* thread gets on depends on what the others do, so the liveness of the    *)
(* library, and what a program ends with, is stated here.                  *)
(***************************************************************************)
EXTENDS ThreadLib, ThreadPrograms

LOCAL INSTANCE SequencesExt

CONSTANTS Chosen,     \* the names of the programs to run
          Preempted   \* those that run with timer interrupts

VARIABLES program,    \* the name of the program that runs
          next_call,  \* index of each thread's next instruction
          value,      \* the program's shared variables
          loaded,     \* what a thread has read of the variable it increments, or nothing
          process     \* running, or how it ended before the CPU was suspended

appVars == <<program, next_call, value, loaded, process>>
avars   == <<vars, appVars>>

Shared  == {"g", "hg", "print_num", "print_done", "loop_done"}
Pointer == {"t0", "t3", "t4", "t5", "t6"}    \* global, to threads, null at first

\* Three threads that take and release a mutex for ever.
Locker == Hello \o <<again>>
contention ==
  [parent |-> <<create("t1"), create("t2"), create("t3")>> \o Hello,
   t1 |-> Locker, t2 |-> Locker, t3 |-> Locker]

\* test4 is booted without timer interrupts; early is test4 with them.
Texts ==
  [early  |-> test4,
   test1  |-> test1,  test2  |-> test2,  test3  |-> test3,  test4  |-> test4,  test5  |-> test5,
   test7  |-> test7,  test8  |-> test8,  test9  |-> test9,  test10 |-> test10, test11 |-> test11,
   test12 |-> test12, test13 |-> test13, test14 |-> test14, test15 |-> test15, test16 |-> test16,
   test17 |-> test17, test18 |-> test18, test19 |-> test19, test20 |-> test20, test21 |-> test21,
   app    |-> app,    contention |-> contention]

\* x++ of g, at place i of a text.
IncrementAt(text, i) == text[i][1] = "inc" /\ text[i][2] = "g"

\* Place i of a text is behind a lock of m that nothing has undone: a wait
\* returns with the mutex.
Behind(text, i, m) ==
  \E j \in 1..(i - 1) :
    /\ text[j][1] = "lock" /\ text[j][2] = m
    /\ \A k \in (j + 1)..(i - 1) : ~(text[k][1] = "unlock" /\ text[k][2] = m)

\* The mutex of a call that may throw: its last argument.
MutexOf(call) == Last(call)

\* Calls are about threads, mutexes and condition variables of the program.
ASSUME ObjectsAssumption ==
  /\ "cv1" \in Cv
  /\ \A p \in Chosen : \A t \in DOMAIN Texts[p] : LET text == Texts[p][t] IN
       /\ text \in Seq(Range(text))
       /\ \A i \in DOMAIN text :
            /\ text[i][1] \in {"create", "join"} => text[i][2] \in Thread
            /\ text[i][1] \in {"lock", "unlock", "wait"} => text[i][2] \in Mutex
            /\ text[i][1] = "await" => text[i][4] \in Mutex
            /\ text[i][1] \in {"try", "unlock", "wait", "await"} => MutexOf(text[i]) \in Mutex

\* Nothing but increments changes g, none of them is in a loop that is not
\* unrolled, and if the timer interrupts a program they are all under one mutex.
ASSUME IncrementsAssumption ==
  \A p \in Chosen :
    /\ \A t \in DOMAIN Texts[p] : LET text == Texts[p][t] IN
         \A i \in DOMAIN text :
           /\ ~(text[i][1] = "set" /\ text[i][2] = "g")
           /\ text[i][1] \in {"until", "again"} => \A j \in DOMAIN text : ~IncrementAt(text, j)
    /\ p \in Preempted =>
         \E m \in Mutex : \A t \in DOMAIN Texts[p] : \A i \in DOMAIN Texts[p][t] :
           IncrementAt(Texts[p][t], i) => Behind(Texts[p][t], i, m)

Text(t) == IF t \in DOMAIN Texts[program] THEN Texts[program][t] ELSE <<>>

Instruction(t) == Text(t)[next_call[t]]

\* t's next instruction is one of those named, and the process still runs.
At(t, ops) ==
  /\ process = "running"
  /\ next_call[t] <= Len(Text(t))
  /\ Instruction(t)[1] \in ops

Advance(t) == next_call' = [next_call EXCEPT ![t] = @ + 1]

\* An instruction of the program's own, outside the library.
Own(t) == InUser(t) /\ UNCHANGED vars

-----------------------------------------------------------------------------

\* A call that takes its effect in the library.
LibraryCall(t) ==
  /\ At(t, {"create", "join", "follow", "lock", "unlock", "wait", "yield", "signal", "broadcast"})
  /\ LET call == Instruction(t) IN
     CASE call[1] = "create"    -> Create(t, call[2])
       [] call[1] = "join"      -> Join(t, call[2]) \/ JoinExpired(t, call[2])
       [] call[1] = "follow"    -> \E u \in Thread :
                                     value[call[2]] = u /\ (Join(t, u) \/ JoinExpired(t, u))
       [] call[1] = "lock"      -> LockFree(t, call[2]) \/ LockBusy(t, call[2])
       [] call[1] = "unlock"    -> Unlock(t, call[2])
       [] call[1] = "wait"      -> Wait(t, "cv1", call[2])
       [] call[1] = "yield"     -> Yield(t) \/ YieldAlone(t)
       [] call[1] = "signal"    -> Signal(t, "cv1") \/ NobodyWaits(t, "cv1")
       [] call[1] = "broadcast" -> Broadcast(t, "cv1") \/ NobodyWaits(t, "cv1")
  /\ Advance(t)
  /\ UNCHANGED <<program, value, loaded, process>>

\* while (x < n) cv1.wait(m): after a wait the condition is tested again.
WaitLoop(t) ==
  /\ At(t, {"await"})
  /\ LET x == Instruction(t)[2]  n == Instruction(t)[3]  m == Instruction(t)[4] IN
     \/ value[x] < n /\ Wait(t, "cv1", m) /\ UNCHANGED next_call
     \/ value[x] >= n /\ Own(t) /\ Advance(t)
  /\ UNCHANGED <<program, value, loaded, process>>

\* x++ reads x and later writes it; x = n only writes.
Load(t) ==
  /\ At(t, {"inc"}) /\ loaded[t] = <<>>
  /\ Own(t)
  /\ loaded' = [loaded EXCEPT ![t] = <<value[Instruction(t)[2]]>>]
  /\ UNCHANGED <<program, next_call, value, process>>

Store(t) ==
  /\ \/ /\ At(t, {"inc"}) /\ loaded[t] # <<>>
        /\ value' = [value EXCEPT ![Instruction(t)[2]] = loaded[t][1] + 1]
     \/ /\ At(t, {"set"})
        /\ value' = [value EXCEPT ![Instruction(t)[2]] = Instruction(t)[3]]
  /\ Own(t)
  /\ Advance(t)
  /\ loaded' = [loaded EXCEPT ![t] = <<>>]
  /\ UNCHANGED <<program, process>>

\* The loops that are not unrolled.
Jump(t) ==
  /\ Own(t)
  /\ \/ /\ At(t, {"until"})
        /\ next_call' = [next_call EXCEPT ![t] = IF value[Instruction(t)[2]] >= Instruction(t)[3]
                                                 THEN Len(Text(t)) + 1 ELSE @ + 1]
     \/ /\ At(t, {"again"})
        /\ next_call' = [next_call EXCEPT ![t] = 1]
  /\ UNCHANGED <<program, value, loaded, process>>

\* A call without its mutex throws; an exception nobody catches ends the process.
Throw(t) ==
  /\ At(t, {"try", "unlock", "wait"}) \/ (At(t, {"await"}) /\ value[Instruction(t)[2]] < Instruction(t)[3])
  /\ NotOwner(t, MutexOf(Instruction(t)))
  /\ IF Instruction(t)[1] = "try"
     THEN Advance(t) /\ UNCHANGED process
     ELSE process' = "aborted" /\ UNCHANGED next_call
  /\ UNCHANGED <<program, value, loaded>>

\* A join through a pointer that is still null ends the process, too.
FollowNull(t) ==
  /\ At(t, {"follow"}) /\ value[Instruction(t)[2]] = NoThread
  /\ Own(t)
  /\ process' = "aborted"
  /\ UNCHANGED <<program, next_call, value, loaded>>

Exit(t) ==
  /\ At(t, {"exit"})
  /\ Own(t)
  /\ process' = "exited"
  /\ UNCHANGED <<program, next_call, value, loaded>>

FunctionReturns(t) ==
  /\ process = "running" /\ next_call[t] > Len(Text(t))
  /\ Finish(t)
  /\ UNCHANGED appVars

\* The timer interrupt, while it is enabled; its handler is thread::yield.
Timer ==
  /\ process = "running" /\ program \in Preempted /\ interrupts
  /\ \E t \in Thread : Yield(t)
  /\ UNCHANGED appVars

Library ==
  /\ process = "running"
  /\ HostStep \/ Switch \/ \E t \in Thread : LibraryStep(t)
  /\ UNCHANGED appVars

Over == (Suspended \/ (process # "running" /\ UNCHANGED vars)) /\ UNCHANGED appVars

AppInit ==
  /\ Init
  /\ program \in Chosen
  /\ next_call = [t \in Thread |-> 1]
  /\ value = [x \in Shared \cup Pointer |-> IF x \in Shared THEN 0 ELSE NoThread]
  /\ loaded = [t \in Thread |-> <<>>]
  /\ process = "running"

ThreadStep(t) ==
  LibraryCall(t) \/ WaitLoop(t) \/ Load(t) \/ Store(t) \/ Jump(t) \/ Throw(t) \/ FollowNull(t)
  \/ Exit(t) \/ FunctionReturns(t)

AppNext == Library \/ (\E t \in Thread : ThreadStep(t)) \/ Timer \/ Over

\* The CPU goes on executing the library's code (uninterrupted); a timer
\* interrupt that stays deliverable is delivered (cpu::boot with async: one
\* every millisecond, cpu.h:46-53); and a thread that has the CPU again and
\* again executes its next instruction, because interrupts are not so frequent
\* that it is preempted every time before it gets there.
AppSpec ==
  /\ AppInit /\ [][AppNext]_avars
  /\ WF_avars(Library) /\ WF_avars(Timer)
  /\ \A t \in Thread : SF_avars(ThreadStep(t))

-----------------------------------------------------------------------------
\* The threads each test leaves blocked, by the calls in its text; no entry if
\* all of them end.
LeftBlocked ==
  [test5  |-> {"parent", "t1", "t2", "t3"},  \* t2 joins t1 with the mutex t1 asks for
   test10 |-> {"t1"},                        \* it waits Rounds times and is signalled once
   test11 |-> {"parent", "t1", "t2"},        \* t1 joins t2 with the mutex t2 asks for
   test17 |-> {"parent"},                    \* its second wait begins when the others are gone
   test18 |-> {"parent"}]                    \* it locks mutex2 a second time
Blocked == IF program \in DOMAIN LeftBlocked THEN LeftBlocked[program] ELSE {}

\* The CPU is suspended with exactly the threads blocked that the text lets block.
Completed ==
  /\ process = "running" /\ host = "suspended"
  /\ {t \in Thread : pc[t] \notin {"unborn", "done"}} = Blocked

\* A child of test4 got to its join before the parent had set the pointer.
PointerNotSet ==
  /\ process = "aborted"
  /\ \E t \in {"t1", "t2"} :
       /\ next_call[t] <= Len(Text(t)) /\ Instruction(t)[1] = "follow"
       /\ value[Instruction(t)[2]] = NoThread

\* The increments of g made so far: of which thread, and where in its text.
Increments == UNION {{t} \X {i \in 1..(next_call[t] - 1) : IncrementAt(Text(t), i)} : t \in Thread}

\* Every test comes to an end, and when the CPU is suspended the threads that
\* have not ended are those that the text of the program lets wait for ever, in
\* a wait nobody signals or in a cycle of joins and mutexes.  The library
\* neither loses a thread or a wake-up, whether a join begins before or after
\* the end of its thread, nor gets a thread past a call it should block in
\* (thread_lib.cpp:42-47, 186-198, mutex.cpp:17-31, cv.cpp:27-50).  test13 ends
\* by exit, test15 by the exception that its unlock throws.  test4 ends like the
\* others as it is booted (test4.cpp:77); with timer interrupts a child may run
\* before lines 65-67, and joins through a null pointer (lines 30, 39).
EndsAsWritten ==
  program # "contention" =>
    <>(CASE program = "test13" -> process = "exited"
         [] program = "test15" -> process = "aborted"
         [] program = "early"  -> Completed \/ PointerNotSet
         [] OTHER -> Completed)

\* Increments of g, each a read and a later write, are not lost in programs
\* that make them under one mutex, whenever the timer interrupts them
\* (test1.cpp:21-32).  test8, test16, test17, test18 and test20 increment g
\* without a mutex or under two, and need the boot without interrupts they have.
NoLostUpdate == value["g"] = Cardinality(Increments)

\* A thread that asks for a mutex gets it, however often the others take it
\* in between: hand-over in queue order prevents overtaking (mutex.cpp:46-53).
LockServed ==
  program = "contention" =>
    \A t \in DOMAIN contention : (pc[t] = "lock" /\ arg[t] = "mutex1") ~> ("mutex1" \in held[t])

\* Nobody monopolises the CPU: a ready thread runs, with timer interrupts,
\* even if the running one never blocks (every return enables interrupts).
CpuServed ==
  program = "contention" => \A t \in DOMAIN contention : t \in Range(ready_queue) ~> context = t
=============================================================================
