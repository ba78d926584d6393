------------------------------ MODULE ThreadLib ------------------------------
(***************************************************************************)
(* The uniprocessor user-level thread library of Project2: thread_lib.cpp, *)
(* mutex.cpp and cv.cpp over the cpu interface of cpu.h.                   *)
(*                                                                         *)
(* Every library call runs with interrupts disabled, so on the one CPU it  *)
(* is interleaved with other threads only where it switches contexts.  A   *)
(* blocking call is therefore three steps here: the call up to swapcontext *)
(* (it has already replaced running_thread when the switch happens), the   *)
(* switch itself, and the code that runs when the caller's context is next *)
(* resumed.  A call that does not block is one step.                       *)
(***************************************************************************)
EXTENDS Naturals, Sequences, FiniteSets, Functions

CONSTANTS Thread,    \* TCBs the program may ever create
          Mutex,     \* mutex objects
          Cv,        \* condition variables
          Main,      \* the thread cpu::cpu creates, which has no thread object
          Host,      \* the context of cpu::cpu itself
          NoThread   \* a null shared_ptr or weak_ptr, and "no switch pending"

ASSUME MainAssumption == Main \in Thread
ASSUME HostAssumption == Host \notin Thread
ASSUME NoThreadAssumption == NoThread \notin Thread \cup {Host}

VARIABLES running_thread,   \* shared_ptr globals of thread_lib.cpp
          previous_thread,
          ready_queue,
          join_queue,       \* TCB::join_queue
          status,           \* mutex::status
          occupy_thread,    \* mutex::occupy_thread, a weak_ptr
          mutex_queue,      \* mutex::mutex_queue
          cv_queue,         \* cv::cv_queue
          interrupts,       \* TRUE while the CPU accepts timer interrupts
          context,          \* the context whose code the CPU executes
          switch_to,        \* the argument of a swapcontext or setcontext about to run
          host,             \* where cpu::cpu is: before or after its swapcontext, or suspended
          pc,               \* the call a thread's saved context returns into
          arg,              \* the mutex or thread that call is about
          held              \* the mutexes whose lock() or wait() returned to the thread

queues  == <<ready_queue, join_queue, mutex_queue, cv_queue>>
mutexes == <<status, occupy_thread>>
globals == <<running_thread, previous_thread>>
cpuVars == <<interrupts, context, switch_to, host>>
vars    == <<globals, queues, mutexes, cpuVars, pc, arg, held>>

\* All that a call which has nothing to do leaves alone, besides the CPU's state.
programVars == <<globals, queues, mutexes, pc, arg, held>>

Resumable == {"start", "yield", "join", "lock", "wait", "relock"}
Phase     == Resumable \cup {"unborn", "user", "done"}

\* Every variable has the type of the global, member or context it stands for.
TypeOK ==
  /\ running_thread \in Thread \cup {NoThread}
  /\ previous_thread \in Thread \cup {NoThread}
  /\ ready_queue \in Seq(Thread)
  /\ join_queue \in [Thread -> Seq(Thread)]
  /\ status \in [Mutex -> BOOLEAN]
  /\ occupy_thread \in [Mutex -> Thread \cup {NoThread}]
  /\ mutex_queue \in [Mutex -> Seq(Thread)]
  /\ cv_queue \in [Cv -> Seq(Thread)]
  /\ interrupts \in BOOLEAN
  /\ context \in Thread \cup {Host}
  /\ switch_to \in Thread \cup {Host, NoThread}
  /\ host \in {"loop", "swapped", "suspended"}
  /\ pc \in [Thread -> Phase]
  /\ arg \in [Thread -> Mutex \cup Thread \cup {NoThread}]
  /\ held \in [Thread -> SUBSET Mutex]

-----------------------------------------------------------------------------
(* Helpers *)

InSomeQueue(t) ==
  \/ t \in Range(ready_queue)
  \/ \E u \in Thread : t \in Range(join_queue[u])
  \/ \E m \in Mutex : t \in Range(mutex_queue[m])
  \/ \E c \in Cv : t \in Range(cv_queue[c])

\* A TCB lives while a shared_ptr to it does: the two globals or a queue entry.
Expired(t) == t \notin {running_thread, previous_thread} /\ ~InSomeQueue(t)

\* A faulty variant: a check that compares owners and forgets the status.
CheckOwnerOnly(m) == ~Expired(occupy_thread[m]) /\ occupy_thread[m] = running_thread

\* mutex::check_ownership
CheckOwnership(m) ==
  /\ ~Expired(occupy_thread[m])
  /\ status[m]
  /\ occupy_thread[m] = running_thread

\* The body of a call that found the CPU in thread t, outside the library.
InUser(t) == context = t /\ switch_to = NoThread /\ pc[t] = "user"

\* t's saved context has just been switched to, inside the call named at.
Resumed(t, at) == context = t /\ switch_to = NoThread /\ pc[t] = at

\* A faulty variant: the reset is forgotten.
PreviousKept == previous_thread

\* previous_thread.reset() after a switch: the last reference to a thread
\* that finished goes away, on a stack other than its own.
PreviousAfterSwitch == NoThread

\* A faulty variant: starter only overwrites running_thread.
PreviousNotSet == previous_thread

\* starter keeps its own TCB alive until another stack is in use.
PreviousOnExit == running_thread

\* swap_helper up to its swapcontext; rq is the ready queue the caller leaves.
SwapHelper(rq) ==
  /\ interrupts' = FALSE
  /\ IF rq # <<>>
     THEN /\ running_thread' = Head(rq)
          /\ ready_queue' = Tail(rq)
          /\ switch_to' = Head(rq)
     ELSE /\ ready_queue' = rq
          /\ switch_to' = Host
          /\ UNCHANGED running_thread
  /\ UNCHANGED <<context, host>>

\* The call returns to the program with interrupts enabled again.
ReturnToUser(t) ==
  /\ pc' = [pc EXCEPT ![t] = "user"]
  /\ arg' = [arg EXCEPT ![t] = NoThread]
  /\ interrupts' = TRUE

\* A faulty variant: a call that does not block leaves interrupts as they are,
\* disabled.
ReturnAtOnceMasked == interrupts' = FALSE /\ UNCHANGED <<context, switch_to, host>>

\* A call that does not block has disabled interrupts, and enables them again.
ReturnAtOnce == interrupts' = TRUE /\ UNCHANGED <<context, switch_to, host>>

\* Faulty variants: the status is not set again after the hand-over; the first
\* waiter stays in the queue; it is not made ready.
NeverBusyAfterRelease(m) == FALSE
QueueUnchanged(m)        == mutex_queue[m]
ReadyUnchanged(m)        == ready_queue

\* unlock and wait give the mutex to its first waiter, or leave it free:
\* the new status, owner and queue of m, and who becomes ready.
StatusAfterRelease(m) == mutex_queue[m] # <<>>
OwnerAfterRelease(m)  == IF mutex_queue[m] # <<>> THEN Head(mutex_queue[m])
                                                  ELSE occupy_thread[m]
QueueAfterRelease(m)  == IF mutex_queue[m] # <<>> THEN Tail(mutex_queue[m]) ELSE <<>>
ReadyAfterRelease(m)  == IF mutex_queue[m] # <<>>
                         THEN Append(ready_queue, Head(mutex_queue[m]))
                         ELSE ready_queue

Release(m) ==
  /\ status' = [status EXCEPT ![m] = StatusAfterRelease(m)]
  /\ occupy_thread' = [occupy_thread EXCEPT ![m] = OwnerAfterRelease(m)]
  /\ mutex_queue' = [mutex_queue EXCEPT ![m] = QueueAfterRelease(m)]

\* A faulty variant: the mutex is taken without a look at its status.
TakeUnchecked(t, m) ==
  /\ status' = [status EXCEPT ![m] = TRUE]
  /\ occupy_thread' = [occupy_thread EXCEPT ![m] = running_thread]
  /\ held' = [held EXCEPT ![t] = @ \cup {m}]
  /\ ReturnToUser(t)

\* lock, and wait when it wakes: take m if it is free.
Take(t, m) ==
  /\ ~status[m]
  /\ status' = [status EXCEPT ![m] = TRUE]
  /\ occupy_thread' = [occupy_thread EXCEPT ![m] = running_thread]
  /\ held' = [held EXCEPT ![t] = @ \cup {m}]
  /\ ReturnToUser(t)

\* lock, and wait when it wakes: queue for m while another thread has it.
Queue(t, m, at) ==
  /\ status[m]
  /\ mutex_queue' = [mutex_queue EXCEPT ![m] = Append(@, running_thread)]
  /\ pc' = [pc EXCEPT ![t] = at]
  /\ arg' = [arg EXCEPT ![t] = m]
  /\ SwapHelper(ready_queue)
  /\ UNCHANGED <<join_queue, cv_queue, mutexes, held>>

\* Faulty variants: yield pushes the wrong global; the joiners are not made ready.
YieldPushesPrevious == Append(ready_queue, previous_thread)
JoinersDropped(t)   == ready_queue

ReadyAfterYield  == Append(ready_queue, running_thread)
ReadyAfterExit(t) == ready_queue \o join_queue[t]

-----------------------------------------------------------------------------
(* cpu::cpu creates the first thread and enters its dispatch loop. *)

Init ==
  /\ running_thread = NoThread
  /\ previous_thread = NoThread
  /\ ready_queue = <<Main>>
  /\ join_queue = [t \in Thread |-> <<>>]
  /\ status = [m \in Mutex |-> FALSE]
  /\ occupy_thread = [m \in Mutex |-> NoThread]
  /\ mutex_queue = [m \in Mutex |-> <<>>]
  /\ cv_queue = [c \in Cv |-> <<>>]
  /\ interrupts = FALSE
  /\ context = Host
  /\ switch_to = NoThread
  /\ host = "loop"
  /\ pc = [t \in Thread |-> IF t = Main THEN "start" ELSE "unborn"]
  /\ arg = [t \in Thread |-> NoThread]
  /\ held = [t \in Thread |-> {}]

\* The body of the host's dispatch loop, up to its swapcontext.
HostDispatch ==
  /\ context = Host /\ switch_to = NoThread /\ host = "loop"
  /\ ready_queue # <<>>
  /\ running_thread' = Head(ready_queue)
  /\ ready_queue' = Tail(ready_queue)
  /\ switch_to' = Head(ready_queue)
  /\ host' = "swapped"
  /\ UNCHANGED <<previous_thread, join_queue, mutex_queue, cv_queue, mutexes,
                 interrupts, context, pc, arg, held>>

\* A thread found the ready queue empty and switched back to the host.
HostResumed ==
  /\ context = Host /\ switch_to = NoThread /\ host = "swapped"
  /\ previous_thread' = PreviousAfterSwitch
  /\ host' = "loop"
  /\ UNCHANGED <<running_thread, queues, mutexes, interrupts, context, switch_to,
                 pc, arg, held>>

\* Nothing is left to run: the host drops its references and suspends the CPU.
HostSuspend ==
  /\ context = Host /\ switch_to = NoThread /\ host = "loop"
  /\ ready_queue = <<>>
  /\ running_thread' = NoThread
  /\ previous_thread' = NoThread
  /\ interrupts' = TRUE
  /\ host' = "suspended"
  /\ UNCHANGED <<queues, mutexes, context, switch_to, pc, arg, held>>

\* swapcontext or setcontext.
Switch ==
  /\ switch_to # NoThread
  /\ context' = switch_to
  /\ switch_to' = NoThread
  /\ UNCHANGED <<globals, queues, mutexes, interrupts, host, pc, arg, held>>

-----------------------------------------------------------------------------
(* Calls of a thread t of the program *)

\* thread::thread: the new TCB goes to the end of the ready queue.
Create(t, u) ==
  /\ InUser(t) /\ pc[u] = "unborn"
  /\ pc' = [pc EXCEPT ![u] = "start"]
  /\ ready_queue' = Append(ready_queue, u)
  /\ ReturnAtOnce
  /\ UNCHANGED <<globals, join_queue, mutex_queue, cv_queue, mutexes, arg, held>>

\* thread::yield, called by the program or, with interrupts enabled, by the
\* timer interrupt.
Yield(t) ==
  /\ InUser(t)
  /\ ready_queue # <<>>
  /\ SwapHelper(ReadyAfterYield)
  /\ pc' = [pc EXCEPT ![t] = "yield"]
  /\ UNCHANGED <<previous_thread, join_queue, mutex_queue, cv_queue, mutexes, arg, held>>

\* With nobody else ready it does nothing.
YieldAlone(t) ==
  /\ InUser(t)
  /\ ready_queue = <<>>
  /\ ReturnAtOnce
  /\ UNCHANGED programVars

\* thread::join on a thread whose TCB still exists, possibly t's own.
Join(t, u) ==
  /\ InUser(t) /\ u # Main /\ pc[u] # "unborn"
  /\ ~Expired(u)
  /\ join_queue' = [join_queue EXCEPT ![u] = Append(@, running_thread)]
  /\ SwapHelper(ready_queue)
  /\ pc' = [pc EXCEPT ![t] = "join"]
  /\ arg' = [arg EXCEPT ![t] = u]
  /\ UNCHANGED <<previous_thread, mutex_queue, cv_queue, mutexes, held>>

\* thread::join on a thread whose TCB is gone returns at once.
JoinExpired(t, u) ==
  /\ InUser(t) /\ u # Main /\ pc[u] # "unborn"
  /\ Expired(u)
  /\ ReturnAtOnce
  /\ UNCHANGED programVars

\* mutex::lock
LockFree(t, m) ==
  /\ InUser(t)
  /\ Take(t, m)
  /\ UNCHANGED <<globals, queues, context, switch_to, host>>

LockBusy(t, m) ==
  /\ InUser(t)
  /\ Queue(t, m, "lock")
  /\ UNCHANGED previous_thread

\* mutex::unlock by the owner
Unlock(t, m) ==
  /\ InUser(t) /\ CheckOwnership(m)
  /\ Release(m)
  /\ ready_queue' = ReadyAfterRelease(m)
  /\ held' = [held EXCEPT ![t] = @ \ {m}]
  /\ ReturnAtOnce
  /\ UNCHANGED <<globals, join_queue, cv_queue, pc, arg>>

\* mutex::unlock and cv::wait by anybody else throw and change nothing.
NotOwner(t, m) ==
  /\ InUser(t) /\ ~CheckOwnership(m)
  /\ ReturnAtOnce
  /\ UNCHANGED programVars

\* cv::wait up to its first swap_helper
Wait(t, c, m) ==
  /\ InUser(t) /\ CheckOwnership(m)
  /\ cv_queue' = [cv_queue EXCEPT ![c] = Append(@, running_thread)]
  /\ Release(m)
  /\ SwapHelper(ReadyAfterRelease(m))
  /\ pc' = [pc EXCEPT ![t] = "wait"]
  /\ arg' = [arg EXCEPT ![t] = m]
  /\ held' = [held EXCEPT ![t] = @ \ {m}]
  /\ UNCHANGED <<previous_thread, join_queue>>

\* cv::signal
Signal(t, c) ==
  /\ InUser(t)
  /\ cv_queue[c] # <<>>
  /\ ready_queue' = Append(ready_queue, Head(cv_queue[c]))
  /\ cv_queue' = [cv_queue EXCEPT ![c] = Tail(@)]
  /\ ReturnAtOnce
  /\ UNCHANGED <<globals, join_queue, mutex_queue, mutexes, pc, arg, held>>

\* cv::broadcast
Broadcast(t, c) ==
  /\ InUser(t)
  /\ cv_queue[c] # <<>>
  /\ ready_queue' = ready_queue \o cv_queue[c]
  /\ cv_queue' = [cv_queue EXCEPT ![c] = <<>>]
  /\ ReturnAtOnce
  /\ UNCHANGED <<globals, join_queue, mutex_queue, mutexes, pc, arg, held>>

\* signal or broadcast with no waiter is not remembered.
NobodyWaits(t, c) ==
  /\ InUser(t)
  /\ cv_queue[c] = <<>>
  /\ ReturnAtOnce
  /\ UNCHANGED programVars

\* The thread function returns: the rest of starter, up to its setcontext.
Finish(t) ==
  /\ InUser(t)
  /\ pc' = [pc EXCEPT ![t] = "done"]
  /\ join_queue' = [join_queue EXCEPT ![t] = <<>>]
  /\ interrupts' = FALSE
  /\ LET rq == ReadyAfterExit(t) IN
     IF rq # <<>>
     THEN /\ previous_thread' = PreviousOnExit
          /\ running_thread' = Head(rq)
          /\ ready_queue' = Tail(rq)
          /\ switch_to' = Head(rq)
     ELSE /\ ready_queue' = rq
          /\ switch_to' = Host
          /\ UNCHANGED globals
  /\ UNCHANGED <<mutex_queue, cv_queue, mutexes, context, host, arg, held>>

-----------------------------------------------------------------------------
(* What a thread does when its context is switched to *)

\* starter, and the end of yield and join: drop the finished predecessor and
\* go back to the program.
Return(t) ==
  /\ \E at \in {"start", "yield", "join"} : Resumed(t, at)
  /\ previous_thread' = PreviousAfterSwitch
  /\ ReturnToUser(t)
  /\ UNCHANGED <<running_thread, queues, mutexes, context, switch_to, host, held>>

\* The end of a lock that had to queue, or of a wait that had to queue for
\* its mutex: the releaser has made t the owner.
ReturnWithMutex(t) ==
  /\ \E at \in {"lock", "relock"} : Resumed(t, at)
  /\ previous_thread' = PreviousAfterSwitch
  /\ held' = [held EXCEPT ![t] = @ \cup {arg[t]}]
  /\ ReturnToUser(t)
  /\ UNCHANGED <<running_thread, queues, mutexes, context, switch_to, host>>

\* wait was signalled and its mutex is free.
WakeFree(t) ==
  /\ Resumed(t, "wait")
  /\ previous_thread' = PreviousAfterSwitch
  /\ Take(t, arg[t])
  /\ UNCHANGED <<running_thread, queues, context, switch_to, host>>

\* wait was signalled and its mutex is busy.
WakeBusy(t) ==
  /\ Resumed(t, "wait")
  /\ previous_thread' = PreviousAfterSwitch
  /\ Queue(t, arg[t], "relock")

Suspended == host = "suspended" /\ UNCHANGED vars

UserStep(t) ==
  \/ \E u \in Thread : Create(t, u) \/ Join(t, u) \/ JoinExpired(t, u)
  \/ \E m \in Mutex : LockFree(t, m) \/ LockBusy(t, m) \/ Unlock(t, m) \/ NotOwner(t, m)
  \/ \E c \in Cv, m \in Mutex : Wait(t, c, m)
  \/ \E c \in Cv : Signal(t, c) \/ Broadcast(t, c) \/ NobodyWaits(t, c)
  \/ Yield(t) \/ YieldAlone(t)
  \/ Finish(t)

LibraryStep(t) == Return(t) \/ ReturnWithMutex(t) \/ WakeFree(t) \/ WakeBusy(t)

HostStep == HostDispatch \/ HostResumed \/ HostSuspend

Next ==
  \/ \E t \in Thread : UserStep(t) \/ LibraryStep(t)
  \/ HostStep
  \/ Switch
  \/ Suspended

Spec == Init /\ [][Next]_vars
-----------------------------------------------------------------------------
(* Safety properties *)

\* The context that executes next, once a pending switch has happened.
Active == IF switch_to = NoThread THEN context ELSE switch_to

\* Mutual exclusion as the program sees it: a mutex whose lock() or wait()
\* has returned to a thread is marked busy and owned by that thread, so no
\* other thread has it.  Ownership moves in lock, unlock, wait and, with a
\* hand-over in between, when a queued thread runs again (mutex.cpp:17-62,
\* cv.cpp:29-50).
MutualExclusion ==
  \A t \in Thread : \A m \in held[t] : status[m] /\ occupy_thread[m] = t

\* check_ownership answers exactly whether the running thread has the mutex:
\* unlock and wait throw iff it does not, also after the owner finished with
\* the mutex locked and its TCB is gone (mutex.cpp:34-37).
OwnershipIsExact ==
  \A t \in Thread : InUser(t) => \A m \in Mutex : CheckOwnership(m) <=> m \in held[t]

\* The queues by name, and the entries of each that hold t.
Places == {<<"ready", Host>>} \cup ({"join"} \X Thread) \cup ({"mutex"} \X Mutex) \cup ({"cv"} \X Cv)

QueueAt(k) == CASE k[1] = "ready" -> ready_queue
                [] k[1] = "join"  -> join_queue[k[2]]
                [] k[1] = "mutex" -> mutex_queue[k[2]]
                [] OTHER          -> cv_queue[k[2]]

Entries(t, k) == {<<k, i>> : i \in {j \in DOMAIN QueueAt(k) : QueueAt(k)[j] = t}}

Positions(t) == UNION {Entries(t, k) : k \in Places}

\* No thread is lost and none can run twice: a thread that is created and not
\* finished either has the CPU or stands at exactly one place of one queue,
\* at every step of every call that moves it (thread_lib.cpp:34-198).
OneHome ==
  \A t \in Thread : Cardinality(Positions(t)) =
                      IF pc[t] \in {"unborn", "done"} \/ t = Active THEN 0 ELSE 1

\* A thread waits only for something that can still happen: the mutex it
\* queues for is busy, and the thread it joins has not finished.  A join that
\* began after the end of its thread, or a mutex freed with a waiter in its
\* queue, would never end (thread_lib.cpp:186-198, mutex.cpp:46-53).
BlockedForCause ==
  /\ \A m \in Mutex : mutex_queue[m] # <<>> => status[m]
  /\ \A u \in Thread : join_queue[u] # <<>> => pc[u] # "done"

\* The stack the CPU is on, and the one it is about to switch to, belong to
\* TCBs that have not been destroyed: a finishing thread survives until the
\* next context has taken over (thread_lib.cpp:49-62, 114-120, 169).
StackAlive ==
  \A t \in {context, switch_to} \cap Thread : ~Expired(t)

\* Whenever the program runs, the TCB and stack of every finished thread have
\* been released (previous_thread.reset(), thread_lib.cpp:36, 116, 169).
Reclaimed ==
  \A t \in Thread : InUser(t) => \A u \in Thread : pc[u] = "done" => Expired(u)

\* The library implements the promised monitors: a mutex with a hand-over
\* pending counts as not held, with its next owner first in line.
Granted(m) == {t \in Thread : /\ pc[t] \in {"lock", "relock"} /\ arg[t] = m
                              /\ t \notin Range(mutex_queue[m])}
\* The thread whose lock() or wait() last returned.
PromisedHolder == [m \in Mutex |-> IF \E t \in Thread : m \in held[t]
                                   THEN CHOOSE t \in Thread : m \in held[t] ELSE NoThread]

PromisedLine == [m \in Mutex |-> IF Granted(m) # {}
                                 THEN <<CHOOSE t \in Granted(m) : TRUE>> \o mutex_queue[m]
                                 ELSE mutex_queue[m]]

\* A waiter has been woken once it is in no queue of a condition variable.
PromisedPhase == [t \in Thread |->
  CASE pc[t] \in {"start", "yield", "user"} -> "active"
    [] pc[t] \in {"lock", "relock"} -> "inline"
    [] pc[t] = "join" -> "joining"
    [] pc[t] = "wait" -> IF \E c \in Cv : t \in Range(cv_queue[c]) THEN "waiting" ELSE "woken"
    [] OTHER -> pc[t]]

Promise == INSTANCE Monitor WITH
  Nobody  <- NoThread,
  holder  <- PromisedHolder,
  line    <- PromisedLine,
  waiting <- cv_queue,
  phase   <- PromisedPhase,
  object  <- arg

\* Every step of the library is a step of the monitors or invisible to the
\* program.
ImplementsMonitor == Promise!MSpec
=============================================================================
